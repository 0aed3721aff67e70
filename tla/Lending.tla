------------------------------ MODULE Lending -------------------------------
(***************************************************************************)
(* What a lending library promises, with no rows, no ids of loans, no      *)
(* counters and no dates: how many copies of a title stand on the shelf,   *)
(* who the patrons are, and who holds what.  Library implements it under   *)
(* the mapping below the specification of Library's refinement.            *)
(***************************************************************************)
EXTENDS Integers, FiniteSets

CONSTANTS
  Title, Patron,  \* everything that can ever be owned, everyone who can join
  Limit,          \* how many titles a patron may hold
  Archive         \* places where the state of the library can be kept

VARIABLES
  shelf,   \* copies on the shelf, of each title owned
  patrons, \* who is a patron
  held,    \* <<patron, title>>: who holds a copy of what
  kept     \* the states kept in each archive, a set of at most one

state == <<shelf, patrons, held>>
vars == <<shelf, patrons, held, kept>>

Init ==
  /\ shelf = [t \in {} |-> 0]
  /\ patrons = {}
  /\ held = {}
  /\ kept = [a \in Archive |-> {}]

HeldBy(p) == {h \in held : h[1] = p}
HoldersOf(t) == {h \in held : h[2] = t}

\* A title comes in with some copies, all on the shelf.
Acquire(t) ==
  /\ t \notin DOMAIN shelf
  /\ DOMAIN shelf' = DOMAIN shelf \cup {t}
  /\ shelf'[t] \in Nat \ {0}
  /\ \A u \in DOMAIN shelf : shelf'[u] = shelf[u]
  /\ UNCHANGED <<patrons, held, kept>>

\* A title goes when nobody holds a copy.
Discard(t) ==
  /\ t \in DOMAIN shelf /\ HoldersOf(t) = {}
  /\ shelf' = [u \in DOMAIN shelf \ {t} |-> shelf[u]]
  /\ UNCHANGED <<patrons, held, kept>>

Join(p) ==
  /\ p \notin patrons
  /\ patrons' = patrons \cup {p}
  /\ UNCHANGED <<shelf, held, kept>>

\* A patron leaves when holding nothing.
Leave(p) ==
  /\ p \in patrons /\ HeldBy(p) = {}
  /\ patrons' = patrons \ {p}
  /\ UNCHANGED <<shelf, held, kept>>

\* A copy goes from the shelf to a patron under the limit without one.
Lend(p, t) ==
  /\ p \in patrons /\ t \in DOMAIN shelf /\ <<p, t>> \notin held
  /\ Cardinality(HeldBy(p)) < Limit
  /\ shelf[t] > 0
  /\ shelf' = [shelf EXCEPT ![t] = @ - 1]
  /\ held' = held \cup {<<p, t>>}
  /\ UNCHANGED <<patrons, kept>>

\* A copy comes back from whoever holds it.
GiveBack(p, t) ==
  /\ <<p, t>> \in held
  /\ shelf' = [shelf EXCEPT ![t] = @ + 1]
  /\ held' = held \ {<<p, t>>}
  /\ UNCHANGED <<patrons, kept>>

\* The state is kept, and brought back, as a whole.
Keep(a) ==
  /\ kept' = [kept EXCEPT ![a] = {state}]
  /\ UNCHANGED state

BringBack(a) ==
  /\ state' \in kept[a]
  /\ UNCHANGED kept

Next ==
  \/ \E t \in Title : Acquire(t) \/ Discard(t)
  \/ \E p \in Patron : Join(p) \/ Leave(p)
  \/ \E p \in Patron, t \in Title : Lend(p, t) \/ GiveBack(p, t)
  \/ \E a \in Archive : Keep(a) \/ BringBack(a)

Spec == Init /\ [][Next]_vars
=============================================================================
