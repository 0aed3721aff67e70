---------------------------- MODULE SearchProofs -----------------------------
(***************************************************************************)
(* The invariants of SearchBuffer for every set of rows, every length of   *)
(* answer, every LIMIT and every pair of capacities, with and without      *)
(* memory running out.                                                     *)
(***************************************************************************)
EXTENDS SearchBuffer, TLAPS

USE SearchAssumption

\* While a query steps, the block begins with the rows delivered so far.
PrefixStored ==
  phase # "menu" =>
    /\ next = count
    /\ count <= Len(Wanted(found, limit))
    /\ \A i \in 1..count : block[i] = Wanted(found, limit)[i]

\* A result outside the menu has its block, and none at the menu.
BlockHeld == capacity = 0 <=> phase = "menu"

\* What the good end of a query was reached with.
EndsJustified ==
  phase = "done" => count = Len(Wanted(found, limit))

Inv ==
  /\ TypeOK /\ found \in Seq(Row)
  /\ PrefixStored /\ BlockHeld /\ EndsJustified
  /\ AnswerWhole /\ RefusedForLength /\ Proportionate /\ NoLeak

\* A query yields a sequence of rows.
LEMMA WantedRows ==
  ASSUME NEW rows \in Seq(Row), NEW n \in Nat
  PROVE  Wanted(rows, n) \in Seq(Row)
BY DEF Wanted

\* The new capacity is a number within the maximum; either it has room for
\* one row more than a full block, or the block has reached the maximum.
LEMMA CapacityGrows ==
  ASSUME TypeOK, capacity # 0, Full
  PROVE  /\ count = capacity
         /\ NewCapacity \in Nat /\ NewCapacity <= MAX_SEARCH_RESULTS
         /\ NewCapacity <= 2 * capacity
         /\ count < NewCapacity \/ count = MAX_SEARCH_RESULTS
BY DEF TypeOK, Full, NewCapacity

\* The program starts with nothing allocated and nothing shown.
LEMMA InvInit == Init => Inv
BY DEF Init, Inv, TypeOK, PrefixStored, BlockHeld, EndsJustified, AnswerWhole,
       RefusedForLength, Proportionate, NoLeak, NoBlock

\* A screen that starts a query allocates the first block.
LEMMA InvAsk ==
  ASSUME Inv, NEW rows \in Seq(Row), NEW n \in {0, ListLimit}, Ask(rows, n)
  PROVE  Inv'
<1>1. Wanted(rows, n) \in Seq(Row)
  BY WantedRows
<1> QED
  BY <1>1 DEF Inv, Ask, TypeOK, PrefixStored, BlockHeld, EndsJustified,
              AnswerWhole, RefusedForLength, Proportionate, NoLeak

\* A screen without memory leaves everything as it was.
LEMMA InvAskWithoutMemory ==
  ASSUME Inv, NEW rows \in Seq(Row), NEW n \in {0, ListLimit},
         AskWithoutMemory(rows, n)
  PROVE  Inv'
BY DEF Inv, AskWithoutMemory, TypeOK, PrefixStored, BlockHeld, EndsJustified,
       AnswerWhole, RefusedForLength, Proportionate, NoLeak

\* The callback stores a row behind the others, or aborts for want of room.
LEMMA InvCallback == ASSUME Inv, Callback PROVE Inv'
<1> DEFINE W == Wanted(found, limit)
<1>1. W \in Seq(Row) /\ W' = W
  BY WantedRows DEF Inv, TypeOK, Callback, query, Wanted
<1>2. phase = "stepping" /\ next < Len(W) /\ capacity # 0
  BY DEF Callback, Inv, BlockHeld
<1>3. W[next + 1] \in Row
  BY <1>1, <1>2 DEF Inv, PrefixStored, TypeOK
<1>4. CASE ~ Full /\ Store(block) /\ UNCHANGED capacity
  BY <1>1, <1>2, <1>3, <1>4
  DEF Callback, Full, Store, Inv, TypeOK, PrefixStored, BlockHeld, EndsJustified,
      AnswerWhole, RefusedForLength, Proportionate, NoLeak, query, shown
<1>5. CASE Full /\ (count >= NewCapacity \/ ram = "short") /\ Abort
  BY <1>1, <1>2, <1>5, CapacityGrows
  DEF Callback, Abort, Inv, TypeOK, PrefixStored, BlockHeld, EndsJustified,
      AnswerWhole, RefusedForLength, Proportionate, NoLeak, query, shown
<1>6. CASE /\ Full /\ count < NewCapacity
           /\ Store(Reallocated(NewCapacity)) /\ capacity' = NewCapacity
  <2>1. count = capacity /\ NewCapacity \in Nat
        /\ NewCapacity <= MAX_SEARCH_RESULTS /\ NewCapacity <= 2 * capacity
    BY <1>2, <1>6, CapacityGrows DEF Inv
  <2>2. /\ DOMAIN block' = 1..capacity'
        /\ \A i \in 1..count : block'[i] = block[i]
        /\ block'[count + 1] = W[next + 1]
        /\ \A i \in 1..capacity' : block'[i] \in Row \cup {Unset}
    <3> DEFINE n == NewCapacity
               fresh == Reallocated(n)
    <3>1. /\ DOMAIN block = 1..capacity /\ \A i \in 1..capacity : block[i] \in Row \cup {Unset}
          /\ capacity \in Nat
      BY SearchAssumption DEF Inv, TypeOK
    <3>2. block' = [fresh EXCEPT ![count + 1] = W[next + 1]] /\ capacity' = n
      BY <1>6 DEF Store
    <3>3. /\ DOMAIN fresh = 1..n
          /\ \A i \in 1..n : fresh[i] = IF i \in 1..capacity THEN block[i] ELSE Unset
      BY <3>1 DEF Reallocated
    <3>4. n \in Nat /\ count = capacity /\ count < n
      BY <1>6, <2>1
    <3> HIDE DEF W, n, fresh
    <3>5. \A i \in 1..n : fresh[i] \in Row \cup {Unset}
      BY <3>1, <3>3
    <3>6. /\ count + 1 \in 1..n
          /\ \A i \in 1..count : i \in 1..n /\ i \in 1..capacity /\ i # count + 1
      BY <3>1, <3>4
    <3> QED
      BY <1>3, <3>2, <3>3, <3>5, <3>6
  <2> QED
    BY <1>1, <1>2, <1>3, <1>6, <2>1, <2>2
    DEF Callback, Store, Inv, TypeOK, PrefixStored, BlockHeld, EndsJustified,
        AnswerWhole, RefusedForLength, Proportionate, NoLeak, query, shown
<1> QED
  BY <1>4, <1>5, <1>6 DEF Callback

\* When no row is left every row of the answer is stored.
LEMMA InvNoMoreRows == ASSUME Inv, NoMoreRows PROVE Inv'
<1>1. Wanted(found, limit)' = Wanted(found, limit)
  BY DEF NoMoreRows, query, Wanted
<1> QED
  BY <1>1 DEF Inv, NoMoreRows, TypeOK, PrefixStored, BlockHeld, EndsJustified,
      AnswerWhole, RefusedForLength, Proportionate, NoLeak, query, shown

\* A query that fails by itself, before any row or after some, stores nothing more.
LEMMA InvQueryFails == ASSUME Inv, QueryFails PROVE Inv'
<1>1. Wanted(found, limit)' = Wanted(found, limit)
  BY DEF QueryFails, query, Wanted
<1> QED
  BY <1>1 DEF Inv, QueryFails, TypeOK, PrefixStored, BlockHeld, EndsJustified,
      AnswerWhole, RefusedForLength, Proportionate, NoLeak, query, shown

\* A result outside the menu has a block to free.
LEMMA FreeFrees ==
  ASSUME Inv, phase # "menu", Free
  PROVE  heap' = 0 /\ capacity' = 0 /\ count' = 0 /\ block' = NoBlock
<1>1. block # NoBlock
  BY DEF Inv, BlockHeld, TypeOK, NoBlock
<1> QED
  BY <1>1 DEF Inv, Free, NoLeak

\* The rows printed are the rows of the answer.
LEMMA InvPrint == ASSUME Inv, Show PROVE Inv'
<1> DEFINE W == Wanted(found, limit)
<1>1. W \in Seq(Row) /\ W' = W
  BY WantedRows DEF Inv, TypeOK, Show, query, Wanted
<1>2. heap' = 0 /\ capacity' = 0 /\ count' = 0 /\ block' = NoBlock
  BY FreeFrees DEF Show
<1>3. count = Len(W) /\ \A i \in 1..count : block[i] = W[i]
  BY DEF Inv, Show, PrefixStored, EndsJustified
<1>4. [i \in 1..count |-> block[i]] = W
  BY <1>1, <1>3
<1> QED
  BY <1>1, <1>2, <1>3, <1>4
  DEF Inv, Show, TypeOK, PrefixStored, BlockHeld, EndsJustified, AnswerWhole,
      RefusedForLength, Proportionate, NoLeak, query, NoBlock

\* The error screen frees the result as the other does.
LEMMA InvPrintError == ASSUME Inv, ShowError PROVE Inv'
<1>1. Wanted(found, limit)' = Wanted(found, limit)
  BY DEF ShowError, query, Wanted
<1>2. heap' = 0 /\ capacity' = 0 /\ count' = 0 /\ block' = NoBlock
  BY FreeFrees DEF ShowError, FreedAfterError
<1> QED
  BY <1>1, <1>2
  DEF Inv, ShowError, TypeOK, PrefixStored, BlockHeld, EndsJustified, AnswerWhole,
      RefusedForLength, Proportionate, NoLeak, query, NoBlock

\* A step that changes no variable changes no invariant.
LEMMA InvStutter == ASSUME Inv, UNCHANGED vars PROVE Inv'
BY DEF Inv, vars, TypeOK, PrefixStored, BlockHeld, EndsJustified, AnswerWhole,
       RefusedForLength, Proportionate, NoLeak, Wanted

\* Every step keeps the invariant.
LEMMA InvNext == ASSUME Inv, [Next]_vars PROVE Inv'
<1>1. ASSUME NEW n \in Lengths, NEW l \in {0, ListLimit}, NEW rows \in [1..n -> Row],
             Ask(rows, l) \/ AskWithoutMemory(rows, l)
      PROVE  Inv'
  <2>1. rows \in Seq(Row)
    OBVIOUS
  <2> QED
    BY <1>1, <2>1, InvAsk, InvAskWithoutMemory
<1> QED
  BY <1>1, InvCallback, InvQueryFails, InvNoMoreRows, InvPrint, InvPrintError, InvStutter DEF Next

\* The inductive invariant holds in every state of every behaviour.
THEOREM Invariance == Spec => []Inv
BY InvInit, InvNext, PTL DEF Spec

\* The rows on a screen are the whole answer, in its order, whatever the
\* capacities and however often the block was moved.
THEOREM WholeAnswers == Spec => []AnswerWhole
BY Invariance, PTL DEF Inv

\* With memory enough, a callback aborts a query only if its answer is longer
\* than MAX_SEARCH_RESULTS, and no longer answer is shown, for all capacities.
THEOREM RefusedOnlyForLength == Spec => []RefusedForLength
BY Invariance, PTL DEF Inv

\* The block is never twice as large as its rows need.
THEOREM BlockInProportion == Spec => []Proportionate
BY Invariance, PTL DEF Inv

\* Every block allocated is freed once, also when memory runs out.
THEOREM NothingLeaks == Spec => []NoLeak
BY Invariance, PTL DEF Inv

\* No row is written outside the block: its cells are 1..capacity, whatever the
\* callback stored.
THEOREM Typing == Spec => []TypeOK
BY Invariance, PTL DEF Inv
=============================================================================
