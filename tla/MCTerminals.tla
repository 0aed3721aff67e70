---------------------------- MODULE MCTerminals -----------------------------
(* Instances of Terminals for TLC: the stocks the terminals start from, and *)
(* the symmetry of terminals, which no property tells apart.                *)
EXTENDS Terminals, TLC

CONSTANTS i0, i1, e1, e2, p1

LoansAndReturns == {"loan", "return"}
CallsOnRows ==
  LoansAndReturns \cup {"add book", "edit book", "delete book",
                       "add member", "edit member", "delete member"}
AllCalls == CallsOnRows \cup {"backup", "restore"}

\* A book in n copies, and one or two members.
OneMember(n) == InsertMember(InsertBook(EmptyDatabase, i1, n), e1, p1)
TwoMembers(n) == InsertMember(OneMember(n), e2, p1)

\* One copy, two members; two copies, one member; two books, one member.
OneCopyOneMember == OneMember(1)
OneCopyTwoMembers == TwoMembers(1)
TwoCopiesTwoMembers == TwoMembers(2)
TwoBooksOneMember == InsertBook(OneMember(1), i0, 1)

Opening == 20000
Desks == Permutations(Terminal)
=============================================================================
