---------------------------- MODULE CopiesProofs ----------------------------
(***************************************************************************)
(* Terminals that lend and take back only, any number of them, with deaths *)
(* and failed COMMITs: no copy is ever lost.  The checks of loan_book and  *)
(* return_book, made before BEGIN, may be out of date when they write, and *)
(* a copy may be counted twice; but what a transaction does never leaves   *)
(* fewer copies accounted for than there were.                             *)
(***************************************************************************)
EXTENDS TerminalsProofs

-----------------------------------------------------------------------------
(* Transactions that lose no copy.                                         *)

\* The copies on the shelf and the copies out make at least the copies owned.
Enough(d) ==
  \A b \in DOMAIN d.books :
    d.books[b].available + Cardinality(LoansOut(d, b)) >= d.books[b].total

\* From d to e no loan goes or changes its book, and no book has fewer copies
\* accounted for.
NoneLost(d, e) ==
  /\ DOMAIN d.loans \subseteq DOMAIN e.loans
  /\ \A l \in DOMAIN d.loans : e.loans[l].book = d.loans[l].book
  /\ DOMAIN e.books = DOMAIN d.books
  /\ \A b \in DOMAIN d.books :
       /\ e.books[b].total = d.books[b].total
       /\ d.books[b].available + Cardinality(LoansOut(d, b))
            <= e.books[b].available + Cardinality(LoansOut(e, b))

\* The loan call c takes back is a loan of the book it counts.
Named(d, c) == c.loan \in DOMAIN d.loans /\ d.loans[c.loan].book = c.book

\* The numbers of a book.
LEMMA BookCounts ==
  ASSUME NEW d, Linked(d), NEW b \in DOMAIN d.books
  PROVE  /\ d.books[b].available \in Nat /\ d.books[b].total \in Nat
         /\ IsFiniteSet(LoansOut(d, b)) /\ Cardinality(LoansOut(d, b)) \in Nat
<1>1. d.books[b] \in BookRow
  BY BookRowOf
<1>2. d.books[b].available \in Nat /\ d.books[b].total \in Nat
  BY <1>1 DEF BookRow
<1> QED
  BY <1>2, LoansFinite DEF Linked

\* Copies that were enough stay enough.
LEMMA StaysEnough ==
  ASSUME NEW d, NEW e, Linked(d), Linked(e), NoneLost(d, e), Enough(d)
  PROVE  Enough(e)
<1> SUFFICES ASSUME NEW b \in DOMAIN e.books
             PROVE  e.books[b].available + Cardinality(LoansOut(e, b)) >= e.books[b].total
  BY DEF Enough
<1>1. b \in DOMAIN d.books
  BY DEF NoneLost
<1>2. /\ e.books[b].total = d.books[b].total
      /\ d.books[b].available + Cardinality(LoansOut(d, b))
           <= e.books[b].available + Cardinality(LoansOut(e, b))
      /\ d.books[b].available + Cardinality(LoansOut(d, b)) >= d.books[b].total
  BY <1>1 DEF NoneLost, Enough
<1>3. /\ d.books[b].available \in Nat /\ Cardinality(LoansOut(d, b)) \in Nat
      /\ e.books[b].available \in Nat /\ Cardinality(LoansOut(e, b)) \in Nat
      /\ d.books[b].total \in Nat
  BY <1>1, BookCounts
<1>4. \A x, y, n \in Int : x <= y /\ x >= n => y >= n
  OBVIOUS
<1> QED
  BY <1>2, <1>3, <1>4

\* loan_book's transaction: a loan more, and a copy less if there was one.
LEMMA LendingLosesNone ==
  ASSUME NEW d, Linked(d), NEW b, NEW m, NEW due
  PROVE  NoneLost(d, DecrementAvailable(InsertLoan(d, b, m, due), b))
<1> DEFINE k == d.lastLoan + 1
           row == [book |-> b, member |-> m, due |-> due,
                   returned |-> FALSE, renewals |-> 0]
           c == InsertLoan(d, b, m, due)
           e == DecrementAvailable(c, b)
<1>1. /\ DOMAIN c = {"books", "members", "loans", "lastBook", "lastMember", "lastLoan"}
      /\ c.loans = Put(d.loans, k, row) /\ c.books = d.books
  BY DEF InsertLoan, Linked, IsDatabase
<1>2. row.book = b /\ ~ row.returned
  OBVIOUS
<1>3. k \notin DOMAIN d.loans
  <2>1. d.lastLoan \in Nat /\ DOMAIN d.loans \subseteq 1..d.lastLoan
    BY DEF Linked, IsDatabase, Table
  <2> QED
    BY <2>1
<1> HIDE DEF c, k, row
<1>4. /\ e.loans = c.loans /\ DOMAIN e.books = DOMAIN d.books
      /\ \A x \in DOMAIN d.books :
           /\ e.books[x].total = d.books[x].total
           /\ e.books[x].available =
                IF x = b /\ d.books[x].available > 0
                THEN d.books[x].available - 1 ELSE d.books[x].available
  <2>1. \A x \in DOMAIN d.books : d.books[x] \in BookRow
    BY BookRowOf
  <2>2. CASE b \in DOMAIN d.books /\ d.books[b].available > 0
    <3> DEFINE new == [d.books[b] EXCEPT !.available = @ - 1]
    <3>1. e.loans = c.loans /\ e.books = [d.books EXCEPT ![b] = new]
      BY <1>1, <2>2 DEF DecrementAvailable
    <3>2. new.total = d.books[b].total /\ new.available = d.books[b].available - 1
      BY <2>1, <2>2 DEF BookRow
    <3> HIDE DEF e, new
    <3>3. DOMAIN e.books = DOMAIN d.books
      BY <3>1
    <3>4. ASSUME NEW x \in DOMAIN d.books
          PROVE  e.books[x] = IF x = b THEN new ELSE d.books[x]
      BY <3>1
    <3> QED
      BY <2>2, <3>1, <3>2, <3>3, <3>4
  <2>3. CASE ~ (b \in DOMAIN d.books /\ d.books[b].available > 0)
    <3>1. e = c
      BY <1>1, <2>3 DEF DecrementAvailable
    <3> QED
      BY <1>1, <2>3, <3>1
  <2> QED
    BY <2>2, <2>3
<1> HIDE DEF e
<1>5. /\ DOMAIN e.loans = DOMAIN d.loans \cup {k} /\ e.loans[k] = row
      /\ \A l \in DOMAIN d.loans : e.loans[l] = d.loans[l]
  BY <1>1, <1>3, <1>4 DEF Put
<1>6. \A x : LoansOut(e, x) = IF x = b THEN LoansOut(d, x) \cup {k} ELSE LoansOut(d, x)
  BY <1>2, <1>3, <1>5 DEF LoansOut, ActiveLoans
<1>7. ASSUME NEW x \in DOMAIN d.books
      PROVE  d.books[x].available + Cardinality(LoansOut(d, x))
               <= e.books[x].available + Cardinality(LoansOut(e, x))
  <2>1. /\ d.books[x].available \in Nat
        /\ IsFiniteSet(LoansOut(d, x)) /\ Cardinality(LoansOut(d, x)) \in Nat
    BY BookCounts
  <2>2. CASE x = b
    <3>1. k \notin LoansOut(d, x)
      BY <1>3 DEF LoansOut, ActiveLoans
    <3>2. Cardinality(LoansOut(e, x)) = Cardinality(LoansOut(d, x)) + 1
      BY <1>6, <2>1, <2>2, <3>1, FS_AddElement
    <3> QED
      BY <1>4, <2>1, <2>2, <3>2
  <2>3. CASE x # b
    BY <1>4, <1>6, <2>1, <2>3
  <2> QED
    BY <2>2, <2>3
<1>8. NoneLost(d, e)
  BY <1>4, <1>5, <1>7 DEF NoneLost
<1> QED
  BY <1>8 DEF e, c

\* return_book's transaction on a loan of the book it counts: a copy more, and
\* an active loan less if it was one.
LEMMA ReturningLosesNone ==
  ASSUME NEW d, Linked(d), NEW c, Named(d, c)
  PROVE  NoneLost(d, IncrementAvailable(MarkReturned(d, c.loan), c.book))
<1> DEFINE l == c.loan
           b == c.book
           e == IncrementAvailable(MarkReturned(d, l), b)
<1>1. l \in DOMAIN d.loans /\ b = d.loans[l].book /\ b \in DOMAIN d.books
  BY DEF Named, Linked, ReferencesHold
<1>2. e = TakenBack(d, l)
  BY <1>1 DEF TakenBack
<1> HIDE DEF e, l, b
<1>3. /\ e.loans = [d.loans EXCEPT ![l].returned = TRUE]
      /\ e.books = [d.books EXCEPT ![b].available = @ + 1]
  <2>1. IsDatabase(d)
    BY DEF Linked
  <2>2. LET f == TakenBack(d, l)
        IN  /\ f.loans = [d.loans EXCEPT ![l].returned = TRUE]
            /\ f.books = [d.books EXCEPT ![d.loans[l].book].available = @ + 1]
    BY <1>1, <2>1, TakenBackFields
  <2> QED
    BY <1>1, <1>2, <2>2
<1>4. /\ DOMAIN e.loans = DOMAIN d.loans
      /\ e.loans[l].returned
      /\ \A x \in DOMAIN d.loans : /\ e.loans[x].book = d.loans[x].book
                                   /\ x # l => e.loans[x] = d.loans[x]
  <2>1. Table(d.loans, 1..d.lastLoan, LoanRow)
    BY DEF Linked, IsDatabase
  <2>2. \A x \in DOMAIN d.loans : d.loans[x] \in LoanRow
    BY <2>1 DEF Table
  <2> QED
    BY <1>1, <1>3, <2>2 DEF LoanRow
<1>5. /\ DOMAIN e.books = DOMAIN d.books
      /\ e.books[b].available = d.books[b].available + 1
      /\ \A x \in DOMAIN d.books : /\ e.books[x].total = d.books[x].total
                                   /\ x # b => e.books[x] = d.books[x]
  <2> DEFINE new == [d.books[b] EXCEPT !.available = @ + 1]
  <2>1. d.books[b] \in BookRow
    BY <1>1, BookRowOf
  <2>2. new.total = d.books[b].total /\ new.available = d.books[b].available + 1
    BY <2>1 DEF BookRow
  <2>3. e.books = [d.books EXCEPT ![b] = new]
    BY <1>3
  <2> HIDE DEF new
  <2>4. DOMAIN e.books = DOMAIN d.books
    BY <2>3
  <2>5. \A x \in DOMAIN d.books : e.books[x] = IF x = b THEN new ELSE d.books[x]
    BY <2>3
  <2> QED
    BY <1>1, <2>2, <2>4, <2>5
<1>6. \A x : LoansOut(e, x) = LoansOut(d, x) \ {l}
  BY <1>1, <1>4 DEF LoansOut, ActiveLoans
<1>7. ASSUME NEW x \in DOMAIN d.books
      PROVE  d.books[x].available + Cardinality(LoansOut(d, x))
               <= e.books[x].available + Cardinality(LoansOut(e, x))
  <2>1. /\ d.books[x].available \in Nat
        /\ IsFiniteSet(LoansOut(d, x)) /\ Cardinality(LoansOut(d, x)) \in Nat
    BY BookCounts
  <2>2. CASE l \in LoansOut(d, x)
    <3>1. x = b
      BY <1>1, <2>2 DEF LoansOut
    <3>2. Cardinality(LoansOut(e, x)) = Cardinality(LoansOut(d, x)) - 1
      BY <1>6, <2>1, <2>2, FS_RemoveElement
    <3> QED
      BY <1>5, <2>1, <3>1, <3>2
  <2>3. CASE l \notin LoansOut(d, x)
    <3>1. LoansOut(e, x) = LoansOut(d, x)
      BY <1>6, <2>3
    <3>2. e.books[x].available \in Nat /\ d.books[x].available <= e.books[x].available
      BY <1>5, <2>1
    <3> QED
      BY <2>1, <3>1, <3>2
  <2> QED
    BY <2>2, <2>3
<1>8. NoneLost(d, e)
  BY <1>4, <1>5, <1>7 DEF NoneLost
<1> QED
  BY <1>8 DEF e, l, b

-----------------------------------------------------------------------------
(* Terminals that lend and take back.                                      *)

LoanCalls == {"loan", "return"}
LoanLabels ==
  {"menu", "loan", "read member", "count loans", "find duplicate", "loan begin",
   "insert loan", "take copy", "return", "return begin", "mark returned",
   "give copy", "commit", "committing"}

\* A return that can still write knows the book of its loan, and what a call is
\* about to commit loses no copy.  A return inside a transaction that a failed
\* COMMIT left open may know a book nobody ever sees; its BEGIN fails.
Careful(t) ==
  /\ pc[t] \in LoanLabels
  /\ pc[t] = "return begin" /\ ~ begun[t] => Named(file, call[t])
  /\ pc[t] \in {"mark returned", "give copy"} => Named(file, call[t])
  /\ pc[t] \in {"commit", "committing"} => NoneLost(file, work[t])

AllCareful == Enough(file) /\ \A t \in Terminal : Careful(t)

\* Labels that ask nothing of a terminal.
Free == {"menu", "loan", "read member", "count loans", "find duplicate",
         "loan begin", "insert loan", "take copy", "return"}

\* At such a label it is careful.
LEMMA FreeCareful ==
  ASSUME NEW t \in Terminal, pc'[t] \in Free
  PROVE  Careful(t)'
BY DEF Free, Careful, LoanLabels

\* A call that returns leaves its terminal at the menu.
LEMMA ReturnCareful ==
  ASSUME Inv, NEW t \in Terminal, Return(t)
  PROVE  Careful(t)'
<1>1. pc'[t] = "menu"
  BY DEF Inv, Typed, Return, Goto
<1> QED
  BY <1>1, FreeCareful DEF Free

\* The user asks for one of the two calls.
LEMMA AskCareful ==
  ASSUME Inv, Calls \subseteq LoanCalls, NEW t \in Terminal, NEW c \in Requests,
         Ask(t, c)
  PROVE  Careful(t)' /\ file' = file
<1>1. pc'[t] = c.op /\ c.op \in LoanCalls /\ file' = file
  BY DEF Ask, Goto, Inv, Typed
<1> QED
  BY <1>1, FreeCareful DEF LoanCalls, Free

\* The SELECTs of loan_book, and its BEGIN.
LEMMA LoanChecksCareful ==
  ASSUME Inv, NEW t \in Terminal,
         \/ LoanReadBook(t) \/ LoanReadMember(t) \/ LoanCount(t)
         \/ LoanDuplicate(t) \/ LoanBegin(t)
  PROVE  Careful(t)' /\ file' = file
<1>1. file' = file /\ (Return(t) \/ \E label \in Free : Goto(t, label))
  BY DEF LoanReadBook, LoanReadMember, LoanCount, LoanDuplicate, LoanBegin,
         Check, Begin, Free
<1>2. ASSUME NEW label \in Free, Goto(t, label) PROVE Careful(t)'
  <2>1. pc'[t] \in Free
    BY <1>2 DEF Goto, Inv, Typed
  <2> QED
    BY <2>1, FreeCareful
<1> QED
  BY <1>1, <1>2, ReturnCareful

\* The two statements of loan_book that write.
LEMMA LoanWritesCareful ==
  ASSUME Inv, NEW t \in Terminal, LoanInsert(t) \/ LoanTakeCopy(t)
  PROVE  Careful(t)' /\ file' = file
<1>1. CASE LoanInsert(t)
  <2>1. file' = file /\ (Return(t) \/ Goto(t, "take copy"))
    BY <1>1 DEF LoanInsert, AfterInsert
  <2>2. CASE Goto(t, "take copy")
    <3>1. pc'[t] = "take copy"
      BY <2>2 DEF Goto, Inv, Typed
    <3> QED
      BY <2>1, <3>1, FreeCareful DEF Free
  <2> QED
    BY <2>1, <2>2, ReturnCareful
<1>2. CASE LoanTakeCopy(t)
  <2> DEFINE c == call[t]
             new == DecrementAvailable(InsertLoan(file, c.book, c.member, Due), c.book)
  <2>1. work[t] = InsertLoan(file, c.book, c.member, Due)
    BY <1>2 DEF LoanTakeCopy, Inv, Fine, WritesOfCall
  <2>2. /\ pc'[t] = "commit" /\ file' = file
        /\ work'[t] = DecrementAvailable(work[t], c.book)
    BY <1>2 DEF LoanTakeCopy, Goto, Wrote, Inv, Typed
  <2>3. NoneLost(file, new)
    BY LendingLosesNone DEF Inv
  <2>4. work'[t] = new
    BY <2>1, <2>2
  <2> HIDE DEF new
  <2> QED
    BY <2>2, <2>3, <2>4 DEF Careful, LoanLabels
<1> QED
  BY <1>1, <1>2

\* return_book reads the loan; outside a transaction it reads the file.
LEMMA ReturnReadCareful ==
  ASSUME Inv, NEW t \in Terminal, ReturnRead(t)
  PROVE  Careful(t)' /\ file' = file
<1> DEFINE l == call[t].loan
<1>1. file' = file
  BY DEF ReturnRead
<1>2. CASE Return(t)
  BY <1>1, <1>2, ReturnCareful
<1>3. CASE ~ Return(t)
  <2>1. /\ l \in ActiveLoans(View(t)) /\ Goto(t, "return begin")
        /\ call' = [call EXCEPT ![t].book = View(t).loans[l].book]
        /\ begun' = begun
    BY <1>3 DEF ReturnRead, conn
  <2>2. pc'[t] = "return begin" /\ begun'[t] = begun[t]
    BY <2>1 DEF Goto, Inv, Typed
  <2>3. call'[t].loan = l /\ call'[t].book = View(t).loans[l].book
    <3>1. call[t] \in CallRecord
      BY DEF Inv, Typed
    <3>2. call'[t] = [call[t] EXCEPT !.book = View(t).loans[l].book]
      BY <2>1 DEF Inv, Typed
    <3> QED
      BY <3>1, <3>2 DEF CallRecord
  <2>4. CASE begun[t]
    BY <1>1, <2>2, <2>4 DEF Careful, LoanLabels
  <2>5. CASE ~ begun[t]
    <3>1. lock[t] = "none"
      BY <2>5 DEF Inv, Fine, ReturnRead
    <3>2. View(t) = file
      BY <3>1 DEF View
    <3>3. Named(file', call'[t])
      BY <1>1, <2>1, <2>3, <3>2 DEF Named, ActiveLoans
    <3> QED
      BY <1>1, <2>2, <3>3 DEF Careful, LoanLabels
  <2> QED
    BY <2>4, <2>5
<1> QED
  BY <1>2, <1>3

\* The BEGIN of return_book and its two UPDATEs.
LEMMA ReturnWritesCareful ==
  ASSUME Inv, NEW t \in Terminal, Careful(t),
         ReturnBegin(t) \/ ReturnMark(t) \/ ReturnGiveCopy(t)
  PROVE  Careful(t)' /\ file' = file
<1>1. CASE ReturnBegin(t)
  <2>1. /\ file' = file
        /\ Return(t) \/ (~ begun[t] /\ Goto(t, "mark returned") /\ call' = call)
    BY <1>1 DEF ReturnBegin, Begin
  <2>2. CASE ~ begun[t] /\ Goto(t, "mark returned") /\ call' = call
    <3>1. Named(file, call[t])
      BY <1>1, <2>2 DEF Careful, ReturnBegin
    <3>2. pc'[t] = "mark returned"
      BY <2>2 DEF Goto, Inv, Typed
    <3> QED
      BY <2>1, <2>2, <3>1, <3>2 DEF Careful, LoanLabels
  <2> QED
    BY <2>1, <2>2, ReturnCareful
<1>2. CASE ReturnMark(t)
  <2>1. /\ file' = file
        /\ Return(t) \/ (Goto(t, "give copy") /\ call' = call)
    BY <1>2 DEF ReturnMark, AfterMark
  <2>2. CASE Goto(t, "give copy") /\ call' = call
    <3>1. Named(file, call[t])
      BY <1>2 DEF Careful, ReturnMark
    <3>2. pc'[t] = "give copy"
      BY <2>2 DEF Goto, Inv, Typed
    <3> QED
      BY <2>1, <2>2, <3>1, <3>2 DEF Careful, LoanLabels
  <2> QED
    BY <2>1, <2>2, ReturnCareful
<1>3. CASE ReturnGiveCopy(t)
  <2> DEFINE c == call[t]
             new == IncrementAvailable(MarkReturned(file, c.loan), c.book)
  <2>1. work[t] = MarkReturned(file, c.loan)
    BY <1>3 DEF ReturnGiveCopy, Inv, Fine, WritesOfCall
  <2>2. /\ pc'[t] = "commit" /\ file' = file
        /\ work'[t] = IncrementAvailable(work[t], c.book)
    BY <1>3 DEF ReturnGiveCopy, Goto, Wrote, Inv, Typed
  <2>3. Named(file, c)
    BY <1>3 DEF Careful, ReturnGiveCopy
  <2>4. NoneLost(file, new)
    BY <2>3, ReturningLosesNone DEF Inv
  <2>5. work'[t] = new
    BY <2>1, <2>2
  <2> HIDE DEF new
  <2> QED
    BY <2>2, <2>4, <2>5 DEF Careful, LoanLabels
<1> QED
  BY <1>1, <1>2, <1>3

\* COMMIT, done or refused.
LEMMA CommitCareful ==
  ASSUME Inv, NEW t \in Terminal, Careful(t), Commit(t)
  PROVE  Careful(t)' /\ file' = file
<1>1. /\ file' = file
      /\ Return(t) \/ (Goto(t, "committing") /\ Wrote(t, work[t], "exclusive"))
  BY DEF Commit, CommitBusy
<1>2. CASE Goto(t, "committing") /\ Wrote(t, work[t], "exclusive")
  <2>1. NoneLost(file, work[t])
    BY DEF Careful, Commit
  <2>2. pc'[t] = "committing" /\ work'[t] = work[t]
    BY <1>2 DEF Goto, Wrote, Inv, Typed
  <2> QED
    BY <1>1, <2>1, <2>2 DEF Careful, LoanLabels
<1> QED
  BY <1>1, <1>2, ReturnCareful

\* The file becomes the working copy, which loses no copy of a book.
LEMMA CommittedCareful ==
  ASSUME Inv, NEW t \in Terminal, Careful(t), Committed(t)
  PROVE  Careful(t)' /\ NoneLost(file, file')
<1>1. Return(t) /\ file' = work[t] /\ pc[t] = "committing"
  BY DEF Committed
<1>2. NoneLost(file, work[t])
  BY <1>1 DEF Careful
<1> QED
  BY <1>1, <1>2, ReturnCareful

\* A step of a terminal that lends and takes back.
LEMMA StepCareful ==
  ASSUME Inv, Calls \subseteq LoanCalls, NEW t \in Terminal, Careful(t),
         Step(t) \/ User(t)
  PROVE  /\ Careful(t)'
         /\ file' = file \/ (Committed(t) /\ NoneLost(file, file'))
<1>1. pc[t] \in LoanLabels
  BY DEF Careful
<1>2. CASE Step(t)
  <2>1. \/ LoanReadBook(t) \/ LoanReadMember(t) \/ LoanCount(t)
        \/ LoanDuplicate(t) \/ LoanBegin(t)
        \/ LoanInsert(t) \/ LoanTakeCopy(t) \/ ReturnRead(t)
        \/ ReturnBegin(t) \/ ReturnMark(t) \/ ReturnGiveCopy(t)
        \/ Commit(t) \/ Committed(t)
    BY <1>1, <1>2
    DEF LoanLabels, Step, AddBook, EditBookRead, EditBookWrite, DeleteBookFind,
        DeleteBookCheck, DeleteBookWrite, AddMemberFind, AddMemberWrite,
        EditMemberRead, EditMemberFind, EditMemberWrite, DeleteMemberFind,
        DeleteMemberCheck, DeleteMemberWrite, Backup, Restore
  <2> QED
    BY <2>1, LoanChecksCareful, LoanWritesCareful, ReturnReadCareful,
       ReturnWritesCareful, CommitCareful, CommittedCareful
<1>3. CASE User(t)
  <2>1. (\E c \in Requests : Ask(t, c)) \/ Exit(t) \/ Crash(t)
    BY <1>1, <1>3 DEF LoanLabels, User, EditBookType, EditMemberType, Confirm
  <2>2. CASE Exit(t)
    <3>1. file' = file /\ pc'[t] = "menu"
      BY <2>2 DEF Exit
    <3> QED
      BY <3>1, FreeCareful DEF Free
  <2>3. CASE Crash(t)
    BY <2>3, ReturnCareful DEF Crash
  <2> QED
    BY <2>1, <2>2, <2>3, AskCareful
<1> QED
  BY <1>2, <1>3

\* The other terminals: their loans keep their books, and none of them is about
\* to commit while the file changes.
LEMMA OthersCareful ==
  ASSUME Inv, NEW t \in Terminal, Step(t) \/ User(t),
         file' = file \/ (Committed(t) /\ NoneLost(file, file')),
         NEW u \in Terminal, u # t, Careful(u)
  PROVE  Careful(u)'
<1>1. /\ pc'[u] = pc[u] /\ call'[u] = call[u] /\ begun'[u] = begun[u]
      /\ work'[u] = work[u]
  BY OthersAlone
<1>2. CASE file' = file
  BY <1>1, <1>2 DEF Careful
<1>3. CASE Committed(t) /\ NoneLost(file, file')
  <2>1. pc[u] \notin {"commit", "committing"}
    <3>1. lock[t] = "exclusive"
      BY <1>3 DEF Committed, Inv, Fine, WritesOfCall
    <3>2. lock[u] = "none"
      BY <3>1 DEF Inv, OneWriter
    <3> QED
      BY <3>2 DEF Inv, Fine, WritesOfCall
  <2>2. Named(file, call[u]) => Named(file', call[u])
    BY <1>3 DEF Named, NoneLost
  <2> QED
    BY <1>1, <2>1, <2>2 DEF Careful
<1> QED
  BY <1>2, <1>3

\* Every step keeps enough copies, and every terminal careful.
LEMMA CarefulNext ==
  ASSUME Inv, Inv', Calls \subseteq LoanCalls, AllCareful, [Next]_vars
  PROVE  AllCareful'
<1>1. ASSUME NEW t \in Terminal, Step(t) \/ User(t) PROVE AllCareful'
  <2>1. /\ Careful(t)'
        /\ file' = file \/ (Committed(t) /\ NoneLost(file, file'))
    BY <1>1, StepCareful DEF AllCareful
  <2>2. ASSUME NEW u \in Terminal, u # t PROVE Careful(u)'
    BY <1>1, <2>1, <2>2, OthersCareful DEF AllCareful
  <2>3. Enough(file')
    <3>1. Linked(file) /\ Linked(file') /\ Enough(file)
      BY DEF Inv, AllCareful
    <3> QED
      BY <2>1, <3>1, StaysEnough
  <2> QED
    BY <2>1, <2>2, <2>3 DEF AllCareful
<1>2. CASE \/ ReaderComes \/ ReaderGoes \/ UNCHANGED vars
           \/ \E t \in Terminal : Share(t)
  <2>1. file' = file /\ pc' = pc /\ call' = call /\ begun' = begun /\ work' = work
    BY <1>2 DEF ReaderComes, ReaderGoes, Share, vars, conn, world
  <2> QED
    BY <2>1 DEF AllCareful, Careful
<1> QED
  BY <1>1, <1>2 DEF Next

\* When the terminals start, the stock has its copies.
LEMMA CarefulInit == ASSUME Init, Enough(Stock) PROVE AllCareful
BY DEF Init, AllCareful, Careful, LoanLabels

\* Any number of terminals that lend and take back, however they interleave, are
\* killed or fail to commit, never lose a copy of a stock that had them all.
THEOREM NoneIsLost ==
  Calls \subseteq {"loan", "return"} /\ Enough(Stock) /\ Spec => []NoCopyLost
<1> SUFFICES ASSUME Calls \subseteq LoanCalls, Enough(Stock)
             PROVE  Spec => []NoCopyLost
  BY DEF LoanCalls
<1>1. Init => AllCareful
  BY CarefulInit
<1>2. Inv /\ Inv' /\ AllCareful /\ [Next]_vars => AllCareful'
  BY CarefulNext
<1>3. AllCareful => NoCopyLost
  BY DEF AllCareful, Enough, NoCopyLost
<1> QED
  BY <1>1, <1>2, <1>3, Invariance, PTL DEF Spec
=============================================================================
