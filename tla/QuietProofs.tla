----------------------------- MODULE QuietProofs -----------------------------
(***************************************************************************)
(* Terminals between calls.  A terminal that waits for its user holds no   *)
(* lock, unless a COMMIT of its has failed: then it holds PENDING and is   *)
(* still in the transaction, which nothing but the end of the program      *)
(* ends.  And what a terminal has reported after a COMMIT that succeeded   *)
(* stays in the file until somebody restores a backup.                     *)
(***************************************************************************)
EXTENDS TerminalsProofs

-----------------------------------------------------------------------------
(* What is left of a transaction.                                          *)

\* Labels between BEGIN and the end of COMMIT.
InTransaction ==
  {"insert loan", "take copy", "mark returned", "give copy", "commit", "committing"}

\* Outside those labels t holds no lock, or a transaction whose COMMIT failed.
Settled(t) ==
  pc[t] \notin InTransaction => lock[t] = IF begun[t] THEN "pending" ELSE "none"

\* So it is of all, and no statement lasts until the user is asked again.
Quiet ==
  \A t \in Terminal : Settled(t) /\ (pc[t] \in Waiting => t \notin shared)

\* A step of t that leaves its connection alone, from outside a transaction.
LEMMA CalmSettled ==
  ASSUME NEW t \in Terminal, Settled(t), pc[t] \notin InTransaction,
         begun' = begun, lock' = lock
  PROVE  Settled(t)'
BY DEF Settled

\* The end of a transaction, done or undone.
LEMMA RolledBackSettled ==
  ASSUME Inv, NEW t \in Terminal, RolledBack(t)
  PROVE  Settled(t)'
BY DEF Inv, Typed, RolledBack, Settled

\* A statement that writes goes on inside its transaction.
LEMMA WroteSettled ==
  ASSUME Inv, NEW t \in Terminal, NEW label \in InTransaction, Goto(t, label)
  PROVE  Settled(t)'
BY DEF Inv, Typed, Goto, Settled

\* A SELECT, or BEGIN.
LEMMA ChecksSettled ==
  ASSUME Inv, NEW t \in Terminal, Settled(t),
         \/ LoanReadBook(t) \/ LoanReadMember(t) \/ LoanCount(t)
         \/ LoanDuplicate(t) \/ ReturnRead(t) \/ EditBookRead(t)
         \/ DeleteBookFind(t) \/ DeleteBookCheck(t) \/ AddMemberFind(t)
         \/ EditMemberRead(t) \/ EditMemberFind(t)
         \/ DeleteMemberFind(t) \/ DeleteMemberCheck(t) \/ Backup(t)
  PROVE  Settled(t)'
<1>1. begun' = begun /\ lock' = lock
  BY DEF LoanReadBook, LoanReadMember, LoanCount, LoanDuplicate, ReturnRead,
         EditBookRead, DeleteBookFind, DeleteBookCheck, AddMemberFind,
         EditMemberRead, EditMemberFind, DeleteMemberFind, DeleteMemberCheck,
         Backup, Check, ShowRow, conn, world
<1>2. pc[t] \notin InTransaction
  BY DEF LoanReadBook, LoanReadMember, LoanCount, LoanDuplicate, ReturnRead,
         EditBookRead, DeleteBookFind, DeleteBookCheck, AddMemberFind,
         EditMemberRead, EditMemberFind, DeleteMemberFind, DeleteMemberCheck,
         Backup, InTransaction
<1> QED
  BY <1>1, <1>2, CalmSettled

\* BEGIN.
LEMMA BeginSettled ==
  ASSUME Inv, NEW t \in Terminal, Settled(t), LoanBegin(t) \/ ReturnBegin(t)
  PROVE  Settled(t)'
<1>1. PICK label \in InTransaction : Begin(t, label)
  BY DEF LoanBegin, ReturnBegin, InTransaction
<1>2. pc[t] \notin InTransaction
  BY DEF LoanBegin, ReturnBegin, InTransaction
<1>3. CASE begun[t]
  BY <1>1, <1>2, <1>3, CalmSettled DEF Begin
<1>4. CASE ~ begun[t]
  BY <1>1, <1>4, WroteSettled DEF Begin
<1> QED
  BY <1>3, <1>4

\* The statements of loan_book and return_book that write, and COMMIT.
LEMMA WritesSettled ==
  ASSUME Inv, NEW t \in Terminal,
         \/ LoanInsert(t) \/ LoanTakeCopy(t) \/ ReturnMark(t) \/ ReturnGiveCopy(t)
         \/ Commit(t) \/ Committed(t)
  PROVE  Settled(t)'
<1>1. CASE Commit(t) /\ Readers(t)
  <2>1. begun[t] /\ Wrote(t, work[t], "pending")
    BY <1>1 DEF Commit, CommitBusy, Inv, Fine, WritesOfCall
  <2>2. begun'[t] = TRUE /\ lock'[t] = "pending"
    BY <2>1 DEF Inv, Typed, Wrote
  <2> QED
    BY <2>2 DEF Settled
<1>2. CASE ~ (Commit(t) /\ Readers(t))
  <2>1. RolledBack(t) \/ \E label \in InTransaction : Goto(t, label)
    BY <1>2 DEF LoanInsert, LoanTakeCopy, ReturnMark, ReturnGiveCopy, Commit,
                Committed, LoanInsertFailed, AfterInsert, AfterMark, InTransaction
  <2> QED
    BY <2>1, RolledBackSettled, WroteSettled
<1> QED
  BY <1>1, <1>2

\* A statement of its own, and a restore.
LEMMA StatementsSettled ==
  ASSUME Inv, NEW t \in Terminal, Settled(t),
         \/ AddBook(t) \/ EditBookWrite(t) \/ DeleteBookWrite(t)
         \/ AddMemberWrite(t) \/ EditMemberWrite(t) \/ DeleteMemberWrite(t)
         \/ Restore(t)
  PROVE  Settled(t)'
<1>1. pc[t] \notin InTransaction
  BY DEF AddBook, EditBookWrite, DeleteBookWrite, AddMemberWrite, EditMemberWrite,
         DeleteMemberWrite, Restore, InTransaction
<1>2. CASE \E ok, d, c : Statement(t, ok, d, c)
  <2>1. \/ begun' = begun /\ lock' = lock
        \/ Goto(t, "committing")
        \/ /\ begun[t] /\ begun' = begun
           /\ lock' = [lock EXCEPT ![t] = IF lock[t] = "none" THEN "reserved"
                                          ELSE lock[t]]
    BY <1>2 DEF Statement, Wrote, conn
  <2>2. CASE /\ begun[t] /\ begun' = begun
             /\ lock' = [lock EXCEPT ![t] = IF lock[t] = "none" THEN "reserved"
                                            ELSE lock[t]]
    <3>1. lock[t] = "pending"
      BY <1>1, <2>2 DEF Settled
    <3>2. lock'[t] = "pending" /\ begun'[t] = begun[t]
      BY <2>2, <3>1 DEF Inv, Typed
    <3> QED
      BY <2>2, <3>2 DEF Settled
  <2> QED
    BY <1>1, <2>1, <2>2, CalmSettled, WroteSettled DEF InTransaction
<1>3. CASE Restore(t)
  <2>1. Goto(t, "committing") \/ (begun' = begun /\ lock' = lock)
    BY <1>3 DEF Restore, conn
  <2> QED
    BY <1>1, <2>1, CalmSettled, WroteSettled DEF InTransaction
<1> QED
  BY <1>2, <1>3 DEF AddBook, EditBookWrite, DeleteBookWrite, AddMemberWrite,
     EditMemberWrite, DeleteMemberWrite

\* What a user does.
LEMMA UserSettled ==
  ASSUME Inv, NEW t \in Terminal, Settled(t), User(t)
  PROVE  Settled(t)'
<1>1. CASE Exit(t) \/ Crash(t)
  BY <1>1, RolledBackSettled DEF Exit, Crash, world
<1>2. CASE ~ (Exit(t) \/ Crash(t))
  <2>1. begun' = begun /\ lock' = lock
    BY <1>2 DEF User, Ask, EditBookType, EditMemberType, TypeRow, Confirm, Check,
                conn, world
  <2>2. pc[t] \notin InTransaction
    BY <1>2 DEF User, Ask, EditBookType, EditMemberType, Confirm, InTransaction
  <2> QED
    BY <2>1, <2>2, CalmSettled
<1> QED
  BY <1>1, <1>2

\* A step of a terminal settles it.
LEMMA StepSettled ==
  ASSUME Inv, Quiet, NEW t \in Terminal, Step(t) \/ User(t), shared' = shared \ {t}
  PROVE  Quiet'
<1>1. Settled(t)
  BY DEF Quiet
<1>2. Settled(t)'
  BY <1>1, ChecksSettled, BeginSettled, WritesSettled, StatementsSettled, UserSettled
  DEF Step
<1>3. ASSUME NEW u \in Terminal, u # t
      PROVE  Settled(u)' /\ (pc[u] \in Waiting => u \notin shared)'
  BY <1>3, OthersAlone DEF Quiet, Settled
<1> QED
  BY <1>2, <1>3 DEF Quiet

\* So does every step.
LEMMA QuietNext ==
  ASSUME Inv, Quiet, [Next]_vars
  PROVE  Quiet'
<1>1. CASE ReaderComes \/ ReaderGoes \/ UNCHANGED vars
  BY <1>1 DEF ReaderComes, ReaderGoes, vars, conn, Quiet, Settled
<1>2. ASSUME NEW t \in Terminal, Share(t) PROVE Quiet'
  BY <1>2 DEF Share, conn, Quiet, Settled
<1> QED
  BY <1>1, <1>2, StepSettled DEF Next

\* Nobody is in a transaction when the terminals start.
LEMMA QuietInit == ASSUME Init PROVE Quiet
BY DEF Init, Quiet, Settled

\* It is so in every state.
LEMMA AlwaysQuiet == Spec => []Quiet
<1>1. Init => Quiet
  BY QuietInit
<1>2. Inv /\ Quiet /\ [Next]_vars => Quiet'
  BY QuietNext
<1> QED
  BY <1>1, <1>2, Invariance, PTL DEF Spec

\* A terminal that waits for its user, in the middle of a screen or at the menu,
\* reads nothing and holds no lock, or a transaction whose COMMIT failed, and
\* then PENDING.
THEOREM ReleasesLocks == Spec => []LeftOpen
<1>1. Quiet => LeftOpen
  BY DEF Quiet, Settled, LeftOpen, Waiting, InTransaction
<1> QED
  BY <1>1, AlwaysQuiet, PTL
-----------------------------------------------------------------------------
(* What is reported stays.                                                 *)

\* The fact is about an id that was given out, and d records it.
Holds(d, fact) ==
  /\ fact[2] \in Nat
  /\ fact[1] \in {"loan", "return"} => fact[2] <= d.lastLoan
  /\ fact[1] \in {"add book", "delete book"} => fact[2] <= d.lastBook
  /\ fact[1] \in {"add member", "delete member"} => fact[2] <= d.lastMember
  /\ fact[1] = "return" => fact[2] \notin ActiveLoans(d)
  /\ fact[1] = "delete book" => fact[2] \notin DOMAIN d.books
  /\ fact[1] = "delete member" => fact[2] \notin DOMAIN d.members

\* From d to e ids only grow, and what is new has a new id.
Later(d, e) ==
  /\ d.lastLoan <= e.lastLoan /\ d.lastBook <= e.lastBook
  /\ d.lastMember <= e.lastMember
  /\ \A l \in ActiveLoans(e) : l \in ActiveLoans(d) \/ l > d.lastLoan
  /\ \A b \in DOMAIN e.books : b \in DOMAIN d.books \/ b > d.lastBook
  /\ \A m \in DOMAIN e.members : m \in DOMAIN d.members \/ m > d.lastMember

\* The counters of a database.
LEMMA Counters ==
  ASSUME NEW d, Linked(d)
  PROVE  d.lastLoan \in Nat /\ d.lastBook \in Nat /\ d.lastMember \in Nat
<1>1. /\ d.lastLoan \in 0..MaxLoanId /\ d.lastBook \in 0..MaxBookId
      /\ d.lastMember \in 0..MaxMemberId
  BY DEF Linked, IsDatabase
<1> QED
  BY <1>1

\* A fact stays true.
LEMMA HoldsLater ==
  ASSUME NEW d, NEW e, Linked(d), Linked(e), Later(d, e), NEW fact, Holds(d, fact)
  PROVE  Holds(e, fact)
<1>1. /\ d.lastLoan \in Nat /\ d.lastBook \in Nat /\ d.lastMember \in Nat
      /\ e.lastLoan \in Nat /\ e.lastBook \in Nat /\ e.lastMember \in Nat
  BY Counters
<1>2. fact[2] \in Nat
  BY DEF Holds
<1>3. ASSUME NEW x \in Nat
      PROVE  /\ x <= d.lastLoan => x <= e.lastLoan
             /\ x <= d.lastBook => x <= e.lastBook
             /\ x <= d.lastMember => x <= e.lastMember
             /\ x <= d.lastLoan /\ x \notin ActiveLoans(d) => x \notin ActiveLoans(e)
             /\ x <= d.lastBook /\ x \notin DOMAIN d.books => x \notin DOMAIN e.books
             /\ x <= d.lastMember /\ x \notin DOMAIN d.members
                  => x \notin DOMAIN e.members
  BY <1>1 DEF Later
<1> QED
  BY <1>2, <1>3, Zenon DEF Holds

\* A database is later than itself.
LEMMA LaterSame == ASSUME NEW d, Linked(d) PROVE Later(d, d)
BY Counters DEF Later

\* Later is transitive.
LEMMA LaterTwice ==
  ASSUME NEW d, NEW e, NEW f, Linked(d), Linked(e), Linked(f),
         Later(d, e), Later(e, f)
  PROVE  Later(d, f)
<1>1. /\ d.lastLoan \in Nat /\ d.lastBook \in Nat /\ d.lastMember \in Nat
      /\ e.lastLoan \in Nat /\ e.lastBook \in Nat /\ e.lastMember \in Nat
      /\ f.lastLoan \in Nat /\ f.lastBook \in Nat /\ f.lastMember \in Nat
  BY Counters
<1>2. /\ \A l \in Nat : l > e.lastLoan => l > d.lastLoan
      /\ \A b \in Nat : b > e.lastBook => b > d.lastBook
      /\ \A m \in Nat : m > e.lastMember => m > d.lastMember
  BY <1>1 DEF Later
<1>3. /\ DOMAIN f.books \subseteq Nat /\ DOMAIN f.members \subseteq Nat
      /\ ActiveLoans(f) \subseteq Nat
  BY DEF Linked, IsDatabase, Table, ActiveLoans
<1>4. ASSUME NEW l \in ActiveLoans(f) PROVE l \in ActiveLoans(d) \/ l > d.lastLoan
  BY <1>2, <1>3, Zenon DEF Later
<1>5. ASSUME NEW b \in DOMAIN f.books PROVE b \in DOMAIN d.books \/ b > d.lastBook
  BY <1>2, <1>3, Zenon DEF Later
<1>6. ASSUME NEW m \in DOMAIN f.members PROVE m \in DOMAIN d.members \/ m > d.lastMember
  BY <1>2, <1>3, Zenon DEF Later
<1> QED
  BY <1>1, <1>4, <1>5, <1>6 DEF Later

\* The INSERTs give out a new id.
LEMMA InsertsLater ==
  ASSUME NEW d, Linked(d)
  PROVE  /\ \A i, n : /\ Later(d, InsertBook(d, i, n))
                      /\ InsertBook(d, i, n).lastBook = d.lastBook + 1
         /\ \A x, y : /\ Later(d, InsertMember(d, x, y))
                      /\ InsertMember(d, x, y).lastMember = d.lastMember + 1
         /\ \A b, m, due : /\ Later(d, InsertLoan(d, b, m, due))
                           /\ InsertLoan(d, b, m, due).lastLoan = d.lastLoan + 1
<1>1. d.lastLoan \in Nat /\ d.lastBook \in Nat /\ d.lastMember \in Nat
  BY Counters
<1>2. ASSUME NEW i, NEW n
      PROVE  /\ Later(d, InsertBook(d, i, n))
             /\ InsertBook(d, i, n).lastBook = d.lastBook + 1
  <2> DEFINE e == InsertBook(d, i, n)
             row == [isbn |-> i, total |-> n, available |-> n]
  <2>1. /\ e.books = Put(d.books, d.lastBook + 1, row)
        /\ e.lastBook = d.lastBook + 1 /\ e.loans = d.loans
        /\ e.lastLoan = d.lastLoan /\ e.members = d.members
        /\ e.lastMember = d.lastMember
    BY DEF InsertBook, Linked, IsDatabase
  <2> HIDE DEF e, row
  <2> QED
    BY <1>1, <2>1 DEF Later, Put, ActiveLoans, e
<1>3. ASSUME NEW x, NEW y
      PROVE  /\ Later(d, InsertMember(d, x, y))
             /\ InsertMember(d, x, y).lastMember = d.lastMember + 1
  <2> DEFINE e == InsertMember(d, x, y)
             row == [email |-> x, phone |-> y, active |-> TRUE]
  <2>1. /\ e.members = Put(d.members, d.lastMember + 1, row)
        /\ e.lastMember = d.lastMember + 1 /\ e.loans = d.loans
        /\ e.lastLoan = d.lastLoan /\ e.books = d.books
        /\ e.lastBook = d.lastBook
    BY DEF InsertMember, Linked, IsDatabase
  <2> HIDE DEF e, row
  <2> QED
    BY <1>1, <2>1 DEF Later, Put, ActiveLoans, e
<1>4. ASSUME NEW b, NEW m, NEW due
      PROVE  /\ Later(d, InsertLoan(d, b, m, due))
             /\ InsertLoan(d, b, m, due).lastLoan = d.lastLoan + 1
  <2> DEFINE e == InsertLoan(d, b, m, due)
             row == [book |-> b, member |-> m, due |-> due,
                     returned |-> FALSE, renewals |-> 0]
  <2>1. /\ e.loans = Put(d.loans, d.lastLoan + 1, row)
        /\ e.lastLoan = d.lastLoan + 1 /\ e.books = d.books
        /\ e.lastBook = d.lastBook /\ e.members = d.members
        /\ e.lastMember = d.lastMember
    BY DEF InsertLoan, Linked, IsDatabase
  <2> HIDE DEF e, row
  <2>2. \A l \in ActiveLoans(e) : l \in ActiveLoans(d) \/ l > d.lastLoan
    BY <1>1, <2>1 DEF Put, ActiveLoans
  <2> QED
    BY <1>1, <2>1, <2>2 DEF Later, e
<1> QED
  BY <1>2, <1>3, <1>4

\* The UPDATEs of one row.
LEMMA UpdatesLater ==
  ASSUME NEW d, Linked(d)
  PROVE  /\ \A b, row : Later(d, WriteBook(d, b, row))
         /\ \A m, row : Later(d, WriteMember(d, m, row))
         /\ \A b : Later(d, DecrementAvailable(d, b))
         /\ \A b : Later(d, IncrementAvailable(d, b))
<1>1. d.lastLoan \in Nat /\ d.lastBook \in Nat /\ d.lastMember \in Nat
  BY Counters
<1>2. ASSUME NEW e, e.loans = d.loans, e.lastLoan = d.lastLoan,
             DOMAIN e.books = DOMAIN d.books, e.lastBook = d.lastBook,
             DOMAIN e.members = DOMAIN d.members, e.lastMember = d.lastMember
      PROVE  Later(d, e)
  BY <1>1, <1>2 DEF Later, ActiveLoans
<1>3. ASSUME NEW b, NEW row PROVE Later(d, WriteBook(d, b, row))
  <2>1. CASE b \notin DOMAIN d.books
    BY <2>1, LaterSame DEF WriteBook
  <2>2. CASE b \in DOMAIN d.books
    <3> DEFINE e == WriteBook(d, b, row)
    <3>1. /\ e.books = Put(d.books, b, row) /\ e.loans = d.loans
          /\ e.lastLoan = d.lastLoan /\ e.lastBook = d.lastBook
          /\ e.members = d.members /\ e.lastMember = d.lastMember
      BY <2>2 DEF WriteBook, Linked, IsDatabase
    <3> HIDE DEF e
    <3>2. DOMAIN e.books = DOMAIN d.books
      BY <2>2, <3>1 DEF Put
    <3>3. Later(d, e)
      BY <1>2, <3>1, <3>2
    <3> QED
      BY <3>3 DEF e
  <2> QED
    BY <2>1, <2>2
<1>4. ASSUME NEW m, NEW row PROVE Later(d, WriteMember(d, m, row))
  BY <1>2, LaterSame DEF WriteMember, Put, Linked, IsDatabase
<1>5. ASSUME NEW b PROVE Later(d, DecrementAvailable(d, b))
  BY <1>2, LaterSame DEF DecrementAvailable, Linked, IsDatabase
<1>6. ASSUME NEW b PROVE Later(d, IncrementAvailable(d, b))
  BY <1>2, LaterSame DEF IncrementAvailable, Linked, IsDatabase
<1> QED
  BY <1>3, <1>4, <1>5, <1>6

\* The UPDATE that marks a loan, and the DELETEs with their cascades.
LEMMA RemovalsLater ==
  ASSUME NEW d, Linked(d)
  PROVE  /\ \A l : /\ Later(d, MarkReturned(d, l))
                   /\ l \notin ActiveLoans(MarkReturned(d, l))
         /\ \A b : /\ Later(d, DeleteBookRow(d, b))
                   /\ b \notin DOMAIN DeleteBookRow(d, b).books
         /\ \A m : /\ Later(d, DeleteMemberRow(d, m))
                   /\ m \notin DOMAIN DeleteMemberRow(d, m).members
<1>1. d.lastLoan \in Nat /\ d.lastBook \in Nat /\ d.lastMember \in Nat
  BY Counters
<1>2. ASSUME NEW l
      PROVE  Later(d, MarkReturned(d, l)) /\ l \notin ActiveLoans(MarkReturned(d, l))
  <2>1. CASE l \notin DOMAIN d.loans
    BY <2>1, LaterSame DEF MarkReturned, ActiveLoans
  <2>2. CASE l \in DOMAIN d.loans
    <3> DEFINE e == MarkReturned(d, l)
    <3>1. /\ e.loans = [d.loans EXCEPT ![l].returned = TRUE]
          /\ e.lastLoan = d.lastLoan /\ e.books = d.books
          /\ e.lastBook = d.lastBook /\ e.members = d.members
          /\ e.lastMember = d.lastMember
      BY <2>2 DEF MarkReturned, Linked, IsDatabase
    <3> HIDE DEF e
    <3>2. d.loans[l] \in LoanRow /\ d.loans = [k \in DOMAIN d.loans |-> d.loans[k]]
      BY <2>2 DEF Linked, IsDatabase, Table
    <3>3. [d.loans[l] EXCEPT !.returned = TRUE].returned = TRUE
      BY <3>2 DEF LoanRow
    <3>4. DOMAIN e.loans = DOMAIN d.loans /\ e.loans[l].returned = TRUE
      BY <2>2, <3>1, <3>2, <3>3
    <3>5. \A k \in DOMAIN d.loans \ {l} : e.loans[k] = d.loans[k]
      BY <2>2, <3>1, <3>2
    <3>6. ActiveLoans(e) \subseteq ActiveLoans(d) /\ l \notin ActiveLoans(e)
      BY <3>4, <3>5 DEF ActiveLoans
    <3>7. Later(d, e)
      BY <1>1, <3>1, <3>6 DEF Later
    <3> QED
      BY <3>6, <3>7 DEF e
  <2> QED
    BY <2>1, <2>2
<1>3. ASSUME NEW b
      PROVE  Later(d, DeleteBookRow(d, b)) /\ b \notin DOMAIN DeleteBookRow(d, b).books
  <2> DEFINE e == DeleteBookRow(d, b)
             S == {l \in DOMAIN d.loans : d.loans[l].book # b}
  <2>1. /\ e.books = Restrict(d.books, DOMAIN d.books \ {b})
        /\ e.loans = Restrict(d.loans, S) /\ e.lastBook = d.lastBook
        /\ e.lastLoan = d.lastLoan /\ e.members = d.members
        /\ e.lastMember = d.lastMember
    BY DEF DeleteBookRow, Linked, IsDatabase
  <2> HIDE DEF e
  <2> QED
    BY <1>1, <2>1 DEF Later, Restrict, ActiveLoans, e
<1>4. ASSUME NEW m
      PROVE  /\ Later(d, DeleteMemberRow(d, m))
             /\ m \notin DOMAIN DeleteMemberRow(d, m).members
  <2> DEFINE e == DeleteMemberRow(d, m)
             S == {l \in DOMAIN d.loans : d.loans[l].member # m}
  <2>1. /\ e.members = Restrict(d.members, DOMAIN d.members \ {m})
        /\ e.loans = Restrict(d.loans, S) /\ e.lastBook = d.lastBook
        /\ e.lastLoan = d.lastLoan /\ e.books = d.books
        /\ e.lastMember = d.lastMember
    BY DEF DeleteMemberRow, Linked, IsDatabase
  <2> HIDE DEF e
  <2> QED
    BY <1>1, <2>1 DEF Later, Restrict, ActiveLoans, e
<1> QED
  BY <1>2, <1>3, <1>4

\* The id a call has found is one that was given out; in a transaction that was
\* left open it may be one that nobody will see.
Known(t) ==
  /\ ~ begun[t] /\ pc[t] \in {"sure of book", "count loans out", "delete book row"}
       => call[t].book <= file.lastBook
  /\ ~ begun[t] /\ pc[t] \in {"sure of member", "count loans held",
                              "delete member row"}
       => call[t].member <= file.lastMember
  /\ ~ begun[t] /\ pc[t] = "return begin" => call[t].loan <= file.lastLoan
  /\ pc[t] \in {"mark returned", "give copy"} => call[t].loan <= file.lastLoan

\* What call c will report is true of d.
Achieved(d, c) ==
  /\ c.op # "restore"
  /\ c.op \in {"loan", "return"} => c.loan <= d.lastLoan
  /\ c.op \in {"add book", "delete book"} => c.book <= d.lastBook
  /\ c.op \in {"add member", "delete member"} => c.member <= d.lastMember
  /\ c.op = "return" => c.loan \notin ActiveLoans(d)
  /\ c.op = "delete book" => c.book \notin DOMAIN d.books
  /\ c.op = "delete member" => c.member \notin DOMAIN d.members

\* A working copy is later than the file, and holds what was written.
Prepared(t) ==
  /\ pc[t] \in {"take copy", "give copy", "commit", "committing"} =>
       Later(file, work[t])
  /\ pc[t] = "take copy" => call[t].loan = work[t].lastLoan
  /\ pc[t] = "give copy" => call[t].loan \notin ActiveLoans(work[t])
  /\ pc[t] \in {"commit", "committing"} => Achieved(work[t], call[t])

\* Nobody restores.
Promise(t) == pc[t] # "restore" /\ Known(t) /\ Prepared(t)

Promises ==
  /\ \A fact \in told : fact[3] => Holds(file, fact)
  /\ \A t \in Terminal : Promise(t)

\* What a step reports after a COMMIT that succeeded is in the file.
Honest == \A fact \in told' : fact \in told \/ (fact[3] => Holds(file', fact))

\* What a call has achieved is the fact it reports.
LEMMA AchievedHolds ==
  ASSUME NEW c \in CallRecord, NEW d, Achieved(d, c)
  PROVE  \A done : Holds(d, Fact(c, done))
<1> SUFFICES ASSUME NEW done PROVE Holds(d, Fact(c, done))
  OBVIOUS
<1>1. c.loan \in Nat /\ c.member \in Nat /\ c.book \in Nat
  BY DEF CallRecord
<1>2. CASE c.op \in {"loan", "return"}
  <2>1. Fact(c, done)[1] = c.op /\ Fact(c, done)[2] = c.loan
    BY <1>2 DEF Fact
  <2> QED
    BY <1>1, <1>2, <2>1 DEF Achieved, Holds
<1>3. CASE c.op \in {"add member", "delete member"}
  <2>1. Fact(c, done)[1] = c.op /\ Fact(c, done)[2] = c.member
    BY <1>3 DEF Fact
  <2> QED
    BY <1>1, <1>3, <2>1 DEF Achieved, Holds
<1>4. CASE c.op \notin {"loan", "return", "add member", "delete member"}
  <2>1. Fact(c, done)[1] = c.op /\ Fact(c, done)[2] = c.book
    BY <1>4 DEF Fact
  <2> QED
    BY <1>1, <1>4, <2>1 DEF Achieved, Holds
<1> QED
  BY <1>2, <1>3, <1>4

\* A call that is over has nothing to promise.
LEMMA MenuPromise ==
  ASSUME Inv, NEW t \in Terminal, Return(t)
  PROVE  Promise(t)'
<1>1. pc'[t] = "menu"
  BY DEF Inv, Typed, Return, Goto
<1> QED
  BY <1>1 DEF Promise, Known, Prepared

\* Outside a transaction a terminal sees the file.
LEMMA SeesFile ==
  ASSUME Quiet, NEW t \in Terminal, pc[t] \notin InTransaction, ~ begun[t]
  PROVE  lock[t] = "none" /\ View(t) = file
BY DEF Quiet, Settled, View

\* Rows have ids that were given out.
LEMMA GivenOut ==
  ASSUME NEW d, Linked(d)
  PROVE  /\ \A b \in DOMAIN d.books : b <= d.lastBook
         /\ \A m \in DOMAIN d.members : m <= d.lastMember
         /\ \A l \in ActiveLoans(d) : l <= d.lastLoan
BY DEF Linked, IsDatabase, Table, ActiveLoans

\* A SELECT before a loan, a deletion, a registration or an edit.
LEMMA ChecksPromise ==
  ASSUME Inv, Quiet, NEW t \in Terminal, Promise(t),
         \/ LoanReadBook(t) \/ LoanReadMember(t) \/ LoanCount(t)
         \/ LoanDuplicate(t) \/ EditBookRead(t) \/ DeleteBookCheck(t)
         \/ AddMemberFind(t) \/ EditMemberRead(t) \/ EditMemberFind(t)
         \/ DeleteMemberCheck(t)
  PROVE  Promise(t)' /\ told' = told
<1>1. CASE Return(t)
  BY <1>1, MenuPromise
  DEF LoanReadBook, LoanReadMember, LoanCount, LoanDuplicate, EditBookRead,
      DeleteBookCheck, AddMemberFind, EditMemberRead, EditMemberFind,
      DeleteMemberCheck, Check, ShowRow
<1>2. CASE ~ Return(t)
  <2>1. /\ call' = call /\ file' = file /\ told' = told /\ begun' = begun
        /\ \/ pc[t] = "loan" /\ Goto(t, "read member")
           \/ pc[t] = "read member" /\ Goto(t, "count loans")
           \/ pc[t] = "count loans" /\ Goto(t, "find duplicate")
           \/ pc[t] = "find duplicate" /\ Goto(t, "loan begin")
           \/ pc[t] = "edit book" /\ Goto(t, "type book")
           \/ pc[t] = "count loans out" /\ Goto(t, "delete book row")
           \/ pc[t] = "add member" /\ Goto(t, "add member row")
           \/ pc[t] = "edit member" /\ Goto(t, "type member")
           \/ pc[t] = "find email" /\ Goto(t, "edit member row")
           \/ pc[t] = "count loans held" /\ Goto(t, "delete member row")
    BY <1>2
    DEF LoanReadBook, LoanReadMember, LoanCount, LoanDuplicate, EditBookRead,
        DeleteBookCheck, AddMemberFind, EditMemberRead, EditMemberFind,
        DeleteMemberCheck, Check, ShowRow, conn
  <2>2. pc'[t] # "restore"
    BY <2>1 DEF Inv, Typed, Goto
  <2>3. Known(t)' /\ Prepared(t)'
    BY <2>1 DEF Inv, Typed, Goto, Promise, Known, Prepared
  <2> QED
    BY <2>1, <2>2, <2>3 DEF Promise
<1> QED
  BY <1>1, <1>2

\* The SELECT of a row that will be deleted or taken back, and BEGIN.
LEMMA FindsPromise ==
  ASSUME Inv, Quiet, NEW t \in Terminal, Promise(t),
         \/ DeleteBookFind(t) \/ DeleteMemberFind(t) \/ ReturnRead(t)
         \/ LoanBegin(t) \/ ReturnBegin(t)
  PROVE  Promise(t)' /\ told' = told
<1>1. told' = told
  BY DEF DeleteBookFind, DeleteMemberFind, ReturnRead, LoanBegin, ReturnBegin,
         Check, Begin
<1>2. CASE Return(t)
  BY <1>1, <1>2, MenuPromise
<1>3. CASE ~ Return(t)
  <2>1. pc[t] \notin InTransaction
    BY DEF DeleteBookFind, DeleteMemberFind, ReturnRead, LoanBegin, ReturnBegin,
           InTransaction
  <2>2. (~ begun[t] => View(t) = file) /\ Linked(file)
    BY <2>1, SeesFile DEF Inv
  <2>3. CASE DeleteBookFind(t)
    <3>1. /\ pc[t] = "delete book" /\ Goto(t, "sure of book")
          /\ call' = call /\ file' = file /\ begun' = begun
          /\ ~ begun[t] => call[t].book <= file.lastBook
      BY <1>3, <2>2, <2>3, GivenOut DEF DeleteBookFind, BookThere, Check
    <3> QED
      BY <1>1, <3>1 DEF Inv, Typed, Goto, Promise, Known, Prepared
  <2>4. CASE DeleteMemberFind(t)
    <3>1. /\ pc[t] = "delete member" /\ Goto(t, "sure of member")
          /\ call' = call /\ file' = file /\ begun' = begun
          /\ ~ begun[t] => call[t].member <= file.lastMember
      BY <1>3, <2>2, <2>4, GivenOut DEF DeleteMemberFind, MemberThere, Check
    <3> QED
      BY <1>1, <3>1 DEF Inv, Typed, Goto, Promise, Known, Prepared
  <2>5. CASE ReturnRead(t)
    <3> DEFINE b == View(t).loans[call[t].loan].book
    <3>1. /\ pc[t] = "return" /\ Goto(t, "return begin") /\ file' = file
          /\ call' = [call EXCEPT ![t].book = b] /\ begun' = begun
          /\ ~ begun[t] => call[t].loan <= file.lastLoan
      BY <1>3, <2>2, <2>5, GivenOut DEF ReturnRead, conn
    <3> HIDE DEF b
    <3>2. call'[t].op = call[t].op /\ call'[t].loan = call[t].loan
      BY <3>1 DEF Inv, Typed, CallRecord
    <3> QED
      BY <1>1, <3>1, <3>2 DEF Inv, Typed, Goto, Promise, Known, Prepared
  <2>6. CASE LoanBegin(t) \/ ReturnBegin(t)
    <3>1. /\ call' = call /\ file' = file /\ ~ begun[t]
          /\ \/ pc[t] = "loan begin" /\ Goto(t, "insert loan")
             \/ pc[t] = "return begin" /\ Goto(t, "mark returned")
      BY <1>3, <2>6 DEF LoanBegin, ReturnBegin, Begin
    <3> QED
      BY <1>1, <3>1 DEF Inv, Typed, Goto, Promise, Known, Prepared
  <2> QED
    BY <2>3, <2>4, <2>5, <2>6
<1> QED
  BY <1>2, <1>3

\* The file and the working copies stay linked.
LEMMA StaysLinked ==
  ASSUME Inv, NEW t \in Terminal, Step(t), ~ Committed(t), ~ Backup(t)
  PROVE  Linked(file) /\ Linked(work[t]) /\ Linked(work'[t])
BY StepKept DEF Inv, Fine, Kept

\* The statements of loan_book that write.
LEMMA LendingPromise ==
  ASSUME Inv, Quiet, NEW t \in Terminal, Promise(t),
         LoanInsert(t) \/ LoanTakeCopy(t)
  PROVE  Promise(t)' /\ told' = told
<1>1. told' = told /\ file' = file
  BY DEF LoanInsert, LoanTakeCopy
<1>2. Linked(file) /\ Linked(work[t]) /\ Linked(work'[t])
  <2>1. Step(t) /\ ~ Committed(t) /\ ~ Backup(t)
    BY DEF Step, LoanInsert, LoanTakeCopy, ReturnMark, ReturnGiveCopy, Committed,
           Backup
  <2> QED
    BY <2>1, StaysLinked
<1>3. CASE Return(t)
  BY <1>1, <1>3, MenuPromise
<1>4. CASE LoanInsert(t) /\ ~ Return(t)
  <2> DEFINE b == call[t].book
             m == call[t].member
             new == InsertLoan(file, b, m, Due)
  <2>1. View(t) = file /\ pc[t] = "insert loan"
    BY <1>4 DEF LoanInsert, Inv, Fine, WritesOfCall, View
  <2>2. /\ Wrote(t, new, "reserved") /\ Goto(t, "take copy")
        /\ call' = [call EXCEPT ![t].loan = file.lastLoan + 1]
    BY <1>4, <2>1 DEF LoanInsert, AfterInsert
  <2>3. Later(file, new) /\ new.lastLoan = file.lastLoan + 1
    BY <1>2, InsertsLater
  <2> HIDE DEF new
  <2>4. /\ pc'[t] = "take copy" /\ work'[t] = new
        /\ call'[t].op = call[t].op /\ call'[t].loan = file.lastLoan + 1
    BY <2>2 DEF Inv, Typed, CallRecord, Wrote, Goto
  <2> QED
    BY <1>1, <2>3, <2>4 DEF Promise, Known, Prepared
<1>5. CASE LoanTakeCopy(t) /\ ~ Return(t)
  <2> DEFINE new == DecrementAvailable(work[t], call[t].book)
  <2>1. /\ pc[t] = "take copy" /\ Wrote(t, new, lock[t]) /\ Goto(t, "commit")
        /\ call' = call
    BY <1>5 DEF LoanTakeCopy
  <2>2. Later(work[t], new)
    BY <1>2, UpdatesLater
  <2> HIDE DEF new
  <2>3. pc'[t] = "commit" /\ work'[t] = new /\ call'[t] = call[t]
    BY <2>1 DEF Inv, Typed, Wrote, Goto
  <2>4. Later(file, new)
    BY <1>2, <2>1, <2>2, <2>3, LaterTwice DEF Promise, Prepared
  <2>5. call[t].op = "loan" /\ call[t].loan <= new.lastLoan
    BY <2>1, <2>2, InHand DEF OpAt, Promise, Prepared, Later
  <2>6. Achieved(new, call[t])
    BY <2>5 DEF Achieved
  <2> QED
    BY <1>1, <2>3, <2>4, <2>6 DEF Promise, Known, Prepared
<1> QED
  BY <1>3, <1>4, <1>5

\* The statements of return_book that write.
LEMMA ReturningPromise ==
  ASSUME Inv, Quiet, NEW t \in Terminal, Promise(t),
         ReturnMark(t) \/ ReturnGiveCopy(t)
  PROVE  Promise(t)' /\ told' = told
<1>1. told' = told /\ file' = file
  BY DEF ReturnMark, ReturnGiveCopy
<1>2. Linked(file) /\ Linked(work[t]) /\ Linked(work'[t])
  <2>1. Step(t) /\ ~ Committed(t) /\ ~ Backup(t)
    BY DEF Step, LoanInsert, LoanTakeCopy, ReturnMark, ReturnGiveCopy, Committed,
           Backup
  <2> QED
    BY <2>1, StaysLinked
<1>3. CASE Return(t)
  BY <1>1, <1>3, MenuPromise
<1>4. CASE ReturnMark(t) /\ ~ Return(t)
  <2> DEFINE new == MarkReturned(file, call[t].loan)
  <2>1. View(t) = file /\ pc[t] = "mark returned"
    BY <1>4 DEF ReturnMark, Inv, Fine, WritesOfCall, View
  <2>2. Wrote(t, new, "reserved") /\ Goto(t, "give copy") /\ call' = call
    BY <1>4, <2>1 DEF ReturnMark, AfterMark
  <2>3. Later(file, new) /\ call[t].loan \notin ActiveLoans(new)
    BY <1>2, RemovalsLater
  <2> HIDE DEF new
  <2>4. pc'[t] = "give copy" /\ work'[t] = new /\ call'[t] = call[t]
    BY <2>2 DEF Inv, Typed, Wrote, Goto
  <2>5. pc'[t] # "restore" /\ Known(t)'
    BY <1>1, <2>1, <2>4 DEF Promise, Known
  <2> QED
    BY <1>1, <2>3, <2>4, <2>5 DEF Promise, Prepared
<1>5. CASE ReturnGiveCopy(t) /\ ~ Return(t)
  <2> DEFINE new == IncrementAvailable(work[t], call[t].book)
             l == call[t].loan
  <2>1. /\ pc[t] = "give copy" /\ Wrote(t, new, lock[t]) /\ Goto(t, "commit")
        /\ call' = call
    BY <1>5 DEF ReturnGiveCopy
  <2>2. Later(work[t], new)
    BY <1>2, UpdatesLater
  <2> HIDE DEF new
  <2>3. pc'[t] = "commit" /\ work'[t] = new /\ call'[t] = call[t]
    BY <2>1 DEF Inv, Typed, Wrote, Goto
  <2>4. /\ call[t].op = "return" /\ l <= file.lastLoan
        /\ l \notin ActiveLoans(work[t]) /\ Later(file, work[t])
    BY <2>1, InHand DEF OpAt, Promise, Known, Prepared
  <2>5. Later(file, new)
    BY <1>2, <2>2, <2>3, <2>4, LaterTwice
  <2>6. l <= new.lastLoan /\ l \notin ActiveLoans(new)
    <3>1. l \in Nat
      BY DEF Inv, Typed, CallRecord
    <3>2. /\ file.lastLoan \in Nat /\ work[t].lastLoan \in Nat
          /\ new.lastLoan \in Nat
      BY <1>2, <2>3, Counters
    <3>3. l <= work[t].lastLoan
      BY <2>4, <3>1, <3>2 DEF Later
    <3> QED
      BY <2>2, <2>4, <3>1, <3>2, <3>3 DEF Later
  <2>7. Achieved(new, call[t])
    BY <2>4, <2>6 DEF Achieved
  <2> QED
    BY <1>1, <2>3, <2>5, <2>7 DEF Promise, Known, Prepared
<1> QED
  BY <1>3, <1>4, <1>5

\* COMMIT, which goes on or leaves the transaction open.
LEMMA CommitPromise ==
  ASSUME Inv, NEW t \in Terminal, Promise(t), Commit(t)
  PROVE  Promise(t)' /\ told' = told
<1>1. told' = told
  BY DEF Commit, CommitNotYetTold
<1>2. CASE Readers(t)
  BY <1>1, <1>2, MenuPromise DEF Commit, CommitBusy
<1>3. CASE ~ Readers(t)
  <2>1. /\ pc[t] = "commit" /\ pc'[t] = "committing" /\ work'[t] = work[t]
        /\ call'[t] = call[t] /\ file' = file
    BY <1>3 DEF Commit, Inv, Typed, Wrote, Goto
  <2> QED
    BY <1>1, <2>1 DEF Promise, Known, Prepared
<1> QED
  BY <1>2, <1>3

\* A statement of its own that achieves what its call reports, or one of a
\* transaction that was left open, whose report comes without a COMMIT.
LEMMA StatementPromise ==
  ASSUME Inv, NEW t \in Terminal, NEW ok, NEW d, NEW c, Statement(t, ok, d, c),
         ~ begun[t] /\ ok => Later(file, d) /\ Achieved(d, c) /\ c \in CallRecord
  PROVE  Promise(t)' /\ Honest
<1>1. CASE begun[t] /\ Return(t) /\ Report(c, FALSE)
  <2>1. Fact(c, FALSE)[3] = FALSE
    BY DEF Fact
  <2>2. \A fact \in told' : fact \in told \/ fact = Fact(c, FALSE)
    BY <1>1 DEF Report
  <2>3. Honest
    BY <2>1, <2>2 DEF Honest
  <2> QED
    BY <1>1, <2>3, MenuPromise
<1>2. CASE /\ ~ begun[t] /\ ok /\ Wrote(t, d, "exclusive") /\ Goto(t, "committing")
           /\ call' = [call EXCEPT ![t] = c] /\ told' = told /\ file' = file
  <2>1. pc'[t] = "committing" /\ work'[t] = d /\ call'[t] = c
    BY <1>2 DEF Inv, Typed, Wrote, Goto
  <2> QED
    BY <1>2, <2>1 DEF Promise, Known, Prepared, Honest
<1>3. CASE /\ ~ begun[t] /\ ok /\ d = file /\ Return(t) /\ Report(c, TRUE)
           /\ file' = file
  <2>1. Holds(file, Fact(c, TRUE))
    BY <1>3, AchievedHolds
  <2>2. \A fact \in told' : fact \in told \/ fact = Fact(c, TRUE)
    BY <1>3 DEF Report
  <2>3. Honest
    BY <1>3, <2>1, <2>2 DEF Honest
  <2> QED
    BY <1>3, <2>3, MenuPromise
<1>4. CASE Return(t) /\ told' = told
  BY <1>4, MenuPromise DEF Honest
<1> QED
  BY <1>1, <1>2, <1>3, <1>4 DEF Statement

\* The statements of the book and the member menus that write.
LEMMA StatementsPromise ==
  ASSUME Inv, Quiet, NEW t \in Terminal, Promise(t),
         \/ AddBook(t) \/ EditBookWrite(t) \/ DeleteBookWrite(t)
         \/ AddMemberWrite(t) \/ EditMemberWrite(t) \/ DeleteMemberWrite(t)
  PROVE  Promise(t)' /\ Honest
<1> DEFINE c == call[t]
<1>1. pc[t] \notin InTransaction
  BY DEF AddBook, EditBookWrite, DeleteBookWrite, AddMemberWrite, EditMemberWrite,
         DeleteMemberWrite, InTransaction
<1>0. CASE begun[t]
  <2>1. \E ok, d, e : Statement(t, ok, d, e)
    BY DEF AddBook, EditBookWrite, DeleteBookWrite, AddMemberWrite, EditMemberWrite,
           DeleteMemberWrite
  <2> QED
    BY <1>0, <2>1, StatementPromise
<1> SUFFICES ASSUME ~ begun[t] PROVE Promise(t)' /\ Honest
  BY <1>0
<1>2. View(t) = file /\ Linked(file) /\ c \in CallRecord
  BY <1>1, SeesFile DEF Inv, Typed
<1>3. CASE AddBook(t)
  <2> DEFINE e == [c EXCEPT !.book = file.lastBook + 1]
  <2>1. PICK i \in Isbn, n \in Copies :
          Statement(t, BookInsertable(file, i), InsertBook(file, i, n), e)
    BY <1>2, <1>3 DEF AddBook
  <2>2. c.op = "add book"
    BY <1>3, InHand DEF AddBook, OpAt
  <2>3. /\ e.op = "add book" /\ e.book = file.lastBook + 1
        /\ e \in CallRecord
    <3>1. \A k \in Nat : k + 1 \in Nat
      OBVIOUS
    <3> QED
      BY <1>2, <2>2, <3>1, Counters DEF CallRecord
  <2> HIDE DEF e
  <2> DEFINE new == InsertBook(file, i, n)
  <2>4. Later(file, new) /\ new.lastBook = file.lastBook + 1
    BY <1>2, InsertsLater
  <2> HIDE DEF new
  <2>5. e.book <= new.lastBook
    <3>1. e.book = new.lastBook
      BY <2>3, <2>4, Zenon
    <3>2. new.lastBook \in Nat
      BY <1>2, <2>4, Counters
    <3>3. \A x, y \in Nat : x = y => x <= y
      OBVIOUS
    <3> QED
      BY <3>1, <3>2, <3>3
  <2>6. Achieved(new, e)
    BY <2>3, <2>5 DEF Achieved
  <2> QED
    BY <2>1, <2>3, <2>4, <2>6, StatementPromise DEF new
<1>4. CASE AddMemberWrite(t)
  <2> DEFINE e == [c EXCEPT !.member = file.lastMember + 1]
             new == InsertMember(file, got[t].email, got[t].phone)
             ok == MemberInsertable(file, got[t].email)
  <2>1. Statement(t, ok, new, e)
    BY <1>2, <1>4 DEF AddMemberWrite
  <2>2. c.op = "add member"
    BY <1>4, InHand DEF AddMemberWrite, OpAt
  <2>3. /\ e.op = "add member" /\ e.member = file.lastMember + 1
        /\ e \in CallRecord
    <3>1. \A k \in Nat : k + 1 \in Nat
      OBVIOUS
    <3> QED
      BY <1>2, <2>2, <3>1, Counters DEF CallRecord
  <2>4. Later(file, new) /\ new.lastMember = file.lastMember + 1
    BY <1>2, InsertsLater
  <2> HIDE DEF e, new, ok
  <2>5. e.member <= new.lastMember
    <3>1. e.member = new.lastMember
      BY <2>3, <2>4, Zenon
    <3>2. new.lastMember \in Nat
      BY <1>2, <2>4, Counters
    <3>3. \A x, y \in Nat : x = y => x <= y
      OBVIOUS
    <3> QED
      BY <3>1, <3>2, <3>3
  <2>6. Achieved(new, e)
    BY <2>3, <2>5 DEF Achieved
  <2> QED
    BY <2>1, <2>3, <2>4, <2>6, StatementPromise
<1>5. CASE EditBookWrite(t)
  <2> DEFINE new == WriteBook(file, c.book, got[t])
  <2>1. PICK ok : Statement(t, ok, new, c)
    BY <1>2, <1>5 DEF EditBookWrite
  <2>2. Later(file, new)
    BY <1>2, UpdatesLater
  <2>3. c.op = "edit book"
    BY <1>5, InHand DEF EditBookWrite, OpAt
  <2> HIDE DEF new
  <2>4. Achieved(new, c)
    BY <2>3 DEF Achieved
  <2> QED
    BY <1>2, <2>1, <2>2, <2>4, StatementPromise
<1>6. CASE EditMemberWrite(t)
  <2> DEFINE new == WriteMember(file, c.member, got[t])
  <2>1. PICK ok : Statement(t, ok, new, c)
    BY <1>2, <1>6 DEF EditMemberWrite
  <2>2. Later(file, new)
    BY <1>2, UpdatesLater
  <2>3. c.op = "edit member"
    BY <1>6, InHand DEF EditMemberWrite, OpAt
  <2> HIDE DEF new
  <2>4. Achieved(new, c)
    BY <2>3 DEF Achieved
  <2> QED
    BY <1>2, <2>1, <2>2, <2>4, StatementPromise
<1>7. CASE DeleteBookWrite(t)
  <2> DEFINE new == DeleteBookRow(file, c.book)
  <2>1. Statement(t, TRUE, new, c)
    BY <1>2, <1>7 DEF DeleteBookWrite
  <2>2. Later(file, new) /\ c.book \notin DOMAIN new.books
    BY <1>2, RemovalsLater
  <2>3. c.op = "delete book" /\ c.book <= file.lastBook
    BY <1>7, InHand DEF DeleteBookWrite, OpAt, Promise, Known
  <2>4. new.lastBook = file.lastBook
    BY <1>2 DEF DeleteBookRow, Linked, IsDatabase
  <2> HIDE DEF new
  <2>5. Achieved(new, c)
    BY <2>2, <2>3, <2>4 DEF Achieved
  <2> QED
    BY <1>2, <2>1, <2>2, <2>5, StatementPromise
<1>8. CASE DeleteMemberWrite(t)
  <2> DEFINE new == DeleteMemberRow(file, c.member)
  <2>1. Statement(t, TRUE, new, c)
    BY <1>2, <1>8 DEF DeleteMemberWrite
  <2>2. Later(file, new) /\ c.member \notin DOMAIN new.members
    BY <1>2, RemovalsLater
  <2>3. c.op = "delete member" /\ c.member <= file.lastMember
    BY <1>8, InHand DEF DeleteMemberWrite, OpAt, Promise, Known
  <2>4. new.lastMember = file.lastMember
    BY <1>2 DEF DeleteMemberRow, Linked, IsDatabase
  <2> HIDE DEF new
  <2>5. Achieved(new, c)
    BY <2>2, <2>3, <2>4 DEF Achieved
  <2> QED
    BY <1>2, <2>1, <2>2, <2>5, StatementPromise
<1> QED
  BY <1>3, <1>4, <1>5, <1>6, <1>7, <1>8

\* What a user asks, types and confirms.
LEMMA UserPromise ==
  ASSUME "restore" \notin Calls, Inv, NEW t \in Terminal, Promise(t), User(t)
  PROVE  Promise(t)' /\ told' = told
<1>1. told' = told /\ file' = file
  BY DEF User, Ask, EditBookType, EditMemberType, TypeRow, Confirm, Check, Exit, Crash
<1>2. CASE Return(t)
  BY <1>1, <1>2, MenuPromise
<1>3. CASE Exit(t)
  <2>1. pc'[t] = "menu"
    BY <1>3 DEF Exit
  <2> QED
    BY <1>1, <2>1 DEF Promise, Known, Prepared
<1>4. CASE \E c \in Requests : Ask(t, c)
  <2>1. PICK c \in Requests : Ask(t, c)
    BY <1>4
  <2>2. pc'[t] = c.op /\ call'[t] = c /\ c.op \in Calls
    BY <2>1 DEF Ask, Goto, Inv, Typed
  <2>3. c.op \in {"loan", "return", "backup", "add book", "edit book", "delete book",
                  "add member", "edit member", "delete member"}
    BY <2>2, TerminalsAssumption
  <2>4. Known(t)' /\ Prepared(t)'
    BY <2>2, <2>3 DEF Known, Prepared
  <2> QED
    BY <1>1, <2>2, <2>3, <2>4 DEF Promise
<1>5. CASE /\ ~ Return(t)
           /\ \/ EditBookType(t) \/ EditMemberType(t)
              \/ Confirm(t, "sure of book", "count loans out")
              \/ Confirm(t, "sure of member", "count loans held")
  <2>1. /\ call' = call /\ begun' = begun
        /\ \/ pc[t] = "type book" /\ Goto(t, "edit book row")
           \/ pc[t] = "type member" /\ Goto(t, "find email")
           \/ pc[t] = "sure of book" /\ Goto(t, "count loans out")
           \/ pc[t] = "sure of member" /\ Goto(t, "count loans held")
    BY <1>5 DEF EditBookType, EditMemberType, TypeRow, Confirm, Check, conn
  <2>2. pc'[t] # "restore"
    BY <2>1 DEF Inv, Typed, Goto
  <2>3. Known(t)' /\ Prepared(t)'
    BY <1>1, <2>1 DEF Inv, Typed, Goto, Promise, Known, Prepared
  <2> QED
    BY <1>1, <2>2, <2>3 DEF Promise
<1> QED
  BY <1>2, <1>3, <1>4, <1>5 DEF User, Crash

\* A step that does not end a COMMIT reports what is in the file, or what is in
\* no COMMIT.
LEMMA StepPromise ==
  ASSUME "restore" \notin Calls, Inv, Quiet, NEW t \in Terminal, Promise(t),
         Step(t) \/ User(t), ~ Committed(t)
  PROVE  Promise(t)' /\ Honest
<1>1. CASE Backup(t)
  BY <1>1, MenuPromise DEF Backup, Honest
<1>2. ~ Restore(t)
  BY DEF Restore, Promise
<1>3. told' = told => Honest
  BY DEF Honest
<1> QED
  BY <1>1, <1>2, <1>3, ChecksPromise, FindsPromise, LendingPromise, ReturningPromise,
     CommitPromise, StatementsPromise, UserPromise DEF Step

\* The promises of the others do not depend on t, unless the file changes.
LEMMA OthersPromise ==
  ASSUME Inv, Promises, NEW t \in Terminal, Step(t) \/ User(t), ~ Committed(t),
         NEW u \in Terminal, u # t
  PROVE  Promise(u)'
<1>1. /\ pc'[u] = pc[u] /\ call'[u] = call[u] /\ work'[u] = work[u]
      /\ begun'[u] = begun[u]
  BY OthersAlone
<1>2. file' = file
  BY StepKept, UserKept DEF Kept, Backup
<1> QED
  BY <1>1, <1>2 DEF Promises, Promise, Known, Prepared

\* The end of a COMMIT: what was reported stays, what is reported is there.
LEMMA CommittedPromises ==
  ASSUME Inv, Promises, NEW t \in Terminal, Committed(t)
  PROVE  Promises'
<1> DEFINE c == call[t]
<1>1. /\ pc[t] = "committing" /\ file' = work[t] /\ Later(file, work[t])
      /\ Achieved(work[t], c) /\ c \in CallRecord /\ Report(c, TRUE)
  BY DEF Committed, Promises, Promise, Prepared, Inv, Typed
<1>2. Linked(file) /\ Linked(work[t])
  BY DEF Inv, Fine
<1>3. ASSUME NEW fact \in told', fact[3] PROVE Holds(file', fact)
  <2>1. fact \in told \/ fact = Fact(c, TRUE)
    BY <1>1 DEF Report, Achieved
  <2>2. CASE fact \in told
    BY <1>1, <1>2, <1>3, <2>2, HoldsLater DEF Promises
  <2>3. CASE fact = Fact(c, TRUE)
    BY <1>1, <2>3, AchievedHolds
  <2> QED
    BY <2>1, <2>2, <2>3
<1>4. Promise(t)'
  BY MenuPromise DEF Committed
<1>5. ASSUME NEW u \in Terminal, u # t PROVE Promise(u)'
  <2>1. /\ pc'[u] = pc[u] /\ call'[u] = call[u] /\ work'[u] = work[u]
        /\ begun'[u] = begun[u]
    BY <1>5, OthersAlone DEF Step
  <2>2. lock[t] = "exclusive" /\ lock[u] = "none"
    BY <1>1, <1>5 DEF Inv, Fine, WritesOfCall, OneWriter
  <2>3. pc[u] \notin {"take copy", "give copy", "commit", "committing"}
    BY <2>2 DEF Inv, Fine, WritesOfCall
  <2>4. call[u].book \in Nat /\ call[u].member \in Nat /\ call[u].loan \in Nat
    BY DEF Inv, Typed, CallRecord
  <2>5. /\ file.lastBook \in Nat /\ file.lastMember \in Nat /\ file.lastLoan \in Nat
        /\ file'.lastBook \in Nat /\ file'.lastMember \in Nat
        /\ file'.lastLoan \in Nat
    BY <1>1, <1>2, Counters
  <2>6. Known(u)'
    <3>1. /\ call[u].book <= file.lastBook => call[u].book <= file'.lastBook
          /\ call[u].member <= file.lastMember => call[u].member <= file'.lastMember
          /\ call[u].loan <= file.lastLoan => call[u].loan <= file'.lastLoan
      BY <1>1, <2>4, <2>5 DEF Later
    <3> QED
      BY <2>1, <3>1 DEF Promises, Promise, Known
  <2>7. pc'[u] # "restore" /\ Prepared(u)'
    BY <2>1, <2>3 DEF Promises, Promise, Prepared
  <2> QED
    BY <2>6, <2>7 DEF Promise
<1> QED
  BY <1>3, <1>4, <1>5 DEF Promises

\* Every step keeps the promises.
LEMMA PromisesNext ==
  ASSUME "restore" \notin Calls, Inv, Quiet, Promises, [Next]_vars
  PROVE  Promises'
<1>1. ASSUME NEW t \in Terminal, Step(t) \/ User(t) PROVE Promises'
  <2>1. CASE Committed(t)
    BY <2>1, CommittedPromises
  <2>2. CASE ~ Committed(t)
    <3>1. Promise(t)' /\ Honest
      BY <1>1, <2>2, StepPromise DEF Promises
    <3>2. file' = file
      BY <1>1, <2>2, StepKept, UserKept DEF Kept, Backup
    <3>3. \A fact \in told' : fact[3] => Holds(file', fact)
      BY <3>1, <3>2 DEF Promises, Honest
    <3>4. ASSUME NEW u \in Terminal PROVE Promise(u)'
      BY <1>1, <2>2, <3>1, OthersPromise
    <3> QED
      BY <3>3, <3>4 DEF Promises
  <2> QED
    BY <2>1, <2>2
<1>2. CASE \/ ReaderComes \/ ReaderGoes \/ UNCHANGED vars
           \/ \E t \in Terminal : Share(t)
  <2>1. /\ pc' = pc /\ call' = call /\ begun' = begun /\ work' = work
        /\ file' = file /\ told' = told
    BY <1>2 DEF ReaderComes, ReaderGoes, Share, vars, conn
  <2> QED
    BY <2>1 DEF Promises, Promise, Known, Prepared
<1> QED
  BY <1>1, <1>2 DEF Next

\* At the start nothing was reported.
LEMMA PromisesInit == ASSUME Init PROVE Promises
BY DEF Init, Promises, Promise, Known, Prepared

\* When nobody restores, what any of any number of terminals has reported after
\* a COMMIT that succeeded is in the file and stays there, whoever reads the file,
\* is killed, finds it locked or fails to commit.
THEOREM ReportsStay == "restore" \notin Calls /\ Spec => []CommitsLast
<1> SUFFICES ASSUME "restore" \notin Calls PROVE Spec => []CommitsLast
  OBVIOUS
<1>1. Promises => CommitsLast
  BY DEF Promises, CommitsLast, Recorded, Holds
<1>2. Init => Promises
  BY PromisesInit
<1>3. Inv /\ Quiet /\ Promises /\ [Next]_vars => Promises'
  BY PromisesNext
<1>4. Spec => []Promises
  BY <1>2, <1>3, AlwaysQuiet, Invariance, PTL DEF Spec
<1> QED
  BY <1>1, <1>4, PTL
=============================================================================
