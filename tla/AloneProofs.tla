----------------------------- MODULE AloneProofs ------------------------------
(***************************************************************************)
(* One terminal, killed at any moment and read from outside: what it does  *)
(* to the file one statement at a time is what Library does one call at a  *)
(* time.  Its checks, made in SELECTs before BEGIN, still hold when it     *)
(* writes, because nobody else writes in between; and what it does inside  *)
(* a transaction that a failed COMMIT left open never reaches the file.    *)
(***************************************************************************)
EXTENDS TerminalsProofs

-----------------------------------------------------------------------------
(* The calls of Library as relations between a file and the next.          *)

\* No loan still out is overdue.
Timely(d) == \A l \in ActiveLoans(d) : ~ d.loans[l].due < Today

\* Call c may be made of d once its checks have passed.
CanLend(d, c) ==
  /\ c.book \in DOMAIN d.books /\ d.books[c.book].available > 0
  /\ c.member \in DOMAIN d.members /\ d.members[c.member].active
  /\ UnderLimit(d, c.member) /\ NotDuplicate(d, c.book, c.member)

CanTakeBack(d, c) == c.loan \in ActiveLoans(d) /\ c.book = d.loans[c.loan].book

\* From d to e is one call of Library that changes the file, a restore apart.
Lawful(d, e) ==
  \/ \E i \in Isbn, n \in Copies :
       /\ d.lastBook < MaxBookId /\ ~ IsbnTaken(d, 0, i)
       /\ e = InsertBook(d, i, n)
  \/ \E b \in DOMAIN d.books, i \in Isbn :
       /\ ValidBook([d.books[b] EXCEPT !.isbn = i]) /\ ~ IsbnTaken(d, b, i)
       /\ e = WriteBook(d, b, [d.books[b] EXCEPT !.isbn = i])
  \/ \E b \in DOMAIN d.books : LoansOut(d, b) = {} /\ e = DeleteBookRow(d, b)
  \/ \E x \in Email, y \in Phone :
       /\ d.lastMember < MaxMemberId /\ ~ EmailTaken(d, 0, x)
       /\ e = InsertMember(d, x, y)
  \/ \E m \in DOMAIN d.members, x \in Email, y \in Phone :
       /\ ~ EmailTaken(d, m, x)
       /\ e = WriteMember(d, m, [d.members[m] EXCEPT !.email = x, !.phone = y])
  \/ \E m \in DOMAIN d.members : LoansHeld(d, m) = {} /\ e = DeleteMemberRow(d, m)
  \/ \E b \in BookId, m \in MemberId :
       /\ CanLend(d, [book |-> b, member |-> m]) /\ d.lastLoan < MaxLoanId
       /\ e = LentOut(d, b, m, Due)
  \/ \E l \in ActiveLoans(d) : e = TakenBack(d, l)

\* Ids in the tables are ids.
LEMMA IdsInTables ==
  ASSUME NEW d, Linked(d)
  PROVE  /\ DOMAIN d.books \subseteq BookId /\ DOMAIN d.members \subseteq MemberId
         /\ ActiveLoans(d) \subseteq LoanId
<1>1. /\ d.lastBook \in 0..MaxBookId /\ DOMAIN d.books \subseteq 1..d.lastBook
      /\ d.lastMember \in 0..MaxMemberId /\ DOMAIN d.members \subseteq 1..d.lastMember
      /\ d.lastLoan \in 0..MaxLoanId /\ DOMAIN d.loans \subseteq 1..d.lastLoan
  BY DEF Linked, IsDatabase, Table
<1>2. DOMAIN d.books \subseteq BookId
  BY <1>1, TablesAssumption DEF BookId
<1>3. DOMAIN d.members \subseteq MemberId
  BY <1>1, TablesAssumption DEF MemberId
<1>4. DOMAIN d.loans \subseteq LoanId
  BY <1>1, TablesAssumption DEF LoanId
<1> QED
  BY <1>2, <1>3, <1>4 DEF ActiveLoans

\* Day and due date of the run.
LEMMA DueLater == ~ Due < Today /\ Due <= LastDay
<1>1. Today \in Nat \ {0} /\ Today + DEFAULT_LOAN_DAYS <= LastDay
  BY TerminalsAssumption
<1>2. DEFAULT_LOAN_DAYS \in Nat \ {0}
  BY TablesAssumption
<1> QED
  BY <1>1, <1>2 DEF Due

\* The tables Library speaks of are the tables of Terminals.
LEMMA SameTables ==
  /\ Alone!BookId = BookId /\ Alone!MemberId = MemberId /\ Alone!LoanId = LoanId
  /\ \A d, i, n : Alone!InsertBook(d, i, n) = InsertBook(d, i, n)
  /\ \A d, b, i : Alone!IsbnTaken(d, b, i) <=> IsbnTaken(d, b, i)
  /\ \A d, b, r : Alone!WriteBook(d, b, r) = WriteBook(d, b, r)
  /\ \A r : Alone!ValidBook(r) <=> ValidBook(r)
  /\ \A d, b : Alone!DeleteBookRow(d, b) = DeleteBookRow(d, b)
  /\ \A d, x, y : Alone!InsertMember(d, x, y) = InsertMember(d, x, y)
  /\ \A d, m, x : Alone!EmailTaken(d, m, x) <=> EmailTaken(d, m, x)
  /\ \A d, m, r : Alone!WriteMember(d, m, r) = WriteMember(d, m, r)
  /\ \A d, m : Alone!DeleteMemberRow(d, m) = DeleteMemberRow(d, m)
  /\ \A d : Alone!ActiveLoans(d) = ActiveLoans(d)
  /\ \A d, b : Alone!LoansOut(d, b) = LoansOut(d, b)
  /\ \A d, m : Alone!LoansHeld(d, m) = LoansHeld(d, m)
  /\ \A d, b, m, due : Alone!LentOut(d, b, m, due) = LentOut(d, b, m, due)
  /\ \A d, l : Alone!TakenBack(d, l) = TakenBack(d, l)
  /\ \A S : Alone!Cardinality(S) = Cardinality(S)
<1>1. Alone!BookId = BookId /\ Alone!MemberId = MemberId /\ Alone!LoanId = LoanId
  BY DEF Alone!BookId, Alone!MemberId, Alone!LoanId, BookId, MemberId, LoanId
<1>2. /\ \A t, k, r : Alone!Put(t, k, r) = Put(t, k, r)
      /\ \A f, S : Alone!Restrict(f, S) = Restrict(f, S)
  BY DEF Alone!Put, Put, Alone!Restrict, Restrict
<1>3. \A d, i, n : Alone!InsertBook(d, i, n) = InsertBook(d, i, n)
  BY <1>2 DEF Alone!InsertBook, InsertBook
<1>4. \A d, b, r : Alone!WriteBook(d, b, r) = WriteBook(d, b, r)
  BY <1>2 DEF Alone!WriteBook, WriteBook
<1>5. \A d, b : Alone!DeleteBookRow(d, b) = DeleteBookRow(d, b)
  BY <1>2 DEF Alone!DeleteBookRow, DeleteBookRow
<1>6. \A d, x, y : Alone!InsertMember(d, x, y) = InsertMember(d, x, y)
  BY <1>2 DEF Alone!InsertMember, InsertMember
<1>7. \A d, m, r : Alone!WriteMember(d, m, r) = WriteMember(d, m, r)
  BY <1>2 DEF Alone!WriteMember, WriteMember
<1>8. \A d, m : Alone!DeleteMemberRow(d, m) = DeleteMemberRow(d, m)
  BY <1>2 DEF Alone!DeleteMemberRow, DeleteMemberRow
<1>9. /\ \A d : Alone!ActiveLoans(d) = ActiveLoans(d)
      /\ \A d, b : Alone!LoansOut(d, b) = LoansOut(d, b)
      /\ \A d, m : Alone!LoansHeld(d, m) = LoansHeld(d, m)
  BY DEF Alone!ActiveLoans, Alone!LoansOut, Alone!LoansHeld,
         ActiveLoans, LoansOut, LoansHeld
<1>10. \A d, b, m, due : Alone!LentOut(d, b, m, due) = LentOut(d, b, m, due)
  <2>1. \A d, b, m, due : Alone!InsertLoan(d, b, m, due) = InsertLoan(d, b, m, due)
    BY <1>2 DEF Alone!InsertLoan, InsertLoan
  <2>2. \A d, b : Alone!DecrementAvailable(d, b) = DecrementAvailable(d, b)
    BY DEF Alone!DecrementAvailable, DecrementAvailable
  <2> QED
    BY <2>1, <2>2 DEF Alone!LentOut, LentOut
<1>11. \A d, l : Alone!TakenBack(d, l) = TakenBack(d, l)
  BY DEF Alone!TakenBack, Alone!MarkReturned, Alone!IncrementAvailable,
         TakenBack, MarkReturned, IncrementAvailable
<1>12. /\ \A d, b, i : Alone!IsbnTaken(d, b, i) <=> IsbnTaken(d, b, i)
       /\ \A d, m, x : Alone!EmailTaken(d, m, x) <=> EmailTaken(d, m, x)
       /\ \A r : Alone!ValidBook(r) <=> ValidBook(r)
  BY DEF Alone!IsbnTaken, Alone!EmailTaken, Alone!ValidBook,
         IsbnTaken, EmailTaken, ValidBook
<1>13. \A S : Alone!Cardinality(S) = Cardinality(S)
  BY DEF Alone!Cardinality, Cardinality
<1> QED
  BY <1>1, <1>3, <1>4, <1>5, <1>6, <1>7, <1>8, <1>9, <1>10, <1>11, <1>12, <1>13

\* The checks of loan_book, made of a file without overdue loans.
LEMMA MayLend ==
  ASSUME NEW d, Timely(d), NEW c, CanLend(d, c)
  PROVE  Alone!LoanAvailable(d, Today, c.book, c.member)
<1>1. OverdueLoans(d, Today, c.member) = {}
  BY DEF Timely, OverdueLoans, LoansHeld
<1>2. Alone!OverdueLoans(d, Today, c.member) = OverdueLoans(d, Today, c.member)
  BY SameTables DEF Alone!OverdueLoans, OverdueLoans
<1>3. Alone!UnderLimit(d, c.member) <=> UnderLimit(d, c.member)
  BY SameTables DEF Alone!UnderLimit, UnderLimit
<1>4. Alone!NotDuplicate(d, c.book, c.member) <=> NotDuplicate(d, c.book, c.member)
  BY SameTables DEF Alone!NotDuplicate, Alone!LoansOf, NotDuplicate, LoansOf
<1> QED
  BY <1>1, <1>2, <1>3, <1>4
  DEF CanLend, Alone!LoanAvailable, Alone!MemberEligible

\* A lawful change of the file, or a restore, is a call of Library.
LEMMA LawfulCall ==
  ASSUME Linked(file), Timely(file), backups' = backups,
         Lawful(file, file') \/ Archived(file')
  PROVE  Alone!Next
<1>1. /\ DOMAIN file.books \subseteq BookId /\ DOMAIN file.members \subseteq MemberId
      /\ ActiveLoans(file) \subseteq LoanId
  BY IdsInTables
<1>2. CASE \E i \in Isbn, n \in Copies :
             /\ file.lastBook < MaxBookId /\ ~ IsbnTaken(file, 0, i)
             /\ file' = InsertBook(file, i, n)
  BY <1>2, SameTables DEF Alone!Next, Alone!BookNext, Alone!AddBook
<1>3. CASE \E b \in DOMAIN file.books, i \in Isbn :
             /\ ValidBook([file.books[b] EXCEPT !.isbn = i]) /\ ~ IsbnTaken(file, b, i)
             /\ file' = WriteBook(file, b, [file.books[b] EXCEPT !.isbn = i])
  BY <1>1, <1>3, SameTables
  DEF Alone!Next, Alone!BookNext, Alone!UpdateBook, Alone!EditedRow
<1>4. CASE \E b \in DOMAIN file.books :
             LoansOut(file, b) = {} /\ file' = DeleteBookRow(file, b)
  BY <1>1, <1>4, SameTables
  DEF Alone!Next, Alone!BookNext, Alone!DeleteBook, Alone!BookIsIn
<1>5. CASE \E x \in Email, y \in Phone :
             /\ file.lastMember < MaxMemberId /\ ~ EmailTaken(file, 0, x)
             /\ file' = InsertMember(file, x, y)
  BY <1>5, SameTables DEF Alone!Next, Alone!MemberNext, Alone!AddMember
<1>6. CASE \E m \in DOMAIN file.members, x \in Email, y \in Phone :
             /\ ~ EmailTaken(file, m, x)
             /\ file' = WriteMember(file, m,
                                    [file.members[m] EXCEPT !.email = x, !.phone = y])
  BY <1>1, <1>6, SameTables DEF Alone!Next, Alone!MemberNext, Alone!UpdateMember
<1>7. CASE \E m \in DOMAIN file.members :
             LoansHeld(file, m) = {} /\ file' = DeleteMemberRow(file, m)
  BY <1>1, <1>7, SameTables
  DEF Alone!Next, Alone!MemberNext, Alone!DeleteMember, Alone!MemberOwesNothing
<1>8. CASE \E b \in BookId, m \in MemberId :
             /\ CanLend(file, [book |-> b, member |-> m]) /\ file.lastLoan < MaxLoanId
             /\ file' = LentOut(file, b, m, Due)
  <2>1. PICK b \in BookId, m \in MemberId :
             /\ CanLend(file, [book |-> b, member |-> m]) /\ file.lastLoan < MaxLoanId
             /\ file' = LentOut(file, b, m, Due)
    BY <1>8
  <2>2. Alone!LoanAvailable(file, Today, b, m)
    BY <2>1, MayLend
  <2>3. Alone!DueDate(Today, 0) = Due
    BY DEF Alone!DueDate, Due
  <2>4. Alone!Expressible(Due)
    BY DueLater DEF Alone!Expressible
  <2>5. Alone!LoanBook(b, m, 0)
    BY <2>1, <2>2, <2>3, <2>4, SameTables DEF Alone!LoanBook
  <2> QED
    BY <2>5, SameTables DEF Alone!Next, Alone!LoanNext
<1>9. CASE \E l \in ActiveLoans(file) : file' = TakenBack(file, l)
  <2>1. PICK l \in ActiveLoans(file) : file' = TakenBack(file, l)
    BY <1>9
  <2>2. Alone!ReturnBook(l)
    BY <2>1, SameTables DEF Alone!ReturnBook, Alone!Returnable
  <2> QED
    BY <1>1, <2>2, SameTables DEF Alone!Next, Alone!LoanNext
<1>10. CASE Archived(file')
  BY <1>10 DEF Archived, Alone!Next, Alone!SystemNext, Alone!Restore, Alone!Restored
<1> QED
  BY <1>2, <1>3, <1>4, <1>5, <1>6, <1>7, <1>8, <1>9, <1>10 DEF Lawful

\* A loan that is made, or that stays, is not overdue.
LEMMA LawfulTimely ==
  ASSUME NEW d, NEW e, Linked(d), Timely(d), Lawful(d, e)
  PROVE  Timely(e)
<1>1. IsDatabase(d)
  BY DEF Linked
<1>2. ASSUME e.loans = d.loans PROVE Timely(e)
  BY <1>2 DEF Timely, ActiveLoans
<1>3. ASSUME NEW S, e.loans = Restrict(d.loans, S), S \subseteq DOMAIN d.loans
      PROVE  Timely(e)
  BY <1>3 DEF Timely, ActiveLoans, Restrict
<1>4. ASSUME NEW b, e = DeleteBookRow(d, b) PROVE Timely(e)
  <2> DEFINE S == {l \in DOMAIN d.loans : d.loans[l].book # b}
  <2>1. e.loans = Restrict(d.loans, S) /\ S \subseteq DOMAIN d.loans
    BY <1>1, <1>4 DEF DeleteBookRow, IsDatabase
  <2> HIDE DEF S
  <2> QED
    BY <1>3, <2>1
<1>5. ASSUME NEW m, e = DeleteMemberRow(d, m) PROVE Timely(e)
  <2> DEFINE S == {l \in DOMAIN d.loans : d.loans[l].member # m}
  <2>1. e.loans = Restrict(d.loans, S) /\ S \subseteq DOMAIN d.loans
    BY <1>1, <1>5 DEF DeleteMemberRow, IsDatabase
  <2> HIDE DEF S
  <2> QED
    BY <1>3, <2>1
<1>6. ASSUME NEW b \in BookId, NEW m \in MemberId,
             CanLend(d, [book |-> b, member |-> m])
      PROVE  Timely(LentOut(d, b, m, Due))
  <2> DEFINE new == LentOut(d, b, m, Due)
             k == d.lastLoan + 1
             row == [book |-> b, member |-> m, due |-> Due,
                     returned |-> FALSE, renewals |-> 0]
  <2>1. b \in DOMAIN d.books /\ d.books[b].available > 0
    BY <1>6 DEF CanLend
  <2>2. /\ DOMAIN new = DOMAIN d
        /\ new.loans = Put(d.loans, k, row)
        /\ new.lastLoan = k
        /\ new.books = [d.books EXCEPT ![b].available = @ - 1]
        /\ new.lastBook = d.lastBook /\ new.members = d.members
        /\ new.lastMember = d.lastMember
    BY <1>1, <2>1, LentOutFields
  <2>3. row.due = Due
    OBVIOUS
  <2> HIDE DEF new, k, row
  <2>4. Timely(new)
    BY <2>2, <2>3, DueLater DEF Timely, ActiveLoans, Put
  <2> QED
    BY <2>4 DEF new
<1>7. ASSUME NEW l \in ActiveLoans(d), e = TakenBack(d, l) PROVE Timely(e)
  <2>1. l \in DOMAIN d.loans /\ d.loans[l].book \in DOMAIN d.books
    BY DEF Linked, ReferencesHold, ActiveLoans
  <2>2. e.loans = [d.loans EXCEPT ![l].returned = TRUE]
    BY <1>1, <1>7, <2>1, TakenBackFields
  <2>3. \A k \in DOMAIN d.loans : d.loans[k] \in LoanRow
    BY <1>1 DEF IsDatabase, Table
  <2>4. e.loans[l].returned /\ DOMAIN e.loans = DOMAIN d.loans
    BY <2>1, <2>2, <2>3 DEF LoanRow
  <2>5. \A k \in DOMAIN d.loans : k # l => e.loans[k] = d.loans[k]
    BY <2>2
  <2> QED
    BY <2>4, <2>5 DEF Timely, ActiveLoans
<1>8. /\ \A i, n : e = InsertBook(d, i, n) => Timely(e)
      /\ \A b, row : e = WriteBook(d, b, row) => Timely(e)
      /\ \A x, y : e = InsertMember(d, x, y) => Timely(e)
      /\ \A m, row : e = WriteMember(d, m, row) => Timely(e)
  BY <1>1, <1>2, StatementsOffLoans
<1>9. /\ \A b : e = DeleteBookRow(d, b) => Timely(e)
      /\ \A m : e = DeleteMemberRow(d, m) => Timely(e)
      /\ \A l \in ActiveLoans(d) : e = TakenBack(d, l) => Timely(e)
  BY <1>4, <1>5, <1>7
<1> QED
  BY <1>6, <1>8, <1>9, Zenon DEF Lawful

-----------------------------------------------------------------------------
(* What a terminal alone has checked.                                      *)

Sole == \A t, u \in Terminal : t = u

AfterDuplicate == {"loan begin", "insert loan", "take copy"}
AfterCount == AfterDuplicate \cup {"find duplicate"}
AfterMember == AfterCount \cup {"count loans"}
AfterBook == AfterMember \cup {"read member"}

\* What the checks of its call have found so far is true of the file.
Found(t) ==
  LET b == call[t].book
      m == call[t].member
  IN
  /\ pc[t] \in AfterBook => b \in DOMAIN file.books /\ file.books[b].available > 0
  /\ pc[t] \in AfterMember => m \in DOMAIN file.members /\ file.members[m].active
  /\ pc[t] \in AfterCount => UnderLimit(file, m)
  /\ pc[t] \in AfterDuplicate => NotDuplicate(file, b, m)
  /\ pc[t] \in {"return begin", "mark returned", "give copy"} =>
       CanTakeBack(file, call[t])
  /\ pc[t] = "type book" => b \in DOMAIN file.books /\ got[t] = file.books[b]
  /\ pc[t] = "edit book row" =>
       /\ b \in DOMAIN file.books
       /\ \E i \in Isbn : got[t] = [file.books[b] EXCEPT !.isbn = i]
  /\ pc[t] = "type member" => m \in DOMAIN file.members /\ got[t] = file.members[m]
  /\ pc[t] \in {"find email", "edit member row"} =>
       /\ m \in DOMAIN file.members
       /\ \E x \in Email, y \in Phone :
            got[t] = [file.members[m] EXCEPT !.email = x, !.phone = y]
  /\ pc[t] \in {"sure of book", "count loans out", "delete book row"} =>
       b \in DOMAIN file.books
  /\ pc[t] = "delete book row" => LoansOut(file, b) = {}
  /\ pc[t] \in {"sure of member", "count loans held", "delete member row"} =>
       m \in DOMAIN file.members
  /\ pc[t] = "delete member row" => LoansHeld(file, m) = {}

\* In a transaction that a failed COMMIT left open the checks saw a copy that
\* will not be committed; those of a call in a transaction of its own, or in
\* none, saw the file.
Checked(t) ==
  /\ \/ ~ begun[t]
     \/ pc[t] \in {"insert loan", "take copy", "mark returned", "give copy"}
     => Found(t)
  /\ pc[t] = "take copy" => file.lastLoan < MaxLoanId
  /\ pc[t] \in {"commit", "committing"} => Lawful(file, work[t]) \/ Archived(work[t])

AllChecked ==
  /\ Timely(file)
  /\ \A p \in BackupPaths : \A copy \in backups[p] : Timely(copy)
  /\ \A t \in Terminal : Checked(t)

\* Labels at which nothing has been found yet.
Unread == {"menu", "loan", "return", "backup", "restore", "add book", "edit book",
           "delete book", "add member", "add member row", "edit member",
           "delete member"}

\* At such a label there is nothing to keep true.
LEMMA UnreadChecked ==
  ASSUME NEW t \in Terminal, pc'[t] \in Unread
  PROVE  Checked(t)'
<1>1. Found(t)'
  BY DEF Unread, Found, AfterBook, AfterMember, AfterCount, AfterDuplicate
<1> QED
  BY <1>1 DEF Unread, Checked

\* A call that returns leaves its terminal at the menu.
LEMMA ReturnChecked ==
  ASSUME Inv, NEW t \in Terminal, Return(t)
  PROVE  Checked(t)'
<1>1. pc'[t] = "menu"
  BY DEF Inv, Typed, Return, Goto
<1> QED
  BY <1>1, UnreadChecked DEF Unread

\* Between transactions a terminal alone sees the file, and finds it unlocked.
LEMMA SeesTheFile ==
  ASSUME Inv, Sole, NEW t \in Terminal
  PROVE  /\ CanRead(t) /\ CanWrite(t)
         /\ ~ begun[t] /\ pc[t] # "committing" => lock[t] = "none" /\ View(t) = file
<1>1. Others(t) = {}
  BY DEF Sole, Others
<1> QED
  BY <1>1 DEF CanRead, CanWrite, Inv, Fine, View

\* A SELECT outside a transaction of its own: it goes on with what it found.
LEMMA FoundChecked ==
  ASSUME NEW t \in Terminal, begun[t] \/ Found(t)', begun' = begun,
         pc'[t] \notin {"insert loan", "take copy", "mark returned", "give copy",
                       "commit", "committing"}
  PROVE  Checked(t)'
BY DEF Checked

\* A call about to commit.
LEMMA ReadyChecked ==
  ASSUME NEW t \in Terminal, pc'[t] \in {"commit", "committing"},
         \/ Lawful(file', work'[t])
         \/ \E p \in BackupPaths : work'[t] \in backups'[p]
  PROVE  Checked(t)'
<1>1. Found(t)'
  BY DEF Found, AfterBook, AfterMember, AfterCount, AfterDuplicate
<1> QED
  BY <1>1 DEF Checked, Archived

-----------------------------------------------------------------------------
(* loan_book and return_book.                                              *)

\* The SELECTs of loan_book.
LEMMA LoanChecksChecked ==
  ASSUME Inv, Sole, NEW t \in Terminal, Checked(t),
         LoanReadBook(t) \/ LoanReadMember(t) \/ LoanCount(t) \/ LoanDuplicate(t)
  PROVE  Checked(t)'
<1>1. CASE Return(t)
  BY <1>1, ReturnChecked
<1>2. CASE ~ Return(t)
  <2>1. /\ call' = call /\ file' = file /\ begun' = begun
        /\ \/ pc[t] = "loan" /\ Goto(t, "read member")
           \/ pc[t] = "read member" /\ Goto(t, "count loans")
           \/ pc[t] = "count loans" /\ Goto(t, "find duplicate")
           \/ pc[t] = "find duplicate" /\ Goto(t, "loan begin")
    BY <1>2 DEF LoanReadBook, LoanReadMember, LoanCount, LoanDuplicate, Check
  <2>2. CASE ~ begun[t]
    <3>1. View(t) = file /\ CanRead(t)
      BY <2>1, <2>2, SeesTheFile
    <3>2. Found(t)
      BY <2>2 DEF Checked
    <3>3. /\ pc[t] = "loan" =>
               /\ call[t].book \in DOMAIN file.books
               /\ file.books[call[t].book].available > 0
          /\ pc[t] = "read member" =>
               /\ call[t].member \in DOMAIN file.members
               /\ file.members[call[t].member].active
          /\ pc[t] = "count loans" => UnderLimit(file, call[t].member)
          /\ pc[t] = "find duplicate" =>
               NotDuplicate(file, call[t].book, call[t].member)
      BY <1>2, <3>1 DEF LoanReadBook, LoanReadMember, LoanCount, LoanDuplicate, Check
    <3>4. \/ pc[t] = "loan" /\ pc'[t] = "read member"
          \/ pc[t] = "read member" /\ pc'[t] = "count loans"
          \/ pc[t] = "count loans" /\ pc'[t] = "find duplicate"
          \/ pc[t] = "find duplicate" /\ pc'[t] = "loan begin"
      BY <2>1 DEF Goto, Inv, Typed
    <3>5. Found(t)'
      BY <2>1, <3>2, <3>3, <3>4
      DEF Found, AfterBook, AfterMember, AfterCount, AfterDuplicate
    <3> QED
      BY <2>1, <3>4, <3>5, FoundChecked
  <2>3. CASE begun[t]
    <3>1. pc'[t] \in {"read member", "count loans", "find duplicate", "loan begin"}
      BY <2>1 DEF Goto, Inv, Typed
    <3> QED
      BY <2>1, <2>3, <3>1, FoundChecked
  <2> QED
    BY <2>2, <2>3
<1> QED
  BY <1>1, <1>2

\* BEGIN succeeds only outside a transaction, where the checks saw the file.
LEMMA BeginChecked ==
  ASSUME Inv, NEW t \in Terminal, Checked(t), LoanBegin(t) \/ ReturnBegin(t)
  PROVE  Checked(t)'
<1>1. CASE Return(t)
  BY <1>1, ReturnChecked
<1>2. CASE ~ Return(t)
  <2>1. /\ ~ begun[t] /\ call' = call /\ file' = file
        /\ \/ pc[t] = "loan begin" /\ pc'[t] = "insert loan"
           \/ pc[t] = "return begin" /\ pc'[t] = "mark returned"
    BY <1>2 DEF LoanBegin, ReturnBegin, Begin, Goto, Inv, Typed
  <2>2. Found(t)
    BY <2>1 DEF Checked
  <2>3. Found(t)'
    BY <2>1, <2>2 DEF Found, AfterBook, AfterMember, AfterCount, AfterDuplicate
  <2> QED
    BY <2>1, <2>3 DEF Checked
<1> QED
  BY <1>1, <1>2

\* INSERT INTO loans.
LEMMA LoanInsertChecked ==
  ASSUME Inv, NEW t \in Terminal, Checked(t), LoanInsert(t)
  PROVE  Checked(t)'
<1>1. CASE Return(t)
  BY <1>1, ReturnChecked
<1>2. CASE ~ Return(t)
  <2>1. View(t) = file /\ Found(t) /\ pc[t] = "insert loan"
    BY DEF LoanInsert, Inv, Fine, WritesOfCall, View, Checked
  <2>2. /\ file' = file /\ file.lastLoan < MaxLoanId
        /\ call' = [call EXCEPT ![t].loan = file.lastLoan + 1]
        /\ Goto(t, "take copy")
    BY <1>2, <2>1 DEF LoanInsert, Insertable, AfterInsert
  <2>3. pc'[t] = "take copy"
    BY <2>2 DEF Goto, Inv, Typed
  <2>4. call'[t].book = call[t].book /\ call'[t].member = call[t].member
    BY <2>2 DEF Inv, Typed, CallRecord
  <2>5. Found(t)'
    BY <2>1, <2>2, <2>3, <2>4
    DEF Found, AfterBook, AfterMember, AfterCount, AfterDuplicate
  <2> QED
    BY <2>2, <2>3, <2>5 DEF Checked
<1> QED
  BY <1>1, <1>2

\* The UPDATE that takes the copy off the shelf.
LEMMA LoanTakeCopyChecked ==
  ASSUME Inv, NEW t \in Terminal, Checked(t), LoanTakeCopy(t)
  PROVE  Checked(t)'
<1> DEFINE b == call[t].book
           m == call[t].member
           c == [book |-> b, member |-> m]
<1>1. /\ pc[t] = "take copy" /\ pc'[t] = "commit" /\ file' = file
      /\ work'[t] = DecrementAvailable(work[t], b)
  BY DEF LoanTakeCopy, Goto, Wrote, Inv, Typed
<1>2. work[t] = InsertLoan(file, b, m, Due) /\ b \in BookId /\ m \in MemberId
  BY <1>1 DEF Inv, Fine, WritesOfCall, IdsOfCall
<1>3. Found(t) /\ file.lastLoan < MaxLoanId
  BY <1>1 DEF Checked
<1>4. c.book = b /\ c.member = m
  OBVIOUS
<1> HIDE DEF c
<1>5. CanLend(file, c)
  BY <1>1, <1>3, <1>4
  DEF Found, CanLend, AfterBook, AfterMember, AfterCount, AfterDuplicate
<1>6. work'[t] = LentOut(file, b, m, Due)
  BY <1>1, <1>2 DEF LentOut
<1> HIDE DEF b, m
<1>7. Lawful(file, work'[t])
  BY <1>2, <1>3, <1>5, <1>6 DEF Lawful, c
<1> QED
  BY <1>1, <1>7, ReadyChecked

\* return_book reads its loan.
LEMMA ReturnReadChecked ==
  ASSUME Inv, Sole, NEW t \in Terminal, ReturnRead(t)
  PROVE  Checked(t)'
<1> DEFINE l == call[t].loan
<1>1. CASE Return(t)
  BY <1>1, ReturnChecked
<1>2. CASE ~ Return(t)
  <2>1. /\ l \in ActiveLoans(View(t)) /\ Goto(t, "return begin")
        /\ call' = [call EXCEPT ![t].book = View(t).loans[l].book]
        /\ begun' = begun /\ file' = file /\ pc[t] = "return"
    BY <1>2 DEF ReturnRead, conn
  <2>2. pc'[t] = "return begin"
    BY <2>1 DEF Goto, Inv, Typed
  <2>3. call'[t].loan = l /\ call'[t].book = View(t).loans[l].book
    BY <2>1 DEF Inv, Typed, CallRecord
  <2>4. CASE ~ begun[t]
    <3>1. View(t) = file
      BY <2>1, <2>4, SeesTheFile
    <3>2. CanTakeBack(file', call'[t])
      BY <2>1, <2>3, <3>1 DEF CanTakeBack
    <3>3. Found(t)'
      BY <2>2, <3>2 DEF Found, AfterBook, AfterMember, AfterCount, AfterDuplicate
    <3> QED
      BY <2>1, <2>2, <3>3, FoundChecked
  <2> QED
    BY <2>1, <2>2, <2>4, FoundChecked
<1> QED
  BY <1>1, <1>2

\* The two UPDATEs of return_book.
LEMMA ReturnWritesChecked ==
  ASSUME Inv, NEW t \in Terminal, Checked(t), ReturnMark(t) \/ ReturnGiveCopy(t)
  PROVE  Checked(t)'
<1>1. pc[t] \in {"mark returned", "give copy"}
  BY DEF ReturnMark, ReturnGiveCopy
<1>2. CanTakeBack(file, call[t])
  BY <1>1 DEF Checked, Found
<1>3. CASE ReturnMark(t)
  <2>1. CASE ~ Return(t)
    <3>1. pc'[t] = "give copy" /\ call' = call /\ file' = file
      BY <1>3, <2>1 DEF ReturnMark, AfterMark, Goto, Inv, Typed
    <3>2. Found(t)'
      BY <1>2, <3>1 DEF Found, AfterBook, AfterMember, AfterCount, AfterDuplicate
    <3> QED
      BY <3>1, <3>2 DEF Checked
  <2> QED
    BY <2>1, ReturnChecked
<1>4. CASE ReturnGiveCopy(t)
  <2> DEFINE c == call[t]
  <2>1. /\ pc[t] = "give copy" /\ pc'[t] = "commit" /\ file' = file
        /\ work'[t] = IncrementAvailable(work[t], c.book)
    BY <1>4 DEF ReturnGiveCopy, Goto, Wrote, Inv, Typed
  <2>2. work[t] = MarkReturned(file, c.loan)
    BY <2>1 DEF Inv, Fine, WritesOfCall
  <2>3. work'[t] = TakenBack(file, c.loan) /\ c.loan \in ActiveLoans(file)
    BY <1>2, <2>1, <2>2 DEF TakenBack, CanTakeBack
  <2>4. Lawful(file, work'[t])
    BY <2>3 DEF Lawful
  <2> QED
    BY <2>1, <2>4, ReadyChecked
<1> QED
  BY <1>3, <1>4

\* COMMIT, done or refused.
LEMMA CommitChecked ==
  ASSUME Inv, NEW t \in Terminal, Checked(t), Commit(t)
  PROVE  Checked(t)'
<1>1. CASE ~ Return(t)
  <2>1. /\ pc[t] = "commit" /\ pc'[t] = "committing" /\ file' = file
        /\ work'[t] = work[t] /\ backups' = backups
    BY <1>1 DEF Commit, CommitBusy, Goto, Wrote, Inv, Typed, world
  <2>2. Lawful(file, work[t]) \/ Archived(work[t])
    BY <2>1 DEF Checked
  <2> QED
    BY <2>1, <2>2, ReadyChecked DEF Archived
<1> QED
  BY <1>1, ReturnChecked

-----------------------------------------------------------------------------
(* The menus, backups and restores.                                        *)

\* A statement of its own, if it is a call of Library on the file.
LEMMA StatementChecked ==
  ASSUME Inv, NEW t \in Terminal, pc[t] \in Unread \cup
           {"edit book row", "delete book row", "edit member row", "delete member row"},
         NEW ok, NEW d, NEW c, Statement(t, ok, d, c),
         ~ begun[t] /\ ok => Lawful(file, d)
  PROVE  Checked(t)'
<1>1. CASE Return(t)
  BY <1>1, ReturnChecked
<1>2. CASE ~ Return(t)
  <2>1. ~ begun[t] /\ ok /\ file' = file /\ Wrote(t, d, "exclusive")
        /\ Goto(t, "committing")
    BY <1>2 DEF Statement
  <2>2. pc'[t] = "committing" /\ work'[t] = d
    BY <2>1 DEF Goto, Wrote, Inv, Typed
  <2> QED
    BY <2>1, <2>2, ReadyChecked
<1> QED
  BY <1>1, <1>2

\* add_book.
LEMMA AddBookChecked ==
  ASSUME Inv, Sole, NEW t \in Terminal, AddBook(t)
  PROVE  Checked(t)'
<1>1. pc[t] = "add book"
  BY DEF AddBook
<1>2. PICK i \in Isbn, n \in Copies :
        Statement(t, BookInsertable(View(t), i), InsertBook(View(t), i, n),
                  [call[t] EXCEPT !.book = View(t).lastBook + 1])
  BY DEF AddBook
<1>3. ASSUME ~ begun[t], BookInsertable(View(t), i)
      PROVE  Lawful(file, InsertBook(View(t), i, n))
  <2>1. View(t) = file
    BY <1>1, <1>3, SeesTheFile
  <2> QED
    BY <1>3, <2>1 DEF BookInsertable, Lawful
<1> QED
  BY <1>1, <1>2, <1>3, StatementChecked DEF Unread

\* update_book.
LEMMA EditBookWriteChecked ==
  ASSUME Inv, Sole, NEW t \in Terminal, Checked(t), EditBookWrite(t)
  PROVE  Checked(t)'
<1> DEFINE b == call[t].book
           ok == ValidBook(got[t])
                   /\ (b \in DOMAIN View(t).books
                         => ~ IsbnTaken(View(t), b, got[t].isbn))
<1>1. pc[t] = "edit book row"
  BY DEF EditBookWrite
<1>2. Statement(t, ok, WriteBook(View(t), b, got[t]), call[t])
  BY DEF EditBookWrite
<1>3. ASSUME ~ begun[t], ok PROVE Lawful(file, WriteBook(View(t), b, got[t]))
  <2>1. View(t) = file
    BY <1>1, <1>3, SeesTheFile
  <2>2. b \in DOMAIN file.books
    BY <1>1, <1>3 DEF Checked, Found
  <2>3. PICK i \in Isbn : got[t] = [file.books[b] EXCEPT !.isbn = i]
    BY <1>1, <1>3 DEF Checked, Found
  <2>4. got[t].isbn = i
    <3>1. file.books[b] \in BookRow
      BY <2>2, BookRowOf DEF Inv
    <3> QED
      BY <2>3, <3>1 DEF BookRow
  <2> DEFINE row == [file.books[b] EXCEPT !.isbn = i]
  <2>5. ValidBook(row) /\ ~ IsbnTaken(file, b, i)
    BY <1>3, <2>1, <2>2, <2>3, <2>4
  <2>6. Lawful(file, WriteBook(file, b, row))
    BY <2>2, <2>5, Zenon DEF Lawful
  <2> QED
    BY <2>1, <2>3, <2>6
<1> HIDE DEF ok
<1> QED
  BY <1>1, <1>2, <1>3, StatementChecked

\* update_member.
LEMMA EditMemberWriteChecked ==
  ASSUME Inv, Sole, NEW t \in Terminal, Checked(t), EditMemberWrite(t)
  PROVE  Checked(t)'
<1> DEFINE m == call[t].member
           ok == m \in DOMAIN View(t).members => ~ EmailTaken(View(t), m, got[t].email)
<1>1. pc[t] = "edit member row"
  BY DEF EditMemberWrite
<1>2. Statement(t, ok, WriteMember(View(t), m, got[t]), call[t])
  BY DEF EditMemberWrite
<1>3. ASSUME ~ begun[t], ok PROVE Lawful(file, WriteMember(View(t), m, got[t]))
  <2>1. View(t) = file
    BY <1>1, <1>3, SeesTheFile
  <2>2. m \in DOMAIN file.members
    BY <1>1, <1>3 DEF Checked, Found
  <2>3. PICK x \in Email, y \in Phone :
          got[t] = [file.members[m] EXCEPT !.email = x, !.phone = y]
    BY <1>1, <1>3 DEF Checked, Found
  <2>4. got[t].email = x
    <3>1. file.members[m] \in MemberRow
      BY <2>2, MemberRowOf DEF Inv
    <3> QED
      BY <2>3, <3>1 DEF MemberRow
  <2>5. ~ EmailTaken(file, m, x)
    BY <1>3, <2>1, <2>2, <2>4
  <2> DEFINE row == [file.members[m] EXCEPT !.email = x, !.phone = y]
  <2>6. Lawful(file, WriteMember(file, m, row))
    BY <2>2, <2>5, Zenon DEF Lawful
  <2> QED
    BY <2>1, <2>3, <2>6
<1> HIDE DEF ok
<1> QED
  BY <1>1, <1>2, <1>3, StatementChecked

\* add_member.
LEMMA AddMemberWriteChecked ==
  ASSUME Inv, Sole, NEW t \in Terminal, AddMemberWrite(t)
  PROVE  Checked(t)'
<1> DEFINE x == got[t].email
           y == got[t].phone
<1>1. pc[t] = "add member row"
  BY DEF AddMemberWrite
<1>2. Statement(t, MemberInsertable(View(t), x), InsertMember(View(t), x, y),
                [call[t] EXCEPT !.member = View(t).lastMember + 1])
  BY DEF AddMemberWrite
<1>3. x \in Email /\ y \in Phone
  <2>1. got[t] \in MemberRow
    BY <1>1 DEF Inv, Fine, RowOfCall
  <2> QED
    BY <2>1 DEF MemberRow
<1> HIDE DEF x, y
<1>4. ASSUME ~ begun[t], MemberInsertable(View(t), x)
      PROVE  Lawful(file, InsertMember(View(t), x, y))
  <2>1. View(t) = file
    BY <1>1, <1>4, SeesTheFile
  <2> QED
    BY <1>3, <1>4, <2>1 DEF MemberInsertable, Lawful
<1> QED
  BY <1>1, <1>2, <1>4, StatementChecked DEF Unread

\* delete_book and delete_member.
LEMMA DeletesChecked ==
  ASSUME Inv, Sole, NEW t \in Terminal, Checked(t),
         DeleteBookWrite(t) \/ DeleteMemberWrite(t)
  PROVE  Checked(t)'
<1>1. CASE DeleteBookWrite(t)
  <2>1. /\ pc[t] = "delete book row"
        /\ Statement(t, TRUE, DeleteBookRow(View(t), call[t].book), call[t])
    BY <1>1 DEF DeleteBookWrite
  <2>2. ASSUME ~ begun[t] PROVE Lawful(file, DeleteBookRow(View(t), call[t].book))
    <3>1. View(t) = file
      BY <2>1, <2>2, SeesTheFile
    <3>2. call[t].book \in DOMAIN file.books /\ LoansOut(file, call[t].book) = {}
      BY <2>1, <2>2 DEF Checked, Found
    <3> QED
      BY <3>1, <3>2 DEF Lawful
  <2> QED
    BY <2>1, <2>2, StatementChecked
<1>2. CASE DeleteMemberWrite(t)
  <2>1. /\ pc[t] = "delete member row"
        /\ Statement(t, TRUE, DeleteMemberRow(View(t), call[t].member), call[t])
    BY <1>2 DEF DeleteMemberWrite
  <2>2. ASSUME ~ begun[t] PROVE Lawful(file, DeleteMemberRow(View(t), call[t].member))
    <3>1. View(t) = file
      BY <2>1, <2>2, SeesTheFile
    <3>2. call[t].member \in DOMAIN file.members /\ LoansHeld(file, call[t].member) = {}
      BY <2>1, <2>2 DEF Checked, Found
    <3> QED
      BY <3>1, <3>2 DEF Lawful
  <2> QED
    BY <2>1, <2>2, StatementChecked
<1> QED
  BY <1>1, <1>2

\* The SELECTs of the menus that find a row, or no loan of it, or no twin of it.
LEMMA MenuChecksChecked ==
  ASSUME Inv, Sole, NEW t \in Terminal, Checked(t),
         \/ DeleteBookFind(t) \/ DeleteBookCheck(t) \/ DeleteMemberFind(t)
         \/ DeleteMemberCheck(t) \/ EditMemberFind(t)
  PROVE  Checked(t)'
<1>1. CASE Return(t)
  BY <1>1, ReturnChecked
<1>2. CASE ~ Return(t)
  <2>1. /\ call' = call /\ got' = got /\ file' = file /\ begun' = begun
        /\ \/ pc[t] = "delete book" /\ pc'[t] = "sure of book"
           \/ pc[t] = "count loans out" /\ pc'[t] = "delete book row"
           \/ pc[t] = "delete member" /\ pc'[t] = "sure of member"
           \/ pc[t] = "count loans held" /\ pc'[t] = "delete member row"
           \/ pc[t] = "find email" /\ pc'[t] = "edit member row"
    BY <1>2 DEF DeleteBookFind, DeleteBookCheck, DeleteMemberFind, DeleteMemberCheck,
                EditMemberFind, Check, Goto, Inv, Typed
  <2>2. CASE ~ begun[t]
    <3>1. View(t) = file /\ CanRead(t)
      BY <2>1, <2>2, SeesTheFile
    <3>2. Found(t)
      BY <2>2 DEF Checked
    <3>3. /\ pc[t] = "delete book" => call[t].book \in DOMAIN file.books
          /\ pc[t] = "count loans out" => LoansOut(file, call[t].book) = {}
          /\ pc[t] = "delete member" => call[t].member \in DOMAIN file.members
          /\ pc[t] = "count loans held" => LoansHeld(file, call[t].member) = {}
      BY <1>2, <3>1 DEF DeleteBookFind, DeleteBookCheck, DeleteMemberFind,
                        DeleteMemberCheck, EditMemberFind, BookThere, MemberThere, Check
    <3>4. Found(t)'
      BY <2>1, <3>2, <3>3
      DEF Found, AfterBook, AfterMember, AfterCount, AfterDuplicate
    <3> QED
      BY <2>1, <3>4, FoundChecked
  <2>3. CASE begun[t]
    BY <2>1, <2>3, FoundChecked
  <2> QED
    BY <2>2, <2>3
<1> QED
  BY <1>1, <1>2

\* The SELECTs of the menus that show a row to type over.
LEMMA ShowsChecked ==
  ASSUME Inv, Sole, NEW t \in Terminal,
         EditBookRead(t) \/ EditMemberRead(t) \/ AddMemberFind(t)
  PROVE  Checked(t)'
<1>1. CASE Return(t)
  BY <1>1, ReturnChecked DEF ShowRow
<1>2. CASE EditBookRead(t) /\ ~ Return(t)
  <2> DEFINE b == call[t].book
  <2>1. /\ pc[t] = "edit book" /\ pc'[t] = "type book" /\ call' = call
        /\ file' = file /\ begun' = begun /\ got'[t] = View(t).books[b]
        /\ b \in DOMAIN View(t).books
    BY <1>2 DEF EditBookRead, ShowRow, BookThere, Goto, conn, Inv, Typed
  <2>2. ASSUME ~ begun[t] PROVE Found(t)'
    <3>1. View(t) = file
      BY <2>1, <2>2, SeesTheFile
    <3> QED
      BY <2>1, <3>1 DEF Found, AfterBook, AfterMember, AfterCount, AfterDuplicate
  <2> QED
    BY <2>1, <2>2, FoundChecked
<1>3. CASE EditMemberRead(t) /\ ~ Return(t)
  <2> DEFINE m == call[t].member
  <2>1. /\ pc[t] = "edit member" /\ pc'[t] = "type member" /\ call' = call
        /\ file' = file /\ begun' = begun /\ got'[t] = View(t).members[m]
        /\ m \in DOMAIN View(t).members
    BY <1>3 DEF EditMemberRead, ShowRow, MemberThere, Goto, conn, Inv, Typed
  <2>2. ASSUME ~ begun[t] PROVE Found(t)'
    <3>1. View(t) = file
      BY <2>1, <2>2, SeesTheFile
    <3> QED
      BY <2>1, <3>1 DEF Found, AfterBook, AfterMember, AfterCount, AfterDuplicate
  <2> QED
    BY <2>1, <2>2, FoundChecked
<1>4. CASE AddMemberFind(t) /\ ~ Return(t)
  <2>1. pc'[t] = "add member row"
    BY <1>4 DEF AddMemberFind, ShowRow, Goto, Inv, Typed
  <2> QED
    BY <2>1, UnreadChecked DEF Unread
<1> QED
  BY <1>1, <1>2, <1>3, <1>4

\* A restore puts a backup in the place of the file.
LEMMA RestoreChecked ==
  ASSUME Inv, NEW t \in Terminal, Restore(t)
  PROVE  Checked(t)'
<1>1. CASE ~ Return(t)
  <2>1. PICK p \in BackupPaths : \E copy \in backups[p] : Wrote(t, copy, "exclusive")
    BY <1>1 DEF Restore
  <2>2. Goto(t, "committing") /\ backups' = backups
    BY <1>1 DEF Restore, world
  <2>3. work'[t] \in backups[p] /\ pc'[t] = "committing"
    BY <2>1, <2>2 DEF Wrote, Goto, Inv, Typed
  <2> QED
    BY <2>2, <2>3, ReadyChecked
<1> QED
  BY <1>1, ReturnChecked

\* What the user types over the row that was shown.
LEMMA TypesChecked ==
  ASSUME Inv, NEW t \in Terminal, Checked(t), EditBookType(t) \/ EditMemberType(t)
  PROVE  Checked(t)'
<1>1. CASE Return(t)
  BY <1>1, ReturnChecked
<1>2. CASE EditBookType(t) /\ ~ Return(t)
  <2>1. PICK i \in (Isbn \ {NO_ISBN}) \cup {got[t].isbn} :
          TypeRow(t, [got[t] EXCEPT !.isbn = i], "edit book row")
    BY <1>2 DEF EditBookType
  <2>2. /\ pc[t] = "type book" /\ pc'[t] = "edit book row" /\ call' = call
        /\ file' = file /\ begun' = begun
        /\ got'[t] = [got[t] EXCEPT !.isbn = i]
    BY <1>2, <2>1 DEF EditBookType, TypeRow, Goto, conn, Inv, Typed
  <2>3. i \in Isbn
    <3>1. got[t] \in BookRow
      BY <2>2 DEF Inv, Fine, RowOfCall
    <3> QED
      BY <3>1 DEF BookRow
  <2>4. ASSUME ~ begun[t] PROVE Found(t)'
    <3>1. call[t].book \in DOMAIN file.books /\ got[t] = file.books[call[t].book]
      BY <2>2, <2>4 DEF Checked, Found
    <3> QED
      BY <2>2, <2>3, <3>1
      DEF Found, AfterBook, AfterMember, AfterCount, AfterDuplicate
  <2> QED
    BY <2>2, <2>4, FoundChecked
<1>3. CASE EditMemberType(t) /\ ~ Return(t)
  <2>1. PICK x \in Email, y \in Phone :
          TypeRow(t, [got[t] EXCEPT !.email = x, !.phone = y], "find email")
    BY <1>3 DEF EditMemberType
  <2>2. /\ pc[t] = "type member" /\ pc'[t] = "find email" /\ call' = call
        /\ file' = file /\ begun' = begun
        /\ got'[t] = [got[t] EXCEPT !.email = x, !.phone = y]
    BY <1>3, <2>1 DEF EditMemberType, TypeRow, Goto, conn, Inv, Typed
  <2>3. ASSUME ~ begun[t] PROVE Found(t)'
    <3>1. /\ call[t].member \in DOMAIN file.members
          /\ got[t] = file.members[call[t].member]
      BY <2>2, <2>3 DEF Checked, Found
    <3> QED
      BY <2>2, <3>1 DEF Found, AfterBook, AfterMember, AfterCount, AfterDuplicate
  <2> QED
    BY <2>2, <2>3, FoundChecked
<1> QED
  BY <1>1, <1>2, <1>3

\* What the user asks and confirms, and the ends of the program.
LEMMA UserChecked ==
  ASSUME Inv, NEW t \in Terminal, Checked(t), User(t)
  PROVE  Checked(t)'
<1>1. CASE Return(t)
  BY <1>1, ReturnChecked
<1>2. CASE \E c \in Requests : Ask(t, c)
  <2>1. PICK c \in Requests : Ask(t, c)
    BY <1>2
  <2>2. pc'[t] = c.op /\ c.op \in Calls
    BY <2>1 DEF Ask, Goto, Inv, Typed
  <2>3. pc'[t] \in Unread
    BY <2>2, TerminalsAssumption DEF Unread
  <2> QED
    BY <2>3, UnreadChecked
<1>3. CASE Exit(t)
  <2>1. pc'[t] \in Unread
    BY <1>3 DEF Exit, Unread
  <2> QED
    BY <2>1, UnreadChecked
<1>4. CASE /\ ~ Return(t)
           /\ \/ Confirm(t, "sure of book", "count loans out")
              \/ Confirm(t, "sure of member", "count loans held")
  <2>1. /\ call' = call /\ got' = got /\ file' = file /\ begun' = begun
        /\ \/ pc[t] = "sure of book" /\ pc'[t] = "count loans out"
           \/ pc[t] = "sure of member" /\ pc'[t] = "count loans held"
    BY <1>4 DEF Confirm, Check, Goto, Inv, Typed
  <2>2. ASSUME ~ begun[t] PROVE Found(t)'
    <3>1. Found(t)
      BY <2>2 DEF Checked
    <3> QED
      BY <2>1, <3>1 DEF Found, AfterBook, AfterMember, AfterCount, AfterDuplicate
  <2> QED
    BY <2>1, <2>2, FoundChecked
<1> QED
  BY <1>1, <1>2, <1>3, <1>4, TypesChecked DEF User, Crash

\* A step of a terminal alone.
LEMMA StepChecked ==
  ASSUME Inv, Sole, NEW t \in Terminal, Checked(t), Step(t) \/ User(t)
  PROVE  Checked(t)'
<1>1. CASE Backup(t) \/ Committed(t)
  BY <1>1, ReturnChecked DEF Backup, Committed
<1> QED
  BY <1>1, LoanChecksChecked, BeginChecked, LoanInsertChecked, LoanTakeCopyChecked,
     ReturnReadChecked, ReturnWritesChecked, CommitChecked, AddBookChecked,
     EditBookWriteChecked, EditMemberWriteChecked, AddMemberWriteChecked,
     DeletesChecked, MenuChecksChecked, ShowsChecked, RestoreChecked, UserChecked
  DEF Step

-----------------------------------------------------------------------------
(* Together.                                                               *)

\* The file becomes the working copy: one call of Library.
LEMMA CommittedAlone ==
  ASSUME Inv, AllChecked, NEW t \in Terminal, Committed(t)
  PROVE  Alone!Next /\ Timely(file') /\ backups' = backups
<1>1. /\ pc[t] = "committing" /\ file' = work[t] /\ backups' = backups
  BY DEF Committed, world
<1>2. Lawful(file, file') \/ Archived(file')
  BY <1>1 DEF AllChecked, Checked
<1>3. Linked(file) /\ Timely(file)
  BY DEF Inv, AllChecked
<1>4. Timely(file')
  BY <1>2, <1>3, LawfulTimely DEF AllChecked, Archived
<1> QED
  BY <1>1, <1>2, <1>3, <1>4, LawfulCall

\* A backup is Library's, or nothing.
LEMMA BackupAlone ==
  ASSUME Inv, AllChecked, NEW t \in Terminal, Backup(t)
  PROVE  /\ Alone!Next \/ backups' = backups
         /\ file' = file
         /\ \A p \in BackupPaths : \A copy \in backups'[p] : Timely(copy)
<1>1. PICK p \in BackupPaths :
        backups' = IF CanRead(t) /\ lock[t] = "none"
                   THEN [backups EXCEPT ![p] = {file}] ELSE backups
  BY DEF Backup
<1>2. file' = file
  BY DEF Backup
<1>3. CASE backups' = backups
  BY <1>2, <1>3 DEF AllChecked
<1>4. CASE backups' = [backups EXCEPT ![p] = {file}]
  <2>1. \A q \in BackupPaths : \A copy \in backups'[q] : Timely(copy)
    BY <1>4 DEF AllChecked, Inv, BackupsLinked
  <2>2. Alone!Backup(p)
    BY <1>2, <1>4 DEF Alone!Backup, Alone!Copied
  <2> QED
    BY <1>2, <2>1, <2>2 DEF Alone!Next, Alone!SystemNext
<1> QED
  BY <1>1, <1>3, <1>4

\* Every step of a terminal alone is one call of Library, or changes nothing that
\* lasts, and leaves its checks true of the file.
LEMMA AloneNext ==
  ASSUME Sole, Inv, AllChecked, [Next]_vars
  PROVE  AllChecked' /\ (Alone!Next \/ (file' = file /\ backups' = backups))
<1>1. ASSUME NEW t \in Terminal, Step(t) \/ User(t)
      PROVE  AllChecked' /\ (Alone!Next \/ (file' = file /\ backups' = backups))
  <2>1. Checked(t)'
    BY <1>1, StepChecked DEF AllChecked
  <2>2. \A u \in Terminal : Checked(u)'
    BY <2>1 DEF Sole
  <2>3. CASE Committed(t)
    BY <2>2, <2>3, CommittedAlone DEF AllChecked
  <2>4. CASE Backup(t)
    BY <2>2, <2>4, BackupAlone DEF AllChecked
  <2>5. CASE ~ Committed(t) /\ ~ Backup(t)
    <3>1. file' = file /\ backups' = backups
      BY <1>1, <2>5, StepKept, UserKept DEF Kept
    <3> QED
      BY <2>2, <3>1 DEF AllChecked
  <2> QED
    BY <2>3, <2>4, <2>5
<1>2. CASE \/ ReaderComes \/ ReaderGoes \/ UNCHANGED vars
           \/ \E t \in Terminal : Share(t)
  <2>1. /\ file' = file /\ backups' = backups /\ pc' = pc /\ call' = call
        /\ got' = got /\ begun' = begun /\ work' = work
    BY <1>2 DEF ReaderComes, ReaderGoes, Share, vars, conn, world
  <2>2. ASSUME NEW t \in Terminal PROVE Checked(t)'
    <3>1. Checked(t)
      BY DEF AllChecked
    <3>2. Found(t) => Found(t)'
      BY <2>1 DEF Found, AfterBook, AfterMember, AfterCount, AfterDuplicate
    <3> QED
      BY <2>1, <3>1, <3>2 DEF Checked, Archived
  <2> QED
    BY <2>1, <2>2 DEF AllChecked
<1> QED
  BY <1>1, <1>2 DEF Next

\* When the terminal starts nothing is checked and nothing is overdue.
LEMMA AloneInit == ASSUME Init, Timely(Stock) PROVE AllChecked
<1>1. ASSUME NEW t \in Terminal PROVE Checked(t)
  BY DEF Init, Checked, Found, AfterBook, AfterMember, AfterCount, AfterDuplicate
<1> QED
  BY <1>1 DEF Init, AllChecked

\* A terminal alone, whatever its user asks, wherever it is killed and whoever
\* reads the file meanwhile, changes the file and the backups as the calls of
\* Library do and in no other way, from any stock without overdue loans.
THEOREM OneTerminalActsAlone == Sole /\ Timely(Stock) /\ Spec => ActsAlone
<1> SUFFICES ASSUME Sole, Timely(Stock) PROVE Spec => ActsAlone
  OBVIOUS
<1>1. Init => AllChecked
  BY AloneInit
<1>2. Inv /\ AllChecked /\ [Next]_vars =>
        AllChecked' /\ [Alone!Next]_<<file, backups>>
  BY AloneNext
<1> QED
  BY <1>1, <1>2, Invariance, PTL DEF Spec, ActsAlone
-----------------------------------------------------------------------------
(* What follows for a terminal alone from what is proved of Library.       *)

\* Library over the file of the terminals, with its theorems.
Whole == INSTANCE LibraryProofs WITH
  LoanDays <- {0}, FirstDay <- Today, MaxDay <- Today, db <- file, today <- Today

\* A stock the calls of the program could have left: its copies add up, no limit
\* is passed, no book is held twice, nothing was renewed and nothing is overdue.
GoodStock == Sound(Stock) /\ Unrenewed(Stock) /\ Timely(Stock)

\* What Library assumes of its constants, the terminals grant.
LEMMA WholeAssumptions == Whole!LibraryAssumption /\ Whole!TablesAssumption
<1>1. /\ Copies \subseteq Nat \ {0} /\ Today \in Nat \ {0}
      /\ Today + DEFAULT_LOAN_DAYS <= LastDay
  BY TerminalsAssumption
<1>2. LastDay \in Nat /\ DEFAULT_LOAN_DAYS \in Nat
  BY TablesAssumption
<1>3. Today \in Today..LastDay
  BY <1>1, <1>2
<1>4. Whole!TablesAssumption
  BY TablesAssumption DEF Whole!TablesAssumption, Whole!EndOfCalendar, EndOfCalendar
<1> QED
  BY <1>1, <1>3, <1>4 DEF Whole!LibraryAssumption

\* The Library of ActsAlone and the one with the theorems make the same calls.
LEMMA SameCalls == Whole!Next <=> Alone!Next
<1> USE DEF
    Alone!BookId, Whole!BookId, Alone!MemberId, Whole!MemberId, Alone!LoanId,
    Whole!LoanId, Alone!Day, Whole!Day, Alone!Put, Whole!Put, Alone!Restrict,
    Whole!Restrict, Alone!ActiveLoans, Whole!ActiveLoans, Alone!LoansOut,
    Whole!LoansOut, Alone!LoansHeld, Whole!LoansHeld, Alone!LoansOf,
    Whole!LoansOf, Alone!OverdueLoans, Whole!OverdueLoans, Alone!IsbnTaken,
    Whole!IsbnTaken, Alone!InsertBook, Whole!InsertBook, Alone!WriteBook,
    Whole!WriteBook, Alone!DeleteBookRow, Whole!DeleteBookRow,
    Alone!ValidBook, Whole!ValidBook, Alone!DecrementAvailable,
    Whole!DecrementAvailable, Alone!IncrementAvailable,
    Whole!IncrementAvailable, Alone!EmailTaken, Whole!EmailTaken,
    Alone!InsertMember, Whole!InsertMember, Alone!WriteMember,
    Whole!WriteMember, Alone!DeleteMemberRow, Whole!DeleteMemberRow,
    Alone!SetActive, Whole!SetActive, Alone!InsertLoan, Whole!InsertLoan,
    Alone!MarkReturned, Whole!MarkReturned, Alone!ExtendDueDate,
    Whole!ExtendDueDate, Alone!LentOut, Whole!LentOut, Alone!TakenBack,
    Whole!TakenBack, Alone!UnderLimit, Whole!UnderLimit, Alone!MemberEligible,
    Whole!MemberEligible, Alone!NotDuplicate, Whole!NotDuplicate,
    Alone!LoanAvailable, Whole!LoanAvailable, Alone!DueDate, Whole!DueDate,
    Alone!Expressible, Whole!Expressible, Alone!YearRead, Whole!YearRead,
    Alone!ClockSeconds, Whole!ClockSeconds, Alone!RenewalAllowed,
    Whole!RenewalAllowed, Alone!Cardinality, Whole!Cardinality,
    Alone!AddBook, Whole!AddBook, Alone!EditedRow, Whole!EditedRow,
    Alone!UpdateBook, Whole!UpdateBook, Alone!BookIsIn, Whole!BookIsIn,
    Alone!DeleteBook, Whole!DeleteBook, Alone!AddMember, Whole!AddMember,
    Alone!UpdateMember, Whole!UpdateMember, Alone!MemberOwesNothing,
    Whole!MemberOwesNothing, Alone!DeleteMember, Whole!DeleteMember,
    Alone!DeactivateMember, Whole!DeactivateMember, Alone!ActivateMember,
    Whole!ActivateMember, Alone!LoanBook, Whole!LoanBook, Alone!Returnable,
    Whole!Returnable, Alone!ReturnBook, Whole!ReturnBook,
    Alone!ReturnBookByIds, Whole!ReturnBookByIds, Alone!ExtendLoan,
    Whole!ExtendLoan, Alone!Copied, Whole!Copied, Alone!Backup, Whole!Backup,
    Alone!Restored, Whole!Restored, Alone!Restore, Whole!Restore, Alone!Tick,
    Whole!Tick
<1>1. Whole!BookNext <=> Alone!BookNext
  BY DEF Whole!BookNext, Alone!BookNext
<1>2. Whole!MemberNext <=> Alone!MemberNext
  BY DEF Whole!MemberNext, Alone!MemberNext
<1>3. Whole!LoanNext <=> Alone!LoanNext
  BY DEF Whole!LoanNext, Alone!LoanNext
<1>4. Whole!SystemNext <=> Alone!SystemNext
  BY DEF Whole!SystemNext, Alone!SystemNext
<1> QED
  BY <1>1, <1>2, <1>3, <1>4, Zenon DEF Whole!Next, Alone!Next

\* They mean the same by a good database.
LEMMA SameGood == \A d : Whole!Good(d) <=> Sound(d) /\ Unrenewed(d)
BY SMT DEF Whole!Good, Whole!Sound, Sound, Whole!IsDatabase, IsDatabase,
  Whole!Table, Table, Whole!BookRow, BookRow, Whole!MemberRow, MemberRow,
  Whole!LoanRow, LoanRow, Whole!Day, Day, Whole!ReferencesHold, ReferencesHold,
  Whole!CopiesAddUp, CopiesAddUp, Whole!LimitKept, LimitKept, Whole!LentOnce,
  LentOnce, Whole!Unrenewed, Unrenewed, Whole!ActiveLoans, ActiveLoans,
  Whole!LoansOut, LoansOut, Whole!LoansHeld, LoansHeld, Whole!BookId, BookId,
  Whole!MemberId, MemberId, Whole!LoanId, LoanId, Whole!Cardinality, Cardinality

\* They are seen from outside as the same library.
LEMMA SamePromise ==
  [Whole!Promise!Next]_(Whole!Promise!vars) <=> [Alone!Promise!Next]_(Alone!Promise!vars)
<1>1. Whole!BookId = Alone!BookId /\ Whole!MemberId = Alone!MemberId
  BY DEF Whole!BookId, Alone!BookId, Whole!MemberId, Alone!MemberId
<1>2. /\ Whole!ShelfOf(file) = Alone!ShelfOf(file)
      /\ Whole!ShelfOf(file)' = Alone!ShelfOf(file)'
  BY DEF Whole!ShelfOf, Alone!ShelfOf
<1>3. /\ Whole!PatronsOf(file) = Alone!PatronsOf(file)
      /\ Whole!PatronsOf(file)' = Alone!PatronsOf(file)'
  BY DEF Whole!PatronsOf, Alone!PatronsOf
<1>4. /\ Whole!HeldIn(file) = Alone!HeldIn(file)
      /\ Whole!HeldIn(file)' = Alone!HeldIn(file)'
  BY DEF Whole!HeldIn, Alone!HeldIn, Whole!ActiveLoans, Alone!ActiveLoans
<1> DEFINE ours == [p \in BackupPaths |-> Alone!KeptIn(backups[p])]
           theirs == [p \in BackupPaths |-> Whole!KeptIn(backups[p])]
<1>5. theirs = ours /\ theirs' = ours'
  BY DEF Whole!KeptIn, Alone!KeptIn, Whole!ShelfOf, Alone!ShelfOf,
         Whole!PatronsOf, Alone!PatronsOf, Whole!HeldIn, Alone!HeldIn,
         Whole!ActiveLoans, Alone!ActiveLoans
<1>6. \A t : Whole!Promise!Acquire(t) <=> Alone!Promise!Acquire(t)
  BY <1>2, <1>3, <1>4, <1>5 DEF Whole!Promise!Acquire, Alone!Promise!Acquire
<1>7. \A t : Whole!Promise!Discard(t) <=> Alone!Promise!Discard(t)
  BY <1>2, <1>3, <1>4, <1>5
  DEF Whole!Promise!Discard, Alone!Promise!Discard, Whole!Promise!HoldersOf,
      Alone!Promise!HoldersOf
<1>8. \A p : Whole!Promise!Join(p) <=> Alone!Promise!Join(p)
  BY <1>2, <1>3, <1>4, <1>5 DEF Whole!Promise!Join, Alone!Promise!Join
<1>9. \A p : Whole!Promise!Leave(p) <=> Alone!Promise!Leave(p)
  BY <1>2, <1>3, <1>4, <1>5
  DEF Whole!Promise!Leave, Alone!Promise!Leave, Whole!Promise!HeldBy,
      Alone!Promise!HeldBy
<1>10. \A p, t : Whole!Promise!Lend(p, t) <=> Alone!Promise!Lend(p, t)
  BY <1>2, <1>3, <1>4, <1>5
  DEF Whole!Promise!Lend, Alone!Promise!Lend, Whole!Promise!HeldBy,
      Alone!Promise!HeldBy, Whole!Promise!Cardinality, Alone!Promise!Cardinality
<1>11. \A p, t : Whole!Promise!GiveBack(p, t) <=> Alone!Promise!GiveBack(p, t)
  BY <1>2, <1>3, <1>4, <1>5 DEF Whole!Promise!GiveBack, Alone!Promise!GiveBack
<1>12. \A a : Whole!Promise!Keep(a) <=> Alone!Promise!Keep(a)
  BY <1>2, <1>3, <1>4, <1>5
  DEF Whole!Promise!Keep, Alone!Promise!Keep, Whole!Promise!state,
      Alone!Promise!state
<1>13. \A a : Whole!Promise!BringBack(a) <=> Alone!Promise!BringBack(a)
  BY <1>2, <1>3, <1>4, <1>5
  DEF Whole!Promise!BringBack, Alone!Promise!BringBack, Whole!Promise!state,
      Alone!Promise!state
<1>14. Whole!Promise!vars = Alone!Promise!vars /\ Whole!Promise!vars' = Alone!Promise!vars'
  BY <1>2, <1>3, <1>4, <1>5 DEF Whole!Promise!vars, Alone!Promise!vars
<1>15. Whole!Promise!Next <=> Alone!Promise!Next
  BY <1>1, <1>6, <1>7, <1>8, <1>9, <1>10, <1>11, <1>12, <1>13
  DEF Whole!Promise!Next, Alone!Promise!Next
<1> QED
  BY <1>14, <1>15

\* Every step of a terminal alone is a step of the Library with the theorems, or
\* does not touch what that one sees.
LEMMA WholeNext ==
  ASSUME Sole, Inv, AllChecked, [Next]_vars
  PROVE  [Whole!Next]_(Whole!vars)
<1>1. Whole!vars = <<file, Today, backups>> /\ Whole!vars' = <<file', Today, backups'>>
  BY DEF Whole!vars
<1> QED
  BY <1>1, AloneNext, SameCalls

\* The terminal starts from a database as good as Library keeps it.
LEMMA WholeInit == ASSUME Init, GoodStock PROVE Whole!Inv
<1>1. Whole!Good(file)
  BY SameGood DEF Init, GoodStock
<1>2. Today \in Today..Today
  <2>1. Today \in Nat
    BY TerminalsAssumption
  <2> QED
    BY <2>1
<1>3. /\ DOMAIN backups = BackupPaths
      /\ \A p \in BackupPaths : \A copy \in backups[p] : Whole!Good(copy)
  BY DEF Init
<1> QED
  BY <1>1, <1>2, <1>3, Whole!InvGood, WholeAssumptions

\* The invariant of Library, at every statement of a terminal alone.
LEMMA WholeInvariance ==
  Sole /\ GoodStock /\ Spec => [](Inv /\ AllChecked /\ Whole!Inv)
<1> SUFFICES ASSUME Sole, GoodStock
             PROVE  Spec => [](Inv /\ AllChecked /\ Whole!Inv)
  OBVIOUS
<1>1. Init => AllChecked /\ Whole!Inv
  BY AloneInit, WholeInit DEF GoodStock
<1>2. Inv /\ AllChecked /\ Whole!Inv /\ [Next]_vars => AllChecked' /\ Whole!Inv'
  BY AloneNext, WholeNext, Whole!StepInv, WholeAssumptions
<1> QED
  BY <1>1, <1>2, Invariance, PTL DEF Spec

\* The limit that two terminals pass (the run LimitPassed) is kept by one: no
\* statement, no death and no failed COMMIT leaves a member with a book too many.
THEOREM OneTerminalKeepsTheLimit == Sole /\ GoodStock /\ Spec => []MemberLimit
<1>1. Whole!Inv => MemberLimit
  <2>1. Whole!Inv => Whole!Good(file)
    BY Whole!InvGood, WholeAssumptions
  <2> QED
    BY <2>1, SameGood DEF Sound, MemberLimit
<1> QED
  BY <1>1, WholeInvariance, PTL

\* The copies that two terminals count twice (the run ReturnedTwice) stay within
\* the total when one terminal lends and takes back.
THEOREM OneTerminalKeepsTheCount == Sole /\ GoodStock /\ Spec => []CopiesWithinTotal
<1>1. Whole!Inv => CopiesWithinTotal
  <2> SUFFICES ASSUME Whole!Inv, NEW b \in DOMAIN file.books
               PROVE  ValidBook(file.books[b])
    BY DEF CopiesWithinTotal
  <2> DEFINE row == file.books[b]
             out == Cardinality(LoansOut(file, b))
  <2>1. Sound(file)
    BY Whole!InvGood, WholeAssumptions, SameGood
  <2>2. row \in BookRow /\ out \in Nat /\ row.available + out = row.total
    BY <2>1, LoansFinite DEF Sound, IsDatabase, Table, CopiesAddUp
  <2>3. row.available \in Nat /\ row.total \in Nat
    BY <2>2 DEF BookRow
  <2> QED
    BY <2>2, <2>3 DEF ValidBook
<1> QED
  BY <1>1, WholeInvariance, PTL

\* Statement by statement, a terminal alone is the lending library of Lending: a
\* step of the program is one transfer, arrival or departure, or does not show.
THEOREM OneTerminalLends == Sole /\ GoodStock /\ Spec => LendsAsPromised
<1> SUFFICES ASSUME Sole, GoodStock PROVE Spec => LendsAsPromised
  OBVIOUS
<1>1. Inv /\ AllChecked /\ Whole!Inv /\ [Next]_vars =>
        [Alone!Promise!Next]_(Alone!Promise!vars)
  BY WholeNext, Whole!PromiseStep, WholeAssumptions, SamePromise
<1> QED
  BY <1>1, WholeInvariance, PTL DEF Spec, LendsAsPromised

\* Whatever a terminal alone does to the file, a restore apart, no loan still out
\* is lost, no return is taken back and no loan id is used again.
THEOREM OneTerminalKeepsTheLedger ==
  Sole /\ GoodStock /\ Spec =>
    [][LedgerKept(file, file') \/ Archived(file')]_file
<1> SUFFICES ASSUME Sole, GoodStock
             PROVE  Spec => [][LedgerKept(file, file') \/ Archived(file')]_file
  OBVIOUS
<1>1. \A d, e : Whole!LedgerKept(d, e) <=> LedgerKept(d, e)
  BY DEF Whole!LedgerKept, LedgerKept, Whole!ActiveLoans, ActiveLoans
<1>2. Whole!vars = <<file, Today, backups>> /\ Whole!vars' = <<file', Today, backups'>>
  BY DEF Whole!vars
<1>3. Inv /\ AllChecked /\ Whole!Inv /\ [Next]_vars =>
        [LedgerKept(file, file') \/ Archived(file')]_file
  <2> SUFFICES ASSUME Inv, AllChecked, Whole!Inv, [Next]_vars, file' # file
               PROVE  LedgerKept(file, file') \/ Archived(file')
    OBVIOUS
  <2>1. [Whole!Next]_(Whole!vars)
    BY WholeNext
  <2>2. Whole!vars' # Whole!vars
    BY <1>2
  <2>3. \/ Whole!LedgerKept(file, file')
        \/ \E p \in BackupPaths : file' \in backups[p]
    BY <2>1, <2>2, Whole!LedgerStep, WholeAssumptions
  <2> QED
    BY <1>1, <2>3 DEF Archived
<1> QED
  BY <1>3, WholeInvariance, PTL DEF Spec

\* The database of database_create_tables is a good stock.
LEMMA EmptyIsGood == Stock = EmptyDatabase => GoodStock
<1>1. Sound(EmptyDatabase)
  BY EmptySound
<1>2. DOMAIN EmptyDatabase.loans = {}
  BY DEF EmptyDatabase, NoRows
<1>3. Unrenewed(EmptyDatabase) /\ Timely(EmptyDatabase)
  BY <1>2 DEF Unrenewed, Timely, ActiveLoans
<1> QED
  BY <1>1, <1>3 DEF GoodStock

\* A terminal alone, from the first start of the program, implements Lending.
THEOREM OneTerminalKeepsPromise ==
  Sole /\ Stock = EmptyDatabase /\ Spec => Alone!KeepsPromise
<1> SUFFICES ASSUME Sole, Stock = EmptyDatabase PROVE Spec => Alone!KeepsPromise
  OBVIOUS
<1>1. Sole /\ GoodStock
  BY EmptyIsGood
<1>2. Init => Alone!Promise!Init
  <2> SUFFICES ASSUME Init PROVE Alone!Promise!Init
    OBVIOUS
  <2>1. file = EmptyDatabase /\ backups = [p \in BackupPaths |-> {}]
    BY DEF Init
  <2>2. DOMAIN file.books = {} /\ DOMAIN file.members = {} /\ DOMAIN file.loans = {}
    BY <2>1 DEF EmptyDatabase, NoRows
  <2>3. Alone!ShelfOf(file) = [t \in {} |-> 0]
    BY <2>2 DEF Alone!ShelfOf
  <2>4. Alone!PatronsOf(file) = {} /\ Alone!HeldIn(file) = {}
    BY <2>2 DEF Alone!PatronsOf, Alone!HeldIn, Alone!ActiveLoans
  <2>5. [p \in BackupPaths |-> Alone!KeptIn(backups[p])] = [a \in BackupPaths |-> {}]
    BY <2>1 DEF Alone!KeptIn
  <2> QED
    BY <2>3, <2>4, <2>5 DEF Alone!Promise!Init
<1> QED
  BY <1>1, <1>2, OneTerminalLends, PTL
  DEF Spec, LendsAsPromised, Alone!KeepsPromise, Alone!Promise!Spec
=============================================================================
