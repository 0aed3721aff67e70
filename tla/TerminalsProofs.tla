--------------------------- MODULE TerminalsProofs ---------------------------
(***************************************************************************)
(* Terminals for any number of terminals, any stock and any calls: every   *)
(* database they commit or work on is well-formed, has no orphan loan and  *)
(* no row twice, one terminal at a time writes, and every change of the    *)
(* file is the whole of one call's writes.                                 *)
(***************************************************************************)
EXTENDS Terminals, TablesProofs

USE TablesAssumption

\* A well-formed database without orphan loans and twins.
Linked(d) == IsDatabase(d) /\ ReferencesHold(d) /\ KeysUnique(d)

-----------------------------------------------------------------------------
(* Statements keep a database linked, whatever was checked before them.    *)

\* An empty database is linked.
LEMMA EmptyLinked == Linked(EmptyDatabase)
BY EmptySound DEF Sound, Linked, KeysUnique, EmptyDatabase, NoRows

\* UPDATE of one row of books, to any row with an isbn of its own.
LEMMA BookWritten ==
  ASSUME NEW d, Linked(d), NEW e, NEW b \in DOMAIN d.books, NEW row \in BookRow,
         ~ IsbnTaken(d, b, row.isbn),
         DOMAIN e = DOMAIN d, e.books = [d.books EXCEPT ![b] = row],
         e.lastBook = d.lastBook, e.members = d.members,
         e.lastMember = d.lastMember, e.loans = d.loans, e.lastLoan = d.lastLoan
  PROVE  Linked(e)
<1>1. Table(d.books, 1..d.lastBook, BookRow)
  BY DEF Linked, IsDatabase
<1>2. Table(e.books, 1..e.lastBook, BookRow) /\ DOMAIN e.books = DOMAIN d.books
  BY <1>1 DEF Table
<1>3. KeysUnique(e)
  <2>1. ASSUME NEW x \in DOMAIN e.books, NEW y \in DOMAIN e.books,
               e.books[x].isbn = e.books[y].isbn
        PROVE  x = y
    <3>1. \A z \in DOMAIN d.books : e.books[z] = IF z = b THEN row ELSE d.books[z]
      BY <1>1 DEF Table
    <3>2. CASE x # b /\ y # b
      BY <1>2, <2>1, <3>1, <3>2 DEF Linked, KeysUnique
    <3>3. CASE x = b \/ y = b
      BY <1>2, <2>1, <3>1, <3>3 DEF IsbnTaken
    <3> QED
      BY <3>2, <3>3
  <2> QED
    BY <2>1 DEF Linked, KeysUnique
<1> QED
  BY <1>2, <1>3 DEF Linked, IsDatabase, ReferencesHold

\* The row of a book that exists.
LEMMA BookRowOf ==
  ASSUME NEW d, Linked(d), NEW b \in DOMAIN d.books
  PROVE  d.books[b] \in BookRow
<1>1. Table(d.books, 1..d.lastBook, BookRow)
  BY DEF Linked, IsDatabase
<1> QED
  BY <1>1 DEF Table

\* The whole-row UPDATE of update_book.
LEMMA WriteBookLinked ==
  ASSUME NEW d, Linked(d), NEW b, NEW row \in BookRow,
         b \in DOMAIN d.books => ~ IsbnTaken(d, b, row.isbn)
  PROVE  Linked(WriteBook(d, b, row))
<1>1. CASE b \notin DOMAIN d.books
  BY <1>1 DEF WriteBook
<1>2. CASE b \in DOMAIN d.books
  <2> DEFINE e == WriteBook(d, b, row)
  <2>1. Put(d.books, b, row) = [d.books EXCEPT ![b] = row]
    <3>1. Table(d.books, 1..d.lastBook, BookRow)
      BY DEF Linked, IsDatabase
    <3> QED
      BY <1>2, <3>1 DEF Put, Table
  <2>2. /\ DOMAIN e = DOMAIN d /\ e.books = Put(d.books, b, row)
        /\ e.lastBook = d.lastBook /\ e.members = d.members
        /\ e.lastMember = d.lastMember /\ e.loans = d.loans
        /\ e.lastLoan = d.lastLoan
    BY <1>2 DEF WriteBook, Linked, IsDatabase
  <2> HIDE DEF e
  <2>3. Linked(e)
    BY <1>2, <2>1, <2>2, BookWritten
  <2> QED
    BY <2>3 DEF e
<1> QED
  BY <1>1, <1>2

\* The UPDATE of loan_book that takes a copy off the shelf.
LEMMA DecrementLinked ==
  ASSUME NEW d, Linked(d), NEW b
  PROVE  Linked(DecrementAvailable(d, b))
<1>1. CASE ~ (b \in DOMAIN d.books /\ d.books[b].available > 0)
  BY <1>1 DEF DecrementAvailable
<1>2. CASE b \in DOMAIN d.books /\ d.books[b].available > 0
  <2> DEFINE e == DecrementAvailable(d, b)
             row == [d.books[b] EXCEPT !.available = @ - 1]
  <2>1. d.books[b] \in BookRow
    BY <1>2, BookRowOf
  <2>2. row \in BookRow /\ row.isbn = d.books[b].isbn
    BY <1>2, <2>1 DEF BookRow
  <2>3. /\ DOMAIN e = DOMAIN d /\ e.books = [d.books EXCEPT ![b] = row]
        /\ e.lastBook = d.lastBook /\ e.members = d.members
        /\ e.lastMember = d.lastMember /\ e.loans = d.loans
        /\ e.lastLoan = d.lastLoan
    BY <1>2 DEF DecrementAvailable, Linked, IsDatabase
  <2> HIDE DEF e, row
  <2>4. ~ IsbnTaken(d, b, row.isbn)
    BY <1>2, <2>2 DEF IsbnTaken, Linked, KeysUnique
  <2>5. Linked(e)
    BY <1>2, <2>2, <2>3, <2>4, BookWritten
  <2> QED
    BY <2>5 DEF e
<1> QED
  BY <1>1, <1>2

\* The UPDATE of return_book that puts a copy back on the shelf.
LEMMA IncrementLinked ==
  ASSUME NEW d, Linked(d), NEW b
  PROVE  Linked(IncrementAvailable(d, b))
<1>1. CASE b \notin DOMAIN d.books
  BY <1>1 DEF IncrementAvailable
<1>2. CASE b \in DOMAIN d.books
  <2> DEFINE e == IncrementAvailable(d, b)
             row == [d.books[b] EXCEPT !.available = @ + 1]
  <2>1. d.books[b] \in BookRow
    BY <1>2, BookRowOf
  <2>2. row \in BookRow /\ row.isbn = d.books[b].isbn
    BY <1>2, <2>1 DEF BookRow
  <2>3. /\ DOMAIN e = DOMAIN d /\ e.books = [d.books EXCEPT ![b] = row]
        /\ e.lastBook = d.lastBook /\ e.members = d.members
        /\ e.lastMember = d.lastMember /\ e.loans = d.loans
        /\ e.lastLoan = d.lastLoan
    BY <1>2 DEF IncrementAvailable, Linked, IsDatabase
  <2> HIDE DEF e, row
  <2>4. ~ IsbnTaken(d, b, row.isbn)
    BY <1>2, <2>2 DEF IsbnTaken, Linked, KeysUnique
  <2>5. Linked(e)
    BY <1>2, <2>2, <2>3, <2>4, BookWritten
  <2> QED
    BY <2>5 DEF e
<1> QED
  BY <1>1, <1>2

\* The INSERT of loan_book, of a book and a member that exist.
LEMMA InsertLoanLinked ==
  ASSUME NEW d, Linked(d), NEW b \in DOMAIN d.books, NEW m \in DOMAIN d.members,
         d.lastLoan < MaxLoanId, NEW due \in Day
  PROVE  Linked(InsertLoan(d, b, m, due))
<1> DEFINE e == InsertLoan(d, b, m, due)
           k == d.lastLoan + 1
           row == [book |-> b, member |-> m, due |-> due,
                   returned |-> FALSE, renewals |-> 0]
<1>1. /\ DOMAIN e = DOMAIN d /\ e.loans = Put(d.loans, k, row)
      /\ e.lastLoan = k /\ e.books = d.books /\ e.lastBook = d.lastBook
      /\ e.members = d.members /\ e.lastMember = d.lastMember
  BY DEF InsertLoan, Linked, IsDatabase
<1> HIDE DEF e
<1>2. /\ d.lastLoan \in 0..MaxLoanId /\ Table(d.loans, 1..d.lastLoan, LoanRow)
      /\ d.lastBook \in 0..MaxBookId /\ Table(d.books, 1..d.lastBook, BookRow)
      /\ d.lastMember \in 0..MaxMemberId
      /\ Table(d.members, 1..d.lastMember, MemberRow)
  BY DEF Linked, IsDatabase
<1>3. b \in BookId /\ m \in MemberId
  BY <1>2 DEF Table, BookId, MemberId
<1>4. row \in LoanRow
  BY <1>3 DEF LoanRow
<1>5. k \in 0..MaxLoanId
  BY <1>2
<1> HIDE DEF row
<1>6. Table(e.loans, 1..e.lastLoan, LoanRow)
  BY <1>1, <1>2, <1>4, <1>5 DEF Table, Put
<1>7. ReferencesHold(e)
  BY <1>1, <1>3 DEF ReferencesHold, Put, Linked, row
<1>8. IsDatabase(e) /\ KeysUnique(e)
  BY <1>1, <1>5, <1>6 DEF Linked, IsDatabase, KeysUnique
<1>9. Linked(e)
  BY <1>7, <1>8 DEF Linked
<1> QED
  BY <1>9 DEF e

\* The UPDATE of return_book that marks the loan.
LEMMA MarkReturnedLinked ==
  ASSUME NEW d, Linked(d), NEW l
  PROVE  Linked(MarkReturned(d, l))
<1>1. CASE l \notin DOMAIN d.loans
  BY <1>1 DEF MarkReturned
<1>2. CASE l \in DOMAIN d.loans
  <2> DEFINE e == MarkReturned(d, l)
  <2>1. Table(d.loans, 1..d.lastLoan, LoanRow)
    BY DEF Linked, IsDatabase
  <2>2. /\ DOMAIN e = DOMAIN d /\ e.loans = [d.loans EXCEPT ![l].returned = TRUE]
        /\ e.lastLoan = d.lastLoan /\ e.books = d.books /\ e.lastBook = d.lastBook
        /\ e.members = d.members /\ e.lastMember = d.lastMember
    BY <1>2 DEF MarkReturned, Linked, IsDatabase
  <2> HIDE DEF e
  <2>3. /\ DOMAIN e.loans = DOMAIN d.loans
        /\ \A k \in DOMAIN d.loans : /\ e.loans[k] \in LoanRow
                                     /\ e.loans[k].book = d.loans[k].book
                                     /\ e.loans[k].member = d.loans[k].member
    <3>1. DOMAIN e.loans = DOMAIN d.loans
      BY <2>1, <2>2 DEF Table
    <3>2. ASSUME NEW k \in DOMAIN d.loans
          PROVE  e.loans[k] = IF k = l THEN [d.loans[l] EXCEPT !.returned = TRUE]
                                       ELSE d.loans[k]
      BY <1>2, <2>1, <2>2 DEF Table
    <3>3. ASSUME NEW k \in DOMAIN d.loans PROVE d.loans[k] \in LoanRow
      BY <2>1 DEF Table
    <3>4. ASSUME NEW r \in LoanRow
          PROVE  LET q == [r EXCEPT !.returned = TRUE]
                 IN  q \in LoanRow /\ q.book = r.book /\ q.member = r.member
      BY DEF LoanRow
    <3>5. ASSUME NEW k \in DOMAIN d.loans
          PROVE  /\ e.loans[k] \in LoanRow
                 /\ e.loans[k].book = d.loans[k].book
                 /\ e.loans[k].member = d.loans[k].member
      <4>1. CASE k = l
        <5>1. e.loans[k] = [d.loans[k] EXCEPT !.returned = TRUE]
          BY <3>2, <4>1
        <5> QED
          BY <3>3, <3>4, <5>1
      <4>2. CASE k # l
        BY <3>2, <3>3, <4>2
      <4> QED
        BY <4>1, <4>2
    <3> QED
      BY <3>1, <3>5
  <2>4. e.loans = [k \in DOMAIN e.loans |-> e.loans[k]]
    BY <2>1, <2>2 DEF Table
  <2>5. Table(e.loans, 1..e.lastLoan, LoanRow)
    BY <2>1, <2>2, <2>3, <2>4 DEF Table
  <2>6. Linked(e)
    BY <2>2, <2>3, <2>5 DEF Linked, IsDatabase, ReferencesHold, KeysUnique
  <2> QED
    BY <2>6 DEF e
<1> QED
  BY <1>1, <1>2

\* DELETE FROM books takes the loans of the book with it.
LEMMA DeleteBookLinked ==
  ASSUME NEW d, Linked(d), NEW b
  PROVE  Linked(DeleteBookRow(d, b))
<1> DEFINE e == DeleteBookRow(d, b)
           S == {l \in DOMAIN d.loans : d.loans[l].book # b}
<1>1. /\ DOMAIN e = DOMAIN d
      /\ e.books = Restrict(d.books, DOMAIN d.books \ {b})
      /\ e.loans = Restrict(d.loans, S)
      /\ e.lastBook = d.lastBook /\ e.lastLoan = d.lastLoan
      /\ e.members = d.members /\ e.lastMember = d.lastMember
  BY DEF DeleteBookRow, Linked, IsDatabase
<1> HIDE DEF e
<1>2. /\ Table(d.books, 1..d.lastBook, BookRow)
      /\ Table(d.loans, 1..d.lastLoan, LoanRow)
  BY DEF Linked, IsDatabase
<1>3. /\ Table(e.books, 1..e.lastBook, BookRow)
      /\ Table(e.loans, 1..e.lastLoan, LoanRow)
  BY <1>1, <1>2 DEF Table, Restrict
<1>4. ReferencesHold(e) /\ KeysUnique(e)
  BY <1>1 DEF ReferencesHold, KeysUnique, Restrict, Linked
<1>5. Linked(e)
  BY <1>1, <1>3, <1>4 DEF Linked, IsDatabase
<1> QED
  BY <1>5 DEF e

\* DELETE FROM members takes the loans of the member with it.
LEMMA DeleteMemberLinked ==
  ASSUME NEW d, Linked(d), NEW m
  PROVE  Linked(DeleteMemberRow(d, m))
<1> DEFINE e == DeleteMemberRow(d, m)
           S == {l \in DOMAIN d.loans : d.loans[l].member # m}
<1>1. /\ DOMAIN e = DOMAIN d
      /\ e.members = Restrict(d.members, DOMAIN d.members \ {m})
      /\ e.loans = Restrict(d.loans, S)
      /\ e.lastMember = d.lastMember /\ e.lastLoan = d.lastLoan
      /\ e.books = d.books /\ e.lastBook = d.lastBook
  BY DEF DeleteMemberRow, Linked, IsDatabase
<1> HIDE DEF e
<1>2. /\ Table(d.members, 1..d.lastMember, MemberRow)
      /\ Table(d.loans, 1..d.lastLoan, LoanRow)
  BY DEF Linked, IsDatabase
<1>3. /\ Table(e.members, 1..e.lastMember, MemberRow)
      /\ Table(e.loans, 1..e.lastLoan, LoanRow)
  BY <1>1, <1>2 DEF Table, Restrict
<1>4. ReferencesHold(e) /\ KeysUnique(e)
  BY <1>1 DEF ReferencesHold, KeysUnique, Restrict, Linked
<1>5. Linked(e)
  BY <1>1, <1>3, <1>4 DEF Linked, IsDatabase
<1> QED
  BY <1>5 DEF e

\* The INSERT of add_book.
LEMMA InsertBookLinked ==
  ASSUME NEW d, Linked(d), NEW i \in Isbn, NEW n \in Nat, d.lastBook < MaxBookId,
         ~ IsbnTaken(d, 0, i)
  PROVE  Linked(InsertBook(d, i, n))
<1> DEFINE e == InsertBook(d, i, n)
           k == d.lastBook + 1
           row == [isbn |-> i, total |-> n, available |-> n]
<1>1. /\ DOMAIN e = DOMAIN d /\ e.books = Put(d.books, k, row)
      /\ e.lastBook = k /\ e.loans = d.loans /\ e.lastLoan = d.lastLoan
      /\ e.members = d.members /\ e.lastMember = d.lastMember
  BY DEF InsertBook, Linked, IsDatabase
<1> HIDE DEF e
<1>2. d.lastBook \in 0..MaxBookId /\ Table(d.books, 1..d.lastBook, BookRow)
  BY DEF Linked, IsDatabase
<1>3. row \in BookRow /\ k \in 0..MaxBookId
  BY <1>2 DEF BookRow
<1> HIDE DEF row
<1>4. Table(e.books, 1..e.lastBook, BookRow)
  BY <1>1, <1>2, <1>3 DEF Table, Put
<1>5. ReferencesHold(e)
  BY <1>1 DEF ReferencesHold, Put, Linked
<1>6. KeysUnique(e)
  <2>1. /\ DOMAIN e.books = DOMAIN d.books \cup {k}
        /\ \A z \in DOMAIN e.books : e.books[z] = IF z = k THEN row ELSE d.books[z]
    BY <1>1 DEF Put
  <2>2. row.isbn = i
    BY DEF row
  <2>3. 0 \notin DOMAIN d.books
    BY <1>2 DEF Table
  <2>4. ASSUME NEW a \in DOMAIN e.books, NEW b \in DOMAIN e.books,
               e.books[a].isbn = e.books[b].isbn
        PROVE  a = b
    <3>1. CASE a # k /\ b # k
      BY <2>1, <2>4, <3>1 DEF Linked, KeysUnique
    <3>2. CASE a = k \/ b = k
      BY <2>1, <2>2, <2>3, <2>4, <3>2 DEF IsbnTaken
    <3> QED
      BY <3>1, <3>2
  <2> QED
    BY <1>1, <2>4 DEF Linked, KeysUnique
<1>7. Linked(e)
  BY <1>1, <1>3, <1>4, <1>5, <1>6 DEF Linked, IsDatabase
<1> QED
  BY <1>7 DEF e

\* The INSERT of add_member.
LEMMA InsertMemberLinked ==
  ASSUME NEW d, Linked(d), NEW x \in Email, NEW y \in Phone,
         d.lastMember < MaxMemberId, ~ EmailTaken(d, 0, x)
  PROVE  Linked(InsertMember(d, x, y))
<1> DEFINE e == InsertMember(d, x, y)
           k == d.lastMember + 1
           row == [email |-> x, phone |-> y, active |-> TRUE]
<1>1. /\ DOMAIN e = DOMAIN d /\ e.members = Put(d.members, k, row)
      /\ e.lastMember = k /\ e.loans = d.loans /\ e.lastLoan = d.lastLoan
      /\ e.books = d.books /\ e.lastBook = d.lastBook
  BY DEF InsertMember, Linked, IsDatabase
<1> HIDE DEF e
<1>2. d.lastMember \in 0..MaxMemberId /\ Table(d.members, 1..d.lastMember, MemberRow)
  BY DEF Linked, IsDatabase
<1>3. row \in MemberRow /\ k \in 0..MaxMemberId
  BY <1>2 DEF MemberRow
<1> HIDE DEF row
<1>4. Table(e.members, 1..e.lastMember, MemberRow)
  BY <1>1, <1>2, <1>3 DEF Table, Put
<1>5. ReferencesHold(e)
  BY <1>1 DEF ReferencesHold, Put, Linked
<1>6. KeysUnique(e)
  <2>1. /\ DOMAIN e.members = DOMAIN d.members \cup {k}
        /\ \A z \in DOMAIN e.members : e.members[z] = IF z = k THEN row ELSE d.members[z]
    BY <1>1 DEF Put
  <2>2. row.email = x
    BY DEF row
  <2>3. 0 \notin DOMAIN d.members
    BY <1>2 DEF Table
  <2>4. ASSUME NEW a \in DOMAIN e.members, NEW b \in DOMAIN e.members,
               e.members[a].email = e.members[b].email
        PROVE  a = b
    <3>1. CASE a # k /\ b # k
      BY <2>1, <2>4, <3>1 DEF Linked, KeysUnique
    <3>2. CASE a = k \/ b = k
      BY <2>1, <2>2, <2>3, <2>4, <3>2 DEF EmailTaken
    <3> QED
      BY <3>1, <3>2
  <2> QED
    BY <1>1, <2>4 DEF Linked, KeysUnique
<1>7. Linked(e)
  BY <1>1, <1>3, <1>4, <1>5, <1>6 DEF Linked, IsDatabase
<1> QED
  BY <1>7 DEF e

\* The whole-row UPDATE of update_member.
LEMMA WriteMemberLinked ==
  ASSUME NEW d, Linked(d), NEW m, NEW row \in MemberRow,
         m \in DOMAIN d.members => ~ EmailTaken(d, m, row.email)
  PROVE  Linked(WriteMember(d, m, row))
<1>1. CASE m \notin DOMAIN d.members
  BY <1>1 DEF WriteMember
<1>2. CASE m \in DOMAIN d.members
  <2> DEFINE e == WriteMember(d, m, row)
  <2>1. /\ DOMAIN e = DOMAIN d /\ e.members = Put(d.members, m, row)
        /\ e.lastBook = d.lastBook /\ e.books = d.books
        /\ e.lastMember = d.lastMember /\ e.loans = d.loans
        /\ e.lastLoan = d.lastLoan
    BY <1>2 DEF WriteMember, Linked, IsDatabase
  <2> HIDE DEF e
  <2>2. Table(d.members, 1..d.lastMember, MemberRow)
    BY DEF Linked, IsDatabase
  <2>3. Table(e.members, 1..e.lastMember, MemberRow)
    BY <1>2, <2>1, <2>2 DEF Table, Put
  <2>4. DOMAIN e.members = DOMAIN d.members
    BY <1>2, <2>1 DEF Put
  <2>5. ReferencesHold(e)
    BY <2>1, <2>4 DEF ReferencesHold, Linked
  <2>6. KeysUnique(e)
    <3>1. \A z \in DOMAIN d.members :
            e.members[z] = IF z = m THEN row ELSE d.members[z]
      BY <1>2, <2>1, <2>2 DEF Put, Table
    <3>2. ASSUME NEW a \in DOMAIN e.members, NEW b \in DOMAIN e.members,
                 e.members[a].email = e.members[b].email
          PROVE  a = b
      <4>1. CASE a # m /\ b # m
        BY <2>4, <3>1, <3>2, <4>1 DEF Linked, KeysUnique
      <4>2. CASE a = m \/ b = m
        BY <1>2, <2>4, <3>1, <3>2, <4>2 DEF EmailTaken
      <4> QED
        BY <4>1, <4>2
    <3> QED
      BY <2>1, <3>2 DEF Linked, KeysUnique
  <2>7. Linked(e)
    BY <2>1, <2>3, <2>5, <2>6 DEF Linked, IsDatabase
  <2> QED
    BY <2>7 DEF e
<1> QED
  BY <1>1, <1>2

\* The row of a member that exists.
LEMMA MemberRowOf ==
  ASSUME NEW d, Linked(d), NEW m \in DOMAIN d.members
  PROVE  d.members[m] \in MemberRow
<1>1. Table(d.members, 1..d.lastMember, MemberRow)
  BY DEF Linked, IsDatabase
<1> QED
  BY <1>1 DEF Table

-----------------------------------------------------------------------------
(* The invariant.                                                          *)

Labels ==
  {"menu", "loan", "read member", "count loans", "find duplicate", "loan begin",
   "insert loan", "take copy", "return", "return begin", "mark returned",
   "give copy", "commit", "committing", "add book", "edit book", "type book",
   "edit book row", "delete book", "sure of book", "count loans out",
   "delete book row", "add member", "add member row", "edit member",
   "type member", "find email", "edit member row", "delete member",
   "sure of member", "count loans held", "delete member row", "backup", "restore"}

Locks == {"none", "reserved", "pending", "exclusive"}
Ops == {"none", "loan", "return", "add book", "edit book", "delete book",
        "add member", "edit member", "delete member", "backup", "restore"}
CallRecord == [op : Ops, book : Nat, member : Nat, loan : Nat]
Row == BookRow \cup MemberRow

Typed ==
  /\ pc \in [Terminal -> Labels]
  /\ call \in [Terminal -> CallRecord]
  /\ got \in [Terminal -> Row]
  /\ begun \in [Terminal -> BOOLEAN]
  /\ lock \in [Terminal -> Locks]
  /\ DOMAIN work = Terminal

\* e is d with all the writes of the call c with the row g, if it is no restore.
Written(d, e, c, g) ==
  \/ c.op = "loan" /\ e = LentOut(d, c.book, c.member, Due)
  \/ c.op = "return" /\ e = IncrementAvailable(MarkReturned(d, c.loan), c.book)
  \/ c.op = "add book" /\ \E i \in Isbn, n \in Copies : e = InsertBook(d, i, n)
  \/ c.op = "edit book" /\ e = WriteBook(d, c.book, g)
  \/ c.op = "delete book" /\ e = DeleteBookRow(d, c.book)
  \/ c.op = "add member" /\ e = InsertMember(d, g.email, g.phone)
  \/ c.op = "edit member" /\ e = WriteMember(d, c.member, g)
  \/ c.op = "delete member" /\ e = DeleteMemberRow(d, c.member)

\* e is what some backup holds.
Archived(e) == \E p \in BackupPaths : e \in backups[p]

\* Which call is at which label, as far as it will write.
OpAt(label, op) ==
  /\ label \in {"loan", "read member", "count loans", "find duplicate", "loan begin",
                "insert loan", "take copy"} => op = "loan"
  /\ label \in {"return", "return begin", "mark returned", "give copy"} =>
       op = "return"
  /\ label = "add book" => op = "add book"
  /\ label \in {"edit book", "type book", "edit book row"} => op = "edit book"
  /\ label \in {"delete book", "sure of book", "count loans out",
                "delete book row"} => op = "delete book"
  /\ label \in {"add member", "add member row"} => op = "add member"
  /\ label \in {"edit member", "type member", "find email", "edit member row"} =>
       op = "edit member"
  /\ label \in {"delete member", "sure of member", "count loans held",
                "delete member row"} => op = "delete member"
  /\ label = "restore" => op = "restore"

\* The ids a call goes on with are ids.
IdsOfCall(t) ==
  /\ pc[t] \in {"return", "return begin", "mark returned", "give copy"} =>
       call[t].loan \in LoanId
  /\ pc[t] \in {"return begin", "mark returned", "give copy"} =>
       call[t].book \in BookId
  /\ pc[t] \in {"take copy", "delete book", "sure of book", "count loans out",
                "delete book row"} =>
       call[t].book \in BookId
  /\ pc[t] \in {"take copy", "delete member", "sure of member", "count loans held",
                "delete member row"} =>
       call[t].member \in MemberId

\* The row a call goes on with is a row of its table.
RowOfCall(t) ==
  /\ pc[t] \in {"type book", "edit book row"} => got[t] \in BookRow
  /\ pc[t] \in {"type member", "find email", "edit member row", "add member row"} =>
       got[t] \in MemberRow

\* How much of its writes a call has made to the file as it is.
WritesOfCall(t) ==
  /\ pc[t] \in {"insert loan", "mark returned"} => begun[t] /\ lock[t] = "none"
  /\ pc[t] = "take copy" =>
       /\ lock[t] = "reserved"
       /\ work[t] = InsertLoan(file, call[t].book, call[t].member, Due)
  /\ pc[t] = "give copy" =>
       /\ lock[t] = "reserved"
       /\ work[t] = MarkReturned(file, call[t].loan)
  /\ pc[t] = "commit" =>
       lock[t] = "reserved" /\ Written(file, work[t], call[t], got[t])
  /\ pc[t] = "committing" =>
       /\ lock[t] = "exclusive"
       /\ \/ Written(file, work[t], call[t], got[t])
          \/ call[t].op = "restore" /\ Archived(work[t])

Fine(t) ==
  /\ Linked(work[t])
  /\ lock[t] = "none" => work[t] = EmptyDatabase
  /\ lock[t] # "none" => begun[t] \/ pc[t] = "committing"
  /\ OpAt(pc[t], call[t].op) /\ IdsOfCall(t) /\ RowOfCall(t) /\ WritesOfCall(t)

\* Nobody reads the file while it is being replaced.
ReadersSafe ==
  \A t \in shared :
    /\ t \in Terminal /\ lock[t] = "none"
    /\ \A u \in Terminal \ {t} : lock[u] # "exclusive"

\* Every backup is linked.
BackupsLinked ==
  /\ DOMAIN backups = BackupPaths
  /\ \A p \in BackupPaths : \A copy \in backups[p] : Linked(copy)

OneWriter ==
  \A t, u \in Terminal : lock[t] # "none" /\ lock[u] # "none" => t = u

Inv ==
  /\ Linked(file)
  /\ BackupsLinked
  /\ Typed
  /\ \A t \in Terminal : Fine(t)
  /\ OneWriter
  /\ ReadersSafe

\* A step that leaves the file, the backups and the other terminals alone and
\* keeps what concerns t.
Kept(t) ==
  /\ file' = file /\ backups' = backups
  /\ Typed'
  /\ Fine(t)'
  /\ \A u \in Terminal \ {t} :
       /\ pc'[u] = pc[u] /\ call'[u] = call[u] /\ got'[u] = got[u]
       /\ begun'[u] = begun[u] /\ lock'[u] = lock[u] /\ work'[u] = work[u]
  /\ lock'[t] # "none" /\ lock[t] = "none" => CanWrite(t)
  /\ lock'[t] = "exclusive" => lock[t] = "exclusive" \/ ~ Readers(t)

\* Such a step keeps the invariant.
LEMMA KeptInv ==
  ASSUME Inv, NEW t \in Terminal, Kept(t), shared' = shared \ {t}
  PROVE  Inv'
<1>1. ASSUME NEW u \in Terminal, u # t PROVE Fine(u)'
  <2>1. Fine(u)
    BY DEF Inv
  <2>2. /\ file' = file /\ backups' = backups
        /\ pc'[u] = pc[u] /\ call'[u] = call[u] /\ got'[u] = got[u]
        /\ begun'[u] = begun[u] /\ lock'[u] = lock[u] /\ work'[u] = work[u]
    BY <1>1 DEF Kept
  <2>3. IdsOfCall(u)' /\ RowOfCall(u)'
    BY <2>1, <2>2 DEF Fine, IdsOfCall, RowOfCall
  <2>4. Archived(work[u])' <=> Archived(work[u])
    BY <2>2 DEF Archived
  <2>5. Written(file, work[u], call[u], got[u])'
          <=> Written(file, work[u], call[u], got[u])
    BY <2>2 DEF Written, Due
  <2>6. WritesOfCall(u)'
    BY <2>1, <2>2, <2>4, <2>5 DEF Fine, WritesOfCall, Due
  <2> QED
    BY <2>1, <2>2, <2>3, <2>6 DEF Fine
<1>2. OneWriter'
  BY DEF Inv, OneWriter, Kept, CanWrite, Others
<1>3. BackupsLinked' /\ Linked(file)'
  BY DEF Inv, BackupsLinked, Kept
<1>4. ReadersSafe'
  BY DEF Inv, ReadersSafe, Kept, Readers
<1> QED
  BY <1>1, <1>2, <1>3, <1>4 DEF Inv, Kept

-----------------------------------------------------------------------------
(* Each statement keeps it.                                                *)

\* What a terminal without a call has in hand.
LEMMA AtTheMenu == Nothing \in CallRecord /\ NoBook \in Row
BY DEF Nothing, CallRecord, Ops, NoBook, BookRow, Row

\* The call is over, its transaction undone.
LEMMA RolledBackKept ==
  ASSUME Inv, NEW t \in Terminal, RolledBack(t), UNCHANGED <<file, backups>>,
         Return(t) \/ (UNCHANGED <<pc, call, got>> /\ pc[t] = "menu")
  PROVE  Kept(t)
<1>1. Typed'
  <2>1. begun' \in [Terminal -> BOOLEAN] /\ lock' \in [Terminal -> Locks]
        /\ DOMAIN work' = Terminal
    BY DEF Inv, Typed, RolledBack, Locks
  <2>2. /\ pc' \in [Terminal -> Labels]
        /\ call' \in [Terminal -> CallRecord] /\ got' \in [Terminal -> Row]
    BY AtTheMenu DEF Inv, Typed, Return, Goto, Labels
  <2> QED
    BY <2>1, <2>2 DEF Typed
<1>2. /\ pc'[t] = "menu" /\ lock'[t] = "none" /\ work'[t] = EmptyDatabase
  BY DEF Inv, Typed, RolledBack, Return, Goto
<1>3. Fine(t)'
  BY <1>2, EmptyLinked DEF Fine, OpAt, IdsOfCall, RowOfCall, WritesOfCall
<1> QED
  BY <1>1, <1>2, <1>3 DEF Kept, RolledBack, Return, Goto, Inv, Typed

\* The call is over; its connection is as it was, perhaps in a transaction.
LEMMA ReturnKept ==
  ASSUME Inv, NEW t \in Terminal, pc[t] # "committing", Return(t),
         UNCHANGED <<file, backups, conn>>
  PROVE  Kept(t)
<1>1. Typed'
  BY AtTheMenu DEF Inv, Typed, conn, Return, Goto, Labels, Locks
<1>2. /\ pc'[t] = "menu" /\ lock'[t] = lock[t] /\ work'[t] = work[t]
      /\ begun'[t] = begun[t]
  BY DEF Inv, Typed, conn, Return, Goto
<1>3. Fine(t)'
  BY <1>2 DEF Inv, Fine, OpAt, IdsOfCall, RowOfCall, WritesOfCall
<1> QED
  BY <1>1, <1>2, <1>3 DEF Kept, conn, Return, Goto, Inv, Typed

\* Labels of which CheckKept does not speak: they ask for ids, a row or writes
\* of their own.
Demanding ==
  {"return", "return begin", "mark returned", "give copy", "take copy",
   "insert loan", "commit", "committing", "type book", "edit book row",
   "type member", "find email", "add member row"}

\* A SELECT, or a question: the call goes on to a label, or is over.
LEMMA CheckKept ==
  ASSUME Inv, NEW t \in Terminal, NEW ok, NEW label \in Labels, Check(t, ok, label),
         pc[t] # "committing", label \notin Demanding,
         label \in {"delete book", "sure of book", "count loans out",
                   "delete book row"} => call[t].book \in BookId,
         label \in {"delete member", "sure of member", "count loans held",
                   "delete member row"} => call[t].member \in MemberId,
         label = "edit member row" => got[t] \in MemberRow,
         OpAt(label, call[t].op)
  PROVE  Kept(t)
<1>1. CASE ~ ok
  BY <1>1, ReturnKept DEF Check, conn, world
<1>2. CASE ok
  <2>1. /\ pc' = [pc EXCEPT ![t] = label] /\ call' = call /\ got' = got
        /\ file' = file /\ backups' = backups
        /\ begun' = begun /\ lock' = lock /\ work' = work
    BY <1>2 DEF Check, Goto, world
  <2>2. Typed'
    BY <2>1 DEF Inv, Typed
  <2>3. pc'[t] = label /\ \A u \in Terminal \ {t} : pc'[u] = pc[u]
    BY <2>1 DEF Inv, Typed
  <2>4. Fine(t)
    BY DEF Inv
  <2>5. IdsOfCall(t)'
    BY <2>1, <2>3 DEF Demanding, IdsOfCall
  <2>6. RowOfCall(t)'
    BY <2>1, <2>3 DEF Demanding, RowOfCall
  <2>7. WritesOfCall(t)'
    BY <2>1, <2>3 DEF Demanding, WritesOfCall
  <2>8. Fine(t)'
    BY <2>1, <2>3, <2>4, <2>5, <2>6, <2>7 DEF Fine
  <2> QED
    BY <2>1, <2>2, <2>3, <2>8 DEF Kept
<1> QED
  BY <1>1, <1>2

\* A BEGIN, by loan_book or by return_book.
LEMMA BeginKept ==
  ASSUME Inv, NEW t \in Terminal, NEW label \in {"insert loan", "mark returned"},
         Begin(t, label), pc[t] # "committing",
         label = "mark returned" => call[t].loan \in LoanId /\ call[t].book \in BookId,
         OpAt(label, call[t].op)
  PROVE  Kept(t)
<1>1. CASE begun[t]
  BY <1>1, ReturnKept DEF Begin, conn, world
<1>2. CASE ~ begun[t]
  <2>1. Typed'
    BY <1>2 DEF Begin, Goto, Inv, Typed, Labels
  <2>2. /\ pc'[t] = label /\ call'[t] = call[t] /\ lock'[t] = lock[t]
        /\ begun'[t] = TRUE /\ work'[t] = work[t]
    BY <1>2 DEF Begin, Goto, Inv, Typed
  <2>3. lock[t] = "none"
    BY <1>2 DEF Inv, Fine
  <2>4. Fine(t)'
    BY <2>2, <2>3 DEF Inv, Fine, OpAt, IdsOfCall, RowOfCall, WritesOfCall
  <2> QED
    BY <1>2, <2>1, <2>2, <2>4 DEF Begin, Goto, Kept, Inv, Typed, world
<1> QED
  BY <1>1, <1>2

\* What the user can ask for.
LEMMA RequestTyped ==
  ASSUME NEW c \in Requests
  PROVE  /\ c \in CallRecord /\ c.op \in Ops \ {"none"} /\ c.op \in Labels
         /\ OpAt(c.op, c.op)
         /\ c.op = "return" => c.loan \in LoanId
         /\ c.op = "delete book" => c.book \in BookId
         /\ c.op = "delete member" => c.member \in MemberId
<1> DEFINE Loans == [op : {"loan"}, book : BookId, member : MemberId, loan : {0}]
           Returns == [op : {"return"}, book : {0}, member : {0}, loan : LoanId]
           OfBooks == [op : {"edit book", "delete book"}, book : BookId,
                       member : {0}, loan : {0}]
           OfMembers == [op : {"edit member", "delete member"}, book : {0},
                         member : MemberId, loan : {0}]
           Plain == [op : {"add book", "add member", "backup", "restore"},
                     book : {0}, member : {0}, loan : {0}]
<1>1. c \in Loans \/ c \in Returns \/ c \in OfBooks \/ c \in OfMembers \/ c \in Plain
  BY DEF Requests
<1>2. c.op \in {"loan", "return", "edit book", "delete book", "edit member",
               "delete member", "add book", "add member", "backup", "restore"}
  BY <1>1
<1>3. c.op \in Labels /\ c.op \in Ops \ {"none"} /\ OpAt(c.op, c.op)
  BY <1>2 DEF Labels, Ops, OpAt
<1>4. /\ c.op = "return" => c.loan \in LoanId
      /\ c.op = "delete book" => c.book \in BookId
      /\ c.op = "delete member" => c.member \in MemberId
  BY <1>1
<1>5. c.book \in Nat /\ c.member \in Nat /\ c.loan \in Nat
  <2>1. \A n \in BookId \cup MemberId \cup LoanId \cup {0} : n \in Nat
    BY DEF BookId, MemberId, LoanId
  <2>2. /\ c.book \in BookId \cup {0} /\ c.member \in MemberId \cup {0}
        /\ c.loan \in LoanId \cup {0}
    BY <1>1
  <2> QED
    BY <2>1, <2>2
<1>6. c = [op |-> c.op, book |-> c.book, member |-> c.member, loan |-> c.loan]
  BY <1>1
<1>7. c \in CallRecord
  BY <1>3, <1>5, <1>6 DEF CallRecord
<1> QED
  BY <1>3, <1>4, <1>7

\* The user asks for a call.
LEMMA AskKept ==
  ASSUME Inv, NEW t \in Terminal, NEW c \in Requests, Ask(t, c)
  PROVE  Kept(t)
<1>1. /\ pc' = [pc EXCEPT ![t] = c.op] /\ call' = [call EXCEPT ![t] = c]
      /\ file' = file /\ backups' = backups
      /\ got' = got /\ begun' = begun /\ lock' = lock /\ work' = work
      /\ pc[t] = "menu"
  BY DEF Ask, Goto, conn, world
<1>2. Typed'
  <2>1. pc' \in [Terminal -> Labels] /\ call' \in [Terminal -> CallRecord]
    BY <1>1, RequestTyped DEF Inv, Typed
  <2> QED
    BY <1>1, <2>1 DEF Inv, Typed
<1>3. /\ pc'[t] = c.op /\ call'[t] = c
      /\ \A u \in Terminal \ {t} : pc'[u] = pc[u] /\ call'[u] = call[u]
  BY <1>1 DEF Inv, Typed
<1>4. Fine(t) /\ c.op \in Ops \ {"none"}
  BY RequestTyped DEF Inv
<1>5. IdsOfCall(t)'
  BY <1>3, <1>4, RequestTyped DEF Ops, IdsOfCall
<1>6. RowOfCall(t)' /\ WritesOfCall(t)'
  BY <1>3, <1>4 DEF Ops, RowOfCall, WritesOfCall
<1>7. Fine(t)'
  BY <1>1, <1>3, <1>4, <1>5, <1>6, RequestTyped DEF Fine
<1> QED
  BY <1>1, <1>2, <1>3, <1>7 DEF Kept

\* The database a terminal sees is linked.
LEMMA ViewLinked ==
  ASSUME Inv, NEW t \in Terminal
  PROVE  Linked(View(t))
BY DEF Inv, Fine, View


\* A statement of t that may write leaves d under lock k, and its call, with
\* arguments c and the row g, at label.
Writes(t, d, k, label, c, g) ==
  /\ Linked(d) /\ k \in Locks \ {"none"}
  /\ label \in {"menu", "take copy", "give copy", "commit", "committing"}
  /\ c \in CallRecord /\ g \in Row
  /\ begun[t] \/ label = "committing"
  /\ CanWrite(t) \/ lock[t] # "none"
  /\ k = "exclusive" => lock[t] = "exclusive" \/ ~ Readers(t)
  /\ Wrote(t, d, k)
  /\ pc' = [pc EXCEPT ![t] = label]
  /\ call' = [call EXCEPT ![t] = c]
  /\ got' = [got EXCEPT ![t] = g]
  /\ file' = file /\ backups' = backups

\* What it leaves is as far as its call should be.
Advances(d, k, label, c, g) ==
  /\ OpAt(label, c.op)
  /\ label = "take copy" =>
       /\ k = "reserved" /\ d = InsertLoan(file, c.book, c.member, Due)
       /\ c.book \in BookId /\ c.member \in MemberId
  /\ label = "give copy" =>
       /\ k = "reserved" /\ d = MarkReturned(file, c.loan)
       /\ c.loan \in LoanId /\ c.book \in BookId
  /\ label = "commit" => k = "reserved" /\ Written(file, d, c, g)
  /\ label = "committing" =>
       /\ k = "exclusive"
       /\ \/ Written(file, d, c, g)
          \/ c.op = "restore" /\ Archived(d)

\* Such a statement keeps the invariant.
LEMMA WriteKept ==
  ASSUME Inv, NEW t \in Terminal, NEW d, NEW k, NEW label, NEW c, NEW g,
         Writes(t, d, k, label, c, g), Advances(d, k, label, c, g)
  PROVE  Kept(t)
<1>1. Typed'
  <2>1. label \in Labels
    BY DEF Writes, Labels
  <2> QED
    BY <2>1 DEF Writes, Wrote, Inv, Typed
<1>2. /\ pc'[t] = label /\ call'[t] = c /\ got'[t] = g /\ begun'[t] = begun[t]
      /\ lock'[t] = k /\ work'[t] = d
      /\ \A u \in Terminal \ {t} :
           /\ pc'[u] = pc[u] /\ call'[u] = call[u] /\ got'[u] = got[u]
           /\ begun'[u] = begun[u] /\ lock'[u] = lock[u] /\ work'[u] = work[u]
  BY DEF Writes, Wrote, Inv, Typed
<1>3. IdsOfCall(t)' /\ RowOfCall(t)'
  BY <1>2 DEF IdsOfCall, RowOfCall, Writes, Advances
<1>4. Due' = Due /\ file' = file /\ backups' = backups
  BY DEF Due, Writes
<1>5. WritesOfCall(t)'
  <2>1. Written(file, work[t], call[t], got[t])' <=> Written(file, d, c, g)
    BY <1>2, <1>4 DEF Written
  <2>2. Archived(work[t])' <=> Archived(d)
    BY <1>2, <1>4 DEF Archived
  <2> QED
    BY <1>2, <1>4, <2>1, <2>2 DEF WritesOfCall, Writes, Advances
<1>6. Fine(t)'
  BY <1>2, <1>3, <1>5 DEF Fine, Writes, Advances
<1> QED
  BY <1>1, <1>2, <1>6 DEF Kept, Writes

\* INSERT INTO loans.
LEMMA LoanInsertKept ==
  ASSUME Inv, NEW t \in Terminal, LoanInsert(t)
  PROVE  Kept(t)
<1> DEFINE c == call[t]
           d == View(t)
<1>1. /\ pc[t] = "insert loan" /\ begun[t] /\ lock[t] = "none" /\ d = file
      /\ c.op = "loan"
  BY DEF LoanInsert, Inv, Fine, OpAt, WritesOfCall, View
<1>2. CASE CanWrite(t) /\ Insertable(d, c)
  <2>1. c.book \in DOMAIN d.books /\ c.member \in DOMAIN d.members
        /\ d.lastLoan < MaxLoanId /\ d.lastLoan \in Nat
    BY <1>2, ViewLinked DEF Insertable, Linked, IsDatabase
  <2>2. c.book \in BookId /\ c.member \in MemberId
    BY <2>1, ViewLinked DEF Linked, IsDatabase, Table, BookId, MemberId
  <2>3. Due \in Day
    <3>1. Today \in Nat /\ Today + DEFAULT_LOAN_DAYS <= LastDay
      BY TerminalsAssumption
    <3> QED
      BY <3>1 DEF Due, Day
  <2> DEFINE e == [c EXCEPT !.loan = d.lastLoan + 1]
             new == InsertLoan(d, c.book, c.member, Due)
  <2>4. Linked(new)
    BY <2>1, <2>3, ViewLinked, InsertLoanLinked
  <2>5. c \in CallRecord /\ got[t] \in Row
    BY DEF Inv, Typed
  <2>6. e \in CallRecord /\ e.book = c.book /\ e.member = c.member /\ e.op = c.op
    BY <2>1, <2>5 DEF CallRecord
  <2>7. /\ Wrote(t, new, "reserved")
        /\ call' = [call EXCEPT ![t] = e]
        /\ pc' = [pc EXCEPT ![t] = "take copy"]
        /\ got' = [got EXCEPT ![t] = got[t]]
        /\ file' = file /\ backups' = backups
    BY <1>2 DEF LoanInsert, AfterInsert, Goto, Inv, Typed, world
  <2>8. new = InsertLoan(file, e.book, e.member, Due)
    BY <1>1, <2>6
  <2> HIDE DEF e, new
  <2>9. Writes(t, new, "reserved", "take copy", e, got[t])
    BY <1>1, <1>2, <2>4, <2>5, <2>6, <2>7 DEF Writes, Locks
  <2>10. Advances(new, "reserved", "take copy", e, got[t])
    BY <1>1, <2>2, <2>6, <2>8 DEF Advances, OpAt
  <2> QED
    BY <2>9, <2>10, WriteKept
<1>3. CASE ~ (CanWrite(t) /\ Insertable(d, c))
  BY <1>3, RolledBackKept DEF LoanInsert, LoanInsertFailed, world
<1> QED
  BY <1>2, <1>3

\* The UPDATE that takes a copy off the shelf completes the writes of a loan.
LEMMA LoanTakeCopyKept ==
  ASSUME Inv, NEW t \in Terminal, LoanTakeCopy(t)
  PROVE  Kept(t)
<1> DEFINE c == call[t]
           new == DecrementAvailable(work[t], c.book)
<1>1. /\ pc[t] = "take copy" /\ lock[t] = "reserved" /\ begun[t]
      /\ work[t] = InsertLoan(file, c.book, c.member, Due)
      /\ c.book \in BookId /\ c.member \in MemberId /\ c.op = "loan"
      /\ Linked(work[t]) /\ c \in CallRecord /\ got[t] \in Row
  BY DEF LoanTakeCopy, Inv, Typed, Fine, OpAt, WritesOfCall, IdsOfCall
<1>2. Linked(new)
  BY <1>1, DecrementLinked
<1>3. /\ Wrote(t, new, "reserved") /\ file' = file /\ backups' = backups
      /\ pc' = [pc EXCEPT ![t] = "commit"]
      /\ call' = [call EXCEPT ![t] = c] /\ got' = [got EXCEPT ![t] = got[t]]
  BY <1>1 DEF LoanTakeCopy, Goto, Inv, Typed, world
<1>4. Written(file, new, c, got[t])
  <2>1. new = LentOut(file, c.book, c.member, Due)
    BY <1>1 DEF LentOut
  <2> HIDE DEF new
  <2> QED
    BY <1>1, <2>1 DEF Written
<1> HIDE DEF new
<1>5. Writes(t, new, "reserved", "commit", c, got[t])
  BY <1>1, <1>2, <1>3 DEF Writes, Locks
<1>6. Advances(new, "reserved", "commit", c, got[t])
  BY <1>4 DEF Advances, OpAt
<1> QED
  BY <1>5, <1>6, WriteKept

\* return_book finds its loan and the book lent.
LEMMA ReturnReadKept ==
  ASSUME Inv, NEW t \in Terminal, ReturnRead(t)
  PROVE  Kept(t)
<1> DEFINE l == call[t].loan
           b == View(t).loans[l].book
           c == [call[t] EXCEPT !.book = b]
<1>1. pc[t] = "return" /\ l \in LoanId /\ call[t].op = "return"
  BY DEF ReturnRead, Inv, Fine, OpAt, IdsOfCall
<1>2. CASE CanRead(t) /\ l \in ActiveLoans(View(t))
  <2>1. b \in BookId
    BY <1>2, ViewLinked DEF ActiveLoans, Linked, IsDatabase, Table, LoanRow
  <2>2. c \in CallRecord /\ c.book = b /\ c.loan = l /\ c.op = call[t].op
    <3>1. b \in Nat
      BY <2>1 DEF BookId
    <3>2. call[t] \in CallRecord
      BY DEF Inv, Typed
    <3> QED
      BY <3>1, <3>2 DEF CallRecord
  <2>3. /\ pc' = [pc EXCEPT ![t] = "return begin"] /\ call' = [call EXCEPT ![t] = c]
        /\ file' = file /\ backups' = backups
        /\ got' = got /\ begun' = begun /\ lock' = lock /\ work' = work
    BY <1>2 DEF ReturnRead, Goto, conn, world
  <2> HIDE DEF c
  <2>4. Typed'
    BY <2>2, <2>3 DEF Inv, Typed, Labels
  <2>5. pc'[t] = "return begin" /\ call'[t] = c
        /\ \A u \in Terminal \ {t} : pc'[u] = pc[u] /\ call'[u] = call[u]
    BY <2>3 DEF Inv, Typed
  <2>6. Fine(t)'
    BY <1>1, <2>1, <2>2, <2>3, <2>5 DEF Inv, Fine, OpAt, IdsOfCall, RowOfCall, WritesOfCall
  <2> QED
    BY <2>3, <2>4, <2>5, <2>6 DEF Kept
<1>3. CASE ~ (CanRead(t) /\ l \in ActiveLoans(View(t)))
  BY <1>1, <1>3, ReturnKept DEF ReturnRead, world
<1> QED
  BY <1>2, <1>3

\* The UPDATE that marks the loan.
LEMMA ReturnMarkKept ==
  ASSUME Inv, NEW t \in Terminal, ReturnMark(t)
  PROVE  Kept(t)
<1> DEFINE c == call[t]
           new == MarkReturned(View(t), c.loan)
<1>1. /\ pc[t] = "mark returned" /\ begun[t] /\ lock[t] = "none" /\ View(t) = file
      /\ c.loan \in LoanId /\ c.book \in BookId /\ c.op = "return"
      /\ c \in CallRecord /\ got[t] \in Row
  BY DEF ReturnMark, Inv, Typed, Fine, OpAt, WritesOfCall, IdsOfCall, View
<1>2. CASE CanWrite(t)
  <2>1. Linked(new)
    BY ViewLinked, MarkReturnedLinked
  <2>2. /\ Wrote(t, new, "reserved") /\ file' = file /\ backups' = backups
        /\ pc' = [pc EXCEPT ![t] = "give copy"]
        /\ call' = [call EXCEPT ![t] = c] /\ got' = [got EXCEPT ![t] = got[t]]
    BY <1>2 DEF ReturnMark, AfterMark, Goto, Inv, Typed, world
  <2>3. new = MarkReturned(file, c.loan)
    BY <1>1
  <2> HIDE DEF new
  <2>4. Writes(t, new, "reserved", "give copy", c, got[t])
    BY <1>1, <1>2, <2>1, <2>2 DEF Writes, Locks
  <2>5. Advances(new, "reserved", "give copy", c, got[t])
    BY <1>1, <2>3 DEF Advances, OpAt
  <2> QED
    BY <2>4, <2>5, WriteKept
<1>3. CASE ~ CanWrite(t)
  BY <1>3, RolledBackKept DEF ReturnMark, world
<1> QED
  BY <1>2, <1>3

\* The UPDATE that puts the copy back completes the writes of a return.
LEMMA ReturnGiveCopyKept ==
  ASSUME Inv, NEW t \in Terminal, ReturnGiveCopy(t)
  PROVE  Kept(t)
<1> DEFINE c == call[t]
           new == IncrementAvailable(work[t], c.book)
<1>1. /\ pc[t] = "give copy" /\ lock[t] = "reserved" /\ begun[t]
      /\ work[t] = MarkReturned(file, c.loan)
      /\ c.loan \in LoanId /\ c.book \in BookId /\ c.op = "return"
      /\ Linked(work[t]) /\ c \in CallRecord /\ got[t] \in Row
  BY DEF ReturnGiveCopy, Inv, Typed, Fine, OpAt, WritesOfCall, IdsOfCall
<1>2. Linked(new)
  BY <1>1, IncrementLinked
<1>3. /\ Wrote(t, new, "reserved") /\ file' = file /\ backups' = backups
      /\ pc' = [pc EXCEPT ![t] = "commit"]
      /\ call' = [call EXCEPT ![t] = c] /\ got' = [got EXCEPT ![t] = got[t]]
  BY <1>1 DEF ReturnGiveCopy, Goto, Inv, Typed, world
<1>4. Written(file, new, c, got[t])
  <2>1. new = IncrementAvailable(MarkReturned(file, c.loan), c.book)
    BY <1>1
  <2> HIDE DEF new
  <2> QED
    BY <1>1, <2>1 DEF Written
<1> HIDE DEF new
<1>5. Writes(t, new, "reserved", "commit", c, got[t])
  BY <1>1, <1>2, <1>3 DEF Writes, Locks
<1>6. Advances(new, "reserved", "commit", c, got[t])
  BY <1>4 DEF Advances, OpAt
<1> QED
  BY <1>5, <1>6, WriteKept

\* COMMIT of a whole call: it waits for nobody, and leaves the transaction open
\* when something reads the file.
LEMMA CommitKept ==
  ASSUME Inv, NEW t \in Terminal, Commit(t)
  PROVE  Kept(t)
<1> DEFINE c == call[t]
           g == got[t]
<1>1. /\ pc[t] = "commit" /\ lock[t] = "reserved" /\ begun[t]
      /\ Written(file, work[t], c, g)
      /\ Linked(work[t]) /\ c \in CallRecord /\ g \in Row
  BY DEF Commit, Inv, Typed, Fine, WritesOfCall
<1>2. CASE Readers(t)
  <2>1. Writes(t, work[t], "pending", "menu", Nothing, NoBook)
    BY <1>1, <1>2, AtTheMenu
    DEF Commit, CommitBusy, Return, Goto, Writes, Locks, world
  <2>2. Advances(work[t], "pending", "menu", Nothing, NoBook)
    BY DEF Advances, OpAt
  <2> QED
    BY <2>1, <2>2, WriteKept
<1>3. CASE ~ Readers(t)
  <2>1. call' = [call EXCEPT ![t] = c] /\ got' = [got EXCEPT ![t] = g]
    BY <1>3 DEF Commit, Inv, Typed
  <2>2. Writes(t, work[t], "exclusive", "committing", c, g)
    BY <1>1, <1>3, <2>1 DEF Commit, Goto, Writes, Locks, world
  <2>3. Advances(work[t], "exclusive", "committing", c, g)
    BY <1>1 DEF Advances, OpAt
  <2> QED
    BY <2>2, <2>3, WriteKept
<1> QED
  BY <1>2, <1>3

\* A statement by itself, one more statement of an open transaction, or none.
LEMMA StatementKept ==
  ASSUME Inv, NEW t \in Terminal, NEW ok, NEW d, NEW c \in CallRecord,
         Statement(t, ok, d, c), pc[t] \notin {"commit", "committing"},
         ok => Linked(d),
         ok /\ lock[t] = "none" => Written(file, d, c, got[t])
  PROVE  Kept(t)
<1> DEFINE g == got[t]
           k == IF lock[t] = "none" THEN "reserved" ELSE lock[t]
<1>1. g \in Row /\ lock[t] \in Locks
  BY DEF Inv, Typed
<1>2. CASE /\ begun[t] /\ CanWrite(t) /\ ok /\ Wrote(t, d, k) /\ Return(t)
           /\ file' = file /\ backups' = backups
  <2>1. k \in Locks \ {"none"} /\ (k = "exclusive" => lock[t] = "exclusive")
    BY <1>1 DEF Locks
  <2> HIDE DEF k
  <2>2. Writes(t, d, k, "menu", Nothing, NoBook)
    BY <1>2, <2>1, AtTheMenu DEF Return, Goto, Writes
  <2>3. Advances(d, k, "menu", Nothing, NoBook)
    BY DEF Advances, OpAt
  <2> QED
    BY <2>2, <2>3, WriteKept
<1>3. CASE /\ ~ begun[t] /\ CanWrite(t) /\ ok /\ ~ Readers(t) /\ Wrote(t, d, "exclusive")
           /\ Goto(t, "committing") /\ call' = [call EXCEPT ![t] = c]
           /\ got' = got /\ file' = file /\ backups' = backups
  <2>1. lock[t] = "none"
    BY <1>3 DEF Inv, Fine
  <2>2. got' = [got EXCEPT ![t] = g]
    BY <1>3 DEF Inv, Typed
  <2>3. Writes(t, d, "exclusive", "committing", c, g)
    BY <1>1, <1>3, <2>2 DEF Goto, Writes, Locks
  <2>4. Advances(d, "exclusive", "committing", c, g)
    BY <1>3, <2>1 DEF Advances, OpAt
  <2> QED
    BY <2>3, <2>4, WriteKept
<1>4. CASE Return(t) /\ UNCHANGED <<file, backups, conn>>
  BY <1>4, ReturnKept
<1> QED
  BY <1>2, <1>3, <1>4 DEF Statement, conn, world

\* The row is there, and the call goes on with it, or it is over.
LEMMA ShowRowKept ==
  ASSUME Inv, NEW t \in Terminal, NEW there, NEW row, NEW question,
         ShowRow(t, there, row, question), pc[t] # "committing",
         question \in {"type book", "type member", "add member row"},
         there /\ question = "type book" => row \in BookRow,
         there /\ question # "type book" => row \in MemberRow,
         OpAt(question, call[t].op)
  PROVE  Kept(t)
<1>1. CASE there
  <2>1. /\ pc' = [pc EXCEPT ![t] = question] /\ got' = [got EXCEPT ![t] = row]
        /\ call' = call /\ file' = file /\ backups' = backups
        /\ begun' = begun /\ lock' = lock /\ work' = work
    BY <1>1 DEF ShowRow, Goto, conn, world
  <2>2. question \in Labels /\ row \in Row
    BY <1>1 DEF Labels, Row
  <2>3. Typed'
    BY <2>1, <2>2 DEF Inv, Typed
  <2>4. /\ pc'[t] = question /\ got'[t] = row
        /\ \A u \in Terminal \ {t} : pc'[u] = pc[u] /\ got'[u] = got[u]
    BY <2>1 DEF Inv, Typed
  <2>5. IdsOfCall(t)' /\ RowOfCall(t)' /\ WritesOfCall(t)'
    BY <1>1, <2>4 DEF IdsOfCall, RowOfCall, WritesOfCall
  <2>6. Fine(t)
    BY DEF Inv
  <2>7. Fine(t)'
    BY <2>1, <2>4, <2>5, <2>6 DEF Fine
  <2> QED
    BY <2>1, <2>3, <2>4, <2>7 DEF Kept
<1>2. CASE ~ there
  BY <1>2, ReturnKept DEF ShowRow, world
<1> QED
  BY <1>1, <1>2

\* The row is typed over, and the call goes on with it, or it is over.
LEMMA TypeRowKept ==
  ASSUME Inv, NEW t \in Terminal, NEW row, NEW label, TypeRow(t, row, label),
         pc[t] # "committing", label \in {"edit book row", "find email"},
         label = "edit book row" => row \in BookRow,
         label = "find email" => row \in MemberRow,
         OpAt(label, call[t].op)
  PROVE  Kept(t)
<1>1. CASE /\ got' = [got EXCEPT ![t] = row] /\ Goto(t, label) /\ UNCHANGED call
           /\ UNCHANGED <<file, conn, world>>
  <2>1. /\ pc' = [pc EXCEPT ![t] = label] /\ got' = [got EXCEPT ![t] = row]
        /\ call' = call /\ file' = file /\ backups' = backups
        /\ begun' = begun /\ lock' = lock /\ work' = work
    BY <1>1 DEF Goto, conn, world
  <2>2. label \in Labels /\ row \in Row
    BY DEF Labels, Row
  <2>3. Typed'
    BY <2>1, <2>2 DEF Inv, Typed
  <2>4. /\ pc'[t] = label /\ got'[t] = row
        /\ \A u \in Terminal \ {t} : pc'[u] = pc[u] /\ got'[u] = got[u]
    BY <2>1 DEF Inv, Typed
  <2>5. IdsOfCall(t)' /\ RowOfCall(t)' /\ WritesOfCall(t)'
    BY <2>4 DEF IdsOfCall, RowOfCall, WritesOfCall
  <2>6. Fine(t)
    BY DEF Inv
  <2>7. Fine(t)'
    BY <2>1, <2>4, <2>5, <2>6 DEF Fine
  <2> QED
    BY <2>1, <2>3, <2>4, <2>7 DEF Kept
<1>2. CASE Return(t) /\ UNCHANGED <<file, conn, world>>
  BY <1>2, ReturnKept DEF world
<1> QED
  BY <1>1, <1>2 DEF TypeRow

\* What a terminal has in hand.
LEMMA InHand ==
  ASSUME Inv, NEW t \in Terminal
  PROVE  /\ call[t] \in CallRecord /\ got[t] \in Row /\ Linked(View(t))
         /\ OpAt(pc[t], call[t].op) /\ IdsOfCall(t) /\ RowOfCall(t)
         /\ lock[t] = "none" => View(t) = file
         /\ View(t).lastBook \in Nat /\ View(t).lastMember \in Nat
<1>1. Linked(View(t))
  BY ViewLinked
<1>2. View(t).lastBook \in 0..MaxBookId /\ View(t).lastMember \in 0..MaxMemberId
  BY <1>1 DEF Linked, IsDatabase
<1>3. View(t).lastBook \in Nat /\ View(t).lastMember \in Nat
  BY <1>2
<1> QED
  BY <1>1, <1>3 DEF Inv, Typed, Fine, View

-----------------------------------------------------------------------------
(* The book and the member menus.                                          *)

\* INSERT INTO books.
LEMMA AddBookKept ==
  ASSUME Inv, NEW t \in Terminal, AddBook(t)
  PROVE  Kept(t)
<1> DEFINE d == View(t)
           c == [call[t] EXCEPT !.book = d.lastBook + 1]
<1>1. PICK i \in Isbn, n \in Copies :
        Statement(t, BookInsertable(d, i), InsertBook(d, i, n), c)
  BY DEF AddBook
<1> DEFINE new == InsertBook(d, i, n)
           ok == BookInsertable(d, i)
<1>2. c \in CallRecord /\ c.op = "add book"
  <2>1. call[t] \in CallRecord /\ call[t].op = "add book" /\ d.lastBook \in Nat
    BY InHand DEF AddBook, OpAt
  <2>2. \A r \in CallRecord : \A k \in Nat :
          /\ [r EXCEPT !.book = k] \in CallRecord
          /\ [r EXCEPT !.book = k].op = r.op
    BY DEF CallRecord
  <2>3. \A k \in Nat : k + 1 \in Nat
    OBVIOUS
  <2> QED
    BY <2>1, <2>2, <2>3
<1>3. n \in Nat
  BY TerminalsAssumption
<1>4. ASSUME ok PROVE Linked(new)
  BY <1>3, <1>4, InHand, InsertBookLinked DEF BookInsertable
<1>5. ASSUME lock[t] = "none" PROVE Written(file, new, c, got[t])
  <2>1. new = InsertBook(file, i, n)
    BY <1>5, InHand
  <2> HIDE DEF new, c
  <2> QED
    BY <1>2, <2>1 DEF Written
<1>6. pc[t] \notin {"commit", "committing"}
  BY DEF AddBook
<1> HIDE DEF c, new, ok
<1> QED
  BY <1>1, <1>2, <1>4, <1>5, <1>6, StatementKept DEF new, ok

\* The SELECT of the book that will be edited.
LEMMA EditBookReadKept ==
  ASSUME Inv, NEW t \in Terminal, EditBookRead(t)
  PROVE  Kept(t)
<1>1. BookThere(t) => View(t).books[call[t].book] \in BookRow
  BY ViewLinked, BookRowOf DEF BookThere
<1>2. pc[t] # "committing" /\ OpAt("type book", call[t].op)
  BY InHand DEF EditBookRead, OpAt
<1> QED
  BY <1>1, <1>2, ShowRowKept DEF EditBookRead

\* The new texts of a book.
LEMMA EditBookTypeKept ==
  ASSUME Inv, NEW t \in Terminal, EditBookType(t)
  PROVE  Kept(t)
<1>1. PICK i \in (Isbn \ {NO_ISBN}) \cup {got[t].isbn} :
        TypeRow(t, [got[t] EXCEPT !.isbn = i], "edit book row")
  BY DEF EditBookType
<1>2. pc[t] = "type book" /\ got[t] \in BookRow
  BY InHand DEF EditBookType, RowOfCall
<1>3. [got[t] EXCEPT !.isbn = i] \in BookRow
  BY <1>2 DEF BookRow
<1>4. pc[t] # "committing" /\ OpAt("edit book row", call[t].op)
  BY <1>2, InHand DEF OpAt
<1> QED
  BY <1>1, <1>3, <1>4, TypeRowKept

\* The UPDATE of a whole book row.
LEMMA EditBookWriteKept ==
  ASSUME Inv, NEW t \in Terminal, EditBookWrite(t)
  PROVE  Kept(t)
<1> DEFINE x == call[t].book
           new == WriteBook(View(t), x, got[t])
           free == x \in DOMAIN View(t).books => ~ IsbnTaken(View(t), x, got[t].isbn)
<1>1. PICK ok : Statement(t, ok, new, call[t]) /\ (ok => free)
  BY DEF EditBookWrite
<1>2. /\ pc[t] = "edit book row" /\ got[t] \in BookRow
      /\ call[t].op = "edit book"
  BY InHand DEF EditBookWrite, RowOfCall, OpAt
<1>3. free => Linked(new)
  BY <1>2, ViewLinked, WriteBookLinked
<1>4. ASSUME lock[t] = "none" PROVE Written(file, new, call[t], got[t])
  BY <1>2, <1>4 DEF View, Written
<1>5. call[t] \in CallRecord /\ pc[t] \notin {"commit", "committing"}
  BY <1>2, InHand
<1> HIDE DEF new, free, x
<1> QED
  BY <1>1, <1>3, <1>4, <1>5, StatementKept

\* DELETE FROM books.
LEMMA DeleteBookWriteKept ==
  ASSUME Inv, NEW t \in Terminal, DeleteBookWrite(t)
  PROVE  Kept(t)
<1> DEFINE new == DeleteBookRow(View(t), call[t].book)
<1>1. pc[t] = "delete book row" /\ call[t].op = "delete book"
  BY InHand DEF DeleteBookWrite, OpAt
<1>2. Linked(new)
  BY ViewLinked, DeleteBookLinked
<1>3. ASSUME lock[t] = "none" PROVE Written(file, new, call[t], got[t])
  BY <1>1, <1>3 DEF View, Written
<1>4. Statement(t, TRUE, new, call[t])
  BY DEF DeleteBookWrite
<1>5. call[t] \in CallRecord /\ pc[t] \notin {"commit", "committing"}
  BY <1>1, InHand
<1> HIDE DEF new
<1> QED
  BY <1>2, <1>3, <1>4, <1>5, StatementKept

\* The SELECT that looks for the email of a new member.
LEMMA AddMemberFindKept ==
  ASSUME Inv, NEW t \in Terminal, AddMemberFind(t)
  PROVE  Kept(t)
<1>1. PICK e \in Email, p \in Phone :
        ShowRow(t, CanRead(t) => ~ EmailTaken(View(t), 0, e),
                [email |-> e, phone |-> p, active |-> TRUE], "add member row")
  BY DEF AddMemberFind
<1> DEFINE row == [email |-> e, phone |-> p, active |-> TRUE]
           there == CanRead(t) => ~ EmailTaken(View(t), 0, e)
<1>2. row \in MemberRow
  BY DEF MemberRow
<1>3. pc[t] # "committing" /\ OpAt("add member row", call[t].op)
  BY InHand DEF AddMemberFind, OpAt
<1>4. ShowRow(t, there, row, "add member row")
  BY <1>1
<1> HIDE DEF row, there
<1> QED
  BY <1>2, <1>3, <1>4, ShowRowKept

\* INSERT INTO members.
LEMMA AddMemberWriteKept ==
  ASSUME Inv, NEW t \in Terminal, AddMemberWrite(t)
  PROVE  Kept(t)
<1> DEFINE d == View(t)
           c == [call[t] EXCEPT !.member = d.lastMember + 1]
           x == got[t].email
           y == got[t].phone
           new == InsertMember(d, x, y)
           ok == MemberInsertable(d, x)
<1>1. Statement(t, ok, new, c)
  BY DEF AddMemberWrite
<1>2. c \in CallRecord /\ c.op = "add member"
  <2>1. call[t] \in CallRecord /\ call[t].op = "add member" /\ d.lastMember \in Nat
    BY InHand DEF AddMemberWrite, OpAt
  <2>2. \A r \in CallRecord : \A k \in Nat :
          /\ [r EXCEPT !.member = k] \in CallRecord
          /\ [r EXCEPT !.member = k].op = r.op
    BY DEF CallRecord
  <2>3. \A k \in Nat : k + 1 \in Nat
    OBVIOUS
  <2> QED
    BY <2>1, <2>2, <2>3
<1>3. pc[t] = "add member row" /\ got[t] \in MemberRow
  BY InHand DEF AddMemberWrite, RowOfCall
<1>4. x \in Email /\ y \in Phone
  BY <1>3 DEF MemberRow
<1>5. ASSUME ok PROVE Linked(new)
  BY <1>4, <1>5, InHand, InsertMemberLinked DEF MemberInsertable
<1>6. ASSUME lock[t] = "none" PROVE Written(file, new, c, got[t])
  <2>1. new = InsertMember(file, x, y)
    BY <1>6, InHand
  <2> HIDE DEF new, c
  <2> QED
    BY <1>2, <2>1 DEF Written
<1>7. pc[t] \notin {"commit", "committing"}
  BY <1>3
<1> HIDE DEF c, new, ok
<1> QED
  BY <1>1, <1>2, <1>5, <1>6, <1>7, StatementKept

\* The SELECT of the member that will be edited.
LEMMA EditMemberReadKept ==
  ASSUME Inv, NEW t \in Terminal, EditMemberRead(t)
  PROVE  Kept(t)
<1>1. MemberThere(t) => View(t).members[call[t].member] \in MemberRow
  BY ViewLinked, MemberRowOf DEF MemberThere
<1>2. pc[t] # "committing" /\ OpAt("type member", call[t].op)
  BY InHand DEF EditMemberRead, OpAt
<1> QED
  BY <1>1, <1>2, ShowRowKept DEF EditMemberRead

\* The new texts of a member.
LEMMA EditMemberTypeKept ==
  ASSUME Inv, NEW t \in Terminal, EditMemberType(t)
  PROVE  Kept(t)
<1>1. PICK e \in Email, p \in Phone :
        TypeRow(t, [got[t] EXCEPT !.email = e, !.phone = p], "find email")
  BY DEF EditMemberType
<1>2. pc[t] = "type member" /\ got[t] \in MemberRow
  BY InHand DEF EditMemberType, RowOfCall
<1>3. [got[t] EXCEPT !.email = e, !.phone = p] \in MemberRow
  BY <1>2 DEF MemberRow
<1>4. pc[t] # "committing" /\ OpAt("find email", call[t].op)
  BY <1>2, InHand DEF OpAt
<1> QED
  BY <1>1, <1>3, <1>4, TypeRowKept

\* The UPDATE of a whole member row.
LEMMA EditMemberWriteKept ==
  ASSUME Inv, NEW t \in Terminal, EditMemberWrite(t)
  PROVE  Kept(t)
<1> DEFINE x == call[t].member
           new == WriteMember(View(t), x, got[t])
           free == x \in DOMAIN View(t).members => ~ EmailTaken(View(t), x, got[t].email)
<1>1. PICK ok : Statement(t, ok, new, call[t]) /\ (ok => free)
  BY DEF EditMemberWrite
<1>2. /\ pc[t] = "edit member row" /\ got[t] \in MemberRow
      /\ call[t].op = "edit member"
  BY InHand DEF EditMemberWrite, RowOfCall, OpAt
<1>3. free => Linked(new)
  BY <1>2, ViewLinked, WriteMemberLinked
<1>4. ASSUME lock[t] = "none" PROVE Written(file, new, call[t], got[t])
  BY <1>2, <1>4 DEF View, Written
<1>5. call[t] \in CallRecord /\ pc[t] \notin {"commit", "committing"}
  BY <1>2, InHand
<1> HIDE DEF new, free, x
<1> QED
  BY <1>1, <1>3, <1>4, <1>5, StatementKept

\* DELETE FROM members.
LEMMA DeleteMemberWriteKept ==
  ASSUME Inv, NEW t \in Terminal, DeleteMemberWrite(t)
  PROVE  Kept(t)
<1> DEFINE new == DeleteMemberRow(View(t), call[t].member)
<1>1. pc[t] = "delete member row" /\ call[t].op = "delete member"
  BY InHand DEF DeleteMemberWrite, OpAt
<1>2. Linked(new)
  BY ViewLinked, DeleteMemberLinked
<1>3. ASSUME lock[t] = "none" PROVE Written(file, new, call[t], got[t])
  BY <1>1, <1>3 DEF View, Written
<1>4. Statement(t, TRUE, new, call[t])
  BY DEF DeleteMemberWrite
<1>5. call[t] \in CallRecord /\ pc[t] \notin {"commit", "committing"}
  BY <1>1, InHand
<1> HIDE DEF new
<1> QED
  BY <1>2, <1>3, <1>4, <1>5, StatementKept

-----------------------------------------------------------------------------
(* Backup and restore, and the end of COMMIT.                              *)

\* A restore writes what a backup holds.
LEMMA RestoreKept ==
  ASSUME Inv, NEW t \in Terminal, Restore(t)
  PROVE  Kept(t)
<1> DEFINE Able(p) == lock[t] = "none" /\ CanWrite(t) /\ ~ Readers(t) /\ backups[p] # {}
<1>1. PICK p \in BackupPaths :
        IF Able(p)
        THEN /\ \E copy \in backups[p] : Wrote(t, copy, "exclusive")
             /\ Goto(t, "committing") /\ UNCHANGED <<call, got>>
        ELSE Return(t) /\ UNCHANGED conn
  BY DEF Restore
<1>2. pc[t] = "restore" /\ file' = file /\ backups' = backups
  BY DEF Restore, world
<1>3. CASE Able(p)
  <2>1. PICK copy \in backups[p] : Wrote(t, copy, "exclusive")
    BY <1>1, <1>3
  <2>2. Linked(copy) /\ Archived(copy)
    BY DEF Inv, BackupsLinked, Archived
  <2>3. call[t] \in CallRecord /\ got[t] \in Row /\ call[t].op = "restore"
    BY <1>2, InHand DEF OpAt
  <2>4. /\ pc' = [pc EXCEPT ![t] = "committing"]
        /\ call' = [call EXCEPT ![t] = call[t]] /\ got' = [got EXCEPT ![t] = got[t]]
    BY <1>1, <1>3 DEF Goto, Inv, Typed
  <2>5. Writes(t, copy, "exclusive", "committing", call[t], got[t])
    BY <1>2, <1>3, <2>1, <2>2, <2>3, <2>4 DEF Writes, Locks
  <2>6. Advances(copy, "exclusive", "committing", call[t], got[t])
    BY <2>2, <2>3 DEF Advances, OpAt
  <2> QED
    BY <2>5, <2>6, WriteKept
<1>4. CASE ~ Able(p)
  BY <1>1, <1>2, <1>4, ReturnKept
<1> QED
  BY <1>3, <1>4

\* A backup holds the file as it is; it is not made while somebody commits.
LEMMA BackupKept ==
  ASSUME Inv, NEW t \in Terminal, Backup(t), shared' = shared \ {t}
  PROVE  Inv' /\ file' = file
<1> DEFINE able == CanRead(t) /\ lock[t] = "none"
<1>1. PICK p \in BackupPaths :
        backups' = IF able THEN [backups EXCEPT ![p] = {file}] ELSE backups
  BY DEF Backup
<1>2. pc[t] = "backup" /\ Return(t) /\ UNCHANGED <<file, conn>>
  BY DEF Backup
<1>3. CASE ~ able
  <2>1. Kept(t)
    BY <1>1, <1>2, <1>3, ReturnKept
  <2> QED
    BY <1>2, <2>1, KeptInv
<1>4. CASE able
  <2>1. /\ file' = file /\ begun' = begun /\ lock' = lock /\ work' = work
    BY <1>2 DEF conn
  <2>2. Typed'
    BY <1>2, <2>1, AtTheMenu DEF Inv, Typed, Return, Goto, Labels
  <2>3. /\ pc'[t] = "menu"
        /\ \A u \in Terminal \ {t} :
             pc'[u] = pc[u] /\ call'[u] = call[u] /\ got'[u] = got[u]
    BY <1>2 DEF Inv, Typed, Return, Goto
  <2>4. Fine(t)'
    BY <1>2, <2>1, <2>3 DEF Inv, Fine, OpAt, IdsOfCall, RowOfCall, WritesOfCall
  <2>5. ASSUME NEW u \in Terminal, u # t PROVE Fine(u)'
    <3>1. Fine(u)
      BY DEF Inv
    <3>2. pc[u] # "committing"
      BY <1>4, <2>5, <3>1 DEF Inv, ReadersSafe, Fine, WritesOfCall, CanRead, Others
    <3>3. IdsOfCall(u)' /\ RowOfCall(u)'
      BY <2>3, <2>5, <3>1 DEF Fine, IdsOfCall, RowOfCall
    <3>4. Written(file, work[u], call[u], got[u])'
            <=> Written(file, work[u], call[u], got[u])
      BY <2>1, <2>3, <2>5 DEF Written, Due
    <3>5. WritesOfCall(u)'
      BY <2>1, <2>3, <2>5, <3>1, <3>2, <3>4 DEF Fine, WritesOfCall, Due
    <3> QED
      BY <2>1, <2>3, <2>5, <3>1, <3>3, <3>5 DEF Fine
  <2>6. BackupsLinked'
    <3>1. backups' = [backups EXCEPT ![p] = {file}]
      BY <1>1, <1>4
    <3>2. DOMAIN backups' = BackupPaths
      BY <3>1 DEF Inv, BackupsLinked
    <3>3. ASSUME NEW q \in BackupPaths, NEW copy \in backups'[q] PROVE Linked(copy)
      <4>1. CASE q = p
        BY <3>1, <4>1 DEF Inv, BackupsLinked
      <4>2. CASE q # p
        BY <3>1, <4>2 DEF Inv, BackupsLinked
      <4> QED
        BY <4>1, <4>2
    <3> QED
      BY <3>2, <3>3 DEF BackupsLinked
  <2>7. OneWriter' /\ Linked(file)'
    BY <2>1 DEF Inv, OneWriter
  <2>8. ReadersSafe'
    BY <2>1 DEF Inv, ReadersSafe
  <2> QED
    BY <2>1, <2>2, <2>4, <2>5, <2>6, <2>7, <2>8 DEF Inv
<1> QED
  BY <1>3, <1>4

\* The end of COMMIT: the file becomes the copy, which is a whole call away
\* from it; nobody else holds a lock.
LEMMA CommittedKept ==
  ASSUME Inv, NEW t \in Terminal, Committed(t), shared' = shared \ {t}
  PROVE  Inv' /\ pc[t] = "committing" /\ WholeCall(t, file, file')
<1>1. /\ pc[t] = "committing" /\ lock[t] = "exclusive" /\ Linked(work[t])
      /\ \/ Written(file, work[t], call[t], got[t])
         \/ call[t].op = "restore" /\ Archived(work[t])
      /\ file' = work[t] /\ backups' = backups
  BY DEF Committed, Inv, Fine, WritesOfCall, world
<1>2. Typed'
  BY AtTheMenu DEF Committed, RolledBack, Return, Goto, Inv, Typed, Labels, Locks
<1>3. /\ pc'[t] = "menu" /\ lock'[t] = "none" /\ work'[t] = EmptyDatabase
      /\ \A u \in Terminal \ {t} :
           /\ pc'[u] = pc[u] /\ call'[u] = call[u] /\ got'[u] = got[u]
           /\ begun'[u] = begun[u] /\ lock'[u] = lock[u] /\ work'[u] = work[u]
  BY DEF Committed, RolledBack, Return, Goto, Inv, Typed
<1>4. Fine(t)'
  BY <1>3, EmptyLinked DEF Fine, OpAt, IdsOfCall, RowOfCall, WritesOfCall
<1>5. ASSUME NEW u \in Terminal, u # t PROVE Fine(u)'
  <2>1. lock[u] = "none"
    BY <1>1, <1>5 DEF Inv, OneWriter
  <2>2. pc[u] \notin {"take copy", "give copy", "commit", "committing"}
    BY <2>1 DEF Inv, Fine, WritesOfCall
  <2>3. Fine(u)
    BY DEF Inv
  <2>4. /\ pc'[u] = pc[u] /\ call'[u] = call[u] /\ begun'[u] = begun[u]
        /\ got'[u] = got[u] /\ lock'[u] = lock[u] /\ work'[u] = work[u]
    BY <1>3, <1>5
  <2>5. IdsOfCall(u)' /\ RowOfCall(u)' /\ WritesOfCall(u)'
    BY <2>2, <2>3, <2>4 DEF Fine, IdsOfCall, RowOfCall, WritesOfCall
  <2> QED
    BY <2>3, <2>4, <2>5 DEF Fine
<1>6. OneWriter'
  BY <1>3 DEF Inv, OneWriter
<1>7. BackupsLinked'
  BY <1>1 DEF Inv, BackupsLinked
<1>8. ReadersSafe'
  BY <1>3 DEF Inv, ReadersSafe
<1>9. WholeCall(t, file, file')
  BY <1>1 DEF WholeCall, Written, Archived
<1> QED
  BY <1>1, <1>2, <1>4, <1>5, <1>6, <1>7, <1>8, <1>9 DEF Inv

-----------------------------------------------------------------------------
(* The theorems.                                                           *)

\* The terminals start at their menus, from a linked stock.
LEMMA InvInit == Init => Inv
<1> SUFFICES ASSUME Init PROVE Inv
  OBVIOUS
<1>1. Typed
  BY AtTheMenu DEF Init, Typed, Labels, Locks
<1>2. ASSUME NEW t \in Terminal PROVE Fine(t)
  BY <1>2, EmptyLinked DEF Init, Fine, OpAt, IdsOfCall, RowOfCall, WritesOfCall
<1>3. Linked(file)
  BY TerminalsAssumption DEF Init, Linked
<1>4. OneWriter
  BY DEF Init, OneWriter
<1>5. BackupsLinked
  BY DEF Init, BackupsLinked
<1>6. ReadersSafe
  BY DEF Init, ReadersSafe
<1> QED
  BY <1>1, <1>2, <1>3, <1>4, <1>5, <1>6 DEF Inv

\* A SELECT of loan_book, or a BEGIN.
LEMMA LoanChecksKept ==
  ASSUME Inv, NEW t \in Terminal,
         \/ LoanReadBook(t) \/ LoanReadMember(t) \/ LoanCount(t) \/ LoanDuplicate(t)
         \/ LoanBegin(t) \/ ReturnBegin(t)
  PROVE  Kept(t)
<1>1. CASE LoanReadBook(t)
  BY <1>1, CheckKept, InHand DEF Labels, Demanding, OpAt, LoanReadBook
<1>2. CASE LoanReadMember(t)
  BY <1>2, CheckKept, InHand DEF Labels, Demanding, OpAt, LoanReadMember
<1>3. CASE LoanCount(t)
  BY <1>3, CheckKept, InHand DEF Labels, Demanding, OpAt, LoanCount
<1>4. CASE LoanDuplicate(t)
  BY <1>4, CheckKept, InHand DEF Labels, Demanding, OpAt, LoanDuplicate
<1>5. CASE LoanBegin(t)
  BY <1>5, BeginKept, InHand DEF Labels, OpAt, LoanBegin
<1>6. CASE ReturnBegin(t)
  <2>1. call[t].loan \in LoanId /\ call[t].book \in BookId
    BY <1>6 DEF ReturnBegin, Inv, Fine, IdsOfCall
  <2> QED
    BY <1>6, <2>1, BeginKept, InHand DEF Labels, OpAt, ReturnBegin
<1> QED
  BY <1>1, <1>2, <1>3, <1>4, <1>5, <1>6

\* A SELECT of the book and the member menus.
LEMMA MenuChecksKept ==
  ASSUME Inv, NEW t \in Terminal,
         \/ DeleteBookFind(t) \/ DeleteBookCheck(t)
         \/ DeleteMemberFind(t) \/ DeleteMemberCheck(t) \/ EditMemberFind(t)
  PROVE  Kept(t)
<1>1. CASE DeleteBookFind(t)
  <2>1. call[t].book \in BookId
    BY <1>1, InHand DEF DeleteBookFind, IdsOfCall
  <2> QED
    BY <1>1, <2>1, CheckKept, InHand DEF Labels, Demanding, OpAt, DeleteBookFind
<1>2. CASE DeleteBookCheck(t)
  <2>1. call[t].book \in BookId
    BY <1>2, InHand DEF DeleteBookCheck, IdsOfCall
  <2> QED
    BY <1>2, <2>1, CheckKept, InHand DEF Labels, Demanding, OpAt, DeleteBookCheck
<1>3. CASE DeleteMemberFind(t)
  <2>1. call[t].member \in MemberId
    BY <1>3, InHand DEF DeleteMemberFind, IdsOfCall
  <2> QED
    BY <1>3, <2>1, CheckKept, InHand DEF Labels, Demanding, OpAt, DeleteMemberFind
<1>4. CASE DeleteMemberCheck(t)
  <2>1. call[t].member \in MemberId
    BY <1>4, InHand DEF DeleteMemberCheck, IdsOfCall
  <2> QED
    BY <1>4, <2>1, CheckKept, InHand DEF Labels, Demanding, OpAt, DeleteMemberCheck
<1>5. CASE EditMemberFind(t)
  <2>1. got[t] \in MemberRow
    BY <1>5, InHand DEF EditMemberFind, RowOfCall
  <2> QED
    BY <1>5, <2>1, CheckKept, InHand DEF Labels, Demanding, OpAt, EditMemberFind
<1> QED
  BY <1>1, <1>2, <1>3, <1>4, <1>5

\* The user's yes or no.
LEMMA ConfirmKept ==
  ASSUME Inv, NEW t \in Terminal,
         \/ Confirm(t, "sure of book", "count loans out")
         \/ Confirm(t, "sure of member", "count loans held")
  PROVE  Kept(t)
<1>1. CASE Confirm(t, "sure of book", "count loans out")
  <2>1. call[t].book \in BookId
    BY <1>1, InHand DEF Confirm, IdsOfCall
  <2>2. PICK yes \in BOOLEAN : Check(t, yes, "count loans out")
    BY <1>1 DEF Confirm
  <2>3. pc[t] # "committing" /\ OpAt("count loans out", call[t].op)
    BY <1>1, InHand DEF Confirm, OpAt
  <2> QED
    BY <2>1, <2>2, <2>3, CheckKept DEF Labels, Demanding
<1>2. CASE Confirm(t, "sure of member", "count loans held")
  <2>1. call[t].member \in MemberId
    BY <1>2, InHand DEF Confirm, IdsOfCall
  <2>2. PICK yes \in BOOLEAN : Check(t, yes, "count loans held")
    BY <1>2 DEF Confirm
  <2>3. pc[t] # "committing" /\ OpAt("count loans held", call[t].op)
    BY <1>2, InHand DEF Confirm, OpAt
  <2> QED
    BY <2>1, <2>2, <2>3, CheckKept DEF Labels, Demanding
<1> QED
  BY <1>1, <1>2

\* A statement other than the end of COMMIT leaves the file alone, and one other
\* than a backup the backups.
LEMMA StepKept ==
  ASSUME Inv, NEW t \in Terminal, Step(t), ~ Committed(t), ~ Backup(t)
  PROVE  Kept(t)
<1>1. CASE \/ LoanReadBook(t) \/ LoanReadMember(t) \/ LoanCount(t)
           \/ LoanDuplicate(t) \/ LoanBegin(t) \/ ReturnBegin(t)
  BY <1>1, LoanChecksKept
<1>2. CASE \/ DeleteBookFind(t) \/ DeleteBookCheck(t)
           \/ DeleteMemberFind(t) \/ DeleteMemberCheck(t) \/ EditMemberFind(t)
  BY <1>2, MenuChecksKept
<1>3. CASE LoanInsert(t) \/ LoanTakeCopy(t) \/ Commit(t)
  BY <1>3, LoanInsertKept, LoanTakeCopyKept, CommitKept
<1>4. CASE ReturnRead(t) \/ ReturnMark(t) \/ ReturnGiveCopy(t)
  BY <1>4, ReturnReadKept, ReturnMarkKept, ReturnGiveCopyKept
<1>5. CASE AddBook(t) \/ EditBookRead(t) \/ EditBookWrite(t) \/ DeleteBookWrite(t)
  BY <1>5, AddBookKept, EditBookReadKept, EditBookWriteKept, DeleteBookWriteKept
<1>6. CASE \/ AddMemberFind(t) \/ AddMemberWrite(t) \/ EditMemberRead(t)
           \/ EditMemberWrite(t) \/ DeleteMemberWrite(t)
  BY <1>6, AddMemberFindKept, AddMemberWriteKept, EditMemberReadKept,
     EditMemberWriteKept, DeleteMemberWriteKept
<1>7. CASE Restore(t)
  BY <1>7, RestoreKept
<1> QED
  BY <1>1, <1>2, <1>3, <1>4, <1>5, <1>6, <1>7 DEF Step

\* What a user does, the end of the program included, leaves them alone too.
LEMMA UserKept ==
  ASSUME Inv, NEW t \in Terminal, User(t)
  PROVE  Kept(t)
<1>1. CASE Exit(t)
  BY <1>1, RolledBackKept DEF Exit, world
<1>2. CASE Crash(t)
  BY <1>2, RolledBackKept DEF Crash, world
<1>3. CASE \/ Confirm(t, "sure of book", "count loans out")
           \/ Confirm(t, "sure of member", "count loans held")
  BY <1>3, ConfirmKept
<1> QED
  BY <1>1, <1>2, <1>3, AskKept, EditBookTypeKept, EditMemberTypeKept DEF User

\* The connections of the other terminals are as they were.
LEMMA OthersAlone ==
  ASSUME Inv, NEW t \in Terminal, Step(t) \/ User(t), NEW u \in Terminal, u # t
  PROVE  /\ pc'[u] = pc[u] /\ call'[u] = call[u] /\ got'[u] = got[u]
         /\ begun'[u] = begun[u] /\ lock'[u] = lock[u] /\ work'[u] = work[u]
<1>1. CASE Committed(t)
  BY <1>1 DEF Committed, RolledBack, Return, Goto, Inv, Typed
<1>2. CASE Backup(t)
  BY <1>2 DEF Backup, Return, Goto, conn, Inv, Typed
<1>3. CASE ~ Committed(t) /\ ~ Backup(t)
  BY <1>3, StepKept, UserKept DEF Kept
<1> QED
  BY <1>1, <1>2, <1>3

\* A statement that begins to read, the reader outside and a step of nobody
\* change nothing else that is spoken of.
LEMMA OutsideKept ==
  ASSUME Inv, UNCHANGED <<file, backups, pc, call, got, conn>>, ReadersSafe'
  PROVE  Inv'
<1>1. /\ file' = file /\ backups' = backups /\ pc' = pc /\ call' = call
      /\ got' = got /\ begun' = begun /\ lock' = lock /\ work' = work
  BY DEF conn
<1>2. ASSUME NEW t \in Terminal PROVE Fine(t)'
  <2>1. Fine(t)
    BY DEF Inv
  <2>2. IdsOfCall(t)' /\ RowOfCall(t)'
    BY <1>1, <2>1 DEF Fine, IdsOfCall, RowOfCall
  <2>3. WritesOfCall(t)'
    BY <1>1, <2>1 DEF Fine, WritesOfCall, Written, Archived
  <2> QED
    BY <1>1, <2>1, <2>2, <2>3 DEF Fine
<1>3. Typed' /\ OneWriter' /\ Linked(file)' /\ BackupsLinked'
  BY <1>1 DEF Inv, Typed, OneWriter, BackupsLinked
<1> QED
  BY <1>2, <1>3 DEF Inv

\* A terminal begins a statement that reads the file.
LEMMA ShareKept ==
  ASSUME Inv, NEW t \in Terminal, Share(t)
  PROVE  Inv' /\ file' = file
<1>1. /\ shared' = shared \cup {t} /\ lock' = lock /\ lock[t] = "none"
      /\ \A u \in Terminal \ {t} : lock[u] \in {"none", "reserved"}
  BY DEF Share, CanRead, Others, conn
<1>2. ReadersSafe'
  BY <1>1 DEF Inv, ReadersSafe
<1> QED
  BY <1>2, OutsideKept DEF Share, world

\* Every step keeps the invariant, and leaves the file alone or changes it by
\* the whole of the writes of the call that commits.
LEMMA InvNext ==
  ASSUME Inv, [Next]_vars
  PROVE  /\ Inv'
         /\ \/ file' = file
            \/ \E t \in Terminal : pc[t] = "committing" /\ WholeCall(t, file, file')
<1>1. ASSUME NEW t \in Terminal, Step(t) \/ User(t), shared' = shared \ {t}
      PROVE  /\ Inv'
             /\ \/ file' = file
                \/ pc[t] = "committing" /\ WholeCall(t, file, file')
  <2>1. CASE Committed(t)
    BY <1>1, <2>1, CommittedKept
  <2>2. CASE Backup(t)
    BY <1>1, <2>2, BackupKept
  <2>3. CASE ~ Committed(t) /\ ~ Backup(t)
    <3>1. Kept(t)
      BY <1>1, <2>3, StepKept, UserKept
    <3> QED
      BY <1>1, <3>1, KeptInv DEF Kept
  <2> QED
    BY <2>1, <2>2, <2>3
<1>2. CASE ReaderComes \/ ReaderGoes \/ UNCHANGED vars
  <2>1. UNCHANGED <<file, backups, pc, call, got, conn, shared>>
    BY <1>2 DEF ReaderComes, ReaderGoes, vars, conn
  <2>2. ReadersSafe'
    BY <2>1 DEF Inv, ReadersSafe, conn
  <2> QED
    BY <2>1, <2>2, OutsideKept
<1>3. ASSUME NEW t \in Terminal, Share(t) PROVE Inv' /\ file' = file
  BY <1>3, ShareKept
<1> QED
  BY <1>1, <1>2, <1>3 DEF Next

\* The inductive invariant holds in every state, for any number of terminals.
THEOREM Invariance == Spec => []Inv
BY InvInit, InvNext, PTL DEF Spec

\* File and copies are well-formed, a copy exists only under a lock, and locks
\* are held only inside a transaction or while a statement commits.
THEOREM Typing == Spec => []TypeOK
<1>1. Inv => TypeOK
  BY DEF Inv, Typed, Fine, Linked, BackupsLinked, ReadersSafe, TypeOK, Locks
<1> QED
  BY <1>1, Invariance, PTL

\* However many terminals run and wherever they die, no committed loan names a
\* book or a member that is gone.
THEOREM References == Spec => []NoOrphanLoan
<1>1. Inv => NoOrphanLoan
  BY DEF Inv, Linked, BackupsLinked, NoOrphanLoan
<1> QED
  BY <1>1, Invariance, PTL

\* However registrations and edits interleave, no two rows of the file or of a
\* backup have one isbn or one email.
THEOREM NoRowTwice == Spec => []NoTwins
<1>1. Inv => NoTwins
  BY DEF Inv, Linked, BackupsLinked, NoTwins
<1> QED
  BY <1>1, Invariance, PTL

\* Only one terminal at a time holds a lock to write.
THEOREM OneWriterAtATime == Spec => []OneWriter
<1>1. Inv => OneWriter
  BY DEF Inv
<1> QED
  BY <1>1, Invariance, PTL

\* Every change of the file is the whole of the writes of the call that commits,
\* made to the file as it was just before.
THEOREM Transactions == Spec => WholeTransactions
<1>1. ASSUME Inv, [Next]_vars
      PROVE  [\E t \in Terminal :
                pc[t] = "committing" /\ WholeCall(t, file, file')]_file
  BY <1>1, InvNext
<1> QED
  BY <1>1, Invariance, PTL DEF Spec, WholeTransactions
=============================================================================
