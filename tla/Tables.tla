------------------------------- MODULE Tables -------------------------------
(***************************************************************************)
(* The SQLite database the library keeps (src/src/database.c) as a VALUE:  *)
(* a record of the three tables books, members and loans and of the three  *)
(* AUTOINCREMENT counters.  Every SQL statement the C code executes is an  *)
(* operator from a database to the database it leaves, every query and     *)
(* every check an operator of a database.  The module has no variables:    *)
(* the state machines that execute the statements (Library, one call at a  *)
(* time; Terminals, one statement at a time) are built from it, and what   *)
(* is proved of a statement here is used by both.                          *)
(*                                                                         *)
(* Columns no check, no guard and no property looks at (title, author,     *)
(* publisher, name, address, timestamps, ...) are abstracted away.  Time   *)
(* is counted in days since 1970-01-01, the granularity of a loan.         *)
(***************************************************************************)
EXTENDS Integers, FiniteSets, Functions

CONSTANTS
  Isbn,                 \* the isbn texts, the empty text NO_ISBN among them
  NO_ISBN,              \* the empty text add_book binds when none was typed
  Email, Phone,         \* the texts of the two columns of members
  MaxBookId, MaxMemberId, MaxLoanId,   \* last value of each AUTOINCREMENT id
  LastDay,              \* last day datetime() can express (9999-12-31)
  MAX_BOOKS_PER_MEMBER, \* constants.h
  MAX_RENEWAL_COUNT,    \* constants.h
  DEFAULT_LOAN_DAYS     \* constants.h

\* 9999-12-31 counted from 1970-01-01.
EndOfCalendar == 2932896

ASSUME TablesAssumption ==
  /\ NO_ISBN \in Isbn
  /\ MaxBookId \in Nat /\ MaxMemberId \in Nat /\ MaxLoanId \in Nat
  /\ LastDay \in Nat \ {0} /\ LastDay <= EndOfCalendar
  /\ MAX_BOOKS_PER_MEMBER \in Nat \ {0}
  /\ MAX_RENEWAL_COUNT \in Nat
  /\ DEFAULT_LOAN_DAYS \in Nat \ {0}

-----------------------------------------------------------------------------
(* Rows and tables.                                                        *)

BookId   == 1..MaxBookId
MemberId == 1..MaxMemberId
LoanId   == 1..MaxLoanId
Day      == 0..LastDay

BookRow   == [isbn : Isbn, total : Nat, available : Nat]
MemberRow == [email : Email, phone : Phone, active : BOOLEAN]
LoanRow   == [book : BookId, member : MemberId, due : Day,
              returned : BOOLEAN, renewals : Nat]

\* t is a table of rows from Row under ids from Id.
Table(t, Id, Row) == DOMAIN t \subseteq Id /\ t \in [DOMAIN t -> Row]

\* d is a database, and no id in use is above its AUTOINCREMENT counter.
IsDatabase(d) ==
  /\ DOMAIN d = {"books", "members", "loans", "lastBook", "lastMember", "lastLoan"}
  /\ d.lastBook \in 0..MaxBookId /\ Table(d.books, 1..d.lastBook, BookRow)
  /\ d.lastMember \in 0..MaxMemberId
  /\ Table(d.members, 1..d.lastMember, MemberRow)
  /\ d.lastLoan \in 0..MaxLoanId /\ Table(d.loans, 1..d.lastLoan, LoanRow)

\* database_create_tables: three empty tables.
NoRows == [x \in {} |-> x]
EmptyDatabase == [books |-> NoRows, members |-> NoRows, loans |-> NoRows,
                  lastBook |-> 0, lastMember |-> 0, lastLoan |-> 0]

\* Table t with row r under id k.
Put(t, k, r) == [x \in DOMAIN t \cup {k} |-> IF x = k THEN r ELSE t[x]]

-----------------------------------------------------------------------------
(* Queries on loans.                                                       *)

ActiveLoans(d) == {l \in DOMAIN d.loans : ~ d.loans[l].returned}
LoansOut(d, b)  == {l \in ActiveLoans(d) : d.loans[l].book = b}
LoansHeld(d, m) == {l \in ActiveLoans(d) : d.loans[l].member = m}
LoansOf(d, b, m) == LoansOut(d, b) \cap LoansHeld(d, m)
OverdueLoans(d, today, m) == {l \in LoansHeld(d, m) : d.loans[l].due < today}

-----------------------------------------------------------------------------
(* Statements on books.                                                    *)

\* The UNIQUE constraint of the isbn column: a row other than b has isbn i.
IsbnTaken(d, b, i) == \E c \in DOMAIN d.books \ {b} : d.books[c].isbn = i

InsertBook(d, i, copies) ==
  [d EXCEPT !.books = Put(@, d.lastBook + 1,
                          [isbn |-> i, total |-> copies, available |-> copies]),
            !.lastBook = @ + 1]

\* UPDATE books SET ... WHERE id = b: the whole row; nothing when b is absent.
WriteBook(d, b, row) ==
  IF b \in DOMAIN d.books THEN [d EXCEPT !.books = Put(@, b, row)] ELSE d

\* DELETE FROM books WHERE id = b, with ON DELETE CASCADE into loans.
DeleteBookRow(d, b) ==
  [d EXCEPT !.books = Restrict(@, DOMAIN @ \ {b}),
            !.loans = Restrict(@, {l \in DOMAIN @ : @[l].book # b})]

ValidBook(row) == 0 <= row.available /\ row.available <= row.total

\* Seeded fault: the WHERE keeps one copy back.
DecrementButLast(d, b) ==
  IF b \in DOMAIN d.books /\ d.books[b].available > 1
  THEN [d EXCEPT !.books[b].available = @ - 1] ELSE d

\* UPDATE books SET available_copies = available_copies - 1
\* WHERE id = b AND available_copies > 0: no row changes when none is left.
DecrementAvailable(d, b) ==
  IF b \in DOMAIN d.books /\ d.books[b].available > 0
  THEN [d EXCEPT !.books[b].available = @ - 1] ELSE d

\* UPDATE books SET available_copies = available_copies + 1 WHERE id = b.
IncrementAvailable(d, b) ==
  IF b \in DOMAIN d.books THEN [d EXCEPT !.books[b].available = @ + 1] ELSE d

-----------------------------------------------------------------------------
(* Statements on members.                                                  *)

EmailTaken(d, m, e) == \E n \in DOMAIN d.members \ {m} : d.members[n].email = e

InsertMember(d, e, p) ==
  [d EXCEPT !.members = Put(@, d.lastMember + 1,
                            [email |-> e, phone |-> p, active |-> TRUE]),
            !.lastMember = @ + 1]

WriteMember(d, m, row) ==
  IF m \in DOMAIN d.members THEN [d EXCEPT !.members = Put(@, m, row)] ELSE d

\* Seeded fault: the loans table has no ON DELETE CASCADE on member_id.
DeleteMemberRowOnly(d, m) ==
  [d EXCEPT !.members = Restrict(@, DOMAIN @ \ {m})]

\* DELETE FROM members WHERE id = m, with ON DELETE CASCADE into loans.
DeleteMemberRow(d, m) ==
  [d EXCEPT !.members = Restrict(@, DOMAIN @ \ {m}),
            !.loans = Restrict(@, {l \in DOMAIN @ : @[l].member # m})]

SetActive(d, m, flag) ==
  IF m \in DOMAIN d.members THEN [d EXCEPT !.members[m].active = flag] ELSE d

-----------------------------------------------------------------------------
(* Statements on loans.                                                    *)

InsertLoan(d, b, m, due) ==
  [d EXCEPT !.loans = Put(@, d.lastLoan + 1,
                          [book |-> b, member |-> m, due |-> due,
                           returned |-> FALSE, renewals |-> 0]),
            !.lastLoan = @ + 1]

MarkReturned(d, l) ==
  IF l \in DOMAIN d.loans THEN [d EXCEPT !.loans[l].returned = TRUE] ELSE d

ExtendDueDate(d, l, days) ==
  IF l \in DOMAIN d.loans
  THEN [d EXCEPT !.loans[l].due = @ + days, !.loans[l].renewals = @ + 1] ELSE d

\* What loan_book's transaction does, INSERT then UPDATE.
LentOut(d, b, m, due) == DecrementAvailable(InsertLoan(d, b, m, due), b)

\* Seeded fault: the second UPDATE of return_book's transaction is lost.
TakenBackLoanOnly(d, l) == MarkReturned(d, l)
\* What return_book's transaction does, two UPDATEs.
TakenBack(d, l) == IncrementAvailable(MarkReturned(d, l), d.loans[l].book)

-----------------------------------------------------------------------------
(* The checks loan.c and member.c make before they write.                  *)

\* Seeded fault: the limit is compared with > instead of >=.
UnderLimitOffByOne(d, m) == Cardinality(LoansHeld(d, m)) <= MAX_BOOKS_PER_MEMBER
UnderLimit(d, m) == Cardinality(LoansHeld(d, m)) < MAX_BOOKS_PER_MEMBER

MemberEligible(d, today, m) ==
  /\ m \in DOMAIN d.members
  /\ d.members[m].active
  /\ UnderLimit(d, m)
  /\ OverdueLoans(d, today, m) = {}

\* Seeded fault: the query asks for the returned loans.
NoDuplicateFound(d, b, m) ==
  {l \in DOMAIN d.loans \ ActiveLoans(d) :
     d.loans[l].book = b /\ d.loans[l].member = m} = {}
NotDuplicate(d, b, m) == LoansOf(d, b, m) = {}

LoanAvailable(d, today, b, m) ==
  /\ b \in DOMAIN d.books
  /\ d.books[b].available > 0
  /\ MemberEligible(d, today, m)
  /\ NotDuplicate(d, b, m)

\* The due date loan_book writes: days <= 0 stands for the default.
DueDate(today, days) ==
  today + (IF days <= 0 THEN DEFAULT_LOAN_DAYS ELSE days)

\* Seeded fault: a date datetime() cannot express is stored all the same.
ExpressibleOrNot(day) == day >= 0
\* datetime() gives NULL beyond LastDay, and due_date is NOT NULL.
Expressible(day) == day <= LastDay

\* get_loan_by_id reads a date column, a text "YYYY-MM-DD hh:mm:ss", with
\* sqlite3_column_int64: the integer it gets is the year.
YearRead(day) == 1970 + (400 * day) \div 146097
\* time(NULL) on that day: seconds since 1970-01-01.
ClockSeconds(today) == 86400 * today

\* extend_loan's tests, as the code makes them: the year against the clock.
RenewalAllowed(d, today, l) ==
  /\ ~ d.loans[l].returned
  /\ d.loans[l].renewals < MAX_RENEWAL_COUNT
  /\ ~ YearRead(d.loans[l].due) < ClockSeconds(today)

-----------------------------------------------------------------------------
(* What a sound database satisfies.                                        *)

\* Every loan row names a book and a member that exist.
ReferencesHold(d) ==
  \A l \in DOMAIN d.loans : /\ d.loans[l].book \in DOMAIN d.books
                            /\ d.loans[l].member \in DOMAIN d.members

\* No two books have one isbn, no two members one email.
KeysUnique(d) ==
  /\ \A b, c \in DOMAIN d.books : d.books[b].isbn = d.books[c].isbn => b = c
  /\ \A m, n \in DOMAIN d.members : d.members[m].email = d.members[n].email => m = n

\* Each copy of each book is on the shelf or lent out, and only once.
CopiesAddUp(d) ==
  \A b \in DOMAIN d.books :
    d.books[b].available + Cardinality(LoansOut(d, b)) = d.books[b].total

LimitKept(d) ==
  \A m \in MemberId : Cardinality(LoansHeld(d, m)) <= MAX_BOOKS_PER_MEMBER

LentOnce(d) ==
  \A k, l \in ActiveLoans(d) :
    /\ d.loans[k].book = d.loans[l].book
    /\ d.loans[k].member = d.loans[l].member
    => k = l

Unrenewed(d) == \A l \in DOMAIN d.loans : d.loans[l].renewals = 0

\* From d to e the ledger of loans only grows: an active loan keeps its row,
\* no row changes its book or its member, a returned loan stays returned, and
\* a new row gets an id never used before.
LedgerKept(d, e) ==
  /\ ActiveLoans(d) \subseteq DOMAIN e.loans
  /\ \A l \in DOMAIN e.loans :
       IF l \in DOMAIN d.loans
       THEN /\ e.loans[l].book = d.loans[l].book
            /\ e.loans[l].member = d.loans[l].member
            /\ d.loans[l].returned => e.loans[l].returned
       ELSE l > d.lastLoan
=============================================================================
