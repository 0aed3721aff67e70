------------------------------ MODULE Library -------------------------------
(***************************************************************************)
(* One terminal: the program of src/src/main.c with its database to        *)
(* itself.  Its calls then never interleave, so each call of book.c,       *)
(* member.c, loan.c and database.c that changes the database is one        *)
(* action, from the checks it makes before it writes to its last           *)
(* statement.  A call the code refuses changes nothing and is no step.     *)
(* Terminals takes the same calls apart, one SQL statement at a time.      *)
(***************************************************************************)
EXTENDS Tables

CONSTANTS
  Copies,      \* answers to the prompt for the number of copies (1..999)
  LoanDays,    \* loan lengths asked for, <= 0 standing for the default
  FirstDay,    \* the day the library opens
  MaxDay,      \* bound of the clock
  BackupPaths  \* the paths backups are written to

ASSUME LibraryAssumption ==
  /\ Copies \subseteq Nat \ {0}
  /\ LoanDays \subseteq Int
  /\ FirstDay \in Nat \ {0}
  /\ MaxDay \in FirstDay..LastDay

VARIABLES
  db,      \* the database file
  today,   \* the clock
  backups  \* the file at each path: a set of at most one database

vars == <<db, today, backups>>

Init ==
  /\ db = EmptyDatabase
  /\ today = FirstDay
  /\ backups = [p \in BackupPaths |-> {}]

-----------------------------------------------------------------------------
(* book.c, as the book menu calls it.                                      *)

AddBook(i, copies) ==
  /\ db.lastBook < MaxBookId
  /\ ~ IsbnTaken(db, 0, i)
  /\ db' = InsertBook(db, i, copies)
  /\ UNCHANGED <<today, backups>>

\* The menu offers new texts; the two counters stay as they were read.
EditedRow(row, i) == [row EXCEPT !.isbn = i]

UpdateBook(b, i) ==
  /\ b \in DOMAIN db.books
  /\ ValidBook(EditedRow(db.books[b], i))
  /\ ~ IsbnTaken(db, b, i)
  /\ db' = WriteBook(db, b, EditedRow(db.books[b], i))
  /\ UNCHANGED <<today, backups>>

\* Seeded fault: the query counts the returned loans.
BookIsInNoLoanBack(d, b) ==
  {l \in DOMAIN d.loans \ ActiveLoans(d) : d.loans[l].book = b} = {}
BookIsIn(d, b) == LoansOut(d, b) = {}

DeleteBook(b) ==
  /\ b \in DOMAIN db.books
  /\ BookIsIn(db, b)
  /\ db' = DeleteBookRow(db, b)
  /\ UNCHANGED <<today, backups>>

-----------------------------------------------------------------------------
(* member.c.  The menu never activates or deactivates; the API does.       *)

AddMember(e, p) ==
  /\ db.lastMember < MaxMemberId
  /\ ~ EmailTaken(db, 0, e)
  /\ db' = InsertMember(db, e, p)
  /\ UNCHANGED <<today, backups>>

UpdateMember(m, e, p) ==
  /\ m \in DOMAIN db.members
  /\ ~ EmailTaken(db, m, e)
  /\ db' = WriteMember(db, m, [db.members[m] EXCEPT !.email = e, !.phone = p])
  /\ UNCHANGED <<today, backups>>

MemberOwesNothing(d, m) == LoansHeld(d, m) = {}

DeleteMember(m) ==
  /\ m \in DOMAIN db.members
  /\ MemberOwesNothing(db, m)
  /\ db' = DeleteMemberRow(db, m)
  /\ UNCHANGED <<today, backups>>

DeactivateMember(m) ==
  /\ db' = SetActive(db, m, FALSE)
  /\ UNCHANGED <<today, backups>>

ActivateMember(m) ==
  /\ db' = SetActive(db, m, TRUE)
  /\ UNCHANGED <<today, backups>>

-----------------------------------------------------------------------------
(* loan.c.                                                                 *)

LoanBook(b, m, days) ==
  /\ LoanAvailable(db, today, b, m)
  /\ db.lastLoan < MaxLoanId
  /\ Expressible(DueDate(today, days))
  /\ db' = LentOut(db, b, m, DueDate(today, days))
  /\ UNCHANGED <<today, backups>>

Returnable(d, l) == l \in ActiveLoans(d)

ReturnBook(l) ==
  /\ Returnable(db, l)
  /\ db' = TakenBack(db, l)
  /\ UNCHANGED <<today, backups>>

\* The latest of the loans of b by m that are still out, looked up first; any of
\* those of the same second.
ReturnBookByIds(b, m) == \E l \in LoansOf(db, b, m) : ReturnBook(l)

\* The call the tests and the menu make; RenewalAllowed refuses it always
\* (NoRenewals below), as NOT NULL would a date past the calendar, and a refused
\* call changes nothing.
ExtendLoan(l, days) ==
  /\ l \in DOMAIN db.loans
  /\ days > 0
  /\ db' = IF /\ RenewalAllowed(db, today, l)
              /\ Expressible(db.loans[l].due + days)
           THEN ExtendDueDate(db, l, days) ELSE db
  /\ UNCHANGED <<today, backups>>

-----------------------------------------------------------------------------
(* database.c: the whole file is copied, one way or the other.             *)

\* Seeded fault: one step of the copy, not all pages; the loans stay behind.
CopiedInPart(d) == [d EXCEPT !.loans = NoRows]
Copied(d) == d

Backup(p) ==
  /\ backups' = [backups EXCEPT ![p] = {Copied(db)}]
  /\ UNCHANGED <<db, today>>

\* Seeded fault: the page of the books table is not copied.
RestoredButBooks(d, copy) ==
  [copy EXCEPT !.books = [b \in DOMAIN copy.books |->
                            IF b \in DOMAIN d.books THEN d.books[b]
                                                    ELSE copy.books[b]]]
\* Seeded fault: the page of the members table is not copied.
RestoredButMembers(d, copy) ==
  [copy EXCEPT !.members = d.members, !.lastMember = d.lastMember]
Restored(d, copy) == copy

\* restore_database_interactive asks that the file exists.
Restore(p) ==
  /\ \E copy \in backups[p] : db' = Restored(db, copy)
  /\ UNCHANGED <<today, backups>>

\* Time passes.
Tick ==
  /\ today < MaxDay
  /\ today' = today + 1
  /\ UNCHANGED <<db, backups>>

-----------------------------------------------------------------------------
BookNext ==
  \/ \E i \in Isbn, n \in Copies : AddBook(i, n)
  \/ \E b \in BookId, i \in Isbn : UpdateBook(b, i)
  \/ \E b \in BookId : DeleteBook(b)

MemberNext ==
  \/ \E e \in Email, p \in Phone : AddMember(e, p)
  \/ \E m \in MemberId, e \in Email, p \in Phone : UpdateMember(m, e, p)
  \/ \E m \in MemberId : DeleteMember(m)
  \/ \E m \in MemberId : DeactivateMember(m)
  \/ \E m \in MemberId : ActivateMember(m)

LoanNext ==
  \/ \E b \in BookId, m \in MemberId, n \in LoanDays : LoanBook(b, m, n)
  \/ \E l \in LoanId : ReturnBook(l)
  \/ \E b \in BookId, m \in MemberId : ReturnBookByIds(b, m)
  \/ \E l \in LoanId, n \in LoanDays : ExtendLoan(l, n)

SystemNext ==
  \/ \E p \in BackupPaths : Backup(p)
  \/ \E p \in BackupPaths : Restore(p)
  \/ Tick

Next == BookNext \/ MemberNext \/ LoanNext \/ SystemNext

Spec == Init /\ [][Next]_vars

-----------------------------------------------------------------------------
(* Properties.                                                             *)

\* The database and every backup of it are well-formed tables.
TypeOK ==
  /\ IsDatabase(db)
  /\ today \in FirstDay..MaxDay
  /\ DOMAIN backups = BackupPaths
  /\ \A p \in BackupPaths : \A copy \in backups[p] : IsDatabase(copy)

\* No call leaves a loan of a book or of a member that is gone: the checks of
\* delete_book and delete_member and the cascades of the schema together.
NoOrphanLoan == ReferencesHold(db)

\* available_copies, which loan_book and return_book count down and up, which
\* update_book rewrites and delete_member leaves alone, is at all times the
\* number of copies minus the number of loans not yet returned.
CopiesConserved == CopiesAddUp(db)

\* Nobody holds more than MAX_BOOKS_PER_MEMBER books, whatever was lent,
\* returned, deactivated or restored in between.
MemberLimit == LimitKept(db)

\* A member never holds two copies of one book, so return_book_by_ids has at
\* most one loan to choose.
NoDuplicateLoan == LentOnce(db)

\* A defect and no promise (RenewalOffered below states the promise): no loan is
\* ever renewed, because extend_loan compares the year number of the due date
\* with the clock (loan.c:242, 305).
NoRenewals == Unrenewed(db)

\* Every backup file is a snapshot as sound as the live database, so that a
\* restore at any later moment brings back a sound library.
BackupsSound ==
  \A p \in BackupPaths : \A copy \in backups[p] :
    /\ ReferencesHold(copy)
    /\ CopiesAddUp(copy)
    /\ LimitKept(copy)
    /\ LentOnce(copy)
    /\ Unrenewed(copy)

\* No step but a restore loses a loan that is still out, rewrites the parties
\* of a loan, takes a return back or reuses a loan id.
LedgerOnlyGrows ==
  [][\/ LedgerKept(db, db')
     \/ \E p \in BackupPaths : db' \in backups[p]]_vars

-----------------------------------------------------------------------------
(* The promise of Lending, kept: a title is a book id, a patron a member   *)
(* id, a copy is held under each loan not yet returned, and the shelf is   *)
(* the column available_copies.                                            *)

ShelfOf(d) == [b \in DOMAIN d.books |-> d.books[b].available]
PatronsOf(d) == DOMAIN d.members
HeldIn(d) == {<<d.loans[l].member, d.loans[l].book>> : l \in ActiveLoans(d)}
KeptIn(file) == {<<ShelfOf(d), PatronsOf(d), HeldIn(d)>> : d \in file}

Promise == INSTANCE Lending WITH
  Title <- BookId, Patron <- MemberId, Limit <- MAX_BOOKS_PER_MEMBER,
  Archive <- BackupPaths,
  shelf <- ShelfOf(db), patrons <- PatronsOf(db), held <- HeldIn(db),
  kept <- [p \in BackupPaths |-> KeptIn(backups[p])]

\* Every call of the program is one transfer, arrival or departure of the
\* abstract library, or nothing: counters, ids, dates and cascades never show.
KeepsPromise == Promise!Spec

-----------------------------------------------------------------------------
(* What the documents and the tests say, and the code does not do.         *)

\* README "대출 기간 연장 (최대 2회)" and the test ExtendLoan: a loan still
\* running and renewed less than twice can be renewed.
RenewalOffered ==
  \A l \in ActiveLoans(db) :
    db.loans[l].due >= today /\ db.loans[l].renewals < MAX_RENEWAL_COUNT
      => RenewalAllowed(db, today, l)

\* README "이메일, 전화번호 중복 검사" and the test AddDuplicatePhone: no
\* two members share a telephone number.
PhoneUnique ==
  \A m, n \in DOMAIN db.members :
    db.members[m].phone = db.members[n].phone => m = n
=============================================================================
