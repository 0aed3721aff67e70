--------------------------- MODULE LibraryProofs ----------------------------
(***************************************************************************)
(* Proofs about Library for every value of its constants: any number of    *)
(* books, members, loans and backup paths, any limit, any dates within the *)
(* calendar.  The inductive invariant is the conjunction of the invariants *)
(* TLC checks: none of them is inductive alone, because a restore brings   *)
(* back whatever a backup holds, a return needs the book of its loan to    *)
(* exist, and the counter of a book is right only if no loan of it was     *)
(* returned twice.                                                         *)
(***************************************************************************)
EXTENDS Library, TablesProofs

Inv ==
  /\ TypeOK
  /\ NoOrphanLoan
  /\ CopiesConserved
  /\ MemberLimit
  /\ NoDuplicateLoan
  /\ NoRenewals
  /\ BackupsSound

\* A database fit to be the live one: Sound, and without renewals.
Good(d) == Sound(d) /\ Unrenewed(d)

\* The invariant, seen as a statement on databases.
LEMMA InvGood ==
  Inv <=> /\ Good(db)
          /\ today \in FirstDay..MaxDay
          /\ DOMAIN backups = BackupPaths
          /\ \A p \in BackupPaths : \A copy \in backups[p] : Good(copy)
BY DEF Inv, Good, Sound, TypeOK, NoOrphanLoan, CopiesConserved, MemberLimit,
       NoDuplicateLoan, NoRenewals, BackupsSound

\* The empty library is good.
LEMMA InitInv == Init => Inv
<1> SUFFICES ASSUME Init PROVE Inv
  OBVIOUS
<1>1. Good(db)
  BY EmptySound DEF Init, Good, Unrenewed, EmptyDatabase, NoRows
<1>2. today \in FirstDay..MaxDay
  BY LibraryAssumption, TablesAssumption DEF Init
<1>3. DOMAIN backups = BackupPaths /\ \A p \in BackupPaths : backups[p] = {}
  BY DEF Init
<1> QED
  BY <1>1, <1>2, <1>3, InvGood

-----------------------------------------------------------------------------
(* The calls that write the database, menu by menu.                        *)

\* No call of book.c spoils the database or the ledger of loans.
LEMMA BookStep ==
  ASSUME Good(db), BookNext
  PROVE  Good(db') /\ LedgerKept(db, db')
<1>1. IsDatabase(db) /\ Sound(db) /\ Unrenewed(db)
  BY DEF Good, Sound
<1>2. ASSUME NEW i \in Isbn, NEW n \in Copies, AddBook(i, n)
      PROVE  Good(db') /\ LedgerKept(db, db')
  <2>1. n \in Nat /\ db.lastBook < MaxBookId /\ db' = InsertBook(db, i, n)
    BY <1>2, LibraryAssumption DEF AddBook
  <2>2. db'.loans = db.loans
    BY <1>1, <2>1, StatementsOffLoans
  <2> QED
    BY <1>1, <2>1, <2>2, InsertBookSound, SameLedger DEF Good
<1>3. ASSUME NEW b \in BookId, NEW i \in Isbn, UpdateBook(b, i)
      PROVE  Good(db') /\ LedgerKept(db, db')
  <2> DEFINE row == EditedRow(db.books[b], i)
  <2>1. b \in DOMAIN db.books /\ db' = WriteBook(db, b, row)
    BY <1>3 DEF UpdateBook
  <2>2. db.books[b] \in BookRow
    BY <1>1, <2>1 DEF IsDatabase, Table
  <2>3. /\ row \in BookRow /\ row.total = db.books[b].total
        /\ row.available = db.books[b].available
    BY <2>2 DEF EditedRow, BookRow
  <2>4. db'.loans = db.loans
    BY <1>1, <2>1, StatementsOffLoans
  <2> HIDE DEF row
  <2> QED
    BY <1>1, <2>1, <2>3, <2>4, WriteBookSound, SameLedger DEF Good
<1>4. ASSUME NEW b \in BookId, DeleteBook(b)
      PROVE  Good(db') /\ LedgerKept(db, db')
  <2>1. LoansOut(db, b) = {} /\ db' = DeleteBookRow(db, b)
    BY <1>4 DEF DeleteBook, BookIsIn
  <2> QED
    BY <1>1, <2>1, DeleteBookSound, DeleteBookLedger DEF Good
<1> QED
  BY <1>2, <1>3, <1>4 DEF BookNext

\* Neither does a call of member.c.
LEMMA MemberStep ==
  ASSUME Good(db), MemberNext
  PROVE  Good(db') /\ LedgerKept(db, db')
<1>1. IsDatabase(db) /\ Sound(db) /\ Unrenewed(db)
  BY DEF Good, Sound
<1>2. ASSUME NEW e \in Email, NEW p \in Phone, AddMember(e, p)
      PROVE  Good(db') /\ LedgerKept(db, db')
  <2>1. db.lastMember < MaxMemberId /\ db' = InsertMember(db, e, p)
    BY <1>2 DEF AddMember
  <2>2. db'.loans = db.loans
    BY <1>1, <2>1, StatementsOffLoans
  <2> QED
    BY <1>1, <2>1, <2>2, InsertMemberSound, SameLedger DEF Good
<1>3. ASSUME NEW m \in MemberId, NEW e \in Email, NEW p \in Phone,
             UpdateMember(m, e, p)
      PROVE  Good(db') /\ LedgerKept(db, db')
  <2> DEFINE row == [db.members[m] EXCEPT !.email = e, !.phone = p]
  <2>1. m \in DOMAIN db.members /\ db' = WriteMember(db, m, row)
    BY <1>3 DEF UpdateMember
  <2>2. db.members[m] \in MemberRow
    BY <1>1, <2>1 DEF IsDatabase, Table
  <2>3. row \in MemberRow
    BY <2>2 DEF MemberRow
  <2>4. db'.loans = db.loans
    BY <1>1, <2>1, StatementsOffLoans
  <2> HIDE DEF row
  <2> QED
    BY <1>1, <2>1, <2>3, <2>4, WriteMemberSound, SameLedger DEF Good
<1>4. ASSUME NEW m \in MemberId, DeleteMember(m)
      PROVE  Good(db') /\ LedgerKept(db, db')
  <2>1. LoansHeld(db, m) = {} /\ db' = DeleteMemberRow(db, m)
    BY <1>4 DEF DeleteMember, MemberOwesNothing
  <2> QED
    BY <1>1, <2>1, DeleteMemberSound, DeleteMemberLedger DEF Good
<1>5. ASSUME NEW m \in MemberId, NEW flag \in BOOLEAN, db' = SetActive(db, m, flag)
      PROVE  Good(db') /\ LedgerKept(db, db')
  <2>1. db'.loans = db.loans
    BY <1>1, <1>5, StatementsOffLoans
  <2> QED
    BY <1>1, <1>5, <2>1, SetActiveSound, SameLedger DEF Good
<1> QED
  BY <1>2, <1>3, <1>4, <1>5 DEF MemberNext, DeactivateMember, ActivateMember

\* The return of an active loan.
LEMMA ReturnStep ==
  ASSUME Good(db), NEW l, ReturnBook(l)
  PROVE  Good(db') /\ LedgerKept(db, db')
<1>1. IsDatabase(db) /\ Sound(db) /\ Unrenewed(db)
  BY DEF Good, Sound
<1>2. l \in ActiveLoans(db) /\ db' = TakenBack(db, l)
  BY DEF ReturnBook, Returnable
<1>3. l \in DOMAIN db.loans /\ db.loans[l].book \in DOMAIN db.books
  BY <1>1, <1>2 DEF Sound, ReferencesHold, ActiveLoans
<1> QED
  BY <1>1, <1>2, <1>3, TakenBackSound, TakenBackLedger DEF Good

\* The calls of loan.c; extend_loan changes nothing, whatever it is asked.
LEMMA LoanStep ==
  ASSUME Good(db), today \in FirstDay..MaxDay, LoanNext
  PROVE  Good(db') /\ LedgerKept(db, db')
<1>1. IsDatabase(db) /\ Sound(db) /\ Unrenewed(db)
  BY DEF Good, Sound
<1>2. today \in Nat \ {0}
  BY LibraryAssumption, TablesAssumption
<1>3. ASSUME NEW b \in BookId, NEW m \in MemberId, NEW n \in LoanDays,
             LoanBook(b, m, n)
      PROVE  Good(db') /\ LedgerKept(db, db')
  <2> DEFINE due == DueDate(today, n)
  <2>1. /\ LoanAvailable(db, today, b, m) /\ db.lastLoan < MaxLoanId
        /\ due <= LastDay /\ db' = LentOut(db, b, m, due)
    BY <1>3 DEF LoanBook, Expressible
  <2>2. n \in Int
    BY LibraryAssumption
  <2>3. due \in Day
    BY <1>2, <2>1, <2>2, TablesAssumption DEF DueDate, Day
  <2>4. b \in DOMAIN db.books /\ db.books[b].available > 0
    BY <2>1 DEF LoanAvailable
  <2> HIDE DEF due
  <2>5. Sound(db')
    BY <1>1, <2>1, <2>3, LentOutSound
  <2>6. LedgerKept(db, db') /\ Unrenewed(db')
    BY <1>1, <2>1, <2>4, LentOutLedger
  <2> QED
    BY <2>5, <2>6 DEF Good
<1>4. ASSUME NEW l \in LoanId, ReturnBook(l)
      PROVE  Good(db') /\ LedgerKept(db, db')
  BY <1>4, ReturnStep
<1>5. ASSUME NEW b \in BookId, NEW m \in MemberId, ReturnBookByIds(b, m)
      PROVE  Good(db') /\ LedgerKept(db, db')
  BY <1>5, ReturnStep DEF ReturnBookByIds
<1>6. ASSUME NEW l \in LoanId, NEW n \in LoanDays, ExtendLoan(l, n)
      PROVE  Good(db') /\ LedgerKept(db, db')
  <2>1. ~ RenewalAllowed(db, today, l)
    BY <1>1, <1>2, <1>6, NoRenewalAllowed DEF ExtendLoan
  <2>2. db' = db
    BY <1>6, <2>1 DEF ExtendLoan
  <2> QED
    BY <1>1, <2>2, SameLedger DEF Good
<1> QED
  BY <1>3, <1>4, <1>5, <1>6 DEF LoanNext

-----------------------------------------------------------------------------
(* The invariant.                                                          *)

\* Every step keeps the invariant.
LEMMA StepInv == Inv /\ [Next]_vars => Inv'
<1> SUFFICES ASSUME Inv, [Next]_vars PROVE Inv'
  OBVIOUS
<1>1. /\ Good(db) /\ today \in FirstDay..MaxDay /\ DOMAIN backups = BackupPaths
      /\ \A p \in BackupPaths : \A copy \in backups[p] : Good(copy)
  BY InvGood
<1> SUFFICES /\ Good(db') /\ today' \in FirstDay..MaxDay
             /\ DOMAIN backups' = BackupPaths
             /\ \A p \in BackupPaths : \A copy \in backups'[p] : Good(copy)
  <2>1. (Good(db))' <=> Good(db')
    BY DEF Good, Sound, IsDatabase, ReferencesHold, CopiesAddUp, LimitKept,
           LentOnce, Unrenewed, LoansOut, LoansHeld, ActiveLoans
  <2> QED
    BY DEF Inv, Good, Sound, TypeOK, NoOrphanLoan, CopiesConserved, MemberLimit,
           NoDuplicateLoan, NoRenewals, BackupsSound
<1>2. CASE BookNext \/ MemberNext \/ LoanNext
  <2>1. Good(db')
    BY <1>1, <1>2, BookStep, MemberStep, LoanStep
  <2>2. UNCHANGED <<today, backups>>
    BY <1>2 DEF BookNext, MemberNext, LoanNext, AddBook, UpdateBook, DeleteBook,
       AddMember, UpdateMember, DeleteMember, DeactivateMember, ActivateMember,
       LoanBook, ReturnBook, ReturnBookByIds, ExtendLoan
  <2> QED
    BY <1>1, <2>1, <2>2
<1>3. ASSUME NEW p \in BackupPaths, Backup(p)
      PROVE  /\ UNCHANGED <<db, today>> /\ DOMAIN backups' = BackupPaths
             /\ \A q \in BackupPaths : \A copy \in backups'[q] : Good(copy)
  BY <1>1, <1>3 DEF Backup, Copied
<1>4. ASSUME NEW p \in BackupPaths, Restore(p)
      PROVE  Good(db') /\ UNCHANGED <<today, backups>>
  BY <1>1, <1>4 DEF Restore, Restored
<1>5. CASE Tick
  BY <1>1, <1>5, LibraryAssumption, TablesAssumption DEF Tick
<1>6. CASE UNCHANGED vars
  BY <1>1, <1>6 DEF vars
<1> QED
  BY <1>1, <1>2, <1>3, <1>4, <1>5, <1>6 DEF Next, SystemNext

\* Inv holds in every state of every behaviour.
THEOREM Invariance == Spec => []Inv
BY InitInv, StepInv, PTL DEF Spec

\* The tables stay well-formed and their ids below the counters, in the live
\* database and in every backup (the types database_create_tables declares).
THEOREM Typing == Spec => []TypeOK
<1>1. Inv => TypeOK
  BY DEF Inv
<1> QED
  BY <1>1, Invariance, PTL

\* No loan refers to a book or a member that delete_book or delete_member took.
THEOREM References == Spec => []NoOrphanLoan
<1>1. Inv => NoOrphanLoan
  BY DEF Inv
<1> QED
  BY <1>1, Invariance, PTL

\* available_copies is always the copies owned minus the loans still out.
THEOREM Conservation == Spec => []CopiesConserved
<1>1. Inv => CopiesConserved
  BY DEF Inv
<1> QED
  BY <1>1, Invariance, PTL

\* Nobody ever holds more than MAX_BOOKS_PER_MEMBER books.
THEOREM Limit == Spec => []MemberLimit
<1>1. Inv => MemberLimit
  BY DEF Inv
<1> QED
  BY <1>1, Invariance, PTL

\* Nobody ever holds two copies of one book.
THEOREM NoDuplicates == Spec => []NoDuplicateLoan
<1>1. Inv => NoDuplicateLoan
  BY DEF Inv
<1> QED
  BY <1>1, Invariance, PTL

\* extend_loan never renews a loan, whatever the dates and the limits.
THEOREM NeverRenewed == Spec => []NoRenewals
<1>1. Inv => NoRenewals
  BY DEF Inv
<1> QED
  BY <1>1, Invariance, PTL

\* A restore, whenever it comes, finds a sound library in the backup.
THEOREM SoundBackups == Spec => []BackupsSound
<1>1. Inv => BackupsSound
  BY DEF Inv
<1> QED
  BY <1>1, Invariance, PTL

-----------------------------------------------------------------------------
(* What no step does to the ledger.                                        *)

\* A step keeps the ledger, or puts a backup in its place.
LEMMA LedgerStep ==
  Inv /\ [Next]_vars =>
    [LedgerKept(db, db') \/ \E p \in BackupPaths : db' \in backups[p]]_vars
<1> DEFINE Step == \/ LedgerKept(db, db')
                   \/ \E p \in BackupPaths : db' \in backups[p]
<1> SUFFICES ASSUME Inv, Next PROVE Step
  BY DEF vars
<1>1. Good(db) /\ today \in FirstDay..MaxDay
  BY InvGood
<1>2. CASE BookNext \/ MemberNext \/ LoanNext
  BY <1>1, <1>2, BookStep, MemberStep, LoanStep
<1>3. ASSUME NEW p \in BackupPaths, Restore(p) PROVE Step
  BY <1>3 DEF Restore, Restored
<1>4. CASE db' = db
  BY <1>4, SameLedger
<1> QED
  BY <1>2, <1>3, <1>4 DEF Next, SystemNext, Backup, Tick

\* Restores apart, active loans are never lost, parties never rewritten,
\* returns never taken back and loan ids never reused.
THEOREM Ledger == Spec => LedgerOnlyGrows
BY LedgerStep, Invariance, PTL DEF Spec, LedgerOnlyGrows

-----------------------------------------------------------------------------
(* Library implements Lending: first what each statement does to the three *)
(* things the promise sees of a database (shelf, patrons, who holds what), *)
(* then the simulation, step by step.                                      *)

\* d and e look the same from outside.
LooksLike(d, e) ==
  /\ ShelfOf(e) = ShelfOf(d)
  /\ PatronsOf(e) = PatronsOf(d)
  /\ HeldIn(e) = HeldIn(d)

\* The same active loans with the same rows: the same copies held.
LEMMA SameHeld ==
  ASSUME NEW d, NEW e, ActiveLoans(e) = ActiveLoans(d),
         \A l \in ActiveLoans(d) : e.loans[l] = d.loans[l]
  PROVE  HeldIn(e) = HeldIn(d)
BY DEF HeldIn

\* The same books with the same counters: the same shelf.
LEMMA SameShelf ==
  ASSUME NEW d, NEW e, DOMAIN e.books = DOMAIN d.books,
         \A b \in DOMAIN d.books : e.books[b].available = d.books[b].available
  PROVE  ShelfOf(e) = ShelfOf(d)
BY DEF ShelfOf

-----------------------------------------------------------------------------
(* Statements on books and on members, seen from outside.                  *)

\* INSERT INTO books: a new title, all of its copies on the shelf.
LEMMA InsertBookSeen ==
  ASSUME NEW d, Sound(d), NEW i, NEW n, d.lastBook < MaxBookId
  PROVE  LET e == InsertBook(d, i, n)
             b == d.lastBook + 1
         IN  /\ b \in BookId /\ b \notin DOMAIN ShelfOf(d)
             /\ DOMAIN ShelfOf(e) = DOMAIN ShelfOf(d) \cup {b}
             /\ ShelfOf(e)[b] = n
             /\ \A u \in DOMAIN ShelfOf(d) : ShelfOf(e)[u] = ShelfOf(d)[u]
             /\ PatronsOf(e) = PatronsOf(d)
             /\ HeldIn(e) = HeldIn(d)
<1> DEFINE e == InsertBook(d, i, n)
           b == d.lastBook + 1
           row == [isbn |-> i, total |-> n, available |-> n]
<1>1. /\ e.books = Put(d.books, b, row)
      /\ e.members = d.members /\ e.loans = d.loans
  BY DEF InsertBook, Sound, IsDatabase
<1>2. b \in BookId /\ b \notin DOMAIN d.books
  BY TablesAssumption DEF Sound, IsDatabase, Table, BookId
<1>3. row.available = n
  OBVIOUS
<1>4. HeldIn(e) = HeldIn(d)
  BY <1>1 DEF HeldIn, ActiveLoans
<1> HIDE DEF e, b, row
<1>5. /\ b \in BookId /\ b \notin DOMAIN ShelfOf(d)
      /\ DOMAIN ShelfOf(e) = DOMAIN ShelfOf(d) \cup {b}
      /\ ShelfOf(e)[b] = n
      /\ \A u \in DOMAIN ShelfOf(d) : ShelfOf(e)[u] = ShelfOf(d)[u]
      /\ PatronsOf(e) = PatronsOf(d)
      /\ HeldIn(e) = HeldIn(d)
  BY <1>1, <1>2, <1>3, <1>4 DEF ShelfOf, PatronsOf, Put
<1> QED
  BY <1>5 DEF e, b

\* UPDATE books of the menu, which keeps available_copies, does not show.
LEMMA WriteBookSeen ==
  ASSUME NEW d, Sound(d), NEW b \in DOMAIN d.books, NEW row,
         row.available = d.books[b].available
  PROVE  LooksLike(d, WriteBook(d, b, row))
<1> DEFINE e == WriteBook(d, b, row)
<1>1. /\ e.books = Put(d.books, b, row)
      /\ e.members = d.members /\ e.loans = d.loans
  BY DEF WriteBook, Sound, IsDatabase
<1> HIDE DEF e
<1>2. HeldIn(e) = HeldIn(d) /\ PatronsOf(e) = PatronsOf(d)
  BY <1>1 DEF HeldIn, ActiveLoans, PatronsOf
<1>3. ShelfOf(e) = ShelfOf(d)
  BY <1>1, SameShelf DEF Put
<1> QED
  BY <1>2, <1>3 DEF LooksLike, e

\* DELETE FROM books: a title nobody holds goes; the cascade does not show.
LEMMA DeleteBookSeen ==
  ASSUME NEW d, Sound(d), NEW b \in DOMAIN d.books, LoansOut(d, b) = {}
  PROVE  LET e == DeleteBookRow(d, b)
         IN  /\ b \in DOMAIN ShelfOf(d)
             /\ \A h \in HeldIn(d) : h[2] # b
             /\ ShelfOf(e) = [u \in DOMAIN ShelfOf(d) \ {b} |-> ShelfOf(d)[u]]
             /\ PatronsOf(e) = PatronsOf(d)
             /\ HeldIn(e) = HeldIn(d)
<1> DEFINE e == DeleteBookRow(d, b)
           S == {l \in DOMAIN d.loans : d.loans[l].book # b}
<1>1. /\ e.books = Restrict(d.books, DOMAIN d.books \ {b})
      /\ e.members = d.members /\ e.loans = Restrict(d.loans, S)
  BY DEF DeleteBookRow, Sound, IsDatabase
<1>2. ActiveLoans(d) \subseteq S /\ S \subseteq DOMAIN d.loans
  BY DEF LoansOut, ActiveLoans
<1>3. \A h \in HeldIn(d) : h[2] # b
  BY DEF HeldIn, LoansOut
<1> HIDE DEF e, S
<1>4. ActiveLoans(e) = ActiveLoans(d)
  BY <1>1, <1>2, ActiveLoansKept
<1>5. HeldIn(e) = HeldIn(d)
  BY <1>1, <1>2, <1>4, SameHeld DEF Restrict
<1>6. /\ b \in DOMAIN ShelfOf(d)
      /\ ShelfOf(e) = [u \in DOMAIN ShelfOf(d) \ {b} |-> ShelfOf(d)[u]]
      /\ PatronsOf(e) = PatronsOf(d)
  BY <1>1 DEF ShelfOf, PatronsOf, Restrict
<1> QED
  BY <1>3, <1>5, <1>6 DEF e

\* INSERT INTO members: a new patron.
LEMMA InsertMemberSeen ==
  ASSUME NEW d, Sound(d), NEW a, NEW p, d.lastMember < MaxMemberId
  PROVE  LET e == InsertMember(d, a, p)
             m == d.lastMember + 1
         IN  /\ m \in MemberId /\ m \notin PatronsOf(d)
             /\ PatronsOf(e) = PatronsOf(d) \cup {m}
             /\ ShelfOf(e) = ShelfOf(d)
             /\ HeldIn(e) = HeldIn(d)
<1> DEFINE e == InsertMember(d, a, p)
           m == d.lastMember + 1
<1>1. /\ DOMAIN e.members = DOMAIN d.members \cup {m}
      /\ e.books = d.books /\ e.loans = d.loans
  BY DEF InsertMember, Sound, IsDatabase, Put
<1>2. m \in MemberId /\ m \notin DOMAIN d.members
  BY TablesAssumption DEF Sound, IsDatabase, Table, MemberId
<1> HIDE DEF e, m
<1>3. /\ m \in MemberId /\ m \notin PatronsOf(d)
      /\ PatronsOf(e) = PatronsOf(d) \cup {m}
      /\ ShelfOf(e) = ShelfOf(d) /\ HeldIn(e) = HeldIn(d)
  BY <1>1, <1>2 DEF ShelfOf, PatronsOf, HeldIn, ActiveLoans
<1> QED
  BY <1>3 DEF e, m

\* The UPDATEs of members, of a row or of is_active, do not show.
LEMMA MemberRowSeen ==
  ASSUME NEW d, Sound(d), NEW m, NEW row, NEW flag
  PROVE  /\ LooksLike(d, WriteMember(d, m, row))
         /\ LooksLike(d, SetActive(d, m, flag))
<1>1. ASSUME NEW e, e.books = d.books, e.loans = d.loans,
             DOMAIN e.members = DOMAIN d.members
      PROVE  LooksLike(d, e)
  BY <1>1 DEF LooksLike, ShelfOf, PatronsOf, HeldIn, ActiveLoans
<1>2. LET e == WriteMember(d, m, row)
      IN  /\ e.books = d.books /\ e.loans = d.loans
          /\ DOMAIN e.members = DOMAIN d.members
  BY DEF WriteMember, Put, Sound, IsDatabase
<1>3. LET e == SetActive(d, m, flag)
      IN  /\ e.books = d.books /\ e.loans = d.loans
          /\ DOMAIN e.members = DOMAIN d.members
  BY DEF SetActive, Sound, IsDatabase
<1> QED
  BY <1>1, <1>2, <1>3

\* DELETE FROM members: a patron who holds nothing goes.
LEMMA DeleteMemberSeen ==
  ASSUME NEW d, Sound(d), NEW m, LoansHeld(d, m) = {}
  PROVE  LET e == DeleteMemberRow(d, m)
         IN  /\ \A h \in HeldIn(d) : h[1] # m
             /\ PatronsOf(e) = PatronsOf(d) \ {m}
             /\ ShelfOf(e) = ShelfOf(d)
             /\ HeldIn(e) = HeldIn(d)
<1> DEFINE e == DeleteMemberRow(d, m)
           S == {l \in DOMAIN d.loans : d.loans[l].member # m}
<1>1. /\ e.members = Restrict(d.members, DOMAIN d.members \ {m})
      /\ e.books = d.books /\ e.loans = Restrict(d.loans, S)
  BY DEF DeleteMemberRow, Sound, IsDatabase
<1>2. ActiveLoans(d) \subseteq S /\ S \subseteq DOMAIN d.loans
  BY DEF LoansHeld, ActiveLoans
<1>3. \A h \in HeldIn(d) : h[1] # m
  BY DEF HeldIn, LoansHeld
<1> HIDE DEF e, S
<1>4. ActiveLoans(e) = ActiveLoans(d)
  BY <1>1, <1>2, ActiveLoansKept
<1>5. HeldIn(e) = HeldIn(d)
  BY <1>1, <1>2, <1>4, SameHeld DEF Restrict
<1>6. PatronsOf(e) = PatronsOf(d) \ {m} /\ ShelfOf(e) = ShelfOf(d)
  BY <1>1 DEF ShelfOf, PatronsOf, Restrict
<1> QED
  BY <1>3, <1>5, <1>6 DEF e
-----------------------------------------------------------------------------
(* The transactions on loans, seen from outside.                           *)

\* A member holds no more titles than there are loans to that member.
LEMMA TitlesHeld ==
  ASSUME NEW d, IsDatabase(d), NEW m
  PROVE  LET T == {h \in HeldIn(d) : h[1] = m}
         IN  /\ Cardinality(T) \in Nat
             /\ Cardinality(T) <= Cardinality(LoansHeld(d, m))
<1> DEFINE S == LoansHeld(d, m)
           T == {h \in HeldIn(d) : h[1] = m}
           f == [l \in S |-> <<d.loans[l].member, d.loans[l].book>>]
<1>1. \A l \in S : f[l] \in T
  BY DEF HeldIn, LoansHeld
<1>2. \A h \in T : \E l \in S : f[l] = h
  <2> SUFFICES ASSUME NEW h \in T PROVE \E l \in S : f[l] = h
    OBVIOUS
  <2>1. PICK l \in ActiveLoans(d) : h = <<d.loans[l].member, d.loans[l].book>>
    BY DEF HeldIn
  <2>2. l \in S
    BY <2>1 DEF LoansHeld
  <2> QED
    BY <2>1, <2>2
<1>3. f \in Surjection(S, T)
  <2>1. f \in [S -> T]
    BY <1>1
  <2> HIDE DEF f, S, T
  <2> QED
    BY <1>2, <2>1 DEF Surjection
<1>4. IsFiniteSet(S)
  BY LoansFinite
<1> HIDE DEF f, S, T
<1>5. IsFiniteSet(T) /\ Cardinality(T) <= Cardinality(S)
  BY <1>3, <1>4, FS_Surjection
<1>6. Cardinality(T) \in Nat
  BY <1>5, FS_CardinalityType
<1> QED
  BY <1>5, <1>6 DEF S, T

\* From d to e a copy of b left the shelf for member m, who was entitled to it.
Borrowed(d, e, m, b) ==
  /\ m \in PatronsOf(d) /\ b \in DOMAIN ShelfOf(d)
  /\ <<m, b>> \notin HeldIn(d)
  /\ Cardinality({h \in HeldIn(d) : h[1] = m}) < MAX_BOOKS_PER_MEMBER
  /\ ShelfOf(d)[b] > 0
  /\ ShelfOf(e) = [ShelfOf(d) EXCEPT ![b] = @ - 1]
  /\ HeldIn(e) = HeldIn(d) \cup {<<m, b>>}
  /\ PatronsOf(e) = PatronsOf(d)

\* loan_book's transaction after its checks is a loan of the promise.
LEMMA LentOutSeen ==
  ASSUME NEW d, Sound(d), NEW day, NEW b \in BookId, NEW m \in MemberId,
         NEW due, LoanAvailable(d, day, b, m)
  PROVE  Borrowed(d, LentOut(d, b, m, due), m, b)
<1> DEFINE e == LentOut(d, b, m, due)
           k == d.lastLoan + 1
           row == [book |-> b, member |-> m, due |-> due,
                   returned |-> FALSE, renewals |-> 0]
<1>1. /\ b \in DOMAIN d.books /\ d.books[b].available > 0
      /\ m \in DOMAIN d.members
      /\ Cardinality(LoansHeld(d, m)) < MAX_BOOKS_PER_MEMBER
      /\ LoansOf(d, b, m) = {}
  BY DEF LoanAvailable, MemberEligible, UnderLimit, NotDuplicate
<1>2. IsDatabase(d)
  BY DEF Sound
<1>3. /\ DOMAIN e = DOMAIN d
      /\ e.loans = Put(d.loans, k, row)
      /\ e.lastLoan = k
      /\ e.books = [d.books EXCEPT ![b].available = @ - 1]
      /\ e.lastBook = d.lastBook /\ e.members = d.members
      /\ e.lastMember = d.lastMember
  BY <1>1, <1>2, LentOutFields
<1>4. k \notin DOMAIN d.loans
  BY <1>2, TablesAssumption DEF IsDatabase, Table
<1>5. row.book = b /\ row.member = m /\ ~ row.returned
  OBVIOUS
<1> HIDE DEF e, k, row
<1>6. <<m, b>> \notin HeldIn(d)
  BY <1>1 DEF HeldIn, LoansOf, LoansOut, LoansHeld
<1>7. Cardinality({h \in HeldIn(d) : h[1] = m}) < MAX_BOOKS_PER_MEMBER
  <2>1. Cardinality(LoansHeld(d, m)) \in Nat
    BY <1>2, LoansFinite
  <2> DEFINE c == Cardinality({h \in HeldIn(d) : h[1] = m})
  <2>2. c \in Nat /\ c <= Cardinality(LoansHeld(d, m))
    BY <1>2, TitlesHeld
  <2> HIDE DEF c
  <2>3. c < MAX_BOOKS_PER_MEMBER
    BY <1>1, <2>1, <2>2, TablesAssumption
  <2> QED
    BY <2>3 DEF c
<1>8. /\ DOMAIN e.loans = DOMAIN d.loans \cup {k} /\ e.loans[k] = row
      /\ \A l \in DOMAIN d.loans : e.loans[l] = d.loans[l]
  BY <1>3, <1>4 DEF Put
<1>9. ActiveLoans(e) = ActiveLoans(d) \cup {k}
  BY <1>5, <1>8 DEF ActiveLoans
<1>10. HeldIn(e) = HeldIn(d) \cup {<<m, b>>}
  <2>1. \A l \in ActiveLoans(d) : e.loans[l] = d.loans[l]
    BY <1>8 DEF ActiveLoans
  <2>2. e.loans[k].book = b /\ e.loans[k].member = m
    BY <1>5, <1>8
  <2> QED
    BY <1>9, <2>1, <2>2 DEF HeldIn
<1>11. /\ b \in DOMAIN ShelfOf(d) /\ ShelfOf(d)[b] > 0
       /\ ShelfOf(e) = [ShelfOf(d) EXCEPT ![b] = @ - 1]
  <2>1. \A x \in DOMAIN d.books : d.books[x] \in BookRow
    BY <1>2 DEF IsDatabase, Table
  <2>2. /\ DOMAIN e.books = DOMAIN d.books
        /\ \A x \in DOMAIN d.books : e.books[x].available =
             IF x = b THEN d.books[x].available - 1 ELSE d.books[x].available
    BY <1>1, <1>3, <2>1 DEF BookRow
  <2> QED
    BY <1>1, <2>2 DEF ShelfOf
<1>12. m \in PatronsOf(d) /\ PatronsOf(e) = PatronsOf(d)
  BY <1>1, <1>3 DEF PatronsOf
<1> QED
  BY <1>6, <1>7, <1>10, <1>11, <1>12 DEF e, Borrowed

\* return_book's transaction on an active loan is a return of the promise.
LEMMA TakenBackSeen ==
  ASSUME NEW d, Sound(d), NEW l \in ActiveLoans(d)
  PROVE  LET e == TakenBack(d, l)
             b == d.loans[l].book
             m == d.loans[l].member
         IN  /\ b \in BookId /\ m \in MemberId
             /\ <<m, b>> \in HeldIn(d)
             /\ ShelfOf(e) = [ShelfOf(d) EXCEPT ![b] = @ + 1]
             /\ HeldIn(e) = HeldIn(d) \ {<<m, b>>}
             /\ PatronsOf(e) = PatronsOf(d)
<1> DEFINE e == TakenBack(d, l)
           b == d.loans[l].book
           m == d.loans[l].member
<1>1. l \in DOMAIN d.loans /\ ~ d.loans[l].returned /\ b \in DOMAIN d.books
  BY DEF Sound, ReferencesHold, ActiveLoans
<1>2. IsDatabase(d)
  BY DEF Sound
<1>3. /\ DOMAIN e = DOMAIN d
      /\ e.loans = [d.loans EXCEPT ![l].returned = TRUE]
      /\ e.lastLoan = d.lastLoan
      /\ e.books = [d.books EXCEPT ![b].available = @ + 1]
      /\ e.lastBook = d.lastBook /\ e.members = d.members
      /\ e.lastMember = d.lastMember
  BY <1>1, <1>2, TakenBackFields
<1> HIDE DEF e
<1>4. /\ \A x \in DOMAIN d.loans : d.loans[x] \in LoanRow
      /\ \A x \in DOMAIN d.books : d.books[x] \in BookRow
  BY <1>2 DEF IsDatabase, Table
<1>5. b \in BookId /\ m \in MemberId
  BY <1>1, <1>4 DEF LoanRow
<1>6. <<m, b>> \in HeldIn(d)
  BY DEF HeldIn
<1>7. /\ DOMAIN e.loans = DOMAIN d.loans /\ e.loans[l].returned
      /\ \A x \in DOMAIN d.loans \ {l} : e.loans[x] = d.loans[x]
  BY <1>1, <1>3, <1>4 DEF LoanRow
<1>8. ActiveLoans(e) = ActiveLoans(d) \ {l}
  BY <1>7 DEF ActiveLoans
<1>9. \A k \in ActiveLoans(d) :
        <<d.loans[k].member, d.loans[k].book>> = <<m, b>> => k = l
  BY DEF Sound, LentOnce
<1>10. HeldIn(e) = HeldIn(d) \ {<<m, b>>}
  <2>1. \A k \in ActiveLoans(d) \ {l} : e.loans[k] = d.loans[k]
    BY <1>7 DEF ActiveLoans
  <2>2. HeldIn(e) = {<<d.loans[k].member, d.loans[k].book>> : k \in ActiveLoans(d) \ {l}}
    BY <1>8, <2>1 DEF HeldIn
  <2> QED
    BY <1>9, <2>2 DEF HeldIn
<1>11. ShelfOf(e) = [ShelfOf(d) EXCEPT ![b] = @ + 1]
  <2> HIDE DEF b
  <2>1. /\ DOMAIN e.books = DOMAIN d.books
        /\ \A x \in DOMAIN d.books : e.books[x].available =
             IF x = b THEN d.books[x].available + 1 ELSE d.books[x].available
    BY <1>1, <1>3, <1>4 DEF BookRow
  <2> QED
    BY <1>1, <2>1 DEF ShelfOf
<1>12. PatronsOf(e) = PatronsOf(d)
  BY <1>3 DEF PatronsOf
<1> QED
  BY <1>5, <1>6, <1>10, <1>11, <1>12 DEF e
-----------------------------------------------------------------------------
(* The simulation.                                                         *)

\* The library opens as the promise does: nothing owned, nobody, nothing kept.
LEMMA PromiseInit == Init => Promise!Init
<1> SUFFICES ASSUME Init PROVE Promise!Init
  OBVIOUS
<1>1. db = EmptyDatabase /\ backups = [p \in BackupPaths |-> {}]
  BY DEF Init
<1>2. db.books = NoRows /\ db.members = NoRows /\ db.loans = NoRows
  BY <1>1 DEF EmptyDatabase
<1>3. DOMAIN NoRows = {}
  BY DEF NoRows
<1>4. ShelfOf(db) = [t \in {} |-> 0]
  BY <1>2, <1>3 DEF ShelfOf
<1>5. PatronsOf(db) = {} /\ HeldIn(db) = {}
  BY <1>2, <1>3 DEF PatronsOf, HeldIn, ActiveLoans
<1>6. [p \in BackupPaths |-> KeptIn(backups[p])] = [a \in BackupPaths |-> {}]
  BY <1>1 DEF KeptIn
<1> QED
  BY <1>4, <1>5, <1>6 DEF Promise!Init

\* Every call is a step of the promise, or does not show.
LEMMA PromiseStep == Inv /\ [Next]_vars => [Promise!Next]_(Promise!vars)
<1> SUFFICES ASSUME Inv, [Next]_vars PROVE [Promise!Next]_(Promise!vars)
  OBVIOUS
<1> DEFINE keptNow == [p \in BackupPaths |-> KeptIn(backups[p])]
<1>1. /\ Good(db) /\ Sound(db) /\ IsDatabase(db) /\ today \in FirstDay..MaxDay
      /\ DOMAIN backups = BackupPaths
  BY InvGood DEF Good, Sound
<1>2. /\ ShelfOf(db)' = ShelfOf(db') /\ PatronsOf(db)' = PatronsOf(db')
      /\ HeldIn(db)' = HeldIn(db')
  BY DEF ShelfOf, PatronsOf, HeldIn, ActiveLoans
<1>3. ASSUME UNCHANGED backups PROVE keptNow' = keptNow
  BY <1>3 DEF KeptIn, ShelfOf, PatronsOf, HeldIn, ActiveLoans
<1>4. ASSUME LooksLike(db, db'), UNCHANGED backups
      PROVE  UNCHANGED Promise!vars
  BY <1>2, <1>3, <1>4 DEF LooksLike, Promise!vars
<1>5. LooksLike(db, db)
  BY DEF LooksLike
<1>6. ASSUME NEW i \in Isbn, NEW n \in Copies, AddBook(i, n) PROVE Promise!Next
  <2> DEFINE b == db.lastBook + 1
  <2>1. db.lastBook < MaxBookId /\ db' = InsertBook(db, i, n) /\ UNCHANGED backups
    BY <1>6 DEF AddBook
  <2>2. n \in Nat \ {0}
    BY LibraryAssumption
  <2>3. /\ b \in BookId /\ b \notin DOMAIN ShelfOf(db)
        /\ DOMAIN ShelfOf(db') = DOMAIN ShelfOf(db) \cup {b}
        /\ ShelfOf(db')[b] = n
        /\ \A u \in DOMAIN ShelfOf(db) : ShelfOf(db')[u] = ShelfOf(db)[u]
        /\ PatronsOf(db') = PatronsOf(db)
        /\ HeldIn(db') = HeldIn(db)
    <3> DEFINE e == InsertBook(db, i, n)
    <3>1. /\ b \in BookId /\ b \notin DOMAIN ShelfOf(db)
          /\ DOMAIN ShelfOf(e) = DOMAIN ShelfOf(db) \cup {b}
          /\ ShelfOf(e)[b] = n
          /\ \A u \in DOMAIN ShelfOf(db) : ShelfOf(e)[u] = ShelfOf(db)[u]
          /\ PatronsOf(e) = PatronsOf(db)
          /\ HeldIn(e) = HeldIn(db)
      BY <1>1, <2>1, InsertBookSeen
    <3> HIDE DEF e
    <3>2. db' = e
      BY <2>1 DEF e
    <3> QED
      BY <3>1, <3>2
  <2> HIDE DEF b
  <2>4. Promise!Acquire(b)
    BY <1>2, <1>3, <2>1, <2>2, <2>3 DEF Promise!Acquire
  <2> QED
    BY <2>3, <2>4 DEF Promise!Next
<1>7. ASSUME NEW b \in BookId, NEW i \in Isbn, UpdateBook(b, i)
      PROVE  UNCHANGED Promise!vars
  <2> DEFINE row == EditedRow(db.books[b], i)
  <2>1. /\ b \in DOMAIN db.books /\ db' = WriteBook(db, b, row)
        /\ UNCHANGED backups
    BY <1>7 DEF UpdateBook
  <2>2. db.books[b] \in BookRow
    BY <1>1, <2>1 DEF IsDatabase, Table
  <2>3. row.available = db.books[b].available
    BY <2>2 DEF EditedRow, BookRow
  <2> HIDE DEF row
  <2> QED
    BY <1>1, <1>4, <2>1, <2>3, WriteBookSeen
<1>8. ASSUME NEW b \in BookId, DeleteBook(b) PROVE Promise!Next
  <2>1. /\ b \in DOMAIN db.books /\ LoansOut(db, b) = {}
        /\ db' = DeleteBookRow(db, b) /\ UNCHANGED backups
    BY <1>8 DEF DeleteBook, BookIsIn
  <2>2. /\ b \in DOMAIN ShelfOf(db)
        /\ \A h \in HeldIn(db) : h[2] # b
        /\ ShelfOf(db') = [u \in DOMAIN ShelfOf(db) \ {b} |-> ShelfOf(db)[u]]
        /\ PatronsOf(db') = PatronsOf(db)
        /\ HeldIn(db') = HeldIn(db)
    BY <1>1, <2>1, DeleteBookSeen
  <2>3. Promise!Discard(b)
    BY <1>2, <1>3, <2>1, <2>2 DEF Promise!Discard, Promise!HoldersOf
  <2> QED
    BY <2>3 DEF Promise!Next
<1>9. ASSUME NEW e \in Email, NEW p \in Phone, AddMember(e, p) PROVE Promise!Next
  <2> DEFINE m == db.lastMember + 1
  <2>1. /\ db.lastMember < MaxMemberId /\ db' = InsertMember(db, e, p)
        /\ UNCHANGED backups
    BY <1>9 DEF AddMember
  <2>2. /\ m \in MemberId /\ m \notin PatronsOf(db)
        /\ PatronsOf(db') = PatronsOf(db) \cup {m}
        /\ ShelfOf(db') = ShelfOf(db) /\ HeldIn(db') = HeldIn(db)
    BY <1>1, <2>1, InsertMemberSeen
  <2> HIDE DEF m
  <2>3. Promise!Join(m)
    BY <1>2, <1>3, <2>1, <2>2 DEF Promise!Join
  <2> QED
    BY <2>2, <2>3 DEF Promise!Next
<1>10. ASSUME NEW m \in MemberId, NEW e \in Email, NEW p \in Phone,
              UpdateMember(m, e, p)
       PROVE  UNCHANGED Promise!vars
  BY <1>1, <1>4, <1>10, MemberRowSeen DEF UpdateMember
<1>11. ASSUME NEW m \in MemberId, DeleteMember(m) PROVE Promise!Next
  <2>1. /\ m \in PatronsOf(db) /\ LoansHeld(db, m) = {}
        /\ db' = DeleteMemberRow(db, m) /\ UNCHANGED backups
    BY <1>11 DEF DeleteMember, MemberOwesNothing, PatronsOf
  <2>2. /\ \A h \in HeldIn(db) : h[1] # m
        /\ PatronsOf(db') = PatronsOf(db) \ {m}
        /\ ShelfOf(db') = ShelfOf(db) /\ HeldIn(db') = HeldIn(db)
    BY <1>1, <2>1, DeleteMemberSeen
  <2>3. Promise!Leave(m)
    BY <1>2, <1>3, <2>1, <2>2 DEF Promise!Leave, Promise!HeldBy
  <2> QED
    BY <2>3 DEF Promise!Next
<1>12. ASSUME NEW m \in MemberId, DeactivateMember(m) \/ ActivateMember(m)
       PROVE  UNCHANGED Promise!vars
  BY <1>1, <1>4, <1>12, MemberRowSeen DEF DeactivateMember, ActivateMember
<1>13. ASSUME NEW b \in BookId, NEW m \in MemberId, NEW n \in LoanDays,
              LoanBook(b, m, n)
       PROVE  Promise!Next
  <2> DEFINE due == DueDate(today, n)
  <2>1. /\ LoanAvailable(db, today, b, m) /\ db' = LentOut(db, b, m, due)
        /\ UNCHANGED backups
    BY <1>13 DEF LoanBook
  <2> HIDE DEF due
  <2>2. Borrowed(db, db', m, b)
    BY <1>1, <2>1, LentOutSeen
  <2>3. Cardinality(Promise!HeldBy(m)) < MAX_BOOKS_PER_MEMBER
    BY <2>2 DEF Promise!HeldBy, Borrowed
  <2>4. Promise!Cardinality(Promise!HeldBy(m)) = Cardinality(Promise!HeldBy(m))
    BY DEF Promise!Cardinality, Cardinality
  <2>5. Promise!Lend(m, b)
    BY <1>2, <1>3, <2>1, <2>2, <2>3, <2>4 DEF Promise!Lend, Borrowed
  <2> QED
    BY <2>5 DEF Promise!Next
<1>14. ASSUME NEW l, ReturnBook(l) PROVE Promise!Next
  <2> DEFINE b == db.loans[l].book
             m == db.loans[l].member
  <2>1. l \in ActiveLoans(db) /\ db' = TakenBack(db, l) /\ UNCHANGED backups
    BY <1>14 DEF ReturnBook, Returnable
  <2>2. /\ b \in BookId /\ m \in MemberId
        /\ <<m, b>> \in HeldIn(db)
        /\ ShelfOf(db') = [ShelfOf(db) EXCEPT ![b] = @ + 1]
        /\ HeldIn(db') = HeldIn(db) \ {<<m, b>>}
        /\ PatronsOf(db') = PatronsOf(db)
    BY <1>1, <2>1, TakenBackSeen
  <2> HIDE DEF b, m
  <2>3. Promise!GiveBack(m, b)
    BY <1>2, <1>3, <2>1, <2>2 DEF Promise!GiveBack
  <2> QED
    BY <2>2, <2>3 DEF Promise!Next
<1>15. ASSUME NEW l \in LoanId, NEW n \in LoanDays, ExtendLoan(l, n)
       PROVE  UNCHANGED Promise!vars
  <2>1. today \in Nat \ {0}
    BY <1>1, LibraryAssumption, TablesAssumption
  <2>2. ~ RenewalAllowed(db, today, l)
    BY <1>1, <1>15, <2>1, NoRenewalAllowed DEF ExtendLoan
  <2>3. db' = db /\ UNCHANGED backups
    BY <1>15, <2>2 DEF ExtendLoan
  <2> QED
    BY <1>4, <1>5, <2>3
<1>16. ASSUME NEW p \in BackupPaths, Backup(p) PROVE Promise!Next
  <2>1. backups' = [backups EXCEPT ![p] = {db}] /\ db' = db
    BY <1>16 DEF Backup, Copied
  <2>2. KeptIn({db}) = {<<ShelfOf(db), PatronsOf(db), HeldIn(db)>>}
    BY DEF KeptIn
  <2>3. keptNow' = [q \in BackupPaths |-> KeptIn(backups'[q])]
    BY DEF KeptIn, ShelfOf, PatronsOf, HeldIn, ActiveLoans
  <2>4. keptNow' = [keptNow EXCEPT ![p] = {<<ShelfOf(db), PatronsOf(db), HeldIn(db)>>}]
    BY <1>1, <2>1, <2>2, <2>3
  <2>5. Promise!Keep(p)
    BY <1>2, <2>1, <2>4 DEF Promise!Keep, Promise!state
  <2> QED
    BY <2>5 DEF Promise!Next
<1>17. ASSUME NEW p \in BackupPaths, Restore(p) PROVE Promise!Next
  <2>1. db' \in backups[p] /\ UNCHANGED backups
    BY <1>17 DEF Restore, Restored
  <2>2. <<ShelfOf(db'), PatronsOf(db'), HeldIn(db')>> \in keptNow[p]
    BY <2>1 DEF KeptIn
  <2>3. Promise!BringBack(p)
    BY <1>2, <1>3, <2>1, <2>2 DEF Promise!BringBack, Promise!state
  <2> QED
    BY <2>3 DEF Promise!Next
<1>18. ASSUME UNCHANGED <<db, backups>> PROVE UNCHANGED Promise!vars
  BY <1>4, <1>5, <1>18
<1>19. CASE BookNext
  BY <1>6, <1>7, <1>8, <1>19 DEF BookNext
<1>20. CASE MemberNext
  BY <1>9, <1>10, <1>11, <1>12, <1>20 DEF MemberNext
<1>21. CASE LoanNext
  BY <1>13, <1>14, <1>15, <1>21 DEF LoanNext, ReturnBookByIds
<1>22. CASE SystemNext
  BY <1>16, <1>17, <1>18, <1>22 DEF SystemNext, Tick
<1> QED
  BY <1>18, <1>19, <1>20, <1>21, <1>22 DEF Next, vars

\* The program keeps the promise of a lending library: every behaviour of the
\* calls on the three tables is a behaviour of shelf, patrons and held copies.
THEOREM Refinement == Spec => KeepsPromise
BY PromiseInit, PromiseStep, Invariance, PTL DEF Spec, KeepsPromise, Promise!Spec
=============================================================================
