---------------------------- MODULE TablesProofs ----------------------------
(***************************************************************************)
(* What each SQL statement of Tables does to a sound database, for every   *)
(* value of the constants.  The state machines that execute the statements *)
(* cite these lemmas, one per statement, in the proofs of their invariants.*)
(***************************************************************************)
EXTENDS Tables, FiniteSetTheorems, TLAPS

\* A database whose tables agree with one another.  Neither half stands alone:
\* a return counts a copy up only if its book exists, and the counter is right
\* only if every active loan counts for one copy.
Sound(d) ==
  /\ IsDatabase(d)
  /\ ReferencesHold(d)
  /\ CopiesAddUp(d)
  /\ LimitKept(d)
  /\ LentOnce(d)

\* Only finitely many loans are out.
LEMMA ActiveFinite ==
  ASSUME NEW d, IsDatabase(d)
  PROVE  IsFiniteSet(ActiveLoans(d))
<1>1. IsFiniteSet(1..d.lastLoan)
  BY FS_Interval, TablesAssumption DEF IsDatabase
<1>2. ActiveLoans(d) \in SUBSET (1..d.lastLoan)
  BY DEF ActiveLoans, IsDatabase, Table
<1> QED
  BY <1>1, <1>2, FS_Subset

\* Of one book or to one member, a finite number of loans is out.
LEMMA LoansFinite ==
  ASSUME NEW d, IsDatabase(d), NEW x
  PROVE  /\ IsFiniteSet(LoansOut(d, x)) /\ Cardinality(LoansOut(d, x)) \in Nat
         /\ IsFiniteSet(LoansHeld(d, x)) /\ Cardinality(LoansHeld(d, x)) \in Nat
<1>1. LoansOut(d, x) \in SUBSET ActiveLoans(d)
  BY DEF LoansOut
<1>2. LoansHeld(d, x) \in SUBSET ActiveLoans(d)
  BY DEF LoansHeld
<1>3. IsFiniteSet(LoansOut(d, x)) /\ IsFiniteSet(LoansHeld(d, x))
  BY <1>1, <1>2, ActiveFinite, FS_Subset
<1> QED
  BY <1>3, FS_CardinalityType

-----------------------------------------------------------------------------
(* Two databases with the same loans have the same queries on loans.       *)

\* The queries, the limit and the duplicates depend on the loans table only.
LEMMA SameLoans ==
  ASSUME NEW d, NEW e, e.loans = d.loans
  PROVE  /\ ActiveLoans(e) = ActiveLoans(d)
         /\ \A x : LoansOut(e, x) = LoansOut(d, x)
         /\ \A x : LoansHeld(e, x) = LoansHeld(d, x)
         /\ LimitKept(d) => LimitKept(e)
         /\ LentOnce(d) => LentOnce(e)
BY DEF ActiveLoans, LoansOut, LoansHeld, LimitKept, LentOnce

-----------------------------------------------------------------------------
(* Statements on books.                                                    *)

\* INSERT INTO books with available = total: no loan names the new id yet.
LEMMA InsertBookSound ==
  ASSUME NEW d, Sound(d), NEW i \in Isbn, NEW n \in Nat,
         d.lastBook < MaxBookId
  PROVE  Sound(InsertBook(d, i, n))
<1> DEFINE e == InsertBook(d, i, n)
           b == d.lastBook + 1
           row == [isbn |-> i, total |-> n, available |-> n]
<1>1. /\ DOMAIN e = DOMAIN d /\ e.books = Put(d.books, b, row)
      /\ e.lastBook = b /\ e.members = d.members /\ e.loans = d.loans
      /\ e.lastMember = d.lastMember /\ e.lastLoan = d.lastLoan
  BY DEF InsertBook, Sound, IsDatabase
<1>2. d.lastBook \in Nat /\ b \in 1..b /\ b \in Nat /\ b \in 0..MaxBookId
  BY TablesAssumption DEF Sound, IsDatabase
<1>3. row \in BookRow
  BY DEF BookRow
<1>4. Table(d.books, 1..d.lastBook, BookRow)
  BY DEF Sound, IsDatabase
<1>5. /\ Table(e.books, 1..b, BookRow)
      /\ DOMAIN e.books = DOMAIN d.books \cup {b}
      /\ e.books[b] = row
      /\ \A x \in DOMAIN d.books \ {b} : e.books[x] = d.books[x]
  <2>1. 1..d.lastBook \subseteq 1..b
    BY <1>2
  <2> HIDE DEF row, b
  <2> HIDE DEF e
  <2> QED
    BY <1>1, <1>2, <1>3, <1>4, <2>1 DEF Table, Put
<1>6. b \notin DOMAIN d.books
  BY <1>2, <1>4 DEF Table
<1>7. IsDatabase(e)
  BY <1>1, <1>2, <1>5 DEF Sound, IsDatabase
<1>8. ReferencesHold(e)
  BY <1>1, <1>5 DEF Sound, ReferencesHold
<1>9. CopiesAddUp(e)
  <2> SUFFICES ASSUME NEW x \in DOMAIN e.books
               PROVE  e.books[x].available + Cardinality(LoansOut(e, x))
                        = e.books[x].total
    BY DEF CopiesAddUp
  <2>1. LoansOut(e, x) = LoansOut(d, x)
    BY <1>1, SameLoans
  <2>2. CASE x = b
    <3>1. LoansOut(d, b) = {}
      BY <1>6 DEF Sound, ReferencesHold, LoansOut, ActiveLoans
    <3>2. Cardinality(LoansOut(e, x)) = 0
      BY <2>1, <2>2, <3>1, FS_EmptySet
    <3> QED
      BY <1>5, <2>2, <3>2
  <2>3. CASE x # b
    BY <1>5, <2>1, <2>3 DEF Sound, CopiesAddUp
  <2> QED
    BY <2>2, <2>3
<1> QED
  BY <1>1, <1>7, <1>8, <1>9, SameLoans DEF Sound

\* UPDATE books with the counters as they were read.
LEMMA WriteBookSound ==
  ASSUME NEW d, Sound(d), NEW b \in DOMAIN d.books, NEW row \in BookRow,
         row.total = d.books[b].total, row.available = d.books[b].available
  PROVE  Sound(WriteBook(d, b, row))
<1> DEFINE e == WriteBook(d, b, row)
<1>1. /\ DOMAIN e = DOMAIN d /\ e.books = Put(d.books, b, row)
      /\ e.lastBook = d.lastBook /\ e.members = d.members /\ e.loans = d.loans
      /\ e.lastMember = d.lastMember /\ e.lastLoan = d.lastLoan
  BY DEF WriteBook, Sound, IsDatabase
<1>2. Table(d.books, 1..d.lastBook, BookRow) /\ d.lastBook \in Nat
  BY TablesAssumption DEF Sound, IsDatabase
<1>3. b \in 1..d.lastBook
  BY <1>2 DEF Table
<1>4. /\ Table(e.books, 1..d.lastBook, BookRow)
      /\ DOMAIN e.books = DOMAIN d.books
      /\ e.books[b] = row
      /\ \A x \in DOMAIN d.books \ {b} : e.books[x] = d.books[x]
  <2> HIDE DEF e
  <2> QED
    BY <1>1, <1>2, <1>3 DEF Table, Put
<1>5. IsDatabase(e)
  BY <1>1, <1>4 DEF Sound, IsDatabase
<1>6. ReferencesHold(e)
  BY <1>1, <1>4 DEF Sound, ReferencesHold
<1>7. CopiesAddUp(e)
  <2>1. \A x : LoansOut(e, x) = LoansOut(d, x)
    BY <1>1, SameLoans
  <2>2. \A x \in DOMAIN d.books : /\ e.books[x].available = d.books[x].available
                                 /\ e.books[x].total = d.books[x].total
    BY <1>4
  <2> QED
    BY <1>4, <2>1, <2>2 DEF Sound, CopiesAddUp
<1> QED
  BY <1>1, <1>5, <1>6, <1>7, SameLoans DEF Sound

\* Deleting rows of returned loans leaves every query on loans as it was.
LEMMA ActiveLoansKept ==
  ASSUME NEW d, NEW e, NEW S, S \subseteq DOMAIN d.loans,
         e.loans = Restrict(d.loans, S), ActiveLoans(d) \subseteq S
  PROVE  /\ ActiveLoans(e) = ActiveLoans(d)
         /\ \A x : LoansOut(e, x) = LoansOut(d, x)
         /\ \A x : LoansHeld(e, x) = LoansHeld(d, x)
         /\ LimitKept(d) => LimitKept(e)
         /\ LentOnce(d) => LentOnce(e)
<1>1. DOMAIN e.loans = S /\ \A l \in S : e.loans[l] = d.loans[l]
  BY DEF Restrict
<1>2. ActiveLoans(e) = ActiveLoans(d)
  BY <1>1 DEF ActiveLoans
<1>3. \A l \in ActiveLoans(d) : e.loans[l] = d.loans[l]
  BY <1>1
<1>4. \A x : LoansOut(e, x) = LoansOut(d, x) /\ LoansHeld(e, x) = LoansHeld(d, x)
  BY <1>2, <1>3 DEF LoansOut, LoansHeld
<1>5. LimitKept(d) => LimitKept(e)
  BY <1>4 DEF LimitKept
<1>6. LentOnce(d) => LentOnce(e)
  BY <1>2, <1>3 DEF LentOnce
<1> QED
  BY <1>2, <1>4, <1>5, <1>6

\* DELETE FROM books of a book none of whose copies is out.
LEMMA DeleteBookSound ==
  ASSUME NEW d, Sound(d), NEW b, LoansOut(d, b) = {}
  PROVE  Sound(DeleteBookRow(d, b))
<1> DEFINE e == DeleteBookRow(d, b)
           B == DOMAIN d.books \ {b}
           S == {l \in DOMAIN d.loans : d.loans[l].book # b}
<1>1. /\ DOMAIN e = DOMAIN d /\ e.books = Restrict(d.books, B)
      /\ e.lastBook = d.lastBook /\ e.members = d.members
      /\ e.loans = Restrict(d.loans, S)
      /\ e.lastMember = d.lastMember /\ e.lastLoan = d.lastLoan
  BY DEF DeleteBookRow, Sound, IsDatabase
<1>2. ActiveLoans(d) \subseteq S
  BY DEF LoansOut, ActiveLoans
<1>3. S \subseteq DOMAIN d.loans /\ B \subseteq DOMAIN d.books
  OBVIOUS
<1>4. \A l \in S : d.loans[l].book # b
  OBVIOUS
<1> HIDE DEF e, S
<1>5. /\ Table(d.books, 1..d.lastBook, BookRow)
      /\ Table(d.loans, 1..d.lastLoan, LoanRow)
  BY DEF Sound, IsDatabase
<1>6. /\ Table(e.books, 1..d.lastBook, BookRow)
      /\ DOMAIN e.books = B
      /\ \A x \in B : e.books[x] = d.books[x]
      /\ Table(e.loans, 1..d.lastLoan, LoanRow)
      /\ DOMAIN e.loans = S
      /\ \A x \in S : e.loans[x] = d.loans[x]
  BY <1>1, <1>3, <1>5 DEF Table, Restrict
<1>7. IsDatabase(e)
  BY <1>1, <1>6 DEF Sound, IsDatabase
<1>8. ReferencesHold(e)
  BY <1>1, <1>3, <1>4, <1>6 DEF Sound, ReferencesHold
<1>9. CopiesAddUp(e)
  <2>1. \A x : LoansOut(e, x) = LoansOut(d, x)
    BY <1>1, <1>2, <1>3, ActiveLoansKept
  <2> QED
    BY <1>6, <2>1 DEF Sound, CopiesAddUp
<1>10. LimitKept(e) /\ LentOnce(e)
  BY <1>1, <1>2, <1>3, ActiveLoansKept DEF Sound
<1> QED
  BY <1>7, <1>8, <1>9, <1>10 DEF Sound, e

-----------------------------------------------------------------------------
(* Statements on members.                                                  *)

\* Any change of the members table that keeps the members with loans.
LEMMA MembersChanged ==
  ASSUME NEW d, Sound(d), NEW e, DOMAIN e = DOMAIN d,
         e.books = d.books, e.lastBook = d.lastBook,
         e.loans = d.loans, e.lastLoan = d.lastLoan,
         e.lastMember \in 0..MaxMemberId,
         Table(e.members, 1..e.lastMember, MemberRow),
         DOMAIN d.members \subseteq DOMAIN e.members
  PROVE  Sound(e)
<1>1. IsDatabase(e)
  BY DEF Sound, IsDatabase
<1>2. ReferencesHold(e)
  BY DEF Sound, ReferencesHold
<1>3. CopiesAddUp(e)
  <2>1. \A x : LoansOut(e, x) = LoansOut(d, x)
    BY SameLoans
  <2> QED
    BY <2>1 DEF Sound, CopiesAddUp
<1> QED
  BY <1>1, <1>2, <1>3, SameLoans DEF Sound

\* INSERT INTO members.
LEMMA InsertMemberSound ==
  ASSUME NEW d, Sound(d), NEW a \in Email, NEW p \in Phone,
         d.lastMember < MaxMemberId
  PROVE  Sound(InsertMember(d, a, p))
<1> DEFINE e == InsertMember(d, a, p)
           m == d.lastMember + 1
           row == [email |-> a, phone |-> p, active |-> TRUE]
<1>1. /\ DOMAIN e = DOMAIN d /\ e.members = Put(d.members, m, row)
      /\ e.lastMember = m /\ e.books = d.books /\ e.loans = d.loans
      /\ e.lastBook = d.lastBook /\ e.lastLoan = d.lastLoan
  BY DEF InsertMember, Sound, IsDatabase
<1>2. d.lastMember \in Nat /\ m \in 1..m /\ m \in 0..MaxMemberId
  BY TablesAssumption DEF Sound, IsDatabase
<1>3. row \in MemberRow
  BY DEF MemberRow
<1>4. Table(d.members, 1..d.lastMember, MemberRow)
  BY DEF Sound, IsDatabase
<1>5. 1..d.lastMember \subseteq 1..m
  BY <1>2
<1>6. Table(e.members, 1..m, MemberRow) /\ DOMAIN d.members \subseteq DOMAIN e.members
  <2> HIDE DEF e, m, row
  <2> QED
    BY <1>1, <1>2, <1>3, <1>4, <1>5 DEF Table, Put
<1> HIDE DEF e, m
<1> QED
  BY <1>1, <1>2, <1>6, MembersChanged DEF e

\* UPDATE members of a whole row.
LEMMA WriteMemberSound ==
  ASSUME NEW d, Sound(d), NEW m \in DOMAIN d.members, NEW row \in MemberRow
  PROVE  Sound(WriteMember(d, m, row))
<1> DEFINE e == WriteMember(d, m, row)
<1>1. /\ DOMAIN e = DOMAIN d /\ e.members = Put(d.members, m, row)
      /\ e.lastMember = d.lastMember /\ e.books = d.books /\ e.loans = d.loans
      /\ e.lastBook = d.lastBook /\ e.lastLoan = d.lastLoan
  BY DEF WriteMember, Sound, IsDatabase
<1>2. d.lastMember \in 0..MaxMemberId
  BY DEF Sound, IsDatabase
<1>3. Table(d.members, 1..d.lastMember, MemberRow)
  BY DEF Sound, IsDatabase
<1> HIDE DEF e
<1>4. /\ Table(e.members, 1..d.lastMember, MemberRow)
      /\ DOMAIN d.members \subseteq DOMAIN e.members
  BY <1>1, <1>3 DEF Table, Put
<1> QED
  BY <1>1, <1>2, <1>4, MembersChanged DEF e

\* UPDATE members SET is_active, of an absent member too.
LEMMA SetActiveSound ==
  ASSUME NEW d, Sound(d), NEW m, NEW flag \in BOOLEAN
  PROVE  Sound(SetActive(d, m, flag))
<1>1. CASE m \notin DOMAIN d.members
  BY <1>1 DEF SetActive
<1>2. CASE m \in DOMAIN d.members
  <2> DEFINE e == SetActive(d, m, flag)
  <2>1. Table(d.members, 1..d.lastMember, MemberRow) /\ d.lastMember \in 0..MaxMemberId
    BY DEF Sound, IsDatabase
  <2>2. /\ DOMAIN e = DOMAIN d
        /\ e.members = [d.members EXCEPT ![m].active = flag]
        /\ e.lastMember = d.lastMember /\ e.books = d.books /\ e.loans = d.loans
        /\ e.lastBook = d.lastBook /\ e.lastLoan = d.lastLoan
    BY <1>2 DEF SetActive, Sound, IsDatabase
  <2>3. [d.members[m] EXCEPT !.active = flag] \in MemberRow
    BY <1>2, <2>1 DEF Table, MemberRow
  <2> HIDE DEF e
  <2>4. /\ Table(e.members, 1..d.lastMember, MemberRow)
        /\ DOMAIN d.members \subseteq DOMAIN e.members
    BY <1>2, <2>1, <2>2, <2>3 DEF Table
  <2> QED
    BY <2>1, <2>2, <2>4, MembersChanged DEF e
<1> QED
  BY <1>1, <1>2

\* DELETE FROM members of a member without active loans: the cascade takes
\* returned loans only, so the counters of the books stay right.
LEMMA DeleteMemberSound ==
  ASSUME NEW d, Sound(d), NEW m, LoansHeld(d, m) = {}
  PROVE  Sound(DeleteMemberRow(d, m))
<1> DEFINE e == DeleteMemberRow(d, m)
           M == DOMAIN d.members \ {m}
           S == {l \in DOMAIN d.loans : d.loans[l].member # m}
<1>1. /\ DOMAIN e = DOMAIN d /\ e.members = Restrict(d.members, M)
      /\ e.lastBook = d.lastBook /\ e.books = d.books
      /\ e.loans = Restrict(d.loans, S)
      /\ e.lastMember = d.lastMember /\ e.lastLoan = d.lastLoan
  BY DEF DeleteMemberRow, Sound, IsDatabase
<1>2. ActiveLoans(d) \subseteq S
  BY DEF LoansHeld, ActiveLoans
<1>3. S \subseteq DOMAIN d.loans /\ M \subseteq DOMAIN d.members
  OBVIOUS
<1>4. \A l \in S : d.loans[l].member # m
  OBVIOUS
<1> HIDE DEF e, S
<1>5. /\ Table(d.members, 1..d.lastMember, MemberRow)
      /\ Table(d.loans, 1..d.lastLoan, LoanRow)
  BY DEF Sound, IsDatabase
<1>6. /\ Table(e.members, 1..d.lastMember, MemberRow)
      /\ DOMAIN e.members = M
      /\ Table(e.loans, 1..d.lastLoan, LoanRow)
      /\ DOMAIN e.loans = S
      /\ \A x \in S : e.loans[x] = d.loans[x]
  BY <1>1, <1>3, <1>5 DEF Table, Restrict
<1>7. IsDatabase(e)
  BY <1>1, <1>6 DEF Sound, IsDatabase
<1>8. ReferencesHold(e)
  BY <1>1, <1>3, <1>4, <1>6 DEF Sound, ReferencesHold
<1>9. CopiesAddUp(e)
  <2>1. \A x : LoansOut(e, x) = LoansOut(d, x)
    BY <1>1, <1>2, <1>3, ActiveLoansKept
  <2> QED
    BY <1>1, <2>1 DEF Sound, CopiesAddUp
<1>10. LimitKept(e) /\ LentOnce(e)
  BY <1>1, <1>2, <1>3, ActiveLoansKept DEF Sound
<1> QED
  BY <1>7, <1>8, <1>9, <1>10 DEF Sound, e

-----------------------------------------------------------------------------
(* The transactions on loans.                                              *)

\* The database loan_book's transaction leaves, field by field.
LEMMA LentOutFields ==
  ASSUME NEW d, IsDatabase(d), NEW b \in DOMAIN d.books, d.books[b].available > 0,
         NEW m, NEW due
  PROVE  LET e == LentOut(d, b, m, due)
             k == d.lastLoan + 1
             row == [book |-> b, member |-> m, due |-> due,
                     returned |-> FALSE, renewals |-> 0]
         IN  /\ DOMAIN e = DOMAIN d
             /\ e.loans = Put(d.loans, k, row)
             /\ e.lastLoan = k
             /\ e.books = [d.books EXCEPT ![b].available = @ - 1]
             /\ e.lastBook = d.lastBook /\ e.members = d.members
             /\ e.lastMember = d.lastMember
<1> DEFINE e == LentOut(d, b, m, due)
           k == d.lastLoan + 1
           row == [book |-> b, member |-> m, due |-> due,
                   returned |-> FALSE, renewals |-> 0]
           c == InsertLoan(d, b, m, due)
<1>1. /\ DOMAIN c = DOMAIN d /\ c.loans = Put(d.loans, k, row)
      /\ c.lastLoan = k /\ c.books = d.books /\ c.lastBook = d.lastBook
      /\ c.members = d.members /\ c.lastMember = d.lastMember
  BY DEF InsertLoan, IsDatabase
<1>2. DOMAIN c = {"books", "members", "loans", "lastBook", "lastMember", "lastLoan"}
  BY <1>1 DEF IsDatabase
<1>3. e = DecrementAvailable(c, b)
  BY DEF LentOut
<1> HIDE DEF c, e, k, row
<1>4. /\ DOMAIN e = DOMAIN d /\ e.loans = Put(d.loans, k, row) /\ e.lastLoan = k
      /\ e.books = [d.books EXCEPT ![b].available = @ - 1]
      /\ e.lastBook = d.lastBook /\ e.members = d.members
      /\ e.lastMember = d.lastMember
  BY <1>1, <1>2, <1>3 DEF DecrementAvailable
<1> QED
  BY <1>4 DEF e, k, row

\* loan_book's transaction after its checks: the copy the new loan takes is the
\* copy the counter loses, and the member is under the limit without the book.
LEMMA LentOutSound ==
  ASSUME NEW d, Sound(d), NEW today, NEW b \in BookId, NEW m \in MemberId,
         NEW due \in Day, LoanAvailable(d, today, b, m), d.lastLoan < MaxLoanId
  PROVE  Sound(LentOut(d, b, m, due))
<1> DEFINE e == LentOut(d, b, m, due)
           k == d.lastLoan + 1
           row == [book |-> b, member |-> m, due |-> due,
                   returned |-> FALSE, renewals |-> 0]
<1>1. /\ b \in DOMAIN d.books /\ d.books[b].available > 0
      /\ m \in DOMAIN d.members
      /\ Cardinality(LoansHeld(d, m)) < MAX_BOOKS_PER_MEMBER
      /\ LoansOf(d, b, m) = {}
  BY DEF LoanAvailable, MemberEligible, UnderLimit, NotDuplicate
<1>2. /\ Table(d.books, 1..d.lastBook, BookRow)
      /\ Table(d.loans, 1..d.lastLoan, LoanRow)
      /\ d.lastLoan \in Nat /\ k \in 1..k /\ k \in 0..MaxLoanId
      /\ k \notin 1..d.lastLoan /\ 1..d.lastLoan \subseteq 1..k
  BY TablesAssumption DEF Sound, IsDatabase
<1>3. /\ DOMAIN e = DOMAIN d
      /\ e.loans = Put(d.loans, k, row)
      /\ e.lastLoan = k
      /\ e.books = [d.books EXCEPT ![b].available = @ - 1]
      /\ e.lastBook = d.lastBook /\ e.members = d.members
      /\ e.lastMember = d.lastMember
  BY <1>1, LentOutFields DEF Sound
<1>4. row \in LoanRow
  BY DEF LoanRow
<1>5. /\ row.book = b /\ row.member = m /\ ~ row.returned
  OBVIOUS
<1> HIDE DEF e, k, row
<1>6. d.books[b].available \in Nat /\ d.books[b].available - 1 \in Nat
  BY <1>1, <1>2 DEF Table, BookRow
<1>7. /\ Table(e.loans, 1..k, LoanRow)
      /\ DOMAIN e.loans = DOMAIN d.loans \cup {k}
      /\ e.loans[k] = row
      /\ \A x \in DOMAIN d.loans : e.loans[x] = d.loans[x]
      /\ k \notin DOMAIN d.loans
  BY <1>2, <1>3, <1>4 DEF Table, Put
<1>8. /\ Table(e.books, 1..d.lastBook, BookRow)
      /\ DOMAIN e.books = DOMAIN d.books
      /\ e.books[b].available = d.books[b].available - 1
      /\ \A x \in DOMAIN d.books : /\ e.books[x].total = d.books[x].total
                                   /\ x # b => e.books[x] = d.books[x]
  <2>1. [d.books[b] EXCEPT !.available = @ - 1] \in BookRow
    BY <1>1, <1>2, <1>6 DEF Table, BookRow
  <2>2. \A x \in DOMAIN d.books : d.books[x] \in BookRow
    BY <1>2 DEF Table
  <2> QED
    BY <1>1, <1>2, <1>3, <2>1, <2>2 DEF Table, BookRow
<1>9. IsDatabase(e)
  BY <1>2, <1>3, <1>7, <1>8 DEF Sound, IsDatabase
<1>10. ReferencesHold(e)
  BY <1>1, <1>3, <1>5, <1>7, <1>8 DEF Sound, ReferencesHold
<1>11. ActiveLoans(e) = ActiveLoans(d) \cup {k}
  BY <1>5, <1>7 DEF ActiveLoans
<1>12. k \notin ActiveLoans(d) /\ ActiveLoans(d) \subseteq DOMAIN d.loans
  BY <1>7 DEF ActiveLoans
<1>13. \A x : LoansOut(e, x) = IF x = b THEN LoansOut(d, x) \cup {k} ELSE LoansOut(d, x)
  BY <1>5, <1>7, <1>11, <1>12 DEF LoansOut
<1>14. \A x : LoansHeld(e, x) = IF x = m THEN LoansHeld(d, x) \cup {k} ELSE LoansHeld(d, x)
  BY <1>5, <1>7, <1>11, <1>12 DEF LoansHeld
<1>15. CopiesAddUp(e)
  <2> SUFFICES ASSUME NEW x \in DOMAIN d.books
               PROVE  e.books[x].available + Cardinality(LoansOut(e, x))
                        = e.books[x].total
    BY <1>8 DEF CopiesAddUp
  <2>1. /\ IsFiniteSet(LoansOut(d, x)) /\ Cardinality(LoansOut(d, x)) \in Nat
        /\ d.books[x].available + Cardinality(LoansOut(d, x)) = d.books[x].total
    BY LoansFinite DEF Sound, CopiesAddUp
  <2>2. CASE x = b
    <3>1. k \notin LoansOut(d, x)
      BY <1>12 DEF LoansOut
    <3>2. Cardinality(LoansOut(e, x)) = Cardinality(LoansOut(d, x)) + 1
      BY <1>13, <2>1, <2>2, <3>1, FS_AddElement
    <3> QED
      BY <1>6, <1>8, <2>1, <2>2, <3>2
  <2>3. CASE x # b
    BY <1>8, <1>13, <2>1, <2>3
  <2> QED
    BY <2>2, <2>3
<1>16. LimitKept(e)
  <2> SUFFICES ASSUME NEW x \in MemberId
               PROVE  Cardinality(LoansHeld(e, x)) <= MAX_BOOKS_PER_MEMBER
    BY DEF LimitKept
  <2>1. /\ IsFiniteSet(LoansHeld(d, x)) /\ Cardinality(LoansHeld(d, x)) \in Nat
        /\ Cardinality(LoansHeld(d, x)) <= MAX_BOOKS_PER_MEMBER
    BY LoansFinite DEF Sound, LimitKept
  <2>2. CASE x = m
    <3>1. k \notin LoansHeld(d, x)
      BY <1>12 DEF LoansHeld
    <3>2. Cardinality(LoansHeld(e, x)) = Cardinality(LoansHeld(d, x)) + 1
      BY <1>14, <2>1, <2>2, <3>1, FS_AddElement
    <3> QED
      BY <1>1, <2>1, <2>2, <3>2, TablesAssumption
  <2>3. CASE x # m
    BY <1>14, <2>1, <2>3
  <2> QED
    BY <2>2, <2>3
<1>17. LentOnce(e)
  <2>1. \A l \in ActiveLoans(d) : ~ (d.loans[l].book = b /\ d.loans[l].member = m)
    BY <1>1 DEF LoansOf, LoansOut, LoansHeld
  <2> QED
    BY <1>5, <1>7, <1>11, <1>12, <2>1 DEF Sound, LentOnce
<1> QED
  BY <1>9, <1>10, <1>15, <1>16, <1>17 DEF Sound, e

\* The database return_book's transaction leaves, field by field.
LEMMA TakenBackFields ==
  ASSUME NEW d, IsDatabase(d), NEW l \in DOMAIN d.loans,
         d.loans[l].book \in DOMAIN d.books
  PROVE  LET e == TakenBack(d, l)
             b == d.loans[l].book
         IN  /\ DOMAIN e = DOMAIN d
             /\ e.loans = [d.loans EXCEPT ![l].returned = TRUE]
             /\ e.lastLoan = d.lastLoan
             /\ e.books = [d.books EXCEPT ![b].available = @ + 1]
             /\ e.lastBook = d.lastBook /\ e.members = d.members
             /\ e.lastMember = d.lastMember
<1> DEFINE e == TakenBack(d, l)
           b == d.loans[l].book
           c == MarkReturned(d, l)
<1>1. /\ DOMAIN c = DOMAIN d
      /\ c.loans = [d.loans EXCEPT ![l].returned = TRUE]
      /\ c.lastLoan = d.lastLoan /\ c.books = d.books /\ c.lastBook = d.lastBook
      /\ c.members = d.members /\ c.lastMember = d.lastMember
  BY DEF MarkReturned, IsDatabase
<1>2. DOMAIN c = {"books", "members", "loans", "lastBook", "lastMember", "lastLoan"}
  BY <1>1 DEF IsDatabase
<1>3. e = IncrementAvailable(c, b)
  BY DEF TakenBack
<1>4. b \in DOMAIN d.books
  OBVIOUS
<1> HIDE DEF c, e, b
<1>5. /\ DOMAIN e = DOMAIN d /\ e.loans = [d.loans EXCEPT ![l].returned = TRUE]
      /\ e.lastLoan = d.lastLoan
      /\ e.books = [d.books EXCEPT ![b].available = @ + 1]
      /\ e.lastBook = d.lastBook /\ e.members = d.members
      /\ e.lastMember = d.lastMember
  BY <1>1, <1>2, <1>3, <1>4 DEF IncrementAvailable
<1> QED
  BY <1>5 DEF e, b

\* return_book's transaction on an active loan: one loan less, one copy more.
LEMMA TakenBackSound ==
  ASSUME NEW d, Sound(d), NEW l \in ActiveLoans(d)
  PROVE  Sound(TakenBack(d, l))
<1> DEFINE e == TakenBack(d, l)
           b == d.loans[l].book
<1>1. /\ Table(d.books, 1..d.lastBook, BookRow)
      /\ Table(d.loans, 1..d.lastLoan, LoanRow)
  BY DEF Sound, IsDatabase
<1>2. l \in DOMAIN d.loans /\ ~ d.loans[l].returned /\ b \in DOMAIN d.books
  BY DEF Sound, ReferencesHold, ActiveLoans
<1>3. /\ DOMAIN e = DOMAIN d
      /\ e.loans = [d.loans EXCEPT ![l].returned = TRUE]
      /\ e.lastLoan = d.lastLoan
      /\ e.books = [d.books EXCEPT ![b].available = @ + 1]
      /\ e.lastBook = d.lastBook /\ e.members = d.members
      /\ e.lastMember = d.lastMember
  BY <1>2, TakenBackFields DEF Sound
<1> HIDE DEF e
<1>4. d.books[b].available \in Nat /\ d.books[b].available + 1 \in Nat
  BY <1>1, <1>2 DEF Table, BookRow
<1>5. /\ Table(e.loans, 1..d.lastLoan, LoanRow)
      /\ DOMAIN e.loans = DOMAIN d.loans
      /\ e.loans[l].returned
      /\ \A x \in DOMAIN d.loans : /\ e.loans[x].book = d.loans[x].book
                                   /\ e.loans[x].member = d.loans[x].member
                                   /\ x # l => e.loans[x] = d.loans[x]
  <2>1. [d.loans[l] EXCEPT !.returned = TRUE] \in LoanRow
    BY <1>1, <1>2 DEF Table, LoanRow
  <2>2. \A x \in DOMAIN d.loans : d.loans[x] \in LoanRow
    BY <1>1 DEF Table
  <2> HIDE DEF b
  <2> QED
    BY <1>1, <1>2, <1>3, <2>1, <2>2 DEF Table, LoanRow
<1>6. /\ Table(e.books, 1..d.lastBook, BookRow)
      /\ DOMAIN e.books = DOMAIN d.books
      /\ e.books[b].available = d.books[b].available + 1
      /\ \A x \in DOMAIN d.books : /\ e.books[x].total = d.books[x].total
                                   /\ x # b => e.books[x] = d.books[x]
  <2> HIDE DEF b
  <2>1. [d.books[b] EXCEPT !.available = @ + 1] \in BookRow
    BY <1>1, <1>2, <1>4 DEF Table, BookRow
  <2>2. \A x \in DOMAIN d.books : d.books[x] \in BookRow
    BY <1>1 DEF Table
  <2> QED
    BY <1>1, <1>2, <1>3, <2>1, <2>2 DEF Table, BookRow
<1>7. IsDatabase(e)
  BY <1>3, <1>5, <1>6 DEF Sound, IsDatabase
<1>8. ReferencesHold(e)
  BY <1>3, <1>5, <1>6 DEF Sound, ReferencesHold
<1>9. ActiveLoans(e) = ActiveLoans(d) \ {l}
  BY <1>5 DEF ActiveLoans
<1>10. \A x : LoansOut(e, x) = LoansOut(d, x) \ {l}
  BY <1>5, <1>9 DEF LoansOut, ActiveLoans
<1>11. \A x : LoansHeld(e, x) = LoansHeld(d, x) \ {l}
  BY <1>5, <1>9 DEF LoansHeld, ActiveLoans
<1>12. CopiesAddUp(e)
  <2> SUFFICES ASSUME NEW x \in DOMAIN d.books
               PROVE  e.books[x].available + Cardinality(LoansOut(e, x))
                        = e.books[x].total
    BY <1>6 DEF CopiesAddUp
  <2>1. /\ IsFiniteSet(LoansOut(d, x)) /\ Cardinality(LoansOut(d, x)) \in Nat
        /\ d.books[x].available + Cardinality(LoansOut(d, x)) = d.books[x].total
    BY LoansFinite DEF Sound, CopiesAddUp
  <2>2. CASE x = b
    <3>1. l \in LoansOut(d, x)
      BY <2>2 DEF LoansOut
    <3>2. Cardinality(LoansOut(e, x)) = Cardinality(LoansOut(d, x)) - 1
      BY <1>10, <2>1, <3>1, FS_RemoveElement
    <3> QED
      BY <1>4, <1>6, <2>1, <2>2, <3>2
  <2>3. CASE x # b
    <3>1. LoansOut(e, x) = LoansOut(d, x)
      BY <1>10, <2>3 DEF LoansOut
    <3> QED
      BY <1>6, <2>1, <2>3, <3>1
  <2> QED
    BY <2>2, <2>3
<1>13. LimitKept(e)
  <2> SUFFICES ASSUME NEW x \in MemberId
               PROVE  Cardinality(LoansHeld(e, x)) <= MAX_BOOKS_PER_MEMBER
    BY DEF LimitKept
  <2>1. /\ IsFiniteSet(LoansHeld(d, x)) /\ Cardinality(LoansHeld(d, x)) \in Nat
        /\ Cardinality(LoansHeld(d, x)) <= MAX_BOOKS_PER_MEMBER
    BY LoansFinite DEF Sound, LimitKept
  <2>2. /\ Cardinality(LoansHeld(e, x)) \in Nat
        /\ Cardinality(LoansHeld(e, x)) <= Cardinality(LoansHeld(d, x))
    <3>1. LoansHeld(e, x) \in SUBSET LoansHeld(d, x)
      BY <1>11
    <3> QED
      BY <1>7, <2>1, <3>1, FS_Subset, LoansFinite
  <2> QED
    BY <2>1, <2>2, TablesAssumption
<1>14. LentOnce(e)
  BY <1>5, <1>9 DEF Sound, LentOnce, ActiveLoans
<1> QED
  BY <1>7, <1>8, <1>12, <1>13, <1>14 DEF Sound, e

-----------------------------------------------------------------------------
(* Renewals.                                                               *)

\* The year of a day the calendar has is below 10000.
LEMMA YearBound ==
  ASSUME NEW x \in Int, x >= 0, x <= 2932896
  PROVE  (400 * x) \div 146097 \in Int /\ (400 * x) \div 146097 <= 8030
BY SMT

\* Read as a year, no due date the calendar has is ahead of the clock: the test
\* of extend_loan takes every loan for overdue.
LEMMA NoRenewalAllowed ==
  ASSUME NEW d, IsDatabase(d), NEW l \in DOMAIN d.loans,
         NEW today \in Nat \ {0}
  PROVE  ~ RenewalAllowed(d, today, l)
<1> DEFINE x == d.loans[l].due
           y == (400 * x) \div 146097
<1>1. x \in Int /\ x >= 0 /\ x <= LastDay
  BY TablesAssumption DEF IsDatabase, Table, LoanRow, Day
<1>2. LastDay \in Int /\ LastDay <= 2932896
  BY TablesAssumption DEF EndOfCalendar
<1> HIDE DEF x
<1>3. x <= 2932896
  BY <1>1, <1>2
<1>4. y \in Int /\ y <= 8030
  BY <1>1, <1>3, YearBound
<1>5. 86400 * today >= 86400
  BY SMT
<1> HIDE DEF y
<1>6. 1970 + y < 86400 * today
  BY <1>4, <1>5, SMT
<1>7. YearRead(d.loans[l].due) < ClockSeconds(today)
  BY <1>6 DEF YearRead, ClockSeconds, x, y
<1> QED
  BY <1>7 DEF RenewalAllowed

\* The database database_create_tables makes.
LEMMA EmptySound == Sound(EmptyDatabase)
<1> DEFINE e == EmptyDatabase
<1>1. /\ DOMAIN e = {"books", "members", "loans", "lastBook", "lastMember", "lastLoan"}
      /\ e.books = NoRows /\ e.members = NoRows /\ e.loans = NoRows
      /\ e.lastBook = 0 /\ e.lastMember = 0 /\ e.lastLoan = 0
  BY DEF EmptyDatabase
<1> HIDE DEF e
<1>2. DOMAIN NoRows = {} /\ \A Id, Row : Table(NoRows, Id, Row)
  BY DEF NoRows, Table
<1>3. IsDatabase(e)
  BY <1>1, <1>2, TablesAssumption DEF IsDatabase
<1>4. ReferencesHold(e) /\ CopiesAddUp(e) /\ LentOnce(e)
  BY <1>1, <1>2 DEF ReferencesHold, CopiesAddUp, LentOnce, ActiveLoans
<1>5. \A x : LoansHeld(e, x) = {}
  BY <1>1, <1>2 DEF LoansHeld, ActiveLoans
<1>6. LimitKept(e)
  BY <1>5, FS_EmptySet, TablesAssumption DEF LimitKept
<1> QED
  BY <1>3, <1>4, <1>6 DEF Sound, e
-----------------------------------------------------------------------------
(* The ledger of loans.                                                    *)

\* A statement that leaves the loans table alone leaves the ledger alone.
LEMMA SameLedger ==
  ASSUME NEW d, NEW e, e.loans = d.loans
  PROVE  LedgerKept(d, e) /\ (Unrenewed(d) => Unrenewed(e))
BY DEF LedgerKept, Unrenewed, ActiveLoans

\* So do the statements on books and on members that delete nothing.
LEMMA StatementsOffLoans ==
  ASSUME NEW d, IsDatabase(d)
  PROVE  /\ \A i, n : InsertBook(d, i, n).loans = d.loans
         /\ \A b, row : WriteBook(d, b, row).loans = d.loans
         /\ \A a, p : InsertMember(d, a, p).loans = d.loans
         /\ \A m, row : WriteMember(d, m, row).loans = d.loans
         /\ \A m, flag : SetActive(d, m, flag).loans = d.loans
BY DEF IsDatabase, InsertBook, WriteBook, InsertMember, WriteMember, SetActive

\* A cascade that takes returned loans only.
LEMMA CascadeLedger ==
  ASSUME NEW d, NEW e, NEW S, S \subseteq DOMAIN d.loans,
         e.loans = Restrict(d.loans, S), ActiveLoans(d) \subseteq S
  PROVE  LedgerKept(d, e) /\ (Unrenewed(d) => Unrenewed(e))
<1>1. DOMAIN e.loans = S /\ \A l \in S : e.loans[l] = d.loans[l]
  BY DEF Restrict
<1> QED
  BY <1>1 DEF LedgerKept, Unrenewed

\* Deleting a book none of whose copies is out loses no active loan.
LEMMA DeleteBookLedger ==
  ASSUME NEW d, IsDatabase(d), NEW b, LoansOut(d, b) = {}
  PROVE  /\ LedgerKept(d, DeleteBookRow(d, b))
         /\ Unrenewed(d) => Unrenewed(DeleteBookRow(d, b))
<1> DEFINE S == {l \in DOMAIN d.loans : d.loans[l].book # b}
<1>1. DeleteBookRow(d, b).loans = Restrict(d.loans, S)
  BY DEF DeleteBookRow, IsDatabase
<1>2. ActiveLoans(d) \subseteq S /\ S \subseteq DOMAIN d.loans
  BY DEF LoansOut, ActiveLoans
<1> HIDE DEF S
<1> QED
  BY <1>1, <1>2, CascadeLedger

\* Deleting a member without active loans loses no active loan.
LEMMA DeleteMemberLedger ==
  ASSUME NEW d, IsDatabase(d), NEW m, LoansHeld(d, m) = {}
  PROVE  /\ LedgerKept(d, DeleteMemberRow(d, m))
         /\ Unrenewed(d) => Unrenewed(DeleteMemberRow(d, m))
<1> DEFINE S == {l \in DOMAIN d.loans : d.loans[l].member # m}
<1>1. DeleteMemberRow(d, m).loans = Restrict(d.loans, S)
  BY DEF DeleteMemberRow, IsDatabase
<1>2. ActiveLoans(d) \subseteq S /\ S \subseteq DOMAIN d.loans
  BY DEF LoansHeld, ActiveLoans
<1> HIDE DEF S
<1> QED
  BY <1>1, <1>2, CascadeLedger

\* A loan enters the ledger under an id never used before.
LEMMA LentOutLedger ==
  ASSUME NEW d, IsDatabase(d), NEW b \in DOMAIN d.books, d.books[b].available > 0,
         NEW m, NEW due
  PROVE  /\ LedgerKept(d, LentOut(d, b, m, due))
         /\ Unrenewed(d) => Unrenewed(LentOut(d, b, m, due))
<1> DEFINE e == LentOut(d, b, m, due)
           k == d.lastLoan + 1
           row == [book |-> b, member |-> m, due |-> due,
                   returned |-> FALSE, renewals |-> 0]
<1>1. /\ DOMAIN e = DOMAIN d
      /\ e.loans = Put(d.loans, k, row)
      /\ e.lastLoan = k
      /\ e.books = [d.books EXCEPT ![b].available = @ - 1]
      /\ e.lastBook = d.lastBook /\ e.members = d.members
      /\ e.lastMember = d.lastMember
  BY LentOutFields
<1>2. k > d.lastLoan /\ k \notin DOMAIN d.loans
  BY TablesAssumption DEF IsDatabase, Table
<1>3. row.renewals = 0
  OBVIOUS
<1> HIDE DEF e, k, row
<1>4. /\ DOMAIN e.loans = DOMAIN d.loans \cup {k} /\ e.loans[k] = row
      /\ \A l \in DOMAIN d.loans : e.loans[l] = d.loans[l]
  BY <1>1, <1>2 DEF Put
<1>5. LedgerKept(d, e)
  BY <1>2, <1>4 DEF LedgerKept, ActiveLoans
<1>6. Unrenewed(d) => Unrenewed(e)
  BY <1>3, <1>4 DEF Unrenewed
<1> QED
  BY <1>5, <1>6 DEF e

\* A return is entered, and nothing else.
LEMMA TakenBackLedger ==
  ASSUME NEW d, IsDatabase(d), NEW l \in DOMAIN d.loans,
         d.loans[l].book \in DOMAIN d.books
  PROVE  /\ LedgerKept(d, TakenBack(d, l))
         /\ Unrenewed(d) => Unrenewed(TakenBack(d, l))
<1> DEFINE e == TakenBack(d, l)
<1>1. e.loans = [d.loans EXCEPT ![l].returned = TRUE]
  BY TakenBackFields
<1> HIDE DEF e
<1>2. \A k \in DOMAIN d.loans : d.loans[k] \in LoanRow
  BY DEF IsDatabase, Table
<1>3. /\ DOMAIN e.loans = DOMAIN d.loans /\ e.loans[l].returned
      /\ \A k \in DOMAIN d.loans : /\ e.loans[k].book = d.loans[k].book
                                   /\ e.loans[k].member = d.loans[k].member
                                   /\ e.loans[k].renewals = d.loans[k].renewals
                                   /\ k # l => e.loans[k] = d.loans[k]
  BY <1>1, <1>2 DEF LoanRow
<1>4. LedgerKept(d, e)
  BY <1>3 DEF LedgerKept, ActiveLoans
<1>5. Unrenewed(d) => Unrenewed(e)
  BY <1>3 DEF Unrenewed
<1> QED
  BY <1>4, <1>5 DEF e
=============================================================================
