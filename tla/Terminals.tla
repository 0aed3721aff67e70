----------------------------- MODULE Terminals ------------------------------
(***************************************************************************)
(* The program one SQL statement at a time.  Several copies of it may run  *)
(* on the same library.db (nothing in main.c keeps a second one out), each *)
(* with its own SQLite connection, and something outside the program (the  *)
(* sqlite3 shell, a copying tool) may be reading the file.  A call makes   *)
(* its checks in SELECTs of their own, before the transaction it writes    *)
(* in; statements of other terminals come between, any of them can find    *)
(* the database locked (no busy timeout is set, so it fails at once), and  *)
(* a terminal can be killed between any two of them.                       *)
(*                                                                         *)
(* Locks are those of SQLite's rollback journal: a statement reads under   *)
(* SHARED, from its first sqlite3_step to its sqlite3_finalize; a writer   *)
(* works on a copy of its own under RESERVED; COMMIT replaces the file     *)
(* (EXCLUSIVE) unless somebody holds SHARED, and then fails under PENDING. *)
(* The run lasts less than a day: no loan becomes overdue, so the SELECT   *)
(* of overdue loans is left out.                                           *)
(***************************************************************************)
EXTENDS Tables

CONSTANTS
  Terminal,  \* the running copies of the program
  Calls,     \* the calls their users make
  Copies,    \* answers to the prompt for the number of copies
  BackupPaths, \* the paths backups are written to
  Stock,     \* the database they start from
  Today,     \* the day it is
  Outside,   \* whether something outside the program reads the file
  Noted      \* the calls whose results the history variable told keeps

ASSUME TerminalsAssumption ==
  /\ Calls \subseteq {"loan", "return", "backup", "restore",
                      "add book", "edit book", "delete book",
                      "add member", "edit member", "delete member"}
  /\ {"backup", "restore"} \cap Calls # {} => BackupPaths # {}
  /\ Copies \subseteq Nat \ {0}
  /\ IsDatabase(Stock) /\ ReferencesHold(Stock) /\ KeysUnique(Stock)
  /\ Today \in Nat \ {0} /\ Today + DEFAULT_LOAN_DAYS <= LastDay
  /\ Outside \in BOOLEAN
  /\ Noted \subseteq {"loan", "return", "add book", "delete book",
                      "add member", "delete member"}

VARIABLES
  file,     \* the committed contents of library.db
  backups,  \* the file at each path: a set of at most one database
  pc,       \* what each terminal does next
  call,     \* the arguments of its current call
  got,      \* the row its call has read, or its user has typed
  begun,    \* its connection is between BEGIN and COMMIT or ROLLBACK
  lock,     \* the lock its connection holds
  work,     \* the database as it writes it, under a lock
  shared,   \* the terminals in the middle of a statement that reads the file
  reading,  \* something outside holds SHARED
  told      \* what the terminals have reported as done

vars == <<file, backups, pc, call, got, begun, lock, work, shared, reading, told>>
conn == <<begun, lock, work>>
world == <<backups, reading>>

Nothing == [op |-> "none", book |-> 0, member |-> 0, loan |-> 0]
NoBook == [isbn |-> NO_ISBN, total |-> 0, available |-> 0]
Due == Today + DEFAULT_LOAN_DAYS

Init ==
  /\ file = Stock
  /\ backups = [p \in BackupPaths |-> {}]
  /\ pc = [t \in Terminal |-> "menu"]
  /\ call = [t \in Terminal |-> Nothing]
  /\ got = [t \in Terminal |-> NoBook]
  /\ begun = [t \in Terminal |-> FALSE]
  /\ lock = [t \in Terminal |-> "none"]
  /\ work = [t \in Terminal |-> EmptyDatabase]
  /\ shared = {}
  /\ reading = FALSE
  /\ told = {}

-----------------------------------------------------------------------------
(* SQLite.                                                                 *)

Others(t) == Terminal \ {t}

\* SHARED is granted unless another connection is committing, or failed to.
CanRead(t) ==
  t \in shared \/ \A u \in Others(t) : lock[u] \in {"none", "reserved"}
\* RESERVED is granted to one connection at a time.
CanWrite(t) == \A u \in Others(t) : lock[u] = "none"
\* Somebody else holds SHARED: the file cannot be replaced.
Readers(t) == reading \/ shared \ {t} # {}

\* What the statements of t see.
View(t) == IF lock[t] = "none" THEN file ELSE work[t]

\* The connection of t with its transaction undone: ROLLBACK, or the close.
RolledBack(t) ==
  /\ begun' = [begun EXCEPT ![t] = FALSE]
  /\ lock' = [lock EXCEPT ![t] = "none"]
  /\ work' = [work EXCEPT ![t] = EmptyDatabase]

\* A statement of t leaves d under lock k.
Wrote(t, d, k) ==
  /\ lock' = [lock EXCEPT ![t] = k]
  /\ work' = [work EXCEPT ![t] = d]
  /\ UNCHANGED begun

\* Where a terminal waits for its user, and where the statement it is about to run
\* takes no SHARED lock: BEGIN, COMMIT, a restore, the second of a transaction.
Waiting == {"menu", "sure of book", "sure of member", "type book", "type member"}
NotShared == {"loan begin", "return begin", "take copy", "give copy", "commit",
              "committing", "restore"}

Goto(t, label) == pc' = [pc EXCEPT ![t] = label]

\* The call of t returns: its arguments and what it read are gone.
Return(t) ==
  /\ Goto(t, "menu")
  /\ call' = [call EXCEPT ![t] = Nothing]
  /\ got' = [got EXCEPT ![t] = NoBook]

\* A SELECT of t that lets the call go on to label if ok, and refuse if not.
Check(t, ok, label) ==
  /\ IF ok THEN Goto(t, label) /\ UNCHANGED <<call, got>> ELSE Return(t)
  /\ UNCHANGED <<file, begun, lock, work, world, told>>

\* Seeded fault: the statements run without BEGIN.
BeginForgotten(t, label) ==
  /\ Goto(t, label)
  /\ UNCHANGED <<file, call, got, begun, lock, work, world, told>>

\* BEGIN fails inside a transaction, and otherwise takes no lock yet.
Begin(t, label) ==
  /\ IF begun[t] THEN Return(t) /\ UNCHANGED begun
     ELSE /\ begun' = [begun EXCEPT ![t] = TRUE]
          /\ Goto(t, label) /\ UNCHANGED <<call, got>>
  /\ UNCHANGED <<file, lock, work, world, told>>

\* What a call that succeeds has told its user, whether it had committed then,
\* and whether d records it: an id is not used again, so a fact stays true, until
\* a restore brings an old file back.
Fact(c, committed) ==
  <<c.op, CASE c.op \in {"loan", "return"} -> c.loan
            [] c.op \in {"add member", "delete member"} -> c.member
            [] OTHER -> c.book, committed>>

Recorded(d, fact) ==
  /\ fact[1] = "loan" => fact[2] <= d.lastLoan
  /\ fact[1] = "return" => fact[2] \notin ActiveLoans(d)
  /\ fact[1] = "add book" => fact[2] <= d.lastBook
  /\ fact[1] = "delete book" => fact[2] \notin DOMAIN d.books
  /\ fact[1] = "add member" => fact[2] <= d.lastMember
  /\ fact[1] = "delete member" => fact[2] \notin DOMAIN d.members

Report(c, committed) ==
  told' = IF c.op = "restore" THEN {}
          ELSE told \cup {f \in {Fact(c, committed)} : f[1] \in Noted}

\* A statement outside BEGIN and COMMIT is a transaction of its own, which needs
\* no EXCLUSIVE when no row of it changed; inside a transaction that was left open
\* it is one more statement of that.  It leaves d if ok, and changes nothing if a
\* constraint refuses it; c is the call with the id it was given.
Statement(t, ok, d, c) ==
  /\ \/ /\ begun[t] /\ CanWrite(t) /\ ok
        /\ Wrote(t, d, IF lock[t] = "none" THEN "reserved" ELSE lock[t])
        /\ Return(t) /\ Report(c, FALSE)
     \/ /\ ~ begun[t] /\ CanWrite(t) /\ ok /\ ~ Readers(t)
        /\ Wrote(t, d, "exclusive") /\ Goto(t, "committing")
        /\ call' = [call EXCEPT ![t] = c] /\ UNCHANGED <<got, told>>
     \/ /\ ~ begun[t] /\ CanWrite(t) /\ ok /\ Readers(t) /\ d = file
        /\ Return(t) /\ Report(c, TRUE) /\ UNCHANGED conn
     \/ /\ ~ (CanWrite(t) /\ ok) \/ (Readers(t) /\ ~ begun[t])
        /\ Return(t) /\ UNCHANGED <<conn, told>>
  /\ UNCHANGED <<file, world>>

-----------------------------------------------------------------------------
(* loan_book.                                                              *)

Ask(t, c) ==
  /\ pc[t] = "menu" /\ c.op \in Calls
  /\ Goto(t, c.op)
  /\ call' = [call EXCEPT ![t] = c]
  /\ UNCHANGED <<file, got, conn, world, told>>

\* get_book_by_id fails when it finds the database locked.
LoanReadBook(t) ==
  LET b == call[t].book IN
  /\ pc[t] = "loan"
  /\ Check(t, /\ CanRead(t) /\ b \in DOMAIN View(t).books
              /\ View(t).books[b].available > 0, "read member")

LoanReadMember(t) ==
  LET m == call[t].member IN
  /\ pc[t] = "read member"
  /\ Check(t, /\ CanRead(t) /\ m \in DOMAIN View(t).members
              /\ View(t).members[m].active, "count loans")

\* A COUNT that finds the database locked leaves its variable at zero, and the
\* check passes.
LoanCount(t) ==
  /\ pc[t] = "count loans"
  /\ Check(t, CanRead(t) => UnderLimit(View(t), call[t].member), "find duplicate")

LoanDuplicate(t) ==
  /\ pc[t] = "find duplicate"
  /\ Check(t, CanRead(t) => NotDuplicate(View(t), call[t].book, call[t].member),
           "loan begin")

LoanBegin(t) ==
  /\ pc[t] = "loan begin"
  /\ Begin(t, "insert loan")

\* Seeded fault: PRAGMA foreign_keys is off.
InsertableUnchecked(d, c) == d.lastLoan < MaxLoanId
\* FOREIGN KEY holds of the new row, and AUTOINCREMENT has an id left.
Insertable(d, c) ==
  /\ c.book \in DOMAIN d.books /\ c.member \in DOMAIN d.members
  /\ d.lastLoan < MaxLoanId

\* Seeded fault: the failed INSERT is not followed by ROLLBACK.
LoanInsertFailedOpen(t) == UNCHANGED conn
LoanInsertFailed(t) == RolledBack(t)

\* Seeded fault: COMMIT comes right after the INSERT.
AfterInsertCommit == "commit"
AfterInsert == "take copy"

LoanInsert(t) ==
  LET c == call[t] IN
  /\ pc[t] = "insert loan"
  /\ IF CanWrite(t) /\ Insertable(View(t), c)
     THEN /\ Wrote(t, InsertLoan(View(t), c.book, c.member, Due), "reserved")
          /\ call' = [call EXCEPT ![t].loan = View(t).lastLoan + 1]
          /\ Goto(t, AfterInsert) /\ UNCHANGED got
     ELSE LoanInsertFailed(t) /\ Return(t)
  /\ UNCHANGED <<file, world, told>>

LoanTakeCopy(t) ==
  /\ pc[t] = "take copy"
  /\ Wrote(t, DecrementAvailable(work[t], call[t].book), lock[t])
  /\ Goto(t, "commit")
  /\ UNCHANGED <<file, call, got, world, told>>

\* Seeded fault: the call reports its result before the COMMIT.
CommitTold(t) == Report(call[t], TRUE)
CommitNotYetTold(t) == UNCHANGED told

\* Seeded fault: the COMMIT is tried again until it succeeds.
CommitBusyRetried(t) == Wrote(t, work[t], "pending") /\ UNCHANGED <<pc, call, got>>
CommitBusy(t) == Wrote(t, work[t], "pending") /\ Return(t)

\* A COMMIT that finds a reader fails, and no ROLLBACK follows: the call is
\* over, the transaction is not.
Commit(t) ==
  /\ pc[t] = "commit"
  /\ CommitNotYetTold(t)
  /\ IF Readers(t) THEN CommitBusy(t)
     ELSE /\ Wrote(t, work[t], "exclusive")
          /\ Goto(t, "committing") /\ UNCHANGED <<call, got>>
  /\ UNCHANGED <<file, world>>

\* The journal is gone, the file is the copy, the call reports.
Committed(t) ==
  /\ pc[t] = "committing"
  /\ file' = work[t]
  /\ RolledBack(t) /\ Return(t) /\ Report(call[t], TRUE)
  /\ UNCHANGED world

-----------------------------------------------------------------------------
(* return_book, by itself or by return_book_by_ids.                        *)

ReturnRead(t) ==
  LET l == call[t].loan IN
  /\ pc[t] = "return"
  /\ IF CanRead(t) /\ l \in ActiveLoans(View(t))
     THEN /\ Goto(t, "return begin")
          /\ call' = [call EXCEPT ![t].book = View(t).loans[l].book]
          /\ UNCHANGED got
     ELSE Return(t)
  /\ UNCHANGED <<file, conn, world, told>>

ReturnBegin(t) ==
  /\ pc[t] = "return begin"
  /\ Begin(t, "mark returned")

\* Seeded fault: COMMIT comes right after the first UPDATE.
AfterMarkCommit == "commit"
AfterMark == "give copy"

ReturnMark(t) ==
  /\ pc[t] = "mark returned"
  /\ IF CanWrite(t)
     THEN /\ Wrote(t, MarkReturned(View(t), call[t].loan), "reserved")
          /\ Goto(t, AfterMark) /\ UNCHANGED <<call, got>>
     ELSE RolledBack(t) /\ Return(t)
  /\ UNCHANGED <<file, world, told>>

ReturnGiveCopy(t) ==
  /\ pc[t] = "give copy"
  /\ Wrote(t, IncrementAvailable(work[t], call[t].book), lock[t])
  /\ Goto(t, "commit")
  /\ UNCHANGED <<file, call, got, world, told>>

-----------------------------------------------------------------------------
(* The book and the member menus.  A row is looked up and shown, the user   *)
(* says yes or types, and only then is the call made.                      *)

BookThere(t) == CanRead(t) /\ call[t].book \in DOMAIN View(t).books
MemberThere(t) == CanRead(t) /\ call[t].member \in DOMAIN View(t).members

\* The user says yes, and the call goes on to label, or no.
Confirm(t, question, label) ==
  /\ pc[t] = question
  /\ \E yes \in BOOLEAN : Check(t, yes, label)

\* The row is read; the user may then type over it.
ShowRow(t, there, row, question) ==
  /\ IF there THEN /\ got' = [got EXCEPT ![t] = row]
                   /\ Goto(t, question) /\ UNCHANGED call
     ELSE Return(t)
  /\ UNCHANGED <<file, conn, world, told>>

\* The user types the row, where Enter keeps a text and none can be emptied, and
\* the call goes on to label; or says no.
TypeRow(t, row, label) ==
  /\ \/ got' = [got EXCEPT ![t] = row] /\ Goto(t, label) /\ UNCHANGED call
     \/ Return(t)
  /\ UNCHANGED <<file, conn, world, told>>

\* Seeded fault: the email column is not UNIQUE, the SELECT before is enough.
MemberInsertableTwice(d, e) == d.lastMember < MaxMemberId
\* UNIQUE holds of the new row, and AUTOINCREMENT has an id left.
BookInsertable(d, i) == d.lastBook < MaxBookId /\ ~ IsbnTaken(d, 0, i)
MemberInsertable(d, e) == d.lastMember < MaxMemberId /\ ~ EmailTaken(d, 0, e)

AddBook(t) ==
  /\ pc[t] = "add book"
  /\ \E i \in Isbn, n \in Copies :
       Statement(t, BookInsertable(View(t), i), InsertBook(View(t), i, n),
                 [call[t] EXCEPT !.book = View(t).lastBook + 1])

EditBookRead(t) ==
  LET b == call[t].book IN
  /\ pc[t] = "edit book"
  /\ ShowRow(t, BookThere(t), View(t).books[b], "type book")

EditBookType(t) ==
  /\ pc[t] = "type book"
  /\ \E i \in (Isbn \ {NO_ISBN}) \cup {got[t].isbn} :
       TypeRow(t, [got[t] EXCEPT !.isbn = i], "edit book row")

\* The whole row is written back, whatever happened to it since it was read.
EditBookWrite(t) ==
  LET b == call[t].book
      ok == ValidBook(got[t])
              /\ (b \in DOMAIN View(t).books => ~ IsbnTaken(View(t), b, got[t].isbn))
  IN
  /\ pc[t] = "edit book row"
  /\ Statement(t, ok, WriteBook(View(t), b, got[t]), call[t])

DeleteBookFind(t) ==
  /\ pc[t] = "delete book"
  /\ Check(t, BookThere(t), "sure of book")

DeleteBookCheck(t) ==
  /\ pc[t] = "count loans out"
  /\ Check(t, CanRead(t) => LoansOut(View(t), call[t].book) = {}, "delete book row")

DeleteBookWrite(t) ==
  /\ pc[t] = "delete book row"
  /\ Statement(t, TRUE, DeleteBookRow(View(t), call[t].book), call[t])

\* get_member_by_email fails when it finds the database locked, which passes
\* for an email nobody has.
AddMemberFind(t) ==
  /\ pc[t] = "add member"
  /\ \E e \in Email, p \in Phone :
       ShowRow(t, CanRead(t) => ~ EmailTaken(View(t), 0, e),
               [email |-> e, phone |-> p, active |-> TRUE], "add member row")

AddMemberWrite(t) ==
  /\ pc[t] = "add member row"
  /\ Statement(t, MemberInsertable(View(t), got[t].email),
               InsertMember(View(t), got[t].email, got[t].phone),
               [call[t] EXCEPT !.member = View(t).lastMember + 1])

EditMemberRead(t) ==
  LET m == call[t].member IN
  /\ pc[t] = "edit member"
  /\ ShowRow(t, MemberThere(t), View(t).members[m], "type member")

EditMemberType(t) ==
  /\ pc[t] = "type member"
  /\ \E e \in Email, p \in Phone :
       TypeRow(t, [got[t] EXCEPT !.email = e, !.phone = p], "find email")

EditMemberFind(t) ==
  /\ pc[t] = "find email"
  /\ Check(t, CanRead(t) => ~ EmailTaken(View(t), call[t].member, got[t].email),
           "edit member row")

EditMemberWrite(t) ==
  LET m == call[t].member
      ok == m \in DOMAIN View(t).members => ~ EmailTaken(View(t), m, got[t].email)
  IN
  /\ pc[t] = "edit member row"
  /\ Statement(t, ok, WriteMember(View(t), m, got[t]), call[t])

DeleteMemberFind(t) ==
  /\ pc[t] = "delete member"
  /\ Check(t, MemberThere(t), "sure of member")

DeleteMemberCheck(t) ==
  /\ pc[t] = "count loans held"
  /\ Check(t, CanRead(t) => LoansHeld(View(t), call[t].member) = {},
           "delete member row")

DeleteMemberWrite(t) ==
  /\ pc[t] = "delete member row"
  /\ Statement(t, TRUE, DeleteMemberRow(View(t), call[t].member), call[t])

-----------------------------------------------------------------------------
(* database_backup, database_restore: one sqlite3_backup_step each.        *)

\* The copy is read under SHARED, and refused inside a transaction of its own.
Backup(t) ==
  /\ pc[t] = "backup"
  /\ \E p \in BackupPaths :
       backups' = IF CanRead(t) /\ lock[t] = "none"
                  THEN [backups EXCEPT ![p] = {file}] ELSE backups
  /\ Return(t)
  /\ UNCHANGED <<file, conn, reading, told>>

\* The file is replaced under EXCLUSIVE, taken at once: one reader, one other
\* writer or an open transaction of its own, and the restore fails.
Restore(t) ==
  /\ pc[t] = "restore"
  /\ \E p \in BackupPaths :
       IF lock[t] = "none" /\ CanWrite(t) /\ ~ Readers(t) /\ backups[p] # {}
       THEN /\ \E copy \in backups[p] : Wrote(t, copy, "exclusive")
            /\ Goto(t, "committing") /\ UNCHANGED <<call, got>>
       ELSE Return(t) /\ UNCHANGED conn
  /\ UNCHANGED <<file, world, told>>

-----------------------------------------------------------------------------
(* Ends of the program, expected or not, and the world outside.            *)

\* Leaving the main menu closes the connection; the program is started again.
Exit(t) ==
  /\ pc[t] = "menu"
  /\ RolledBack(t)
  /\ UNCHANGED <<file, pc, call, got, world, told>>

\* The program is killed; the journal undoes what it had not committed.
Crash(t) ==
  /\ pc[t] # "menu"
  /\ RolledBack(t) /\ Return(t)
  /\ UNCHANGED <<file, world, told>>

\* The call's next statement has begun and holds SHARED: its sqlite3_step has read
\* its rows, or the copy of a backup goes on, and it is not finalized.  Without
\* this step the statement runs in one go.
Share(t) ==
  /\ pc[t] \notin Waiting \cup NotShared
  /\ t \notin shared /\ lock[t] = "none" /\ CanRead(t)
  /\ shared' = shared \cup {t}
  /\ UNCHANGED <<file, pc, call, got, conn, world, told>>

ReaderComes ==
  /\ Outside /\ ~ reading
  /\ \A t \in Terminal : lock[t] \in {"none", "reserved"}
  /\ reading' = TRUE
  /\ UNCHANGED <<file, backups, pc, call, got, conn, shared, told>>

ReaderGoes ==
  /\ reading
  /\ reading' = FALSE
  /\ UNCHANGED <<file, backups, pc, call, got, conn, shared, told>>

-----------------------------------------------------------------------------
Requests ==
  [op : {"loan"}, book : BookId, member : MemberId, loan : {0}]
    \cup [op : {"return"}, book : {0}, member : {0}, loan : LoanId]
    \cup [op : {"edit book", "delete book"}, book : BookId, member : {0}, loan : {0}]
    \cup [op : {"edit member", "delete member"}, book : {0}, member : MemberId,
          loan : {0}]
    \cup [op : {"add book", "add member", "backup", "restore"},
          book : {0}, member : {0}, loan : {0}]

\* One statement of the call terminal t is in.
Step(t) ==
  \/ LoanReadBook(t) \/ LoanReadMember(t) \/ LoanCount(t) \/ LoanDuplicate(t)
  \/ LoanBegin(t) \/ LoanInsert(t) \/ LoanTakeCopy(t)
  \/ ReturnRead(t) \/ ReturnBegin(t) \/ ReturnMark(t) \/ ReturnGiveCopy(t)
  \/ Commit(t) \/ Committed(t)
  \/ AddBook(t) \/ EditBookRead(t) \/ EditBookWrite(t)
  \/ DeleteBookFind(t) \/ DeleteBookCheck(t) \/ DeleteBookWrite(t)
  \/ AddMemberFind(t) \/ AddMemberWrite(t)
  \/ EditMemberRead(t) \/ EditMemberFind(t) \/ EditMemberWrite(t)
  \/ DeleteMemberFind(t) \/ DeleteMemberCheck(t) \/ DeleteMemberWrite(t)
  \/ Backup(t) \/ Restore(t)

User(t) ==
  \/ \E c \in Requests : Ask(t, c)
  \/ EditBookType(t) \/ EditMemberType(t)
  \/ Confirm(t, "sure of book", "count loans out")
  \/ Confirm(t, "sure of member", "count loans held")
  \/ Exit(t)
  \/ Crash(t)

\* A step ends the statement that was in progress, and its SHARED.
Run(t) == Step(t) /\ shared' = shared \ {t}

Next ==
  \/ \E t \in Terminal : Share(t) \/ ((Step(t) \/ User(t)) /\ shared' = shared \ {t})
  \/ ReaderComes
  \/ ReaderGoes

Spec == Init /\ [][Next]_vars

\* A call that was made runs on by itself; users owe nothing.
FairSpec == Spec /\ \A t \in Terminal : WF_vars(Run(t))

-----------------------------------------------------------------------------
(* Properties.                                                             *)

\* File, backups and copies are well-formed, a copy exists only under a lock,
\* and locks are held only inside a transaction or while a statement commits.
TypeOK ==
  /\ IsDatabase(file)
  /\ \A p \in BackupPaths : \A copy \in backups[p] : IsDatabase(copy)
  /\ lock \in [Terminal -> {"none", "reserved", "pending", "exclusive"}]
  /\ begun \in [Terminal -> BOOLEAN]
  /\ \A t \in Terminal :
       /\ IsDatabase(work[t])
       /\ lock[t] = "none" => work[t] = EmptyDatabase
       /\ lock[t] # "none" => begun[t] \/ pc[t] = "committing"
  /\ shared \subseteq {t \in Terminal : lock[t] = "none"}

\* However calls interleave and wherever terminals die, no loan in the file or
\* in a backup of it names a book or a member that is gone: FOREIGN KEY and ON
\* DELETE CASCADE hold what the checks of loan_book, delete_book and
\* delete_member, made before the transaction, cannot.
NoOrphanLoan ==
  /\ ReferencesHold(file)
  /\ \A p \in BackupPaths : \A copy \in backups[p] : ReferencesHold(copy)

\* However two registrations and edits interleave, no two rows of the file or of
\* a backup have one isbn or one email: add_member and update_member look the
\* email up before they write, and pass when they find the file locked; UNIQUE is
\* what holds.
NoTwins ==
  /\ KeysUnique(file)
  /\ \A p \in BackupPaths : \A copy \in backups[p] : KeysUnique(copy)

\* Loans and returns alone never lose a copy, though they can count one twice:
\* what is on the shelf and what is out make at least the copies owned.
NoCopyLost ==
  \A b \in DOMAIN file.books :
    file.books[b].available + Cardinality(LoansOut(file, b)) >= file.books[b].total

\* What the call of t writes, made to d as one step, gives e.
WholeCall(t, d, e) ==
  LET c == call[t] IN
  \/ c.op = "loan" /\ e = LentOut(d, c.book, c.member, Due)
  \/ c.op = "return" /\ e = IncrementAvailable(MarkReturned(d, c.loan), c.book)
  \/ c.op = "add book" /\ \E i \in Isbn, n \in Copies : e = InsertBook(d, i, n)
  \/ c.op = "edit book" /\ e = WriteBook(d, c.book, got[t])
  \/ c.op = "delete book" /\ e = DeleteBookRow(d, c.book)
  \/ c.op = "add member" /\ e = InsertMember(d, got[t].email, got[t].phone)
  \/ c.op = "edit member" /\ e = WriteMember(d, c.member, got[t])
  \/ c.op = "delete member" /\ e = DeleteMemberRow(d, c.member)
  \/ c.op = "restore" /\ \E p \in BackupPaths : e \in backups[p]

\* Every change of the file is the whole of the writes of the call that commits,
\* made to the file as it was just before: no half of a transaction, no update
\* lost, no matter who was killed, locked out or left with an open transaction.
WholeTransactions ==
  [][\E t \in Terminal : pc[t] = "committing" /\ WholeCall(t, file, file')]_file

\* What a terminal reports as done is in the file, and stays (as long as nobody
\* restores an old one).
Durable == \A fact \in told : Recorded(file, fact)

\* So it is at least of the calls that report after a COMMIT of theirs, whoever
\* reads, is killed or fails to commit after them.
CommitsLast == \A fact \in told : fact[3] => Recorded(file, fact)

\* A terminal that waits for its user, at the menu or in the middle of a screen,
\* keeps nobody out, with one exception: after a COMMIT that failed it keeps its
\* transaction and PENDING.  Every other way out of a call ends the transaction.
LeftOpen ==
  \A t \in Terminal :
    pc[t] \in Waiting =>
      t \notin shared /\ lock[t] = IF begun[t] THEN "pending" ELSE "none"

\* A terminal alone, killed or not, read from outside or not, changes the file
\* only as the calls of Library do: its checks still hold when it commits.
Alone == INSTANCE Library WITH
  LoanDays <- {0}, FirstDay <- Today, MaxDay <- Today, db <- file, today <- Today

ActsAlone == [][Alone!Next]_<<file, backups>>

\* Seen from outside, one terminal is a lending library even halfway through a
\* call, with a transaction left open or after a death: each of its steps is one
\* transfer, arrival or departure of Lending, or does not show.
LendsAsPromised == [][Alone!Promise!Next]_(Alone!Promise!vars)

\* Every call comes to an end, with a result or without: nothing waits for a
\* lock, so no terminal waits for another.
CallsEnd ==
  \A t \in Terminal : pc[t] \notin Waiting ~> pc[t] \in Waiting

\* validate_book's "available_copies > total_copies" (book.c:411) never applies.
CopiesWithinTotal == \A b \in DOMAIN file.books : ValidBook(file.books[b])

\* README "최대 대출 권수 제한 (5권)": the limit on the loans of one member.
MemberLimit == LimitKept(file)
=============================================================================
