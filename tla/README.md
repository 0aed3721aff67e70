# A verification of the library management program

The program (`src/src/*.c`) is a console application for a lending library. It
keeps books, members and loans in one SQLite file, `library.db`; a user walks
through menus, and every menu item calls a function of `book.c`, `member.c`,
`loan.c` or `database.c` that executes a few SQL statements. It is small, but
it has a counter that must agree with a table, two-statement transactions,
checks made before the transaction they are for, a whole-file restore, growing
buffers, and nothing that keeps two terminals from working on one file.

Contents: [parts](#the-parts-of-the-system), [plan](#plan),
[modules and code](#modules-and-code), [runs](#the-runs),
[fairness](#fairness), [proofs](#what-is-proved),
[disagreements](#where-code-and-documents-disagree),
[not modelled](#what-is-not-modelled).

## The parts of the system

| Part | State it keeps | Operations that change it | What makes it correct |
|---|---|---|---|
| Schema, `database.c` 26-120 | tables `books`, `members`, `loans`, three AUTOINCREMENT counters | every SQL statement | types, UNIQUE, FOREIGN KEY with ON DELETE CASCADE, ids never reused |
| Books, `book.c` | rows of `books`, `available_copies` among the columns | `add_book`, `update_book`, `delete_book` | copies on the shelf + copies lent = copies owned; no book goes while lent |
| Members, `member.c` | rows of `members`, `is_active` | `add_member`, `update_member`, `delete_member`, `(de)activate_member` | no member goes with a loan; the limit on loans |
| Loans, `loan.c` | rows of `loans` | `loan_book`, `return_book`, `return_book_by_ids`, `extend_loan` | INSERT and counter together or not at all; limit; no second copy of a title; a returned loan stays returned |
| Transactions, `database.c` 125-150 | the connection: between BEGIN and COMMIT, its lock | `database_begin/commit/rollback_transaction`, `database_close` | atomic, durable; a lock outlives its call only after a COMMIT that failed |
| Backup and restore, `database.c` 186-266 | backup files | `database_backup`, `database_restore` | what comes back is as sound as what was kept |
| Search results, `book.c` 440-520 and twins | heap block, capacity, count | `init_..`, `.._callback`, `free_..`, `print_..` | the answer shown is the answer of the query; memory is freed once |
| Menus and sessions, `main.c` | the screen, the row read before the user types | `handle_*_menu`, `*_interactive` | no call before its questions are answered; one call at a time |
| Input, `utils.c` 280-357 | what stdin still holds | `get_user_input`, `get_integer_input`, `get_yes_no_input`, `pause_for_user` | an answer is taken for the question it was typed for; what the end of the input leads to |
| Reports, `main.c` 996-1105 | none | statistics screens | the numbers shown |
| Field formats, arrays, configuration, logging, strings, presentation, `utils.c`, `main.c` | the configuration record | pure functions, files of text | see [not modelled](#what-is-not-modelled) |

**How they interact.** The menus call one function at a time and wait for it.
`loan.c` calls `get_book_by_id` and `check_member_loan_eligibility` before it
writes; its two statements write a table of its own and a column of `books`.
Deletions of books and members reach `loans` by cascade. Backup and restore
copy the file under all of them. Two copies of the program share only the file,
through SQLite's locks; `main.c` takes no lock of its own and sets no busy
timeout (`database.c` 8-24), so a statement that meets a lock fails at once.

**Which behaviours are hard.** Each is a hazard of `PROJECT.json`, at its line:
statements of another terminal between a check and the transaction it is for; a
check whose SELECT fails because the file is locked and which then *passes*
(`member.c` 443, `loan.c` 524); death between two statements; a COMMIT that meets a
SELECT of another terminal, fails and is not rolled back (`loan.c` 98, 175); the row
a user edits growing stale while he types; a restore under counters and ids that
went on; dates at the end of the calendar and dates read as numbers; a buffer at its
maximum, and `realloc` or the query itself failing in the middle of an answer; a
line longer than the buffer of its question, which answers the next ones; the end of
the input in the middle of a screen.

## Plan

Most important first; all of it is done but what step 7 names.

1. `Tables`, `Library`: the database as a value, one action per call. Runs
   `LibraryPeople`, `LibraryRestore`; proof of every safety property.
2. `Lending`: the abstract library, implemented by `Library`; checked by the
   same two runs and proved.
3. `Terminals`: every call the menus offer that writes, one SQL statement at a
   time, several terminals, locks, deaths, failed COMMITs, backups and restores.
   Runs `OneTerminal`, `TwoTerminals`, `TwoLenders`; proof of the properties
   that hold for any number of terminals.
4. `QuietProofs`: which locks a call leaves behind, and which reports last;
   `CopiesProofs`: what holds when terminals only lend and take back;
   `AloneProofs`: a single terminal refines the whole calls of `Library`, and so
   has what is proved of them, down to `Lending`.
5. `SearchBuffer`: the result buffers of every list and search. Run
   `SearchSmall`; proof for all capacities.
6. `Session`: the menu tree, every screen and the input loops. Run `Session`;
   proof of its safety properties.
7. Left: a restore from a file the program never finished writing, for which
   `Tables` would need a database without tables. The array functions of
   `utils.c` were planned and dropped: nothing in `src/` calls them.

## Modules and code

| Module | Models | State | Actions |
|---|---|---|---|
| `Tables` | the schema and every INSERT, UPDATE and DELETE of `book.c`, `member.c`, `loan.c`; the checks of `loan.c` and `member.c` | none: operators on a database value | none |
| `Library` | one terminal with the file to itself, one call of the C code at a time | `db` the file, `today` the clock, `backups` the files at the backup paths | `AddBook`, `UpdateBook`, `DeleteBook`, `AddMember`, `UpdateMember`, `DeleteMember`, `DeactivateMember`, `ActivateMember`, `LoanBook`, `ReturnBook`, `ReturnBookByIds`, `ExtendLoan`, `Backup`, `Restore`, `Tick` |
| `Lending` | what a library promises, without rows, ids, counters and dates | `shelf`, `patrons`, `held`, `kept` | `Acquire`, `Discard`, `Join`, `Leave`, `Lend`, `GiveBack`, `Keep`, `BringBack` |
| `Terminals` | several running programs, one SQL statement at a time | `file` what is committed; `backups`; per terminal `pc`, `call`, `got` (the stack of the call), `begun`, `lock`, `work` (its connection); `shared` (the terminals in the middle of a statement) and `reading` (something outside); `told` | `LoanReadBook` ... `LoanTakeCopy`, `ReturnRead` ... `ReturnGiveCopy`, `Commit`, `Committed`, `AddBook`, `EditBookRead/Type/Write`, `DeleteBookFind/Check/Write`, the same of members with `...MemberFind` for their emails, `Confirm`, `Backup`, `Restore`, `Ask`, `Exit`, `Crash`, `Share`, `ReaderComes`, `ReaderGoes` |
| `SearchBuffer` | a screen that lists: result, query, callback, print, free | the block and its `capacity` and `count`, `heap`, the query, what was shown | `Ask`, `AskWithoutMemory`, `Callback`, `QueryFails`, `NoMoreRows`, `Show`, `ShowError` |
| `Session` | one sitting: menus, screens, prompts and what stdin gives them | `menu`, `screen`, `at` (the step of its script), `input`, `rest` (what is left of a line), `stray` and `pieces` (of a line typed at a pause, and how much of it has been read), `answers`, `after` | `Type`, `ReadRest`, `ReadNothing`, `TypeAtPause`, `PauseByItself`, `LookUp`, `MakeCall`, `ShowReport`, `EndInput` |
| `MCLibrary`, `MCTerminals` | instances for TLC | | |
| `TablesProofs`, `LibraryProofs`, `TerminalsProofs`, `QuietProofs`, `CopiesProofs`, `AloneProofs`, `SearchProofs`, `SessionProofs` | theorems | | |

`Library` and `Terminals` both EXTEND `Tables`, so a statement means the same
in both, and its lemmas in `TablesProofs` serve both proofs. `Library`
instantiates `Lending` under a refinement mapping; `Terminals` instantiates
`Library` (`Alone`) to say that one terminal by itself does nothing but whole
calls, and `LendsAsPromised` is the abstract library of that instance. For proofs
`AloneProofs` instantiates `LibraryProofs` (`Whole`), whose lemmas then speak of the
file of the terminals.

**The database as a value.** A table is a function from ids to rows; an
operator such as `InsertLoan(d, b, m, due)` is the statement `INSERT INTO loans`
and gives the database it leaves. `d.lastLoan` is the AUTOINCREMENT counter.
Columns no check and no property reads (title, author, name, address, the
timestamps) are abstracted. Time is counted in days since 1970; 2932896 is
9999-12-31, the last date `datetime()` can express, and beyond it the INSERT of
a loan fails because `due_date` is NOT NULL. `YearRead` is what
`sqlite3_column_int64` makes of a date text - the leading digits, the year -
and `ClockSeconds` is `time(NULL)`; `extend_loan` compares the one with the
other.

**One call, one action** in `Library` is justified by the program being
sequential and SQLite being given to one process; `OneTerminal` checks exactly
this claim statement by statement (`ActsAlone`), deaths and failed COMMITs
included, and `AloneProofs` proves it. A call the code refuses changes no state and
is no step. Members are activated and deactivated by the API and its tests, not by
a menu.

**SQLite is external** and modelled as the program uses it: a rollback journal,
one RESERVED lock, a COMMIT that needs every reader gone, foreign keys switched
on (`database.c` 18), a statement by itself being its own transaction, and the
journal undoing what a dead process had not committed. A terminal holds SHARED from
the `sqlite3_step` of a SELECT to its `sqlite3_finalize`, and for the whole of a
backup: `Share` begins such a statement, the statement's own action ends it, and in
between every COMMIT of another terminal fails (`Readers`). A write that changes no
row needs no exclusive lock and is not refused by a reader. Inside a transaction that
a failed COMMIT left open, a later statement is one more statement of it, and a
later BEGIN fails.

**A screen of `Session` is a script**, the sequence of its questions, lookups,
calls and pauses: `DeleteBook == <<Id, Find, YesNo("leave"), Call("delete book"),
Pause>>` is `delete_book_interactive` (`main.c` 403-435). Every screen of this
program is straight-line code in which a refusal ends at the pause, so eight
kinds of step and five moves (`Proceed`, `Open`, `Leave`, `Refuse`, `AskAgain`)
say all of `main.c`. What a call does is `Library`'s business; what the database
may do while the user is asked is `Terminals`'. A word typed is blank, a text, an
email address, a yes, a no or a number, and a number goes through `Atoi`, which
keeps the low bits of an `int` as the code does.

**Several terminals** are in scope because nothing in the program excludes
them: `main.c` opens `./library.db`, takes no lock, and reports a busy database
as an ordinary failure. A COMMIT fails when anybody else is reading: another
terminal in the middle of a SELECT or a backup (`shared`), or something outside the
program, the `sqlite3` shell or a copying tool (`reading`). Two terminals are enough.

**What two terminals can do to each other**, beyond the runs that end in a violation:
lend a book while another deletes it or its member, so that the loan is cascaded away
(`book.c` 265, `member.c` 253), all the more when the count of outstanding loans finds
the file locked and passes; lend a copy while another edits the book, whose whole row,
the old counter in it, is then written back (`main.c` 393); lend one member one book
twice, of which `return_book_by_ids` finds the newer loan first; say yes to a row that
is no longer what the screen shows (`main.c` 423). All of it is behaviour of
`Terminals`, nothing forbids it, and none of it is claimed not to happen: what is
claimed of several terminals is what the table below says of `TwoTerminals` and
`TwoLenders`. Of one terminal it cannot happen (`ActsAlone`).

## The runs

Every passing run checks its whole state space. Every bound is a constant of
its `.cfg`; AUTOINCREMENT running out at `MaxBookId`, `MaxMemberId`, `MaxLoanId`
is the bound that makes the spaces finite, and the code's reaction (the INSERT
fails, the transaction is rolled back) is modelled as that of a full table.

| Run | Instance | Question and answer |
|---|---|---|
| `LibraryPeople` | 2 books of 1 or 2 copies, 2 members, 3 loans, limit 1, a calendar that ends two days on | Through any sequence of calls: are the tables well-formed (`TypeOK`, also when a due date falls off the calendar), does no loan name a row that is gone (`NoOrphanLoan`), is the limit kept (`MemberLimit`), does the ledger only grow (`LedgerOnlyGrows`), is every call a step of the abstract library (`KeepsPromise`)? Yes. |
| `LibraryRestore` | 2 books, members in turn, 3 loans, limit 2, one backup path | Restores at any moment after any backup: do the counters agree with the loans (`CopiesConserved`), is nobody given a title twice (`NoDuplicateLoan`), is every backup sound (`BackupsSound`), is a restore one abstract step (`KeepsPromise`)? Yes. |
| `OneTerminal` | 1 terminal, all calls with a backup path, a reader outside, 2 books, 2 members, 1 loan | Is every change of the file and of the backup a whole call of `Library` whose checks still held (`ActsAlone`), does what shows of it outside follow the abstract library (`LendsAsPromised`), and does every call end (`CallsEnd`)? Yes, also when COMMITs fail and the program dies anywhere. |
| `TwoTerminals` | 2 terminals, all calls on rows, nobody outside, 1 book, 3 members in turn, 2 loans | Deaths anywhere, and COMMITs that fail because the other terminal is in the middle of a SELECT: is every change of the file the whole of the call that commits, with its own arguments (`WholeTransactions`), do references hold (`NoOrphanLoan`), is no email registered twice (`NoTwins`), does what was reported after a COMMIT stay (`CommitsLast`, noted of loans), does a terminal that waits for its user keep nobody out unless a COMMIT of its has failed (`LeftOpen`), are locks held only inside a transaction (`TypeOK`)? Yes. |
| `TwoLenders` | 2 terminals lending and returning, a reader outside, 2 copies, 3 loans | Is a copy ever lost (`NoCopyLost`), is a transaction ever split, with COMMITs failing and checks passing unread? No. |
| `SearchSmall` | two kinds of row, first capacity 1, maximum 5, answers of 0 to 6 rows, memory enough or short, a query that fails by itself | Is what a screen shows the answer of its query (`AnswerWhole`), do the callbacks, with memory enough, abort only for answers over the maximum, and show none (`RefusedForLength`), does the block stay proportionate (`Proportionate`), is it freed once (`NoLeak`)? Yes. |
| `Session` | every screen; numbers in range, out of range and large enough to wrap into it; up to 3 further reads from one line; the input ending anywhere | Does a call run only after each of its required questions had an answer (`CallsAnswered`)? Yes. What can a line typed at a pause do? It meets a menu first, and pays a piece of itself for the choice and for every answer after it (`StrayPaysForAll`): a short one only chooses, a long one goes through a screen and makes its call. What happens after the end of the input? At most the one call already under way, and none that deletes, takes back, restores or renews (`AfterTheEnd`); then the program asks one question for ever (`AsksForEver`). |
| `RenewalOffered`, `PhoneUnique`, `ReturnedTwice`, `LimitPassed`, `CommitFailed` | a small instance that shows it; for the last, two terminals and nobody outside | Violated: see [disagreements](#where-code-and-documents-disagree). |

**Why the bounds are enough.** A violation of a `Library` property relates at most
one book, one member and two loans, and a third row is there to be confused with
them; limit 1 with two books, and limit 2 with duplicates, are both at the boundary
of the comparison; ids are used up, so deleting and adding again is covered. Two
terminals are enough for a lost update, a passed check and a lock left behind,
because only one terminal can hold a lock to write; three member ids let two
terminals register one email beside a member who is there. `TwoTerminals` has no
backups, because a restore voids what was reported before it; restores among several
terminals are covered by the proofs, and so are reports of other calls than loans,
which the run does not note to stay small. A rest of three pieces is what a deletion
chosen at a pause takes: the choice, the id, the yes. An `int` of 16 values and a
`long` of 128 keep the order of the two and of the bounds of the prompts: 17 is
taken for 1, and 200 becomes -1 and is refused. A maximum of 5 is no power of two
times 1, as 1000 is none times 10. What is proved holds for every value of the
constants, so the runs' bounds matter only for what is not proved. The terminals are
interchangeable in every property, so the runs with two use symmetry; `CallsEnd` is
checked without.

Every property has a mutant: a "seeded fault" definition next to the definition
it replaces, a bug the code could plausibly have, under which the run fails.

## Fairness

`OneTerminal` assumes weak fairness of `Run(t)`, the statements of a call that
has begun. The code justifies it: between its first statement and its return a
call waits for nothing - no busy timeout is set, so a locked database is an
error and not a wait - and the labels where input is read (`Waiting`: the
confirmations and the edits) are the user's turn, in `User(t)`. Users are not
obliged to ask, type or leave; deaths and the reader outside are never obliged
to happen, nor the reader to go away. The mutant of `CallsEnd` (a COMMIT that is
tried again) is refuted by a reader who stays.

`Session` assumes weak fairness of `Program`, what the program does by itself:
it is a loop that runs on unless it waits for a line, and at the end of the
input it does not wait. The user owes it nothing; `AsksForEver` is about a
program left alone.

## What is proved

With the TLA+ proof system, for every value of the constants that satisfies the
named assumptions (`TablesAssumption`, `LibraryAssumption`,
`TerminalsAssumption`, `SearchAssumption`, `SessionAssumption`: types of the
constants, a calendar of real length, a stock whose references hold and whose keys
are unique, bounds of prompts that an `int` can hold). No other assumption is made,
except by the eight theorems of `QuietProofs` (`ReportsStay`), `CopiesProofs` and
`AloneProofs` that name theirs.

* `TablesProofs`: what each statement preserves - that it leaves a database,
  keeps references, keeps or moves the sum of copies, keeps the limit, and so on
  - as lemmas, the counting ones by the library's theorems on finite sets.
* `LibraryProofs`: `Typing`, `References`, `Conservation`, `Limit`, `NoDuplicates`,
  `NeverRenewed`, `SoundBackups`, `Ledger`. The inductive invariant is the
  conjunction of the invariants themselves: none is inductive alone. A deletion
  keeps the copies right only because no loan is out, the limit is not disturbed by
  a restore only because every backup keeps it too, and a return finds its book only
  because references hold. `NeverRenewed` is no promise but a defect made exact, so
  no run checks it (`RenewalOffered` shows one refusal); it rests on the arithmetic
  of dates: within the calendar the year number is far below the seconds since 1970
  of any later day. `Refinement` says that `Library` implements `Lending`: Init maps
  to Init, and each call maps to one abstract step or none; that a return takes
  exactly one pair out of `held` needs `NoDuplicateLoan`, that a loan puts one in
  needs the duplicate check, that a deletion discards needs no loan out.
* `TerminalsProofs`: for any number of terminals with any calls, restores
  included, `Typing`, `References`, `NoRowTwice`, `OneWriterAtATime` and
  `Transactions`. The invariant says how much of its
  writes each call has made: at `take copy` the working copy is the file with
  one row inserted, at `commit` and `committing` it is the file with the whole
  of one call's writes. It survives other terminals because only one holds a
  lock, so the file cannot change under a working copy; it survives a failed
  COMMIT because the open transaction is then spoken of by no label but
  `Typing`, and a statement that joins it never commits. That the writes are those of
  the call's own arguments needs to know which call is at which label (`OpAt`), and
  that a lock is held outside a transaction only while committing needs that nobody
  reads a file that is being replaced (`ReadersSafe`). `References` and
  `NoRowTwice` need that every working copy and every backup has its references
  and unique keys too.
* `QuietProofs`: `ReleasesLocks` and `ReportsStay`, for any number of terminals, with
  readers, other terminals' SELECTs and failed COMMITs. A terminal outside the labels
  between BEGIN and COMMIT holds no lock, or PENDING in a transaction whose COMMIT has
  failed (`Settled`); which of the two, `begun` says. `ReportsStay`, when nobody
  restores: what is reported inside a transaction left open may be lost, as the run
  `CommitFailed` shows, so the theorem is of reports made after a COMMIT that succeeded.
  Those are made by `Committed`, of what the working copy already holds (`Achieved`),
  or by a deletion or an edit that found no row to change. A fact that holds of one file
  holds of all later ones (`Later`), because ids only grow: nothing deleted comes
  back, and nothing returned is lent again under its id. What a call has found inside
  an open transaction may be a row nobody else will see, so the invariant speaks only of
  the ids found outside one (`Known`).
* `CopiesProofs`: `NoneIsLost`, for any number of terminals that only lend and
  take back, from a stock that has its copies, with readers outside, deaths and
  failed COMMITs. The checks made before BEGIN may be out of date at the write
  (a copy counted twice is `ReturnedTwice`), so the argument cannot rest on them.
  It rests on what a whole transaction does: lending adds a loan and takes at
  most one copy, taking back adds a copy and ends at most one loan (`NoneLost`).
  The invariant adds that the loan a return has read is a loan of the book whose
  copy it counts, and that a working copy at `commit` has lost none; after a
  failed COMMIT the next BEGIN fails, so that copy is never completed.
* `AloneProofs`: `OneTerminalActsAlone`, for one terminal with any calls, killed
  anywhere, with readers outside, from a stock without overdue loans: each step
  of `Terminals` is one whole call of `Library`, or leaves file and backups as
  they are. The invariant (`Found`) carries what each check has found, label by
  label, to the write it guards; it holds of the file unless a failed COMMIT left
  a transaction open, and then nothing the checks saw is committed (`Checked`).
  That no loan is overdue (`Timely`) is part of it, since `Library` checks it and
  the SELECT is left out here.
  The other theorems compose this with `LibraryProofs`. Every step of the terminal
  is a step of `Whole!Next` or a stutter, so the invariant of `Library` holds of
  the file between any two statements. From a stock that is itself sound, unrenewed
  and not overdue (`GoodStock`; `EmptyIsGood`): `OneTerminalLends`, the program
  implements `Lending` statement by statement, and from the empty database from the
  initial state on (`OneTerminalKeepsPromise`); `OneTerminalKeepsTheLimit` and
  `OneTerminalKeepsTheCount`, the properties that two terminals break in the runs
  `LimitPassed` and `ReturnedTwice`; `OneTerminalKeepsTheLedger`. So what goes
  wrong there needs a second terminal: no death, no failed COMMIT and no reader
  brings it about.
* `SearchProofs`: `WholeAnswers`, `RefusedOnlyForLength`, `BlockInProportion`,
  `NothingLeaks`, `Typing`: every property of its run, for all capacities. The
  invariant: while a query steps the block begins with the rows delivered so
  far, and a block is held exactly outside the menu. `RefusedOnlyForLength` is about the
  callbacks: that the query is not refused for another reason - a locked file, or an
  apostrophe in the search word, which `book.c` 153-186 and `member.c` 151-169 print
  into the SQL unescaped - is neither true nor claimed.
* `SessionProofs`: `Typing`, `OneCallMore`, `CallsWait` and `StrayChooses`
  (`StrayPaysForAll`), the invariants of the run, for any width of an `int` and a
  `long`, any numbers typed and any length of a line. First every script is shown to
  have one form (`WellMade`): it ends once, at a pause, a choice or with the
  program; a call is followed by the last pause; what a call waits for is asked
  again or refused at the end of the input, but for five calls behind questions that
  may be skipped (`Skippable`). Then the steps are looked at for any script of that
  form. The invariant counts the answers demanded up to the step the screen is at
  (`Counted`, which a refusal that jumps to the pause leaves as a bound only), says
  that at the end of the input the program is never at a call that is not skippable,
  at a report or at its end (`Unattended`), and that after a call made there it is
  at a pause or a menu (`OneMore`): menus ask for a number and never get one, so no
  second call is reached. A line typed at a pause has had no fewer pieces than the
  screen has answers, beside the one that chose it (`Paid`). Two more theorems are
  the safety half of `AsksForEver`: once the input has ended the program does not
  end by itself (`StaysUp`), and a question that wants an answer is asked for ever
  (`AskedForEver`).

Only model-checked: `CallsEnd`, and of `AsksForEver` that such a question is
reached. Both are liveness, out of the prover's reach. Theorems about what
`Script` holds are proved script by script; nothing is proved by induction over
data.

## Where code and documents disagree

With a run that shows it:

* `RenewalOffered`: `extend_loan` refuses every renewal, because `get_loan_by_id`
  reads the due date as its year (`loan.c` 305, 242). README line 21 offers two.
* `PhoneUnique`: no check and no constraint keeps telephone numbers apart
  (`database.c` 71). README line 15 says they are checked.
* `ReturnedTwice`: `return_book` tests `is_returned` before BEGIN and not in its
  UPDATE; two terminals count one copy twice, and the book has more copies
  available than it has (`loan.c` 117, 130), which `validate_book` refuses.
* `LimitPassed`: the limit is counted before BEGIN; two terminals pass it.
* `CommitFailed`: a COMMIT that fails is not rolled back (`loan.c` 98, 175); the
  next calls of that terminal join the open transaction, report success, and are
  undone when the program ends.

Noticed and not given a run: a second book without an ISBN is refused, since the
empty text is stored under UNIQUE (`book.c` 39), though the prompt calls it optional
(`main.c` 233); the list of all books and of all members stops at 100 (`main.c` 336)
while README line 11 says all; searching by ISBN searches titles (`main.c` 308) and
by email names (`main.c` 579); `update_*`, `delete_*` and `(de)activate_member` of
an id that does not exist report success; the loan limits of `config.ini` are loaded
and shown on the settings screen (`main.c` 1226) and never obeyed; `is_valid_email`,
`is_valid_phone` and `is_valid_isbn` accept texts the tests
(`tests/unit/test_utils.cpp` 58-132) call invalid; the statistics screens count an
uninitialised result; a line longer than the buffer of its question answers the
following ones (`utils.c` 295: an id, thirty blanks and a `y` delete a book whose
row its user never saw), which `CallsAnswered` does not exclude, for the question
was answered; the same at a pause, where a line long enough chooses a screen of the
menu and answers it up to its call; a search word with an apostrophe is an error of
the database (`book.c` 153-186, `member.c` 151-169); 4294967297 is accepted as the
id 1 (`utils.c` 128).

## What is not modelled

* Backup and restore: a restore from a file the program did not finish writing.
  `database_backup` opens, and so creates, its file before it copies (`database.c`
  197); if the copy then fails, or the program dies, an empty file is left, and
  restoring it gives a database without tables until `database_create_tables`
  runs at the next start. The model restores what was backed up.
* Terminals: the overdue check of `check_member_loan_eligibility` (the run lasts
  less than a day) and the calls that write nothing; `extend_loan` is one of
  them, by theorem `NeverRenewed`. All are in `Library`.
* Reports: their screens are in `Session`, where they come back or kill the
  program. Their numbers are not modelled: three of them count through an
  uninitialised result, which may be anything.
* Field formats (`is_valid_email`, `is_valid_phone`, `is_valid_isbn`): no later
  step depends on the form of a text. Which questions may be skipped and which
  are asked again is in `Session`.
* Arrays and numbers (`utils.c`: sorting, searching, median, mode): no code of
  the program calls them.
* Configuration: only the path of the database and the default loan period reach
  the rest of the program; the first says which file `db` is, the second is one
  of the `LoanDays` a call may ask for.
* Logging, file helpers, presentation, string helpers: output only, or pure.
* SQLite itself, `src/src/external`: vendored; modelled from its use.
* Tests are read for what they expect. Several are written against an earlier
  interface (`simple_test.c` 42 expects `add_book` to return SUCCESS, where it
  returns the id).
