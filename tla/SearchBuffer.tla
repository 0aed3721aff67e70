---------------------------- MODULE SearchBuffer ----------------------------
(***************************************************************************)
(* Searches and lists.  A screen of main.c initialises a search result (a  *)
(* heap block, its capacity, a count), hands it to a query of book.c,      *)
(* member.c or loan.c, prints what came back and frees it.  sqlite3_exec   *)
(* calls book_callback, member_callback or loan_callback (they differ only *)
(* in the columns they copy) once for each row; the callback doubles the   *)
(* block when it is full, up to MAX_SEARCH_RESULTS, and aborts the query   *)
(* when it cannot.  sqlite3_exec also fails by itself: on a locked file,   *)
(* on a search word with an apostrophe (it is printed into the SQL as it   *)
(* was typed), for want of memory of its own.                              *)
(***************************************************************************)
EXTENDS Integers, Sequences

CONSTANTS
  Row,            \* rows of books, members or loans
  Unset,          \* what fresh memory holds: no row
  Lengths,        \* how many rows a query may find
  ListLimit,      \* the LIMIT of the two "list all" screens (100)
  INITIAL_SEARCH_CAPACITY, MAX_SEARCH_RESULTS   \* constants.h

ASSUME SearchAssumption ==
  /\ Unset \notin Row
  /\ Lengths \subseteq Nat
  /\ ListLimit \in Nat \ {0}
  /\ INITIAL_SEARCH_CAPACITY \in Nat \ {0}
  /\ MAX_SEARCH_RESULTS \in Nat
  /\ INITIAL_SEARCH_CAPACITY <= MAX_SEARCH_RESULTS

VARIABLES
  phase,     \* "menu", "stepping" through rows, "done", "aborted" or "failed"
  ram,       \* "enough" or "short": malloc and realloc may fail
  found,     \* the rows in the table that match, in ORDER BY order
  limit,     \* the LIMIT of the query, 0 for none
  next,      \* how many rows sqlite3_exec has delivered
  block,     \* result->books: the memory the rows are copied to
  capacity,  \* result->capacity
  count,     \* result->count
  heap,      \* blocks allocated and not yet freed
  verdict,   \* what the last screen said: "none", "shown", "failed", "no memory"
  screen     \* the rows it printed

vars == <<phase, ram, found, limit, next, block, capacity, count, heap,
          verdict, screen>>
query == <<ram, found, limit>>
shown == <<verdict, screen>>

NoBlock == [i \in {} |-> Unset]

\* The rows the query yields.
Wanted(rows, n) == IF n = 0 \/ Len(rows) <= n THEN rows ELSE SubSeq(rows, 1, n)

Init ==
  /\ phase = "menu" /\ ram = "enough"
  /\ found = <<>> /\ limit = 0 /\ next = 0
  /\ block = NoBlock /\ capacity = 0 /\ count = 0
  /\ heap = 0
  /\ verdict = "none" /\ screen = <<>>

-----------------------------------------------------------------------------
\* A screen initialises its result and starts its query; the memory there is
\* while it runs may be enough or not.
Ask(rows, n) ==
  /\ phase = "menu" /\ ram' \in {"enough", "short"}
  /\ phase' = "stepping"
  /\ found' = rows /\ limit' = n /\ next' = 0
  /\ block' = [i \in 1..INITIAL_SEARCH_CAPACITY |-> Unset]
  /\ capacity' = INITIAL_SEARCH_CAPACITY /\ count' = 0
  /\ heap' = heap + 1
  /\ verdict' = "none" /\ screen' = <<>>

\* malloc fails: the screen says so and asks nothing.
AskWithoutMemory(rows, n) ==
  /\ phase = "menu" /\ ram' = "short"
  /\ found' = rows /\ limit' = n
  /\ verdict' = "no memory" /\ screen' = <<>>
  /\ UNCHANGED <<phase, next, block, capacity, count, heap>>

\* The row is copied behind the rows already there.
Store(memory) ==
  /\ block' = [memory EXCEPT ![count + 1] = Wanted(found, limit)[next + 1]]
  /\ count' = count + 1
  /\ next' = next + 1
  /\ UNCHANGED <<phase, heap>>

\* Seeded fault: the block is full one row too late.
FullTooLate == count > capacity
Full == count >= capacity

\* Seeded fault: a capacity that would pass the maximum is not cut down to it.
DoubledOrNothing ==
  IF 2 * capacity > MAX_SEARCH_RESULTS THEN capacity ELSE 2 * capacity
\* Seeded fault: the capacity is ten times what it was.
Tenfold ==
  IF 10 * capacity > MAX_SEARCH_RESULTS THEN MAX_SEARCH_RESULTS ELSE 10 * capacity
NewCapacity ==
  IF 2 * capacity > MAX_SEARCH_RESULTS THEN MAX_SEARCH_RESULTS ELSE 2 * capacity

\* Seeded fault: a block of its own, and the rows stay behind in the old one.
FreshBlock(n) == [i \in 1..n |-> Unset]
\* realloc: the old contents, then memory nobody wrote.
Reallocated(n) == [i \in 1..n |-> IF i \in DOMAIN block THEN block[i] ELSE Unset]

Abort ==
  /\ phase' = "aborted"
  /\ UNCHANGED <<next, block, capacity, count, heap>>

\* book_callback, member_callback, loan_callback: one row; abort or go on.
Callback ==
  /\ phase = "stepping" /\ next < Len(Wanted(found, limit))
  /\ \/ ~ Full /\ Store(block) /\ UNCHANGED capacity
     \/ Full /\ (count >= NewCapacity \/ ram = "short") /\ Abort
     \/ /\ Full /\ count < NewCapacity
        /\ Store(Reallocated(NewCapacity)) /\ capacity' = NewCapacity
  /\ UNCHANGED <<query, shown>>

\* sqlite3_exec fails without a word of the callback: SQLITE_BUSY or SQLITE_ERROR
\* before the first row, SQLITE_NOMEM before any.
QueryFails ==
  /\ phase = "stepping" /\ (next = 0 \/ ram = "short")
  /\ phase' = "failed"
  /\ UNCHANGED <<query, next, block, capacity, count, heap, shown>>

NoMoreRows ==
  /\ phase = "stepping" /\ next = Len(Wanted(found, limit))
  /\ phase' = "done"
  /\ UNCHANGED <<query, next, block, capacity, count, heap, shown>>

\* free_book_search_result and its twins free the block, if there is one.
Free ==
  /\ heap' = IF block = NoBlock THEN heap ELSE heap - 1
  /\ block' = NoBlock /\ capacity' = 0 /\ count' = 0

\* sqlite3_exec returned SQLITE_OK: the rows are printed, the result freed.
Show ==
  /\ phase = "done"
  /\ phase' = "menu"
  /\ verdict' = "shown" /\ screen' = [i \in 1..count |-> block[i]]
  /\ Free
  /\ UNCHANGED <<query, next>>

\* Seeded fault: the error path returns before the result is freed.
NotFreed == block' = NoBlock /\ capacity' = 0 /\ count' = 0 /\ UNCHANGED heap
FreedAfterError == Free

\* It returned anything else, the callback's SQLITE_ABORT or an error of its own:
\* an error message, no rows.
ShowError ==
  /\ phase \in {"aborted", "failed"}
  /\ phase' = "menu"
  /\ verdict' = "failed" /\ screen' = <<>>
  /\ FreedAfterError
  /\ UNCHANGED <<query, next>>

Next ==
  \/ \E n \in Lengths, l \in {0, ListLimit} : \E rows \in [1..n -> Row] :
       Ask(rows, l) \/ AskWithoutMemory(rows, l)
  \/ Callback \/ QueryFails \/ NoMoreRows \/ Show \/ ShowError

Spec == Init /\ [][Next]_vars

-----------------------------------------------------------------------------
(* Properties.                                                             *)

\* The result describes its block, and the block is within the maximum.
TypeOK ==
  /\ phase \in {"menu", "stepping", "done", "aborted", "failed"}
  /\ ram \in {"enough", "short"}
  /\ limit \in {0, ListLimit}
  /\ DOMAIN block = 1..capacity /\ \A i \in 1..capacity : block[i] \in Row \cup {Unset}
  /\ capacity \in 0..MAX_SEARCH_RESULTS
  /\ count \in 0..capacity
  /\ heap \in Nat

\* What a screen lists are the rows of its query, all of them, in their order,
\* each where its number says, and none of them memory nobody wrote.
AnswerWhole == verdict = "shown" => screen = Wanted(found, limit)

\* With memory enough the callbacks abort a query only if its answer is longer
\* than MAX_SEARCH_RESULTS, and no longer answer is shown: growth by doubling
\* reaches that length, though it is no power of two times the first capacity.
RefusedForLength ==
  LET length == Len(Wanted(found, limit)) IN
  ram = "enough" =>
    /\ phase = "aborted" => length > MAX_SEARCH_RESULTS
    /\ phase = "done" \/ verdict = "shown" => length <= MAX_SEARCH_RESULTS

\* A result never holds as much as twice the memory its rows need, beyond the
\* first block.
Proportionate == capacity <= INITIAL_SEARCH_CAPACITY \/ capacity < 2 * count

\* Whatever was refused, and wherever memory ran out, a screen that is left
\* has freed what it allocated, once.
NoLeak == heap = IF phase = "menu" THEN 0 ELSE 1

=============================================================================
