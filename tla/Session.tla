------------------------------- MODULE Session -------------------------------
(***************************************************************************)
(* One sitting at a terminal: the menus of main.c, the questions each      *)
(* screen asks, in their order, and the input functions of utils.c that    *)
(* read the answers.  A screen is a script, a sequence of steps; a menu is *)
(* a script of one step, the choice of the next screen.  What a call does  *)
(* to the database is the business of Library and Terminals; here it is a  *)
(* name, and a row or a file that is looked up may be there or not.        *)
(*                                                                         *)
(* Answers are words: nothing of a text matters but whether it is blank,   *)
(* an email address, a yes, a no or a number.  Three things can come       *)
(* between a question and its answer.  The input may be at its end.  A     *)
(* line too long for the buffer of one fgets is read piece by piece, and   *)
(* the later pieces answer later questions.  And a pause takes one         *)
(* character only: what else was typed there answers what is asked next,   *)
(* piece by piece too, through a menu and on to a call if it is long.      *)
(***************************************************************************)
EXTENDS Integers, Sequences, FiniteSets

CONSTANTS
  Typed,    \* the numbers users type, larger than an int or not
  IntSpan,  \* how many values an int has (2^32)
  LongMax,  \* the largest long (2^63 - 1)
  MaxId, MaxCopies, MaxDays,   \* 999999, 999 and 30: bounds of three prompts
  MaxRest   \* bound: how many more reads what is left of a line takes

ASSUME SessionAssumption ==
  /\ Typed \subseteq Int
  /\ IntSpan \in Nat \ {0} /\ IntSpan % 2 = 0 /\ LongMax \in Nat
  /\ {MaxId, MaxCopies, MaxDays} \subseteq 1..(IntSpan \div 2 - 1)
  /\ MaxRest \in Nat

VARIABLES
  menu,     \* the menu a screen goes back to
  screen,   \* where the program is
  at,       \* which step of its script is next
  input,    \* stdin is "open", or at its "end"
  rest,     \* how many more reads what is left of the last line takes
  stray,    \* nothing was typed since the last pause
  pieces,   \* the reads questions took since then of what was left there
  answers,  \* required answers given since the screen came up
  after     \* the calls made since the end of the input

vars == <<menu, screen, at, input, rest, stray, pieces, answers, after>>
place == <<menu, screen, at, answers>>
line == <<rest, stray, pieces>>

-----------------------------------------------------------------------------
(* Answers.                                                                *)

Word == [kind : {"blank", "text", "email", "yes", "no"}, n : {0}]
          \cup [kind : {"number"}, n : Typed]

\* atoi: strtol stops at the ends of a long, the cast keeps the low bits.  A
\* lone sign passes is_valid_integer and is the number 0.
Clamped(n) ==
  IF n > LongMax THEN LongMax ELSE IF n < - LongMax - 1 THEN - LongMax - 1 ELSE n
Atoi(n) == ((Clamped(n) + IntSpan \div 2) % IntSpan) - IntSpan \div 2

\* get_integer_input takes the word for a number from lo to hi.
Accepted(w, lo, hi) == w.kind = "number" /\ lo <= Atoi(w.n) /\ Atoi(w.n) <= hi

-----------------------------------------------------------------------------
(* Steps.                                                                  *)

Text == [ask |-> "text"]     \* may be skipped with Enter
Must == [ask |-> "must"]     \* may not
Email == [ask |-> "email"]   \* may not, and is asked again until it looks like one
Number(lo, hi) == [ask |-> "number", lo |-> lo, hi |-> hi]
Id == Number(1, MaxId)
\* What a no does: "leave" the screen, "pause" first, or go "on" all the same.
YesNo(no) == [ask |-> "yes", no |-> no]
Choice(screens) == [ask |-> "choice", of |-> screens]
Find == [ask |-> "find"]     \* is the row, or the file, there?
Call(op) == [ask |-> "call", op |-> op]
Report == [ask |-> "report"] \* a list query with an uninitialised result
Pause == [ask |-> "pause"]
Ended == [ask |-> "ended"]   \* no program any more

-----------------------------------------------------------------------------
(* Screens.                                                                *)

MainMenu   == <<Choice(<<"books", "members", "loans", "reports", "system">>)>>
Quit       == <<YesNo("leave"), Ended>>
Dead       == <<Ended>>

BookMenu   == <<Choice(<<"add_book", "search_books", "edit_book", "delete_book",
                         "list">>)>>
AddBook    == <<Must, Must, Text, Text, Text, Number(1, MaxCopies),
                Call("add book"), Pause>>
SearchBooks == <<Choice(<<"search", "search", "search", "search">>)>>
EditBook   == <<Id, Find, YesNo("leave"), Text, Text, Text, Call("edit book"), Pause>>
\* Seeded fault: the row is shown with a pause before the question.
DeleteBookPaused == <<Id, Find, Pause, YesNo("leave"), Call("delete book"), Pause>>
DeleteBook == <<Id, Find, YesNo("leave"), Call("delete book"), Pause>>

MemberMenu == <<Choice(<<"add_member", "search_members", "edit_member",
                         "delete_member", "list">>)>>
AddMember  == <<Must, Email, Text, Text, Call("add member"), Pause>>
SearchMembers == <<Choice(<<"search", "search", "search">>)>>
EditMember == <<Id, Find, YesNo("leave"), Text, Text, Text, Call("edit member"), Pause>>
DeleteMember == <<Id, Find, YesNo("leave"), Call("delete member"), Pause>>

Search     == <<Must, Pause>>
List       == <<Pause>>

LoanMenu   == <<Choice(<<"borrow", "return", "extend", "history", "list">>)>>
Borrow     == <<Id, Id, Text, Call("loan"), Pause>>
ReturnHow  == <<Choice(<<"return_loan", "return_copy">>)>>
ReturnLoan == <<Id, Call("return"), Pause>>
ReturnCopy == <<Id, Id, Call("return"), Pause>>
Extend     == <<Id, Find, Number(1, MaxDays), Call("extend"), Pause>>
History    == <<Choice(<<"history_of_one", "history_of_one", "list">>)>>
HistoryOfOne == <<Id, YesNo("on"), Pause>>

ReportMenu == <<Choice(<<"report", "report", "report", "list">>)>>
ReportScreen == <<Report, Pause>>

SystemMenu == <<Choice(<<"backup", "restore", "configure", "list">>)>>
Backup     == <<Text, Call("backup"), Pause>>
Restore    == <<Must, Find, YesNo("leave"), Call("restore"), Pause>>
Configure  == <<YesNo("pause"), Call("configure"), Pause>>

Menus == {"main", "books", "members", "loans", "reports", "system"}

Script ==
  [main |-> MainMenu, quit |-> Quit, dead |-> Dead,
   books |-> BookMenu, add_book |-> AddBook, edit_book |-> EditBook,
   delete_book |-> DeleteBook, search_books |-> SearchBooks,
   members |-> MemberMenu, add_member |-> AddMember, edit_member |-> EditMember,
   delete_member |-> DeleteMember, search_members |-> SearchMembers,
   search |-> Search, list |-> List,
   loans |-> LoanMenu, borrow |-> Borrow, return |-> ReturnHow,
   return_loan |-> ReturnLoan, return_copy |-> ReturnCopy, extend |-> Extend,
   history |-> History, history_of_one |-> HistoryOfOne,
   reports |-> ReportMenu, report |-> ReportScreen,
   system |-> SystemMenu, backup |-> Backup, restore |-> Restore,
   configure |-> Configure]

Now == Script[screen][at]

Init ==
  /\ menu = "main" /\ screen = "main" /\ at = 1 /\ answers = 0
  /\ input = "open" /\ rest = 0 /\ stray = FALSE /\ pieces = 0
  /\ after = <<>>

-----------------------------------------------------------------------------
(* Moves.                                                                  *)

\* The next step of the script, with one more required answer or none.
Proceed(given) ==
  /\ at' = at + 1 /\ answers' = answers + given
  /\ UNCHANGED <<menu, screen>>

Open(s) ==
  /\ screen' = s /\ at' = 1 /\ answers' = 0
  /\ menu' = IF screen \in Menus THEN screen ELSE menu

\* A screen goes back to its menu, a menu to the main menu.
Leave ==
  /\ screen' = IF screen \in Menus \cup {"quit"} THEN "main" ELSE menu
  /\ at' = 1 /\ answers' = 0 /\ UNCHANGED menu

\* An error message and a pause, the last step of the screen, then the menu.
Refuse == at' = Len(Script[screen]) /\ UNCHANGED <<menu, screen, answers>>

\* The question is asked again.
AskAgain == UNCHANGED place

-----------------------------------------------------------------------------
(* What the program does with a word, and without one.                     *)

AnswerText(w) ==
  \/ Now.ask = "text" /\ Proceed(0)
  \/ Now.ask = "must" /\ w.kind # "blank" /\ Proceed(1)
  \/ Now.ask = "email" /\ w.kind = "email" /\ Proceed(1)
  \/ Now.ask = "email" /\ w.kind \notin {"email", "blank"} /\ AskAgain
  \/ Now.ask \in {"must", "email"} /\ w.kind = "blank" /\ Refuse

AnswerNumber(w) ==
  /\ Now.ask = "number"
  /\ IF Accepted(w, Now.lo, Now.hi) THEN Proceed(1) ELSE AskAgain

AnswerChoice(w) ==
  LET i == Atoi(w.n)
      ok == Accepted(w, 0, Len(Now.of))
  IN
  /\ Now.ask = "choice"
  /\ \/ ok /\ i > 0 /\ Open(Now.of[i])
     \/ ok /\ i = 0 /\ screen = "main" /\ Open("quit")
     \/ ok /\ i = 0 /\ screen # "main" /\ Leave
     \/ ~ ok /\ AskAgain

AnswerYesNo(w) ==
  /\ Now.ask = "yes"
  /\ \/ w.kind = "yes" /\ Proceed(1)
     \/ w.kind = "no" /\ Now.no = "on" /\ Proceed(1)
     \/ w.kind = "no" /\ Now.no = "pause" /\ Refuse
     \/ w.kind = "no" /\ Now.no = "leave" /\ Leave
     \/ w.kind \notin {"yes", "no"} /\ AskAgain

Answer(w) ==
  AnswerText(w) \/ AnswerNumber(w) \/ AnswerChoice(w) \/ AnswerYesNo(w)

Questions == {"text", "must", "email", "number", "choice", "yes"}

\* Seeded fault: a required text is asked again until there is one.
MissingAskedAgain == AskAgain
\* Seeded fault: the buffer is used though nothing was read into it.
MissingTaken == Proceed(0)
Missing == Refuse

\* Seeded fault: without an answer a question counts as answered with yes.
UnansweredYes == Proceed(1)
Unanswered == AskAgain

\* get_user_input fails: no more input.  get_integer_input and
\* get_yes_no_input call it again, and again.
NoAnswer ==
  \/ Now.ask = "text" /\ Proceed(0)
  \/ Now.ask \in {"must", "email"} /\ Missing
  \/ Now.ask \in {"number", "choice"} /\ AskAgain
  \/ Now.ask = "yes" /\ Unanswered

\* Seeded fault: after the pause the screen goes on, whatever is left of it.
PauseGoesOn == Proceed(0)
PauseOver == IF at = Len(Script[screen]) THEN Leave ELSE Proceed(0)

-----------------------------------------------------------------------------
(* Steps.                                                                  *)

Quiet == UNCHANGED <<input, after>>

\* A line is typed at a question: it answers it, and may be too long for it.
Type(w) ==
  /\ Now.ask \in Questions /\ rest = 0 /\ input = "open"
  /\ Answer(w)
  /\ rest' \in 0..MaxRest /\ stray' = FALSE /\ pieces' = 0
  /\ Quiet

\* What is left of a line, one buffer full of it, answers the question, unseen.
ReadRest(w) ==
  /\ Now.ask \in Questions /\ rest > 0
  /\ Answer(w)
  /\ rest' \in 0..(rest - 1)
  /\ pieces' = (IF stray THEN pieces + 1 ELSE 0) /\ UNCHANGED stray
  /\ Quiet

ReadNothing ==
  /\ Now.ask \in Questions /\ rest = 0 /\ input = "end"
  /\ NoAnswer
  /\ UNCHANGED line /\ Quiet

\* Enter, or anything else, at a pause: getchar takes its first character.
TypeAtPause ==
  /\ Now.ask = "pause" /\ rest = 0 /\ input = "open"
  /\ PauseOver
  /\ rest' \in 0..MaxRest /\ stray' = TRUE /\ pieces' = 0
  /\ Quiet

\* getchar takes a character of what is left, or finds no more input.
PauseByItself ==
  /\ Now.ask = "pause" /\ (rest > 0 \/ input = "end")
  /\ PauseOver
  /\ rest' \in 0..rest /\ stray' = TRUE /\ pieces' = 0
  /\ Quiet

LookUp ==
  /\ Now.ask = "find"
  /\ Proceed(0) \/ Refuse
  /\ UNCHANGED line /\ Quiet

MakeCall ==
  /\ Now.ask = "call"
  /\ Proceed(0)
  /\ after' = IF input = "end" THEN Append(after, Now.op) ELSE after
  /\ UNCHANGED <<input, line>>

\* The query writes through whatever the stack held: the screen comes to its
\* pause, or the program dies.
ShowReport ==
  /\ Now.ask = "report"
  /\ Proceed(0) \/ Open("dead")
  /\ UNCHANGED line /\ Quiet

\* Ctrl-D, or the end of the file the input comes from, where a line is awaited.
EndInput ==
  /\ Now.ask \in Questions \cup {"pause"} /\ rest = 0 /\ input = "open"
  /\ input' = "end"
  /\ UNCHANGED <<place, line, after>>

Program ==
  \/ \E w \in Word : ReadRest(w)
  \/ ReadNothing \/ PauseByItself \/ LookUp \/ MakeCall \/ ShowReport

User == (\E w \in Word : Type(w)) \/ TypeAtPause \/ EndInput

Next == Program \/ User

Spec == Init /\ [][Next]_vars

\* The program runs on by itself whenever it does not wait for its user.
FairSpec == Spec /\ WF_vars(Program)

-----------------------------------------------------------------------------
(* Properties.                                                             *)

\* A script never runs over its end: every screen leaves it at its pause.
TypeOK ==
  /\ menu \in Menus
  /\ screen \in DOMAIN Script /\ at \in 1..Len(Script[screen])
  /\ input \in {"open", "end"}
  /\ rest \in 0..MaxRest /\ stray \in BOOLEAN /\ pieces \in 0..MaxRest
  /\ answers \in 0..3

\* However the input ends, in the middle of any screen, the program makes one
\* more call at most, one whose questions were all answered but those Enter
\* skips; it never lends back, renews, deletes, restores or saves unattended.
AfterTheEnd ==
  /\ Len(after) <= 1
  /\ \A i \in 1..Len(after) :
       after[i] \in {"loan", "add member", "edit book", "edit member", "backup"}

\* No call is made before each required question of its screen was answered:
\* not by a blank line, not by the end of the input.
Required == {"must", "email", "number", "yes"}
CallsAnswered ==
  Now.ask = "call" =>
    answers = Cardinality({i \in 1..at : Script[screen][i].ask \in Required})

\* What was typed at a pause besides its Enter meets a menu first: while nothing
\* else is typed, a screen has taken a piece of it for the choice that opened the
\* screen and one more for each answer given there.  A line of one read chooses at
\* most, and only one long enough for all its questions reaches a call.
StrayPaysForAll == stray /\ screen \notin Menus => pieces > answers

\* Once the input has ended the program gets past every text it may do
\* without, every refusal and every pause, but neither ends nor comes to rest:
\* it asks one number or one yes-or-no question for ever (utils.c:313, 333).
AsksForEver ==
  input = "end" ~> [](Now.ask \in {"number", "choice", "yes"})
=============================================================================
