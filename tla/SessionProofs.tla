---------------------------- MODULE SessionProofs ----------------------------
(***************************************************************************)
(* The invariants of Session, for every length of a line, every number     *)
(* typed and every width of an int.  What the proofs need of the screens   *)
(* is the form of their scripts (WellMade), shown screen by screen; the    *)
(* steps of the program are then looked at for any script of that form.    *)
(***************************************************************************)
EXTENDS Session, FiniteSetTheorems, TLAPS

-----------------------------------------------------------------------------
(* The form of a script.                                                   *)

Inner == {"text", "must", "email", "number", "yes", "find", "call", "report"}
Final == {"pause", "choice", "ended"}

\* The calls that stand behind questions that may all be skipped.
Skippable == {"loan", "add member", "edit book", "edit member", "backup"}

\* It ends, and only ends, at a pause, at a choice or with the program.
EndsOnce(p) ==
  /\ Len(p) \in Nat /\ Len(p) > 0
  /\ \A i \in 1..Len(p) :
       p[i].ask \in Inner \cup Final /\ (p[i].ask \in Final <=> i = Len(p))

\* A call is followed by the pause that shows its outcome.
CallsThenPauses(p) ==
  \A i \in 1..Len(p) : p[i].ask = "call" => i + 1 = Len(p) /\ p[i + 1].ask = "pause"

\* What the input's end does not hold up leads to no call but the skippable.
PassedOver(p) ==
  \A i \in 1..Len(p) :
    /\ p[i].ask \in {"text", "find", "call", "report"}
    /\ p[i + 1].ask = "call"
    => p[i + 1].op \in Skippable

\* The program ends behind a yes, and no report is come by but by a choice.
EndsAsked(p) ==
  \A i \in 1..Len(p) :
    /\ p[i].ask = "ended" => \A j \in 1..Len(p) : j # i => p[j].ask = "yes"
    /\ p[i].ask = "report" => i = 1

ChoosesScreens(p) ==
  \A i \in 1..Len(p) :
    p[i].ask = "choice" => p[i].of \in Seq(DOMAIN Script \ {"main", "quit", "dead"})

Demands(p, i) == {j \in 1..i : p[j].ask \in Required}

\* No screen asks for more than three answers.
FewDemands(p) == \E k \in {3, 6} : Demands(p, Len(p)) \subseteq {1, 2, k}

InForm(p) ==
  /\ EndsOnce(p) /\ CallsThenPauses(p) /\ PassedOver(p)
  /\ EndsAsked(p) /\ ChoosesScreens(p)

WellMade(p) == InForm(p) /\ FewDemands(p)

-----------------------------------------------------------------------------
(* The invariant.                                                          *)

Here == Script[screen]

AtAStep ==
  /\ menu \in Menus
  /\ screen \in DOMAIN Script /\ at \in 1..Len(Here)
  /\ input \in {"open", "end"} /\ rest \in 0..MaxRest /\ stray \in BOOLEAN

\* Every answer demanded so far was given, unless the screen has refused one.
Counted ==
  /\ answers \in Nat
  /\ answers <= Cardinality(Demands(Here, at - 1))
  /\ at < Len(Here) => answers = Cardinality(Demands(Here, at - 1))

\* Nothing is left to read at the end of the input, and nobody is asked but
\* where the program stays or passes over the question.
Unattended ==
  /\ input = "open" => after = <<>>
  /\ input = "end" => /\ rest = 0 /\ Now.ask \notin {"ended", "report"}
                      /\ Now.ask = "call" => Now.op \in Skippable

\* A call made after it was the last.
OneMore ==
  \/ after = <<>>
  \/ Now.ask \in {"pause", "choice"} /\ \E op \in Skippable : after = <<op>>

\* The pieces of a line left at a pause pay for the screen and its answers, and
\* they and what is left of the line are no more than a line has.
Paid ==
  /\ pieces \in Nat /\ pieces + rest <= MaxRest
  /\ StrayPaysForAll

IInv == AtAStep /\ Counted /\ Unattended /\ OneMore /\ Paid

-----------------------------------------------------------------------------
(* Every screen is well made.                                              *)

\* The longest script has eight steps.
LEMMA FewSteps ==
  ASSUME NEW n \in Nat, n <= 8, NEW i \in 1..n
  PROVE  \/ i = 1 \/ i = 2 \/ i = 3 \/ i = 4 \/ i = 5 \/ i = 6 \/ i = 7 \/ i = 8
OBVIOUS

\* Leaving the program (main.c 117-121).
LEMMA QuitMade == WellMade(Quit)
<1> DEFINE p == Quit
<1>1. Len(p) = 2
  BY DEF Quit
<1>2. /\ p[1].ask = "yes" /\ p[2].ask = "ended"
  BY DEF Quit, Ended, YesNo
<1> HIDE DEF p
<1>3. \A i \in 1..Len(p) : i = 1 \/ i = 2
  BY <1>1, FewSteps
<1>4. InForm(p)
  BY <1>1, <1>2, <1>3
  DEF InForm, EndsOnce, CallsThenPauses, PassedOver, EndsAsked, ChoosesScreens,
      Inner, Final
<1>5. Demands(p, Len(p)) \subseteq {1, 2, 3}
  BY <1>2, <1>3 DEF Demands, Required
<1> QED
  BY <1>4, <1>5 DEF p, WellMade, FewDemands

\* After the crash of a report.
LEMMA DeadMade == WellMade(Dead)
<1> DEFINE p == Dead
<1>1. Len(p) = 1
  BY DEF Dead
<1>2. p[1].ask = "ended"
  BY DEF Dead, Ended
<1> HIDE DEF p
<1>3. \A i \in 1..Len(p) : i = 1
  BY <1>1, FewSteps
<1>4. InForm(p)
  BY <1>1, <1>2, <1>3
  DEF InForm, EndsOnce, CallsThenPauses, PassedOver, EndsAsked, ChoosesScreens,
      Inner, Final
<1>5. Demands(p, Len(p)) \subseteq {1, 2, 3}
  BY <1>2, <1>3 DEF Demands, Required
<1> QED
  BY <1>4, <1>5 DEF p, WellMade, FewDemands

\* add_book_interactive (main.c 205-269).
LEMMA AddBookMade == WellMade(AddBook)
<1> DEFINE p == AddBook
<1>1. Len(p) = 8
  BY DEF AddBook
<1>2. /\ p[1].ask = "must" /\ p[2].ask = "must" /\ p[3].ask = "text"
      /\ p[4].ask = "text" /\ p[5].ask = "text" /\ p[6].ask = "number"
      /\ p[7].ask = "call" /\ p[8].ask = "pause"
  BY DEF AddBook, Call, Must, Number, Pause, Text
<1> HIDE DEF p
<1>3. \A i \in 1..Len(p) : i = 1 \/ i = 2 \/ i = 3 \/ i = 4 \/ i = 5 \/ i = 6 \/ i = 7 \/ i = 8
  BY <1>1, FewSteps
<1>4. InForm(p)
  BY <1>1, <1>2, <1>3
  DEF InForm, EndsOnce, CallsThenPauses, PassedOver, EndsAsked, ChoosesScreens,
      Inner, Final
<1>5. Demands(p, Len(p)) \subseteq {1, 2, 6}
  BY <1>2, <1>3 DEF Demands, Required
<1> QED
  BY <1>4, <1>5 DEF p, WellMade, FewDemands

\* edit_book_interactive (main.c 346-401).
LEMMA EditBookMade == WellMade(EditBook)
<1> DEFINE p == EditBook
<1>1. Len(p) = 8
  BY DEF EditBook
<1>2. /\ p[1].ask = "number" /\ p[2].ask = "find" /\ p[3].ask = "yes"
      /\ p[4].ask = "text" /\ p[5].ask = "text" /\ p[6].ask = "text"
      /\ p[7].ask = "call" /\ p[8].ask = "pause" /\ p[7].op \in Skippable
  BY DEF EditBook, Call, Find, Id, Pause, Text, YesNo, Number, Skippable
<1> HIDE DEF p
<1>3. \A i \in 1..Len(p) : i = 1 \/ i = 2 \/ i = 3 \/ i = 4 \/ i = 5 \/ i = 6 \/ i = 7 \/ i = 8
  BY <1>1, FewSteps
<1>4. InForm(p)
  BY <1>1, <1>2, <1>3
  DEF InForm, EndsOnce, CallsThenPauses, PassedOver, EndsAsked, ChoosesScreens,
      Inner, Final
<1>5. Demands(p, Len(p)) \subseteq {1, 2, 3}
  BY <1>2, <1>3 DEF Demands, Required
<1> QED
  BY <1>4, <1>5 DEF p, WellMade, FewDemands

\* delete_book_interactive (main.c 403-435).
LEMMA DeleteBookMade == WellMade(DeleteBook)
<1> DEFINE p == DeleteBook
<1>1. Len(p) = 5
  BY DEF DeleteBook
<1>2. /\ p[1].ask = "number" /\ p[2].ask = "find" /\ p[3].ask = "yes"
      /\ p[4].ask = "call" /\ p[5].ask = "pause"
  BY DEF DeleteBook, Call, Find, Id, Pause, YesNo, Number
<1> HIDE DEF p
<1>3. \A i \in 1..Len(p) : i = 1 \/ i = 2 \/ i = 3 \/ i = 4 \/ i = 5
  BY <1>1, FewSteps
<1>4. InForm(p)
  BY <1>1, <1>2, <1>3
  DEF InForm, EndsOnce, CallsThenPauses, PassedOver, EndsAsked, ChoosesScreens,
      Inner, Final
<1>5. Demands(p, Len(p)) \subseteq {1, 2, 3}
  BY <1>2, <1>3 DEF Demands, Required
<1> QED
  BY <1>4, <1>5 DEF p, WellMade, FewDemands

\* add_member_interactive (main.c 485-544).
LEMMA AddMemberMade == WellMade(AddMember)
<1> DEFINE p == AddMember
<1>1. Len(p) = 6
  BY DEF AddMember
<1>2. /\ p[1].ask = "must" /\ p[2].ask = "email" /\ p[3].ask = "text"
      /\ p[4].ask = "text" /\ p[5].ask = "call" /\ p[6].ask = "pause"
      /\ p[5].op \in Skippable
  BY DEF AddMember, Call, Email, Must, Pause, Text, Skippable
<1> HIDE DEF p
<1>3. \A i \in 1..Len(p) : i = 1 \/ i = 2 \/ i = 3 \/ i = 4 \/ i = 5 \/ i = 6
  BY <1>1, FewSteps
<1>4. InForm(p)
  BY <1>1, <1>2, <1>3
  DEF InForm, EndsOnce, CallsThenPauses, PassedOver, EndsAsked, ChoosesScreens,
      Inner, Final
<1>5. Demands(p, Len(p)) \subseteq {1, 2, 3}
  BY <1>2, <1>3 DEF Demands, Required
<1> QED
  BY <1>4, <1>5 DEF p, WellMade, FewDemands

\* edit_member_interactive (main.c 617-676).
LEMMA EditMemberMade == WellMade(EditMember)
<1> DEFINE p == EditMember
<1>1. Len(p) = 8
  BY DEF EditMember
<1>2. /\ p[1].ask = "number" /\ p[2].ask = "find" /\ p[3].ask = "yes"
      /\ p[4].ask = "text" /\ p[5].ask = "text" /\ p[6].ask = "text"
      /\ p[7].ask = "call" /\ p[8].ask = "pause" /\ p[7].op \in Skippable
  BY DEF EditMember, Call, Find, Id, Pause, Text, YesNo, Number, Skippable
<1> HIDE DEF p
<1>3. \A i \in 1..Len(p) : i = 1 \/ i = 2 \/ i = 3 \/ i = 4 \/ i = 5 \/ i = 6 \/ i = 7 \/ i = 8
  BY <1>1, FewSteps
<1>4. InForm(p)
  BY <1>1, <1>2, <1>3
  DEF InForm, EndsOnce, CallsThenPauses, PassedOver, EndsAsked, ChoosesScreens,
      Inner, Final
<1>5. Demands(p, Len(p)) \subseteq {1, 2, 3}
  BY <1>2, <1>3 DEF Demands, Required
<1> QED
  BY <1>4, <1>5 DEF p, WellMade, FewDemands

\* delete_member_interactive (main.c 678-710).
LEMMA DeleteMemberMade == WellMade(DeleteMember)
<1> DEFINE p == DeleteMember
<1>1. Len(p) = 5
  BY DEF DeleteMember
<1>2. /\ p[1].ask = "number" /\ p[2].ask = "find" /\ p[3].ask = "yes"
      /\ p[4].ask = "call" /\ p[5].ask = "pause"
  BY DEF DeleteMember, Call, Find, Id, Pause, YesNo, Number
<1> HIDE DEF p
<1>3. \A i \in 1..Len(p) : i = 1 \/ i = 2 \/ i = 3 \/ i = 4 \/ i = 5
  BY <1>1, FewSteps
<1>4. InForm(p)
  BY <1>1, <1>2, <1>3
  DEF InForm, EndsOnce, CallsThenPauses, PassedOver, EndsAsked, ChoosesScreens,
      Inner, Final
<1>5. Demands(p, Len(p)) \subseteq {1, 2, 3}
  BY <1>2, <1>3 DEF Demands, Required
<1> QED
  BY <1>4, <1>5 DEF p, WellMade, FewDemands

\* The searches for a text (main.c 284-322).
LEMMA SearchMade == WellMade(Search)
<1> DEFINE p == Search
<1>1. Len(p) = 2
  BY DEF Search
<1>2. /\ p[1].ask = "must" /\ p[2].ask = "pause"
  BY DEF Search, Must, Pause
<1> HIDE DEF p
<1>3. \A i \in 1..Len(p) : i = 1 \/ i = 2
  BY <1>1, FewSteps
<1>4. InForm(p)
  BY <1>1, <1>2, <1>3
  DEF InForm, EndsOnce, CallsThenPauses, PassedOver, EndsAsked, ChoosesScreens,
      Inner, Final
<1>5. Demands(p, Len(p)) \subseteq {1, 2, 3}
  BY <1>2, <1>3 DEF Demands, Required
<1> QED
  BY <1>4, <1>5 DEF p, WellMade, FewDemands

\* The lists (main.c 325-344).
LEMMA ListMade == WellMade(List)
<1> DEFINE p == List
<1>1. Len(p) = 1
  BY DEF List
<1>2. p[1].ask = "pause"
  BY DEF List, Pause
<1> HIDE DEF p
<1>3. \A i \in 1..Len(p) : i = 1
  BY <1>1, FewSteps
<1>4. InForm(p)
  BY <1>1, <1>2, <1>3
  DEF InForm, EndsOnce, CallsThenPauses, PassedOver, EndsAsked, ChoosesScreens,
      Inner, Final
<1>5. Demands(p, Len(p)) \subseteq {1, 2, 3}
  BY <1>2, <1>3 DEF Demands, Required
<1> QED
  BY <1>4, <1>5 DEF p, WellMade, FewDemands

\* loan_book_interactive (main.c 760-798).
LEMMA BorrowMade == WellMade(Borrow)
<1> DEFINE p == Borrow
<1>1. Len(p) = 5
  BY DEF Borrow
<1>2. /\ p[1].ask = "number" /\ p[2].ask = "number" /\ p[3].ask = "text"
      /\ p[4].ask = "call" /\ p[5].ask = "pause" /\ p[4].op \in Skippable
  BY DEF Borrow, Call, Id, Pause, Text, Number, Skippable
<1> HIDE DEF p
<1>3. \A i \in 1..Len(p) : i = 1 \/ i = 2 \/ i = 3 \/ i = 4 \/ i = 5
  BY <1>1, FewSteps
<1>4. InForm(p)
  BY <1>1, <1>2, <1>3
  DEF InForm, EndsOnce, CallsThenPauses, PassedOver, EndsAsked, ChoosesScreens,
      Inner, Final
<1>5. Demands(p, Len(p)) \subseteq {1, 2, 3}
  BY <1>2, <1>3 DEF Demands, Required
<1> QED
  BY <1>4, <1>5 DEF p, WellMade, FewDemands

\* A return by the id of the loan (main.c 813-817).
LEMMA ReturnLoanMade == WellMade(ReturnLoan)
<1> DEFINE p == ReturnLoan
<1>1. Len(p) = 3
  BY DEF ReturnLoan
<1>2. /\ p[1].ask = "number" /\ p[2].ask = "call" /\ p[3].ask = "pause"
  BY DEF ReturnLoan, Call, Id, Pause, Number
<1> HIDE DEF p
<1>3. \A i \in 1..Len(p) : i = 1 \/ i = 2 \/ i = 3
  BY <1>1, FewSteps
<1>4. InForm(p)
  BY <1>1, <1>2, <1>3
  DEF InForm, EndsOnce, CallsThenPauses, PassedOver, EndsAsked, ChoosesScreens,
      Inner, Final
<1>5. Demands(p, Len(p)) \subseteq {1, 2, 3}
  BY <1>2, <1>3 DEF Demands, Required
<1> QED
  BY <1>4, <1>5 DEF p, WellMade, FewDemands

\* A return by member and book (main.c 818-834).
LEMMA ReturnCopyMade == WellMade(ReturnCopy)
<1> DEFINE p == ReturnCopy
<1>1. Len(p) = 4
  BY DEF ReturnCopy
<1>2. /\ p[1].ask = "number" /\ p[2].ask = "number" /\ p[3].ask = "call"
      /\ p[4].ask = "pause"
  BY DEF ReturnCopy, Call, Id, Pause, Number
<1> HIDE DEF p
<1>3. \A i \in 1..Len(p) : i = 1 \/ i = 2 \/ i = 3 \/ i = 4
  BY <1>1, FewSteps
<1>4. InForm(p)
  BY <1>1, <1>2, <1>3
  DEF InForm, EndsOnce, CallsThenPauses, PassedOver, EndsAsked, ChoosesScreens,
      Inner, Final
<1>5. Demands(p, Len(p)) \subseteq {1, 2, 3}
  BY <1>2, <1>3 DEF Demands, Required
<1> QED
  BY <1>4, <1>5 DEF p, WellMade, FewDemands

\* extend_loan_interactive (main.c 836-875).
LEMMA ExtendMade == WellMade(Extend)
<1> DEFINE p == Extend
<1>1. Len(p) = 5
  BY DEF Extend
<1>2. /\ p[1].ask = "number" /\ p[2].ask = "find" /\ p[3].ask = "number"
      /\ p[4].ask = "call" /\ p[5].ask = "pause"
  BY DEF Extend, Call, Find, Id, Number, Pause
<1> HIDE DEF p
<1>3. \A i \in 1..Len(p) : i = 1 \/ i = 2 \/ i = 3 \/ i = 4 \/ i = 5
  BY <1>1, FewSteps
<1>4. InForm(p)
  BY <1>1, <1>2, <1>3
  DEF InForm, EndsOnce, CallsThenPauses, PassedOver, EndsAsked, ChoosesScreens,
      Inner, Final
<1>5. Demands(p, Len(p)) \subseteq {1, 2, 3}
  BY <1>2, <1>3 DEF Demands, Required
<1> QED
  BY <1>4, <1>5 DEF p, WellMade, FewDemands

\* The history of one book or member (main.c 898-929).
LEMMA HistoryOfOneMade == WellMade(HistoryOfOne)
<1> DEFINE p == HistoryOfOne
<1>1. Len(p) = 3
  BY DEF HistoryOfOne
<1>2. /\ p[1].ask = "number" /\ p[2].ask = "yes" /\ p[3].ask = "pause"
  BY DEF HistoryOfOne, Id, Pause, YesNo, Number
<1> HIDE DEF p
<1>3. \A i \in 1..Len(p) : i = 1 \/ i = 2 \/ i = 3
  BY <1>1, FewSteps
<1>4. InForm(p)
  BY <1>1, <1>2, <1>3
  DEF InForm, EndsOnce, CallsThenPauses, PassedOver, EndsAsked, ChoosesScreens,
      Inner, Final
<1>5. Demands(p, Len(p)) \subseteq {1, 2, 3}
  BY <1>2, <1>3 DEF Demands, Required
<1> QED
  BY <1>4, <1>5 DEF p, WellMade, FewDemands

\* The statistics screens (main.c 1001-1099).
LEMMA ReportScreenMade == WellMade(ReportScreen)
<1> DEFINE p == ReportScreen
<1>1. Len(p) = 2
  BY DEF ReportScreen
<1>2. /\ p[1].ask = "report" /\ p[2].ask = "pause"
  BY DEF ReportScreen, Pause, Report
<1> HIDE DEF p
<1>3. \A i \in 1..Len(p) : i = 1 \/ i = 2
  BY <1>1, FewSteps
<1>4. InForm(p)
  BY <1>1, <1>2, <1>3
  DEF InForm, EndsOnce, CallsThenPauses, PassedOver, EndsAsked, ChoosesScreens,
      Inner, Final
<1>5. Demands(p, Len(p)) \subseteq {1, 2, 3}
  BY <1>2, <1>3 DEF Demands, Required
<1> QED
  BY <1>4, <1>5 DEF p, WellMade, FewDemands

\* backup_database_interactive (main.c 1152-1184).
LEMMA BackupMade == WellMade(Backup)
<1> DEFINE p == Backup
<1>1. Len(p) = 3
  BY DEF Backup
<1>2. /\ p[1].ask = "text" /\ p[2].ask = "call" /\ p[3].ask = "pause"
      /\ p[2].op \in Skippable
  BY DEF Backup, Call, Pause, Text, Skippable
<1> HIDE DEF p
<1>3. \A i \in 1..Len(p) : i = 1 \/ i = 2 \/ i = 3
  BY <1>1, FewSteps
<1>4. InForm(p)
  BY <1>1, <1>2, <1>3
  DEF InForm, EndsOnce, CallsThenPauses, PassedOver, EndsAsked, ChoosesScreens,
      Inner, Final
<1>5. Demands(p, Len(p)) \subseteq {1, 2, 3}
  BY <1>2, <1>3 DEF Demands, Required
<1> QED
  BY <1>4, <1>5 DEF p, WellMade, FewDemands

\* restore_database_interactive (main.c 1186-1216).
LEMMA RestoreMade == WellMade(Restore)
<1> DEFINE p == Restore
<1>1. Len(p) = 5
  BY DEF Restore
<1>2. /\ p[1].ask = "must" /\ p[2].ask = "find" /\ p[3].ask = "yes"
      /\ p[4].ask = "call" /\ p[5].ask = "pause"
  BY DEF Restore, Call, Find, Must, Pause, YesNo
<1> HIDE DEF p
<1>3. \A i \in 1..Len(p) : i = 1 \/ i = 2 \/ i = 3 \/ i = 4 \/ i = 5
  BY <1>1, FewSteps
<1>4. InForm(p)
  BY <1>1, <1>2, <1>3
  DEF InForm, EndsOnce, CallsThenPauses, PassedOver, EndsAsked, ChoosesScreens,
      Inner, Final
<1>5. Demands(p, Len(p)) \subseteq {1, 2, 3}
  BY <1>2, <1>3 DEF Demands, Required
<1> QED
  BY <1>4, <1>5 DEF p, WellMade, FewDemands

\* The settings (main.c 1218-1239).
LEMMA ConfigureMade == WellMade(Configure)
<1> DEFINE p == Configure
<1>1. Len(p) = 3
  BY DEF Configure
<1>2. /\ p[1].ask = "yes" /\ p[2].ask = "call" /\ p[3].ask = "pause"
  BY DEF Configure, Call, Pause, YesNo
<1> HIDE DEF p
<1>3. \A i \in 1..Len(p) : i = 1 \/ i = 2 \/ i = 3
  BY <1>1, FewSteps
<1>4. InForm(p)
  BY <1>1, <1>2, <1>3
  DEF InForm, EndsOnce, CallsThenPauses, PassedOver, EndsAsked, ChoosesScreens,
      Inner, Final
<1>5. Demands(p, Len(p)) \subseteq {1, 2, 3}
  BY <1>2, <1>3 DEF Demands, Required
<1> QED
  BY <1>4, <1>5 DEF p, WellMade, FewDemands

\* A screen that only offers screens.
LEMMA ChoiceMade ==
  ASSUME NEW t \in Seq(DOMAIN Script \ {"main", "quit", "dead"})
  PROVE  WellMade(<<Choice(t)>>)
<1> DEFINE p == <<Choice(t)>>
<1>1. Len(p) = 1 
  OBVIOUS
<1>2. p[1].ask = "choice" /\ p[1].of = t
  BY DEF Choice
<1> HIDE DEF p
<1>3. \A i \in 1..Len(p) : i = 1
  BY <1>1, FewSteps
<1>4. InForm(p)
  BY <1>1, <1>2, <1>3
  DEF InForm, EndsOnce, CallsThenPauses, PassedOver, EndsAsked, ChoosesScreens,
      Inner, Final
<1>5. Demands(p, Len(p)) \subseteq {1, 2, 3}
  BY <1>2, <1>3 DEF Demands, Required
<1> QED
  BY <1>4, <1>5 DEF p, WellMade, FewDemands

\* The menus (main.c 79-203, 437-483, 712-758, 957-999, 1108-1150) and the three
\* screens that ask in which way to search, return or look back.
LEMMA MenusMade ==
  /\ WellMade(MainMenu) /\ WellMade(BookMenu) /\ WellMade(SearchBooks)
  /\ WellMade(MemberMenu) /\ WellMade(SearchMembers) /\ WellMade(LoanMenu)
  /\ WellMade(ReturnHow) /\ WellMade(History) /\ WellMade(ReportMenu)
  /\ WellMade(SystemMenu)
<1> DEFINE S == DOMAIN Script \ {"main", "quit", "dead"}
<1>1. {"books", "members", "loans", "reports", "system", "add_book",
       "search_books", "edit_book", "delete_book", "list", "search", "add_member",
       "search_members", "edit_member", "delete_member", "borrow", "return",
       "extend", "history", "return_loan", "return_copy", "history_of_one",
       "report", "backup", "restore", "configure"} \subseteq S
  BY DEF Script
<1> HIDE DEF S
<1>2. /\ <<"books", "members", "loans", "reports", "system">> \in Seq(S)
      /\ <<"add_book", "search_books", "edit_book", "delete_book", "list">> \in Seq(S)
      /\ <<"search", "search", "search", "search">> \in Seq(S)
      /\ <<"add_member", "search_members", "edit_member", "delete_member", "list">> \in Seq(S)
      /\ <<"search", "search", "search">> \in Seq(S)
      /\ <<"borrow", "return", "extend", "history", "list">> \in Seq(S)
      /\ <<"return_loan", "return_copy">> \in Seq(S)
      /\ <<"history_of_one", "history_of_one", "list">> \in Seq(S)
      /\ <<"report", "report", "report", "list">> \in Seq(S)
      /\ <<"backup", "restore", "configure", "list">> \in Seq(S)
  BY <1>1
<1> QED
  BY <1>2, ChoiceMade
  DEF S, MainMenu, BookMenu, SearchBooks, MemberMenu, SearchMembers, LoanMenu,
      ReturnHow, History, ReportMenu, SystemMenu

\* All the screens there are.
LEMMA ScreensMade == \A s \in DOMAIN Script : WellMade(Script[s])
BY MenusMade, QuitMade, DeadMade, AddBookMade, EditBookMade, DeleteBookMade,
   AddMemberMade, EditMemberMade, DeleteMemberMade, SearchMade, ListMade,
   BorrowMade, ReturnLoanMade, ReturnCopyMade, ExtendMade, HistoryOfOneMade,
   ReportScreenMade, BackupMade, RestoreMade, ConfigureMade
DEF Script

\* A menu is one choice.
LEMMA MenusChoose ==
  \A s \in Menus :
    s \in DOMAIN Script /\ Len(Script[s]) = 1 /\ Script[s][1].ask = "choice"
BY DEF Menus, Script, Choice, MainMenu, BookMenu, MemberMenu, LoanMenu,
   ReportMenu, SystemMenu

-----------------------------------------------------------------------------
(* Counting demands.                                                       *)

\* The demands up to a step are those before it, and its own if it has one.
LEMMA DemandsCounted ==
  ASSUME NEW p, NEW i \in Nat
  PROVE  /\ IsFiniteSet(Demands(p, i)) /\ Cardinality(Demands(p, i)) \in Nat
         /\ Cardinality(Demands(p, 0)) = 0
         /\ p[i + 1].ask \in Required =>
              Cardinality(Demands(p, i + 1)) = Cardinality(Demands(p, i)) + 1
         /\ p[i + 1].ask \notin Required => Demands(p, i + 1) = Demands(p, i)
<1>1. ASSUME NEW j \in Nat
      PROVE  IsFiniteSet(Demands(p, j)) /\ Cardinality(Demands(p, j)) \in Nat
  <2>1. IsFiniteSet(1..j) /\ Demands(p, j) \subseteq 1..j
    BY FS_Interval DEF Demands
  <2> QED
    BY <2>1, FS_Subset, FS_CardinalityType
<1>2. Cardinality(Demands(p, 0)) = 0
  <2>1. Demands(p, 0) = {}
    BY DEF Demands
  <2> QED
    BY <2>1, FS_EmptySet
<1>3. ASSUME p[i + 1].ask \in Required
      PROVE  Cardinality(Demands(p, i + 1)) = Cardinality(Demands(p, i)) + 1
  <2>1. /\ Demands(p, i + 1) = Demands(p, i) \cup {i + 1}
        /\ i + 1 \notin Demands(p, i)
    BY <1>3 DEF Demands
  <2> QED
    BY <1>1, <2>1, FS_AddElement
<1>4. ASSUME p[i + 1].ask \notin Required
      PROVE  Demands(p, i + 1) = Demands(p, i)
  BY <1>4 DEF Demands
<1> QED
  BY <1>1, <1>2, <1>3, <1>4

\* Further on there are no fewer.
LEMMA DemandsGrow ==
  ASSUME NEW p, NEW i \in Nat, NEW j \in Nat, i <= j
  PROVE  Cardinality(Demands(p, i)) <= Cardinality(Demands(p, j))
<1>1. Demands(p, i) \subseteq Demands(p, j)
  BY DEF Demands
<1> QED
  BY <1>1, DemandsCounted, FS_Subset

\* A set given by three members has no more.
LEMMA ThreeElements ==
  ASSUME NEW a, NEW b, NEW c
  PROVE  IsFiniteSet({a, b, c}) /\ Cardinality({a, b, c}) <= 3
<1>1. IsFiniteSet({a}) /\ Cardinality({a}) = 1
  BY FS_Singleton
<1>2. IsFiniteSet({a} \cup {b}) /\ Cardinality({a} \cup {b}) <= 2
  BY <1>1, FS_AddElement
<1>3. /\ IsFiniteSet(({a} \cup {b}) \cup {c})
      /\ Cardinality(({a} \cup {b}) \cup {c}) <= 3
  <2>1. Cardinality({a} \cup {b}) \in Nat
    BY <1>2, FS_CardinalityType
  <2> QED
    BY <1>2, <2>1, FS_AddElement
<1>4. ({a} \cup {b}) \cup {c} = {a, b, c}
  OBVIOUS
<1> QED
  BY <1>3, <1>4

\* There are three at most.
LEMMA ThreeDemands ==
  ASSUME NEW p, WellMade(p), NEW i \in Nat, i <= Len(p)
  PROVE  Cardinality(Demands(p, i)) <= 3
<1>1. PICK k \in {3, 6} : Demands(p, Len(p)) \subseteq {1, 2, k}
  BY DEF WellMade, FewDemands
<1>2. IsFiniteSet({1, 2, k}) /\ Cardinality({1, 2, k}) <= 3
  BY ThreeElements
<1>3. Demands(p, i) \subseteq {1, 2, k}
  BY <1>1 DEF Demands, WellMade, InForm, EndsOnce
<1>4. Cardinality(Demands(p, i)) <= Cardinality({1, 2, k})
  BY <1>2, <1>3, FS_Subset
<1> QED
  BY <1>2, <1>4, DemandsCounted, FS_CardinalityType

-----------------------------------------------------------------------------
(* Moves.                                                                  *)

\* The ways from one step of a screen to another, or to another screen.
Passes ==
  \/ Now.ask \in {"text", "find", "call", "report"} /\ Proceed(0)
  \/ Now.ask \in Required /\ Proceed(1)
Turns == Leave \/ \E s \in DOMAIN Script : Open(s)
Move == Passes \/ Refuse \/ AskAgain \/ Turns

\* What the form of its screen says of the step the program is at.
LEMMA TheStep ==
  ASSUME AtAStep
  PROVE  /\ WellMade(Here) /\ Len(Here) \in Nat /\ Len(Here) > 0
         /\ at \in Nat /\ at > 0 /\ at <= Len(Here)
         /\ Now = Here[at]
         /\ Now.ask \in Inner \cup Final /\ (Now.ask \in Final <=> at = Len(Here))
         /\ screen \in Menus => Now.ask = "choice"
<1>1. WellMade(Here)
  BY ScreensMade DEF AtAStep, Here
<1>2. Len(Here) \in Nat /\ Len(Here) > 0
  BY <1>1 DEF WellMade, InForm, EndsOnce
<1>3. at \in Nat /\ at > 0 /\ at <= Len(Here)
  BY <1>2 DEF AtAStep
<1>4. Now = Here[at]
  BY DEF Now, Here
<1>5. Now.ask \in Inner \cup Final /\ (Now.ask \in Final <=> at = Len(Here))
  BY <1>1, <1>2, <1>3, <1>4 DEF WellMade, InForm, EndsOnce
<1>6. ASSUME screen \in Menus PROVE Now.ask = "choice"
  <2>1. Len(Here) = 1 /\ Here[1].ask = "choice"
    BY <1>6, MenusChoose DEF Here
  <2> QED
    BY <2>1, <1>3, <1>4
<1> QED
  BY <1>1, <1>2, <1>3, <1>4, <1>5, <1>6

\* The kinds of steps that are not the last.
LEMMA NotLast ==
  ASSUME AtAStep, Now.ask \in Inner
  PROVE  at < Len(Here)
<1>1. Now.ask \notin Final
  BY DEF Inner, Final
<1> QED
  BY <1>1, TheStep

\* Every move arrives at a step of a script, its demands counted.
LEMMA MovesKeepPlace ==
  ASSUME AtAStep, Counted, Move
  PROVE  /\ menu' \in Menus /\ screen' \in DOMAIN Script /\ at' \in 1..Len(Here')
         /\ Counted'
<1>1. CASE Passes
  <2>1. Now.ask \in Inner
    BY <1>1 DEF Passes, Inner, Required
  <2>2. at < Len(Here)
    BY <2>1, NotLast
  <2>3. /\ at' = at + 1 /\ menu' = menu /\ screen' = screen /\ Here' = Here
    BY <1>1 DEF Passes, Proceed, Here
  <2>4. /\ answers = Cardinality(Demands(Here, at - 1))
        /\ answers' = Cardinality(Demands(Here, at)) /\ answers' \in Nat
    <3> DEFINE i == at - 1
    <3>1. i \in Nat /\ i + 1 = at
      BY TheStep
    <3>2. answers = Cardinality(Demands(Here, i))
      BY <2>2 DEF Counted
    <3>3. CASE Now.ask \in Required
      <4>1. answers' = answers + 1
        BY <1>1, <3>3 DEF Passes, Proceed, Required
      <4> QED
        BY <3>1, <3>2, <3>3, <4>1, TheStep, DemandsCounted
    <3>4. CASE Now.ask \notin Required
      <4>1. answers' = answers + 0
        BY <1>1, <3>4 DEF Passes, Proceed
      <4> QED
        BY <3>1, <3>2, <3>4, <4>1, TheStep, DemandsCounted
    <3> QED
      BY <3>3, <3>4
  <2>5. at' - 1 = at /\ at' \in 1..Len(Here)
    BY <2>2, <2>3, TheStep
  <2> QED
    BY <2>3, <2>4, <2>5, TheStep DEF AtAStep, Counted
<1>2. CASE Refuse
  <2>1. /\ at' = Len(Here) /\ menu' = menu /\ screen' = screen /\ Here' = Here
        /\ answers' = answers
    BY <1>2 DEF Refuse, Here
  <2>2. Cardinality(Demands(Here, at - 1)) <= Cardinality(Demands(Here, at' - 1))
    BY <2>1, TheStep, DemandsGrow
  <2>3. answers' <= Cardinality(Demands(Here, at' - 1))
    <3>1. /\ Cardinality(Demands(Here, at - 1)) \in Nat
          /\ Cardinality(Demands(Here, at' - 1)) \in Nat
      BY <2>1, TheStep, DemandsCounted
    <3> QED
      BY <2>1, <2>2, <3>1 DEF Counted
  <2> QED
    BY <2>1, <2>3, TheStep DEF AtAStep, Counted
<1>3. CASE AskAgain
  BY <1>3 DEF AskAgain, place, AtAStep, Counted, Here
<1>4. CASE Turns
  <2>1. /\ menu' \in Menus /\ screen' \in DOMAIN Script /\ at' = 1 /\ answers' = 0
    BY <1>4, MenusChoose DEF Turns, Leave, Open, AtAStep, Menus
  <2>2. WellMade(Here')
    BY <2>1, ScreensMade DEF Here
  <2>3. Len(Here') \in Nat /\ Len(Here') > 0
    BY <2>2 DEF WellMade, InForm, EndsOnce
  <2>4. Cardinality(Demands(Here', at' - 1)) = 0
    BY <2>1, DemandsCounted
  <2> QED
    BY <2>1, <2>3, <2>4 DEF Counted
<1> QED
  BY <1>1, <1>2, <1>3, <1>4 DEF Move

\* Whatever is typed, atoi makes an int of it.
LEMMA AtoiInt ==
  ASSUME NEW w \in Word
  PROVE  Atoi(w.n) \in - (IntSpan \div 2)..(IntSpan \div 2 - 1)
<1>1. w.n \in Int
  <2>1. w.n \in {0} \cup Typed
    BY Zenon DEF Word
  <2>2. Typed \subseteq Int
    BY SessionAssumption
  <2>3. {0} \cup Typed \subseteq Int
    BY <2>2
  <2> QED
    BY <2>1, <2>3, Zenon
<1>2. LongMax \in Int /\ IntSpan \in Nat /\ IntSpan > 0 /\ IntSpan % 2 = 0
  BY SessionAssumption
<1>3. Clamped(w.n) \in Int
  BY <1>1, <1>2 DEF Clamped
<1>4. IntSpan \div 2 \in Int /\ IntSpan = 2 * (IntSpan \div 2)
  BY <1>2
<1> DEFINE half == IntSpan \div 2
           r == (Clamped(w.n) + half) % IntSpan
<1>5. r \in 0..(IntSpan - 1)
  BY <1>2, <1>3, <1>4
<1>6. Atoi(w.n) = r - half
  BY DEF Atoi
<1> HIDE DEF r
<1> QED
  BY <1>2, <1>4, <1>5, <1>6

\* An answer moves the program on, back or nowhere, and a menu elsewhere.
LEMMA AnswersMove ==
  ASSUME AtAStep, NEW w \in Word, Answer(w)
  PROVE  Move
<1>1. CASE AnswerText(w)
  BY <1>1 DEF AnswerText, Move, Passes, Required
<1>2. CASE AnswerNumber(w)
  BY <1>2 DEF AnswerNumber, Move, Passes, Required
<1>3. CASE AnswerYesNo(w)
  BY <1>3 DEF AnswerYesNo, Move, Passes, Turns, Required
<1>4. CASE AnswerChoice(w)
  <2> DEFINE i == Atoi(w.n)
  <2>1. i \in Int
    BY AtoiInt, SessionAssumption
  <2> HIDE DEF i
  <2>2. Now.ask = "choice"
    BY <1>4 DEF AnswerChoice
  <2>3. Now.of \in Seq(DOMAIN Script)
    <3>1. ChoosesScreens(Here)
      BY TheStep DEF WellMade, InForm
    <3>2. Now.of \in Seq(DOMAIN Script \ {"main", "quit", "dead"})
      BY <2>2, <3>1, TheStep DEF ChoosesScreens
    <3> QED
      BY <3>2
  <2>4. \/ 0 <= i /\ i <= Len(Now.of) /\ i > 0 /\ Open(Now.of[i])
        \/ Open("quit") \/ Leave \/ AskAgain
    BY <1>4 DEF AnswerChoice, Accepted, i
  <2>5. 0 <= i /\ i <= Len(Now.of) /\ i > 0 => Now.of[i] \in DOMAIN Script
    BY <2>1, <2>3
  <2>6. "quit" \in DOMAIN Script
    BY DEF Script
  <2> QED
    BY <2>4, <2>5, <2>6 DEF Move, Turns
<1> QED
  BY <1>1, <1>2, <1>3, <1>4 DEF Answer

-----------------------------------------------------------------------------
(* One lemma per action.                                                   *)

\* The bound on a line is a number.
LEMMA ALine == MaxRest \in Nat
BY SessionAssumption

\* However much of a line is read, the pieces are no more than it had.
LEMMA LineSpent ==
  /\ \A m \in Nat : \A r \in 0..m, p \in {0} : p \in Nat /\ p + r <= m
  /\ \A m, r, p, q, k \in Nat :
       p + r <= m /\ q <= r - 1 /\ k \in {0, p + 1} => k + q <= m
  /\ \A m, p \in Nat : \A r \in 0..m : p + r <= m => p \in 0..m
OBVIOUS

\* A line that is new, or newly left at a pause, has paid for nothing.
LEMMA NothingPaid ==
  ASSUME rest' \in 0..MaxRest, pieces' = 0, stray' => screen' \in Menus
  PROVE  Paid'
<1>1. pieces' \in {0}
  OBVIOUS
<1>2. StrayPaysForAll'
  BY Zenon DEF StrayPaysForAll
<1>3. pieces' \in Nat /\ pieces' + rest' <= MaxRest
  BY <1>1, ALine, LineSpent, Zenon
<1> QED
  BY <1>2, <1>3 DEF Paid

\* While the input is open nothing has to be shown but where the program is.
LEMMA OpenKeeps ==
  ASSUME AtAStep, Counted, Move, input = "open", input' = "open", after = <<>>,
         after' = after, rest' \in 0..MaxRest, stray' \in BOOLEAN, Paid'
  PROVE  IInv'
<1>1. AtAStep' /\ Counted'
  BY MovesKeepPlace DEF AtAStep
<1>2. Unattended'
  BY DEF Unattended
<1>3. OneMore'
  BY DEF OneMore
<1> QED
  BY <1>1, <1>2, <1>3 DEF IInv

\* A line typed at a question goes where the answer sends the screen.
LEMMA TypeKeeps ==
  ASSUME IInv, NEW w \in Word, Type(w)
  PROVE  IInv'
<1>1. Move
  BY AnswersMove DEF IInv, Type
<1>2. Paid'
  BY NothingPaid, Zenon DEF Type
<1> QED
  BY <1>1, <1>2, OpenKeeps DEF IInv, Type, Quiet, Unattended

\* A piece pays for the answer it is, or for the choice that opens a screen.
LEMMA PiecesPay ==
  ASSUME AtAStep, Counted, Paid, Move, stray, pieces' = pieces + 1,
         screen' \notin Menus
  PROVE  pieces' > answers'
<1>1. pieces \in Nat /\ answers \in Nat
  BY DEF Paid, Counted
<1>2. CASE Passes
  <2>1. screen' = screen /\ answers' \in {answers, answers + 1}
    BY <1>1, <1>2 DEF Passes, Proceed
  <2> QED
    BY <1>1, <2>1 DEF Paid, StrayPaysForAll
<1>3. CASE Refuse \/ AskAgain
  <2>1. screen' = screen /\ answers' = answers
    BY <1>3 DEF Refuse, AskAgain, place
  <2> QED
    BY <1>1, <2>1 DEF Paid, StrayPaysForAll
<1>4. CASE Turns
  <2>1. answers' = 0
    BY <1>4 DEF Turns, Leave, Open
  <2> QED
    BY <1>1, <2>1
<1> QED
  BY <1>2, <1>3, <1>4 DEF Move

\* So does a piece of a line, which pays for it if it was left at a pause.
LEMMA ReadRestKeeps ==
  ASSUME IInv, NEW w \in Word, ReadRest(w)
  PROVE  IInv'
<1>1. Move
  BY AnswersMove DEF IInv, ReadRest
<1>2. input = "open"
  <2>1. rest > 0 /\ rest \in Int
    BY DEF IInv, AtAStep, ReadRest
  <2> QED
    BY <2>1 DEF IInv, AtAStep, Unattended
<1>3. rest' \in 0..MaxRest /\ rest' \in Nat /\ rest' <= rest - 1 /\ rest \in Nat
  <2>1. rest \in 0..MaxRest /\ rest > 0 /\ rest' \in 0..(rest - 1)
    BY DEF IInv, AtAStep, ReadRest
  <2> QED
    BY <2>1, ALine
<1>4. stray' = stray /\ pieces' = (IF stray THEN pieces + 1 ELSE 0)
  BY DEF ReadRest
<1>5. Paid'
  <2>1. pieces' \in Nat /\ pieces' + rest' <= MaxRest
    <3>1. pieces \in Nat /\ pieces + rest <= MaxRest
      BY DEF IInv, Paid
    <3>2. pieces' \in {0, pieces + 1}
      BY <1>4
    <3>3. pieces' \in Nat
      BY <3>1, <3>2
    <3> QED
      BY <1>3, <3>1, <3>2, <3>3, ALine, LineSpent, Zenon
  <2>2. StrayPaysForAll'
    BY <1>1, <1>4, PiecesPay DEF IInv, StrayPaysForAll
  <2> QED
    BY <2>1, <2>2 DEF Paid
<1> QED
  BY <1>1, <1>2, <1>3, <1>4, <1>5, OpenKeeps DEF IInv, AtAStep, ReadRest, Quiet, Unattended

\* A pause is the last step of its screen, which goes back to a menu.
LEMMA PausesLeave ==
  ASSUME AtAStep, Now.ask = "pause", PauseOver
  PROVE  /\ Leave /\ screen \notin Menus
         /\ screen' \in Menus /\ Now'.ask = "choice"
<1>1. at = Len(Script[screen]) /\ screen \notin Menus
  BY TheStep DEF Here, Final
<1>2. Leave
  BY <1>1 DEF PauseOver
<1>3. screen' \in Menus /\ at' = 1
  BY <1>2 DEF Leave, AtAStep, Menus
<1>4. Now'.ask = "choice"
  BY <1>3, MenusChoose DEF Now
<1> QED
  BY <1>1, <1>2, <1>3, <1>4

\* A pause ends at a menu, which is what its leftovers answer.
LEMMA TypeAtPauseKeeps ==
  ASSUME IInv, TypeAtPause
  PROVE  IInv'
<1>1. Leave /\ screen' \in Menus
  BY PausesLeave DEF IInv, TypeAtPause
<1>2. Move
  BY <1>1 DEF Move, Turns
<1>3. stray' \in BOOLEAN /\ Paid'
  BY <1>1, NothingPaid DEF TypeAtPause
<1> QED
  BY <1>2, <1>3, OpenKeeps DEF IInv, TypeAtPause, Quiet, Unattended

\* A pause at the end of the input, or with a line left over, ends by itself.
LEMMA PauseByItselfKeeps ==
  ASSUME IInv, PauseByItself
  PROVE  IInv'
<1>1. Leave /\ screen' \in Menus /\ Now'.ask = "choice"
  BY PausesLeave DEF IInv, PauseByItself
<1>2. Move
  BY <1>1 DEF Move, Turns
<1>3. stray' \in BOOLEAN /\ input' = input /\ after' = after /\ pieces' = 0
  BY DEF PauseByItself, Quiet
<1>4. rest' \in 0..MaxRest /\ (rest = 0 => rest' = 0)
  BY SessionAssumption DEF IInv, AtAStep, PauseByItself
<1>8. Paid'
  BY <1>1, <1>3, <1>4, NothingPaid
<1>5. AtAStep' /\ Counted'
  BY <1>2, <1>3, <1>4, MovesKeepPlace DEF IInv, AtAStep
<1>6. Unattended'
  BY <1>1, <1>3, <1>4 DEF IInv, Unattended
<1>7. OneMore'
  BY <1>1, <1>3 DEF IInv, OneMore
<1> QED
  BY <1>5, <1>6, <1>7, <1>8 DEF IInv

\* What lies behind a step that needs no answer.
LEMMA GoesOn ==
  ASSUME AtAStep, Counted, Now.ask \in {"text", "find", "call", "report"}, Proceed(0)
  PROVE  /\ screen' = screen /\ screen \notin Menus /\ answers' = answers
         /\ Now'.ask \notin {"ended", "report"}
         /\ Now'.ask = "call" => Now'.op \in Skippable
         /\ Now.ask = "call" => Now'.ask = "pause"
<1>1. /\ at \in 1..Len(Here) /\ at + 1 \in 1..Len(Here) /\ at + 1 # at /\ at + 1 # 1
  <2>1. at < Len(Here)
    BY NotLast DEF Inner
  <2> QED
    BY <2>1, TheStep
<1>2. screen' = screen /\ Now' = Here[at + 1]
  BY DEF Proceed, Now, Here
<1>3. EndsAsked(Here) /\ PassedOver(Here) /\ CallsThenPauses(Here)
  BY TheStep DEF WellMade, InForm
<1>4. Now'.ask \notin {"ended", "report"}
  BY <1>1, <1>2, <1>3, TheStep DEF EndsAsked
<1>5. Now'.ask = "call" => Now'.op \in Skippable
  BY <1>1, <1>2, <1>3, TheStep DEF PassedOver
<1>6. Now.ask = "call" => Now'.ask = "pause"
  BY <1>1, <1>2, <1>3, TheStep DEF CallsThenPauses
<1>7. answers' = answers
  <2>1. answers \in Nat /\ answers' = answers + 0
    BY DEF Proceed, Counted
  <2> QED
    BY <2>1
<1> QED
  BY <1>2, <1>4, <1>5, <1>6, <1>7, TheStep

\* A screen refuses at a pause or where it offers another choice.
LEMMA Refuses ==
  ASSUME AtAStep, Now.ask \in {"must", "email", "find"}, Refuse
  PROVE  /\ screen' = screen /\ screen \notin Menus /\ answers' = answers
         /\ Now'.ask \in {"pause", "choice"}
<1> DEFINE l == Len(Here)
<1>1. at \in 1..l /\ l \in 1..l /\ l # at
  <2>1. at < l
    BY NotLast DEF Inner
  <2> QED
    BY <2>1, TheStep
<1>2. screen' = screen /\ answers' = answers /\ Now' = Here[l]
  BY DEF Refuse, Now, Here
<1>3. EndsAsked(Here) /\ EndsOnce(Here)
  BY TheStep DEF WellMade, InForm
<1>4. Here[l].ask \in Final
  BY <1>1, <1>3 DEF EndsOnce
<1>5. Here[l].ask # "ended"
  BY <1>1, <1>3, TheStep DEF EndsAsked
<1> QED
  BY <1>2, <1>4, <1>5, TheStep DEF Final

\* A row or a file is there, and the script goes on, or it is not.
LEMMA LookUpKeeps ==
  ASSUME IInv, LookUp
  PROVE  IInv'
<1>1. /\ Now.ask = "find" /\ input' = input /\ rest' = rest /\ stray' = stray
      /\ pieces' = pieces /\ after' = after
  BY DEF LookUp, Quiet, line
<1>2. Move
  BY DEF LookUp, Move, Passes
<1>3. AtAStep' /\ Counted'
  BY <1>1, <1>2, MovesKeepPlace DEF IInv, AtAStep
<1>4. /\ screen' = screen /\ screen \notin Menus /\ answers' = answers
      /\ Now'.ask \notin {"ended", "report"}
      /\ Now'.ask = "call" => Now'.op \in Skippable
  BY <1>1, GoesOn, Refuses DEF LookUp, IInv
<1>5. Unattended'
  BY <1>1, <1>4 DEF IInv, Unattended
<1>6. OneMore' /\ Paid'
  BY <1>1, <1>4 DEF IInv, OneMore, Paid, StrayPaysForAll
<1> QED
  BY <1>3, <1>5, <1>6 DEF IInv

\* At the end of the input a question is passed over, refused or asked again.
LEMMA NoAnswerMoves ==
  ASSUME NoAnswer
  PROVE  \/ Now.ask = "text" /\ Proceed(0)
         \/ Now.ask \in {"must", "email"} /\ Refuse
         \/ Now.ask \in {"number", "choice", "yes"} /\ AskAgain
BY DEF NoAnswer, Missing, Unanswered

\* A question met at the end of the input is passed over, refused or asked again.
LEMMA ReadNothingKeeps ==
  ASSUME IInv, ReadNothing
  PROVE  IInv'
<1>1. /\ input' = input /\ rest' = rest /\ stray' = stray /\ pieces' = pieces
      /\ after' = after /\ NoAnswer
  BY DEF ReadNothing, Quiet, line
<1>2. Move
  BY <1>1, NoAnswerMoves DEF Move, Passes
<1>3. AtAStep' /\ Counted'
  BY <1>1, <1>2, MovesKeepPlace DEF IInv, AtAStep
<1>4. CASE Now.ask \in {"number", "choice", "yes"} /\ AskAgain
  <2>1. Now' = Now /\ screen' = screen /\ answers' = answers
    BY <1>4 DEF AskAgain, place, Now
  <2> QED
    BY <1>1, <1>3, <2>1 DEF IInv, Unattended, OneMore, Paid, StrayPaysForAll
<1>5. CASE \/ Now.ask = "text" /\ Proceed(0)
           \/ Now.ask \in {"must", "email"} /\ Refuse
  <2>1. /\ screen' = screen /\ screen \notin Menus /\ answers' = answers
        /\ Now'.ask \notin {"ended", "report"}
        /\ Now'.ask = "call" => Now'.op \in Skippable
    BY <1>5, GoesOn, Refuses DEF IInv
  <2>2. Unattended'
    BY <1>1, <2>1 DEF IInv, Unattended
  <2>3. OneMore' /\ Paid'
    BY <1>1, <1>5, <2>1 DEF IInv, OneMore, Paid, StrayPaysForAll
  <2> QED
    BY <1>3, <2>2, <2>3 DEF IInv
<1> QED
  BY <1>1, <1>4, <1>5, NoAnswerMoves

\* After a call comes its pause, and one made after the end of the input was the last.
LEMMA MakeCallKeeps ==
  ASSUME IInv, MakeCall
  PROVE  IInv'
<1>1. /\ Now.ask = "call" /\ Proceed(0)
      /\ input' = input /\ rest' = rest /\ stray' = stray /\ pieces' = pieces
  BY DEF MakeCall, line
<1>2. Move
  BY <1>1 DEF Move, Passes
<1>3. AtAStep' /\ Counted'
  BY <1>1, <1>2, MovesKeepPlace DEF IInv, AtAStep
<1>4. /\ screen' = screen /\ screen \notin Menus /\ answers' = answers
      /\ Now'.ask = "pause"
  BY <1>1, GoesOn DEF IInv
<1>5. Paid'
  BY <1>1, <1>4 DEF IInv, Paid, StrayPaysForAll
<1>6. after = <<>>
  BY <1>1 DEF IInv, OneMore
<1>7. CASE input = "open"
  <2>1. after' = <<>>
    BY <1>6, <1>7 DEF MakeCall
  <2> QED
    BY <1>1, <1>3, <1>5, <1>7, <2>1 DEF IInv, Unattended, OneMore
<1>8. CASE input = "end"
  <2>1. after' = <<Now.op>> /\ Now.op \in Skippable
    BY <1>1, <1>6, <1>8 DEF MakeCall, IInv, Unattended
  <2> QED
    BY <1>1, <1>3, <1>4, <1>5, <1>8, <2>1 DEF IInv, Unattended, OneMore
<1> QED
  BY <1>7, <1>8 DEF IInv, AtAStep

\* A report comes back to its pause, or kills the program while the input is open.
LEMMA ShowReportKeeps ==
  ASSUME IInv, ShowReport
  PROVE  IInv'
<1>1. /\ Now.ask = "report" /\ input' = input /\ rest' = rest /\ stray' = stray
      /\ pieces' = pieces /\ after' = after
  BY DEF ShowReport, Quiet, line
<1>2. Move
  <2>1. "dead" \in DOMAIN Script
    BY DEF Script
  <2> QED
    BY <2>1 DEF ShowReport, Move, Passes, Turns
<1>3. input = "open"
  BY <1>1 DEF IInv, AtAStep, Unattended
<1>4. Paid'
  <2>1. screen \notin Menus /\ pieces \in Nat /\ answers \in Nat
    BY <1>1, TheStep DEF IInv, Paid, Counted
  <2>2. answers' \in {answers, 0}
    BY <2>1 DEF ShowReport, Proceed, Open
  <2> QED
    BY <1>1, <2>1, <2>2 DEF IInv, Paid, StrayPaysForAll
<1> QED
  BY <1>1, <1>2, <1>3, <1>4, OpenKeeps DEF IInv, AtAStep, Unattended

\* The input ends under whatever question is asked; no call was made after it.
LEMMA EndInputKeeps ==
  ASSUME IInv, EndInput
  PROVE  IInv'
<1>1. /\ menu' = menu /\ screen' = screen /\ at' = at /\ answers' = answers
      /\ rest' = rest /\ stray' = stray /\ pieces' = pieces /\ after' = after
      /\ input' = "end" /\ rest = 0 /\ input = "open"
      /\ Now.ask \in Questions \cup {"pause"}
  BY DEF EndInput, place, line
<1>2. Now' = Now /\ Here' = Here
  BY <1>1 DEF Now, Here
<1>3. AtAStep' /\ Counted' /\ OneMore' /\ Paid'
  BY <1>1, <1>2 DEF IInv, AtAStep, Counted, OneMore, Paid, StrayPaysForAll
<1>4. Unattended'
  BY <1>1, <1>2 DEF Unattended, Questions
<1> QED
  BY <1>3, <1>4 DEF IInv

-----------------------------------------------------------------------------
(* Theorems.                                                               *)

\* The program comes up at the main menu with its input open.
LEMMA Initially == Init => IInv
<1> SUFFICES ASSUME Init PROVE IInv
  OBVIOUS
<1>1. AtAStep
  <2>1. "main" \in Menus
    BY DEF Menus
  <2>2. screen \in DOMAIN Script /\ Len(Here) = 1 /\ at = 1
    BY <2>1, MenusChoose DEF Init, Here
  <2>3. at \in 1..Len(Here)
    BY <2>2
  <2>4. MaxRest \in Nat
    BY SessionAssumption
  <2>5. rest \in 0..MaxRest
    BY <2>4 DEF Init
  <2> QED
    BY <2>1, <2>2, <2>3, <2>5 DEF Init, AtAStep
<1>2. Counted
  <2>1. Cardinality(Demands(Here, at - 1)) = 0
    BY DemandsCounted DEF Init
  <2> QED
    BY <2>1 DEF Init, Counted
<1>3. Unattended /\ OneMore /\ Paid
  BY SessionAssumption DEF Init, Unattended, OneMore, Paid, StrayPaysForAll
<1> QED
  BY <1>1, <1>2, <1>3 DEF IInv

\* Every step, of the program or of its user, keeps the invariant.
LEMMA Stepwise == IInv /\ [Next]_vars => IInv'
<1> SUFFICES ASSUME IInv, [Next]_vars PROVE IInv'
  OBVIOUS
<1>1. CASE Next
  BY <1>1, TypeKeeps, ReadRestKeeps, ReadNothingKeeps, TypeAtPauseKeeps,
     PauseByItselfKeeps, LookUpKeeps, MakeCallKeeps, ShowReportKeeps, EndInputKeeps
  DEF Next, Program, User
<1>2. CASE UNCHANGED vars
  BY <1>2 DEF vars, IInv, AtAStep, Counted, Unattended, OneMore, Paid,
           StrayPaysForAll, Here, Now
<1> QED
  BY <1>1, <1>2

\* The invariant holds in every state of every sitting.
THEOREM Invariance == Spec => []IInv
BY Initially, Stepwise, PTL DEF Spec

\* A sitting is always at a step of a screen's script: no screen runs over its
\* end, whatever is typed and wherever the input ends.
THEOREM Typing == Spec => []TypeOK
<1>1. IInv => TypeOK
  <2> SUFFICES ASSUME IInv PROVE TypeOK
    OBVIOUS
  <2>1. answers \in Nat /\ answers <= 3
    <3> DEFINE i == at - 1
    <3>1. i \in Nat /\ i <= Len(Here) /\ WellMade(Here)
      BY TheStep DEF IInv
    <3>2. Cardinality(Demands(Here, i)) \in Nat /\ Cardinality(Demands(Here, i)) <= 3
      BY <3>1, DemandsCounted, ThreeDemands
    <3> QED
      BY <3>2 DEF IInv, Counted
  <2>2. pieces \in 0..MaxRest
    <3>1. pieces \in Nat /\ pieces + rest <= MaxRest /\ rest \in 0..MaxRest
      BY DEF IInv, AtAStep, Paid
    <3> QED
      BY <3>1, ALine
  <2> QED
    BY <2>1, <2>2 DEF IInv, AtAStep, TypeOK, Here
<1> QED
  BY <1>1, Invariance, PTL

\* However the input ends, one more call is made at most, and none that lends
\* back, renews, deletes, restores or saves (utils.c 295, 313, 333).
THEOREM OneCallMore == Spec => []AfterTheEnd
<1>1. IInv => AfterTheEnd
  <2> SUFFICES ASSUME IInv PROVE AfterTheEnd
    OBVIOUS
  <2>1. CASE after = <<>>
    BY <2>1 DEF AfterTheEnd
  <2>2. ASSUME NEW op \in Skippable, after = <<op>> PROVE AfterTheEnd
    <3>1. Len(after) = 1 /\ after[1] = op /\ Len(after) <= 1
      BY <2>2
    <3>2. \A i \in 1..Len(after) : i = 1
      BY <3>1
    <3>3. \A i \in 1..Len(after) : after[i] = op
      BY <3>1, <3>2
    <3> QED
      BY <3>1, <3>3, Zenon DEF AfterTheEnd, Skippable
  <2> QED
    BY <2>1, <2>2 DEF IInv, OneMore
<1> QED
  BY <1>1, Invariance, PTL

\* No call is made before each required question of its screen was answered,
\* however lines are too long and wherever the input ends.
THEOREM CallsWait == Spec => []CallsAnswered
<1>1. IInv => CallsAnswered
  <2> SUFFICES ASSUME IInv, Now.ask = "call"
               PROVE  answers = Cardinality(Demands(Here, at))
    BY DEF CallsAnswered, Demands, Here
  <2> DEFINE i == at - 1
  <2>1. i \in Nat /\ i + 1 = at /\ at < Len(Here) /\ Now = Here[at]
    BY TheStep, NotLast DEF IInv, Inner
  <2>2. Demands(Here, i + 1) = Demands(Here, i)
    BY <2>1, DemandsCounted DEF Required
  <2> QED
    BY <2>1, <2>2 DEF IInv, Counted
<1> QED
  BY <1>1, Invariance, PTL

\* What was left at a pause has paid, a piece each, for the choice that opened the
\* screen and for every answer there: it meets a menu before any other question.
THEOREM StrayChooses == Spec => []StrayPaysForAll
<1>1. IInv => StrayPaysForAll
  BY DEF IInv, Paid
<1> QED
  BY <1>1, Invariance, PTL

-----------------------------------------------------------------------------
(* What of AsksForEver is safety.                                          *)

\* The program asks what only an answer ends, and there are no more answers.
Settled == input = "end" /\ Now.ask \in {"number", "choice", "yes"}

\* Once the input has ended, the program does not end by itself: neither does
\* it quit nor die in a report.
THEOREM StaysUp == Spec => [](input = "end" => Now.ask # "ended")
<1>1. IInv => (input = "end" => Now.ask # "ended")
  BY DEF IInv, Unattended
<1> QED
  BY <1>1, Invariance, PTL

\* A question met at the end of the input is asked for ever: get_integer_input
\* and get_yes_no_input know no way out (utils.c 313, 333).
THEOREM AskedForEver == Spec => [](Settled => []Settled)
<1>1. IInv /\ Settled /\ [Next]_vars => Settled'
  <2> SUFFICES ASSUME IInv, Settled, [Next]_vars PROVE Settled'
    OBVIOUS
  <2>1. input = "end" /\ rest = 0 /\ Now.ask \in {"number", "choice", "yes"}
    BY DEF IInv, Unattended, Settled
  <2>2. CASE ReadNothing
    <3>1. input' = input /\ AskAgain
      BY <2>1, <2>2, NoAnswerMoves DEF ReadNothing, Quiet
    <3> QED
      BY <2>1, <3>1 DEF AskAgain, place, Now, Settled
  <2>3. CASE UNCHANGED vars
    BY <2>1, <2>3 DEF vars, Now, Settled
  <2>4. CASE Next
    <3>1. ASSUME NEW w \in Word, ReadRest(w) \/ Type(w) PROVE FALSE
      BY <2>1, <3>1 DEF ReadRest, Type
    <3>2. ~ (PauseByItself \/ LookUp \/ MakeCall \/ ShowReport
              \/ TypeAtPause \/ EndInput)
      BY <2>1 DEF PauseByItself, LookUp, MakeCall, ShowReport, TypeAtPause, EndInput
    <3> QED
      BY <2>2, <2>4, <3>1, <3>2 DEF Next, Program, User
  <2> QED
    BY <2>3, <2>4
<1> QED
  BY <1>1, Invariance, PTL DEF Spec

==============================================================================
