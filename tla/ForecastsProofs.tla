---------------------------- MODULE ForecastsProofs ----------------------------
(***************************************************************************)
(* No forecast passes a reviewer and no line is completed without the       *)
(* approvals before it, for any number of lines, cycles and overlapping     *)
(* calls.  What makes it inductive is what an approval under way knows: the *)
(* stage it read had the head's approval, and approvals are never removed.  *)
(***************************************************************************)
EXTENDS Forecasts, TLAPS

\* An approval that has logged itself, and an officer's at any time, is for a
\* cycle with the approvals its next statement relies on.
ApprovalFits(c) ==
  LET given == approved[call[c].year]
  IN  /\ call[c].verb = "headApprove" /\ call[c].at = "move" => "HEAD_REVIEW" \in given
      /\ call[c].verb = "officerApprove" => "HEAD_REVIEW" \in given
      /\ call[c].verb = "officerApprove" /\ call[c].at \in {"complete", "move"} =>
           ReviewStages \subseteq given

CallsFit == \A c \in Calls : Running(c) => ApprovalFits(c)

IInv == TypeOK /\ CompletedWasReviewed /\ CallsFit

LEMMA InitEstablishes == Init => IInv
<1> SUFFICES ASSUME Init PROVE IInv
  OBVIOUS
<1>1. TypeOK
  BY ForecastAssumption DEF Init, TypeOK, Years, Stages
<1>2. CompletedWasReviewed /\ CallsFit
  BY DEF Init, CompletedWasReviewed, CallsFit, Running, ReviewStages
<1> QED
  BY <1>1, <1>2 DEF IInv

-----------------------------------------------------------------------------
(* The types.                                                               *)

CallType == [Calls -> Call \cup {NoCall}]

LEMMA BeginTyped ==
  ASSUME TypeOK, NEW c \in Calls, NEW verb \in Verbs, NEW step \in Steps, NEW y \in Years,
         NEW lines \in SUBSET Lines, NEW now \in Lines \cup {NoLine}, NEW months \in SUBSET Months,
         now = NoLine \/ now \in LinesOf(y), Begin(c, verb, step, y, lines, now, months)
  PROVE  /\ call' \in CallType /\ clashed' \in BOOLEAN
         /\ call'[c].verb = verb /\ call'[c].at = step /\ call'[c].year = y
         /\ \A d \in Calls \ {c} : call'[d] = call[d]
<1> DEFINE seen == IF now = NoLine THEN {} ELSE filled[y][now]
<1>1. seen \in SUBSET Months
  BY DEF TypeOK, LinesOf
<1>2. [verb |-> verb, at |-> step, year |-> y, lines |-> lines, left |-> lines,
       now |-> now, months |-> months, seen |-> seen] \in Call
  BY <1>1 DEF Call
<1> QED
  BY <1>2 DEF Begin, TypeOK, CallType

LEMMA DoneTyped ==
  ASSUME TypeOK, NEW c \in Calls, Done(c)
  PROVE  call' \in CallType /\ call'[c] = NoCall /\ \A d \in Calls \ {c} : call'[d] = call[d]
BY DEF Done, TypeOK, CallType

LEMMA GotoTyped ==
  ASSUME TypeOK, NEW c \in Calls, Running(c), NEW step \in Steps, Goto(c, step)
  PROVE  /\ call' \in CallType /\ call'[c] = [call[c] EXCEPT !.at = step]
         /\ \A d \in Calls \ {c} : call'[d] = call[d]
BY DEF Goto, TypeOK, CallType, Call, Running

LEMMA NextLineTyped ==
  ASSUME TypeOK, NEW c \in Calls, Running(c), NEW l, NEW end \in {"done", "clear"},
         NextLine(c, l, end)
  PROVE  /\ call' \in CallType
         /\ \/ call'[c] = NoCall
            \/ call'[c].verb = call[c].verb /\ call'[c].at # "write"
         /\ \A d \in Calls \ {c} : call'[d] = call[d]
<1>1. CASE call[c].left \ {l} = {} /\ end = "done"
  BY <1>1, DoneTyped DEF NextLine
<1>2. CASE ~(call[c].left \ {l} = {} /\ end = "done")
  <2> DEFINE step == IF call[c].left \ {l} = {} THEN end ELSE "read"
             next == [call[c] EXCEPT !.left = @ \ {l}, !.now = NoLine, !.seen = {}, !.at = step]
  <2>1. call[c] \in Call /\ step \in Steps
    <3>1. call[c] \in Call
      BY DEF Running, TypeOK
    <3>2. step \in Steps
      BY <1>2 DEF Steps
    <3> QED
      BY <3>1, <3>2
  <2>2. next \in Call /\ next.verb = call[c].verb /\ next.at # "write"
    <3>1. next \in Call /\ next.verb = call[c].verb /\ next.at = step
      BY <2>1 DEF Call
    <3> QED
      BY <3>1
  <2>3. call' = [call EXCEPT ![c] = next]
    BY <1>2, <2>1 DEF NextLine, TypeOK, Call
  <2> QED
    BY <2>2, <2>3 DEF TypeOK, CallType
<1> QED
  BY <1>1, <1>2

-----------------------------------------------------------------------------
(* A step of a call that approves nothing: the review is left alone, and    *)
(* the call stays what it was.                                              *)

LEMMA OthersFit ==
  ASSUME IInv, NEW c \in Calls, TypeOK',
         \A y \in Years : approved[y] \subseteq approved'[y],
         \A d \in Calls \ {c} : call'[d] = call[d],
         Running(c)' => ApprovalFits(c)'
  PROVE  CallsFit'
<1> SUFFICES ASSUME NEW d \in Calls, d # c, Running(d)' PROVE ApprovalFits(d)'
  BY DEF CallsFit
<1>1. Running(d) /\ call'[d] = call[d] /\ call[d] \in Call
  BY DEF Running, IInv, TypeOK
<1>2. ApprovalFits(d)
  BY <1>1 DEF IInv, CallsFit
<1> QED
  BY <1>1, <1>2 DEF ApprovalFits, Call

LEMMA OutsideTheReview ==
  ASSUME IInv, TypeOK', NEW c \in Calls, UNCHANGED <<completed, stage, approved>>,
         \A d \in Calls \ {c} : call'[d] = call[d],
         call'[c] = NoCall \/ call'[c].verb \notin Approvals
  PROVE  IInv'
<1>1. CompletedWasReviewed'
  BY DEF IInv, CompletedWasReviewed
<1>2. Running(c)' => ApprovalFits(c)'
  BY DEF Running, ApprovalFits, Approvals
<1>3. CallsFit'
  BY <1>2, OthersFit
<1> QED
  BY <1>1, <1>3 DEF IInv

LEMMA StartKeeps ==
  ASSUME IInv, NEW c \in Calls, Start(c)
  PROVE  IInv'
<1> USE DEF IInv
<1>0. year \in Years
  BY DEF TypeOK
<1>1. ASSUME NEW y \in Years, NEW l \in Lines, NEW m \in Months, StartPatch(c, y, l, m) PROVE IInv'
  <2>0. {l} \in SUBSET Lines /\ {m} \in SUBSET Months /\ "patch" \in Verbs /\ "write" \in Steps
    BY DEF Verbs, Entries, Steps
  <2>1. /\ call' \in CallType /\ clashed' \in BOOLEAN /\ call'[c].verb = "patch"
        /\ \A d \in Calls \ {c} : call'[d] = call[d]
    BY <1>1, <2>0, BeginTyped DEF StartPatch
  <2>2. TypeOK'
    BY <1>1, <2>1 DEF TypeOK, StartPatch, cycle, lineVars, reviewVars, CallType
  <2> QED
    BY <1>1, <2>1, <2>2, OutsideTheReview DEF StartPatch, lineVars, reviewVars, Approvals
<1>2. ASSUME NEW lines \in SUBSET Lines, NEW file \in Files,
             StartUpload(c, lines, file) \/ StartWorkbook(c, lines, file) PROVE IInv'
  <2>1. file \in SUBSET Months /\ file \cap Remaining \in SUBSET Months
    BY ForecastAssumption
  <2>2. /\ call' \in CallType /\ clashed' \in BOOLEAN /\ call'[c].verb \in {"upload", "workbook"}
        /\ \A d \in Calls \ {c} : call'[d] = call[d]
    BY <1>0, <1>2, <2>1, BeginTyped DEF StartUpload, StartWorkbook, Verbs, Entries, Steps
  <2>3. TypeOK'
    BY <1>2, <2>2 DEF TypeOK, StartUpload, StartWorkbook, cycle, lineVars, reviewVars, CallType
  <2> QED
    BY <1>2, <2>2, <2>3, OutsideTheReview
    DEF StartUpload, StartWorkbook, lineVars, reviewVars, Approvals
<1>3. ASSUME NEW lines \in SUBSET Lines, StartSync(c, lines) PROVE IInv'
  <2>1. /\ call' \in CallType /\ clashed' \in BOOLEAN /\ call'[c].verb = "sync"
        /\ \A d \in Calls \ {c} : call'[d] = call[d]
    BY <1>0, <1>3, BeginTyped DEF StartSync, Verbs, Steps
  <2>2. TypeOK'
    BY <1>3, <2>1 DEF TypeOK, StartSync, cycle, lineVars, reviewVars, CallType
  <2> QED
    BY <1>3, <2>1, <2>2, OutsideTheReview DEF StartSync, lineVars, reviewVars, Approvals
<1>4. CASE StartSubmit(c)
  <2>1. /\ call' \in CallType /\ clashed' \in BOOLEAN /\ call'[c].verb = "submit"
        /\ \A d \in Calls \ {c} : call'[d] = call[d]
    <3>1. {} \in SUBSET Lines /\ {} \in SUBSET Months /\ "submit" \in Verbs /\ "check" \in Steps
      BY DEF Verbs, Steps
    <3> QED
      BY <1>0, <1>4, <3>1, BeginTyped DEF StartSubmit
  <2>2. TypeOK'
    BY <1>4, <2>1 DEF TypeOK, StartSubmit, cycle, lineVars, reviewVars, CallType
  <2> QED
    BY <1>4, <2>1, <2>2, OutsideTheReview DEF StartSubmit, lineVars, reviewVars, Approvals
<1>5. ASSUME NEW verb \in Decisions, StartDecision(c, verb) PROVE IInv'
  <2>1. /\ call' \in CallType /\ clashed' \in BOOLEAN
        /\ call'[c].verb = verb /\ call'[c].at = "log" /\ call'[c].year = year
        /\ \A d \in Calls \ {c} : call'[d] = call[d]
    BY <1>0, <1>5, BeginTyped DEF StartDecision, Verbs, Steps
  <2>2. TypeOK'
    BY <1>5, <2>1 DEF TypeOK, StartDecision, cycle, lineVars, reviewVars, CallType
  <2>3. verb = "officerApprove" => "HEAD_REVIEW" \in approved[year]
    BY <1>0, <1>5 DEF StartDecision, Reviewer, CompletedWasReviewed
  <2>4. ApprovalFits(c)'
    BY <1>5, <2>1, <2>3 DEF StartDecision, reviewVars, ApprovalFits
  <2>5. CallsFit'
    BY <1>5, <2>1, <2>2, <2>4, OthersFit DEF StartDecision, reviewVars
  <2>6. CompletedWasReviewed'
    BY <1>5 DEF StartDecision, lineVars, reviewVars, CompletedWasReviewed
  <2> QED
    BY <2>2, <2>5, <2>6
<1> QED
  BY <1>1, <1>2, <1>3, <1>4, <1>5 DEF Start

LEMMA EntryKeeps ==
  ASSUME IInv, NEW c \in Calls, NEW l,
         \/ l \in Lines /\ (ReadLine(c, l) \/ UpsertLine(c, l) \/ SyncLine(c, l))
         \/ WriteMonths(c) \/ ClearRest(c)
  PROVE  IInv'
<1> USE DEF IInv
<1>1. /\ Running(c) /\ call[c] \in Call /\ call[c].verb \in Entries \cup {"sync"}
      /\ call[c].year \in Years
  BY DEF ReadLine, UpsertLine, SyncLine, WriteMonths, ClearRest, At, Running, TypeOK, Call, Entries
<1>2. /\ UNCHANGED <<cycle, completed, stage, approved, clashed>>
      /\ disturbed' \subseteq Years
  BY <1>1 DEF ReadLine, UpsertLine, SyncLine, WriteMonths, ClearRest, lineVars, reviewVars, TypeOK
<1>3. /\ call' \in CallType
      /\ call'[c] = NoCall \/ call'[c].verb = call[c].verb
      /\ \A d \in Calls \ {c} : call'[d] = call[d]
  <2>1. CASE l \in Lines /\ ReadLine(c, l) /\ l \in LinesOf(call[c].year)
    <3> DEFINE next == [call[c] EXCEPT !.at = "write", !.now = l, !.seen = filled[call[c].year][l]]
    <3>0. filled[call[c].year][l] \in SUBSET Months
      BY <1>1, <2>1 DEF LinesOf, TypeOK
    <3>1. next \in Call /\ next.verb = call[c].verb
      BY <1>1, <2>1, <3>0 DEF Call, Steps
    <3>2. call' = [call EXCEPT ![c] = next]
      BY <1>1, <2>1 DEF ReadLine, TypeOK
    <3> QED
      BY <3>1, <3>2 DEF TypeOK, CallType
  <2>2. CASE l \in Lines /\ ReadLine(c, l) /\ l \notin LinesOf(call[c].year)
    BY <1>1, <2>2, NextLineTyped DEF ReadLine
  <2>3. CASE l \in Lines /\ UpsertLine(c, l)
    BY <1>1, <2>3, NextLineTyped DEF UpsertLine
  <2>4. CASE l \in Lines /\ SyncLine(c, l)
    BY <1>1, <2>4, NextLineTyped DEF SyncLine
  <2>5. CASE WriteMonths(c)
    BY <1>1, <2>5, NextLineTyped DEF WriteMonths
  <2>6. CASE ClearRest(c)
    BY <1>1, <2>6, DoneTyped DEF ClearRest
  <2> QED
    BY <2>1, <2>2, <2>3, <2>4, <2>5, <2>6
<1>4. filled' \in [Years -> [Lines -> {NoLine} \cup SUBSET Months]]
  <2>1. CASE l \in Lines /\ ReadLine(c, l)
    BY <2>1 DEF ReadLine, lineVars, TypeOK
  <2>2. CASE l \in Lines /\ UpsertLine(c, l)
    BY <1>1, <2>2 DEF UpsertLine, TypeOK, Call
  <2>3. CASE l \in Lines /\ SyncLine(c, l)
    BY <1>1, <2>3 DEF SyncLine, TypeOK, Call
  <2>4. CASE WriteMonths(c)
    BY <1>1, <2>4 DEF WriteMonths, TypeOK, Call
  <2>5. CASE ClearRest(c)
    BY <1>1, <2>5 DEF ClearRest, TypeOK, Call
  <2> QED
    BY <2>1, <2>2, <2>3, <2>4, <2>5
<1>5. TypeOK'
  BY <1>2, <1>3, <1>4 DEF TypeOK, cycle, CallType
<1> QED
  BY <1>1, <1>2, <1>3, <1>5, OutsideTheReview DEF Entries, Approvals

-----------------------------------------------------------------------------
(* The review.                                                              *)

LEMMA ReviewKeeps ==
  ASSUME IInv, NEW c \in Calls,
         CheckLines(c) \/ LogDecision(c) \/ CompleteLines(c) \/ Move(c)
  PROVE  IInv'
<1> USE DEF IInv
<1>1. /\ Running(c) /\ call[c] \in Call /\ ApprovalFits(c)
      /\ call[c].verb \in Decisions \cup {"submit"} /\ call[c].year \in Years
  BY DEF CheckLines, LogDecision, CompleteLines, Move, At, Running, TypeOK, Call, CallsFit, Decisions, Approvals
<1>2. CASE CheckLines(c)
  <2>1. /\ call' \in CallType
        /\ call'[c] = NoCall \/ call'[c].verb = "submit"
        /\ \A d \in Calls \ {c} : call'[d] = call[d]
    BY <1>1, <1>2, DoneTyped, GotoTyped DEF CheckLines, At, Steps, Call
  <2>2. TypeOK'
    <3>1. disturbed' \subseteq Years
      BY <1>2 DEF CheckLines, TypeOK
    <3> QED
      BY <1>2, <2>1, <3>1 DEF CheckLines, TypeOK, cycle, lineVars, reviewVars, CallType
  <2> QED
    BY <1>2, <2>1, <2>2, OutsideTheReview DEF CheckLines, lineVars, reviewVars, Approvals
<1>3. CASE LogDecision(c)
  <2> DEFINE step == IF call[c].verb = "officerApprove" THEN "complete" ELSE "move"
  <2>1. /\ call' \in CallType /\ call'[c] = [call[c] EXCEPT !.at = step]
        /\ \A d \in Calls \ {c} : call'[d] = call[d]
    BY <1>1, <1>3, GotoTyped DEF LogDecision, Steps
  <2>2. /\ approved' \in [Years -> SUBSET ReviewStages]
        /\ \A y \in Years : approved[y] \subseteq approved'[y]
        /\ call[c].verb \in Approvals => Reviewer(call[c].verb) \in approved'[call[c].year]
    BY <1>1, <1>3 DEF LogDecision, TypeOK, Reviewer, ReviewStages
  <2>3. TypeOK'
    BY <1>3, <2>1, <2>2 DEF LogDecision, TypeOK, cycle, lineVars, CallType
  <2>4. ApprovalFits(c)'
    BY <1>1, <2>1, <2>2 DEF ApprovalFits, Call, Reviewer, Approvals, ReviewStages
  <2>5. CallsFit'
    BY <2>1, <2>2, <2>3, <2>4, OthersFit
  <2>6. CompletedWasReviewed'
    BY <1>3, <2>2 DEF LogDecision, lineVars, CompletedWasReviewed
  <2> QED
    BY <2>3, <2>5, <2>6
<1>4. CASE CompleteLines(c)
  <2>1. /\ call' \in CallType /\ call'[c] = [call[c] EXCEPT !.at = "move"]
        /\ \A d \in Calls \ {c} : call'[d] = call[d]
    BY <1>1, <1>4, GotoTyped DEF CompleteLines, Steps
  <2>2. completed' \subseteq Years \X Lines
    BY <1>1, <1>4 DEF CompleteLines, TypeOK, LinesOf
  <2>3. TypeOK'
    BY <1>4, <2>1, <2>2 DEF CompleteLines, TypeOK, cycle, reviewVars, CallType
  <2>4. ReviewStages \subseteq approved[call[c].year]
    BY <1>1, <1>4 DEF CompleteLines, At, ApprovalFits
  <2>5. CompletedWasReviewed'
    <3>1. \A y \in Years, l \in Lines :
            <<y, l>> \in completed' => <<y, l>> \in completed \/ y = call[c].year
      BY <1>4 DEF CompleteLines
    <3> QED
      BY <1>4, <2>4, <3>1 DEF CompleteLines, reviewVars, CompletedWasReviewed
  <2>6. ApprovalFits(c)'
    BY <1>1, <1>4, <2>1, <2>4 DEF CompleteLines, reviewVars, ApprovalFits, Call, ReviewStages
  <2>7. CallsFit'
    BY <1>4, <2>1, <2>3, <2>6, OthersFit DEF CompleteLines, reviewVars
  <2> QED
    BY <2>3, <2>5, <2>7
<1>5. CASE Move(c)
  <2>1. /\ call' \in CallType /\ call'[c] = NoCall
        /\ \A d \in Calls \ {c} : call'[d] = call[d]
    BY <1>5, DoneTyped DEF Move
  <2>2. NextStage(call[c].verb) \in Stages
    BY DEF NextStage, Stages, ReviewStages
  <2>3. TypeOK'
    BY <1>5, <2>1, <2>2 DEF Move, TypeOK, cycle, lineVars, CallType
  <2>4. CallsFit'
    BY <1>5, <2>1, <2>3, OthersFit DEF Move, Running
  <2>5. /\ NextStage(call[c].verb) = "BUDGET_OFFICER_REVIEW" => "HEAD_REVIEW" \in approved[call[c].year]
        /\ NextStage(call[c].verb) = "APPROVED" => ReviewStages \subseteq approved[call[c].year]
    BY <1>1, <1>5 DEF Move, At, ApprovalFits, NextStage, Decisions, Approvals
  <2>6. CompletedWasReviewed'
    BY <1>1, <1>5, <2>5 DEF Move, lineVars, TypeOK, CompletedWasReviewed
  <2> QED
    BY <2>3, <2>4, <2>6
<1> QED
  BY <1>2, <1>3, <1>4, <1>5

LEMMA StepKeeps == IInv /\ [Next]_vars => IInv'
<1> SUFFICES ASSUME IInv, [Next]_vars PROVE IInv'
  OBVIOUS
<1> USE DEF IInv
<1>1. ASSUME NEW y \in Years, NEW m \in Cutoffs, SetCycle(y, m) PROVE IInv'
  BY <1>1 DEF SetCycle, TypeOK, CompletedWasReviewed, CallsFit, Running, ApprovalFits, lineVars, reviewVars
<1>2. CASE MoveDueDate
  BY <1>2 DEF MoveDueDate, TypeOK, CompletedWasReviewed, CallsFit, Running, ApprovalFits, lineVars, reviewVars
<1>3. ASSUME NEW c \in Calls, Start(c) PROVE IInv'
  BY <1>3, StartKeeps
<1>4. ASSUME NEW c \in Calls, Continue(c) PROVE IInv'
  <2>1. CASE CheckLines(c) \/ LogDecision(c) \/ CompleteLines(c) \/ Move(c)
    BY <2>1, ReviewKeeps
  <2>2. CASE \E l \in Lines : ReadLine(c, l) \/ UpsertLine(c, l) \/ SyncLine(c, l)
    BY <2>2, EntryKeeps
  <2>3. CASE WriteMonths(c) \/ ClearRest(c)
    BY <2>3, EntryKeeps
  <2> QED
    BY <1>4, <2>1, <2>2, <2>3 DEF Continue
<1>5. CASE Crash
  BY <1>5 DEF Crash, TypeOK, CompletedWasReviewed, CallsFit, Running, cycle, lineVars, reviewVars
<1>6. CASE UNCHANGED vars
  BY <1>6 DEF vars, TypeOK, CompletedWasReviewed, CallsFit, Running, ApprovalFits, LinesOf
<1> QED
  BY <1>1, <1>2, <1>3, <1>4, <1>5, <1>6 DEF Next

-----------------------------------------------------------------------------

\* The variables keep their types (forecast.ts, forecastWorkflowService.ts).
THEOREM TypeCorrect == Spec => []TypeOK
<1>1. IInv => TypeOK
  BY DEF IInv
<1> QED
  BY InitEstablishes, StepKeeps, <1>1, PTL DEF Spec

\* headDecision and budgetOfficerDecision: no line is completed, and no
\* submission gets past a reviewer, before the reviewers ahead have approved.
THEOREM NothingUnreviewed == Spec => []CompletedWasReviewed
<1>1. IInv => CompletedWasReviewed
  BY DEF IInv
<1> QED
  BY InitEstablishes, StepKeeps, <1>1, PTL DEF Spec

-----------------------------------------------------------------------------
(* What was entered stays, and what is under review is filled.  The months  *)
(* a call is about to write were read from the line as it still is, since   *)
(* no other call enters months; a submit about to move the submission and   *)
(* every decision have found the lines filled.                              *)

Entering(c) == Running(c) /\ call[c].verb \in Entries

OneEntry == \A c, d \in Calls : Entering(c) /\ Entering(d) => c = d

SeenIsCurrent ==
  \A c \in Calls : At(c, {"patch", "upload"}, "write") =>
    /\ call[c].now \in LinesOf(call[c].year)
    /\ call[c].seen = filled[call[c].year][call[c].now]

InTheReview(c) ==
  /\ Running(c) /\ call[c].year = year
  /\ call[c].verb \in Decisions \/ (call[c].verb = "submit" /\ call[c].at = "move")

ReviewIsFilled ==
  year \notin disturbed /\ (~Editable(year) \/ \E c \in Calls : InTheReview(c)) => Submittable

LInv == ~clashed => OneEntry /\ SeenIsCurrent /\ ReviewIsFilled

\* A call that changes no line and no stage.
LEMMA QuietStep ==
  ASSUME IInv, LInv, IInv', NEW c \in Calls,
         UNCHANGED <<year, asOf, filled, stage, disturbed>>, clashed => clashed',
         \A d \in Calls \ {c} : call'[d] = call[d],
         Entering(c)' /\ ~clashed' => \A d \in Calls \ {c} : ~Entering(d),
         At(c, {"patch", "upload"}, "write")' /\ ~clashed' =>
           /\ call'[c].now \in LinesOf(call'[c].year)
           /\ call'[c].seen = filled[call'[c].year][call'[c].now],
         InTheReview(c)' /\ year \notin disturbed /\ ~clashed' => Submittable
  PROVE  LInv'
<1> SUFFICES ASSUME ~clashed' PROVE OneEntry' /\ SeenIsCurrent' /\ ReviewIsFilled'
  BY DEF LInv
<1>0. OneEntry /\ SeenIsCurrent /\ ReviewIsFilled
  BY DEF LInv
<1>1. OneEntry'
  BY <1>0 DEF OneEntry, Entering, Running
<1>2. SeenIsCurrent'
  <2> SUFFICES ASSUME NEW d \in Calls, At(d, {"patch", "upload"}, "write")'
               PROVE  (/\ call[d].now \in LinesOf(call[d].year)
                       /\ call[d].seen = filled[call[d].year][call[d].now])'
    BY DEF SeenIsCurrent
  <2>1. CASE d = c
    BY <2>1 DEF LinesOf
  <2>2. CASE d # c
    BY <1>0, <2>2 DEF SeenIsCurrent, At, Running, LinesOf
  <2> QED
    BY <2>1, <2>2
<1>3. Submittable' <=> Submittable
  BY DEF Submittable, LinesOf, Remaining
<1>4. ReviewIsFilled'
  BY <1>0, <1>3 DEF ReviewIsFilled, Editable, InTheReview, Running
<1> QED
  BY <1>1, <1>2, <1>4

LEMMA StartIsQuiet ==
  ASSUME IInv, LInv, IInv', NEW c \in Calls, Start(c)
  PROVE  LInv'
<1> DEFINE Quiet(verb) ==
      /\ UNCHANGED <<year, asOf, filled, stage, disturbed>>
      /\ clashed => clashed'
      /\ call'[c].verb = verb
      /\ \A d \in Calls \ {c} : call'[d] = call[d]
      /\ Entering(c)' /\ ~clashed' => \A d \in Calls \ {c} : ~Entering(d)
<1>0. ASSUME NEW verb \in Verbs, NEW step, NEW y, NEW lines, NEW now, NEW months,
             Begin(c, verb, step, y, lines, now, months),
             UNCHANGED <<cycle, lineVars, reviewVars, disturbed>>
      PROVE  /\ Quiet(verb) /\ call'[c].at = step /\ call'[c].year = y /\ call'[c].now = now
             /\ now # NoLine => call'[c].seen = filled[y][now]
  <2>1. /\ call'[c].verb = verb /\ call'[c].at = step /\ call'[c].year = y /\ call'[c].now = now
        /\ now # NoLine => call'[c].seen = filled[y][now]
        /\ \A d \in Calls \ {c} : call'[d] = call[d]
    BY <1>0 DEF Begin, IInv, TypeOK
  <2>2. ~clashed' => ~clashed /\ (verb \in Entries => \A d \in Calls : ~Entering(d))
    BY <1>0 DEF Begin, Entering, IInv, TypeOK
  <2> QED
    BY <1>0, <2>1, <2>2 DEF Entering, cycle, lineVars, reviewVars, IInv, TypeOK
<1>1. ASSUME NEW y \in Years, NEW l \in Lines, NEW m \in Months, StartPatch(c, y, l, m) PROVE LInv'
  <2>1. Quiet("patch") /\ call'[c].now = l /\ call'[c].year = y /\ call'[c].seen = filled[y][l]
    BY <1>0, <1>1, ForecastAssumption DEF StartPatch, Verbs, Entries
  <2>2. l \in LinesOf(y)
    BY <1>1 DEF StartPatch
  <2> QED
    BY <2>1, <2>2, QuietStep DEF InTheReview, Decisions, Approvals
<1>2. ASSUME NEW lines \in SUBSET Lines, NEW file \in Files,
             StartUpload(c, lines, file) \/ StartWorkbook(c, lines, file) PROVE LInv'
  <2>1. \E verb \in {"upload", "workbook"} : Quiet(verb) /\ call'[c].at = "read"
    BY <1>0, <1>2 DEF StartUpload, StartWorkbook, Verbs, Entries
  <2> QED
    BY <2>1, QuietStep DEF At, InTheReview, Decisions, Approvals
<1>3. ASSUME NEW lines \in SUBSET Lines, StartSync(c, lines) PROVE LInv'
  <2>1. Quiet("sync") /\ call'[c].at = "read"
    BY <1>0, <1>3 DEF StartSync, Verbs
  <2> QED
    BY <2>1, QuietStep DEF At, InTheReview, Decisions, Approvals
<1>4. CASE StartSubmit(c)
  <2>1. Quiet("submit") /\ call'[c].at = "check"
    BY <1>0, <1>4 DEF StartSubmit, Verbs
  <2> QED
    BY <2>1, QuietStep DEF At, InTheReview, Decisions, Approvals
<1>5. ASSUME NEW verb \in Decisions, StartDecision(c, verb) PROVE LInv'
  <2>1. Quiet(verb) /\ call'[c].at = "log"
    BY <1>0, <1>5 DEF StartDecision, Verbs
  <2>2. ~Editable(year)
    BY <1>5 DEF StartDecision, Reviewer, Editable
  <2>3. year \notin disturbed /\ ~clashed' => Submittable
    BY <2>1, <2>2 DEF LInv, ReviewIsFilled
  <2> QED
    BY <2>1, <2>3, QuietStep DEF At
<1> QED
  BY <1>1, <1>2, <1>3, <1>4, <1>5 DEF Start

\* A call that ends, or leaves the line it wrote for the next.
LEMMA LeavingTheLine ==
  ASSUME IInv, LInv, IInv', NEW c \in Calls, Running(c), UNCHANGED <<year, asOf, stage, clashed>>,
         call[c].verb \in Entries \cup {"sync"},
         call'[c] = NoCall \/ (call'[c].verb = call[c].verb /\ call'[c].at # "write"),
         \A d \in Calls \ {c} : call'[d] = call[d],
         ~clashed => \A d \in Calls \ {c} : At(d, {"patch", "upload"}, "write") =>
           filled'[call[d].year][call[d].now] = filled[call[d].year][call[d].now],
         year \notin disturbed' /\ ~clashed =>
           year \notin disturbed /\ (Submittable => Submittable')
  PROVE  LInv'
<1> SUFFICES ASSUME ~clashed PROVE OneEntry' /\ SeenIsCurrent' /\ ReviewIsFilled'
  BY DEF LInv
<1>0. OneEntry /\ SeenIsCurrent /\ ReviewIsFilled
  BY DEF LInv
<1>1. OneEntry'
  BY <1>0 DEF OneEntry, Entering, Running
<1>2. SeenIsCurrent'
  <2> SUFFICES ASSUME NEW d \in Calls, At(d, {"patch", "upload"}, "write")'
               PROVE  (/\ call[d].now \in LinesOf(call[d].year)
                       /\ call[d].seen = filled[call[d].year][call[d].now])'
    BY DEF SeenIsCurrent
  <2>1. d # c
    BY DEF At, Running
  <2>2. At(d, {"patch", "upload"}, "write") /\ call'[d] = call[d]
    BY <2>1 DEF At, Running
  <2> QED
    BY <1>0, <2>1, <2>2 DEF SeenIsCurrent, LinesOf
<1>3. ASSUME NEW d \in Calls, InTheReview(d)' PROVE InTheReview(d)
  <2>1. d # c
    BY <1>3 DEF InTheReview, Running, Entries, Decisions, Approvals
  <2> QED
    BY <1>3, <2>1 DEF InTheReview, Running
<1>4. ReviewIsFilled'
  BY <1>0, <1>3 DEF ReviewIsFilled, Editable
<1> QED
  BY <1>1, <1>2, <1>4

\* The effect of a call that enters months, or of the sync, on the lines.
LEMMA LinesGrow ==
  ASSUME IInv, LInv, ~clashed, NEW c \in Calls, NEW l,
         \/ l \in Lines /\ (ReadLine(c, l) \/ UpsertLine(c, l) \/ SyncLine(c, l))
         \/ WriteMonths(c) \/ ClearRest(c)
  PROVE  /\ \A y \in Years : \A k \in LinesOf(y) :
              call[c].verb # "workbook" => filled[y][k] \subseteq filled'[y][k] /\ k \in LinesOf(y)'
         /\ \A y \in Years : LinesOf(y)' # LinesOf(y) \/ call[c].verb = "workbook" =>
              y # call[c].year \/ y \in disturbed'
         /\ \A y \in Years : y # call[c].year => filled'[y] = filled[y]
         /\ call[c].verb = "sync" => \A y \in Years : \A k \in LinesOf(y) : filled'[y][k] = filled[y][k]
<1> USE DEF IInv
<1>1. Running(c) /\ call[c] \in Call /\ call[c].year \in Years
  BY DEF ReadLine, UpsertLine, SyncLine, WriteMonths, ClearRest, At, Running, TypeOK, Call
<1>2. CASE l \in Lines /\ ReadLine(c, l)
  BY <1>1, <1>2 DEF ReadLine, lineVars, LinesOf, At
<1>3. CASE l \in Lines /\ UpsertLine(c, l)
  BY <1>1, <1>3 DEF UpsertLine, At, TypeOK
<1>4. CASE l \in Lines /\ SyncLine(c, l)
  <2>1. CASE l \in LinesOf(call[c].year)
    BY <1>1, <1>4, <2>1 DEF SyncLine, LinesOf, At
  <2>2. CASE l \notin LinesOf(call[c].year)
    <3>1. /\ filled' = [filled EXCEPT ![call[c].year][l] = {}] /\ {} # NoLine
          /\ call[c].verb = "sync" /\ call[c].year \in disturbed'
      BY <1>4, <2>2, ForecastAssumption DEF SyncLine, At
    <3>2. \A y \in Years, k \in Lines : ~(y = call[c].year /\ k = l) => filled'[y][k] = filled[y][k]
      BY <1>1, <3>1 DEF TypeOK
    <3>3. \A y \in Years : y # call[c].year => filled'[y] = filled[y]
      BY <1>1, <3>1 DEF TypeOK
    <3> QED
      BY <1>1, <2>2, <3>1, <3>2, <3>3 DEF LinesOf
  <2> QED
    BY <2>1, <2>2
<1>5. CASE WriteMonths(c)
  <2> DEFINE y == call[c].year
             k == call[c].now
  <2>1. /\ k \in LinesOf(y) /\ call[c].seen = filled[y][k]
        /\ call[c].verb \in {"patch", "upload"}
        /\ filled' = [filled EXCEPT ![y][k] = call[c].seen \cup call[c].months]
    BY <1>5 DEF WriteMonths, LInv, SeenIsCurrent, At
  <2>2. call[c].seen \cup call[c].months # NoLine
    BY <1>1, ForecastAssumption DEF Call
  <2>3. \A z \in Years, j \in Lines : ~(z = y /\ j = k) => filled'[z][j] = filled[z][j]
    BY <1>1, <2>1 DEF TypeOK
  <2>4. filled'[y][k] = filled[y][k] \cup call[c].months
    BY <1>1, <2>1 DEF TypeOK, LinesOf
  <2>5. \A z \in Years : LinesOf(z)' = LinesOf(z)
    BY <2>1, <2>2, <2>3, <2>4 DEF LinesOf
  <2>6. \A z \in Years : z # y => filled'[z] = filled[z]
    BY <1>1, <2>1 DEF TypeOK
  <2>7. \A z \in Years : \A j \in LinesOf(z) : filled[z][j] \subseteq filled'[z][j]
    BY <2>1, <2>3, <2>4 DEF LinesOf
  <2> QED
    BY <2>1, <2>5, <2>6, <2>7
<1>6. CASE ClearRest(c)
  BY <1>1, <1>6 DEF ClearRest, At, TypeOK
<1> QED
  BY <1>2, <1>3, <1>4, <1>5, <1>6

LEMMA EntryKeepsLines ==
  ASSUME IInv, LInv, IInv', NEW c \in Calls, NEW l,
         \/ l \in Lines /\ (ReadLine(c, l) \/ UpsertLine(c, l) \/ SyncLine(c, l))
         \/ WriteMonths(c) \/ ClearRest(c)
  PROVE  LInv'
<1>1. /\ Running(c) /\ call[c] \in Call /\ call[c].verb \in Entries \cup {"sync"}
      /\ call[c].year \in Years /\ year \in Years
  BY DEF ReadLine, UpsertLine, SyncLine, WriteMonths, ClearRest, At, Running, IInv, TypeOK, Call, Entries
<1>2. UNCHANGED <<year, asOf, stage, clashed>> /\ disturbed \subseteq disturbed'
  BY DEF ReadLine, UpsertLine, SyncLine, WriteMonths, ClearRest, cycle, lineVars, reviewVars
<1>3. CASE l \in Lines /\ ReadLine(c, l) /\ l \in LinesOf(call[c].year)
  <2>1. /\ UNCHANGED <<filled, disturbed>>
        /\ call' = [call EXCEPT ![c].at = "write", ![c].now = l, ![c].seen = filled[call[c].year][l]]
    BY <1>3 DEF ReadLine, lineVars
  <2>2. /\ call'[c].verb = call[c].verb /\ call'[c].now = l /\ call'[c].seen = filled[call[c].year][l]
        /\ call'[c].year = call[c].year /\ call[c].verb = "upload"
        /\ \A d \in Calls \ {c} : call'[d] = call[d]
    BY <1>1, <1>3, <2>1 DEF IInv, TypeOK, Call, ReadLine, At
  <2>3. Entering(c)
    BY <1>1, <2>2 DEF Entering, Entries
  <2> QED
    BY <1>2, <1>3, <2>1, <2>2, <2>3, QuietStep DEF LInv, OneEntry, InTheReview, Decisions, Approvals
<1>4. CASE ~(l \in Lines /\ ReadLine(c, l) /\ l \in LinesOf(call[c].year))
  <2>1. /\ call'[c] = NoCall \/ (call'[c].verb = call[c].verb /\ call'[c].at # "write")
        /\ \A d \in Calls \ {c} : call'[d] = call[d]
    <3> USE DEF IInv
    <3>1. CASE l \in Lines /\ ReadLine(c, l)
      BY <1>1, <1>4, <3>1, NextLineTyped DEF ReadLine
    <3>2. CASE l \in Lines /\ UpsertLine(c, l)
      BY <1>1, <3>2, NextLineTyped DEF UpsertLine
    <3>3. CASE l \in Lines /\ SyncLine(c, l)
      BY <1>1, <3>3, NextLineTyped DEF SyncLine
    <3>4. CASE WriteMonths(c)
      BY <1>1, <3>4, NextLineTyped DEF WriteMonths
    <3>5. CASE ClearRest(c)
      BY <1>1, <3>5, DoneTyped DEF ClearRest
    <3> QED
      BY <3>1, <3>2, <3>3, <3>4, <3>5
  <2>2. ASSUME ~clashed, NEW d \in Calls \ {c}, At(d, {"patch", "upload"}, "write")
        PROVE  filled'[call[d].year][call[d].now] = filled[call[d].year][call[d].now]
    <3>1. call[d].year \in Years /\ call[d].now \in LinesOf(call[d].year) /\ Entering(d)
      BY <2>2 DEF LInv, SeenIsCurrent, At, Running, IInv, TypeOK, Call, Entering, Entries
    <3>2. call[c].verb = "sync"
      BY <1>1, <2>2, <3>1 DEF LInv, OneEntry, Entering
    <3> QED
      BY <2>2, <3>1, <3>2, LinesGrow
  <2>3. ASSUME year \notin disturbed', ~clashed
        PROVE  year \notin disturbed /\ (Submittable => Submittable')
    <3>1. /\ year # call[c].year => filled'[year] = filled[year]
          /\ year = call[c].year => /\ LinesOf(year)' = LinesOf(year) /\ call[c].verb # "workbook"
                                   /\ \A k \in LinesOf(year) : filled[year][k] \subseteq filled'[year][k]
      BY <1>1, <1>2, <2>3, LinesGrow DEF LinesOf
    <3>2. Submittable => Submittable'
      BY <1>2, <3>1 DEF Submittable, LinesOf, Remaining
    <3> QED
      BY <1>2, <2>3, <3>2
  <2> QED
    BY <1>1, <1>2, <2>1, <2>2, <2>3, LeavingTheLine
<1> QED
  BY <1>3, <1>4

LEMMA ReviewKeepsLines ==
  ASSUME IInv, LInv, IInv', NEW c \in Calls,
         CheckLines(c) \/ LogDecision(c) \/ CompleteLines(c) \/ Move(c)
  PROVE  LInv'
<1>1. /\ Running(c) /\ call[c] \in Call /\ call[c].year \in Years /\ year \in Years
      /\ call[c].verb \in Decisions \cup {"submit"}
  BY DEF CheckLines, LogDecision, CompleteLines, Move, At, Running, IInv, TypeOK, Call, Decisions, Approvals
<1>2. UNCHANGED <<year, asOf, filled, clashed>> /\ TypeOK
  BY DEF CheckLines, LogDecision, CompleteLines, Move, cycle, lineVars, IInv
<1>3. CASE LogDecision(c) \/ CompleteLines(c)
  <2>1. /\ call'[c].verb = call[c].verb /\ call'[c].year = call[c].year
        /\ call[c].verb \in Decisions /\ UNCHANGED <<stage, disturbed>>
        /\ \A d \in Calls \ {c} : call'[d] = call[d]
    <3>1. \E step \in Steps : Goto(c, step)
      BY <1>3 DEF LogDecision, CompleteLines, Steps
    <3>2. call'[c].verb = call[c].verb /\ call'[c].year = call[c].year
      BY <1>1, <1>2, <3>1 DEF Goto, TypeOK, Call
    <3>3. \A d \in Calls \ {c} : call'[d] = call[d]
      BY <1>1, <1>2, <3>1, GotoTyped
    <3> QED
      BY <1>3, <3>2, <3>3 DEF LogDecision, CompleteLines, reviewVars, At, Decisions, Approvals
  <2>2. year \notin disturbed /\ call[c].year = year /\ ~clashed => Submittable
    BY <1>1, <2>1 DEF LInv, ReviewIsFilled, InTheReview
  <2> QED
    BY <1>2, <2>1, <2>2, QuietStep DEF Entering, Entries, At, InTheReview, Decisions, Approvals
<1>4. CASE CheckLines(c) /\ Submittable
  <2>1. /\ call'[c] = [call[c] EXCEPT !.at = "move"]
        /\ \A d \in Calls \ {c} : call'[d] = call[d]
    BY <1>1, <1>2, <1>4, GotoTyped DEF CheckLines, Steps
  <2>2. call'[c].verb = "submit" /\ UNCHANGED stage
    BY <1>1, <1>4, <2>1 DEF CheckLines, At, Call, reviewVars
  <2>3. Submittable'
    BY <1>2, <1>4 DEF Submittable, LinesOf, Remaining
  <2>4. ~clashed => OneEntry' /\ SeenIsCurrent'
    BY <1>2, <2>1, <2>2 DEF LInv, OneEntry, SeenIsCurrent, Entering, Entries, At, Running, LinesOf
  <2> QED
    BY <1>2, <2>3, <2>4 DEF LInv, ReviewIsFilled
<1>5. CASE CheckLines(c) /\ ~Submittable
  <2>1. /\ call'[c] = NoCall /\ UNCHANGED <<stage, disturbed>>
        /\ \A d \in Calls \ {c} : call'[d] = call[d]
    BY <1>2, <1>5, DoneTyped DEF CheckLines, reviewVars
  <2> QED
    BY <1>2, <2>1, QuietStep DEF Entering, At, Running, InTheReview
<1>6. CASE Move(c)
  <2>1. /\ call'[c] = NoCall /\ UNCHANGED disturbed
        /\ \A d \in Calls \ {c} : call'[d] = call[d]
        /\ stage' = [stage EXCEPT ![call[c].year] = NextStage(call[c].verb)]
    BY <1>2, <1>6, DoneTyped DEF Move
  <2>2. ~clashed => OneEntry' /\ SeenIsCurrent'
    BY <1>2, <2>1 DEF LInv, OneEntry, SeenIsCurrent, Entering, At, Running, LinesOf
  <2>3. InTheReview(c) \/ call[c].year # year
    BY <1>1, <1>6 DEF Move, At, InTheReview
  <2>4. Submittable' <=> Submittable
    BY <1>2 DEF Submittable, LinesOf, Remaining
  <2>5. Editable(year)' /\ call[c].year # year => Editable(year)
    BY <1>1, <1>2, <2>1 DEF Editable, TypeOK
  <2>6. ~clashed => ReviewIsFilled'
    <3> SUFFICES ASSUME ~clashed, year \notin disturbed,
                        ~Editable(year)' \/ \E d \in Calls : InTheReview(d)'
                 PROVE  Submittable
      BY <1>2, <2>1, <2>4 DEF ReviewIsFilled
    <3>1. CASE call[c].year = year
      BY <2>3, <3>1 DEF LInv, ReviewIsFilled
    <3>2. CASE call[c].year # year
      <4>1. ~Editable(year) \/ \E d \in Calls : InTheReview(d)
        BY <1>1, <1>2, <2>1, <3>2 DEF Editable, TypeOK, InTheReview, Running
      <4> QED
        BY <4>1 DEF LInv, ReviewIsFilled
    <3> QED
      BY <3>1, <3>2
  <2> QED
    BY <1>2, <2>2, <2>6 DEF LInv
<1> QED
  BY <1>3, <1>4, <1>5, <1>6

LEMMA InitEstablishesLines == Init => LInv
BY ForecastAssumption
   DEF Init, LInv, OneEntry, SeenIsCurrent, ReviewIsFilled, Entering, At, InTheReview, Running, Editable

LEMMA StepKeepsLines == IInv /\ IInv' /\ LInv /\ [Next]_vars => LInv'
<1> SUFFICES ASSUME IInv, IInv', LInv, [Next]_vars PROVE LInv'
  OBVIOUS
<1> USE DEF LInv, OneEntry, SeenIsCurrent, ReviewIsFilled, Entering, At, InTheReview, Running
<1>1. ASSUME NEW y \in Years, NEW m \in Cutoffs, SetCycle(y, m) PROVE LInv'
  <2>1. year' \in disturbed'
    BY <1>1 DEF SetCycle
  <2> QED
    BY <1>1, <2>1 DEF SetCycle, lineVars, LinesOf
<1>2. CASE MoveDueDate
  BY <1>2 DEF MoveDueDate, lineVars, reviewVars, LinesOf, Editable, Submittable, Remaining
<1>3. ASSUME NEW c \in Calls, Start(c) PROVE LInv'
  BY <1>3, StartIsQuiet
<1>4. ASSUME NEW c \in Calls, Continue(c) PROVE LInv'
  <2>1. CASE CheckLines(c) \/ LogDecision(c) \/ CompleteLines(c) \/ Move(c)
    BY <2>1, ReviewKeepsLines
  <2>2. CASE \E l \in Lines : ReadLine(c, l) \/ UpsertLine(c, l) \/ SyncLine(c, l)
    BY <2>2, EntryKeepsLines
  <2>3. CASE WriteMonths(c) \/ ClearRest(c)
    BY <2>3, EntryKeepsLines
  <2> QED
    BY <1>4, <2>1, <2>2, <2>3 DEF Continue
<1>5. CASE Crash
  BY <1>5 DEF Crash, cycle, lineVars, reviewVars, LinesOf, Editable, Submittable, Remaining
<1>6. CASE UNCHANGED vars
  BY <1>6 DEF vars, LinesOf, Editable, Submittable, Remaining
<1> QED
  BY <1>1, <1>2, <1>3, <1>4, <1>5, <1>6 DEF Next

LEMMA InvariantHolds == Spec => [](IInv /\ LInv)
BY InitEstablishes, StepKeeps, InitEstablishesLines, StepKeepsLines, PTL DEF Spec

\* submitForecast and the handlers that enter months: while these do not
\* overlap, whatever is past the submission has every remaining month of every
\* line filled.
THEOREM ReviewedIsFilled == Spec => []UnderReviewIsFilled
<1>1. LInv => UnderReviewIsFilled
  BY DEF LInv, ReviewIsFilled, UnderReviewIsFilled, Submittable
<1> QED
  BY <1>1, InvariantHolds, PTL

\* The PATCH of a line and the template upload: while no two of them overlap
\* and no workbook replaces the lines, no month entered before is lost.
THEOREM NoEntryIsLost == Spec => EntriesStay
<1>1. ASSUME IInv /\ LInv, [Next]_vars
      PROVE  [\A y \in Years : \A l \in LinesOf(y) :
                ~clashed /\ ~(\E c \in Calls : Running(c) /\ call[c].verb = "workbook") =>
                  filled[y][l] \subseteq filled'[y][l]]_vars
  <2> SUFFICES ASSUME Next, ~clashed
               PROVE  \A y \in Years : \A l \in LinesOf(y) :
                        ~(\E c \in Calls : Running(c) /\ call[c].verb = "workbook") =>
                          filled[y][l] \subseteq filled'[y][l]
    BY <1>1
  <2>1. ASSUME NEW c \in Calls, NEW l,
               \/ l \in Lines /\ (ReadLine(c, l) \/ UpsertLine(c, l) \/ SyncLine(c, l))
               \/ WriteMonths(c) \/ ClearRest(c)
        PROVE  \/ Running(c) /\ call[c].verb = "workbook"
               \/ \A y \in Years : \A k \in LinesOf(y) : filled[y][k] \subseteq filled'[y][k]
    <3>1. Running(c)
      BY <2>1 DEF ReadLine, UpsertLine, SyncLine, WriteMonths, ClearRest, At
    <3> QED
      BY <1>1, <2>1, <3>1, LinesGrow
  <2>2. CASE UNCHANGED filled
    BY <2>2
  <2>3. ASSUME NEW c \in Calls, Start(c) PROVE UNCHANGED filled
    BY <2>3 DEF Start, StartPatch, StartUpload, StartWorkbook, StartSync, StartSubmit,
                StartDecision, lineVars
  <2>4. ASSUME NEW c \in Calls, CheckLines(c) \/ LogDecision(c) \/ CompleteLines(c) \/ Move(c)
        PROVE  UNCHANGED filled
    BY <2>4 DEF CheckLines, LogDecision, CompleteLines, Move, lineVars
  <2>5. CASE Crash \/ MoveDueDate \/ \E y \in Years, m \in Cutoffs : SetCycle(y, m)
    BY <2>5 DEF Crash, MoveDueDate, SetCycle, lineVars
  <2> QED
    BY <2>1, <2>2, <2>3, <2>4, <2>5 DEF Next, Continue
<1> QED
  BY <1>1, InvariantHolds, PTL DEF Spec, EntriesStay

=============================================================================
