------------------------------- MODULE Forecasts -------------------------------
(***************************************************************************)
(* The Remaining Months Forecast of one department: its lines               *)
(* (HistoricalActuals) are filled in by hand, by the department's template, *)
(* by the Budget Officer's workbook and by the SAP sync; its submission is  *)
(* reviewed by the head and the Budget Officer; and Step 3A of the          *)
(* department's budget requests waits until every line is completed.        *)
(* Sources: routes/forecast.ts, services/forecastWorkflowService.ts,        *)
(* services/historicalActualsService.ts.  Amounts are left out: of a month  *)
(* only whether a value was entered.  Whoever may make a call, does.        *)
(***************************************************************************)
EXTENDS Integers, FiniteSets

CONSTANTS
  Lines,      \* catalog line items the department owns
  Files,      \* months a template gives, the same for each of its lines
  LastMonth,  \* 12 in the code
  MaxYear,    \* bound: fiscal cycles; cycle 1 is the one that forecasts 2026
  StartYears, \* the cycle the model starts in
  Cutoffs,    \* bound: values of asOfMonth, from 1 to LastMonth
  Calls,
  NoLine, NoCall

Years == 1 .. MaxYear
Months == 2 .. LastMonth   \* asOfMonth is at least 1

ASSUME ForecastAssumption ==
  /\ LastMonth \in Nat /\ MaxYear \in Nat /\ StartYears \subseteq Years
  /\ Cutoffs \subseteq 1 .. LastMonth
  /\ Files \subseteq SUBSET Months
  /\ NoLine \notin Lines /\ \A months \in SUBSET Months : months # NoLine

VARIABLES
  year,       \* targetCalendarYear
  asOf,       \* months up to it are in Actuals
  dueShut,    \* the due date FINALIZE_FORECAST has passed
  filled,     \* the months of monthlyRemainingForecast2026, or NoLine
  completed,  \* lines with forecastCompletedAt
  stage,      \* of the department's ForecastSubmission of a cycle
  approved,   \* stages of it with an APPROVE decision
  call,       \* suspended calls
  clashed,    \* history: two calls that enter months have overlapped
  disturbed   \* history: cycles whose lines or months changed under a submission

vars == <<year, asOf, dueShut, filled, completed, stage, approved, call, clashed, disturbed>>

ReviewStages == {"HEAD_REVIEW", "BUDGET_OFFICER_REVIEW"}
Stages == ReviewStages \cup {"DRAFT", "RETURNED", "APPROVED"}
Entries == {"patch", "upload", "workbook"}
Approvals == {"headApprove", "officerApprove"}
Decisions == Approvals \cup {"headReturn", "officerReturn"}
Verbs == Entries \cup Decisions \cup {"sync", "submit"}
Steps == {"read", "write", "clear", "check", "log", "complete", "move"}

\* lines, months: the file's.  left: lines still to be treated.  now: the line
\* at hand, whose months seen were read.
Call ==
  [verb : Verbs, at : Steps, year : Years, lines : SUBSET Lines, left : SUBSET Lines,
   now : Lines \cup {NoLine}, months : SUBSET Months, seen : SUBSET Months]

TypeOK ==
  /\ year \in Years /\ asOf \in Cutoffs /\ dueShut \in BOOLEAN
  /\ filled \in [Years -> [Lines -> {NoLine} \cup SUBSET Months]]
  /\ completed \subseteq Years \X Lines
  /\ stage \in [Years -> Stages]
  /\ approved \in [Years -> SUBSET ReviewStages]
  /\ call \in [Calls -> Call \cup {NoCall}]
  /\ clashed \in BOOLEAN /\ disturbed \subseteq Years

Init ==
  /\ year \in StartYears /\ asOf \in Cutoffs /\ dueShut = FALSE
  /\ filled = [y \in Years |-> [l \in Lines |-> NoLine]]
  /\ completed = {}
  /\ stage = [y \in Years |-> "DRAFT"]
  /\ approved = [y \in Years |-> {}]
  /\ call = [c \in Calls |-> NoCall]
  /\ clashed = FALSE /\ disturbed = {}

LinesOf(y) == {l \in Lines : filled[y][l] # NoLine}
Remaining == {m \in Months : m > asOf}
Editable(y) == stage[y] \in {"DRAFT", "RETURNED"}

\* isForecastCompleteForDepartment: the lines of every cycle.
ForecastComplete ==
  /\ \E y \in Years : LinesOf(y) # {}
  /\ \A y \in Years : \A l \in LinesOf(y) : <<y, l>> \in completed
\* Step 3A may be approved.
GateOpen == year = 1 \/ ForecastComplete

Running(c) == call[c] # NoCall
At(c, verbs, step) == Running(c) /\ call[c].verb \in verbs /\ call[c].at = step
Done(c) == call' = [call EXCEPT ![c] = NoCall]
Goto(c, step) == call' = [call EXCEPT ![c].at = step]

cycle == <<year, asOf, dueShut>>
lineVars == <<filled, completed>>
reviewVars == <<stage, approved>>

Begin(c, verb, step, y, lines, now, months) ==
  /\ ~Running(c)
  /\ call' = [call EXCEPT ![c] =
       [verb |-> verb, at |-> step, year |-> y, lines |-> lines, left |-> lines,
        now |-> now, months |-> months,
        seen |-> IF now = NoLine THEN {} ELSE filled[y][now]]]
  /\ clashed' = (clashed \/
       (verb \in Entries /\ \E d \in Calls : Running(d) /\ call[d].verb \in Entries))

\* On to the next line or, after the last one, to the end.
NextLine(c, l, end) ==
  LET left == call[c].left \ {l}
  IN  IF left = {} /\ end = "done" THEN Done(c)
      ELSE call' = [call EXCEPT ![c].left = left, ![c].now = NoLine, ![c].seen = {},
                                ![c].at = IF left = {} THEN end ELSE "read"]

-----------------------------------------------------------------------------
(* The Budget Officer's settings.                                           *)

SetCycle(y, m) ==
  /\ y >= year /\ <<y, m>> # <<year, asOf>>
  /\ year' = y /\ asOf' = m
  /\ disturbed' = disturbed \cup {year, y}
  /\ UNCHANGED <<dueShut, lineVars, reviewVars, call, clashed>>

MoveDueDate ==
  /\ dueShut' = ~dueShut
  /\ UNCHANGED <<year, asOf, lineVars, reviewVars, call, clashed, disturbed>>

-----------------------------------------------------------------------------
(* Entering months.                                                         *)

\* PATCH /forecast/entries/:id reads the line, of whatever cycle, and checks
\* only the month: not the stage of the submission.
StartPatch(c, y, l, m) ==
  /\ l \in LinesOf(y) /\ m \in Remaining
  /\ Begin(c, "patch", "write", y, {l}, l, {m})
  /\ UNCHANGED <<cycle, lineVars, reviewVars, disturbed>>

\* POST /forecast/:departmentId/upload
StartUpload(c, lines, file) ==
  /\ lines # {} /\ Editable(year)
  /\ Begin(c, "upload", "read", year, lines, NoLine, file \cap Remaining)
  /\ UNCHANGED <<cycle, lineVars, reviewVars, disturbed>>

\* A line that is not on the forecast yet is skipped.
ReadLine(c, l) ==
  /\ At(c, {"upload"}, "read") /\ l \in call[c].left
  /\ IF l \in LinesOf(call[c].year)
     THEN call' = [call EXCEPT ![c].at = "write", ![c].now = l,
                               ![c].seen = filled[call[c].year][l]]
     ELSE NextLine(c, l, "done")
  /\ UNCHANGED <<cycle, lineVars, reviewVars, clashed, disturbed>>

\* Mutant: only the months given.
WriteGiven(c) ==
  /\ At(c, {"patch", "upload"}, "write")
  /\ filled' = [filled EXCEPT ![call[c].year][call[c].now] = call[c].months]
  /\ NextLine(c, call[c].now, "done")
  /\ UNCHANGED <<cycle, completed, reviewVars, clashed, disturbed>>

\* The months read, with those given.
WriteMonths(c) ==
  /\ At(c, {"patch", "upload"}, "write")
  /\ filled' = [filled EXCEPT ![call[c].year][call[c].now] = call[c].seen \cup call[c].months]
  /\ NextLine(c, call[c].now, "done")
  /\ UNCHANGED <<cycle, completed, reviewVars, clashed, disturbed>>

\* POST /admin/historical-actuals/upload: the workbook creates or sets each of
\* its lines as a whole, then empties the lines it does not have.
StartWorkbook(c, lines, file) ==
  /\ lines # {}
  /\ Begin(c, "workbook", "read", year, lines, NoLine, file)
  /\ UNCHANGED <<cycle, lineVars, reviewVars, disturbed>>

UpsertLine(c, l) ==
  /\ At(c, {"workbook"}, "read") /\ l \in call[c].left
  /\ filled' = [filled EXCEPT ![call[c].year][l] = call[c].months]
  /\ disturbed' = disturbed \cup {call[c].year}
  /\ NextLine(c, l, "clear")
  /\ UNCHANGED <<cycle, completed, reviewVars, clashed>>

ClearRest(c) ==
  /\ At(c, {"workbook"}, "clear")
  /\ LET y == call[c].year
         rest == LinesOf(y) \ call[c].lines
     IN  /\ filled' = [filled EXCEPT ![y] = [l \in Lines |-> IF l \in rest THEN {} ELSE @[l]]]
         /\ disturbed' = disturbed \cup {y}
  /\ Done(c)
  /\ UNCHANGED <<cycle, completed, reviewVars, clashed>>

\* syncHistoricalActualsFromSap: a line with postings or a finalized budget is
\* created without months, or keeps those it has.  Not for 2026.
StartSync(c, lines) ==
  /\ lines # {} /\ year > 1
  /\ Begin(c, "sync", "read", year, lines, NoLine, {})
  /\ UNCHANGED <<cycle, lineVars, reviewVars, disturbed>>

SyncLine(c, l) ==
  /\ At(c, {"sync"}, "read") /\ l \in call[c].left
  /\ IF l \in LinesOf(call[c].year) THEN UNCHANGED <<filled, disturbed>>
     ELSE /\ filled' = [filled EXCEPT ![call[c].year][l] = {}]
          /\ disturbed' = disturbed \cup {call[c].year}
  /\ NextLine(c, l, "done")
  /\ UNCHANGED <<cycle, completed, reviewVars, clashed>>

-----------------------------------------------------------------------------
(* The submission and its review.                                           *)

\* submitForecast: due date and stage, ...
StartSubmit(c) ==
  /\ ~dueShut /\ Editable(year)
  /\ Begin(c, "submit", "check", year, {}, NoLine, {})
  /\ UNCHANGED <<cycle, lineVars, reviewVars, disturbed>>

\* Mutant: the lines that have some month.
SubmittableWithSome == \A l \in LinesOf(year) : Remaining = {} \/ filled[year][l] # {}

\* ... every remaining month of every line, of the cycle it is by now, ...
Submittable == \A l \in LinesOf(year) : Remaining \subseteq filled[year][l]

CheckLines(c) ==
  /\ At(c, {"submit"}, "check")
  /\ IF Submittable
     THEN /\ Goto(c, "move")
          /\ disturbed' = IF call[c].year = year THEN disturbed \ {year} ELSE disturbed
     ELSE Done(c) /\ UNCHANGED disturbed
  /\ UNCHANGED <<cycle, lineVars, reviewVars, clashed>>

\* Mutant: any decision at either stage of the review.
ReviewerAtAny(verb) ==
  IF stage[year] = "BUDGET_OFFICER_REVIEW" THEN "BUDGET_OFFICER_REVIEW" ELSE "HEAD_REVIEW"

\* The stage a decision is for: requireStage.
Reviewer(verb) ==
  IF verb \in {"headApprove", "headReturn"} THEN "HEAD_REVIEW" ELSE "BUDGET_OFFICER_REVIEW"

\* headDecision, budgetOfficerDecision.
StartDecision(c, verb) ==
  /\ stage[year] = Reviewer(verb)
  /\ Begin(c, verb, "log", year, {}, NoLine, {})
  /\ UNCHANGED <<cycle, lineVars, reviewVars, disturbed>>

LogDecision(c) ==
  /\ At(c, Decisions, "log")
  /\ approved' = IF call[c].verb \in Approvals
       THEN [approved EXCEPT ![call[c].year] = @ \cup {Reviewer(call[c].verb)}] ELSE approved
  /\ Goto(c, IF call[c].verb = "officerApprove" THEN "complete" ELSE "move")
  /\ UNCHANGED <<cycle, lineVars, stage, clashed, disturbed>>

\* The Budget Officer's approval completes the lines first, ...
CompleteLines(c) ==
  /\ At(c, {"officerApprove"}, "complete")
  /\ completed' = completed \cup ({call[c].year} \X LinesOf(call[c].year))
  /\ Goto(c, "move")
  /\ UNCHANGED <<cycle, filled, reviewVars, clashed, disturbed>>

NextStage(verb) ==
  CASE verb = "submit" -> "HEAD_REVIEW"
    [] verb = "headApprove" -> "BUDGET_OFFICER_REVIEW"
    [] verb = "officerApprove" -> "APPROVED"
    [] OTHER -> "RETURNED"

\* ... and last of all the stage is set, whatever it is by now.
Move(c) ==
  /\ At(c, Decisions \cup {"submit"}, "move")
  /\ stage' = [stage EXCEPT ![call[c].year] = NextStage(call[c].verb)]
  /\ Done(c)
  /\ UNCHANGED <<cycle, lineVars, approved, clashed, disturbed>>

\* The process restarts.
Crash ==
  /\ \E c \in Calls : Running(c)
  /\ call' = [c \in Calls |-> NoCall]
  /\ UNCHANGED <<cycle, lineVars, reviewVars, clashed, disturbed>>

Start(c) ==
  \/ \E y \in Years, l \in Lines, m \in Months : StartPatch(c, y, l, m)
  \/ \E lines \in SUBSET Lines, file \in Files : StartUpload(c, lines, file) \/ StartWorkbook(c, lines, file)
  \/ \E lines \in SUBSET Lines : StartSync(c, lines)
  \/ StartSubmit(c)
  \/ \E verb \in Decisions : StartDecision(c, verb)

Continue(c) ==
  \/ \E l \in Lines : ReadLine(c, l) \/ UpsertLine(c, l) \/ SyncLine(c, l)
  \/ WriteMonths(c) \/ ClearRest(c)
  \/ CheckLines(c) \/ LogDecision(c) \/ CompleteLines(c) \/ Move(c)

Next ==
  \/ \E y \in Years, m \in Cutoffs : SetCycle(y, m)
  \/ MoveDueDate
  \/ \E c \in Calls : Start(c) \/ Continue(c)
  \/ Crash

Spec == Init /\ [][Next]_vars

-----------------------------------------------------------------------------
(* Properties.                                                              *)

\* Nothing is completed, and no submission passes a reviewer, unless the
\* reviewers before it have approved: whatever overlaps, and wherever an
\* approval dies between its statements.
CompletedWasReviewed ==
  /\ \A y \in Years : (\E l \in Lines : <<y, l>> \in completed) => ReviewStages \subseteq approved[y]
  /\ \A y \in Years :
       /\ stage[y] = "BUDGET_OFFICER_REVIEW" => "HEAD_REVIEW" \in approved[y]
       /\ stage[y] = "APPROVED" => ReviewStages \subseteq approved[y]

\* While calls that enter months do not overlap, what is under review or
\* approved has a value for every remaining month of every line, unless the
\* cycle, a workbook or a sync has changed it since: decisions, late
\* submits and entries that started earlier leave it complete.
UnderReviewIsFilled ==
  ~clashed /\ year \notin disturbed /\ ~Editable(year) =>
    \A l \in LinesOf(year) : Remaining \subseteq filled[year][l]

\* While they do not overlap, a month that was entered is only taken away by
\* a workbook: "only touch what's given".
EntriesStay ==
  [][\A y \in Years : \A l \in LinesOf(y) :
       ~clashed /\ ~(\E c \in Calls : Running(c) /\ call[c].verb = "workbook") =>
         filled[y][l] \subseteq filled'[y][l]]_vars

\* A statement of the code that does not hold: "only Budget Officer approval
\* marks the department's forecast complete and unblocks Step 3A", which from
\* 2027 on "lifts on its own".  Lines of an earlier cycle count too, and those
\* of 2026 are never completed.
ApprovalUnblocks ==
  /\ stage[year] = "APPROVED" /\ LinesOf(year) # {}
  /\ \A l \in LinesOf(year) : <<year, l>> \in completed
  => GateOpen

=============================================================================
