------------------------------- MODULE Manpower -------------------------------
(***************************************************************************)
(* The manpower budget of one fiscal year (services/manpowerService.ts and  *)
(* routes/manpower.ts).  A template fills the ranks' salaries and           *)
(* headcounts, from which each company's monthly roster is summed; "Run     *)
(* Manpower Budget", on a click and every ten minutes, writes actuals and   *)
(* remaining months of every cell of the grid; the HR analyst enters other  *)
(* figures by hand; and the budget is reviewed and uploaded to SAP.  Of the *)
(* roster only one pay figure is kept, of actuals and manual entries only   *)
(* the months they cover.  Merit rate, headcount adjustment and additional  *)
(* headcount, which the grid adds when it is read, are left out, and so are *)
(* the checks of the caller's role.                                         *)
(***************************************************************************)
EXTENDS Integers, FiniteSetsExt

CONSTANTS
  Companies, Levels,
  Components,     \* pay components of the grid
  Templates,      \* files that may be uploaded
  Cutoffs,        \* values of asOfMonth
  EditMonths,     \* bound: months the analyst enters
  MaxActs,        \* bound: what people, failures and the settings do
  Runs,           \* bound: recomputes at a time
  Calls,          \* bound: other calls at a time
  NoRoster, NoLump, NoCall, Unread

ASSUME ManpowerAssumption ==
  /\ IsFiniteSet(Levels) /\ MaxActs \in Nat
  /\ Cutoffs \subseteq 0 .. 12 /\ EditMonths \subseteq 1 .. 12
  /\ \A t \in Templates :
       /\ DOMAIN t.rate \subseteq Levels /\ DOMAIN t.heads \subseteq Companies \X Levels
       /\ \A l \in DOMAIN t.rate : t.rate[l] \in Nat
       /\ \A p \in DOMAIN t.heads : t.heads[p] \in Nat
  /\ NoRoster \notin Nat /\ NoLump \notin [pay : Nat, months : Nat]

VARIABLES
  rate,     \* ManpowerSalaryLevel, 0 where there is none
  heads,    \* ManpowerHeadcountByRank
  roster,   \* ManpowerRosterSummary, monthly pay
  asOf,     \* asOfMonth of the cycle
  cell,     \* ManpowerEntry
  stage,    \* of the ManpowerBudgetSubmission
  signed,   \* reviews that have been given
  posted,   \* uploads to SAP
  run,      \* recomputes under way
  call,     \* suspended calls
  acts,     \* counts towards MaxActs
  torn,     \* history: an upload has overlapped another, or died
  crossed   \* history: a recompute has overlapped an edit or another

tables == <<rate, heads, roster>>
review == <<stage, signed, posted>>
history == <<torn, crossed>>
vars == <<tables, asOf, cell, review, run, call, acts, history>>

Cells == Companies \X Components
RosterDriven == {"Basic Pay", "Guaranteed Bonus"}
Rates == [Levels -> Nat]
Heads == [Companies \X Levels -> Nat]
\* ytd: actuals are those of the months up to it.  lump, months: the keys of
\* the map remainingForecast.
Cell ==
  [ytd : Cutoffs \cup {0}, lump : [pay : Nat, months : Nat] \cup {NoLump},
   months : SUBSET EditMonths]

Stages == {"HR_ANALYST_DRAFT", "HR_HEAD_REVIEW", "BUDGET_OFFICER_REVIEW", "UPLOADED_TO_SAP"}
Reviews == {"submit", "headApprove", "headReturn", "officerReturn", "officerUpload"}

\* What a call has read: of the company at hand, of the settings, of a cell.
UploadCall ==
  [verb : {"upload"}, left : SUBSET Companies, heads : Heads \cup {Unread},
   rate : Rates \cup {Unread}]
EditCall == [verb : {"edit"}, on : Cells, month : EditMonths \cup {0}, cell : Cell]
ReviewCall == [verb : Reviews]
Recompute ==
  [fetched : BOOLEAN, left : SUBSET Cells, roster : [Companies -> Nat \cup {NoRoster}],
   asOf : Cutoffs]

\* The grid has the components that follow the roster (seed.ts).
ASSUME GridAssumption ==
  /\ RosterDriven \subseteq Components
  /\ NoCall \notin UploadCall \cup EditCall \cup ReviewCall \cup Recompute

TypeOK ==
  /\ rate \in Rates /\ heads \in Heads
  /\ roster \in [Companies -> Nat \cup {NoRoster}]
  /\ asOf \in Cutoffs
  /\ cell \in [Cells -> Cell]
  /\ stage \in Stages /\ signed \subseteq Reviews /\ posted \in Nat
  /\ run \in [Runs -> Recompute \cup {NoCall}]
  /\ call \in [Calls -> UploadCall \cup EditCall \cup ReviewCall \cup {NoCall}]
  /\ acts \in 0 .. MaxActs /\ torn \in BOOLEAN /\ crossed \in BOOLEAN

Init ==
  /\ rate = [l \in Levels |-> 0]
  /\ heads = [p \in Companies \X Levels |-> 0]
  /\ roster = [c \in Companies |-> NoRoster]
  /\ asOf \in Cutoffs
  /\ cell = [k \in Cells |-> [ytd |-> 0, lump |-> NoLump, months |-> {}]]
  /\ stage = "HR_ANALYST_DRAFT" /\ signed = {} /\ posted = 0
  /\ run = [m \in Runs |-> NoCall]
  /\ call = [c \in Calls |-> NoCall]
  /\ acts = 0 /\ torn = FALSE /\ crossed = FALSE

Is(c, verbs) == call[c] # NoCall /\ call[c].verb \in verbs
Running(m) == run[m] # NoCall
Done(c) == call' = [call EXCEPT ![c] = NoCall]
Act == acts < MaxActs /\ acts' = acts + 1

Begin(c, new) ==
  /\ Act /\ call[c] = NoCall
  /\ call' = [call EXCEPT ![c] = new]
  /\ torn' = (torn \/ (new.verb = "upload" /\ \E d \in Calls : Is(d, {"upload"})))
  /\ crossed' = (crossed \/ (new.verb = "edit" /\ \E m \in Runs : Running(m)))

-----------------------------------------------------------------------------
(* The template.                                                            *)

\* recomputeRosterFromRanks: a rank without a salary counts nothing.
MonthlyPay(company, byRank, rates) ==
  MapThenSumSet(LAMBDA l : byRank[<<company, l>>] * rates[l], Levels)

\* Mutant: the salaries known before the file is stored.
StartUploadKnowing(c, t) ==
  /\ Begin(c, [verb |-> "upload", left |-> Companies, heads |-> Unread, rate |-> rate])
  /\ rate' = [l \in Levels |-> IF l \in DOMAIN t.rate THEN t.rate[l] ELSE rate[l]]
  /\ heads' = [p \in Companies \X Levels |-> IF p \in DOMAIN t.heads THEN t.heads[p] ELSE heads[p]]
  /\ UNCHANGED <<roster, asOf, cell, review, run>>

\* One transaction stores the file, whose ranks are those with a number; then
\* every company's roster is summed, on its own.
StartUpload(c, t) ==
  /\ Begin(c, [verb |-> "upload", left |-> Companies, heads |-> Unread, rate |-> Unread])
  /\ rate' = [l \in Levels |-> IF l \in DOMAIN t.rate THEN t.rate[l] ELSE rate[l]]
  /\ heads' = [p \in Companies \X Levels |-> IF p \in DOMAIN t.heads THEN t.heads[p] ELSE heads[p]]
  /\ UNCHANGED <<roster, asOf, cell, review, run>>

\* Two queries at once, answered in either order.
ReadTable(c) ==
  /\ Is(c, {"upload"})
  /\ \/ call[c].heads = Unread /\ call' = [call EXCEPT ![c].heads = heads]
     \/ call[c].rate = Unread /\ call' = [call EXCEPT ![c].rate = rate]
  /\ UNCHANGED <<tables, asOf, cell, review, run, acts, history>>

WriteRoster(c, company) ==
  /\ Is(c, {"upload"}) /\ company \in call[c].left
  /\ call[c].heads # Unread /\ call[c].rate # Unread
  /\ roster' = [roster EXCEPT ![company] = MonthlyPay(company, call[c].heads, call[c].rate)]
  /\ IF call[c].left = {company} THEN Done(c)
     ELSE call' = [call EXCEPT ![c].left = @ \ {company}, ![c].heads = Unread, ![c].rate = Unread]
  /\ UNCHANGED <<rate, heads, asOf, cell, review, run, acts, history>>

-----------------------------------------------------------------------------
(* The recompute, and the month it goes by.                                 *)

SetAsOf(month) ==
  /\ Act /\ month # asOf
  /\ asOf' = month
  /\ UNCHANGED <<tables, cell, review, run, call, history>>

StartRun(m) ==
  /\ ~Running(m)
  /\ run' = [run EXCEPT ![m] =
       [fetched |-> FALSE, left |-> Cells, roster |-> roster, asOf |-> asOf]]
  /\ crossed' = (crossed \/ (\E c \in Calls : Is(c, {"edit"})) \/ \E n \in Runs : Running(n))
  /\ UNCHANGED <<tables, asOf, cell, review, call, acts, torn>>

\* fetchKssbV1Cache, from the Python backend.
Fetch(m) ==
  /\ Running(m) /\ ~run[m].fetched
  /\ run' = [run EXCEPT ![m].fetched = TRUE]
  /\ UNCHANGED <<tables, asOf, cell, review, call, acts, history>>

FetchFails(m) ==
  /\ Act /\ Running(m) /\ ~run[m].fetched
  /\ run' = [run EXCEPT ![m] = NoCall]
  /\ UNCHANGED <<tables, asOf, cell, review, call, history>>

\* Mutants: the month as it is by now; a figure that is there is kept.
RemainingByNow(k, pay, month) == [pay |-> pay, months |-> 12 - asOf]
RecomputedIfEmpty(k, m) ==
  LET pay == run[m].roster[k[1]]
  IN  IF pay = NoRoster \/ cell[k].lump # NoLump
      THEN [cell[k] EXCEPT !.ytd = run[m].asOf]
      ELSE [ytd |-> run[m].asOf, lump |-> [pay |-> pay, months |-> 2], months |-> {}]

\* The bonus is two months of basic pay.
Remaining(k, pay, month) ==
  [pay |-> pay, months |-> IF k[2] = "Guaranteed Bonus" THEN 2 ELSE 12 - month]

\* With a roster, the map of a component that follows it is replaced as a whole.
Recomputed(k, m) ==
  LET pay == run[m].roster[k[1]]
  IN  IF pay = NoRoster \/ k[2] \notin RosterDriven
      THEN [cell[k] EXCEPT !.ytd = run[m].asOf]
      ELSE [ytd |-> run[m].asOf, lump |-> Remaining(k, pay, run[m].asOf), months |-> {}]

WriteCell(m, k) ==
  /\ Running(m) /\ run[m].fetched /\ k \in run[m].left
  /\ cell' = [cell EXCEPT ![k] = Recomputed(k, m)]
  /\ run' = [run EXCEPT ![m] =
       IF run[m].left = {k} THEN NoCall ELSE [run[m] EXCEPT !.left = @ \ {k}]]
  /\ UNCHANGED <<tables, asOf, review, call, acts, history>>

-----------------------------------------------------------------------------
(* PATCH /manpower/entries reads the map and writes it back, with a month in *)
(* it or, for another figure of the cell (month 0), as it was read.          *)

StartEdit(c, k, month) ==
  /\ Begin(c, [verb |-> "edit", on |-> k, month |-> month, cell |-> cell[k]])
  /\ UNCHANGED <<tables, asOf, cell, review, run>>

WriteEdit(c) ==
  /\ Is(c, {"edit"})
  /\ cell' = [cell EXCEPT ![call[c].on] =
       [ytd |-> @.ytd, lump |-> call[c].cell.lump,
        months |-> call[c].cell.months \cup ({call[c].month} \ {0})]]
  /\ Done(c)
  /\ UNCHANGED <<tables, asOf, review, run, acts, history>>

-----------------------------------------------------------------------------
(* The review.                                                              *)

\* Mutant: the officer may act as soon as the analyst has submitted.
ReviewedAtEarly(verb) == IF verb = "submit" THEN "HR_ANALYST_DRAFT" ELSE "HR_HEAD_REVIEW"

\* requireSubmissionStage
ReviewedAt(verb) ==
  CASE verb = "submit" -> "HR_ANALYST_DRAFT"
    [] verb \in {"headApprove", "headReturn"} -> "HR_HEAD_REVIEW"
    [] verb \in {"officerReturn", "officerUpload"} -> "BUDGET_OFFICER_REVIEW"

\* Mutant: the other workflows' word for it.
NextStageToDraft(verb) == IF verb \in {"headReturn", "officerReturn"} THEN "DRAFT" ELSE "HR_HEAD_REVIEW"

NextStage(verb) ==
  CASE verb = "submit" -> "HR_HEAD_REVIEW"
    [] verb = "headApprove" -> "BUDGET_OFFICER_REVIEW"
    [] verb = "officerUpload" -> "UPLOADED_TO_SAP"
    [] OTHER -> "HR_ANALYST_DRAFT"

\* The upload posts to SAP as soon as the stage is checked, and the stage is
\* written with the document's number.
StartReview(c, verb) ==
  /\ stage = ReviewedAt(verb)
  /\ Begin(c, [verb |-> verb])
  /\ posted' = IF verb = "officerUpload" THEN posted + 1 ELSE posted
  /\ UNCHANGED <<tables, asOf, cell, stage, signed, run>>

WriteStage(c) ==
  /\ Is(c, Reviews)
  /\ stage' = NextStage(call[c].verb)
  /\ signed' = signed \cup {call[c].verb}
  /\ Done(c)
  /\ UNCHANGED <<tables, asOf, cell, posted, run, acts, history>>

\* The process restarts.
Crash ==
  /\ Act
  /\ (\E c \in Calls : call[c] # NoCall) \/ (\E m \in Runs : Running(m))
  /\ run' = [m \in Runs |-> NoCall]
  /\ call' = [c \in Calls |-> NoCall]
  /\ torn' = (torn \/ \E c \in Calls : Is(c, {"upload"}))
  /\ UNCHANGED <<tables, asOf, cell, review, crossed>>

Start(c) ==
  \/ \E t \in Templates : StartUpload(c, t)
  \/ \E k \in Cells, month \in EditMonths \cup {0} : StartEdit(c, k, month)
  \/ \E verb \in Reviews : StartReview(c, verb)

Continue(c) ==
  \/ ReadTable(c) \/ (\E company \in Companies : WriteRoster(c, company))
  \/ WriteEdit(c) \/ WriteStage(c)

RunStep(m) == StartRun(m) \/ Fetch(m) \/ (\E k \in Cells : WriteCell(m, k))

Next ==
  \/ \E c \in Calls : Start(c) \/ Continue(c)
  \/ \E m \in Runs : RunStep(m) \/ FetchFails(m)
  \/ \E month \in Cutoffs : SetAsOf(month)
  \/ Crash

\* The timer starts a recompute every ten minutes, and calls that have begun
\* go on until they end or the process dies.
Fairness ==
  /\ \A c \in Calls : WF_vars(Continue(c))
  /\ \A m \in Runs : WF_vars(RunStep(m))

Spec == Init /\ [][Next]_vars /\ Fairness

-----------------------------------------------------------------------------
(* Properties.                                                              *)

\* The roster of every company is the sum over the ranks of the tables as they
\* are, once an upload is through, unless uploads overlapped or one died.
RosterFollowsRanks ==
  ~torn /\ ~(\E c \in Calls : Is(c, {"upload"})) =>
    \A c \in Companies : roster[c] \in {NoRoster, MonthlyPay(c, heads, rate)}

\* A year has twelve months: the actuals and the remaining months of basic pay
\* leave no month out and count none twice, also half way through a recompute
\* and with the cut-off month moving, unless an edit or a second recompute
\* ran beside one.
YearIsCovered ==
  ~crossed => \A c \in Companies :
    LET basic == cell[<<c, "Basic Pay">>]
    IN  basic.lump # NoLump => basic.ytd + basic.lump.months = 12

\* Nothing is with the Budget Officer before the HR head has approved it, or
\* uploaded before it was posted, however late a decision is written.
UploadedWasReviewed ==
  /\ stage \in {"BUDGET_OFFICER_REVIEW", "UPLOADED_TO_SAP"} => {"submit", "headApprove"} \subseteq signed
  /\ stage = "UPLOADED_TO_SAP" => posted > 0

\* Whatever edits, crashes, failed fetches and late recomputes wrote, once they
\* stop the grid comes to follow the roster, for good.
GridFollowsRoster ==
  \A k \in Cells :
    k[2] \in RosterDriven => <>[](roster[k[1]] # NoRoster =>
      cell[k] = [ytd |-> asOf, lump |-> Remaining(k, roster[k[1]], asOf), months |-> {}])

=============================================================================
