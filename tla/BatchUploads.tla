----------------------------- MODULE BatchUploads -----------------------------
(***************************************************************************)
(* Template uploads that travel as one batch: Revenue                       *)
(* (routes/revenueBatches.ts and the revenue part of workflowService.ts) and*)
(* the SBU categories (routes/doeBatches.ts).  A handler reads the rows of  *)
(* the batch, checks them all, and after more awaits updates or deletes     *)
(* "every row of the batch" as it is by then; the rows of a template are    *)
(* created one by one.  Calls overlap freely, and a restart drops them.     *)
(* Role checks do not depend on the state: whoever may make a call, does.   *)
(* The stored file, ticket numbers and the line item made for each row of a *)
(* Revenue template are left out: nothing here reads them back.             *)
(***************************************************************************)
EXTENDS Integers, Sequences, Functions, FiniteSetsExt

CONSTANTS
  Categories,    \* of the batch: "REVENUE", "SBU" (DOE, Commission, ...)
  Templates,     \* nonempty sequences of the amounts of a file's rows
  BoardAmounts,  \* Board-Approved Budgets that may be set for the SBU
  EditAmounts,   \* amounts an edit may enter
  DocThreshold,  \* above it an SBU row needs an attachment to be submitted
  MaxRows,       \* bound: rows ever created
  MovingGates,   \* bound: the gates that open and close
  Calls,
  NoAmount, NoBatch, NoRow, NoCall

RevenueStageOrder ==
  <<"REVENUE_BU_FINANCE_OFFICER_REVIEW", "REVENUE_BU_FINANCE_HEAD_REVIEW",
    "REVENUE_BUDGET_OFFICER_REVIEW", "REVENUE_BCA_HEAD_REVIEW">>
RevenueStages == Range(RevenueStageOrder)
FirstStage == RevenueStageOrder[1]
LastStage == RevenueStageOrder[4]

\* Where SBU rows start their own way, in BudgetRequests.
Stages == RevenueStages \cup {"DRAFT", "SF_VALIDATION", "APPROVED", "CANCELLED"}
Statuses == {"DRAFT", "IN_REVIEW", "RETURNED", "APPROVED", "CANCELLED"}

Gates == {"CYCLE", "REQUEST_AND_AUTHORIZATION", "BCA_AND_FINALIZATION"}

RowIds == 1 .. MaxRows
RowAmounts == EditAmounts \cup UNION {Range(t) : t \in Templates}

ASSUME BatchAssumption ==
  /\ Categories \subseteq {"REVENUE", "SBU"}
  /\ MaxRows \in Nat /\ DocThreshold \in Int /\ MovingGates \subseteq Gates
  /\ BoardAmounts \subseteq Int /\ EditAmounts \subseteq Int
  /\ \A t \in Templates : t \in Seq(Int) /\ t # <<>>
  /\ NoRow \notin [amount : Int, stage : Stages, status : Statuses]
  /\ NoBatch \notin [boardAtUpload : BoardAmounts \cup {NoAmount}, rowCount : Nat]
  /\ NoAmount \notin Int

VARIABLES
  category,
  board,      \* the latest BoardApprovedBudget, or NoAmount
  shut,       \* a closed cycle, due dates that have passed
  header,     \* the BulkUploadBatch row, or NoBatch
  row,        \* its BudgetRequest rows
  created,    \* rows created so far
  approved,   \* stages with an APPROVE decision of the row
  reviewed,   \* rows with any ReviewDecision
  line,       \* the row's FinalizedBudgetLine
  call,       \* suspended calls
  torn        \* history: a call has overlapped an upload

vars == <<category, board, shut, header, row, created, approved, reviewed, line,
          call, torn>>

Row == [amount : RowAmounts, stage : Stages, status : Statuses]

Verbs == {"upload", "override", "submit", "approve", "return", "cancel"}

\* seen: the rows read, where the call goes on to use them.  read: their
\* amounts, for the last approval.  stage: the stage decided on.  amounts: what
\* is still to be written, of a template.  board: the figure a template was
\* compared with.  begun: the first statement, of two, is done.
Call ==
  [verb : Verbs, seen : SUBSET RowIds, read : [RowIds -> RowAmounts \cup {NoAmount}],
   stage : RevenueStages \cup {"DRAFT"}, amounts : Seq(RowAmounts),
   board : BoardAmounts \cup {NoAmount}, begun : BOOLEAN]

TypeOK ==
  /\ category \in Categories
  /\ board \in BoardAmounts \cup {NoAmount}
  /\ shut \subseteq Gates
  /\ header \in [boardAtUpload : BoardAmounts \cup {NoAmount}, rowCount : Nat] \cup {NoBatch}
  /\ row \in [RowIds -> Row \cup {NoRow}]
  /\ created \in 0 .. MaxRows
  /\ approved \in [RowIds -> SUBSET RevenueStages]
  /\ reviewed \subseteq RowIds
  /\ line \in [RowIds -> RowAmounts \cup {NoAmount}]
  /\ call \in [Calls -> Call \cup {NoCall}]
  /\ torn \in BOOLEAN

Init ==
  /\ category \in Categories
  /\ board = NoAmount
  /\ shut = {}
  /\ header = NoBatch
  /\ row = [r \in RowIds |-> NoRow]
  /\ created = 0
  /\ approved = [r \in RowIds |-> {}]
  /\ reviewed = {}
  /\ line = [r \in RowIds |-> NoAmount]
  /\ call = [c \in Calls |-> NoCall]
  /\ torn = FALSE

Rows == {r \in RowIds : row[r] # NoRow}
Open(gate) == gate \notin shut
AllAt(stage) == \A r \in Rows : row[r].stage = stage

Running(c) == call[c] # NoCall
Is(c, verbs) == Running(c) /\ call[c].verb \in verbs
Uploads == {"upload", "override"}

batchVars == <<header, row, created>>
reviewVars == <<approved, reviewed, line>>
settings == <<category, board, shut>>

-----------------------------------------------------------------------------
(* The Budget Officer and the calendar.                                     *)

SetBoardBudget(amount) ==
  /\ board' = amount
  /\ UNCHANGED <<category, shut, batchVars, reviewVars, call, torn>>

MoveGate(gate) ==
  /\ shut' = SymDiff(shut, {gate})
  /\ UNCHANGED <<category, board, batchVars, reviewVars, call, torn>>

-----------------------------------------------------------------------------
(* Calls start by reading and checking.                                     *)

AmountsRead(verb, stage) ==
  [r \in RowIds |->
    IF verb = "approve" /\ stage = LastStage /\ r \in Rows THEN row[r].amount ELSE NoAmount]

Begin(c, verb, seen, stage, amounts) ==
  /\ call' = [call EXCEPT ![c] =
       [verb |-> verb, seen |-> seen, read |-> AmountsRead(verb, stage),
        stage |-> stage, amounts |-> amounts,
        board |-> IF verb \in Uploads THEN board ELSE NoAmount,
        begun |-> verb = "upload"]]
  /\ torn' = (torn \/ \E d \in Calls : Running(d) /\ (verb \in Uploads \/ Is(d, Uploads)))

\* assertBoardBudgetTiesOut, of Revenue templates; in whole pesos here.
TiesOut(t) ==
  category = "REVENUE" => board # NoAmount /\ board = FoldFunction(+, 0, t)

StartUpload(c, t) ==
  /\ ~Running(c) /\ header = NoBatch /\ Open("CYCLE") /\ TiesOut(t)
  /\ header' = [boardAtUpload |-> IF category = "REVENUE" THEN board ELSE NoAmount,
                rowCount |-> Len(t)]
  /\ Begin(c, "upload", {}, "DRAFT", t)
  /\ UNCHANGED <<settings, row, created, reviewVars>>

\* The batch may have no rows.
StartOverride(c, t) ==
  /\ ~Running(c) /\ header # NoBatch /\ AllAt("DRAFT") /\ TiesOut(t)
  /\ Begin(c, "override", {}, "DRAFT", t)
  /\ UNCHANGED <<settings, batchVars, reviewVars>>

BatchTotal == MapThenSumSet(LAMBDA r : row[r].amount, Rows)

StartSubmit(c) ==
  /\ ~Running(c) /\ Rows # {} /\ AllAt("DRAFT")
  /\ category = "REVENUE" => Open("REQUEST_AND_AUTHORIZATION") /\ BatchTotal > 0
  /\ Begin(c, "submit", IF category = "SBU" THEN Rows ELSE {}, "DRAFT", <<>>)
  /\ UNCHANGED <<settings, batchVars, reviewVars>>

StartDecision(c, stage, verb) ==
  /\ ~Running(c) /\ category = "REVENUE" /\ Rows # {} /\ AllAt(stage)
  /\ Open("BCA_AND_FINALIZATION")
  /\ Begin(c, verb, Rows, stage, <<>>)
  /\ UNCHANGED <<settings, batchVars, reviewVars>>

StartCancel(c) ==
  /\ ~Running(c) /\ Rows # {} /\ AllAt("DRAFT")
  /\ Begin(c, "cancel", {}, "DRAFT", <<>>)
  /\ UNCHANGED <<settings, batchVars, reviewVars>>

-----------------------------------------------------------------------------
(* What they write, some awaits later.                                      *)

Done(c) == call' = [call EXCEPT ![c] = NoCall]

\* updateMany where bulkUploadBatchId; an undefined column is left alone.
UpdateRows(stage, status) ==
  row' = [r \in RowIds |->
    IF row[r] = NoRow THEN NoRow
    ELSE [row[r] EXCEPT !.stage = stage, !.status = IF status = "undefined" THEN @ ELSE status]]

\* Mutant: the decisions go with the rows.
ReplaceCascading(c) ==
  /\ Is(c, {"override"}) /\ ~call[c].begun
  /\ row' = [r \in RowIds |-> NoRow]
  /\ header' = [header EXCEPT !.rowCount = Len(call[c].amounts)]
  /\ call' = [call EXCEPT ![c].begun = TRUE]
  /\ UNCHANGED <<settings, created, reviewVars, torn>>

\* The transaction of an override.  A ReviewDecision restricts the deletion
\* of its row: the rows of a batch that was ever reviewed cannot be replaced.
Replace(c) ==
  /\ Is(c, {"override"}) /\ ~call[c].begun
  /\ IF Rows \cap reviewed = {}
     THEN /\ row' = [r \in RowIds |-> NoRow]
          /\ header' = [boardAtUpload |-> IF category = "REVENUE" THEN call[c].board
                                          ELSE header.boardAtUpload,
                        rowCount |-> Len(call[c].amounts)]
          /\ call' = [call EXCEPT ![c].begun = TRUE]
     ELSE Done(c) /\ UNCHANGED <<row, header>>
  /\ UNCHANGED <<settings, created, reviewVars, torn>>

\* createBatchRows, one row.
CreateRow(c) ==
  /\ Is(c, Uploads) /\ call[c].begun /\ created < MaxRows
  /\ created' = created + 1
  /\ row' = [row EXCEPT ![created'] =
       [amount |-> Head(call[c].amounts), stage |-> "DRAFT", status |-> "DRAFT"]]
  /\ IF Len(call[c].amounts) = 1 THEN Done(c)
     ELSE call' = [call EXCEPT ![c].amounts = Tail(@)]
  /\ UNCHANGED <<settings, header, reviewVars, torn>>

SubmitRevenue(c) ==
  /\ Is(c, {"submit"}) /\ category = "REVENUE"
  /\ UpdateRows(FirstStage, "IN_REVIEW")
  /\ Done(c)
  /\ UNCHANGED <<settings, header, created, reviewVars, torn>>

\* submitRequest of one SBU row, in one step: it may refuse, or ask for an attachment.
Submittable(r) ==
  /\ r \in Rows /\ row[r].stage = "DRAFT" /\ Open("REQUEST_AND_AUTHORIZATION")
  /\ row[r].amount > 0

Submitted(r) == [row EXCEPT ![r].stage = "SF_VALIDATION", ![r].status = "IN_REVIEW"]

\* A row without its attachment stays a draft and the next one is tried; any
\* other refusal ends the call.
SubmitRow(c, r) ==
  /\ Is(c, {"submit"}) /\ category = "SBU" /\ r \in call[c].seen
  /\ IF Submittable(r) /\ row[r].amount <= DocThreshold
     THEN row' = Submitted(r) ELSE UNCHANGED row
  /\ IF Submittable(r) /\ call[c].seen # {r}
     THEN call' = [call EXCEPT ![c].seen = @ \ {r}]
     ELSE Done(c)
  /\ UNCHANGED <<settings, header, created, reviewVars, torn>>

Cancel(c) ==
  /\ Is(c, {"cancel"})
  /\ UpdateRows("CANCELLED", "CANCELLED")
  /\ Done(c)
  /\ UNCHANGED <<settings, header, created, reviewVars, torn>>

\* reviewDecision.createMany, a statement of its own except at the end of the
\* chain; it fails if a row it names is gone.
Finalizes(c) == Is(c, {"approve"}) /\ call[c].stage = LastStage

ApprovedNow(c) ==
  approved' = [r \in RowIds |->
    IF r \in call[c].seen THEN approved[r] \cup {call[c].stage} ELSE approved[r]]

LogDecision(c) ==
  /\ Is(c, {"approve", "return"}) /\ ~call[c].begun /\ ~Finalizes(c)
  /\ IF call[c].seen \subseteq Rows
     THEN /\ reviewed' = reviewed \cup call[c].seen
          /\ IF call[c].verb = "approve" THEN ApprovedNow(c) ELSE UNCHANGED approved
          /\ call' = [call EXCEPT ![c].begun = TRUE]
     ELSE Done(c) /\ UNCHANGED <<approved, reviewed>>
  /\ UNCHANGED <<settings, batchVars, line, torn>>

Position(stage) == CHOOSE i \in DOMAIN RevenueStageOrder : RevenueStageOrder[i] = stage

\* Mutants: one row moved instead of the batch; the stage after the one the
\* batch is at by now.
MoveOneRow(c) ==
  /\ Is(c, {"approve", "return"}) /\ call[c].begun
  /\ \E r \in Rows : row' = [row EXCEPT ![r].stage =
       IF call[c].verb = "approve" THEN RevenueStageOrder[Position(call[c].stage) + 1]
       ELSE "DRAFT"]
  /\ Done(c)
  /\ UNCHANGED <<settings, header, created, reviewVars, torn>>
MoveFromCurrent(c) ==
  /\ Is(c, {"approve", "return"}) /\ call[c].begun
  /\ LET r == CHOOSE r \in Rows : TRUE
         at == IF row[r].stage \in RevenueStages THEN Position(row[r].stage) ELSE 1
     IN  UpdateRows(IF at < 4 THEN RevenueStageOrder[at + 1] ELSE "DRAFT", "IN_REVIEW")
  /\ Done(c)
  /\ UNCHANGED <<settings, header, created, reviewVars, torn>>

Move(c) ==
  /\ Is(c, {"approve", "return"}) /\ call[c].begun
  /\ LET i == Position(call[c].stage)
     IN  \/ call[c].verb = "approve" /\ UpdateRows(RevenueStageOrder[i + 1], "undefined")
         \/ call[c].verb = "return" /\ i > 1 /\ UpdateRows(RevenueStageOrder[i - 1], "undefined")
         \/ call[c].verb = "return" /\ i = 1 /\ UpdateRows("DRAFT", "RETURNED")
  /\ Done(c)
  /\ UNCHANGED <<settings, header, created, reviewVars, torn>>

\* The last approval: decisions, stage and lines in one transaction, after
\* the upload to SAP, with the amounts read before it.  It fails as a whole when
\* a row is gone or has a line.
Finalize(c) ==
  /\ Finalizes(c)
  /\ IF call[c].seen \subseteq Rows /\ \A r \in call[c].seen : line[r] = NoAmount
     THEN /\ ApprovedNow(c)
          /\ reviewed' = reviewed \cup call[c].seen
          /\ UpdateRows("APPROVED", "APPROVED")
          /\ line' = [r \in RowIds |-> IF r \in call[c].seen THEN call[c].read[r] ELSE line[r]]
     ELSE UNCHANGED <<row, approved, reviewed, line>>
  /\ Done(c)
  /\ UNCHANGED <<settings, header, created, torn>>

-----------------------------------------------------------------------------
(* Rows one by one, each in one step here: RequestRaces has the races of a  *)
(* single row.  Submit and cancel refuse the rows of Revenue, edit does not.*)

\* PATCH /budget-requests/:id
Edit(r, amount) ==
  /\ r \in Rows /\ row[r].stage = "DRAFT"
  /\ row' = [row EXCEPT ![r].amount = amount]
  /\ UNCHANGED <<settings, header, created, reviewVars, call, torn>>

\* With an attachment, whatever the amount.
SubmitOne(r) ==
  /\ category = "SBU" /\ Submittable(r)
  /\ row' = Submitted(r)
  /\ UNCHANGED <<settings, header, created, reviewVars, call, torn>>

CancelOne(r) ==
  /\ category = "SBU" /\ r \in Rows /\ row[r].stage # "CANCELLED"
  /\ row' = [row EXCEPT ![r].stage = "CANCELLED", ![r].status = "CANCELLED"]
  /\ reviewed' = IF row[r].stage = "DRAFT" THEN reviewed ELSE reviewed \cup {r}
  /\ UNCHANGED <<settings, header, created, approved, line, call, torn>>

ReturnOne(r) ==
  /\ category = "SBU" /\ r \in Rows /\ row[r].stage = "SF_VALIDATION"
  /\ row' = [row EXCEPT ![r].stage = "DRAFT", ![r].status = "RETURNED"]
  /\ reviewed' = reviewed \cup {r}
  /\ UNCHANGED <<settings, header, created, approved, line, call, torn>>

\* The process restarts.
Crash ==
  /\ \E c \in Calls : Running(c)
  /\ call' = [c \in Calls |-> NoCall]
  /\ UNCHANGED <<settings, batchVars, reviewVars, torn>>

Start(c) ==
  \/ \E t \in Templates : StartUpload(c, t) \/ StartOverride(c, t)
  \/ StartSubmit(c) \/ StartCancel(c)
  \/ \E stage \in RevenueStages, verb \in {"approve", "return"} : StartDecision(c, stage, verb)

Continue(c) ==
  \/ Replace(c) \/ CreateRow(c)
  \/ SubmitRevenue(c) \/ (\E r \in RowIds : SubmitRow(c, r)) \/ Cancel(c)
  \/ LogDecision(c) \/ Move(c) \/ Finalize(c)

Next ==
  \/ \E amount \in BoardAmounts : SetBoardBudget(amount)
  \/ \E gate \in MovingGates : MoveGate(gate)
  \/ \E c \in Calls : Start(c) \/ Continue(c)
  \/ \E r \in RowIds, amount \in EditAmounts : Edit(r, amount)
  \/ \E r \in RowIds : SubmitOne(r) \/ CancelOne(r) \/ ReturnOne(r)
  \/ Crash

Spec == Init /\ [][Next]_vars

-----------------------------------------------------------------------------
(* Properties.                                                              *)

\* While uploads run alone, the rows of a Revenue batch share one stage and
\* one status, however submits, decisions, edits and cancels overlap or die:
\* each moves all rows in one statement (updateMany).
SiblingsMoveTogether ==
  category = "REVENUE" /\ ~torn =>
    \A r, s \in Rows : row[r].stage = row[s].stage /\ row[r].status = row[s].status

\* While uploads run alone, a Revenue row is at a stage only after every
\* earlier one has at some time approved it, and is approved only after all
\* four and with its finalized line, however late a decision comes.
EarlierStagesApproved ==
  ~torn =>
    \A r \in Rows :
      /\ \A i, j \in DOMAIN RevenueStageOrder :
           row[r].stage = RevenueStageOrder[j] /\ i < j => RevenueStageOrder[i] \in approved[r]
      /\ row[r].stage = "APPROVED" => RevenueStages \subseteq approved[r] /\ line[r] # NoAmount

\* Whatever overlaps, an override never takes away a row that a reviewer has
\* decided on, and a published line is never written again: the decisions'
\* foreign key and the lines' unique key hold against late calls.
DecidedRowsStay ==
  [][\A r \in RowIds :
       /\ r \in reviewed /\ row[r] # NoRow => row'[r] # NoRow
       /\ line[r] # NoAmount => line'[r] = line[r]]_vars

\* A statement of the code that overlapping calls break: "every row in a
\* batch always shares one currentStage ... sibling rows can never drift
\* apart".  A submit between two row creations is enough.
SiblingsNeverDrift ==
  category = "REVENUE" => \A r, s \in Rows : row[r].stage = row[s].stage

=============================================================================
