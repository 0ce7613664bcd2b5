---------------------------- MODULE BudgetRequests ----------------------------
(***************************************************************************)
(* The life of New Request rows: one action per handler of                 *)
(* backend/src/routes/budgetRequests.ts and services/workflowService.ts,    *)
(* each running alone from its first read to its last write.  RequestRaces  *)
(* splits the same handlers at their awaits.  Requests touch no state of    *)
(* each other here, and role assignments and the catalog do not change.     *)
(***************************************************************************)
EXTENDS RequestRows

CONSTANTS
  Requests,
  Origins,        \* the create requests considered, a subset of Origin
  Deadlines,      \* due dates the Budget Officer has configured
  MaxPostings,    \* bound on the uploads to SAP counted per request
  NoRow, NoLine

ASSUME RequestsAssumption ==
  /\ Origins \subseteq Origin
  /\ Deadlines \subseteq DueDateStages
  /\ MaxPostings \in Nat \ {0}
  /\ NoRow \notin Row
  /\ NoLine \notin NetAmounts

VARIABLES
  row,            \* BudgetRequest table: a row or NoRow for each id
  line,           \* FinalizedBudgetLine.amount by budgetRequestId, or NoLine
  signed,         \* history: stages with an APPROVE decision that no later
                  \* return has sent the request back to or before
  sapPostings,    \* calls of uploadCostCenterPlanning so far
  overdue,        \* configured due dates that have passed
  forecastReady,  \* departments through the forecast-completeness gate
  cycleOpen       \* FiscalCycleConfig.cycleOpen

requestVars == <<row, line, signed, sapPostings>>
cycleVars == <<overdue, forecastReady, cycleOpen>>
vars == <<row, line, signed, sapPostings, overdue, forecastReady, cycleOpen>>

TypeOK ==
  /\ row \in [Requests -> Row \cup {NoRow}]
  /\ line \in [Requests -> NetAmounts \cup {NoLine}]
  /\ signed \in [Requests -> SUBSET ChainStages]
  /\ sapPostings \in [Requests -> 0 .. MaxPostings]
  /\ overdue \subseteq Deadlines
  /\ forecastReady \subseteq Departments
  /\ cycleOpen \in BOOLEAN

Init ==
  /\ row = [r \in Requests |-> NoRow]
  /\ line = [r \in Requests |-> NoLine]
  /\ signed = [r \in Requests |-> {}]
  /\ sapPostings = [r \in Requests |-> 0]
  /\ overdue = {}
  /\ forecastReady \in {{}, Departments}
  /\ cycleOpen = TRUE

Exists(r) == row[r] # NoRow

\* What a return to "target" leaves of the sign-offs: it undoes the target
\* stage and every later one.
StandingAfterReturn(r, target) ==
  IF target = Requestor THEN {} ELSE signed[r] \cap StagesBefore(row[r], target)

Write(r, q) == row' = [row EXCEPT ![r] = q]

-----------------------------------------------------------------------------
(* The requestor's handlers.                                                *)

\* The NPC form takes only positive amounts and offers no Centralized Head.
Create(r, o) ==
  /\ ~Exists(r)
  /\ cycleOpen
  /\ \E amount \in Amounts, complete, overLimit \in BOOLEAN,
        deptHead, centralHead \in Pickable \cup {NoUser} :
       /\ o.requestCategory = "NPC" => amount > 0 /\ centralHead = NoUser
       /\ Write(r, NewRow(o, amount, complete, overLimit, deptHead, centralHead))
  /\ UNCHANGED <<line, signed, sapPostings, cycleVars>>

\* PATCH /:id and attachments: they may come at any stage, but only a draft,
\* or one cancelled as such, can lack one.
Edit(u, r) ==
  /\ Exists(r) /\ MayEdit(u, row[r])
  /\ \E q \in EditedForms(row[r]) : Write(r, q)
  /\ UNCHANGED <<line, signed, sapPostings, cycleVars>>

\* POST /:id/submit stores the approvers picked in its body first, whatever
\* the stage; submitRequest may then still refuse.
Submit(u, r) ==
  /\ Exists(r) /\ row[r].createdById = u
  /\ \E deptHead \in Pickable \cup {row[r].departmentHeadId},
        centralHead \in Pickable \cup {row[r].centralizedHeadId} :
       LET q == [row[r] EXCEPT !.departmentHeadId = deptHead,
                               !.centralizedHeadId = centralHead]
       IN  \/ MaySubmit(q, overdue) /\ Write(r, Submitted(q, q))
           \/ ~MaySubmit(q, overdue) /\ q # row[r] /\ Write(r, q)
  /\ UNCHANGED <<line, signed, sapPostings, cycleVars>>

Cancel(u, r) ==
  /\ Exists(r) /\ MayCancel(u, row[r])
  /\ Write(r, Cancelled(row[r]))
  /\ UNCHANGED <<line, signed, sapPostings, cycleVars>>

-----------------------------------------------------------------------------
(* The reviewers' handlers: POST /:id/decision and /:id/reassign.           *)

Approve(u, r) ==
  /\ Exists(r) /\ MayApprove(u, row[r], overdue, forecastReady)
  /\ LET stage == row[r].currentStage
     IN  /\ Write(r, MovedTo(row[r], row[r], NextStageAfter(row[r], stage)))
         /\ signed' = [signed EXCEPT ![r] = @ \cup {stage}]
  /\ UNCHANGED <<line, sapPostings, cycleVars>>

SendBack(r, target) ==
  /\ Write(r, MovedTo(row[r], row[r], target))
  /\ signed' = [signed EXCEPT ![r] = StandingAfterReturn(r, target)]
  /\ UNCHANGED <<line, sapPostings, cycleVars>>

ReturnPrevious(u, r) ==
  /\ Exists(r) /\ MayDecide(u, row[r], overdue)
  /\ SendBack(r, PreviousStageBefore(row[r], row[r].currentStage))

ReturnRequestor(u, r) ==
  /\ Exists(r) /\ MayDecide(u, row[r], overdue)
  /\ SendBack(r, Requestor)

Reassign(u, r, to) ==
  /\ Exists(r) /\ CanActOnStage(u, row[r], row[r].currentStage)
  /\ Write(r, [row[r] EXCEPT !.assigneeId = to])
  /\ UNCHANGED <<line, signed, sapPostings, cycleVars>>

-----------------------------------------------------------------------------
(* Budget Finalization: any Budget Officer, whoever the stage is assigned to.*)

AtStep5(u, r) ==
  /\ Exists(r) /\ HasAnyRole(u, "BUDGET_OFFICER")
  /\ MayActAtStep5(row[r], overdue)

BudgetCut(u, r) ==
  /\ AtStep5(u, r)
  /\ \E cut \in Cuts : MayCut(row[r], cut, overdue) /\ Write(r, CutBy(row[r], row[r], cut))
  /\ UNCHANGED <<line, signed, sapPostings, cycleVars>>

ReturnToStage(u, r) ==
  /\ AtStep5(u, r)
  /\ \E target \in ReturnTargets(row[r]) :
       /\ Write(r, ReturnedTo(row[r], row[r], target))
       /\ signed' = [signed EXCEPT ![r] = StandingAfterReturn(r, target)]
  /\ UNCHANGED <<line, sapPostings, cycleVars>>

\* SAP first (not for NPC), then decision, row and line in one transaction.
\* The line's unique budgetRequestId rolls the transaction back when there
\* already is one: only the posting to SAP remains.
PostToSap(r) ==
  LET n == IF row[r].requestCategory = "NPC" THEN 0 ELSE 1
  IN  /\ sapPostings[r] + n <= MaxPostings
      /\ sapPostings' = [sapPostings EXCEPT ![r] = @ + n]

Finalize(u, r) ==
  /\ AtStep5(u, r)
  /\ PostToSap(r)
  /\ \/ /\ line[r] = NoLine
        /\ Write(r, Approved(row[r]))
        /\ line' = [line EXCEPT ![r] = FinalAmount(row[r])]
        /\ signed' = [signed EXCEPT ![r] = @ \cup {row[r].currentStage}]
     \/ line[r] # NoLine /\ UNCHANGED <<row, line, signed>>
  /\ UNCHANGED cycleVars

-----------------------------------------------------------------------------
(* What changes around the requests: due dates pass and are moved, the      *)
(* forecast of a department is completed or gains rows, the cycle is closed *)
(* and reopened.                                                            *)

DueDatesMove ==
  /\ \E d \in SUBSET Deadlines : d # overdue /\ overdue' = d
  /\ UNCHANGED <<requestVars, forecastReady, cycleOpen>>

ForecastChanges ==
  /\ \E d \in SUBSET Departments : d # forecastReady /\ forecastReady' = d
  /\ UNCHANGED <<requestVars, overdue, cycleOpen>>

ToggleCycle ==
  /\ cycleOpen' = ~cycleOpen
  /\ UNCHANGED <<requestVars, overdue, forecastReady>>

RequestStep(u, r) ==
  \/ Edit(u, r) \/ Submit(u, r) \/ Cancel(u, r)
  \/ Approve(u, r) \/ ReturnPrevious(u, r) \/ ReturnRequestor(u, r)
  \/ \E to \in Users : Reassign(u, r, to)
  \/ BudgetCut(u, r) \/ ReturnToStage(u, r) \/ Finalize(u, r)

Next ==
  \/ \E r \in Requests, o \in Origins : Create(r, o)
  \/ \E u \in Users, r \in Requests : RequestStep(u, r)
  \/ DueDatesMove \/ ForecastChanges \/ ToggleCycle

Spec == Init /\ [][Next]_vars

-----------------------------------------------------------------------------
(* Properties.                                                              *)

\* An open request sits at a stage of its own chain, with the chain as its
\* stored flags give it, and only with every earlier stage of that chain
\* signed off since the last return; an approved one has the whole chain's
\* signatures and a draft none.  No order of approvals, returns, edits and
\* resubmissions skips a reviewer (chainFor, nextStageAfter, moveTo,
\* submitRequest, returnAtStep5).
SignedInOrder ==
  \A r \in Requests : Exists(r) =>
    /\ InReview(row[r]) =>
         /\ InChain(row[r], row[r].currentStage)
         /\ signed[r] = StagesBefore(row[r], row[r].currentStage)
    /\ row[r].currentStage = "APPROVED" =>
         signed[r] = {s \in ChainStages : InChain(row[r], s)}
    /\ row[r].currentStage = "DRAFT" => signed[r] = {}

\* status and currentStage are separate columns and moveTo writes only one of
\* them for a move inside the chain: they agree all the same.
StatusTracksStage ==
  \A r \in Requests : Exists(r) =>
    /\ row[r].currentStage = "DRAFT" => row[r].status \in {"DRAFT", "RETURNED"}
    /\ InReview(row[r]) => row[r].status = "IN_REVIEW"
    /\ Closed(row[r]) => row[r].status = row[r].currentStage

\* An approved Mobile Phone request above the policy tier carries the CFO's
\* signature, also when the plan was changed after a return
\* (determineRequiresCfoApproval runs at each submit).
CfoSawOverLimit ==
  \A r \in Requests :
    /\ Exists(r) /\ row[r].requestCategory \in SharedChainCategories
    /\ row[r].overLimit /\ row[r].currentStage = "APPROVED"
    => "CFO_APPROVAL" \in signed[r]

\* An approved request has a finalized line and the line is the approved
\* amount: nothing edits or cuts a request between Finalize & Upload and the
\* readers of FinalizedBudgetLine (finalizeAtStep5's transaction).
ApprovedHasItsLine ==
  \A r \in Requests :
    Exists(r) /\ row[r].currentStage = "APPROVED" =>
      line[r] = row[r].proposedAmount - row[r].budgetCutAmount

\* Every open request has somebody who may act on it: assigneeForStage and
\* the role rules of canActOnStage leave no gap, provided every role is
\* staffed (Staffed, an assumption on the role assignments).
SomeoneCanAct ==
  \A r \in Requests : Exists(r) /\ InReview(row[r]) =>
    \E u \in Users : CanActOnStage(u, row[r], row[r].currentStage)

Staffed ==
  /\ \E u \in Users : HasAnyRole(u, "BUDGET_OFFICER")
  /\ \E u \in Users : HasAnyRole(u, "CFO")
  /\ \A s \in Sbus : \E u, v \in Users :
       HasSbuRole(u, "BU_FINANCE_OFFICER", s) /\ HasSbuRole(v, "BU_FINANCE_HEAD", s)
  /\ \A o \in Origins : o.sbu = NoSbu => \E u, v \in Users :
       HasAnyRole(u, "BU_FINANCE_OFFICER") /\ HasAnyRole(v, "BU_FINANCE_HEAD")
  /\ \A d \in Departments : \E u, v \in Users :
       /\ \/ HasDeptRole(u, "CENTRALIZED_BUDGET_PREPARER", d)
          \/ HasDeptRole(u, "CENTRALIZED_FIRST_LEVEL_REVIEWER", d)
       /\ HasDeptRole(v, "CENTRALIZED_DEPARTMENT_HEAD", d)

\* A cancelled request stays cancelled: closing it also clears its assignee,
\* the one person decideRequest would still let act on it.
CancelledIsFinal ==
  [][\A r \in Requests : Exists(r) /\ row[r].currentStage = "CANCELLED"
       => row'[r].currentStage = "CANCELLED"]_vars

\* What the reviewers signed is what moves on: while a request is open its
\* amount, plan and line item do not change, except that the Budget Officer
\* may cut it at the last stage.
ReviewedFormFrozen ==
  [][\A r \in Requests :
       Exists(r) /\ InReview(row[r]) =>
         /\ row'[r].proposedAmount = row[r].proposedAmount
         /\ row'[r].overLimit = row[r].overLimit
         /\ row'[r].expenseLineItem = row[r].expenseLineItem
         /\ row[r].currentStage # "BUDGET_OFFICER_REVIEW" =>
              row'[r].budgetCutAmount = row[r].budgetCutAmount]_vars

\* FinalizedBudgetLine "stays exactly what was finalized", also for a request
\* that is reopened, edited and finalized again.
LineIsPermanent ==
  [][\A r \in Requests : line[r] # NoLine => line'[r] = line[r]]_vars

\* A passed due date freezes the stages it covers: a request leaves such a
\* stage only by being cancelled (assertDueDateNotPassed in every handler).
DueDateBlocks ==
  [][\A r \in Requests :
       /\ Exists(r) /\ DueDateByStage(row[r].currentStage) \in overdue
       /\ row'[r].currentStage # row[r].currentStage
       => row'[r].currentStage = "CANCELLED"]_vars

\* The handlers implement the abstract life of a request (RequestLifecycle):
\* what is owed are the stages of the chain that have not signed.
Phase(q) ==
  IF q = NoRow THEN "absent"
  ELSE IF q.currentStage = "DRAFT" THEN "draft"
  ELSE IF q.currentStage = "APPROVED" THEN "approved"
  ELSE IF q.currentStage = "CANCELLED" THEN "cancelled"
  ELSE "review"

Owed(r) ==
  IF Phase(row[r]) = "review"
  THEN {s \in ChainStages : InChain(row[r], s)} \ signed[r] ELSE {}

Lifecycle == INSTANCE RequestLifecycle WITH
  Reviewers <- ChainStages, PublishedAmounts <- NetAmounts,
  phase <- [r \in Requests |-> Phase(row[r])],
  owed <- [r \in Requests |-> Owed(r)]

\* Every step of the handlers is a step of the abstract specification, or
\* changes nothing it shows.
ImplementsLifecycle == Lifecycle!Spec

-----------------------------------------------------------------------------
(* Statements of the comments and messages of the code that do not hold.    *)

\* "Budget cut must be between 0 and the proposed amount."
CutWithinProposed ==
  \A r \in Requests : Exists(r) /\ InReview(row[r]) =>
    row[r].budgetCutAmount \in 0 .. row[r].proposedAmount

\* "A request only leaves the pool once it's fully rejected/returned; anything
\* still moving through the workflow, or finalized, counts against the cap."
OpenRequestsUsePool ==
  [][\A r \in Requests : Exists(r) /\ PoolShare(row'[r]) = 0 /\ PoolShare(row[r]) > 0 =>
       \/ row'[r].currentStage \in {"DRAFT", "CANCELLED"}
       \/ row'[r].budgetCutAmount # row[r].budgetCutAmount]_vars

\* cancelRequest calls an approved request "already closed"; nothing reopens
\* a closed request.
ApprovedIsFinal ==
  [][\A r \in Requests : Exists(r) /\ row[r].currentStage = "APPROVED"
       => row'[r].currentStage = "APPROVED"]_vars

=============================================================================
