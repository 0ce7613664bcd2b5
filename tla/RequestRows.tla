----------------------------- MODULE RequestRows -----------------------------
(***************************************************************************)
(* A BudgetRequest row and what each handler of                            *)
(* backend/src/services/workflowService.ts and routes/budgetRequests.ts     *)
(* checks before it writes one and writes into it, as operators on the row. *)
(* BudgetRequests applies check and write in one step; RequestRaces applies *)
(* the check to the row a call has loaded and the write to the row it finds.*)
(***************************************************************************)
EXTENDS Integers, ApprovalChain

CONSTANTS
  Amounts,          \* proposed amounts a form can carry
  Pickable,         \* users a requestor may pick as approver
  DepartmentalCap   \* [Departments -> Int], value of computeDepartmentalCap

ASSUME AmountAssumption ==
  /\ Amounts \subseteq Int /\ Pickable \subseteq Users
  /\ DepartmentalCap \in [Departments -> Int]

DueDateStages == {"REQUEST_AND_AUTHORIZATION", "CENTRALIZED_L1_REVIEW",
                  "CENTRALIZED_HEAD_REVIEW", "BCA_AND_FINALIZATION"}

Statuses == {"DRAFT", "IN_REVIEW", "RETURNED", "APPROVED", "CANCELLED"}

MaybeUser == Users \cup {NoUser}

Cuts == Amounts \cup {0}
NetAmounts == {a - c : a \in Amounts, c \in Cuts}

\* complete: the justification, the line item's required fields and, above
\* the documentation threshold, an attachment are there.  overLimit: the
\* form asks for a Mobile Phone plan above the rank's policy tier.
Row ==
  [requestCategory : Categories, createdById : Users,
   sbu : Sbus \cup {NoSbu}, expenseLineItem : LineItems \cup {NoItem},
   departmentHeadId : MaybeUser, centralizedHeadId : MaybeUser,
   proposedAmount : Amounts, budgetCutAmount : Cuts, isOverBudget : BOOLEAN,
   complete : BOOLEAN, overLimit : BOOLEAN,
   currentStage : RequestStage, status : Statuses, assigneeId : MaybeUser,
   ownDeptInitiated : BOOLEAN, requiresCfoApproval : BOOLEAN]

\* What the create routes accept: a GAE, OTHER_INCOME or NPC request always has
\* a line item (NPC's is made for it), a batch row has an SBU and no line item,
\* and POST / also takes a batch category with a line item.
Origin ==
  {o \in [requestCategory : Categories, createdById : Users,
          sbu : Sbus \cup {NoSbu}, expenseLineItem : LineItems \cup {NoItem}] :
     \/ o.requestCategory \in SharedChainCategories /\ o.sbu = NoSbu /\ o.expenseLineItem # NoItem
     \/ o.requestCategory = "NPC" /\ o.sbu # NoSbu /\ o.expenseLineItem # NoItem
     \/ o.requestCategory \in SbuBatchCategories
        /\ (o.sbu # NoSbu \/ o.expenseLineItem # NoItem)}

NewRow(o, amount, complete, overLimit, deptHead, centralHead) ==
  [requestCategory |-> o.requestCategory, createdById |-> o.createdById,
   sbu |-> o.sbu, expenseLineItem |-> o.expenseLineItem,
   departmentHeadId |-> deptHead, centralizedHeadId |-> centralHead,
   proposedAmount |-> amount, budgetCutAmount |-> 0, isOverBudget |-> FALSE,
   complete |-> complete, overLimit |-> overLimit,
   currentStage |-> "DRAFT", status |-> "DRAFT", assigneeId |-> NoUser,
   ownDeptInitiated |-> FALSE, requiresCfoApproval |-> FALSE]

InReview(q) == q.currentStage \in ChainStages
Closed(q) == q.currentStage \in {"APPROVED", "CANCELLED"}

-----------------------------------------------------------------------------
(* Due dates: a passed date blocks the actions of the stages it covers.  The*)
(* CFO and SBU Finance stages have none.                                    *)

BcaStages == {"BUDGET_OFFICER_VALIDATION", "BUDGET_OFFICER_ROUTING",
              "BUDGET_OFFICER_REVIEW"}

DueDateByStage(stage) ==
  IF stage = "DEPT_HEAD_REVIEW" THEN "REQUEST_AND_AUTHORIZATION"
  ELSE IF stage \in {"CENTRALIZED_L1_REVIEW", "CENTRALIZED_HEAD_REVIEW"} THEN stage
  ELSE IF stage \in BcaStages THEN "BCA_AND_FINALIZATION"
  ELSE "NONE"

-----------------------------------------------------------------------------
(* PATCH /:id, submitRequest                                                *)

MayEdit(u, q) == q.currentStage = "DRAFT" /\ q.createdById = u

\* What the body of a PATCH, and attachments for what they add to "complete",
\* can make of a row.  A pick can be changed but not cleared; a line item can
\* be connected to any category.
WithForm(q, amount, complete, overLimit, deptHead, centralHead, item) ==
  [q EXCEPT !.proposedAmount = amount, !.complete = complete, !.overLimit = overLimit,
            !.departmentHeadId = deptHead, !.centralizedHeadId = centralHead,
            !.expenseLineItem = item]

EditedForms(q) ==
  {WithForm(q, amount, complete, overLimit, deptHead, centralHead, item) :
     amount \in Amounts, complete \in BOOLEAN, overLimit \in BOOLEAN,
     deptHead \in Pickable \cup {q.departmentHeadId},
     centralHead \in Pickable \cup {q.centralizedHeadId},
     item \in LineItems \cup {q.expenseLineItem}}

\* The creator reviews for the department that owns the line item.
OwnDeptInitiated(q) ==
  /\ q.requestCategory = "GAE"
  /\ \/ OwnsLineItem(q.createdById, "CENTRALIZED_BUDGET_PREPARER", q)
     \/ OwnsLineItem(q.createdById, "CENTRALIZED_FIRST_LEVEL_REVIEWER", q)

\* determineRequiresCfoApproval reads the line item's Plan field: there is
\* none without a line item.
RequiresCfoApproval(q) == q.overLimit /\ q.expenseLineItem # NoItem

\* Mutant: the flags of the first submit are kept.
WithFirstFlags(q) ==
  IF q.status = "RETURNED" THEN q
  ELSE [q EXCEPT !.ownDeptInitiated = OwnDeptInitiated(q),
                 !.requiresCfoApproval = RequiresCfoApproval(q)]

WithFlags(q) == [q EXCEPT !.ownDeptInitiated = OwnDeptInitiated(q),
                          !.requiresCfoApproval = RequiresCfoApproval(q)]

MaySubmit(q, overdue) ==
  /\ q.currentStage = "DRAFT"
  /\ "REQUEST_AND_AUTHORIZATION" \notin overdue
  /\ q.proposedAmount > 0
  /\ q.complete
  /\ ChainFor(WithFlags(q))[1] = "DEPT_HEAD_REVIEW" => q.departmentHeadId # NoUser
  /\ OwnDeptInitiated(q) => q.centralizedHeadId # NoUser

\* Mutant: the first stage looked up before the flags are set.
SubmittedBeforeFlags(q, seen) ==
  LET s == WithFlags(seen)
      first == ChainFor(seen)[1]
  IN  [q EXCEPT !.currentStage = first, !.status = "IN_REVIEW",
                !.ownDeptInitiated = s.ownDeptInitiated,
                !.requiresCfoApproval = s.requiresCfoApproval,
                !.assigneeId = AssigneeForStage(s, first)]

\* The write of a submit that loaded the row "seen".
Submitted(q, seen) ==
  LET s == WithFlags(seen)
      first == ChainFor(s)[1]
  IN  [q EXCEPT !.currentStage = first, !.status = "IN_REVIEW",
                !.ownDeptInitiated = s.ownDeptInitiated,
                !.requiresCfoApproval = s.requiresCfoApproval,
                !.assigneeId = AssigneeForStage(s, first)]

-----------------------------------------------------------------------------
(* decideRequest, returnAtStep5: where a request goes.                      *)

\* Mutant: the null target written as it is.
MovedToTarget(q, seen, stage) ==
  [q EXCEPT !.currentStage = stage,
            !.assigneeId = AssigneeForStage(seen, stage)]

\* moveTo: back to the requestor resets the status; a move within the chain
\* leaves it alone.
MovedTo(q, seen, stage) ==
  IF stage = Requestor
  THEN [q EXCEPT !.currentStage = "DRAFT", !.status = "RETURNED",
                 !.assigneeId = NoUser]
  ELSE [q EXCEPT !.currentStage = stage,
                 !.assigneeId = AssigneeForStage(seen, stage)]

MayDecide(u, q, overdue) ==
  /\ CanActOnStage(u, q, q.currentStage)
  /\ DueDateByStage(q.currentStage) \notin overdue

\* forecastReady: the departments whose Remaining Months Forecast is
\* completed, or all of them while the forecast year is 2026.
MayApprove(u, q, overdue, forecastReady) ==
  /\ MayDecide(u, q, overdue)
  /\ q.currentStage # "BUDGET_OFFICER_REVIEW"
  /\ q.currentStage = "CENTRALIZED_L1_REVIEW" =>
       OwnerDepartment[q.expenseLineItem] \in forecastReady
  /\ HasNext(q, q.currentStage)

\* returnAtStep5 loads the row without its line item, so a return to the
\* Centralized L1 stage finds no reviewer to assign.
ReturnedTo(q, seen, target) ==
  IF target = "CENTRALIZED_L1_REVIEW"
  THEN [q EXCEPT !.currentStage = target, !.assigneeId = NoUser]
  ELSE MovedTo(q, seen, target)

\* The body of POST /:id/return-to-stage; the last one of the chain and the
\* CFO's stage are not offered.
ReturnTargets(q) ==
  {s \in ChainStages \ {"CFO_APPROVAL", "BUDGET_OFFICER_REVIEW"} : InChain(q, s)}
  \cup {Requestor}

\* Mutants: the stage not checked; the due date not asserted.
MayActAnywhere(q, overdue) == "BCA_AND_FINALIZATION" \notin overdue
MayActAtStep5Late(q, overdue) == q.currentStage = "BUDGET_OFFICER_REVIEW"

MayActAtStep5(q, overdue) ==
  /\ q.currentStage = "BUDGET_OFFICER_REVIEW"
  /\ "BCA_AND_FINALIZATION" \notin overdue

-----------------------------------------------------------------------------
(* applyBudgetCut, cancelRequest                                            *)

MayCut(q, cut, overdue) ==
  MayActAtStep5(q, overdue) /\ 0 <= cut /\ cut <= q.proposedAmount

CutBy(q, seen, cut) ==
  [q EXCEPT !.budgetCutAmount = cut,
            !.isOverBudget =
              /\ seen.expenseLineItem # NoItem
              /\ seen.proposedAmount - cut >
                   DepartmentalCap[OwnerDepartment[seen.expenseLineItem]]]

MayCancel(u, q) ==
  /\ ~Closed(q)
  /\ u = q.createdById \/ CanActOnStage(u, q, q.currentStage)

Cancelled(q) ==
  [q EXCEPT !.currentStage = "CANCELLED", !.status = "CANCELLED",
            !.assigneeId = NoUser]

Approved(q) == [q EXCEPT !.currentStage = "APPROVED", !.status = "APPROVED"]

\* Mutant: the budget cut forgotten.
FinalAmountUncut(q) == q.proposedAmount

FinalAmount(q) == q.proposedAmount - q.budgetCutAmount

-----------------------------------------------------------------------------
(* computeRemainingPool: what a request takes from the pool of the          *)
(* department that owns its line item.                                      *)

POOL_CONSUMING_STAGES == (ChainStages \ {"CFO_APPROVAL"}) \cup {"APPROVED"}

\* requestNetAmount, of the rows the query selects.
PoolShare(q) ==
  IF /\ q.currentStage \in POOL_CONSUMING_STAGES /\ q.expenseLineItem # NoItem
     /\ q.budgetCutAmount < q.proposedAmount
  THEN q.proposedAmount - q.budgetCutAmount ELSE 0

=============================================================================
