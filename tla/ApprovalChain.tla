---------------------------- MODULE ApprovalChain ----------------------------
(***************************************************************************)
(* The New Request approval chains of backend/src/services/approvalChain.ts:*)
(* which stages a request goes through, who a stage is assigned to, and who *)
(* may act on it.  Pure operators over a request row; the state machines    *)
(* that use them are BudgetRequests (handlers one at a time) and            *)
(* RequestRaces (handlers interleaved).                                     *)
(***************************************************************************)
EXTENDS Naturals, Sequences

CONSTANTS
  Users,                 \* ids of the User table
  Departments, Sbus,     \* scopes of role assignments
  LineItems,             \* rows of the ExpenseLineItem catalog
  OwnerDepartment,       \* [LineItems -> Departments]
  CentralizedReviewer,   \* [LineItems -> Users or NoUser], column J
  DepartmentOf,          \* [Users -> Departments], a user's assigned unit
  Roles,                 \* role assignments <<user, role type, scope>>
  NoUser, NoSbu, NoItem  \* the nulls of the nullable columns

RoleTypes ==
  {"DEPARTMENT_HEAD", "CENTRALIZED_BUDGET_PREPARER",
   "CENTRALIZED_FIRST_LEVEL_REVIEWER", "CENTRALIZED_DEPARTMENT_HEAD",
   "BUDGET_OFFICER", "CFO", "BU_FINANCE_OFFICER", "BU_FINANCE_HEAD"}

ASSUME ChainAssumption ==
  /\ OwnerDepartment \in [LineItems -> Departments]
  /\ CentralizedReviewer \in [LineItems -> Users \cup {NoUser}]
  /\ DepartmentOf \in [Users -> Departments]
  /\ Roles \subseteq Users \X RoleTypes \X (Departments \cup Sbus)
  /\ NoUser \notin Users
  /\ NoSbu \notin Sbus
  /\ NoItem \notin LineItems

-----------------------------------------------------------------------------
(* Stages.  "REQUESTOR" stands for the null that previousStageBefore and    *)
(* the return handlers use for "back to the requestor".                     *)

ChainStages ==
  {"DEPT_HEAD_REVIEW", "CFO_APPROVAL", "CENTRALIZED_L1_REVIEW",
   "CENTRALIZED_HEAD_REVIEW", "BUDGET_OFFICER_VALIDATION", "SF_VALIDATION",
   "SF_HEAD_REVIEW", "BUDGET_OFFICER_ROUTING", "BUDGET_OFFICER_REVIEW"}

RequestStage == ChainStages \cup {"DRAFT", "APPROVED", "CANCELLED"}

Requestor == "REQUESTOR"

\* DOE, Commission, Cost of Sales, Depreciation & Amortization and Interest
\* Expense share one chain and carry no catalog line item: "DOE" stands for
\* all five.
SbuBatchCategories == {"DOE"}
\* "GAE (and anything else on the shared expense chain)".
SharedChainCategories == {"GAE", "OTHER_INCOME"}
Categories == SbuBatchCategories \cup SharedChainCategories \cup {"NPC"}

SbuBatchChain == <<"SF_VALIDATION", "SF_HEAD_REVIEW", "BUDGET_OFFICER_REVIEW">>

NpcChain ==
  <<"DEPT_HEAD_REVIEW", "BUDGET_OFFICER_VALIDATION", "SF_VALIDATION",
    "SF_HEAD_REVIEW", "BUDGET_OFFICER_ROUTING", "BUDGET_OFFICER_REVIEW">>

\* Own-department requests have no Department Head; an over-limit Mobile
\* Phone plan adds the CFO.
GaeChain(ownDept, cfo) ==
  IF ownDept
  THEN IF cfo
       THEN <<"CFO_APPROVAL", "CENTRALIZED_L1_REVIEW", "CENTRALIZED_HEAD_REVIEW",
              "BUDGET_OFFICER_VALIDATION", "BUDGET_OFFICER_REVIEW">>
       ELSE <<"CENTRALIZED_L1_REVIEW", "CENTRALIZED_HEAD_REVIEW",
              "BUDGET_OFFICER_VALIDATION", "BUDGET_OFFICER_REVIEW">>
  ELSE IF cfo
       THEN <<"DEPT_HEAD_REVIEW", "CFO_APPROVAL", "CENTRALIZED_L1_REVIEW",
              "CENTRALIZED_HEAD_REVIEW", "BUDGET_OFFICER_VALIDATION",
              "BUDGET_OFFICER_REVIEW">>
       ELSE <<"DEPT_HEAD_REVIEW", "CENTRALIZED_L1_REVIEW",
              "CENTRALIZED_HEAD_REVIEW", "BUDGET_OFFICER_VALIDATION",
              "BUDGET_OFFICER_REVIEW">>

\* The ordered stages after DRAFT; the last is always BUDGET_OFFICER_REVIEW.
ChainFor(q) ==
  IF q.requestCategory \in SbuBatchCategories THEN SbuBatchChain
  ELSE IF q.requestCategory = "NPC" THEN NpcChain
  ELSE GaeChain(q.ownDeptInitiated, q.requiresCfoApproval)

InChain(q, stage) == \E i \in DOMAIN ChainFor(q) : ChainFor(q)[i] = stage

\* chain.indexOf(stage), for a stage of the chain.
IndexOf(q, stage) == CHOOSE i \in DOMAIN ChainFor(q) : ChainFor(q)[i] = stage

HasNext(q, stage) ==
  InChain(q, stage) /\ IndexOf(q, stage) < Len(ChainFor(q))

NextStageAfter(q, stage) == ChainFor(q)[IndexOf(q, stage) + 1]

\* The stages of q's chain before the given one of it.
StagesBefore(q, stage) ==
  {s \in ChainStages : InChain(q, s) /\ IndexOf(q, s) < IndexOf(q, stage)}

\* A stage that is not in the chain (indexOf is -1) also goes back to the
\* requestor, exactly as the first one does.
PreviousStageBefore(q, stage) ==
  IF InChain(q, stage) /\ IndexOf(q, stage) > 1
  THEN ChainFor(q)[IndexOf(q, stage) - 1]
  ELSE Requestor

-----------------------------------------------------------------------------
(* Who a stage belongs to.                                                  *)

\* assigneeForStage as decideRequest and submitRequest call it: the row was
\* loaded with its line item.
AssigneeForStage(q, stage) ==
  IF stage = "DEPT_HEAD_REVIEW" THEN q.departmentHeadId
  ELSE IF stage = "CENTRALIZED_HEAD_REVIEW" THEN q.centralizedHeadId
  ELSE IF stage = "CENTRALIZED_L1_REVIEW" /\ q.expenseLineItem # NoItem
       THEN CentralizedReviewer[q.expenseLineItem]
  ELSE NoUser

HasDeptRole(u, roleType, dept) == <<u, roleType, dept>> \in Roles
HasAnyRole(u, roleType) == \E s \in Departments \cup Sbus : <<u, roleType, s>> \in Roles
HasSbuRole(u, roleType, sbu) ==
  IF sbu = NoSbu THEN HasAnyRole(u, roleType) ELSE <<u, roleType, sbu>> \in Roles

OwnsLineItem(u, roleType, q) ==
  /\ q.expenseLineItem # NoItem
  /\ HasDeptRole(u, roleType, OwnerDepartment[q.expenseLineItem])

\* Mutant: only the column-J reviewer reviews at Centralized L1, only the SBU
\* Finance Reviewer acts for SBU Finance.
HoldsRoleOfNamed(u, q, stage) ==
  \/ stage = "CFO_APPROVAL" /\ HasAnyRole(u, "CFO")
  \/ /\ stage = "CENTRALIZED_HEAD_REVIEW"
     /\ OwnsLineItem(u, "CENTRALIZED_DEPARTMENT_HEAD", q)
  \/ stage = "SF_VALIDATION" /\ HasSbuRole(u, "BU_FINANCE_OFFICER", q.sbu)
  \/ /\ stage \in {"BUDGET_OFFICER_VALIDATION", "BUDGET_OFFICER_ROUTING",
                   "BUDGET_OFFICER_REVIEW"}
     /\ HasAnyRole(u, "BUDGET_OFFICER")

\* The role rule of a stage nobody is assigned to by name.
HoldsRoleOf(u, q, stage) ==
  \/ /\ stage = "DEPT_HEAD_REVIEW"
     /\ HasDeptRole(u, "DEPARTMENT_HEAD", DepartmentOf[q.createdById])
  \/ stage = "CFO_APPROVAL" /\ HasAnyRole(u, "CFO")
  \/ /\ stage = "CENTRALIZED_L1_REVIEW"
     /\ \/ OwnsLineItem(u, "CENTRALIZED_BUDGET_PREPARER", q)
        \/ OwnsLineItem(u, "CENTRALIZED_FIRST_LEVEL_REVIEWER", q)
  \/ /\ stage = "CENTRALIZED_HEAD_REVIEW"
     /\ OwnsLineItem(u, "CENTRALIZED_DEPARTMENT_HEAD", q)
  \/ stage = "SF_VALIDATION" /\ HasSbuRole(u, "BU_FINANCE_OFFICER", q.sbu)
  \/ stage = "SF_HEAD_REVIEW" /\ HasSbuRole(u, "BU_FINANCE_HEAD", q.sbu)
  \/ /\ stage \in {"BUDGET_OFFICER_VALIDATION", "BUDGET_OFFICER_ROUTING",
                   "BUDGET_OFFICER_REVIEW"}
     /\ HasAnyRole(u, "BUDGET_OFFICER")

\* An explicit assignment wins over the role rule - at every stage, the
\* closed ones included.
CanActOnStage(u, q, stage) ==
  IF q.assigneeId # NoUser THEN u = q.assigneeId ELSE HoldsRoleOf(u, q, stage)

=============================================================================
