--------------------------- MODULE MCBudgetRequests ---------------------------
(***************************************************************************)
(* Instances of BudgetRequests for TLC: two departments (the one that asks  *)
(* and the centralized one that owns the line items), one SBU, and one      *)
(* person for each part in the chains.                                      *)
(***************************************************************************)
EXTENDS BudgetRequests

\* asker has no role; keeper prepares for the centralized department and may
\* raise requests of its own; named is the column-J reviewer of "phone".
MCUsers == {"asker", "keeper", "named", "central", "officer", "finance"}
MCDepartments == {"ops", "it"}
MCSbus == {"malls"}
MCLineItems == {"phone"}
MCOwnerDepartment == [i \in MCLineItems |-> "it"]
MCCentralizedReviewer == [i \in MCLineItems |-> "named"]
MCDepartmentOf ==
  [u \in MCUsers |-> IF u \in {"keeper", "named", "central"} THEN "it" ELSE "ops"]
MCRoles ==
  {<<"keeper", "CENTRALIZED_BUDGET_PREPARER", "it">>,
   <<"central", "CENTRALIZED_DEPARTMENT_HEAD", "it">>,
   <<"keeper", "CENTRALIZED_BUDGET_PREPARER", "ops">>,
   <<"central", "CENTRALIZED_DEPARTMENT_HEAD", "ops">>,
   <<"officer", "BUDGET_OFFICER", "ops">>,
   <<"finance", "CFO", "ops">>,
   <<"finance", "BU_FINANCE_OFFICER", "malls">>,
   <<"finance", "BU_FINANCE_HEAD", "malls">>}
MCDepartmentalCap == [d \in MCDepartments |-> 1]

MCAmounts == 0 .. 2

GaeOrigins ==
  {o \in Origin : o.requestCategory = "GAE" /\ o.createdById \in {"asker", "keeper"}}
SbuOrigins ==
  {o \in Origin : o.requestCategory \notin SharedChainCategories /\ o.createdById = "asker"}

AllOrigins == GaeOrigins \cup SbuOrigins

\* "keeper" reviews for the department that owns the line item, which counts
\* for a GAE request only.
OtherIncome ==
  {o \in Origin : o.requestCategory = "OTHER_INCOME" /\ o.createdById = "keeper"}

EveryOrigin == AllOrigins \cup OtherIncome

NoDeadlines == {}
TwoDeadlines == {"CENTRALIZED_L1_REVIEW", "BCA_AND_FINALIZATION"}

\* View: of the gate only the departments that own a line item matter to a
\* handler, and of the cycle's toggle only creations.  No property of the run
\* that uses this mentions either.
WhatMatters ==
  <<requestVars, overdue, forecastReady \cap {OwnerDepartment[i] : i \in LineItems},
    cycleOpen /\ \E r \in Requests : ~Exists(r)>>

ASSUME Staffed

=============================================================================
