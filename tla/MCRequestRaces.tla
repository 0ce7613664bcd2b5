---------------------------- MODULE MCRequestRaces ----------------------------
(***************************************************************************)
(* Instances of RequestRaces for TLC: one GAE request and one suspended     *)
(* call, any handlers running in between.  The requestor reviews for the    *)
(* department of one line item and not of the other, so that the request    *)
(* moves between the chains of own and of foreign requests when its line    *)
(* item is changed.                                                         *)
(***************************************************************************)
EXTENDS RequestRaces

MCUsers == {"keeper", "officer"}
MCDepartments == {"it", "hr"}
MCSbus == {"malls"}
MCLineItems == {"desk", "chair"}
MCOwnerDepartment == [i \in MCLineItems |-> IF i = "desk" THEN "it" ELSE "hr"]
MCCentralizedReviewer == [i \in MCLineItems |-> "keeper"]
MCDepartmentOf == [u \in MCUsers |-> "it"]
MCRoles ==
  {<<"keeper", "CENTRALIZED_FIRST_LEVEL_REVIEWER", "it">>,
   <<"officer", "CENTRALIZED_FIRST_LEVEL_REVIEWER", "hr">>,
   <<"officer", "CENTRALIZED_DEPARTMENT_HEAD", "it">>,
   <<"officer", "CENTRALIZED_DEPARTMENT_HEAD", "hr">>,
   <<"officer", "BUDGET_OFFICER", "it">>, <<"officer", "CFO", "it">>,
   <<"officer", "BU_FINANCE_OFFICER", "malls">>, <<"officer", "BU_FINANCE_HEAD", "malls">>}
MCDepartmentalCap == [d \in MCDepartments |-> 1]
MCAmounts == 1 .. 2

MCOrigins ==
  {o \in Origin : /\ o.requestCategory = "GAE" /\ o.createdById = "keeper"
                  /\ o.expenseLineItem = "desk"}

\* State constraint: only drafts that could be submitted are followed.  What
\* a form still lacks only ever blocks its submission.  Over-limit plans only
\* with the requestor's own line item.
FilledForms ==
  \A r \in Requests : Exists(r) =>
    /\ row[r].complete
    /\ row[r].departmentHeadId # NoUser /\ row[r].centralizedHeadId # NoUser
    /\ row[r].overLimit => row[r].expenseLineItem = "desk"

\* View: "signed" decides no step and no property of the run that uses this,
\* and what is added to it is in "logged" for good.
WithoutSignatures == <<row, line, sapPostings, cycleVars, pending, logged>>

ASSUME Staffed

=============================================================================
