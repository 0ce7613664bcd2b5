-------------------------- MODULE MCFollowOnRequests --------------------------
(***************************************************************************)
(* Instances of FollowOnRequests for TLC: one ticket of any kind, amounts   *)
(* at and beyond each threshold, two calls at a time, a holder per stage.   *)
(***************************************************************************)
EXTENDS FollowOnRequests

MCUsers == {"head", "officer"}
MCDeptHeads == {"head"}
MCHolders ==
  [s \in ReviewStages |-> IF s = "DEPT_HEAD_REVIEW" THEN {"head"} ELSE {"officer"}]
MCAmounts == 1 .. 3

=============================================================================
