------------------------------ MODULE MCManpower ------------------------------
(***************************************************************************)
(* Instances of Manpower for TLC: a file of both ranks, and one whose sheet *)
(* of headcounts is empty and that has a salary for the second rank only.   *)
(***************************************************************************)
EXTENDS Manpower, TLC

MCTemplates ==
  {[rate |-> "r1" :> 1 @@ "r2" :> 2,
    heads |-> [p \in Companies \X {"r1", "r2"} |-> 1]],
   [rate |-> "r2" :> 5, heads |-> <<>>]}

=============================================================================
