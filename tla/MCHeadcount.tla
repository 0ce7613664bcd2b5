------------------------------ MODULE MCHeadcount ------------------------------
(* Instances of Headcount for TLC. *)
EXTENDS Headcount, TLC

Symmetry == Permutations(Calls) \cup Permutations(Requests)

=============================================================================
