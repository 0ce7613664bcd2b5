------------------------------ MODULE MCForecasts ------------------------------
(* Instances of Forecasts for TLC. *)
EXTENDS Forecasts, TLC

MCFiles == {{2, 3}}
Symmetry == Permutations(Calls) \cup Permutations(Lines)

=============================================================================
