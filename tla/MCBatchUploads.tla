---------------------------- MODULE MCBatchUploads ----------------------------
(***************************************************************************)
(* Instances of BatchUploads for TLC: one batch of either category, a file  *)
(* of two rows and one of a single row with the same total, rows enough for *)
(* one override, two calls at a time.                                       *)
(***************************************************************************)
EXTENDS BatchUploads, TLC

MCTemplates == {<<1, 2>>, <<3>>}
Symmetry == Permutations(Calls)

=============================================================================
