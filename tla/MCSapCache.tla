------------------------------ MODULE MCSapCache ------------------------------
(***************************************************************************)
(* Instances of SapCache for TLC: pages of one row, three postings of one   *)
(* chunk of cost centres and one of another.                                *)
(***************************************************************************)
EXTENDS SapCache

MCChunkOf == <<1, 1, 1, 2>>
MCAtFirst == {{2, 3}}

=============================================================================
