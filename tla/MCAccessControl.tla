---------------------------- MODULE MCAccessControl ----------------------------
(***************************************************************************)
(* Instances of AccessControl for TLC.  A lifetime of two ticks is the ten  *)
(* seconds of both caches.                                                  *)
(***************************************************************************)
EXTENDS AccessControl

=============================================================================
