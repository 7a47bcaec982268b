----------------------------- MODULE MCNodeSync -----------------------------
(***************************************************************************)
(* TLC instances of NodeSync.                                              *)
(***************************************************************************)
EXTENDS NodeSync
=============================================================================
