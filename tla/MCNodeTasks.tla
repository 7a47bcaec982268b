---------------------------- MODULE MCNodeTasks -----------------------------
(* TLC instance of NodeTasks: the configurations give the constants. *)
EXTENDS NodeTasks
=============================================================================
