------------------------------ MODULE MCReload ------------------------------
(***************************************************************************)
(* TLC instance of Reload: files with one node, with two, and broken.      *)
(***************************************************************************)
EXTENDS Reload

MCFiles == {<<"n1">>, <<"n1", "n2">>, Broken}
MCPartial == {<<"n1">>, Broken}
=============================================================================
