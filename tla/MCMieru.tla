------------------------------ MODULE MCMieru -------------------------------
(***************************************************************************)
(* TLC instance of Mieru: a TCP connection and a UDP association of one    *)
(* user, so that they share a counter and a connSet, and a second user who *)
(* keeps the mux open when the first is deleted.                           *)
(***************************************************************************)
EXTENDS Mieru, TLC

CONSTANTS u1, u2, c1, c2

MCUserOf == c1 :> u1 @@ c2 :> u1
=============================================================================
