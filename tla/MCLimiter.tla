----------------------------- MODULE MCLimiter ------------------------------
(***************************************************************************)
(* TLC instances of Limiter: who the connections belong to and where they  *)
(* come from.                                                              *)
(***************************************************************************)
EXTENDS Limiter, TLC

CONSTANTS u1, i1, i2, c1, c2, c3

OneUser == c1 :> u1 @@ c2 :> u1 @@ c3 :> u1
Devices2 == c1 :> i1 @@ c2 :> i1 @@ c3 :> i2

\* c1 and c2 come from the same device of the same user.
Twins == Permutations({c1, c2})
=============================================================================
