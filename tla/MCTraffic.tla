----------------------------- MODULE MCTraffic ------------------------------
(***************************************************************************)
(* TLC instance of Traffic: two nodes of the same core, two connections on *)
(* the first node (so that both can create its counter) and one on the     *)
(* second; those on the first node are one user's and share a counter, or  *)
(* all three are.  The first node reports only more than one packet, so    *)
(* that a report leaves the first in the counter, the second any traffic.  *)
(***************************************************************************)
EXTENDS Traffic, TLC

CONSTANTS a, b, u1, u2, c1, c2, c3, p1, p2, p3

MCTagOf == c1 :> a @@ c2 :> a @@ c3 :> b
OneUser == [c \in Conns |-> u1]
TwoUsers == c1 :> u1 @@ c2 :> u1 @@ c3 :> u2
ThreePackets == p1 :> c1 @@ p2 :> c2 @@ p3 :> c3
MCMinTraffic == a :> 1 @@ b :> 0
NoMinTraffic == [t \in Tags |-> 0]

\* The report task runs periodically and its requests time out.
FairSpec == Spec /\ \A t \in Tags : WF_vars(ReportStep(t))
=============================================================================
