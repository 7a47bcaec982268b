-------------------------------- MODULE Core ---------------------------------
(***************************************************************************)
(* What a controller relies on of a core (the interface Core of            *)
(* core/interface.go): under every tag it holds at most one node with a    *)
(* set of users, and an operation changes the node of its own tag only.    *)
(* An operation that fails may have no effect or, on users, part of it.    *)
(***************************************************************************)
CONSTANTS Tags, Users, None

VARIABLE served     \* tag -> the users of its node, or None

Empty == [t \in Tags |-> None]

Init == served = Empty

AddNode(t) ==
    /\ served[t] = None
    /\ served' = [served EXCEPT ![t] = {}]

DelNode(t) ==
    /\ served[t] # None
    /\ served' = [served EXCEPT ![t] = None]

AddUsers(t, users) ==
    /\ served[t] # None
    /\ served' = [served EXCEPT ![t] = @ \cup users]

DelUsers(t, users) ==
    /\ served[t] # None
    /\ served' = [served EXCEPT ![t] = @ \ users]

Close == served' = Empty

Next ==
    \/ Close
    \/ \E t \in Tags :
          \/ AddNode(t) \/ DelNode(t)
          \/ \E users \in SUBSET Users : AddUsers(t, users) \/ DelUsers(t, users)

Spec == Init /\ [][Next]_served
=============================================================================
