--------------------------- MODULE NodeSyncProofs ---------------------------
(***************************************************************************)
(* For any node configurations, users and edits, and any number of failing *)
(* requests: controller, core and limiter agree; users of the core are     *)
(* known to the limiter; and the process panics only after a fault that    *)
(* the code treats as fatal.                                               *)
(***************************************************************************)
EXTENDS NodeSync, TLAPS

(* While no fatal fault happened the core has the node. *)
NodeThere ==
    /\ Running => info # None
    /\ (Running /\ faulted \cap FatalFaults = {}) => coreNode # None

USE FaultAssumption, NoneAssumption, SettingsAssumption

(* A failure adds a known kind of fault. *)
LEMMA FailsType ==
    ASSUME TypeOK, NEW f \in FaultKinds, Fails(f)
    PROVE  nfaults' \in Nat /\ faulted' \in SUBSET FaultKinds /\ f \in faulted'
BY DEF TypeOK, Fails

(* What the limiter's UpdateUser leaves is a user list. *)
LEMMA UpdateUserType ==
    ASSUME TypeOK, newU # None, newU \in UserLists, UpdateUser(userList, newU)
    PROVE  lim' \in UserLists
BY DEF TypeOK, UpdateUser, UserLists, Added, Deleted, Listed

(* Every step keeps the state well typed. *)
LEMMA TypeStep == TypeOK /\ [Next]_vars => TypeOK'
<1> SUFFICES ASSUME TypeOK, [Next]_vars PROVE TypeOK'
    OBVIOUS
<1> USE DEF TypeOK
<1>1. CASE PanelChangesNode \/ PanelChangesUsers
    BY <1>1 DEF PanelChangesNode, PanelChangesUsers, seenVars, ctlVars, coreVars,
        faultVars
<1>2. CASE Start
    <2>1. Listed(panelUsers) \subseteq Uuids
        BY DEF Listed
    <2>2. nfaults' \in Nat /\ faulted' \in SUBSET FaultKinds
        BY <1>2, FailsType DEF Start, Works, faultVars, FaultKinds
    <2> QED
        BY <1>2, <2>1, <2>2 DEF Start, envVars, seenVars, coreVars
<1>3. CASE FetchNode
    <2>1. nfaults' \in Nat /\ faulted' \in SUBSET FaultKinds
        BY ZenonT(60), <1>3, FailsType DEF FetchNode, Works, faultVars, FaultKinds
    <2> QED
        BY <1>3, <2>1 DEF FetchNode, envVars, coreVars
<1>4. CASE FetchUsers
    <2>1. nfaults' \in Nat /\ faulted' \in SUBSET FaultKinds
        BY ZenonT(60), <1>4, FailsType DEF FetchUsers, Works, faultVars, FaultKinds
    <2> QED
        BY <1>4, <2>1 DEF FetchUsers, envVars, coreVars
<1>5. CASE Reload
    <2>1. nfaults' \in Nat /\ faulted' \in SUBSET FaultKinds
        BY ZenonT(60), <1>5, FailsType DEF Reload, Works, faultVars, FaultKinds
    <2>2. userList' \in UserLists
        BY <1>5 DEF Reload
    <2>3. Listed(userList') \subseteq Uuids
        BY DEF Listed
    <2>4. Kept \subseteq Uuids
        BY DEF Kept
    <2>5. /\ coreNode' \in Nodes \cup {None}
          /\ coreUsers' \in SUBSET Uuids
          /\ lim' \in UserLists
          /\ pc' \in {"idle", "crashed"}
        BY <1>5, <2>2, <2>3, <2>4 DEF Reload, coreVars
    <2> QED
        BY <1>5, <2>1, <2>2, <2>5 DEF Reload, envVars, seenVars
<1>6. CASE UpdateUsers
    <2>1. nfaults' \in Nat /\ faulted' \in SUBSET FaultKinds
        BY ZenonT(60), <1>6, FailsType DEF UpdateUsers, Works, faultVars, FaultKinds
    <2>2. userList' \in UserLists
        BY <1>6 DEF UpdateUsers
    <2>3. lim' \in UserLists
        BY <1>6, UpdateUserType DEF UpdateUsers, coreVars
    <2>4. Added(userList, newU) \subseteq Uuids
        BY DEF Added, Listed
    <2>5. coreUsers' \subseteq Uuids /\ coreNode' = coreNode
        BY <1>6, <2>4 DEF UpdateUsers, coreVars
    <2> QED
        BY <1>6, <2>1, <2>2, <2>3, <2>5 DEF UpdateUsers, envVars, seenVars
<1>7. CASE Close
    <2>1. nfaults' \in Nat /\ faulted' \in SUBSET FaultKinds
        BY ZenonT(60), <1>7, FailsType DEF Close, Works, faultVars, FaultKinds
    <2>2. Kept \subseteq Uuids
        BY DEF Kept
    <2> QED
        BY <1>7, <2>1, <2>2 DEF Close, NoUsers, UserLists, envVars, seenVars, ctlVars
<1>8. CASE UNCHANGED vars
    BY <1>8 DEF vars, envVars, seenVars, ctlVars, coreVars, faultVars
<1> QED
    BY <1>1, <1>2, <1>3, <1>4, <1>5, <1>6, <1>7, <1>8 DEF Next, Monitor

(* The state of the controller, the core and the limiter is well typed. *)
THEOREM NodeSyncTypeCorrect == Spec => []TypeOK
<1>1. Init => TypeOK
    BY DEF Init, TypeOK, UserLists, NoUsers
<1> QED
    BY <1>1, TypeStep, PTL DEF Spec

-----------------------------------------------------------------------------
(* The node is only ever missing after a fatal fault. *)
LEMMA NodeThereStep == TypeOK /\ NodeThere /\ [Next]_vars => NodeThere'
<1> SUFFICES ASSUME TypeOK, NodeThere, [Next]_vars PROVE NodeThere'
    OBVIOUS
<1> USE DEF NodeThere, Running, FatalFaults
<1>1. faulted \subseteq faulted'
    BY DEF Next, Monitor, PanelChangesNode, PanelChangesUsers, Start, FetchNode,
        FetchUsers, Reload, UpdateUsers, Close, Fails, Works, faultVars, vars
<1>2. CASE PanelChangesNode \/ PanelChangesUsers \/ UNCHANGED vars
    BY <1>2 DEF PanelChangesNode, PanelChangesUsers, vars, ctlVars, coreVars,
        faultVars
<1>3. CASE Start
    BY <1>3 DEF Start, TypeOK
<1>4. CASE FetchNode \/ FetchUsers
    BY <1>1, <1>4 DEF FetchNode, FetchUsers, coreVars
<1>5. CASE Reload
    BY <1>5 DEF Reload, TypeOK, Fails
<1>6. CASE UpdateUsers
    BY <1>1, <1>6 DEF UpdateUsers, coreVars
<1>7. CASE Close
    BY <1>7 DEF Close
<1> QED
    BY <1>2, <1>3, <1>4, <1>5, <1>6, <1>7 DEF Next, Monitor

(* A panic needs a missing node or a fatal fault. *)
LEMMA PanicStep ==
    TypeOK /\ NodeThere /\ PanicNeedsFatalFault /\ [Next]_vars
        => PanicNeedsFatalFault'
<1> SUFFICES ASSUME TypeOK, NodeThere, PanicNeedsFatalFault, [Next]_vars
             PROVE  PanicNeedsFatalFault'
    OBVIOUS
<1> USE DEF PanicNeedsFatalFault, FatalFaults
<1>1. faulted \subseteq faulted'
    BY DEF Next, Monitor, PanelChangesNode, PanelChangesUsers, Start, FetchNode,
        FetchUsers, Reload, UpdateUsers, Close, Fails, Works, faultVars, vars
<1>2. CASE pc' = pc
    BY <1>1, <1>2
<1>3. CASE Start \/ FetchNode \/ FetchUsers \/ UpdateUsers
    BY <1>3 DEF Start, FetchNode, FetchUsers, UpdateUsers, Fails
<1>4. CASE Reload
    BY <1>1, <1>4 DEF Reload, NodeThere, Running, Fails
<1>5. CASE Close
    BY <1>1, <1>5 DEF Close, NodeThere, Running, Fails
<1> QED
    BY <1>2, <1>3, <1>4, <1>5 DEF Next, Monitor, PanelChangesNode,
        PanelChangesUsers, vars

(* Start, nodeInfoMonitor and Node.Close panic only after a bad rule, a     *)
(* certificate or an AddNode that failed, or a DelNode that failed in the   *)
(* core: whatever requests fail and however the panel is edited, the        *)
(* controller never removes a node that is not there.                       *)
THEOREM PanicsNeedFatalFault == Spec => []PanicNeedsFatalFault
<1>1. Init => NodeThere /\ PanicNeedsFatalFault
    BY DEF Init, NodeThere, Running, PanicNeedsFatalFault
<1> QED
    BY <1>1, NodeSyncTypeCorrect, NodeThereStep, PanicStep, PTL DEF Spec

-----------------------------------------------------------------------------
(* compareUserList partitions the change: what is kept, minus what is       *)
(* deleted, plus what is added, is the new list.                            *)
LEMMA CompareUserList ==
    ASSUME NEW old \in UserLists, NEW new \in UserLists
    PROVE  /\ (Listed(old) \ Deleted(old, new)) \cup Added(old, new) = Listed(new)
           /\ \A u \in Uuids : u \notin Added(old, new) \cup Deleted(old, new) =>
                 /\ old[u] = None <=> new[u] = None
                 /\ old[u] # None => old[u].speed = new[u].speed
BY DEF Listed, Deleted, Added, Same, UserLists

(* A new list that is applied leaves core and limiter in step with it. *)
LEMMA UpdateInSync ==
    ASSUME TypeOK, newU \in UserLists, SpeedsAgree(userList),
           UpdateUser(userList, newU), userList' = newU
    PROVE  SpeedsAgree(userList)'
<1> SUFFICES ASSUME NEW u \in Uuids
             PROVE  /\ lim'[u] = None <=> newU[u] = None
                    /\ lim'[u] # None => lim'[u].speed = newU[u].speed
    BY DEF SpeedsAgree
<1>1. CASE u \in Added(userList, newU)
    BY <1>1 DEF UpdateUser
<1>2. CASE u \in Deleted(userList, newU) \ Added(userList, newU)
    BY <1>2 DEF UpdateUser, Deleted, Added, Listed, Same
<1>3. CASE u \notin Deleted(userList, newU) \cup Added(userList, newU)
    BY <1>3, CompareUserList DEF UpdateUser, SpeedsAgree, TypeOK
<1> QED
    BY <1>1, <1>2, <1>3

(* Controller, core and limiter stay in step. *)
LEMMA AppliedStep ==
    TypeOK /\ NodeThere /\ AppliedInSync /\ [Next]_vars => AppliedInSync'
<1> SUFFICES ASSUME TypeOK, NodeThere, AppliedInSync, [Next]_vars,
                    Running', ~Named, faulted' \subseteq NetFaults
             PROVE  /\ coreNode' = info'
                    /\ Serves(userList)'
                    /\ SpeedsAgree(userList)'
    BY SMTT(60) DEF AppliedInSync
<1>1. faulted \subseteq NetFaults
    BY DEF Next, Monitor, PanelChangesNode, PanelChangesUsers, Start, FetchNode,
        FetchUsers, Reload, UpdateUsers, Close, Fails, Works, faultVars, vars
<1>2. Running => /\ coreNode = info /\ coreNode # None
                 /\ Serves(userList) /\ SpeedsAgree(userList)
    BY <1>1 DEF AppliedInSync, NodeThere, FatalFaults, NetFaults
<1>0. keeps' = keeps
    BY DEF Next, Monitor, PanelChangesNode, PanelChangesUsers, Start, FetchNode,
        FetchUsers, Reload, UpdateUsers, Close, envVars, vars
<1>3. CASE UNCHANGED <<info, userList, coreVars>> /\ Running
    BY SMTT(60), <1>2, <1>3, <1>0 DEF coreVars, Serves, Listed, SpeedsAgree
<1>4. CASE Start
    BY <1>4 DEF Start, Running, Serves, Listed, SpeedsAgree
<1>5. CASE Reload
    <2>1. /\ coreNode' = newN /\ info' = newN
          /\ coreUsers' = Kept \cup Listed(userList') /\ lim' = userList'
        BY <1>2, <1>5 DEF Reload, Running, Fails, NetFaults
    <2> QED
        BY <2>1, <1>0 DEF Kept, Serves, Listed, SpeedsAgree
<1>6. CASE UpdateUsers
    <2>1. Running /\ UNCHANGED <<info, coreNode>>
        BY <1>6 DEF UpdateUsers, Running, coreVars
    <2>2. CASE UNCHANGED <<userList, coreVars>>
        BY <1>3, <2>1, <2>2
    <2>3. CASE ~UNCHANGED <<userList, coreVars>>
        <3>1. /\ newU \in UserLists
              /\ coreUsers' = (coreUsers \ Deleted(userList, newU))
                                  \cup Added(userList, newU)
              /\ UpdateUser(userList, newU)
              /\ userList' = newU
            BY <1>6, <2>3 DEF UpdateUsers, Fails, NetFaults, TypeOK
        <3>2. SpeedsAgree(userList)'
            BY <1>2, <2>1, <3>1, UpdateInSync
        <3>3. (Listed(userList) \ Deleted(userList, newU))
                  \cup Added(userList, newU) = Listed(newU)
            BY <3>1, CompareUserList DEF TypeOK
        <3>4. Listed(newU) \subseteq coreUsers' /\ (~keeps => coreUsers' = Listed(newU))
            BY <1>2, <2>1, <3>1, <3>3 DEF Serves
        <3>5. Serves(userList)'
            BY <3>1, <3>4, <1>0 DEF Serves, Listed
        <3> QED
            BY <1>2, <2>1, <3>2, <3>5
    <2> QED
        BY <2>2, <2>3
<1>7. CASE Close
    BY <1>7 DEF Close, Running
<1> QED
    BY <1>3, <1>4, <1>5, <1>6, <1>7 DEF Next, Monitor, PanelChangesNode,
        PanelChangesUsers, FetchNode, FetchUsers, vars, ctlVars, coreVars, Running

(* As long as only requests fail, the core serves the node and the users of *)
(* the controller (sing and xray no others), and the limiter has exactly    *)
(* these users with their speed limits.                                     *)
THEOREM ControllerCoreLimiterAgree == Spec => []AppliedInSync
<1>1. Init => NodeThere /\ AppliedInSync
    BY DEF Init, NodeThere, Running, AppliedInSync
<1> QED
    BY <1>1, NodeSyncTypeCorrect, NodeThereStep, AppliedStep, PTL DEF Spec

-----------------------------------------------------------------------------
(* The limiter learns of users no later than the core. *)
LEMMA LimitedStep == TypeOK /\ ServedAreLimited /\ [Next]_vars => ServedAreLimited'
<1> SUFFICES ASSUME TypeOK, ServedAreLimited, [Next]_vars,
                    Running', ~Named, ~keeps', "addUsers" \notin faulted'
             PROVE  coreUsers' \subseteq Listed(lim)'
    BY SMTT(60) DEF ServedAreLimited
<1>0. ~keeps
    BY DEF Next, Monitor, PanelChangesNode, PanelChangesUsers, Start, FetchNode,
        FetchUsers, Reload, UpdateUsers, Close, envVars, vars
<1>1. "addUsers" \notin faulted
    BY DEF Next, Monitor, PanelChangesNode, PanelChangesUsers, Start, FetchNode,
        FetchUsers, Reload, UpdateUsers, Close, Fails, Works, faultVars, vars
<1>2. Running => coreUsers \subseteq Listed(lim)
    BY <1>1, <1>0 DEF ServedAreLimited
<1>3. CASE UNCHANGED coreVars /\ Running
    BY <1>2, <1>3 DEF coreVars, Listed
<1>4. CASE Start
    BY <1>4 DEF Start, Running, Listed
<1>5. CASE Reload
    BY <1>5, <1>0 DEF Reload, Running, Fails, Kept, Listed
<1>6. CASE UpdateUsers
    <2>1. Running /\ coreUsers \subseteq Listed(lim)
        BY <1>2, <1>6 DEF UpdateUsers, Running
    <2>2. CASE /\ UpdateUser(userList, newU)
               /\ coreUsers' = (coreUsers \ Deleted(userList, newU))
                                   \cup Added(userList, newU)
        BY <2>1, <2>2 DEF UpdateUser, Listed, Added
    <2>3. CASE lim' = lim /\ coreUsers' \subseteq coreUsers
        BY <2>1, <2>3 DEF Listed
    <2> QED
        BY <1>6, <2>2, <2>3 DEF UpdateUsers, Fails, coreVars
<1>7. CASE Close
    BY <1>7 DEF Close, Running
<1> QED
    BY <1>3, <1>4, <1>5, <1>6, <1>7 DEF Next, Monitor, PanelChangesNode,
        PanelChangesUsers, FetchNode, FetchUsers, vars, ctlVars, coreVars, Running

(* The limiter of an unnamed node knows every user sing or xray serves,     *)
(* unless an AddUsers of the core failed.                                   *)
THEOREM LimiterKnowsServedUsers == Spec => []ServedAreLimited
<1>1. Init => ServedAreLimited
    BY DEF Init, ServedAreLimited, Running
<1> QED
    BY <1>1, LimitedStep, NodeSyncTypeCorrect, PTL DEF Spec

-----------------------------------------------------------------------------
(* While every request succeeds, the client has seen the configuration the  *)
(* controller runs, or the other one that it has just returned.             *)
SeenInv ==
    (Running /\ faulted \cap NetFaults = {}) =>
        \/ nodeSeen = info /\ (pc = "idle" \/ newN = None)
        \/ nodeSeen = newN /\ newN \notin {None, info} /\ pc \in {"users", "apply"}

(* GetNodeInfo stores what it compares with, and a reload catches up. *)
LEMMA SeenStep == TypeOK /\ SeenInv /\ [Next]_vars => SeenInv'
<1> SUFFICES ASSUME TypeOK, SeenInv, [Next]_vars, Running', faulted' \cap NetFaults = {}
             PROVE  \/ nodeSeen' = info' /\ (pc' = "idle" \/ newN' = None)
                    \/ /\ nodeSeen' = newN' /\ newN' \notin {None, info'}
                       /\ pc' \in {"users", "apply"}
    BY SMTT(60) DEF SeenInv
<1>1. faulted \cap NetFaults = {}
    BY DEF Next, Monitor, PanelChangesNode, PanelChangesUsers, Start, FetchNode,
        FetchUsers, Reload, UpdateUsers, Close, Fails, Works, faultVars, vars
<1>2. CASE UNCHANGED <<seenVars, pc, ctlVars>>
    BY <1>1, <1>2 DEF SeenInv, Running, seenVars, ctlVars
<1>3. CASE Start
    BY <1>3 DEF Start, Running
<1>4. CASE FetchNode
    BY <1>1, <1>4 DEF FetchNode, SeenInv, Running, Fails, NetFaults, TypeOK
<1>5. CASE FetchUsers
    BY <1>1, <1>5 DEF FetchUsers, SeenInv, Running, Fails, NetFaults
<1>6. CASE Reload
    BY <1>1, <1>6 DEF Reload, SeenInv, Running, seenVars
<1>7. CASE UpdateUsers
    BY <1>1, <1>7 DEF UpdateUsers, SeenInv, Running, seenVars, TypeOK
<1>8. CASE Close
    BY <1>8 DEF Close, Running
<1> QED
    BY <1>2, <1>3, <1>4, <1>5, <1>6, <1>7, <1>8 DEF Next, Monitor,
        PanelChangesNode, PanelChangesUsers, vars

(* As long as no request failed, nodeInfoMonitor takes a node down and up   *)
(* again only for a configuration other than the one it runs.               *)
THEOREM ReloadsOnlyChanges == Spec => ReloadOnlyWhenChanged
<1>1. Init => SeenInv
    BY DEF Init, SeenInv, Running
<1>2. SeenInv => (Reload /\ faulted \cap NetFaults = {} => newN # info)
    BY DEF SeenInv, Reload, Running
<1> QED
    BY <1>1, <1>2, SeenStep, NodeSyncTypeCorrect, PTL DEF Spec, ReloadOnlyWhenChanged
=============================================================================
