------------------------------ MODULE NodeSync -------------------------------
(***************************************************************************)
(* How a node controller follows the panel: Controller.Start and Close,    *)
(* nodeInfoMonitor and compareUserList (node/controller.go, node/task.go,  *)
(* node/user.go), with the caching of GetNodeInfo and GetUserList          *)
(* (api/panel).  The panel changes between any two requests, and requests, *)
(* the certificate and the calls of the core can fail.                     *)
(*                                                                         *)
(* The limiter is its UserLimitInfo map, the core its inbound and users.   *)
(* sing and xray forget a node's users with the node; mieru's uidMap       *)
(* survives DelNode, and mieru without a selector in front does not        *)
(* complain about a node it lacks (keeps).  A node configuration is a      *)
(* model value; its hash and its ETag are both itself, and those of an     *)
(* error response are Failed.                                              *)
(***************************************************************************)
EXTENDS Naturals, FiniteSets

CONSTANTS
    Nodes,          \* node configurations
    Uuids,          \* users
    Speeds, Devices,    \* values of speed_limit and device_limit
    None, Failed,
    Named,          \* Options.Name is set
    Faults,         \* what can fail
    MaxFaults,      \* bound: how often something fails
    MaxChanges      \* bound: edits on the panel

\* "delNode": the core fails to remove a node it has; "rule": MustCompile
\* meets a rule that is no regular expression.
FaultKinds == {"node", "body", "users", "delNode", "rule", "cert", "addNode",
               "delUsers", "addUsers"}
ASSUME FaultAssumption == Faults \subseteq FaultKinds
ASSUME NoneAssumption == {None, Failed} \cap (Nodes \cup Uuids) = {} /\ None # Failed

Settings == [speed : Speeds, device : Devices]
ASSUME SettingsAssumption == None \notin Settings

\* A user list maps the users on it to their settings, the others to None.
UserLists == [Uuids -> Settings \cup {None}]
NoUsers == [u \in Uuids |-> None]
Listed(list) == {u \in Uuids : list[u] # None}

VARIABLES
    panelNode, panelUsers,  \* what the panel serves
    keeps,      \* the core is mieru
    nodeSeen,   \* nodeEtag and responseBodyHash
    userSeen,   \* userEtag
    pc,         \* the next step of the controller
    newN, newU, \* the results of the current nodeInfoMonitor
    info, userList, \* the fields of Controller
    coreNode,   \* the inbound of the core, None when it has none
    coreUsers,  \* its users
    lim,        \* UserLimitInfo of the node's limiter
    changes, nfaults, faulted

envVars == <<panelNode, panelUsers, keeps, changes>>
seenVars == <<nodeSeen, userSeen>>
ctlVars == <<newN, newU, info, userList>>
coreVars == <<coreNode, coreUsers, lim>>
faultVars == <<nfaults, faulted>>
vars == <<envVars, seenVars, pc, ctlVars, coreVars, faultVars>>

(* The panel, the caches, the controller, the core and the limiter have     *)
(* their types.                                                             *)
TypeOK ==
    /\ panelNode \in Nodes /\ panelUsers \in UserLists
    /\ keeps \in BOOLEAN
    /\ nodeSeen \in Nodes \cup {None, Failed}
    /\ userSeen \in UserLists \cup {None}
    /\ pc \in {"start", "idle", "users", "apply", "closed", "exited", "crashed"}
    /\ newN \in Nodes \cup {None} /\ newU \in UserLists \cup {None}
    /\ info \in Nodes \cup {None} /\ userList \in UserLists
    /\ coreNode \in Nodes \cup {None} /\ coreUsers \in SUBSET Uuids
    /\ lim \in UserLists
    /\ changes \in Nat /\ nfaults \in Nat /\ faulted \in SUBSET FaultKinds

Init ==
    /\ panelNode \in Nodes /\ panelUsers \in UserLists
    /\ keeps \in BOOLEAN
    /\ nodeSeen = None /\ userSeen = None
    /\ pc = "start"
    /\ newN = None /\ newU = None
    /\ info = None /\ userList = NoUsers
    /\ coreNode = None /\ coreUsers = {} /\ lim = NoUsers
    /\ changes = 0 /\ nfaults = 0 /\ faulted = {}

Fails(f) ==
    /\ f \in Faults /\ nfaults < MaxFaults
    /\ nfaults' = nfaults + 1
    /\ faulted' = faulted \cup {f}
Works == UNCHANGED faultVars

-----------------------------------------------------------------------------
\* The administrator edits the node or its users.
PanelChangesNode ==
    /\ changes < MaxChanges /\ changes' = changes + 1
    /\ panelNode' \in Nodes \ {panelNode}
    /\ UNCHANGED <<panelUsers, keeps, seenVars, pc, ctlVars, coreVars, faultVars>>

PanelChangesUsers ==
    /\ changes < MaxChanges /\ changes' = changes + 1
    /\ panelUsers' \in UserLists \ {panelUsers}
    /\ UNCHANGED <<panelNode, keeps, seenVars, pc, ctlVars, coreVars, faultVars>>

\* Controller.Start: any error ends the process, a bad rule with a panic.
Start ==
    /\ pc = "start"
    /\ \/ /\ Works
          /\ pc' = "idle"
          /\ nodeSeen' = panelNode /\ userSeen' = panelUsers
          /\ info' = panelNode /\ userList' = panelUsers
          /\ coreNode' = panelNode /\ coreUsers' = Listed(panelUsers)
          /\ lim' = panelUsers
       \/ /\ \E f \in Faults \ {"delNode", "rule", "delUsers"} : Fails(f)
          /\ pc' = "exited"
          /\ UNCHANGED <<seenVars, info, userList, coreVars>>
       \/ /\ Fails("rule")
          /\ pc' = "crashed"
          /\ UNCHANGED <<seenVars, info, userList, coreVars>>
    /\ UNCHANGED <<envVars, newN, newU>>

\* Mutant: the body's hash is not compared with the last one.
FetchNodeAlways ==
    /\ pc = "idle"
    /\ Works
    /\ nodeSeen' = panelNode
    /\ newN' = panelNode
    /\ pc' = "users"
    /\ UNCHANGED <<envVars, userSeen, newU, info, userList, coreVars>>

\* GetNodeInfo: 304 or an unchanged body is nil.  The hash and the ETag are
\* stored before the response is checked, those of an error too; the same
\* error again passes for an unchanged body.  A body that breaks off or does
\* not decode came with the configuration's ETag, so the next answer is 304.
FetchNode ==
    /\ pc = "idle"
    /\ \/ /\ Works
          /\ nodeSeen' = panelNode
          /\ newN' = IF nodeSeen = panelNode THEN None ELSE panelNode
          /\ pc' = "users"
       \/ /\ Fails("node")
          /\ nodeSeen' = Failed
          /\ newN' = None
          /\ pc' = IF nodeSeen = Failed THEN "users" ELSE "idle"
       \/ /\ nodeSeen # panelNode /\ Fails("body")
          /\ nodeSeen' = panelNode
          /\ newN' = None
          /\ pc' = "idle"
    /\ UNCHANGED <<envVars, userSeen, newU, info, userList, coreVars>>

\* Mutant: the ETag is stored before the response is checked.
FetchUsersTagFirst ==
    /\ pc = "users"
    /\ userSeen' = panelUsers
    /\ \/ /\ Works
          /\ newU' = IF userSeen = panelUsers THEN None ELSE panelUsers
          /\ pc' = "apply"
       \/ /\ Fails("users")
          /\ newU' = None
          /\ pc' = "idle"
    /\ UNCHANGED <<envVars, nodeSeen, newN, info, userList, coreVars>>

\* GetUserList stores the ETag last.  GetUserAlive, which follows, never
\* fails.
FetchUsers ==
    /\ pc = "users"
    /\ \/ /\ Works
          /\ userSeen' = panelUsers
          /\ newU' = IF userSeen = panelUsers THEN None ELSE panelUsers
          /\ pc' = "apply"
       \/ /\ Fails("users")
          /\ newU' = None
          /\ pc' = "idle"
          /\ UNCHANGED userSeen
    /\ UNCHANGED <<envVars, nodeSeen, newN, info, userList, coreVars>>

-----------------------------------------------------------------------------
\* Mutant: nodeInfoMonitor returns before AddNode.
ReloadLeavesDown ==
    /\ pc = "apply" /\ newN # None
    /\ info' = newN
    /\ userList' = IF newU # None THEN newU ELSE userList
    /\ lim' = IF Named THEN lim ELSE userList'
    /\ pc' = IF coreNode = None THEN "crashed" ELSE "idle"
    /\ coreNode' = None /\ coreUsers' = {}
    /\ Works
    /\ UNCHANGED <<envVars, seenVars, newN, newU>>

\* The users the core still has after DelNode.
Kept == IF keeps THEN coreUsers ELSE {}

\* nodeInfoMonitor with a new node.  A DelNode that fails, for want of the
\* node or in the core, and a failed AddNode are logged with Panic, and
\* MustCompile panics on a bad rule; a failed requestCert leaves the node
\* removed, a failed AddUsers leaves some users out.  A named node keeps its
\* limiter.
Reload ==
    /\ pc = "apply" /\ newN # None
    /\ info' = newN
    /\ userList' = IF newU # None THEN newU ELSE userList
    /\ \/ /\ coreNode = None
          /\ pc' = "crashed"
          /\ Works /\ UNCHANGED coreVars
       \/ /\ coreNode # None /\ Fails("delNode")
          /\ pc' = "crashed"
          /\ coreNode' \in {coreNode, None} /\ UNCHANGED <<coreUsers, lim>>
       \/ /\ coreNode # None \/ keeps
          /\ lim' = IF Named THEN lim ELSE userList'
          /\ \/ /\ Works /\ pc' = "idle"
                /\ coreNode' = newN /\ coreUsers' = Kept \cup Listed(userList')
             \/ /\ Fails("addUsers") /\ pc' = "idle"
                /\ coreNode' = newN
                /\ \E done \in SUBSET Listed(userList') : coreUsers' = Kept \cup done
             \/ /\ Fails("cert") /\ pc' = "idle"
                /\ coreNode' = None /\ coreUsers' = Kept
             \/ /\ Fails("rule") \/ Fails("addNode")
                /\ pc' = "crashed"
                /\ coreNode' = None /\ coreUsers' = Kept
    /\ UNCHANGED <<envVars, seenVars, newN, newU>>

\* compareUserList compares uuid and speed limit.
Same(old, new, u) ==
    old[u] # None /\ new[u] # None /\ old[u].speed = new[u].speed
Deleted(old, new) == {u \in Listed(old) : ~Same(old, new, u)}
\* Mutant: users whose speed limit changed are deleted and not added.
AddedNewOnly(old, new) == Listed(new) \ Listed(old)
Added(old, new) == {u \in Listed(new) : ~Same(old, new, u)}

\* Mutant: the limiter is updated only with the users that were deleted.
UpdateUserDeletes(old, new) ==
    lim' = [u \in Uuids |-> IF u \in Deleted(old, new) THEN None ELSE lim[u]]

\* limiter.UpdateUser: delete, then store.
UpdateUser(old, new) ==
    lim' = [u \in Uuids |-> IF u \in Added(old, new) THEN new[u]
                            ELSE IF u \in Deleted(old, new) THEN None
                            ELSE lim[u]]

\* nodeInfoMonitor without a new node.  An empty or unchanged list changes
\* nothing.  DelUsers and AddUsers fail when the core lacks the node (mieru
\* alone does not notice), and a failure returns with some of the users done.
UpdateUsers ==
    LET deleted == Deleted(userList, newU)
        added == Added(userList, newU)
    IN  /\ pc = "apply" /\ newN = None
        /\ pc' = "idle"
        /\ \/ /\ newU \in {None, NoUsers}
              /\ Works /\ UNCHANGED <<userList, coreVars>>
           \/ /\ newU \notin {None, NoUsers}
              /\ coreNode # None \/ keeps \/ deleted \cup added = {}
              /\ coreUsers' = (coreUsers \ deleted) \cup added
              /\ UpdateUser(userList, newU)
              /\ userList' = newU
              /\ Works /\ UNCHANGED coreNode
           \/ /\ newU \notin {None, NoUsers}
              /\ coreNode = None /\ deleted \cup added # {}
              /\ Works /\ UNCHANGED <<userList, coreVars>>
           \/ /\ newU \notin {None, NoUsers}
              /\ coreNode # None /\ deleted # {} /\ Fails("delUsers")
              /\ \E done \in SUBSET deleted : coreUsers' = coreUsers \ done
              /\ UNCHANGED <<userList, coreNode, lim>>
           \/ /\ newU \notin {None, NoUsers}
              /\ coreNode # None /\ added # {} /\ Fails("addUsers")
              /\ \E done \in SUBSET added :
                    coreUsers' = (coreUsers \ deleted) \cup done
              /\ UNCHANGED <<userList, coreNode, lim>>
        /\ UNCHANGED <<envVars, seenVars, newN, newU, info>>

\* Controller.Close, which waits for a running nodeInfoMonitor; Node.Close
\* panics when DelNode fails.
Close ==
    /\ pc = "idle"
    /\ lim' = NoUsers
    /\ coreNode' = None /\ coreUsers' = Kept
    /\ \/ (coreNode # None \/ keeps) /\ Works /\ pc' = "closed"
       \/ coreNode = None /\ Works /\ pc' = "crashed"
       \/ coreNode # None /\ Fails("delNode") /\ pc' = "crashed"
    /\ UNCHANGED <<envVars, seenVars, ctlVars>>

Monitor == FetchNode \/ FetchUsers \/ Reload \/ UpdateUsers

Next == PanelChangesNode \/ PanelChangesUsers \/ Start \/ Monitor \/ Close

\* The monitor's task keeps firing (MonitorKeepsRunning of NodeTasks).
Spec == Init /\ [][Next]_vars /\ WF_vars(Monitor)

-----------------------------------------------------------------------------
Running == pc \in {"idle", "users", "apply"}
NetFaults == {"node", "body", "users"}
SpeedsAgree(list) ==
    \A u \in Uuids : /\ lim[u] = None <=> list[u] = None
                     /\ lim[u] # None => lim[u].speed = list[u].speed

\* What the core makes of a user list: sing and xray serve exactly its users,
\* mieru may serve more.
Serves(list) ==
    /\ Listed(list) \subseteq coreUsers
    /\ ~keeps => coreUsers = Listed(list)

(* Whatever requests fail, the core runs the node and the users the         *)
(* controller believes it runs, and the limiter has exactly these users     *)
(* with their speed limits: compareUserList misses and repeats nothing.     *)
(* For mieru the core may have more users, since DelNode forgets the users  *)
(* of sing and xray and leaves mieru's uidMap.                              *)
AppliedInSync ==
    (Running /\ ~Named /\ faulted \subseteq NetFaults) =>
        /\ coreNode = info
        /\ Serves(userList)
        /\ SpeedsAgree(userList)

(* A user sing or xray serves is known to the limiter, which rejects        *)
(* strangers, even after a failed certificate or DelUsers ("Update          *)
(* limiter").  mieru may serve a user the list dropped in the same poll as  *)
(* the node changed, whom the limiter then rejects.  A named node is left   *)
(* out: its limiter survives a reload and is not given the new list.        *)
ServedAreLimited ==
    (Running /\ ~Named /\ ~keeps /\ "addUsers" \notin faulted) =>
        coreUsers \subseteq Listed(lim)

(* The process panics only after a reload lost its certificate, met a bad   *)
(* rule or could not add its node, or when the core itself cannot remove a  *)
(* node it has: no failing request, no failed DelUsers or AddUsers and no   *)
(* order of edits makes the controller remove a node that is not there.     *)
FatalFaults == {"delNode", "rule", "cert", "addNode"}
PanicNeedsFatalFault == pc = "crashed" => faulted \cap FatalFaults # {}

(* Once requests succeed again and the panel is left alone, the users of    *)
(* the core and their speed limits become those of the panel; mieru may     *)
(* keep users beside them in the uidMap that DelNode leaves.  An empty list *)
(* is left out: nodeInfoMonitor never applies one.                          *)
UsersConverge ==
    <>[](Running /\ faulted \subseteq NetFaults) =>
        <>[](panelUsers # NoUsers => Serves(panelUsers) /\ SpeedsAgree(panelUsers))

(* Once the panel is left alone, the core runs the panel's node ("Node      *)
(* changed, reload"), although DelUsers, AddUsers and requests for the node *)
(* may have failed, the latter before the node's configuration arrived.     *)
NodeConverges ==
    <>[](Running /\ faulted \cap {"body", "users", "cert", "addNode"} = {}) =>
        <>[](coreNode = panelNode)

(* A node is removed and added again, which cuts its connections, only when *)
(* the panel published another configuration ("nodeInfo changed"), as long  *)
(* as no request failed.                                                    *)
ReloadOnlyWhenChanged ==
    [][(Reload /\ faulted \cap NetFaults = {}) => newN # info]_vars

(* The core ends up running the panel's node ("Node changed, reload")       *)
(* whatever requests failed on the way.                                     *)
NodeAlwaysConverges == <>[]Running => <>[](coreNode = panelNode)
=============================================================================
