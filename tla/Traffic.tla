------------------------------- MODULE Traffic -------------------------------
(***************************************************************************)
(* Traffic accounting of one core: a connection looks up (or creates) the  *)
(* counter of its node and user and adds what it transfers to it; the      *)
(* report task of every node reads and resets the counters and posts them  *)
(* to the panel (core/sing/hook.go, core/sing/user.go, core/xray/user.go,  *)
(* getLink of core/xray/app/dispatcher/default.go, common/counter,         *)
(* reportUserTrafficTask of node/user.go, api/panel/user.go).              *)
(*                                                                         *)
(* A counter holds the SET of packets it has counted, its value being      *)
(* their number: an atomic Add inserts a packet, Load reads the set,       *)
(* Store(0) empties it.  So a packet that is lost or reported twice shows. *)
(* The up and the down counter of a TrafficStorage behave alike and are    *)
(* one set here.  A TrafficCounter or TrafficStorage is named after the    *)
(* connection that created it.                                             *)
(***************************************************************************)
EXTENDS Naturals, FiniteSets

CONSTANTS
    Tags,           \* the nodes of this core
    Users,          \* uuids
    Conns, TagOf, UserOf,   \* connections, their nodes and their users
    Packets, ConnOf,        \* units of traffic and the connections they are on
    None,
    KeyByTag,       \* uidMap is keyed by tag and uuid (xray), or by uuid (sing)
    CloseLinks,     \* DelUsers closes the user's connections (xray)
    MinTraffic,     \* nodeReportMinTrafficBytes: the threshold of each node
    Deliveries,     \* how often a POST can arrive: 0 lost, 2 and more retried
    MaxUserOps      \* bound: users added and deleted

\* A request and its retries: client.SetRetryCount(3).
Attempts == 4

ASSUME ConnAssumption ==
    /\ TagOf \in [Conns -> Tags]
    /\ UserOf \in [Conns -> Users]
    /\ ConnOf \in [Packets -> Conns]
    /\ None \notin Conns \cup Users
ASSUME DeliveryAssumption == Deliveries \subseteq 0..Attempts
ASSUME BoundAssumption == MinTraffic \in [Tags -> Nat] /\ MaxUserOps \in Nat

VARIABLES
    counterOf,  \* hook.counter: tag -> TrafficCounter
    store,      \* TrafficCounter -> user -> TrafficStorage
    bytes,      \* TrafficStorage -> packets counted since the last reset
    cst,        \* where a connection is in its hook
    alive,      \* connections that have not been closed
    storage,    \* the TrafficStorage a connection adds to
    served,     \* the users of each node's inbound
    uidMap,     \* keys for which a uid is known
    rpc,        \* where the report task of each node is
    rctr,       \* the TrafficCounter it ranges over
    rtodo,      \* users Range still has to visit
    rcur,       \* the user whose counter was loaded and not yet reset
    rsnap,      \* what Load returned
    slice,      \* the userTraffic slice
    sent,       \* packets transferred
    posted,     \* in how many calls of ReportUserTraffic each packet was
    reported,   \* how often the panel received it
    discarded,  \* packets of a served user dropped for want of a uid
    userOps

connVars == <<cst, alive, storage>>
counterVars == <<counterOf, store>>
reportVars == <<rpc, rctr, rtodo, rcur, rsnap, slice>>
userVars == <<served, uidMap, userOps>>
vars == <<counterVars, bytes, connVars, userVars, reportVars, sent, posted,
          reported, discarded>>

\* Mutant: every core keys its uid map by uuid alone.
KeyUuidOnly(t, u) == <<u>>

Key(t, u) == IF KeyByTag THEN <<t, u>> ELSE <<u>>

(* All the accounting state is well typed. *)
TypeOK ==
    /\ counterOf \in [Tags -> Conns \cup {None}]
    /\ store \in [Conns -> [Users -> Conns \cup {None}]]
    /\ bytes \in [Conns -> SUBSET Packets]
    /\ cst \in [Conns -> {"new", "creating", "open"}]
    /\ alive \in SUBSET Conns
    /\ storage \in [Conns -> Conns \cup {None}]
    /\ served \in [Tags -> SUBSET Users]
    /\ uidMap \in SUBSET ((Tags \X Users) \cup {<<u>> : u \in Users})
    /\ rpc \in [Tags -> {"idle", "range", "reset", "post"}]
    /\ rctr \in [Tags -> Conns \cup {None}]
    /\ rtodo \in [Tags -> SUBSET Users]
    /\ rcur \in [Tags -> Users \cup {None}]
    /\ rsnap \in [Tags -> SUBSET Packets]
    /\ slice \in [Tags -> [Users -> SUBSET Packets]]
    /\ sent \in SUBSET Packets
    /\ posted \in [Packets -> Nat] /\ reported \in [Packets -> Nat]
    /\ discarded \in SUBSET Packets
    /\ userOps \in 0..MaxUserOps

Init ==
    /\ counterOf = [t \in Tags |-> None]
    /\ store = [k \in Conns |-> [u \in Users |-> None]]
    /\ bytes = [s \in Conns |-> {}]
    /\ cst = [c \in Conns |-> "new"]
    /\ alive = Conns
    /\ storage = [c \in Conns |-> None]
    /\ served = [t \in Tags |-> Users]
    /\ uidMap = {Key(t, u) : t \in Tags, u \in Users}
    /\ rpc = [t \in Tags |-> "idle"]
    /\ rctr = [t \in Tags |-> None]
    /\ rtodo = [t \in Tags |-> {}]
    /\ rcur = [t \in Tags |-> None]
    /\ rsnap = [t \in Tags |-> {}]
    /\ slice = [t \in Tags |-> [u \in Users |-> {}]]
    /\ sent = {}
    /\ posted = [p \in Packets |-> 0] /\ reported = [p \in Packets |-> 0]
    /\ discarded = {}
    /\ userOps = 0

-----------------------------------------------------------------------------
\* Mutant: the counter of the node is shared by its users.
GetCounterShared(c, k) ==
    LET u == CHOOSE v \in Users : TRUE
        s == IF store[k][u] = None THEN c ELSE store[k][u]
    IN  /\ store' = [store EXCEPT ![k] = [@ EXCEPT ![u] = s]]
        /\ storage' = [storage EXCEPT ![c] = s]

\* GetCounter(user) of TrafficCounter k: Load, or LoadOrStore of a new one.
GetCounter(c, k) ==
    LET s == IF store[k][UserOf[c]] = None THEN c ELSE store[k][UserOf[c]]
    IN  /\ store' = [store EXCEPT ![k] = [@ EXCEPT ![UserOf[c]] = s]]
        /\ storage' = [storage EXCEPT ![c] = s]

\* RoutedConnection or getLink, once the limiter has let the connection in
\* (its user may have been deleted since): Load of the node's TrafficCounter.
Attach(c) ==
    /\ cst[c] = "new"
    /\ \/ /\ counterOf[TagOf[c]] # None
          /\ cst' = [cst EXCEPT ![c] = "open"]
          /\ GetCounter(c, counterOf[TagOf[c]])
       \/ /\ counterOf[TagOf[c]] = None
          /\ cst' = [cst EXCEPT ![c] = "creating"]
          /\ UNCHANGED <<store, storage>>
    /\ UNCHANGED <<counterOf, bytes, alive, userVars, reportVars, sent,
                   posted, reported, discarded>>

\* It was missing: Store a new one, whatever is there by now.
CreateCounter(c) ==
    /\ cst[c] = "creating"
    /\ cst' = [cst EXCEPT ![c] = "open"]
    /\ counterOf' = [counterOf EXCEPT ![TagOf[c]] = c]
    /\ GetCounter(c, c)
    /\ UNCHANGED <<bytes, alive, userVars, reportVars, sent, posted,
                   reported, discarded>>

\* ConnCounter.Read, Write and their kin: the transfer and the atomic Add.
Transfer(p) ==
    /\ p \notin sent
    /\ cst[ConnOf[p]] = "open"
    /\ ConnOf[p] \in alive
    /\ sent' = sent \cup {p}
    /\ bytes' = [bytes EXCEPT ![storage[ConnOf[p]]] = @ \cup {p}]
    /\ UNCHANGED <<counterVars, connVars, userVars, reportVars, posted,
                   reported, discarded>>

-----------------------------------------------------------------------------
\* AddUsers and DelUsers hold mapLock, GetUserTrafficSlice its read side.
MapUnlocked == \A t \in Tags : rpc[t] \notin {"range", "reset"}

AddUser(t, u) ==
    /\ userOps < MaxUserOps
    /\ MapUnlocked
    /\ u \notin served[t]
    /\ served' = [served EXCEPT ![t] = @ \cup {u}]
    /\ uidMap' = uidMap \cup {Key(t, u)}
    /\ userOps' = userOps + 1
    /\ UNCHANGED <<counterVars, bytes, connVars, reportVars, sent, posted,
                   reported, discarded>>

\* LinkManager.CloseAll of xray closes the links it finds; a connection whose
\* LinkManager another first connection replaced, or that registers later, goes
\* on.  getLink registers a link before it looks up the counter, so a connection
\* may be closed when it attaches.  sing closes none.
CloseAll(t, u) ==
    \E found \in SUBSET {c \in Conns : CloseLinks /\ TagOf[c] = t /\ UserOf[c] = u} :
        alive' = alive \ found

DelUser(t, u) ==
    /\ userOps < MaxUserOps
    /\ MapUnlocked
    /\ u \in served[t]
    /\ served' = [served EXCEPT ![t] = @ \ {u}]
    /\ uidMap' = uidMap \ {Key(t, u)}
    /\ store' = [k \in Conns |-> IF k = counterOf[t]
                                 THEN [store[k] EXCEPT ![u] = None]
                                 ELSE store[k]]
    /\ CloseAll(t, u)
    /\ userOps' = userOps + 1
    /\ UNCHANGED <<counterOf, bytes, cst, storage, reportVars, sent, posted,
                   reported, discarded>>

-----------------------------------------------------------------------------
\* reportUserTrafficTask calls GetUserTrafficSlice(tag, true).  Range visits
\* every key that is there when it starts; one that is stored later may be
\* missed.
BeginReport(t) ==
    /\ rpc[t] = "idle"
    /\ counterOf[t] # None
    /\ rpc' = [rpc EXCEPT ![t] = "range"]
    /\ rctr' = [rctr EXCEPT ![t] = counterOf[t]]
    /\ rtodo' = [rtodo EXCEPT ![t] =
                    {u \in Users : store[counterOf[t]][u] # None}]
    /\ UNCHANGED <<counterVars, bytes, connVars, userVars, rcur, rsnap, slice,
                   sent,
                      posted, reported, discarded>>

\* Mutant: the threshold is compared off by one.
LoadCounterOffByOne(t, u) ==
    /\ rpc[t] = "range"
    /\ u \in rtodo[t]
    /\ rtodo' = [rtodo EXCEPT ![t] = @ \ {u}]
    /\ LET snap == bytes[store[rctr[t]][u]]
       IN  \/ /\ Cardinality(snap) > MinTraffic[t] + 1
              /\ rcur' = [rcur EXCEPT ![t] = u]
              /\ rsnap' = [rsnap EXCEPT ![t] = snap]
              /\ rpc' = [rpc EXCEPT ![t] = "reset"]
           \/ /\ Cardinality(snap) <= MinTraffic[t] + 1
              /\ UNCHANGED <<rcur, rsnap, rpc>>
    /\ UNCHANGED <<counterVars, bytes, connVars, userVars, rctr, slice, sent,
                   posted, reported, discarded>>

\* Load; a user below the threshold keeps the counter as it is.
LoadCounter(t, u) ==
    /\ rpc[t] = "range"
    /\ u \in rtodo[t]
    /\ rtodo' = [rtodo EXCEPT ![t] = @ \ {u}]
    /\ LET snap == bytes[store[rctr[t]][u]]
       IN  \/ /\ Cardinality(snap) > MinTraffic[t]
              /\ rcur' = [rcur EXCEPT ![t] = u]
              /\ rsnap' = [rsnap EXCEPT ![t] = snap]
              /\ rpc' = [rpc EXCEPT ![t] = "reset"]
           \/ /\ Cardinality(snap) <= MinTraffic[t]
              /\ UNCHANGED <<rcur, rsnap, rpc>>
    /\ UNCHANGED <<counterVars, bytes, connVars, userVars, rctr, slice, sent,
                   posted, reported, discarded>>

\* Mutant: the counters are read without being reset.
ResetCounterNoReset(t) ==
    LET u == rcur[t]
        known == Key(t, u) \in uidMap
    IN  /\ rpc[t] = "reset"
        /\ rpc' = [rpc EXCEPT ![t] = "range"]
        /\ slice' = IF known
                    THEN [slice EXCEPT ![t] = [@ EXCEPT ![u] = rsnap[t]]]
                    ELSE slice
        /\ rcur' = [rcur EXCEPT ![t] = None]
        /\ rsnap' = [rsnap EXCEPT ![t] = {}]
        /\ UNCHANGED <<counterVars, bytes, connVars, userVars, rctr, rtodo,
                       sent,
                      posted, reported, discarded>>

\* Store(0), then the loaded value goes into the slice, or the counter is
\* deleted when no uid is known.
ResetCounter(t) ==
    LET u == rcur[t]
        known == Key(t, u) \in uidMap
    IN  /\ rpc[t] = "reset"
        /\ rpc' = [rpc EXCEPT ![t] = "range"]
        /\ bytes' = [bytes EXCEPT ![store[rctr[t]][u]] = {}]
        /\ slice' = IF known
                    THEN [slice EXCEPT ![t] = [@ EXCEPT ![u] = rsnap[t]]]
                    ELSE slice
        /\ store' = IF known
                    THEN store
                    ELSE [store EXCEPT ![rctr[t]] = [@ EXCEPT ![u] = None]]
        /\ discarded' = IF ~known /\ u \in served[t]
                        THEN discarded \cup rsnap[t]
                        ELSE discarded
        /\ rcur' = [rcur EXCEPT ![t] = None]
        /\ rsnap' = [rsnap EXCEPT ![t] = {}]
        /\ UNCHANGED <<counterOf, connVars, userVars, rctr, rtodo, sent,
                       posted, reported>>

InSlice(t) == UNION {slice[t][u] : u \in Users}

EndRange(t) ==
    /\ rpc[t] = "range"
    /\ rtodo[t] = {}
    /\ rpc' = [rpc EXCEPT ![t] = IF InSlice(t) = {} THEN "idle" ELSE "post"]
    /\ UNCHANGED <<counterVars, bytes, connVars, userVars, rctr, rtodo, rcur,
                   rsnap, slice, sent,
                      posted, reported, discarded>>

\* Mutant: a POST that did not arrive leaves its slice for the next report.
PostKeepsSlice(t, n) ==
    /\ rpc[t] = "post"
    /\ rpc' = [rpc EXCEPT ![t] = "idle"]
    /\ posted' = [p \in Packets |-> IF p \in InSlice(t) THEN posted[p] + 1
                                                        ELSE posted[p]]
    /\ reported' = [p \in Packets |-> IF p \in InSlice(t) THEN reported[p] + n
                                                          ELSE reported[p]]
    /\ slice' = IF n = 0 THEN slice ELSE [slice EXCEPT ![t] = [u \in Users |-> {}]]
    /\ UNCHANGED <<counterVars, bytes, connVars, userVars, rctr, rtodo, rcur,
                   rsnap, sent, discarded>>

\* ReportUserTraffic.  The client sends the request again when its answer does
\* not come in time, so the panel may get it n times.  An error is only logged,
\* the slice is dropped either way.
Post(t, n) ==
    /\ rpc[t] = "post"
    /\ rpc' = [rpc EXCEPT ![t] = "idle"]
    /\ posted' = [p \in Packets |-> IF p \in InSlice(t) THEN posted[p] + 1
                                                        ELSE posted[p]]
    /\ reported' = [p \in Packets |-> IF p \in InSlice(t) THEN reported[p] + n
                                                          ELSE reported[p]]
    /\ slice' = [slice EXCEPT ![t] = [u \in Users |-> {}]]
    /\ UNCHANGED <<counterVars, bytes, connVars, userVars, rctr, rtodo, rcur,
                   rsnap, sent, discarded>>

ReportStep(t) ==
    \/ BeginReport(t)
    \/ \E u \in Users : LoadCounter(t, u)
    \/ ResetCounter(t)
    \/ EndRange(t)
    \/ \E n \in Deliveries : Post(t, n)

Next ==
    \/ \E c \in Conns : Attach(c) \/ CreateCounter(c)
    \/ \E p \in Packets : Transfer(p)
    \/ \E t \in Tags, u \in Users : AddUser(t, u) \/ DelUser(t, u)
    \/ \E t \in Tags : ReportStep(t)

Spec == Init /\ [][Next]_vars

-----------------------------------------------------------------------------
(* No byte is in two reports: the value loaded from a counter gets into at  *)
(* most one, however connections, resets and user changes interleave.  Only *)
(* the retries of that one POST can make the panel receive it again.        *)
NeverReportedTwice ==
    \A p \in Packets : posted[p] <= 1 /\ reported[p] <= Attempts

(* A report attributes traffic to the user and the node it belongs to.      *)
BilledToOwner ==
    \A t \in Tags, u \in Users : \A p \in slice[t][u] :
        TagOf[ConnOf[p]] = t /\ UserOf[ConnOf[p]] = u

\* What is in counters, in slices, and was posted.
Counted == {p \in Packets : \E s \in Conns : p \in bytes[s]}
Taken == {p \in Packets : \E t \in Tags, u \in Users : p \in slice[t][u]}
Billed == {p \in Packets : posted[p] > 0}
Account == [p \in Packets |-> <<TagOf[ConnOf[p]], UserOf[ConnOf[p]]>>]

Books == INSTANCE Ledger WITH Accounts <- Tags \X Users, AccountOf <- Account,
    counted <- Counted, taken <- Taken, billed <- Billed

(* The counters, slices and reports of all nodes keep one ledger: a packet  *)
(* goes from its counter into a slice and from there into a POST, or is     *)
(* lost in a reset, and never comes back; and a reset of GetUserTrafficSlice*)
(* takes the traffic of one user of one node.                               *)
KeepsLedger == Books!Spec

(* GetUserTrafficSlice drops a counter only when its user has left the      *)
(* node: traffic of a user this node serves is not thrown away for want of  *)
(* a uid ("one instance serves several nodes").                             *)
ServedNotDiscarded == discarded = {}

\* p is in the counter of its user that the next report of its node reads,
\* which holds more than the node's threshold; no connection is about to
\* replace the counter, and no reset under way is about to lose p.
Due(p) ==
    LET t == TagOf[ConnOf[p]]
        u == UserOf[ConnOf[p]]
        s == store[counterOf[t]][u]
    IN  /\ counterOf[t] # None
        /\ \A c \in Conns : TagOf[c] = t => cst[c] # "creating"
        /\ s # None
        /\ p \in bytes[s]
        /\ Cardinality(bytes[s]) > MinTraffic[t]
        /\ (rpc[t] = "reset" /\ rctr[t] = counterOf[t] /\ rcur[t] = u)
              => p \in rsnap[t]
Off(p) == UserOf[ConnOf[p]] \notin served[TagOf[ConnOf[p]]]

(* Once all connections are quiet, a user's counter above the threshold is  *)
(* reported, with what earlier reports left in it below the threshold: each *)
(* packet in it gets into a userTraffic slice, unless the user is taken off *)
(* the node.  A packet that a Store(0) under way wipes, or in a counter     *)
(* that was replaced or deleted, is not due.                                *)
LeftoverIsReported ==
    \A p \in Packets : (sent = Packets /\ Due(p)) ~> (p \in Taken \/ Off(p))
=============================================================================
