---------------------------- MODULE LimiterProofs ----------------------------
(***************************************************************************)
(* For any users, addresses and connections: what determineSpeedLimit      *)
(* returns, that a rejected connection leaves no trace, and that the       *)
(* connections of a user share one bucket of the right rate, in whatever   *)
(* order checks, updates and reports interleave.                           *)
(***************************************************************************)
EXTENDS Limiter, TLAPS

USE ConnAssumption, LimitAssumption, SettingsAssumption

(* determineSpeedLimit "returns the minimum non-zero rate" (dynamic.go). *)
THEOREM DetermineSpeedLimitIsLeast ==
    ASSUME NEW a \in Nat, NEW b \in Nat
    PROVE  determineSpeedLimit(a, b) = LeastLimit({a, b})
<1>1. CASE a = 0 /\ b = 0
    BY ZenonT(60), <1>1 DEF determineSpeedLimit, LeastLimit
<1>2. CASE a # 0 \/ b # 0
    <2> DEFINE S == {a, b} \ {0}
               x == determineSpeedLimit(a, b)
    <2>1. x \in S /\ \A y \in S : x <= y
        BY <1>2 DEF determineSpeedLimit
    <2>2. \A z \in S : (\A y \in S : z <= y) => z = x
        BY <2>1
    <2>3. LeastLimit({a, b}) = CHOOSE z \in S : \A y \in S : z <= y
        BY ZenonT(60), <1>2 DEF LeastLimit
    <2> HIDE DEF S, x
    <2>4. (CHOOSE z \in S : \A y \in S : z <= y) = x
        BY ZenonT(60), <2>1, <2>2
    <2> QED
        BY ZenonT(60), <2>3, <2>4 DEF x
<1> QED
    BY ZenonT(60), <1>1, <1>2

-----------------------------------------------------------------------------
Started(c) == cpc[c] \notin {"new", "track", "rejected"}

(* Ip maps belong to one user, and every address in a map that is in use is *)
(* there for a connection that works on this very map.                      *)
TraceInv ==
    /\ \A u \in Users : onlineIP[u] # None => UserOf[onlineIP[u]] = u
    /\ \A c \in Conns : ipMap[c] # None => UserOf[ipMap[c]] = UserOf[c]
    /\ \A u \in Users : onlineIP[u] # None =>
          \A i \in ips[onlineIP[u]] :
              \E c \in Conns : /\ ipMap[c] = onlineIP[u] /\ IpOf[c] = i
                              /\ UserOf[c] = u /\ Started(c)

(* A connection that is past UserLimitInfo.Load has loaded its limits. *)
Loaded == \A c \in Conns : cpc[c] \notin {"new", "rejected"} => snap[c] \in Settings

(* Every step of CheckLimit keeps the state well typed. *)
LEMMA CheckType ==
    ASSUME TypeOK, Loaded, NEW c \in Conns, CheckLimit(c) PROVE TypeOK' /\ Loaded'
<1>1. Loaded'
    <2>1. cpc \in [Conns -> CheckSteps] /\ snap \in [Conns -> Settings \cup {None}]
          /\ userLimit \in [Users -> Settings \cup {None}]
        BY ZenonT(60) DEF TypeOK
    <2>2. CASE LoadLimit(c)
        <3>1. /\ \/ snap' = snap /\ cpc' = [cpc EXCEPT ![c] = "rejected"]
                 \/ /\ userLimit[UserOf[c]] # None
                    /\ snap' = [snap EXCEPT ![c] = userLimit[UserOf[c]]]
                    /\ cpc' = [cpc EXCEPT ![c] = cpc'[c]]
            BY ZenonT(60), <2>1, <2>2 DEF LoadLimit, Goto
        <3> QED
            BY ZenonT(60), <2>1, <3>1 DEF Loaded
    <2>3. CASE TrackDevice(c) \/ InsertIp(c) \/ CheckOldOnline(c) \/ DeleteOldOnline(c)
               \/ UndoOnline(c) \/ TakeBucket(c) \/ StoreBucket(c)
        <3>1. snap' = snap /\ \E s : cpc' = [cpc EXCEPT ![c] = s]
            BY ZenonT(60), <2>3 DEF TrackDevice, InsertIp, CheckOldOnline, DeleteOldOnline,
                UndoOnline, TakeBucket, StoreBucket, Goto, connVars, loadVars
        <3>2. cpc[c] \notin {"new", "rejected"}
            BY ZenonT(60), <2>3 DEF TrackDevice, InsertIp, CheckOldOnline, DeleteOldOnline,
                UndoOnline, TakeBucket, StoreBucket
        <3> QED
            BY ZenonT(60), <2>1, <3>1, <3>2 DEF Loaded
    <2> QED
        BY ZenonT(60), <2>2, <2>3 DEF CheckLimit
<1>2. TypeOK'
    <2> USE DEF TypeOK, Goto, CheckSteps
    <2>1. CASE LoadLimit(c)
        BY SMTT(60), <2>1 DEF LoadLimit, limitVars, deviceVars, bucketVars, updateVars,
            reportVars, aliveVars
    <2>2. CASE TrackDevice(c)
        BY <2>2 DEF TrackDevice, limitVars, bucketVars, updateVars, reportVars,
            aliveVars
    <2>3. CASE InsertIp(c)
        <3>1. ips' \in [Conns -> SUBSET Ips]
            <4>1. ips \in [Conns -> SUBSET Ips] /\ IpOf[c] \in Ips
                OBVIOUS
            <4>2. ips' = [ips EXCEPT ![ipMap[c]] = ips[ipMap[c]] \cup {IpOf[c]}]
                BY ZenonT(60), <2>3 DEF InsertIp
            <4>3. \A m \in Conns : ips'[m] \in {ips[m], ips[m] \cup {IpOf[c]}}
                BY ZenonT(60), <4>1, <4>2
            <4>4. ips' = [m \in Conns |-> ips'[m]]
                BY ZenonT(60), <4>1, <4>2
            <4> HIDE DEF TypeOK
            <4> QED
                BY <4>1, <4>3, <4>4
        <3>2. cpc' \in [Conns -> CheckSteps]
            BY ZenonT(60), <2>3 DEF InsertIp
        <3> QED
            BY ZenonT(60), <2>3, <3>1, <3>2 DEF InsertIp, limitVars, bucketVars, connVars,
                loadVars, updateVars, reportVars, aliveVars
    <2>4. CASE CheckOldOnline(c)
        BY ZenonT(60), <2>4 DEF CheckOldOnline, limitVars, deviceVars, bucketVars, connVars,
            loadVars, updateVars, reportVars, aliveVars
    <2>5. CASE DeleteOldOnline(c)
        BY ZenonT(60), <2>5 DEF DeleteOldOnline, limitVars, bucketVars, connVars, loadVars,
            updateVars, reportVars, aliveVars
    <2>6. CASE UndoOnline(c)
        BY <2>6 DEF UndoOnline, limitVars, bucketVars, connVars, loadVars,
            updateVars, reportVars, aliveVars
    <2>7. CASE TakeBucket(c)
        <3>1. snap[c].speed \in Nat
            BY ZenonT(60), <2>7 DEF Loaded, TakeBucket, Settings
        <3>2. Rate(c) \in Nat
            BY ZenonT(60), <3>1 DEF Rate, determineSpeedLimit
        <3>3. /\ bucketOf' \in [Users -> Conns \cup {None}] /\ rate' \in [Conns -> Nat]
              /\ cpc' \in [Conns -> CheckSteps] /\ bucket' \in [Conns -> Conns \cup {None}]
            <4>1. CASE Rate(c) = 0
                BY <2>7, <3>2, <4>1 DEF TakeBucket, bucketVars
            <4>2. CASE Rate(c) > 0 /\ bucketOf[UserOf[c]] # None
                BY SMTT(60), <2>7, <4>2 DEF TakeBucket
            <4>3. CASE Rate(c) > 0 /\ bucketOf[UserOf[c]] = None
                BY SMTT(60), <2>7, <3>2, <4>3 DEF TakeBucket
            <4> QED
                BY <3>2, <4>1, <4>2, <4>3
        <3>4. UNCHANGED <<limitVars, deviceVars, connVars, updateVars, reportVars, aliveVars>>
            BY ZenonT(60), <2>7 DEF TakeBucket
        <3> QED
            BY ZenonT(60), <3>3, <3>4 DEF limitVars, deviceVars, connVars, loadVars, updateVars,
                reportVars, aliveVars
    <2>8. CASE StoreBucket(c)
        BY ZenonT(60), <2>8 DEF StoreBucket, limitVars, deviceVars, connVars, loadVars,
            updateVars, reportVars, aliveVars
    <2> QED
        BY ZenonT(60), <2>1, <2>2, <2>3, <2>4, <2>5, <2>6, <2>7, <2>8 DEF CheckLimit
<1> QED
    BY ZenonT(60), <1>1, <1>2

(* So do the steps of UpdateUser, of the new AliveList and of               *)
(* GetOnlineDevice.                                                         *)
LEMMA OtherType ==
    ASSUME TypeOK, Loaded, [Next]_vars, ~(\E c \in Conns : CheckLimit(c))
    PROVE  TypeOK' /\ Loaded'
<1> USE DEF TypeOK, UpdateSteps, limitVars, deviceVars, bucketVars, connVars,
        loadVars, updateVars, reportVars, aliveVars
<1>1. Loaded'
    BY ZenonT(60) DEF Loaded, Next, BeginUpdate, DeleteOnline, DeleteSpeed, DeleteAlive,
        AddUser, SetAlive, BeginReport, RangeUser, DropOnline, EndReport, vars
<1>2. CASE \E u \in Users, new \in Settings \cup {None} : BeginUpdate(u, new)
    BY <1>1, <1>2 DEF BeginUpdate
<1>3. CASE DeleteOnline \/ DeleteSpeed
    BY ZenonT(60), <1>1, <1>3 DEF DeleteOnline, DeleteSpeed
<1>4. CASE DeleteAlive \/ SetAlive
    BY <1>1, <1>4 DEF DeleteAlive, SetAlive
<1>5. CASE AddUser
    <2>1. userLimit' \in [Users -> Settings \cup {None}]
        BY ZenonT(60), <1>5 DEF AddUser
    <2>2. gen' \in [Users -> Nat]
        <3>1. gen' = [gen EXCEPT ![ucur] = gen[ucur] + 1] /\ gen \in [Users -> Nat]
            BY ZenonT(60), <1>5 DEF AddUser
        <3>2. \A u \in Users : gen'[u] \in {gen[u], gen[u] + 1}
            BY ZenonT(60), <3>1
        <3>3. gen' = [u \in Users |-> gen'[u]]
            BY ZenonT(60), <3>1
        <3>4. \A u \in Users : gen'[u] \in Nat
            BY <3>1, <3>2
        <3> HIDE DEF TypeOK
        <3> QED
            BY ZenonT(60), <3>3, <3>4
    <2> QED
        BY ZenonT(60), <1>1, <1>5, <2>1, <2>2 DEF AddUser
<1>6. CASE BeginReport \/ DropOnline \/ EndReport
    BY <1>1, <1>6 DEF BeginReport, DropOnline, EndReport
<1>7. CASE \E u \in Users : RangeUser(u)
    BY <1>1, <1>7 DEF RangeUser
<1>8. CASE UNCHANGED vars
    BY ZenonT(60), <1>1, <1>8 DEF vars
<1> QED
    BY ZenonT(60), <1>2, <1>3, <1>4, <1>5, <1>6, <1>7, <1>8 DEF Next

(* The maps of the limiter are always well typed. *)
THEOREM LimiterTypeCorrect == Spec => [](TypeOK /\ Loaded)
<1>1. Init => TypeOK /\ Loaded
    BY DEF Init, TypeOK, Loaded, CheckSteps, UpdateSteps
<1>2. TypeOK /\ Loaded /\ [Next]_vars => TypeOK' /\ Loaded'
    BY ZenonT(60), CheckType, OtherType
<1> QED
    BY <1>1, <1>2, PTL DEF Spec

-----------------------------------------------------------------------------
(* Checks keep the addresses in use and the connections they are there for  *)
(* together.                                                                *)
LEMMA CheckTrace ==
    ASSUME TypeOK, TraceInv, NEW c \in Conns, CheckLimit(c) PROVE TraceInv'
<1> USE DEF TypeOK, TraceInv, Goto, Started
<1>1. CASE LoadLimit(c)
    <2>1. /\ cpc[c] = "new" /\ UNCHANGED <<onlineIP, ips, ipMap>>
          /\ \A d \in Conns \ {c} : cpc'[d] = cpc[d]
        BY <1>1 DEF LoadLimit, deviceVars
    <2>2. \A d \in Conns : Started(d) => Started(d)'
        BY ZenonT(60), <2>1
    <2> HIDE DEF TypeOK, Started
    <2> QED
        BY SMTT(60), <2>1, <2>2
<1>2. CASE TrackDevice(c)
    <2> DEFINE m == IF onlineIP[UserOf[c]] = None THEN c ELSE onlineIP[UserOf[c]]
    <2>1. m \in Conns /\ UserOf[m] = UserOf[c]
        OBVIOUS
    <2>2. /\ onlineIP' = [onlineIP EXCEPT ![UserOf[c]] = m]
          /\ ipMap' = [ipMap EXCEPT ![c] = m]
          /\ cpc[c] = "track"
          /\ cpc' = [cpc EXCEPT ![c] = IF onlineIP[UserOf[c]] = None
                                       THEN "oldFirst" ELSE "insert"]
          /\ ips' = IF onlineIP[UserOf[c]] = None THEN [ips EXCEPT ![c] = {IpOf[c]}]
                                                  ELSE ips
        BY ZenonT(60), <1>2 DEF TrackDevice
    <2>3. CASE onlineIP[UserOf[c]] = None
        <3>1. m = c
            BY ZenonT(60), <2>3
        <3>2. \A u \in Users \ {UserOf[c]} : /\ onlineIP'[u] = onlineIP[u]
                                            /\ onlineIP[u] # c
            BY <2>2
        <3> HIDE DEF m
        <3> QED
            BY <2>1, <2>2, <2>3, <3>1, <3>2
    <2>4. CASE onlineIP[UserOf[c]] # None
        <3>1. onlineIP' = onlineIP /\ ips' = ips
            BY SMTT(60), <2>2, <2>4
        <3> HIDE DEF m
        <3> QED
            BY <2>1, <2>2, <3>1
    <2> QED
        BY ZenonT(60), <2>3, <2>4
<1>3. CASE InsertIp(c)
    <2>1. /\ cpc[c] = "insert" /\ UNCHANGED <<onlineIP, ipMap>>
          /\ ips' = [ips EXCEPT ![ipMap[c]] = @ \cup {IpOf[c]}]
          /\ \A d \in Conns : Started(d) => Started(d)'
          /\ Started(c)'
        BY SMTT(60), <1>3 DEF InsertIp, connVars, loadVars
    <2> QED
        BY SMTT(60), <2>1
<1>4. CASE CheckOldOnline(c) \/ DeleteOldOnline(c) \/ TakeBucket(c) \/ StoreBucket(c)
    <2>1. /\ UNCHANGED <<onlineIP, ipMap, ips>>
          /\ \A d \in Conns : Started(d) => Started(d)'
        BY SMTT(60), <1>4 DEF CheckOldOnline, DeleteOldOnline, TakeBucket, StoreBucket,
            deviceVars, connVars, loadVars
    <2> QED
        BY SMTT(60), <2>1
<1>5. CASE UndoOnline(c)
    <2>1. /\ UNCHANGED ipMap
          /\ \A d \in Conns \ {c} : Started(d) => Started(d)'
        BY SMTT(60), <1>5 DEF UndoOnline, connVars, loadVars
    <2>2. CASE ips' = [ips EXCEPT ![ipMap[c]] = @ \ {IpOf[c]}] /\ onlineIP' = onlineIP
        BY SMTT(60), <2>1, <2>2
    <2>3. CASE onlineIP' = [onlineIP EXCEPT ![UserOf[c]] = None] /\ ips' = ips
        <3>1. \A u \in Users : onlineIP'[u] # None =>
                  u # UserOf[c] /\ onlineIP'[u] = onlineIP[u]
            BY SMTT(60), <2>3
        <3>2. \A d \in Conns : UserOf[d] # UserOf[c] => (Started(d) => Started(d)')
            BY ZenonT(60), <2>1
        <3> HIDE DEF Started, TypeOK
        <3> QED
            BY <2>1, <2>3, <3>1, <3>2
    <2> QED
        BY ZenonT(60), <1>5, <2>2, <2>3 DEF UndoOnline
<1> QED
    BY ZenonT(60), <1>1, <1>2, <1>3, <1>4, <1>5 DEF CheckLimit

(* Updates and reports only ever drop whole maps. *)
LEMMA OtherTrace ==
    ASSUME TypeOK, TraceInv, [Next]_vars, ~(\E c \in Conns : CheckLimit(c))
    PROVE  TraceInv'
<1>1. /\ UNCHANGED <<ips, ipMap, cpc>>
      /\ \A u \in Users : onlineIP'[u] \in {onlineIP[u], None}
    BY ZenonT(60) DEF Next, BeginUpdate, DeleteOnline, DeleteSpeed, DeleteAlive, AddUser,
        SetAlive, BeginReport, RangeUser, DropOnline, EndReport, vars, TypeOK,
        deviceVars, connVars, loadVars
<1> QED
    BY SMTT(60), <1>1 DEF TraceInv, Started

(* For any interleaving of checks, updates and reports, an address counts   *)
(* as online only for a connection that was admitted or is being checked.   *)
THEOREM RejectedLeavesNoTrace == Spec => []OnlineWasAdmitted
<1>1. Init => TraceInv
    BY DEF Init, TraceInv
<1>2. TypeOK /\ TraceInv /\ [Next]_vars => TraceInv'
    BY ZenonT(60), CheckTrace, OtherTrace
<1>3. TraceInv => OnlineWasAdmitted
    <2> SUFFICES ASSUME TraceInv, NEW u \in Users, onlineIP[u] # None,
                        NEW i \in ips[onlineIP[u]]
                 PROVE  \E c \in Conns : /\ UserOf[c] = u /\ IpOf[c] = i
                                        /\ cpc[c] \notin {"new", "rejected"}
        BY ZenonT(60) DEF OnlineWasAdmitted
    <2>1. PICK c \in Conns : IpOf[c] = i /\ UserOf[c] = u /\ Started(c)
        BY ZenonT(60) DEF TraceInv
    <2> QED
        BY ZenonT(60), <2>1 DEF Started
<1> QED
    BY <1>1, <1>2, <1>3, LimiterTypeCorrect, PTL DEF Spec

-----------------------------------------------------------------------------
(* c is past UserLimitInfo.Load, and the limits it loaded are still those   *)
(* of its user.                                                             *)
Fresh(c) ==
    /\ cpc[c] \notin {"new", "rejected"}
    /\ userLimit[UserOf[c]] # None
    /\ began[c] = gen[UserOf[c]]

(* Limits are loaded from a known user only, and each update outdates them. *)
GenInv ==
    /\ \A c \in Conns : cpc[c] \notin {"new", "rejected"} =>
          /\ began[c] <= gen[UserOf[c]]
          /\ userLimit[UserOf[c]] = None => began[c] < gen[UserOf[c]]
    /\ upc # "idle" => ucur \in Users /\ userLimit[ucur] = None

(* What c holds of the bucket of its user. *)
Holds(c) ==
    \/ bucket[c] = None /\ cpc[c] \notin {"store", "admitted"}
    \/ bucket[c] = None /\ Rate(c) = 0 /\ cpc[c] = "admitted"
    \/ /\ bucket[c] # None /\ bucket[c] = bucketOf[UserOf[c]] /\ Rate(c) > 0
       /\ cpc[c] \in {"store", "admitted"}
       /\ cpc[c] = "store" => bucket[c] = c

(* The bucket of a user never updated during a check: it is made for the    *)
(* limits the user has, it goes with them, and it is the one every check    *)
(* under these limits was given.                                            *)
BucketInv(u) ==
    /\ bucketOf[u] # None =>
          /\ UserOf[bucketOf[u]] = u
          /\ cpc[bucketOf[u]] \in {"store", "admitted"}
          /\ userLimit[u] # None =>
                rate[bucketOf[u]] = determineSpeedLimit(NodeLimit, userLimit[u].speed)
    /\ userLimit[u] = None /\ ~(ucur = u /\ upc \in {"online", "speed"}) =>
          bucketOf[u] = None
    /\ \A c \in Conns : UserOf[c] = u =>
          /\ cpc[c] = "new" => bucket[c] = None
          /\ Checking(c) => Fresh(c)
          /\ Fresh(c) => snap[c] = userLimit[u] /\ Holds(c)

Buckets == \A u \in Users \ raced : BucketInv(u)

(* The rate of a loaded connection is a natural number. *)
LEMMA RateType ==
    ASSUME TypeOK, Loaded, NEW c \in Conns, cpc[c] \notin {"new", "rejected"}
    PROVE  Rate(c) \in Nat
<1>1. snap[c].speed \in Nat
    BY ZenonT(60) DEF Loaded, Settings
<1> QED
    BY ZenonT(60), <1>1 DEF Rate, determineSpeedLimit

(* Checks and updates keep the generations of limits in order. *)
LEMMA GenStep ==
    ASSUME TypeOK, GenInv, [Next]_vars PROVE GenInv'
<1> USE DEF TypeOK, GenInv
<1>1. ASSUME NEW c \in Conns, LoadLimit(c) PROVE GenInv'
    BY <1>1 DEF LoadLimit, Goto, limitVars, updateVars
<1>2. ASSUME NEW c \in Conns, CheckLimit(c), ~LoadLimit(c) PROVE GenInv'
    <2>1. /\ UNCHANGED <<userLimit, gen, upc, ucur, began>>
          /\ cpc[c] \notin {"new", "rejected"}
          /\ \E s \in CheckSteps : cpc' = [cpc EXCEPT ![c] = s]
        BY ZenonT(60), <1>2 DEF CheckLimit, TrackDevice, InsertIp, CheckOldOnline,
            DeleteOldOnline, UndoOnline, TakeBucket, StoreBucket, limitVars,
            updateVars, connVars, loadVars, Goto, CheckSteps
    <2> QED
        BY ZenonT(60), <2>1
<1>3. ASSUME NEW u \in Users, NEW new \in Settings \cup {None}, BeginUpdate(u, new)
      PROVE  GenInv'
    <2>1. /\ userLimit' = [userLimit EXCEPT ![u] = None] /\ ucur' = u
          /\ gen' = [gen EXCEPT ![u] = gen[u] + 1] /\ UNCHANGED <<cpc, began>>
        BY ZenonT(60), <1>3 DEF BeginUpdate, loadVars
    <2> QED
        BY SMTT(60), <2>1
<1>4. CASE AddUser
    <2>1. /\ ucur \in Users /\ userLimit[ucur] = None /\ UNCHANGED <<cpc, began>>
          /\ gen' = [gen EXCEPT ![ucur] = gen[ucur] + 1] /\ upc' = "idle"
          /\ userLimit' = [userLimit EXCEPT ![ucur] = unew]
        BY ZenonT(60), <1>4 DEF AddUser, connVars, loadVars
    <2> QED
        BY <2>1
<1>5. CASE DeleteOnline \/ DeleteSpeed \/ DeleteAlive
    <2>1. UNCHANGED <<userLimit, gen, cpc, began, ucur>> /\ upc # "idle"
        BY ZenonT(60), <1>5 DEF DeleteOnline, DeleteSpeed, DeleteAlive, limitVars, connVars, loadVars
    <2> QED
        BY ZenonT(60), <2>1
<1>6. CASE SetAlive \/ BeginReport \/ DropOnline \/ EndReport \/ UNCHANGED vars
           \/ \E u \in Users : RangeUser(u)
    <2>1. UNCHANGED <<userLimit, gen, cpc, began, ucur, upc>>
        BY ZenonT(60), <1>6 DEF SetAlive, BeginReport, DropOnline, EndReport, RangeUser, vars,
            limitVars, updateVars, connVars, loadVars
    <2> QED
        BY ZenonT(60), <2>1
<1> QED
    BY ZenonT(60), <1>1, <1>2, <1>3, <1>4, <1>5, <1>6 DEF Next

(* A step that touches neither the limits nor the connections of a user     *)
(* keeps the bucket of the user right.                                      *)
LEMMA OtherUser ==
    ASSUME TypeOK, NEW u \in Users, BucketInv(u),
           userLimit'[u] = userLimit[u], gen'[u] = gen[u], bucketOf'[u] = bucketOf[u],
           \A d \in Conns : UserOf[d] = u =>
               /\ cpc'[d] = cpc[d] /\ began'[d] = began[d] /\ snap'[d] = snap[d]
               /\ bucket'[d] = bucket[d] /\ rate'[d] = rate[d],
           (ucur = u /\ upc \in {"online", "speed"}) =>
               (ucur' = u /\ upc' \in {"online", "speed"})
    PROVE  BucketInv(u)'
<1>1. bucketOf[u] # None => bucketOf[u] \in Conns /\ UserOf[bucketOf[u]] = u
    <2>1. bucketOf[u] \in Conns \cup {None}
        BY ZenonT(60) DEF TypeOK
    <2>2. bucketOf[u] # None => UserOf[bucketOf[u]] = u
        BY Zenon DEF BucketInv
    <2> QED
        BY ZenonT(60), <2>1, <2>2
<1>2. bucketOf[u] # None =>
          rate'[bucketOf[u]] = rate[bucketOf[u]] /\ cpc'[bucketOf[u]] = cpc[bucketOf[u]]
    BY ZenonT(60), <1>1
<1>3. \A d \in Conns : UserOf[d] = u =>
          (Checking(d)' <=> Checking(d)) /\ (Fresh(d)' <=> Fresh(d))
          /\ (Holds(d)' <=> Holds(d))
    BY ZenonT(60) DEF Checking, Fresh, Holds, Rate
<1> QED
    BY ZenonT(60), <1>1, <1>2, <1>3 DEF BucketInv

(* A step of one connection that leaves the buckets alone keeps the bucket  *)
(* of its user right if the connection itself ends up right.                *)
LEMMA OneChecks ==
    ASSUME TypeOK, NEW c \in Conns, NEW u \in Users, u = UserOf[c], BucketInv(u),
           UNCHANGED <<userLimit, gen, upc, ucur, bucketOf, rate>>,
           \A d \in Conns \ {c} : /\ cpc'[d] = cpc[d] /\ began'[d] = began[d]
                                 /\ snap'[d] = snap[d] /\ bucket'[d] = bucket[d],
           cpc[c] \in {"store", "admitted"} => cpc'[c] \in {"store", "admitted"},
           cpc'[c] = "new" => bucket'[c] = None,
           Checking(c)' => Fresh(c)',
           Fresh(c)' => snap'[c] = userLimit[u] /\ Holds(c)'
    PROVE  BucketInv(u)'
<1>1. bucketOf[u] # None => bucketOf[u] \in Conns
    <2>1. bucketOf[u] \in Conns \cup {None}
        BY ZenonT(60) DEF TypeOK
    <2> QED
        BY ZenonT(60), <2>1
<1>2. bucketOf'[u] # None =>
          /\ UserOf[bucketOf'[u]] = u
          /\ userLimit'[u] # None =>
                rate'[bucketOf'[u]] = determineSpeedLimit(NodeLimit, userLimit'[u].speed)
    BY ZenonT(60) DEF BucketInv
<1>3. bucketOf'[u] # None => cpc'[bucketOf'[u]] \in {"store", "admitted"}
    <2>1. bucketOf[u] # None => cpc[bucketOf[u]] \in {"store", "admitted"}
        BY ZenonT(60) DEF BucketInv
    <2> QED
        BY ZenonT(60), <1>1, <2>1
<1>4. userLimit'[u] = None /\ ~(ucur' = u /\ upc' \in {"online", "speed"}) => bucketOf'[u] = None
    BY ZenonT(60) DEF BucketInv
<1>5. ASSUME NEW d \in Conns, UserOf[d] = u
      PROVE  /\ cpc'[d] = "new" => bucket'[d] = None
             /\ Checking(d)' => Fresh(d)'
             /\ Fresh(d)' => snap'[d] = userLimit'[u] /\ Holds(d)'
    <2>1. CASE d = c
        BY ZenonT(60), <2>1
    <2>2. CASE d # c
        <3>1. /\ cpc'[d] = cpc[d] /\ began'[d] = began[d] /\ snap'[d] = snap[d]
              /\ bucket'[d] = bucket[d]
            BY ZenonT(60), <2>2
        <3>2. /\ Checking(d)' <=> Checking(d)
              /\ Fresh(d)' <=> Fresh(d)
              /\ Holds(d)' <=> Holds(d)
            BY ZenonT(60), <3>1 DEF Checking, Fresh, Holds, Rate
        <3> QED
            BY ZenonT(60), <1>5, <3>1, <3>2 DEF BucketInv
    <2> QED
        BY ZenonT(60), <2>1, <2>2
<1> QED
    BY ZenonT(60), <1>2, <1>3, <1>4, <1>5 DEF BucketInv

(* A check gives its own user no second bucket, and none of a wrong rate. *)
LEMMA CheckBucket ==
    ASSUME TypeOK, Loaded, NEW c \in Conns, CheckLimit(c), BucketInv(UserOf[c])
    PROVE  BucketInv(UserOf[c])'
<1> DEFINE u == UserOf[c]
<1>0. /\ UNCHANGED <<userLimit, gen, upc, ucur>>
      /\ u \in Users /\ userLimit[u] \in Settings \cup {None}
    BY ZenonT(60) DEF TypeOK, CheckLimit, LoadLimit, TrackDevice, InsertIp, CheckOldOnline,
        DeleteOldOnline, UndoOnline, TakeBucket, StoreBucket, limitVars, updateVars
<1> USE DEF TypeOK
<1>1. CASE LoadLimit(c)
    <2>1. UNCHANGED <<bucketOf, rate, bucket>> /\ cpc[c] = "new"
        BY ZenonT(60), <1>1 DEF LoadLimit, bucketVars
    <2>2. CASE cpc' = [cpc EXCEPT ![c] = "rejected"] /\ UNCHANGED <<snap, began>>
        <3>1. cpc'[c] = "rejected" /\ \A d \in Conns \ {c} : cpc'[d] = cpc[d]
            BY ZenonT(60), <2>2
        <3>2. ~Checking(c)' /\ ~Fresh(c)' /\ cpc'[c] # "new" /\ cpc[c] \notin {"store", "admitted"}
            BY ZenonT(60), <2>1, <3>1 DEF Checking, Fresh
        <3> HIDE DEF TypeOK
        <3> QED
            BY ZenonT(60), <1>0, <2>1, <2>2, <3>1, <3>2, OneChecks
    <2>3. CASE /\ userLimit[u] # None
               /\ snap' = [snap EXCEPT ![c] = userLimit[u]]
               /\ began' = [began EXCEPT ![c] = gen[u]]
               /\ \E s \in {"track", "bucket"} : cpc' = [cpc EXCEPT ![c] = s]
        <3>1. ~Fresh(c) /\ bucket[c] = None
            BY ZenonT(60), <2>1 DEF Fresh, BucketInv
        <3>2. Fresh(c)' /\ Holds(c)' /\ snap'[c] = userLimit'[u]
            BY ZenonT(60), <1>0, <2>1, <2>3, <3>1 DEF Fresh, Holds
        <3>3. /\ cpc'[c] \in {"track", "bucket"}
              /\ \A d \in Conns \ {c} : /\ cpc'[d] = cpc[d] /\ began'[d] = began[d]
                                       /\ snap'[d] = snap[d] /\ bucket'[d] = bucket[d]
            BY ZenonT(60), <2>1, <2>3
        <3>4. cpc'[c] # "new" /\ cpc[c] \notin {"store", "admitted"}
            BY ZenonT(60), <2>1, <3>3
        <3>5. u = UserOf[c] /\ snap'[c] = userLimit[u]
            BY ZenonT(60), <1>0, <3>2
        <3> HIDE DEF TypeOK, u
        <3> QED
            BY ZenonT(60), <1>0, <2>1, <3>2, <3>3, <3>4, <3>5, OneChecks
    <2> QED
        BY ZenonT(60), <1>1, <2>2, <2>3 DEF LoadLimit, Goto
<1>2. CASE TrackDevice(c) \/ InsertIp(c) \/ CheckOldOnline(c) \/ DeleteOldOnline(c)
           \/ UndoOnline(c)
    <2>1. /\ UNCHANGED <<bucketOf, rate, bucket, snap, began>>
          /\ Checking(c) /\ cpc[c] # "store"
          /\ \E s \in CheckSteps \ {"new", "store", "admitted"} :
                cpc' = [cpc EXCEPT ![c] = s]
        BY ZenonT(60), <1>2 DEF TrackDevice, InsertIp, CheckOldOnline, DeleteOldOnline,
            UndoOnline, bucketVars, connVars, loadVars, Goto, CheckSteps, Checking
    <2>2. PICK s \in CheckSteps \ {"new", "store", "admitted"} : cpc' = [cpc EXCEPT ![c] = s]
        BY ZenonT(60), <2>1
    <2>3. /\ cpc'[c] \notin {"new", "store", "admitted"}
          /\ \A d \in Conns \ {c} : /\ cpc'[d] = cpc[d] /\ began'[d] = began[d]
                                   /\ snap'[d] = snap[d] /\ bucket'[d] = bucket[d]
        BY ZenonT(60), <2>1, <2>2
    <2>4. Fresh(c) /\ snap[c] = userLimit[u] /\ Holds(c) /\ cpc[c] \notin {"store", "admitted"}
        BY ZenonT(60), <2>1 DEF BucketInv, Checking
    <2>5. bucket'[c] = None
        BY ZenonT(60), <2>1, <2>4 DEF Holds
    <2>6. Holds(c)'
        BY ZenonT(60), <2>3, <2>5 DEF Holds
    <2>7. /\ Checking(c)' => Fresh(c)'
          /\ Fresh(c)' => snap'[c] = userLimit[u] /\ Holds(c)'
        BY ZenonT(60), <1>0, <2>1, <2>3, <2>4, <2>6 DEF Checking, Fresh
    <2>8. u = UserOf[c]
        OBVIOUS
    <2> HIDE DEF TypeOK, u
    <2> QED
        BY ZenonT(60), <1>0, <2>1, <2>3, <2>4, <2>5, <2>7, <2>8, OneChecks
<1>3. CASE TakeBucket(c)
    <2>1. /\ Rate(c) \in Nat /\ UNCHANGED <<snap, began>> /\ cpc[c] = "bucket"
          /\ Fresh(c) /\ snap[c] = userLimit[u] /\ bucket[c] = None
          /\ bucketOf[u] # c
        <3>1. cpc[c] = "bucket" /\ UNCHANGED <<snap, began>>
            BY ZenonT(60), <1>3 DEF TakeBucket, connVars, loadVars
        <3>2. Checking(c) /\ cpc[c] \notin {"new", "rejected", "store", "admitted"}
            BY ZenonT(60), <3>1 DEF Checking
        <3>3. Fresh(c) /\ snap[c] = userLimit[u] /\ Holds(c)
            BY ZenonT(60), <3>2 DEF BucketInv
        <3>4. bucket[c] = None
            BY ZenonT(60), <3>2, <3>3 DEF Holds
        <3>5. bucketOf[u] # c
            <4>1. bucketOf[u] = c => c # None
                BY ZenonT(60), ConnAssumption
            <4> QED
                BY ZenonT(60), <3>2, <4>1 DEF BucketInv
        <3> QED
            BY ZenonT(60), <3>1, <3>2, <3>3, <3>4, <3>5, RateType
    <2>2. CASE Rate(c) = 0 /\ cpc' = [cpc EXCEPT ![c] = "admitted"] /\ UNCHANGED bucketVars
        <3>1. /\ cpc'[c] = "admitted" /\ UNCHANGED <<bucketOf, rate, bucket>>
              /\ \A d \in Conns \ {c} : /\ cpc'[d] = cpc[d] /\ began'[d] = began[d]
                                       /\ snap'[d] = snap[d] /\ bucket'[d] = bucket[d]
            BY ZenonT(60), <2>1, <2>2 DEF bucketVars
        <3>2. ~Checking(c)' /\ Holds(c)' /\ cpc'[c] # "new" /\ snap'[c] = userLimit[u]
            BY ZenonT(60), <2>1, <2>2, <3>1 DEF Checking, Holds, Rate
        <3>3. u = UserOf[c] /\ cpc'[c] \in {"store", "admitted"}
            BY ZenonT(60), <3>1
        <3> HIDE DEF TypeOK, u
        <3> QED
            BY ZenonT(60), <1>0, <3>1, <3>2, <3>3, OneChecks
    <2>3. CASE /\ Rate(c) > 0 /\ bucketOf[u] # None
               /\ bucket' = [bucket EXCEPT ![c] = bucketOf[u]]
               /\ cpc' = [cpc EXCEPT ![c] = "admitted"]
               /\ UNCHANGED <<bucketOf, rate>>
        <3>1. /\ cpc'[c] = "admitted" /\ bucket'[c] = bucketOf[u]
              /\ \A d \in Conns \ {c} : /\ cpc'[d] = cpc[d] /\ began'[d] = began[d]
                                       /\ snap'[d] = snap[d] /\ bucket'[d] = bucket[d]
            BY ZenonT(60), <2>1, <2>3
        <3>2. ~Checking(c)' /\ Holds(c)' /\ cpc'[c] # "new" /\ snap'[c] = userLimit[u]
            BY ZenonT(60), <2>1, <2>3, <3>1 DEF Checking, Holds, Rate
        <3>3. u = UserOf[c] /\ cpc'[c] \in {"store", "admitted"}
            BY ZenonT(60), <3>1
        <3> HIDE DEF TypeOK, u
        <3> QED
            BY ZenonT(60), <1>0, <2>3, <3>1, <3>2, <3>3, OneChecks
    <2>4. CASE /\ Rate(c) > 0 /\ bucketOf[u] = None
               /\ rate' = [rate EXCEPT ![c] = Rate(c)]
               /\ bucketOf' = [bucketOf EXCEPT ![u] = c]
               /\ bucket' = [bucket EXCEPT ![c] = c]
               /\ cpc' = [cpc EXCEPT ![c] = "store"]
        <3>1. /\ bucketOf'[u] = c /\ cpc'[c] = "store" /\ bucket'[c] = c
              /\ rate'[c] = Rate(c)
            BY ZenonT(60), <1>0, <2>4
        <3>2. Fresh(c)' /\ Holds(c)' /\ snap'[c] = userLimit'[u]
            BY ZenonT(60), <1>0, <2>1, <2>4, <3>1 DEF Fresh, Holds, Rate
        <3>3. \A d \in Conns \ {c} : UserOf[d] = u =>
                  /\ Checking(d)' <=> Checking(d)
                  /\ Fresh(d)' <=> Fresh(d)
                  /\ Fresh(d) => Holds(d)'
                  /\ snap'[d] = snap[d] /\ bucket'[d] = bucket[d] /\ cpc'[d] = cpc[d]
            <4> SUFFICES ASSUME NEW d \in Conns, d # c, UserOf[d] = u
                         PROVE  /\ Checking(d)' <=> Checking(d)
                                /\ Fresh(d)' <=> Fresh(d)
                                /\ Fresh(d) => Holds(d)'
                                /\ snap'[d] = snap[d] /\ bucket'[d] = bucket[d] /\ cpc'[d] = cpc[d]
                BY ZenonT(60)
            <4>1. /\ snap'[d] = snap[d] /\ bucket'[d] = bucket[d] /\ cpc'[d] = cpc[d]
                  /\ began'[d] = began[d]
                BY ZenonT(60), <2>1, <2>4
            <4>2. /\ Checking(d)' <=> Checking(d)
                  /\ Fresh(d)' <=> Fresh(d)
                BY ZenonT(60), <1>0, <4>1 DEF Checking, Fresh
            <4>3. Fresh(d) => Holds(d)
                BY ZenonT(60) DEF BucketInv
            <4>4. Holds(d) => bucket[d] = None
                BY ZenonT(60), <2>4 DEF Holds
            <4>5. Holds(d) => Holds(d)'
                BY ZenonT(60), <4>1, <4>4 DEF Holds, Rate
            <4> QED
                BY ZenonT(60), <4>1, <4>2, <4>3, <4>5
        <3>4. Rate(c) = determineSpeedLimit(NodeLimit, userLimit'[u].speed)
            BY ZenonT(60), <1>0, <2>1 DEF Rate
        <3>5. /\ \A d \in Conns : UserOf[d] = u => (Checking(d)' => Fresh(d)')
              /\ \A d \in Conns : UserOf[d] = u =>
                    (Fresh(d)' => snap'[d] = userLimit'[u] /\ Holds(d)')
              /\ \A d \in Conns : UserOf[d] = u => (cpc'[d] = "new" => bucket'[d] = None)
            BY ZenonT(60), <1>0, <3>1, <3>2, <3>3 DEF BucketInv
        <3>6. userLimit'[u] # None
            BY ZenonT(60), <1>0, <2>1 DEF Fresh
        <3> HIDE DEF TypeOK
        <3> QED
            BY ZenonT(60), <3>1, <3>4, <3>5, <3>6 DEF BucketInv
    <2> QED
        BY ZenonT(60), <1>3, <2>2, <2>3, <2>4 DEF TakeBucket, Goto
<1>4. CASE StoreBucket(c)
    <2>1. Fresh(c) /\ bucketOf[u] = c
        BY ZenonT(60), <1>4 DEF StoreBucket, BucketInv, Checking, Holds
    <2>2. /\ UNCHANGED <<bucketOf, rate, bucket, snap, began>> /\ cpc[c] = "store"
          /\ cpc' = [cpc EXCEPT ![c] = "admitted"]
        BY ZenonT(60), <1>4, <2>1 DEF StoreBucket, Goto, connVars, loadVars
    <2>3. cpc'[c] = "admitted" /\ bucketOf'[u] = c /\ bucket'[c] = bucket[c]
        BY ZenonT(60), <2>1, <2>2
    <2>4. /\ ~Checking(c)' /\ Fresh(c)' /\ snap'[c] = userLimit'[u]
          /\ Holds(c)'
        BY ZenonT(60), <1>0, <2>1, <2>2, <2>3 DEF BucketInv, Checking, Fresh, Holds, Rate
    <2>5. \A d \in Conns \ {c} : cpc'[d] = cpc[d]
        BY ZenonT(60), <2>2
    <2>6. \A d \in Conns \ {c} : UserOf[d] = u =>
              /\ Checking(d)' <=> Checking(d)
              /\ Fresh(d)' <=> Fresh(d)
              /\ Holds(d)' <=> Holds(d)
              /\ snap'[d] = snap[d] /\ bucket'[d] = bucket[d]
        BY ZenonT(60), <1>0, <2>2, <2>5 DEF Checking, Fresh, Holds, Rate
    <2>7. \A d \in Conns : UserOf[d] = u =>
              /\ cpc'[d] = "new" => bucket'[d] = None
              /\ Checking(d)' => Fresh(d)'
              /\ Fresh(d)' => snap'[d] = userLimit'[u] /\ Holds(d)'
        BY ZenonT(60), <1>0, <2>3, <2>4, <2>5, <2>6 DEF BucketInv
    <2>8. /\ bucketOf[u] = c /\ rate' = rate /\ userLimit'[u] = userLimit[u]
          /\ userLimit[u] # None
          /\ rate[c] = determineSpeedLimit(NodeLimit, userLimit[u].speed)
        BY ZenonT(60), <1>0, <2>1, <2>2 DEF BucketInv, Fresh
    <2> HIDE DEF TypeOK
    <2> QED
        BY ZenonT(60), <1>0, <2>3, <2>7, <2>8 DEF BucketInv
<1> QED
    BY ZenonT(60), <1>1, <1>2, <1>3, <1>4 DEF CheckLimit

(* A check that began under some limits did not begin under the next ones. *)
LEMMA NoSuccessor == \A m, n \in Nat : m <= n => m # n + 1
OBVIOUS

(* An update that no check overlaps takes the bucket of the user away with  *)
(* the old limits.                                                          *)
LEMMA UpdateBucket ==
    ASSUME TypeOK, GenInv, NEW u \in Users, BucketInv(u), u \notin raced',
           \/ \E new \in Settings \cup {None} : BeginUpdate(u, new)
           \/ ucur = u /\ (DeleteOnline \/ DeleteSpeed \/ DeleteAlive \/ AddUser)
    PROVE  BucketInv(u)'
<1> USE DEF TypeOK
<1>1. \A c \in Conns : UserOf[c] = u => ~Checking(c)
    <2>1. ASSUME NEW new \in Settings \cup {None}, BeginUpdate(u, new)
          PROVE  \A c \in Conns : UserOf[c] = u => ~Checking(c)
        BY ZenonT(60), <2>1 DEF BeginUpdate
    <2>2. CASE ucur = u /\ (DeleteOnline \/ DeleteSpeed \/ DeleteAlive \/ AddUser)
        <3>1. userLimit[u] = None
            BY ZenonT(60), <2>2 DEF DeleteOnline, DeleteSpeed, DeleteAlive, AddUser, GenInv
        <3> QED
            BY ZenonT(60), <3>1 DEF BucketInv, Fresh
    <2> QED
        BY ZenonT(60), <2>1, <2>2
<1>2. UNCHANGED <<cpc, began, bucket>>
    BY ZenonT(60) DEF BeginUpdate, DeleteOnline, DeleteSpeed, DeleteAlive, AddUser, connVars,
        loadVars, bucketVars
<1>3. \A c \in Conns : UserOf[c] = u => ~Checking(c)'
    BY ZenonT(60), <1>1, <1>2 DEF Checking
<1>4. CASE \E new \in Settings \cup {None} : BeginUpdate(u, new)
    <2>1. /\ userLimit'[u] = None /\ UNCHANGED <<bucketOf, rate>> /\ upc = "idle"
          /\ ucur' = u /\ upc' = IF userLimit[u] = None THEN "add" ELSE "online"
        BY ZenonT(60), <1>4 DEF BeginUpdate, bucketVars
    <2> QED
        BY ZenonT(60), <1>2, <1>3, <2>1 DEF BucketInv, Fresh
<1>5. CASE ucur = u /\ (DeleteOnline \/ DeleteSpeed \/ DeleteAlive)
    <2>1. /\ userLimit'[u] = None /\ ucur' = u /\ UNCHANGED rate
          /\ \/ upc = "online" /\ upc' = "speed" /\ UNCHANGED bucketOf
             \/ upc = "speed" /\ upc' = "alive" /\ bucketOf'[u] = None
             \/ upc = "alive" /\ upc' = "add" /\ UNCHANGED bucketOf
        BY ZenonT(60), <1>5 DEF DeleteOnline, DeleteSpeed, DeleteAlive, GenInv, limitVars, bucketVars
    <2>2. userLimit[u] = None
        BY ZenonT(60), <1>5 DEF DeleteOnline, DeleteSpeed, DeleteAlive, GenInv
    <2> QED
        BY ZenonT(60), <1>2, <1>3, <2>1, <2>2 DEF BucketInv, Fresh
<1>6. CASE ucur = u /\ AddUser
    <2>1. bucketOf'[u] = None
        BY ZenonT(60), <1>6 DEF AddUser, GenInv, BucketInv, bucketVars
    <2>2. gen'[u] = gen[u] + 1 /\ \A c \in Conns : began'[c] = began[c]
        BY ZenonT(60), <1>6, <1>2 DEF AddUser
    <2>3. \A c \in Conns : UserOf[c] = u => ~Fresh(c)'
        <3> SUFFICES ASSUME NEW c \in Conns, UserOf[c] = u,
                            cpc[c] \notin {"new", "rejected"}
                     PROVE  began'[c] # gen'[u]
            BY ZenonT(60), <1>2 DEF Fresh
        <3>1. began[c] \in Nat /\ gen[u] \in Nat /\ began[c] <= gen[u]
            BY ZenonT(60) DEF GenInv
        <3>2. began'[c] = began[c] /\ gen'[u] = gen[u] + 1
            BY ZenonT(60), <2>2
        <3> HIDE DEF TypeOK
        <3>4. began[c] # gen[u] + 1
            BY ZenonT(60), <3>1, NoSuccessor
        <3> QED
            BY ZenonT(60), <3>2, <3>4
    <2> QED
        BY ZenonT(60), <1>2, <1>3, <2>1, <2>3 DEF BucketInv
<1> QED
    BY ZenonT(60), <1>4, <1>5, <1>6

(* Every step keeps the buckets of all users right. *)
LEMMA BucketStep ==
    ASSUME TypeOK, Loaded, GenInv, Buckets, [Next]_vars PROVE Buckets'
<1> SUFFICES ASSUME NEW u \in Users, u \notin raced' PROVE BucketInv(u)'
    BY ZenonT(60) DEF Buckets
<1>0. u \notin raced
    BY ZenonT(60) DEF Next, CheckLimit, LoadLimit, TrackDevice, InsertIp, CheckOldOnline,
        DeleteOldOnline, UndoOnline, TakeBucket, StoreBucket, BeginUpdate,
        DeleteOnline, DeleteSpeed, DeleteAlive, AddUser, SetAlive, BeginReport,
        RangeUser, DropOnline, EndReport, vars, limitVars
<1>1. BucketInv(u)
    BY ZenonT(60), <1>0 DEF Buckets
<1>2. ASSUME NEW c \in Conns, CheckLimit(c) PROVE BucketInv(u)'
    <2>1. CASE UserOf[c] = u
        BY ZenonT(60), <1>1, <1>2, <2>1, CheckBucket
    <2>2. CASE UserOf[c] # u
        <3>1. /\ UNCHANGED <<userLimit, gen, upc, ucur>>
              /\ \A d \in Conns \ {c} :
                    /\ cpc'[d] = cpc[d] /\ began'[d] = began[d] /\ snap'[d] = snap[d]
                    /\ bucket'[d] = bucket[d] /\ rate'[d] = rate[d]
              /\ bucketOf'[u] = bucketOf[u]
            BY ZenonT(60), <1>2, <2>2 DEF TypeOK, CheckLimit, LoadLimit, TrackDevice, InsertIp,
                CheckOldOnline, DeleteOldOnline, UndoOnline, TakeBucket, StoreBucket,
                Goto, limitVars, bucketVars, connVars, loadVars, updateVars
        <3> QED
            BY ZenonT(60), <1>1, <2>2, <3>1, OtherUser
    <2> QED
        BY ZenonT(60), <2>1, <2>2
<1>3. ASSUME NEW v \in Users, NEW new \in Settings \cup {None}, BeginUpdate(v, new)
      PROVE  BucketInv(u)'
    <2>1. CASE v = u
        BY ZenonT(60), <1>1, <1>3, <2>1, UpdateBucket
    <2>2. CASE v # u
        <3>1. /\ userLimit'[u] = userLimit[u] /\ gen'[u] = gen[u] /\ upc = "idle"
              /\ UNCHANGED <<bucketOf, cpc, began, snap, bucket, rate>>
            BY ZenonT(60), <1>3, <2>2 DEF TypeOK, BeginUpdate, bucketVars, loadVars
        <3> QED
            BY ZenonT(60), <1>1, <3>1, OtherUser
    <2> QED
        BY ZenonT(60), <2>1, <2>2
<1>4. CASE DeleteOnline \/ DeleteSpeed \/ DeleteAlive \/ AddUser
    <2>1. CASE ucur = u
        BY ZenonT(60), <1>1, <1>4, <2>1, UpdateBucket
    <2>2. CASE ucur # u
        <3>1. /\ userLimit'[u] = userLimit[u] /\ gen'[u] = gen[u]
              /\ bucketOf'[u] = bucketOf[u]
              /\ UNCHANGED <<cpc, began, snap, bucket, rate>>
            BY ZenonT(60), <1>4, <2>2 DEF TypeOK, DeleteOnline, DeleteSpeed, DeleteAlive,
                AddUser, limitVars, bucketVars, connVars, loadVars
        <3> QED
            BY ZenonT(60), <1>1, <2>2, <3>1, OtherUser
    <2> QED
        BY ZenonT(60), <2>1, <2>2
<1>5. CASE SetAlive \/ BeginReport \/ DropOnline \/ EndReport \/ UNCHANGED vars
           \/ \E v \in Users : RangeUser(v)
    <2>1. UNCHANGED <<userLimit, gen, upc, ucur, bucketOf, cpc, began, snap, bucket, rate>>
        BY ZenonT(60), <1>5 DEF SetAlive, BeginReport, DropOnline, EndReport, RangeUser, vars,
            limitVars, bucketVars, updateVars, connVars, loadVars
    <2> QED
        BY ZenonT(60), <1>1, <2>1, OtherUser
<1> QED
    BY ZenonT(60), <1>2, <1>3, <1>4, <1>5 DEF Next

(* The limits loaded and the buckets of the users not raced stay right. *)
LEMMA BucketsHold == Spec => [](TypeOK /\ GenInv /\ Buckets)
<1>1. Init => GenInv /\ Buckets
    BY ZenonT(60) DEF Init, GenInv, Buckets, BucketInv, Checking, Fresh
<1>2. TypeOK /\ Loaded /\ GenInv /\ Buckets /\ [Next]_vars => (GenInv /\ Buckets)'
    BY ZenonT(60), GenStep, BucketStep
<1> QED
    BY <1>1, <1>2, LimiterTypeCorrect, PTL DEF Spec

(* What a connection admitted under the limits its user still has was given. *)
LEMMA CurrentBucket ==
    ASSUME TypeOK, Buckets, NEW c \in Conns, Current(c), UserOf[c] \notin raced
    PROVE  /\ snap[c] = userLimit[UserOf[c]] /\ userLimit[UserOf[c]] \in Settings
           /\ Rate(c) = 0 <=> bucket[c] = None
           /\ bucket[c] # None =>
                 bucket[c] = bucketOf[UserOf[c]] /\ rate[bucket[c]] = Rate(c)
<1> DEFINE u == UserOf[c]
<1>1. u \in Users /\ userLimit[u] \in Settings \cup {None}
    BY ZenonT(60) DEF TypeOK
<1>2. cpc[c] = "admitted" /\ userLimit[u] # None /\ Fresh(c)
    BY ZenonT(60) DEF Current, Fresh
<1>3. BucketInv(u)
    BY ZenonT(60), <1>1 DEF Buckets
<1>4. snap[c] = userLimit[u] /\ Holds(c)
    BY ZenonT(60), <1>2, <1>3 DEF BucketInv
<1>5. bucket[c] # None => bucket[c] = bucketOf[u] /\ rate[bucket[c]] = Rate(c)
    <2>1. bucket[c] # None => bucket[c] = bucketOf[u]
        BY ZenonT(60), <1>4 DEF Holds
    <2>2. bucketOf[u] # None => rate[bucketOf[u]] = Rate(c)
        BY ZenonT(60), <1>2, <1>3, <1>4 DEF BucketInv, Rate
    <2> QED
        BY ZenonT(60), <2>1, <2>2
<1>6. Rate(c) = 0 <=> bucket[c] = None
    <2>1. ~(Rate(c) = 0 /\ Rate(c) > 0)
        OBVIOUS
    <2> QED
        BY ZenonT(60), <1>2, <1>4, <2>1 DEF Holds
<1> QED
    BY ZenonT(60), <1>1, <1>2, <1>4, <1>5, <1>6

(* All connections of a user draw on one bucket, however checks, updates    *)
(* and reports interleave, unless the user was updated during a check.      *)
THEOREM OneBucketPerUser == Spec => []SharedBucket
<1>1. TypeOK /\ Buckets => SharedBucket
    <2> SUFFICES ASSUME TypeOK, Buckets, NEW c \in Conns, NEW d \in Conns,
                        Current(c), Current(d), UserOf[c] = UserOf[d],
                        UserOf[c] \notin raced
                 PROVE  bucket[c] = bucket[d]
        BY ZenonT(60) DEF SharedBucket
    <2>1. Rate(c) = Rate(d)
        BY ZenonT(60), CurrentBucket DEF Rate
    <2> QED
        BY ZenonT(60), CurrentBucket, <2>1
<1> QED
    BY <1>1, BucketsHold, PTL

(* That bucket was made with the least non-zero limit of node and user as   *)
(* they are now.                                                            *)
THEOREM BucketOfTheRightRate == Spec => []SpeedLimitCurrent
<1>1. TypeOK /\ Buckets => SpeedLimitCurrent
    <2> SUFFICES ASSUME TypeOK, Buckets, NEW c \in Conns, Current(c),
                        UserOf[c] \notin raced
                 PROVE  RightSpeed(c)
        BY ZenonT(60) DEF SpeedLimitCurrent
    <2>1. userLimit[UserOf[c]].speed \in Nat
        BY ZenonT(60), CurrentBucket DEF Settings
    <2>2. LeastLimit({NodeLimit, userLimit[UserOf[c]].speed}) = Rate(c)
        <3>1. /\ Rate(c) = determineSpeedLimit(NodeLimit, snap[c].speed)
              /\ snap[c] = userLimit[UserOf[c]] /\ NodeLimit \in Nat
            BY ZenonT(60), CurrentBucket DEF Rate
        <3> QED
            BY ZenonT(60), <2>1, <3>1, DetermineSpeedLimitIsLeast
    <2> QED
        BY ZenonT(60), CurrentBucket, <2>2 DEF RightSpeed
<1> QED
    BY <1>1, BucketsHold, PTL

-----------------------------------------------------------------------------
(* The steps of a check that does not end in an admission. *)
OnTheWayOut == {"track", "insert", "old", "oldFirst", "undo", "undoFirst", "rejected"}

(* d comes from the device that c comes from. *)
Twin(c, d) == d # c /\ UserOf[d] = UserOf[c] /\ IpOf[d] = IpOf[c]

(* What the check of c still has to find, or has found, to refuse it: no    *)
(* report and no check of the same device is under way, the address is in   *)
(* neither map, and the limit is at most the number of alive addresses.     *)
Refused(c) ==
    /\ rpc = "idle" /\ userLimit[UserOf[c]] # None /\ oldOnline[IpOf[c]] = None
    /\ \A d \in Conns : Twin(c, d) => ~Checking(d)
    /\ cpc[c] = "track" =>
          /\ snap[c].device > 0 /\ snap[c].device <= aliveList[UserOf[c]]
          /\ onlineIP[UserOf[c]] # None => IpOf[c] \notin ips[onlineIP[UserOf[c]]]
    /\ cpc[c] # "track" => TooMany(c)
    /\ cpc[c] = "insert" => ipMap[c] # None /\ IpOf[c] \notin ips[ipMap[c]]

StaysOut(c) == cpc[c] \in OnTheWayOut /\ (Checking(c) => Refused(c))

OverInv == \A c \in over : StaysOut(c)

(* The first step of a check above the limit finds all it takes to refuse. *)
LEMMA OverLoads ==
    ASSUME TypeOK, OverInv, NEW c \in Conns, LoadLimit(c), c \in over'
    PROVE  StaysOut(c)'
<1> USE DEF TypeOK
<1>1. c \notin over /\ cpc[c] = "new"
    BY ZenonT(60) DEF OverInv, StaysOut, OnTheWayOut, LoadLimit
<1>2. /\ userLimit[UserOf[c]] # None /\ rpc = "idle" /\ NewDeviceOverLimit(c)
      /\ \A d \in Conns : ~(Checking(d) /\ UserOf[d] = UserOf[c] /\ IpOf[d] = IpOf[c])
      /\ cpc' = [cpc EXCEPT ![c] = IF c \in NoSSUDP THEN "track" ELSE "bucket"]
      /\ snap' = [snap EXCEPT ![c] = userLimit[UserOf[c]]]
    BY ZenonT(60), <1>1 DEF LoadLimit, Goto
<1>3. UNCHANGED <<rpc, userLimit, oldOnline, aliveList, onlineIP, ips>>
    BY ZenonT(60) DEF LoadLimit, limitVars, deviceVars, reportVars, aliveVars
<1>4. cpc'[c] = "track" /\ snap'[c] = userLimit[UserOf[c]]
    BY ZenonT(60), <1>2 DEF NewDeviceOverLimit
<1>5. \A d \in Conns : Twin(c, d) => ~Checking(d)'
    BY ZenonT(60), <1>2 DEF Twin, Checking
<1> QED
    <2>1. /\ oldOnline[IpOf[c]] = None
          /\ onlineIP[UserOf[c]] # None => IpOf[c] \notin ips[onlineIP[UserOf[c]]]
        BY ZenonT(60), <1>2 DEF NewDeviceOverLimit, KnownDevice, HeldByAnother
    <2> QED
        BY ZenonT(60), <1>2, <1>3, <1>4, <1>5, <2>1 DEF StaysOut, OnTheWayOut, Refused,
            Twin, NewDeviceOverLimit

(* Each later step of the check moves on towards the refusal. *)
LEMMA OverMoves ==
    ASSUME TypeOK, OverInv, NEW c \in Conns, CheckLimit(c), ~LoadLimit(c), c \in over'
    PROVE  StaysOut(c)'
<1> USE DEF TypeOK
<1>1. /\ over' = over /\ UNCHANGED <<rpc, userLimit, aliveList, snap>>
      /\ Checking(c) /\ \E s : cpc' = [cpc EXCEPT ![c] = s]
    BY ZenonT(60) DEF CheckLimit, TrackDevice, InsertIp, CheckOldOnline, DeleteOldOnline,
        UndoOnline, TakeBucket, StoreBucket, Goto, Checking, limitVars, connVars,
        loadVars, reportVars, aliveVars
<1>2. cpc[c] \in OnTheWayOut /\ Refused(c)
    BY ZenonT(60), <1>1 DEF OverInv, StaysOut
<1>3. \A d \in Conns : Twin(c, d) => ~Checking(d)'
    BY ZenonT(60), <1>1, <1>2 DEF Twin, Checking, Refused
<1>4. CASE TrackDevice(c)
    <2>1. /\ cpc[c] = "track" /\ UNCHANGED oldOnline
          /\ aliveIp'[c] = aliveList[UserOf[c]]
          /\ ipMap'[c] = IF onlineIP[UserOf[c]] = None THEN c ELSE onlineIP[UserOf[c]]
          /\ cpc'[c] = IF onlineIP[UserOf[c]] = None THEN "oldFirst" ELSE "insert"
          /\ onlineIP[UserOf[c]] # None => ips' = ips
        BY ZenonT(60), <1>4 DEF TrackDevice, Goto
    <2>2. TooMany(c)'
        BY ZenonT(60), <1>1, <1>2, <2>1 DEF TooMany, Refused
    <2>3. cpc'[c] \in {"oldFirst", "insert"}
        BY ZenonT(60), <2>1
    <2>4. cpc'[c] = "insert" => ipMap'[c] # None /\ IpOf[c] \notin ips'[ipMap'[c]]
        BY ZenonT(60), <1>2, <2>1 DEF Refused
    <2> QED
        BY ZenonT(60), <1>1, <1>2, <1>3, <2>1, <2>2, <2>3, <2>4
            DEF StaysOut, OnTheWayOut, Refused, Twin
<1>5. CASE InsertIp(c)
    <2>1. /\ cpc[c] = "insert" /\ UNCHANGED <<oldOnline, aliveIp>>
          /\ cpc'[c] = IF IpOf[c] \in ips[ipMap[c]] THEN "bucket" ELSE "old"
        BY ZenonT(60), <1>5 DEF InsertIp, Goto, connVars, loadVars
    <2>2. cpc'[c] = "old" /\ TooMany(c)'
        BY ZenonT(60), <1>1, <1>2, <2>1 DEF TooMany, Refused
    <2> QED
        BY ZenonT(60), <1>1, <1>2, <1>3, <2>1, <2>2
            DEF StaysOut, OnTheWayOut, Refused, Twin
<1>6. CASE CheckOldOnline(c)
    <2>1. /\ cpc[c] \in {"old", "oldFirst"} /\ UNCHANGED <<oldOnline, aliveIp>>
          /\ oldOnline[IpOf[c]] = None /\ UserOf[c] # None /\ TooMany(c)
        BY ZenonT(60), <1>2, <1>6 DEF CheckOldOnline, deviceVars, connVars, loadVars, Refused
    <2>2. cpc'[c] \in {"undo", "undoFirst"} /\ TooMany(c)'
        BY ZenonT(60), <1>1, <1>6, <2>1 DEF CheckOldOnline, Goto, TooMany
    <2> QED
        BY ZenonT(60), <1>1, <1>2, <1>3, <2>1, <2>2
            DEF StaysOut, OnTheWayOut, Refused, Twin
<1>7. CASE UndoOnline(c)
    BY ZenonT(60), <1>7 DEF UndoOnline, Goto, StaysOut, OnTheWayOut, Checking
<1>8. ~(DeleteOldOnline(c) \/ TakeBucket(c) \/ StoreBucket(c))
    BY ZenonT(60), <1>2 DEF DeleteOldOnline, TakeBucket, StoreBucket, OnTheWayOut
<1> QED
    BY ZenonT(60), <1>4, <1>5, <1>6, <1>7, <1>8 DEF CheckLimit

(* An ip map in use is one of a connection of the user. *)
LEMMA Owners ==
    ASSUME TypeOK, TraceInv, NEW c \in Conns
    PROVE  /\ ipMap[c] # None => ipMap[c] \in Conns /\ UserOf[ipMap[c]] = UserOf[c]
           /\ onlineIP[UserOf[c]] # None =>
                 /\ onlineIP[UserOf[c]] \in Conns
                 /\ UserOf[onlineIP[UserOf[c]]] = UserOf[c]
<1>1. ipMap[c] \in Conns \cup {None} /\ onlineIP[UserOf[c]] \in Conns \cup {None}
    <2>1. /\ ipMap \in [Conns -> Conns \cup {None}] /\ UserOf[c] \in Users
          /\ onlineIP \in [Users -> Conns \cup {None}]
        BY ZenonT(60) DEF TypeOK
    <2> QED
        BY ZenonT(60), <2>1
<1>2. /\ ipMap[c] # None => UserOf[ipMap[c]] = UserOf[c]
      /\ onlineIP[UserOf[c]] # None => UserOf[onlineIP[UserOf[c]]] = UserOf[c]
    <2>1. UserOf[c] \in Users
        BY ZenonT(60)
    <2> QED
        BY ZenonT(60), <2>1 DEF TraceInv
<1> QED
    BY ZenonT(60), <1>1, <1>2

(* The check of another connection d leaves the address of c out of both    *)
(* maps: d comes from another device.                                       *)
LEMMA OverOthers ==
    ASSUME TypeOK, TraceInv, OverInv, NEW c \in over', NEW d \in Conns \ {c}, CheckLimit(d)
    PROVE  StaysOut(c)'
<1> USE DEF TypeOK
<1>1. /\ c \in over /\ c \in Conns
      /\ UNCHANGED <<rpc, userLimit, aliveList>> /\ cpc'[c] = cpc[c]
      /\ snap'[c] = snap[c] /\ aliveIp'[c] = aliveIp[c] /\ ipMap'[c] = ipMap[c]
      /\ oldOnline'[IpOf[c]] \in {oldOnline[IpOf[c]], None}
      /\ \E s : cpc' = [cpc EXCEPT ![d] = s]
    <2>1. c \in over /\ c \in Conns
        <3>1. over' \subseteq over \cup {d}
            BY ZenonT(60) DEF CheckLimit, LoadLimit, TrackDevice, InsertIp, CheckOldOnline,
                DeleteOldOnline, UndoOnline, TakeBucket, StoreBucket, connVars
        <3> QED
            BY ZenonT(60), <3>1
    <2>2. \E s : cpc' = [cpc EXCEPT ![d] = s]
        BY ZenonT(60) DEF CheckLimit, LoadLimit, TrackDevice, InsertIp, CheckOldOnline,
            DeleteOldOnline, UndoOnline, TakeBucket, StoreBucket, Goto
    <2>3. UNCHANGED <<rpc, userLimit, aliveList>>
        BY ZenonT(60) DEF CheckLimit, LoadLimit, TrackDevice, InsertIp, CheckOldOnline,
            DeleteOldOnline, UndoOnline, TakeBucket, StoreBucket, limitVars, reportVars,
            aliveVars
    <2>4. snap'[c] = snap[c] /\ aliveIp'[c] = aliveIp[c] /\ ipMap'[c] = ipMap[c]
        BY ZenonT(60), <2>1 DEF CheckLimit, LoadLimit, TrackDevice, InsertIp, CheckOldOnline,
            DeleteOldOnline, UndoOnline, TakeBucket, StoreBucket, connVars, loadVars
    <2>5. oldOnline'[IpOf[c]] \in {oldOnline[IpOf[c]], None}
        BY ZenonT(60), <2>1 DEF CheckLimit, LoadLimit, TrackDevice, InsertIp, CheckOldOnline,
            DeleteOldOnline, UndoOnline, TakeBucket, StoreBucket, deviceVars
    <2>6. cpc'[c] = cpc[c]
        BY ZenonT(60), <2>1, <2>2
    <2> QED
        BY ZenonT(60), <2>1, <2>2, <2>3, <2>4, <2>5, <2>6
<1>2. cpc[c] \in OnTheWayOut /\ (Checking(c)' <=> Checking(c))
    BY ZenonT(60), <1>1 DEF OverInv, StaysOut, Checking
<1> SUFFICES ASSUME Checking(c) PROVE Refused(c)'
    BY ZenonT(60), <1>1, <1>2 DEF StaysOut
<1>3. Refused(c)
    BY ZenonT(60), <1>1 DEF OverInv, StaysOut
<1>4. Checking(d)' => ~Twin(c, d)
    <2>1. CASE LoadLimit(d)
        <3> SUFFICES ASSUME Checking(d)', Twin(c, d) PROVE FALSE
            OBVIOUS
        <3>1. c \in {e \in Conns : Checking(e) /\ UserOf[e] = UserOf[d] /\ IpOf[e] = IpOf[d]}
            BY ZenonT(60), <1>1 DEF Twin
        <3>2. cpc'[d] # "rejected"
            BY ZenonT(60) DEF Checking
        <3>3. over' = over \ {e \in Conns : Checking(e) /\ UserOf[e] = UserOf[d]
                                            /\ IpOf[e] = IpOf[d]}
            BY ZenonT(60), <2>1, <3>1, <3>2 DEF LoadLimit, Goto
        <3> QED
            BY ZenonT(60), <3>1, <3>3
    <2>2. CASE ~LoadLimit(d)
        <3>1. Checking(d)
            BY ZenonT(60), <2>2 DEF CheckLimit, TrackDevice, InsertIp, CheckOldOnline,
                DeleteOldOnline, UndoOnline, TakeBucket, StoreBucket, Checking
        <3> QED
            BY ZenonT(60), <1>3, <3>1 DEF Refused
    <2> QED
        BY ZenonT(60), <2>1, <2>2
<1>5. \A e \in Conns : Twin(c, e) => ~Checking(e)'
    <2> SUFFICES ASSUME NEW e \in Conns, e # d, Twin(c, e) PROVE ~Checking(e)'
        BY ZenonT(60), <1>4
    <2> QED
        BY ZenonT(60), <1>1, <1>3 DEF Refused, Checking
<1>6. TooMany(c)' <=> TooMany(c)
    BY ZenonT(60), <1>1 DEF TooMany
<1>7. /\ \A m \in Conns : UserOf[m] = UserOf[c] /\ IpOf[c] \notin ips[m] =>
                IpOf[c] \notin ips'[m]
      /\ onlineIP'[UserOf[c]] # None =>
             \/ onlineIP'[UserOf[c]] = onlineIP[UserOf[c]]
             \/ onlineIP'[UserOf[c]] = d /\ IpOf[c] \notin ips'[d]
    <2>1. CASE TrackDevice(d)
        <3>1. IpOf[d] # IpOf[c] \/ UserOf[d] # UserOf[c]
            BY ZenonT(60), <1>3, <2>1 DEF TrackDevice, Refused, Twin, Checking
        <3>2. /\ ips' = IF onlineIP[UserOf[d]] = None THEN [ips EXCEPT ![d] = {IpOf[d]}] ELSE ips
              /\ onlineIP' = [onlineIP EXCEPT ![UserOf[d]] =
                    IF onlineIP[UserOf[d]] = None THEN d ELSE onlineIP[UserOf[d]]]
            BY ZenonT(60), <2>1 DEF TrackDevice
        <3>3. CASE onlineIP[UserOf[d]] = None
            <4>1. ips' = [ips EXCEPT ![d] = {IpOf[d]}] /\ onlineIP' = [onlineIP EXCEPT ![UserOf[d]] = d]
                BY ZenonT(60), <3>2, <3>3
            <4> QED
                BY ZenonT(60), <1>1, <3>1, <4>1
        <3>4. CASE onlineIP[UserOf[d]] # None
            <4>1. ips' = ips /\ onlineIP' = [onlineIP EXCEPT ![UserOf[d]] = onlineIP[UserOf[d]]]
                BY ZenonT(60), <3>2, <3>4
            <4> QED
                BY ZenonT(60), <1>1, <4>1
        <3> QED
            BY ZenonT(60), <3>3, <3>4
    <2>2. CASE InsertIp(d)
        <3>1. IpOf[d] # IpOf[c] \/ UserOf[d] # UserOf[c]
            BY ZenonT(60), <1>3, <2>2 DEF InsertIp, Refused, Twin, Checking
        <3>2. ips' = [ips EXCEPT ![ipMap[d]] = ips[ipMap[d]] \cup {IpOf[d]}] /\ onlineIP' = onlineIP
            BY ZenonT(60), <2>2 DEF InsertIp
        <3>3. \A m \in Conns : m = ipMap[d] => UserOf[m] = UserOf[d]
            <4>1. d \in Conns /\ (ipMap[d] # None => UserOf[ipMap[d]] = UserOf[d])
                BY ZenonT(60), Owners
            <4>2. \A m \in Conns : m # None
                BY ZenonT(60)
            <4> HIDE DEF TypeOK
            <4> QED
                BY ZenonT(60), <4>1, <4>2
        <3> QED
            BY ZenonT(60), <3>1, <3>2, <3>3
    <2>3. CASE UndoOnline(d)
        <3>1. CASE ips' = [ips EXCEPT ![ipMap[d]] = ips[ipMap[d]] \ {IpOf[d]}] /\ onlineIP' = onlineIP
            BY ZenonT(60), <3>1
        <3>2. CASE onlineIP' = [onlineIP EXCEPT ![UserOf[d]] = None] /\ ips' = ips
            BY ZenonT(60), <1>1, <3>2
        <3> QED
            BY ZenonT(60), <2>3, <3>1, <3>2 DEF UndoOnline
    <2>4. CASE LoadLimit(d) \/ CheckOldOnline(d) \/ DeleteOldOnline(d) \/ TakeBucket(d)
               \/ StoreBucket(d)
        BY ZenonT(60), <2>4 DEF LoadLimit, CheckOldOnline, DeleteOldOnline, TakeBucket,
            StoreBucket, deviceVars
    <2> QED
        BY ZenonT(60), <2>1, <2>2, <2>3, <2>4 DEF CheckLimit
<1>8. cpc[c] = "track" => (onlineIP'[UserOf[c]] # None => IpOf[c] \notin ips'[onlineIP'[UserOf[c]]])
    <2>1. onlineIP[UserOf[c]] # None => /\ onlineIP[UserOf[c]] \in Conns
                                        /\ UserOf[onlineIP[UserOf[c]]] = UserOf[c]
        BY ZenonT(60), <1>1, Owners
    <2> QED
        BY ZenonT(60), <1>3, <1>7, <2>1 DEF Refused
<1>9. cpc[c] = "insert" => ipMap[c] # None /\ IpOf[c] \notin ips'[ipMap[c]]
    <2>1. ipMap[c] # None => ipMap[c] \in Conns /\ UserOf[ipMap[c]] = UserOf[c]
        BY ZenonT(60), <1>1, Owners
    <2> QED
        BY ZenonT(60), <1>3, <1>7, <2>1 DEF Refused
<1> HIDE DEF TypeOK
<1> QED
    BY ZenonT(60), <1>1, <1>3, <1>5, <1>6, <1>8, <1>9 DEF Refused, Twin

(* Updates and reports either end the promise or work on another user. *)
LEMMA OverUpdates ==
    ASSUME TypeOK, GenInv, OverInv, [Next]_vars, ~(\E c \in Conns : CheckLimit(c)),
           NEW c \in over'
    PROVE  StaysOut(c)'
<1> USE DEF TypeOK
<1>1. ~(\/ \E u \in Users, new \in Settings \cup {None} : BeginUpdate(u, new)
        \/ SetAlive \/ BeginReport)
    BY ZenonT(60) DEF BeginUpdate, SetAlive, BeginReport
<1>2. /\ c \in over /\ c \in Conns /\ UNCHANGED <<cpc, snap, aliveIp, ipMap, ips>>
    BY ZenonT(60), <1>1 DEF Next, DeleteOnline, DeleteSpeed, DeleteAlive, AddUser, RangeUser,
        DropOnline, EndReport, vars, connVars, loadVars, deviceVars
<1>3. cpc[c] \in OnTheWayOut /\ (Checking(c)' <=> Checking(c))
    BY ZenonT(60), <1>2 DEF OverInv, StaysOut, Checking
<1> SUFFICES ASSUME Checking(c) PROVE Refused(c)'
    BY ZenonT(60), <1>2, <1>3 DEF StaysOut
<1>4. Refused(c)
    BY ZenonT(60), <1>2 DEF OverInv, StaysOut
<1>5. ~(DropOnline \/ EndReport \/ \E u \in Users : RangeUser(u))
    BY ZenonT(60), <1>4 DEF DropOnline, EndReport, RangeUser, Refused
<1>6. UNCHANGED <<rpc, oldOnline>>
    BY ZenonT(60), <1>1, <1>5 DEF Next, DeleteOnline, DeleteSpeed, DeleteAlive, AddUser, vars,
        deviceVars, reportVars
<1>7. upc # "idle" => ucur # UserOf[c]
    BY ZenonT(60), <1>4 DEF GenInv, Refused
<1>8. /\ userLimit'[UserOf[c]] = userLimit[UserOf[c]]
      /\ onlineIP'[UserOf[c]] = onlineIP[UserOf[c]]
      /\ aliveList'[UserOf[c]] = aliveList[UserOf[c]]
    <2>0. /\ UserOf[c] \in Users /\ userLimit \in [Users -> Settings \cup {None}]
          /\ onlineIP \in [Users -> Conns \cup {None}] /\ aliveList \in [Users -> Alives]
        BY ZenonT(60), <1>2
    <2> HIDE DEF TypeOK
    <2>1. CASE DeleteOnline
        BY ZenonT(60), <1>7, <2>0, <2>1 DEF DeleteOnline, limitVars, aliveVars
    <2>2. CASE DeleteSpeed
        BY ZenonT(60), <2>2 DEF DeleteSpeed, limitVars, deviceVars, aliveVars
    <2>3. CASE DeleteAlive
        BY ZenonT(60), <1>7, <2>0, <2>3 DEF DeleteAlive, limitVars, deviceVars
    <2>4. CASE AddUser
        BY ZenonT(60), <1>7, <2>0, <2>4 DEF AddUser, deviceVars, aliveVars
    <2>5. CASE UNCHANGED vars
        BY ZenonT(60), <2>5 DEF vars, limitVars, deviceVars, aliveVars
    <2> QED
        BY ZenonT(60), <1>1, <1>5, <2>1, <2>2, <2>3, <2>4, <2>5 DEF Next
<1> QED
    BY ZenonT(60), <1>2, <1>4, <1>6, <1>8 DEF Refused, Twin, Checking, TooMany

(* A connection that CheckLimit turns away, other than a stranger's, has    *)
(* found its user at the limit.                                             *)
TurnedAway ==
    \A c \in Conns :
        /\ cpc[c] = "new" => snap[c] = None
        /\ cpc[c] \in {"undo", "undoFirst"} => TooMany(c)
        /\ cpc[c] = "rejected" => snap[c] = None \/ TooMany(c)

LEMMA TurnedAwayStep ==
    ASSUME TypeOK, TurnedAway, [Next]_vars PROVE TurnedAway'
<1> USE DEF TypeOK, TurnedAway
<1>1. ASSUME NEW c \in Conns, CheckLimit(c) PROVE TurnedAway'
    <2>1. \A d \in Conns \ {c} :
             cpc'[d] = cpc[d] /\ snap'[d] = snap[d] /\ aliveIp'[d] = aliveIp[d]
        BY ZenonT(60), <1>1 DEF CheckLimit, LoadLimit, TrackDevice, InsertIp,
            CheckOldOnline, DeleteOldOnline, UndoOnline, TakeBucket, StoreBucket, Goto,
            connVars, loadVars
    <2>2. CASE LoadLimit(c)
        <3>1. \/ cpc'[c] = "rejected" /\ snap'[c] = None
              \/ cpc'[c] \in {"track", "bucket"}
            BY ZenonT(60), <2>2 DEF LoadLimit, Goto
        <3> QED
            BY ZenonT(60), <2>1, <3>1 DEF TooMany
    <2>3. CASE CheckOldOnline(c)
        <3>1. /\ UNCHANGED <<snap, aliveIp>>
              /\ \/ cpc'[c] \in {"delOld", "bucket"}
                 \/ cpc'[c] \in {"undo", "undoFirst"} /\ TooMany(c)
            BY ZenonT(60), <2>3 DEF CheckOldOnline, Goto, connVars, loadVars
        <3> QED
            BY ZenonT(60), <2>1, <3>1 DEF TooMany
    <2>4. CASE UndoOnline(c)
        <3>1. /\ UNCHANGED <<snap, aliveIp>>
              /\ cpc[c] \in {"undo", "undoFirst"} /\ cpc'[c] = "rejected"
            BY ZenonT(60), <2>4 DEF UndoOnline, Goto, connVars, loadVars
        <3> QED
            BY ZenonT(60), <2>1, <3>1 DEF TooMany
    <2>5. CASE TrackDevice(c) \/ InsertIp(c) \/ DeleteOldOnline(c) \/ TakeBucket(c)
               \/ StoreBucket(c)
        <3>1. cpc'[c] \in {"oldFirst", "insert", "old", "bucket", "store", "admitted"}
            BY ZenonT(60), <2>5 DEF TrackDevice, InsertIp, DeleteOldOnline, TakeBucket,
                StoreBucket, Goto
        <3> QED
            BY ZenonT(60), <2>1, <3>1 DEF TooMany
    <2> QED
        BY ZenonT(60), <1>1, <2>2, <2>3, <2>4, <2>5 DEF CheckLimit
<1>2. CASE ~(\E c \in Conns : CheckLimit(c))
    <2>1. UNCHANGED <<cpc, snap, aliveIp>>
        BY ZenonT(60), <1>2 DEF Next, BeginUpdate, DeleteOnline, DeleteSpeed, DeleteAlive,
            AddUser, SetAlive, BeginReport, RangeUser, DropOnline, EndReport, connVars,
            loadVars, vars
    <2> QED
        BY ZenonT(60), <2>1 DEF TooMany
<1> QED
    BY ZenonT(60), <1>1, <1>2

(* A user at the device limit gets no connection from one more device,      *)
(* however many checks of other devices and updates of other users run      *)
(* beside the check of this one; an address that the last report has under  *)
(* another user is the exception.  A known user is turned away only at the  *)
(* limit.                                                                   *)
THEOREM DeviceLimitIsEnforced == Spec => []DeviceLimitEnforced
<1>1. Init => TraceInv /\ GenInv /\ OverInv /\ TurnedAway
    BY ZenonT(60) DEF Init, TraceInv, GenInv, OverInv, TurnedAway
<1>2. TypeOK /\ TraceInv /\ GenInv /\ OverInv /\ [Next]_vars => (TraceInv /\ GenInv /\ OverInv)'
    <2> SUFFICES ASSUME TypeOK, TraceInv, GenInv, OverInv, [Next]_vars,
                        NEW c \in over'
                 PROVE  StaysOut(c)'
        BY ZenonT(60), CheckTrace, OtherTrace, GenStep DEF OverInv
    <2>1. ASSUME NEW d \in Conns, CheckLimit(d) PROVE StaysOut(c)'
        <3>1. CASE d = c
            BY ZenonT(60), <2>1, <3>1, OverLoads, OverMoves
        <3>2. CASE d # c
            BY ZenonT(60), <2>1, <3>2, OverOthers
        <3> QED
            BY ZenonT(60), <3>1, <3>2
    <2> QED
        BY ZenonT(60), <2>1, OverUpdates
<1>3. TypeOK /\ TurnedAway /\ [Next]_vars => TurnedAway'
    BY ZenonT(60), TurnedAwayStep
<1>4. TypeOK /\ OverInv /\ TurnedAway => DeviceLimitEnforced
    <2> SUFFICES ASSUME TypeOK, OverInv, TurnedAway PROVE DeviceLimitEnforced
        OBVIOUS
    <2>1. \A c \in over : cpc[c] # "admitted"
        BY ZenonT(60) DEF OverInv, StaysOut, OnTheWayOut
    <2> SUFFICES ASSUME NEW c \in Conns, cpc[c] = "rejected", snap[c] # None
                 PROVE  snap[c].device > 0 /\ aliveIp[c] >= snap[c].device
        BY ZenonT(60), <2>1 DEF DeviceLimitEnforced
    <2>2. TooMany(c)
        BY ZenonT(60) DEF TurnedAway
    <2>3. aliveIp[c] \in Nat /\ snap[c].device \in Nat
        BY DEF TypeOK, Settings
    <2> QED
        BY <2>2, <2>3 DEF TooMany
<1> QED
    BY <1>1, <1>2, <1>3, <1>4, LimiterTypeCorrect, PTL DEF Spec
=============================================================================
