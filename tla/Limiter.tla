------------------------------- MODULE Limiter --------------------------------
(***************************************************************************)
(* The limiter of one node (limiter/limiter.go, limiter/dynamic.go):       *)
(* CheckLimit runs in the goroutine of every new connection, UpdateUser    *)
(* and the new AliveList come from the monitor, GetOnlineDevice from the   *)
(* report task.  Each call on a sync.Map is one step, so the three         *)
(* interleave between any two of them.                                     *)
(*                                                                         *)
(* A connection runs CheckLimit once; the ip map and the token bucket it   *)
(* may create are named after it.  The uid of a user is the user.  Nothing *)
(* starts the dynamic speed limit, so ExpireTime stays 0.                  *)
(***************************************************************************)
EXTENDS Naturals, FiniteSets

CONSTANTS
    Users, Ips, None,
    Conns, UserOf, IpOf,    \* connections, their users and their addresses
    NoSSUDP,        \* the connections that are not Shadowsocks UDP
    NodeLimit,      \* SpeedLimit of the node, 0 for none
    Speeds, Devices, Alives,    \* values of the limits and of alive_ip
    MaxOps          \* bound: updates, reports and new alive lists

ASSUME ConnAssumption ==
    /\ UserOf \in [Conns -> Users]
    /\ IpOf \in [Conns -> Ips]
    /\ NoSSUDP \subseteq Conns
    /\ None \notin Users \cup Conns
ASSUME LimitAssumption ==
    /\ NodeLimit \in Nat
    /\ Speeds \cup Devices \cup Alives \subseteq Nat
    /\ 0 \in Alives

Settings == [speed : Speeds, device : Devices]
ASSUME SettingsAssumption == None \notin Settings

VARIABLES
    userLimit,  \* UserLimitInfo
    onlineIP,   \* UserOnlineIP: user -> ip map
    ips,        \* the ip maps: the addresses in each
    oldOnline,  \* OldUserOnline: ip -> user
    aliveList,  \* AliveList: user -> alive_ip
    bucketOf,   \* SpeedLimiter: user -> bucket
    rate,       \* the rate each bucket was made with
    cpc,        \* where each connection is in CheckLimit
    snap,       \* the UserLimitInfo it loaded
    aliveIp,    \* the alive_ip it read
    ipMap,      \* the ip map it works on
    bucket,     \* the bucket it was given
    upc, ucur, unew,    \* UpdateUser: its next step, user and new settings
    gen,        \* per user, odd while UpdateUser works on the user
    raced,      \* users updated while a check of theirs was under way
    rpc, rcur, rtodo,   \* GetOnlineDevice: its next step, user and users left
    ops,        \* updates, reports and new alive lists so far
    began,      \* gen when the connection loaded its limits
    over        \* connections of new devices above the device limit (see
                \* NewDeviceOverLimit) whose check no update, report or
                \* check of the device overlaps

limitVars == <<userLimit, gen, raced>>
deviceVars == <<onlineIP, ips, oldOnline>>
bucketVars == <<bucketOf, rate, bucket>>
loadVars == <<snap, aliveIp, ipMap, began>>
connVars == <<loadVars, over>>
updateVars == <<upc, ucur, unew>>
reportVars == <<rpc, rcur, rtodo>>
aliveVars == <<aliveList, ops>>
vars == <<limitVars, deviceVars, bucketVars, cpc, connVars, updateVars,
          reportVars, aliveVars>>

CheckSteps == {"new", "track", "insert", "old", "oldFirst", "delOld", "undo",
               "undoFirst", "bucket", "store", "admitted", "rejected"}
UpdateSteps == {"idle", "online", "speed", "alive", "add"}

(* The maps of the limiter and the locals of its callers have their types. *)
TypeOK ==
    /\ userLimit \in [Users -> Settings \cup {None}]
    /\ onlineIP \in [Users -> Conns \cup {None}]
    /\ ips \in [Conns -> SUBSET Ips]
    /\ oldOnline \in [Ips -> Users \cup {None}]
    /\ aliveList \in [Users -> Alives]
    /\ bucketOf \in [Users -> Conns \cup {None}]
    /\ rate \in [Conns -> Nat]
    /\ cpc \in [Conns -> CheckSteps]
    /\ snap \in [Conns -> Settings \cup {None}]
    /\ aliveIp \in [Conns -> Alives]
    /\ ipMap \in [Conns -> Conns \cup {None}]
    /\ bucket \in [Conns -> Conns \cup {None}]
    /\ upc \in UpdateSteps /\ ucur \in Users \cup {None}
    /\ unew \in Settings \cup {None}
    /\ gen \in [Users -> Nat] /\ raced \in SUBSET Users
    /\ rpc \in {"idle", "range", "drop"} /\ rcur \in Users \cup {None}
    /\ rtodo \in SUBSET Users
    /\ ops \in Nat
    /\ began \in [Conns -> Nat]
    /\ over \in SUBSET Conns

\* AddLimiter.
Init ==
    /\ userLimit \in [Users -> Settings]
    /\ onlineIP = [u \in Users |-> None]
    /\ ips = [m \in Conns |-> {}]
    /\ oldOnline = [i \in Ips |-> None]
    /\ aliveList \in [Users -> Alives]
    /\ bucketOf = [u \in Users |-> None]
    /\ rate = [c \in Conns |-> 0]
    /\ cpc = [c \in Conns |-> "new"]
    /\ snap = [c \in Conns |-> None]
    /\ aliveIp = [c \in Conns |-> 0]
    /\ ipMap = [c \in Conns |-> None]
    /\ bucket = [c \in Conns |-> None]
    /\ upc = "idle" /\ ucur = None /\ unew = None
    /\ gen = [u \in Users |-> 0] /\ raced = {}
    /\ rpc = "idle" /\ rcur = None /\ rtodo = {}
    /\ ops = 0
    /\ began = [c \in Conns |-> 0]
    /\ over = {}

-----------------------------------------------------------------------------
\* Mutant: the smaller limit wins even when it is 0, which means none.
determineSpeedLimitMin(limit1, limit2) == IF limit1 < limit2 THEN limit1 ELSE limit2

determineSpeedLimit(limit1, limit2) ==
    IF limit1 = 0 \/ limit2 = 0
    THEN IF limit1 > limit2 THEN limit1 ELSE limit2
    ELSE IF limit1 > limit2 THEN limit2 ELSE limit1

Goto(c, step) == cpc' = [cpc EXCEPT ![c] = step]

Checking(c) == cpc[c] \notin {"new", "admitted", "rejected"}

\* The device of c is online for its user, or was in the last report.
KnownDevice(c) ==
    \/ onlineIP[UserOf[c]] # None /\ IpOf[c] \in ips[onlineIP[UserOf[c]]]
    \/ oldOnline[IpOf[c]] = UserOf[c]

\* The last report has the address of c under another user: CheckLimit then
\* skips the device limit (its branch for OldUserOnline, with another uid).
HeldByAnother(c) == oldOnline[IpOf[c]] \notin {None, UserOf[c]}

\* A new device of a user at the device limit, to which the limit applies.
NewDeviceOverLimit(c) ==
    LET u == UserOf[c]
    IN  /\ c \in NoSSUDP
        /\ userLimit[u].device > 0 /\ userLimit[u].device <= aliveList[u]
        /\ ~KnownDevice(c) /\ ~HeldByAnother(c)

\* UserLimitInfo.Load: a stranger is rejected.
LoadLimit(c) ==
    LET u == UserOf[c]
        twins == {d \in Conns : Checking(d) /\ UserOf[d] = u /\ IpOf[d] = IpOf[c]}
        alone == twins = {} /\ rpc = "idle"
    IN  /\ cpc[c] = "new"
        /\ \/ /\ userLimit[u] = None
              /\ Goto(c, "rejected")
              /\ UNCHANGED <<snap, began, over>>
           \/ /\ userLimit[u] # None
              /\ Goto(c, IF c \in NoSSUDP THEN "track" ELSE "bucket")
              /\ snap' = [snap EXCEPT ![c] = userLimit[u]]
              /\ began' = [began EXCEPT ![c] = gen[u]]
              /\ over' = IF alone /\ NewDeviceOverLimit(c) THEN over \cup {c}
                                                           ELSE over \ twins
        /\ UNCHANGED <<limitVars, deviceVars, bucketVars, aliveIp, ipMap,
                       updateVars, reportVars, aliveVars>>

\* AliveList is read, then UserOnlineIP.LoadOrStore.
TrackDevice(c) ==
    LET u == UserOf[c]
        first == onlineIP[u] = None
        m == IF first THEN c ELSE onlineIP[u]
    IN  /\ cpc[c] = "track"
        /\ aliveIp' = [aliveIp EXCEPT ![c] = aliveList[u]]
        /\ ipMap' = [ipMap EXCEPT ![c] = m]
        /\ onlineIP' = [onlineIP EXCEPT ![u] = m]
        /\ ips' = IF first THEN [ips EXCEPT ![c] = {IpOf[c]}] ELSE ips
        /\ Goto(c, IF first THEN "oldFirst" ELSE "insert")
        /\ UNCHANGED <<limitVars, oldOnline, bucketVars, snap, began, over,
                       updateVars, reportVars, aliveVars>>

\* oldipMap.LoadOrStore(ip, uid).
InsertIp(c) ==
    /\ cpc[c] = "insert"
    /\ Goto(c, IF IpOf[c] \in ips[ipMap[c]] THEN "bucket" ELSE "old")
    /\ ips' = [ips EXCEPT ![ipMap[c]] = @ \cup {IpOf[c]}]
    /\ UNCHANGED <<limitVars, onlineIP, oldOnline, bucketVars, connVars,
                   updateVars, reportVars, aliveVars>>

\* Mutant: one device more than the limit is let in.
TooManyByOne(c) == snap[c].device > 0 /\ snap[c].device < aliveIp[c]

TooMany(c) == snap[c].device > 0 /\ snap[c].device <= aliveIp[c]

\* OldUserOnline.Load(ip), and the device limit for an unknown address.
CheckOldOnline(c) ==
    LET was == oldOnline[IpOf[c]]
    IN  /\ cpc[c] \in {"old", "oldFirst"}
        /\ \/ /\ was = UserOf[c]
              /\ Goto(c, "delOld")
           \/ /\ was = None /\ TooMany(c)
              /\ Goto(c, IF cpc[c] = "old" THEN "undo" ELSE "undoFirst")
           \/ /\ was # UserOf[c] /\ ~(was = None /\ TooMany(c))
              /\ Goto(c, "bucket")
        /\ UNCHANGED <<limitVars, deviceVars, bucketVars, connVars, updateVars,
                       reportVars, aliveVars>>

DeleteOldOnline(c) ==
    /\ cpc[c] = "delOld"
    /\ oldOnline' = [oldOnline EXCEPT ![IpOf[c]] = None]
    /\ Goto(c, "bucket")
    /\ UNCHANGED <<limitVars, onlineIP, ips, bucketVars, connVars, updateVars,
                   reportVars, aliveVars>>

\* Mutant: a rejected address stays in the map.
UndoOnlineForgotten(c) ==
    /\ cpc[c] \in {"undo", "undoFirst"}
    /\ Goto(c, "rejected")
    /\ UNCHANGED <<limitVars, deviceVars, bucketVars, connVars, updateVars,
                   reportVars, aliveVars>>

\* The rejected address is taken back: from the map, or with the whole entry
\* of the user when this connection created it.
UndoOnline(c) ==
    /\ \/ /\ cpc[c] = "undo"
          /\ ips' = [ips EXCEPT ![ipMap[c]] = @ \ {IpOf[c]}]
          /\ UNCHANGED onlineIP
       \/ /\ cpc[c] = "undoFirst"
          /\ onlineIP' = [onlineIP EXCEPT ![UserOf[c]] = None]
          /\ UNCHANGED ips
    /\ Goto(c, "rejected")
    /\ UNCHANGED <<limitVars, oldOnline, bucketVars, connVars, updateVars,
                   reportVars, aliveVars>>

Rate(c) == determineSpeedLimit(NodeLimit, snap[c].speed)

\* Mutant: Load and Store in place of LoadOrStore.
TakeBucketStores(c) ==
    /\ cpc[c] = "bucket"
    /\ rate' = [rate EXCEPT ![c] = Rate(c)]
    /\ bucket' = [bucket EXCEPT ![c] = IF Rate(c) = 0 THEN None ELSE c]
    /\ Goto(c, IF Rate(c) = 0 THEN "admitted" ELSE "store")
    /\ UNCHANGED <<limitVars, deviceVars, bucketOf, connVars, updateVars,
                   reportVars, aliveVars>>

\* No bucket without a limit; else SpeedLimiter.LoadOrStore of a new one.
TakeBucket(c) ==
    LET u == UserOf[c]
    IN  /\ cpc[c] = "bucket"
        /\ \/ /\ Rate(c) = 0
              /\ Goto(c, "admitted")
              /\ UNCHANGED bucketVars
           \/ /\ Rate(c) > 0 /\ bucketOf[u] # None
              /\ bucket' = [bucket EXCEPT ![c] = bucketOf[u]]
              /\ Goto(c, "admitted")
              /\ UNCHANGED <<bucketOf, rate>>
           \/ /\ Rate(c) > 0 /\ bucketOf[u] = None
              /\ rate' = [rate EXCEPT ![c] = Rate(c)]
              /\ bucketOf' = [bucketOf EXCEPT ![u] = c]
              /\ bucket' = [bucket EXCEPT ![c] = c]
              /\ Goto(c, "store")
        /\ UNCHANGED <<limitVars, deviceVars, connVars, updateVars, reportVars,
                       aliveVars>>

\* The new bucket is stored once more.
StoreBucket(c) ==
    /\ cpc[c] = "store"
    /\ bucketOf' = [bucketOf EXCEPT ![UserOf[c]] = c]
    /\ Goto(c, "admitted")
    /\ UNCHANGED <<limitVars, deviceVars, rate, bucket, connVars, updateVars,
                   reportVars, aliveVars>>

CheckLimit(c) ==
    \/ LoadLimit(c) \/ TrackDevice(c) \/ InsertIp(c) \/ CheckOldOnline(c)
    \/ DeleteOldOnline(c) \/ UndoOnline(c) \/ TakeBucket(c) \/ StoreBucket(c)

-----------------------------------------------------------------------------
\* UpdateUser with u deleted, and added again with the settings new unless
\* they are None; compareUserList lists a known user when the speed differs.
BeginUpdate(u, new) ==
    /\ upc = "idle"
    /\ ops < MaxOps /\ ops' = ops + 1
    /\ \/ userLimit[u] = None /\ new # None
       \/ userLimit[u] # None /\ (new # None => new.speed # userLimit[u].speed)
    /\ upc' = IF userLimit[u] = None THEN "add" ELSE "online"
    /\ ucur' = u /\ unew' = new
    /\ userLimit' = [userLimit EXCEPT ![u] = None]
    /\ gen' = [gen EXCEPT ![u] = @ + 1]
    /\ raced' = IF \E c \in Conns : Checking(c) /\ UserOf[c] = u
                THEN raced \cup {u} ELSE raced
    /\ over' = {}
    /\ UNCHANGED <<deviceVars, bucketVars, cpc, loadVars, reportVars, aliveList>>

DeleteOnline ==
    /\ upc = "online"
    /\ upc' = "speed"
    /\ onlineIP' = [onlineIP EXCEPT ![ucur] = None]
    /\ UNCHANGED <<limitVars, ips, oldOnline, bucketVars, cpc, connVars, ucur,
                   unew, reportVars, aliveVars>>

DeleteSpeed ==
    /\ upc = "speed"
    /\ upc' = "alive"
    /\ bucketOf' = [bucketOf EXCEPT ![ucur] = None]
    /\ UNCHANGED <<limitVars, deviceVars, rate, bucket, cpc, connVars, ucur,
                   unew, reportVars, aliveVars>>

DeleteAlive ==
    /\ upc = "alive"
    /\ upc' = "add"
    /\ aliveList' = [aliveList EXCEPT ![ucur] = 0]
    /\ UNCHANGED <<limitVars, deviceVars, bucketVars, cpc, connVars, ucur, unew,
                   reportVars, ops>>

AddUser ==
    /\ upc = "add"
    /\ upc' = "idle" /\ ucur' = None /\ unew' = None
    /\ userLimit' = [userLimit EXCEPT ![ucur] = unew]
    /\ gen' = [gen EXCEPT ![ucur] = @ + 1]
    /\ UNCHANGED <<raced, deviceVars, bucketVars, cpc, connVars, reportVars,
                   aliveVars>>

\* nodeInfoMonitor replaces the AliveList.
SetAlive ==
    /\ upc = "idle"
    /\ ops < MaxOps /\ ops' = ops + 1
    /\ aliveList' \in [Users -> Alives]
    /\ over' = {}
    /\ UNCHANGED <<limitVars, deviceVars, bucketVars, cpc, loadVars, updateVars,
                   reportVars>>

-----------------------------------------------------------------------------
\* GetOnlineDevice starts with an empty OldUserOnline and ranges over the
\* users online.
BeginReport ==
    /\ rpc = "idle" /\ rpc' = "range"
    /\ ops < MaxOps /\ ops' = ops + 1
    /\ oldOnline' = [i \in Ips |-> None]
    /\ rtodo' = {u \in Users : onlineIP[u] # None}
    /\ over' = {}
    /\ UNCHANGED <<limitVars, onlineIP, ips, bucketVars, cpc, loadVars,
                   updateVars, rcur, aliveList>>

\* The addresses of one user become the old ones; a user whose entry is gone
\* by now is skipped.
RangeUser(u) ==
    /\ rpc = "range" /\ u \in rtodo
    /\ rtodo' = rtodo \ {u}
    /\ \/ /\ onlineIP[u] = None
          /\ UNCHANGED <<rpc, rcur, oldOnline>>
       \/ /\ onlineIP[u] # None
          /\ rpc' = "drop" /\ rcur' = u
          /\ oldOnline' = [i \in Ips |-> IF i \in ips[onlineIP[u]] THEN u
                                         ELSE oldOnline[i]]
    /\ UNCHANGED <<limitVars, onlineIP, ips, bucketVars, cpc, connVars,
                   updateVars, aliveVars>>

DropOnline ==
    /\ rpc = "drop"
    /\ rpc' = "range" /\ rcur' = None
    /\ onlineIP' = [onlineIP EXCEPT ![rcur] = None]
    /\ UNCHANGED <<limitVars, ips, oldOnline, bucketVars, cpc, connVars,
                   updateVars, rtodo, aliveVars>>

EndReport ==
    /\ rpc = "range" /\ rtodo = {}
    /\ rpc' = "idle"
    /\ UNCHANGED <<limitVars, deviceVars, bucketVars, cpc, connVars, updateVars,
                   rcur, rtodo, aliveVars>>

Next ==
    \/ \E c \in Conns : CheckLimit(c)
    \/ \E u \in Users, new \in Settings \cup {None} : BeginUpdate(u, new)
    \/ DeleteOnline \/ DeleteSpeed \/ DeleteAlive \/ AddUser \/ SetAlive
    \/ BeginReport \/ DropOnline \/ EndReport
    \/ \E u \in Users : RangeUser(u)

Spec == Init /\ [][Next]_vars

-----------------------------------------------------------------------------
(* A rejected connection leaves no trace: an address counts as online only  *)
(* for a connection of this user that was admitted or is being checked.     *)
OnlineWasAdmitted ==
    \A u \in Users : onlineIP[u] # None =>
        \A i \in ips[onlineIP[u]] :
            \E c \in Conns : /\ UserOf[c] = u /\ IpOf[c] = i
                            /\ cpc[c] \notin {"new", "rejected"}

\* c was admitted under the limits its user still has.
Current(c) ==
    /\ cpc[c] = "admitted"
    /\ userLimit[UserOf[c]] # None
    /\ began[c] = gen[UserOf[c]]

\* The least of the limits of the node and of the user that are not 0.
LeastLimit(limits) ==
    IF limits \subseteq {0} THEN 0
    ELSE CHOOSE x \in limits \ {0} : \A y \in limits \ {0} : x <= y

(* The connections of a user share one bucket, so that together they stay   *)
(* below the limit; only an update during a check could break this.         *)
SharedBucket ==
    \A c, d \in Conns :
        (Current(c) /\ Current(d) /\ UserOf[c] = UserOf[d] /\ UserOf[c] \notin raced)
            => bucket[c] = bucket[d]

RightSpeed(c) ==
    LET limit == LeastLimit({NodeLimit, userLimit[UserOf[c]].speed})
    IN  /\ limit = 0 <=> bucket[c] = None
        /\ bucket[c] # None => rate[bucket[c]] = limit

(* A connection is limited to the least limit of its node and its user, as  *)
(* they are now, however often the user was updated between two checks.     *)
SpeedLimitCurrent ==
    \A c \in Conns : (Current(c) /\ UserOf[c] \notin raced) => RightSpeed(c)

(* A user at the device limit does not get a connection from one more       *)
(* device, unless a report or another check of this device interferes or    *)
(* the last report has its address under another user, which CheckLimit     *)
(* lets pass whatever the limit; and a known user is turned away only when  *)
(* the limit and the alive_ip this check read say so, not one device below. *)
DeviceLimitEnforced ==
    /\ \A c \in over : cpc[c] # "admitted"
    /\ \A c \in Conns : (cpc[c] = "rejected" /\ snap[c] # None) =>
          snap[c].device > 0 /\ aliveIp[c] >= snap[c].device
=============================================================================
