---------------------------- MODULE TrafficProofs ----------------------------
(***************************************************************************)
(* Traffic is billed once and to its owner, for any number of nodes,       *)
(* users, connections and packets, and the accounting implements Ledger.   *)
(* The first two theorems need each other: a reset by one node's report    *)
(* must not touch the counter another node's report has loaded, which      *)
(* holds because counters only ever hold the packets of one user of one    *)
(* node.                                                                   *)
(***************************************************************************)
EXTENDS Traffic, TLAPS

OwnerIs(p, t, u) == TagOf[ConnOf[p]] = t /\ UserOf[ConnOf[p]] = u
Ranging(t) == rpc[t] \in {"range", "reset"}

(* The maps lead to counters of the right node and user. *)
MapsInv ==
    /\ \A t \in Tags : counterOf[t] # None => TagOf[counterOf[t]] = t
    /\ \A k \in Conns, u \in Users : store[k][u] # None =>
          /\ UserOf[store[k][u]] = u
          /\ TagOf[store[k][u]] = TagOf[k]
    /\ \A c \in Conns : storage[c] # None =>
          /\ UserOf[storage[c]] = UserOf[c]
          /\ TagOf[storage[c]] = TagOf[c]
    /\ \A c \in Conns : cst[c] = "open" => storage[c] # None

(* A report ranges over a counter of its own node, whose remaining keys are *)
(* still there; what it has loaded is still in the counter.                 *)
RangeInv ==
    \A t \in Tags :
        /\ Ranging(t) => /\ rctr[t] # None
                         /\ TagOf[rctr[t]] = t
                         /\ \A u \in rtodo[t] : store[rctr[t]][u] # None
        /\ rpc[t] = "reset" => /\ rcur[t] # None
                               /\ rcur[t] \notin rtodo[t]
                               /\ store[rctr[t]][rcur[t]] # None
                               /\ rsnap[t] \subseteq bytes[store[rctr[t]][rcur[t]]]

(* A counted packet is in one counter, that of its owner, and unreported. *)
CountedInv ==
    /\ \A s \in Conns : \A p \in bytes[s] :
          p \in sent /\ posted[p] = 0 /\ OwnerIs(p, TagOf[s], UserOf[s])
    /\ \A s1, s2 \in Conns : \A p \in bytes[s1] : p \in bytes[s2] => s1 = s2

(* A packet in a slice is its owner's, unreported, and in no counter. *)
SliceInv ==
    \A t \in Tags, u \in Users : \A p \in slice[t][u] :
        /\ p \in sent /\ posted[p] = 0 /\ OwnerIs(p, t, u)
        /\ \A s \in Conns : p \notin bytes[s]

(* What was posted was sent, and posted once; nothing else was received. *)
ReportedInv ==
    \A p \in Packets : /\ posted[p] <= 1 /\ reported[p] <= Attempts
                       /\ posted[p] > 0 => p \in sent
                       /\ posted[p] = 0 => reported[p] = 0

Inv == TypeOK /\ MapsInv /\ RangeInv /\ CountedInv /\ SliceInv /\ ReportedInv

USE ConnAssumption

(* Initially all counters, maps and slices are empty. *)
LEMMA InitInv == Init => Inv
<1> SUFFICES ASSUME Init PROVE Inv
    OBVIOUS
<1> USE BoundAssumption DEF Init
<1>1. TypeOK
    BY DEF TypeOK, Key
<1>2. MapsInv
    BY ZenonT(60) DEF MapsInv
<1>3. RangeInv
    BY ZenonT(60) DEF RangeInv, Ranging
<1>4. CountedInv
    BY ZenonT(60) DEF CountedInv
<1>5. SliceInv
    BY ZenonT(60) DEF SliceInv
<1>6. ReportedInv
    BY DEF ReportedInv, Attempts
<1> QED
    BY ZenonT(60), <1>1, <1>2, <1>3, <1>4, <1>5, <1>6 DEF Inv

(* GetCounter returns a storage of the connection's own node and user and   *)
(* never replaces one that is there.                                        *)
LEMMA GetCounterMaps ==
    ASSUME TypeOK, MapsInv, NEW c \in Conns, NEW k \in Conns,
           TagOf[k] = TagOf[c], GetCounter(c, k)
    PROVE  /\ store' \in [Conns -> [Users -> Conns \cup {None}]]
           /\ storage' \in [Conns -> Conns \cup {None}]
           /\ storage'[c] # None
           /\ \A j \in Conns, u \in Users : store'[j][u] # None =>
                 UserOf[store'[j][u]] = u /\ TagOf[store'[j][u]] = TagOf[j]
           /\ \A d \in Conns : storage'[d] # None =>
                 /\ UserOf[storage'[d]] = UserOf[d]
                 /\ TagOf[storage'[d]] = TagOf[d]
           /\ \A d \in Conns \ {c} : storage'[d] = storage[d]
           /\ \A j \in Conns, u \in Users :
                 store[j][u] # None => store'[j][u] = store[j][u]
<1> DEFINE s == IF store[k][UserOf[c]] = None THEN c ELSE store[k][UserOf[c]]
<1>1. s \in Conns /\ UserOf[s] = UserOf[c] /\ TagOf[s] = TagOf[c]
    BY DEF TypeOK, MapsInv
<1>2. /\ store' = [store EXCEPT ![k] = [@ EXCEPT ![UserOf[c]] = s]]
      /\ storage' = [storage EXCEPT ![c] = s]
    BY ZenonT(60) DEF GetCounter
<1>3. store[k][UserOf[c]] # None => s = store[k][UserOf[c]]
    OBVIOUS
<1> HIDE DEF s
<1> QED
    BY <1>1, <1>2, <1>3 DEF TypeOK, MapsInv

-----------------------------------------------------------------------------
(* The hook of a connection only adds to the maps. *)
LEMMA AttachInv == ASSUME Inv, NEW c \in Conns, Attach(c) PROVE Inv'
<1>1. CASE counterOf[TagOf[c]] = None
    <2>1. /\ cst' = [cst EXCEPT ![c] = "creating"]
          /\ UNCHANGED <<counterVars, bytes, alive, storage, userVars,
                         reportVars, sent,
                      posted, reported, discarded>>
        BY ZenonT(60), <1>1 DEF Attach, counterVars
    <2>2. TypeOK'
        BY ZenonT(60), <2>1 DEF Inv, TypeOK, userVars, reportVars, counterVars
    <2>3. MapsInv'
        BY <2>1 DEF Inv, TypeOK, MapsInv, counterVars
    <2>4. RangeInv' /\ CountedInv' /\ SliceInv' /\ ReportedInv'
        BY <2>1 DEF Inv, RangeInv, Ranging, CountedInv, SliceInv, ReportedInv,
            OwnerIs, counterVars, reportVars
    <2> QED
        BY ZenonT(60), <2>2, <2>3, <2>4 DEF Inv
<1>2. CASE counterOf[TagOf[c]] # None
    <2> DEFINE k == counterOf[TagOf[c]]
    <2>1. k \in Conns /\ TagOf[k] = TagOf[c]
        BY <1>2 DEF Inv, TypeOK, MapsInv
    <2>2. /\ GetCounter(c, k)
          /\ cst' = [cst EXCEPT ![c] = "open"]
          /\ UNCHANGED <<counterOf, bytes, alive, userVars, reportVars, sent,
                         posted, reported, discarded>>
        BY ZenonT(60), <1>2 DEF Attach
    <2> HIDE DEF k
    <2>3. /\ store' \in [Conns -> [Users -> Conns \cup {None}]]
          /\ storage' \in [Conns -> Conns \cup {None}]
          /\ storage'[c] # None
          /\ \A j \in Conns, u \in Users : store'[j][u] # None =>
                UserOf[store'[j][u]] = u /\ TagOf[store'[j][u]] = TagOf[j]
          /\ \A d \in Conns : storage'[d] # None =>
                /\ UserOf[storage'[d]] = UserOf[d]
                /\ TagOf[storage'[d]] = TagOf[d]
          /\ \A d \in Conns \ {c} : storage'[d] = storage[d]
          /\ \A j \in Conns, u \in Users :
                store[j][u] # None => store'[j][u] = store[j][u]
        BY ZenonT(60), <2>1, <2>2, GetCounterMaps DEF Inv
    <2>4. TypeOK'
        BY ZenonT(60), <2>2, <2>3 DEF Inv, TypeOK, userVars, reportVars
    <2>5. MapsInv'
        BY SMTT(60), <2>2, <2>3 DEF Inv, TypeOK, MapsInv
    <2>6. RangeInv'
        BY <2>2, <2>3 DEF Inv, TypeOK, RangeInv, Ranging, reportVars
    <2>7. CountedInv' /\ SliceInv' /\ ReportedInv'
        BY <2>2 DEF Inv, CountedInv, SliceInv, ReportedInv, OwnerIs, reportVars
    <2> QED
        BY ZenonT(60), <2>4, <2>5, <2>6, <2>7 DEF Inv
<1> QED
    BY ZenonT(60), <1>1, <1>2

(* A new TrafficCounter belongs to the connection's node. *)
LEMMA CreateCounterInv == ASSUME Inv, NEW c \in Conns, CreateCounter(c) PROVE Inv'
<1>1. /\ GetCounter(c, c)
      /\ cst' = [cst EXCEPT ![c] = "open"]
      /\ counterOf' = [counterOf EXCEPT ![TagOf[c]] = c]
      /\ UNCHANGED <<bytes, alive, userVars, reportVars, sent, posted,
                     reported, discarded>>
    BY ZenonT(60) DEF CreateCounter
<1>2. /\ store' \in [Conns -> [Users -> Conns \cup {None}]]
      /\ storage' \in [Conns -> Conns \cup {None}]
      /\ storage'[c] # None
      /\ \A j \in Conns, u \in Users : store'[j][u] # None =>
            UserOf[store'[j][u]] = u /\ TagOf[store'[j][u]] = TagOf[j]
      /\ \A d \in Conns : storage'[d] # None =>
            /\ UserOf[storage'[d]] = UserOf[d]
            /\ TagOf[storage'[d]] = TagOf[d]
      /\ \A d \in Conns \ {c} : storage'[d] = storage[d]
      /\ \A j \in Conns, u \in Users :
            store[j][u] # None => store'[j][u] = store[j][u]
    BY ZenonT(60), <1>1, GetCounterMaps DEF Inv
<1>3. TypeOK'
    BY ZenonT(60), <1>1, <1>2 DEF Inv, TypeOK, userVars, reportVars
<1>4. MapsInv'
    BY SMTT(60), <1>1, <1>2 DEF Inv, TypeOK, MapsInv
<1>5. RangeInv'
    BY <1>1, <1>2 DEF Inv, TypeOK, RangeInv, Ranging, reportVars
<1>6. CountedInv' /\ SliceInv' /\ ReportedInv'
    BY <1>1 DEF Inv, CountedInv, SliceInv, ReportedInv, OwnerIs, reportVars
<1> QED
    BY ZenonT(60), <1>3, <1>4, <1>5, <1>6 DEF Inv

(* A transferred packet is new, and goes to a counter of its owner. *)
LEMMA TransferInv == ASSUME Inv, NEW p \in Packets, Transfer(p) PROVE Inv'
<1> DEFINE s == storage[ConnOf[p]]
<1>1. s \in Conns /\ OwnerIs(p, TagOf[s], UserOf[s])
    BY SMTT(60) DEF Inv, TypeOK, MapsInv, Transfer, OwnerIs
<1>2. /\ p \notin sent
      /\ sent' = sent \cup {p}
      /\ bytes' = [bytes EXCEPT ![s] = @ \cup {p}]
      /\ UNCHANGED <<counterVars, connVars, userVars, reportVars, posted,
                     reported, discarded>>
    BY ZenonT(60) DEF Transfer
<1> HIDE DEF s
<1>3. posted[p] = 0
    BY SMTT(60), <1>2 DEF Inv, TypeOK, ReportedInv
<1>4. TypeOK' /\ MapsInv'
    BY SMTT(60), <1>1, <1>2 DEF Inv, TypeOK, MapsInv, counterVars, connVars, userVars,
        reportVars
<1>5. RangeInv'
    BY SMTT(60), <1>1, <1>2 DEF Inv, TypeOK, RangeInv, Ranging, counterVars, reportVars
<1>6. CountedInv'
    BY SMTT(60), <1>1, <1>2, <1>3 DEF Inv, TypeOK, CountedInv, OwnerIs
<1>7. SliceInv' /\ ReportedInv'
    BY <1>1, <1>2 DEF Inv, TypeOK, SliceInv, ReportedInv, OwnerIs, reportVars
<1> QED
    BY ZenonT(60), <1>4, <1>5, <1>6, <1>7 DEF Inv

(* A step that touches no map and no connection leaves the maps right. *)
LEMMA SameMaps ==
    ASSUME MapsInv, counterOf' = counterOf, store' = store, cst' = cst,
           storage' = storage
    PROVE  MapsInv'
BY ZenonT(60) DEF MapsInv

(* A step that touches no map, counter or report leaves the ranges right. *)
LEMMA SameRange ==
    ASSUME RangeInv, store' = store, bytes' = bytes, rpc' = rpc, rctr' = rctr,
           rtodo' = rtodo, rcur' = rcur, rsnap' = rsnap
    PROVE  RangeInv'
<1> SUFFICES ASSUME NEW t \in Tags
             PROVE  /\ Ranging(t) => /\ rctr[t] # None
                                     /\ TagOf[rctr[t]] = t
                                     /\ \A u \in rtodo[t] : store[rctr[t]][u] # None
                    /\ rpc[t] = "reset" =>
                          /\ rcur[t] # None
                          /\ rcur[t] \notin rtodo[t]
                          /\ store[rctr[t]][rcur[t]] # None
                          /\ rsnap[t] \subseteq bytes[store[rctr[t]][rcur[t]]]
    BY SMTT(60) DEF RangeInv, Ranging
<1> QED
    BY SMTT(60) DEF RangeInv

(* A step that moves no packet leaves every packet accounted for. *)
LEMMA SamePackets ==
    ASSUME CountedInv, SliceInv, ReportedInv, bytes' = bytes, slice' = slice,
           sent' = sent, posted' = posted, reported' = reported
    PROVE  CountedInv' /\ SliceInv' /\ ReportedInv'
<1>1. CountedInv'
    <2>1. ASSUME NEW s \in Conns, NEW p \in bytes[s]
          PROVE  p \in sent /\ posted[p] = 0 /\ OwnerIs(p, TagOf[s], UserOf[s])
        BY ZenonT(60) DEF CountedInv
    <2>2. ASSUME NEW s1 \in Conns, NEW s2 \in Conns, NEW p \in bytes[s1],
                 p \in bytes[s2]
          PROVE  s1 = s2
        BY ZenonT(60), <2>2 DEF CountedInv
    <2> QED
        BY ZenonT(60), <2>1, <2>2 DEF CountedInv, OwnerIs
<1>2. SliceInv'
    <2>1. ASSUME NEW t \in Tags, NEW u \in Users, NEW p \in slice[t][u]
          PROVE  /\ p \in sent /\ posted[p] = 0 /\ OwnerIs(p, t, u)
                 /\ \A s \in Conns : p \notin bytes[s]
        BY ZenonT(60) DEF SliceInv
    <2> QED
        BY <2>1 DEF SliceInv, OwnerIs
<1>3. ReportedInv'
    <2> SUFFICES ASSUME NEW p \in Packets
                 PROVE  /\ posted'[p] <= 1 /\ reported'[p] <= Attempts
                        /\ posted'[p] > 0 => p \in sent'
                        /\ posted'[p] = 0 => reported'[p] = 0
        BY ZenonT(60) DEF ReportedInv
    <2>1. /\ posted[p] <= 1 /\ reported[p] <= Attempts
          /\ posted[p] > 0 => p \in sent
          /\ posted[p] = 0 => reported[p] = 0
        BY ZenonT(60) DEF ReportedInv
    <2> QED
        BY ZenonT(60), <2>1
<1> QED
    BY ZenonT(60), <1>1, <1>2, <1>3

(* Users come and go only while no report ranges over the counters. *)
LEMMA UserInv ==
    ASSUME Inv, NEW t \in Tags, NEW u \in Users, AddUser(t, u) \/ DelUser(t, u)
    PROVE  Inv'
<1> USE BoundAssumption
<1>1. CASE AddUser(t, u)
    <2>1. TypeOK'
        BY SMTT(30), <1>1 DEF Inv, TypeOK, AddUser, Key, counterVars, connVars, reportVars
    <2>2. MapsInv' /\ RangeInv'
        BY ZenonT(60), <1>1, SameMaps, SameRange DEF Inv, AddUser, counterVars, connVars, reportVars
    <2>3. CountedInv' /\ SliceInv' /\ ReportedInv'
        BY ZenonT(60), <1>1, SamePackets DEF Inv, AddUser, reportVars
    <2> QED
        BY SMTT(60), <2>1, <2>2, <2>3 DEF Inv
<1>2. CASE DelUser(t, u)
    <2>1. TypeOK'
        BY SMTT(60), <1>2 DEF Inv, TypeOK, DelUser, CloseAll, reportVars
    <2>2. MapsInv'
        BY SMTT(30), <1>2 DEF Inv, TypeOK, MapsInv, DelUser, CloseAll
    <2>3. RangeInv'
        BY ZenonT(60), <1>2 DEF Inv, RangeInv, Ranging, DelUser, MapUnlocked, reportVars
    <2>4. CountedInv' /\ SliceInv' /\ ReportedInv'
        BY ZenonT(60), <1>2, SamePackets DEF Inv, DelUser, reportVars
    <2> QED
        BY SMTT(60), <2>1, <2>2, <2>3, <2>4 DEF Inv
<1> QED
    BY ZenonT(60), <1>1, <1>2

-----------------------------------------------------------------------------
USE ConnAssumption

(* Range starts on the node's own counter. *)
LEMMA BeginReportInv == ASSUME Inv, NEW t \in Tags, BeginReport(t) PROVE Inv'
<1>1. TypeOK'
    BY SMTT(60) DEF Inv, TypeOK, BeginReport, counterVars, connVars, userVars
<1>2. MapsInv' /\ CountedInv' /\ SliceInv' /\ ReportedInv'
    <2>1. UNCHANGED <<counterOf, store, cst, storage, bytes, slice, sent, posted,
                      reported>>
        BY SMTT(60) DEF BeginReport, counterVars, connVars
    <2> QED
        BY ZenonT(60), <2>1, SameMaps, SamePackets DEF Inv
<1>3. RangeInv'
    BY DEF Inv, TypeOK, MapsInv, RangeInv, Ranging, BeginReport, counterVars
<1> QED
    BY SMTT(60), <1>1, <1>2, <1>3 DEF Inv

(* Load takes a snapshot of a counter that stays where it is. *)
LEMMA LoadCounterInv ==
    ASSUME Inv, NEW t \in Tags, NEW u \in Users, LoadCounter(t, u) PROVE Inv'
<1> DEFINE snap == bytes[store[rctr[t]][u]]
<1>1. /\ rctr[t] \in Conns
      /\ store[rctr[t]][u] \in Conns
      /\ snap \subseteq Packets
    BY SMTT(60) DEF Inv, TypeOK, RangeInv, Ranging, LoadCounter
<1>2. TypeOK'
    <2>1. /\ rtodo' = [rtodo EXCEPT ![t] = @ \ {u}]
          /\ rsnap' = rsnap \/ rsnap' = [rsnap EXCEPT ![t] = snap]
          /\ rcur' = rcur \/ rcur' = [rcur EXCEPT ![t] = u]
          /\ rpc' = rpc \/ rpc' = [rpc EXCEPT ![t] = "reset"]
        BY ZenonT(60) DEF LoadCounter
    <2> HIDE DEF snap
    <2>2. /\ rtodo' \in [Tags -> SUBSET Users]
          /\ rsnap' \in [Tags -> SUBSET Packets]
          /\ rcur' \in [Tags -> Users \cup {None}]
          /\ rpc' \in [Tags -> {"idle", "range", "reset", "post"}]
        <3>1. /\ rtodo \in [Tags -> SUBSET Users]
              /\ rsnap \in [Tags -> SUBSET Packets]
              /\ rcur \in [Tags -> Users \cup {None}]
              /\ rpc \in [Tags -> {"idle", "range", "reset", "post"}]
            BY SMTT(60) DEF Inv, TypeOK
        <3> QED
            BY <1>1, <2>1, <3>1
    <2>3. UNCHANGED <<counterOf, store, bytes, cst, alive, storage, served,
                      uidMap, userOps, rctr, slice, sent,
                      posted, reported, discarded>>
        BY SMTT(30) DEF LoadCounter, counterVars, connVars, userVars
    <2> QED
        BY SMTT(60), <2>2, <2>3 DEF Inv, TypeOK
<1>3. MapsInv' /\ CountedInv' /\ SliceInv' /\ ReportedInv'
    <2>1. UNCHANGED <<counterOf, store, cst, storage, bytes, slice, sent, posted,
                      reported>>
        BY SMTT(60) DEF LoadCounter, counterVars, connVars
    <2> QED
        BY SMTT(60), <2>1, SameMaps, SamePackets DEF Inv
<1>4. RangeInv'
    BY <1>1 DEF Inv, TypeOK, RangeInv, Ranging, LoadCounter, counterVars
<1> QED
    BY SMTT(60), <1>2, <1>3, <1>4 DEF Inv

(* Store(0) empties a counter of this node only, after its packets have     *)
(* moved to the slice or have been dropped.                                 *)
LEMMA ResetCounterInv == ASSUME Inv, NEW t \in Tags, ResetCounter(t) PROVE Inv'
<1> DEFINE u == rcur[t]
           s == store[rctr[t]][u]
<1>1. /\ u \in Users /\ rctr[t] \in Conns /\ TagOf[rctr[t]] = t
      /\ s \in Conns /\ TagOf[s] = t /\ UserOf[s] = u
      /\ rsnap[t] \subseteq bytes[s]
      /\ u \notin rtodo[t]
    BY SMTT(60) DEF Inv, TypeOK, MapsInv, RangeInv, Ranging, ResetCounter
<1>2. /\ rpc' = [rpc EXCEPT ![t] = "range"]
      /\ bytes' = [bytes EXCEPT ![s] = {}]
      /\ \/ slice' = slice
         \/ slice' = [slice EXCEPT ![t] = [@ EXCEPT ![u] = rsnap[t]]]
      /\ \/ store' = store
         \/ store' = [store EXCEPT ![rctr[t]] = [@ EXCEPT ![u] = None]]
      /\ discarded' \in {discarded, discarded \cup rsnap[t]}
      /\ rcur' = [rcur EXCEPT ![t] = None]
      /\ rsnap' = [rsnap EXCEPT ![t] = {}]
      /\ UNCHANGED <<counterOf, connVars, userVars, rctr, rtodo, sent,
                     posted, reported>>
    BY SMTT(60) DEF ResetCounter
<1> HIDE DEF u, s
<1>3. TypeOK'
    <2>1. store' \in [Conns -> [Users -> Conns \cup {None}]]
        <3>1. /\ store \in [Conns -> [Users -> Conns \cup {None}]]
              /\ rctr[t] \in Conns
            BY ZenonT(60), <1>1 DEF Inv, TypeOK
        <3> DEFINE row == [store[rctr[t]] EXCEPT ![u] = None]
        <3>2. row \in [Users -> Conns \cup {None}]
            BY ZenonT(60), <3>1
        <3>3. store' = store \/ store' = [store EXCEPT ![rctr[t]] = row]
            BY ZenonT(60), <1>2
        <3> HIDE DEF row
        <3> QED
            BY SMTT(60), <3>1, <3>2, <3>3
    <2>2. slice' \in [Tags -> [Users -> SUBSET Packets]]
        <3>1. /\ slice \in [Tags -> [Users -> SUBSET Packets]]
              /\ rsnap[t] \in SUBSET Packets
            BY ZenonT(60) DEF Inv, TypeOK
        <3> DEFINE row == [slice[t] EXCEPT ![u] = rsnap[t]]
        <3>2. row \in [Users -> SUBSET Packets]
            BY ZenonT(60), <3>1
        <3>3. slice' = slice \/ slice' = [slice EXCEPT ![t] = row]
            BY SMTT(60), <1>2
        <3> HIDE DEF row
        <3> QED
            BY SMTT(60), <3>1, <3>2, <3>3
    <2>3. /\ bytes' \in [Conns -> SUBSET Packets]
          /\ rsnap' \in [Tags -> SUBSET Packets]
          /\ discarded' \in SUBSET Packets
        BY SMTT(60), <1>1, <1>2 DEF Inv, TypeOK
    <2>4. /\ rpc' \in [Tags -> {"idle", "range", "reset", "post"}]
          /\ rcur' \in [Tags -> Users \cup {None}]
        BY SMTT(60), <1>2 DEF Inv, TypeOK
    <2> QED
        BY ZenonT(60), <1>2, <2>1, <2>2, <2>3, <2>4 DEF Inv, TypeOK, connVars, userVars
<1>4. MapsInv'
    <2>1. \A k \in Conns, w \in Users : store'[k][w] \in {store[k][w], None}
        <3>1. store \in [Conns -> [Users -> Conns \cup {None}]]
            BY ZenonT(60) DEF Inv, TypeOK
        <3>2. \/ store' = store
              \/ store' = [store EXCEPT ![rctr[t]] = [@ EXCEPT ![u] = None]]
            BY ZenonT(60), <1>2
        <3> QED
            BY SMTT(60), <3>1, <3>2
    <2>2. UNCHANGED <<counterOf, cst, storage>>
        BY SMTT(60), <1>2 DEF connVars
    <2> QED
        BY SMTT(60), <2>1, <2>2 DEF Inv, MapsInv
<1>5. RangeInv'
    <2> SUFFICES ASSUME NEW v \in Tags
                 PROVE  /\ Ranging(v)' =>
                             /\ rctr[v] # None
                             /\ TagOf[rctr[v]] = v
                             /\ \A w \in rtodo[v] : store'[rctr[v]][w] # None
                        /\ rpc'[v] = "reset" =>
                             /\ rcur'[v] # None
                             /\ rcur'[v] \notin rtodo[v]
                             /\ store'[rctr[v]][rcur'[v]] # None
                             /\ rsnap'[v] \subseteq
                                    bytes'[store'[rctr[v]][rcur'[v]]]
        BY SMTT(30), <1>2 DEF RangeInv
    <2>1. CASE v = t
        <3>1. rpc'[v] = "range"
            BY SMTT(60), <1>2, <2>1 DEF Inv, TypeOK
        <3>2. /\ rpc[t] = "reset"
              /\ rctr[t] # None /\ TagOf[rctr[t]] = t
              /\ u \notin rtodo[t]
              /\ \A w \in rtodo[t] : store[rctr[t]][w] # None
            BY SMTT(60) DEF Inv, RangeInv, Ranging, ResetCounter, u
        <3>3. /\ rctr[t] \in Conns /\ rtodo[t] \subseteq Users
              /\ store \in [Conns -> [Users -> Conns \cup {None}]]
            BY SMTT(60), <3>2 DEF Inv, TypeOK
        <3>4. ASSUME NEW w \in rtodo[t]
              PROVE  store'[rctr[t]][w] = store[rctr[t]][w]
            <4>1. w # u /\ w \in Users
                BY ZenonT(60), <3>2, <3>3
            <4>2. \/ store' = store
                  \/ store' = [store EXCEPT ![rctr[t]] = [@ EXCEPT ![u] = None]]
                BY SMTT(60), <1>2
            <4> QED
                BY SMTT(60), <3>3, <4>1, <4>2
        <3> QED
            BY SMTT(60), <2>1, <3>1, <3>2, <3>4
    <2>2. CASE v # t
        <3>1. rpc'[v] = rpc[v] /\ rcur'[v] = rcur[v] /\ rsnap'[v] = rsnap[v]
            BY SMTT(60), <1>2, <2>2 DEF Inv, TypeOK
        <3>2. ASSUME Ranging(v)
              PROVE  /\ rctr[v] \in Conns /\ rctr[v] # rctr[t]
                     /\ store'[rctr[v]] = store[rctr[v]]
            BY SMTT(30), <1>1, <1>2, <2>2, <3>2 DEF Inv, TypeOK, RangeInv
        <3>3. ASSUME rpc[v] = "reset"
              PROVE  /\ rcur[v] \in Users
                     /\ store[rctr[v]][rcur[v]] \in Conns
                     /\ TagOf[store[rctr[v]][rcur[v]]] = v
            BY SMTT(30), <3>2, <3>3 DEF Inv, TypeOK, MapsInv, RangeInv, Ranging
        <3>4. ASSUME rpc[v] = "reset"
              PROVE  bytes'[store[rctr[v]][rcur[v]]] = bytes[store[rctr[v]][rcur[v]]]
            <4>1. /\ bytes' = [bytes EXCEPT ![s] = {}]
                  /\ bytes \in [Conns -> SUBSET Packets]
                BY SMTT(60), <1>2 DEF Inv, TypeOK
            <4>2. /\ store[rctr[v]][rcur[v]] # s
                  /\ store[rctr[v]][rcur[v]] \in Conns
                BY SMTT(60), <1>1, <2>2, <3>3, <3>4
            <4> QED
                BY ZenonT(60), <4>1, <4>2
        <3> QED
            BY SMTT(60), <1>2, <3>1, <3>2, <3>3, <3>4 DEF Inv, RangeInv, Ranging
    <2> QED
        BY SMTT(60), <2>1, <2>2
<1>6. CountedInv'
    BY SMTT(60), <1>1, <1>2 DEF Inv, TypeOK, CountedInv, OwnerIs
<1>7. SliceInv'
    <2> SUFFICES ASSUME NEW v \in Tags, NEW w \in Users, NEW p \in slice'[v][w]
                 PROVE  /\ p \in sent /\ posted[p] = 0 /\ OwnerIs(p, v, w)
                        /\ \A r \in Conns : p \notin bytes'[r]
        BY SMTT(60), <1>2 DEF SliceInv, OwnerIs
    <2>1. CASE p \in slice[v][w]
        BY SMTT(60), <1>1, <1>2, <2>1 DEF Inv, TypeOK, SliceInv
    <2>2. CASE p \notin slice[v][w]
        <3>1. v = t /\ w = u /\ p \in rsnap[t]
            BY SMTT(60), <1>1, <1>2, <2>2 DEF Inv, TypeOK
        <3> QED
            BY SMTT(60), <1>1, <1>2, <3>1 DEF Inv, TypeOK, CountedInv
    <2> QED
        BY SMTT(60), <2>1, <2>2
<1>8. ReportedInv'
    BY SMTT(60), <1>2 DEF Inv, ReportedInv
<1> QED
    BY SMTT(30), <1>3, <1>4, <1>5, <1>6, <1>7, <1>8 DEF Inv

(* A range that ends leaves every counter and slice alone. *)
LEMMA EndRangeInv == ASSUME Inv, NEW t \in Tags, EndRange(t) PROVE Inv'
<1>1. TypeOK'
    BY SMTT(30) DEF Inv, TypeOK, EndRange, counterVars, connVars, userVars
<1>2. MapsInv' /\ CountedInv' /\ SliceInv' /\ ReportedInv'
    <2>1. UNCHANGED <<counterOf, store, cst, storage, bytes, slice, sent, posted,
                      reported>>
        BY ZenonT(60) DEF EndRange, counterVars, connVars
    <2> QED
        BY ZenonT(60), <2>1, SameMaps, SamePackets DEF Inv
<1>3. RangeInv'
    BY DEF Inv, TypeOK, RangeInv, Ranging, EndRange, counterVars
<1> QED
    BY ZenonT(60), <1>1, <1>2, <1>3 DEF Inv

(* A report is posted once and then dropped: its packets had not been       *)
(* reported, are in no counter, and no other slice holds them.              *)
LEMMA PostInv ==
    ASSUME Inv, NEW t \in Tags, NEW n \in Deliveries, Post(t, n) PROVE Inv'
<1>1. n \in Nat /\ n <= Attempts
    BY DeliveryAssumption DEF Attempts
<1>2. \A p \in InSlice(t) : /\ p \in sent /\ posted[p] = 0
                            /\ TagOf[ConnOf[p]] = t
                            /\ \A s \in Conns : p \notin bytes[s]
    BY SMTT(60) DEF Inv, SliceInv, OwnerIs, InSlice
<1>3. /\ posted' = [p \in Packets |-> IF p \in InSlice(t) THEN posted[p] + 1
                                                          ELSE posted[p]]
      /\ reported' = [p \in Packets |-> IF p \in InSlice(t) THEN reported[p] + n
                                                            ELSE reported[p]]
      /\ slice' = [slice EXCEPT ![t] = [u \in Users |-> {}]]
      /\ rpc' = [rpc EXCEPT ![t] = "idle"]
      /\ UNCHANGED <<counterOf, store, bytes, cst, alive, storage, served,
                     uidMap, userOps, rctr, rtodo, rcur, rsnap, sent, discarded>>
    BY SMTT(60) DEF Post, counterVars, connVars, userVars
<1>4. TypeOK'
    <2>1. posted' \in [Packets -> Nat] /\ reported' \in [Packets -> Nat]
        BY SMTT(60), <1>1, <1>3 DEF Inv, TypeOK
    <2>2. slice' \in [Tags -> [Users -> SUBSET Packets]]
        BY SMTT(60), <1>3 DEF Inv, TypeOK
    <2> QED
        BY SMTT(60), <1>3, <2>1, <2>2 DEF Inv, TypeOK
<1>5. MapsInv'
    BY SMTT(60), <1>3 DEF Inv, MapsInv
<1>6. RangeInv'
    BY SMTT(60), <1>3 DEF Inv, TypeOK, RangeInv, Ranging
<1>7. CountedInv'
    <2>1. \A s \in Conns : \A p \in bytes[s] : p \in Packets /\ p \notin InSlice(t)
        BY SMTT(60), <1>2 DEF Inv, TypeOK
    <2> QED
        BY SMTT(60), <1>3, <2>1 DEF Inv, CountedInv, OwnerIs
<1>8. SliceInv'
    <2> SUFFICES ASSUME NEW v \in Tags, NEW w \in Users, NEW p \in slice'[v][w]
                 PROVE  /\ p \in sent /\ posted'[p] = 0 /\ OwnerIs(p, v, w)
                        /\ \A s \in Conns : p \notin bytes[s]
        <3>1. sent' = sent /\ bytes' = bytes
            BY SMTT(60), <1>3
        <3> QED
            BY SMTT(60), <3>1 DEF SliceInv, OwnerIs
    <2>1. v # t /\ p \in slice[v][w] /\ p \in Packets
        BY SMTT(60), <1>3 DEF Inv, TypeOK
    <2>2. TagOf[ConnOf[p]] = v /\ posted[p] = 0
        BY SMTT(60), <2>1 DEF Inv, SliceInv, OwnerIs
    <2>3. p \notin InSlice(t)
        BY SMTT(60), <1>2, <2>1, <2>2
    <2>4. posted'[p] = 0
        BY SMTT(60), <1>3, <2>1, <2>2, <2>3
    <2> QED
        BY SMTT(60), <2>1, <2>4 DEF Inv, SliceInv
<1>9. ReportedInv'
    <2> SUFFICES ASSUME NEW p \in Packets
                 PROVE  /\ posted'[p] <= 1 /\ reported'[p] <= Attempts
                        /\ posted'[p] > 0 => p \in sent
                        /\ posted'[p] = 0 => reported'[p] = 0
        BY SMTT(60), <1>3 DEF ReportedInv
    <2>1. CASE p \in InSlice(t)
        BY SMTT(30), <1>1, <1>2, <1>3, <2>1 DEF Inv, TypeOK, ReportedInv
    <2>2. CASE p \notin InSlice(t)
        BY ZenonT(60), <1>3, <2>2 DEF Inv, ReportedInv
    <2> QED
        BY SMTT(60), <2>1, <2>2
<1> QED
    BY ZenonT(60), <1>4, <1>5, <1>6, <1>7, <1>8, <1>9 DEF Inv

-----------------------------------------------------------------------------
(* Every step of the accounting preserves the invariant. *)
LEMMA NextInv == Inv /\ [Next]_vars => Inv'
<1> SUFFICES ASSUME Inv, [Next]_vars PROVE Inv'
    OBVIOUS
<1>1. CASE \E c \in Conns : Attach(c) \/ CreateCounter(c)
    BY ZenonT(60), <1>1, AttachInv, CreateCounterInv
<1>2. CASE \E p \in Packets : Transfer(p)
    BY ZenonT(60), <1>2, TransferInv
<1>3. CASE \E t \in Tags, u \in Users : AddUser(t, u) \/ DelUser(t, u)
    BY ZenonT(60), <1>3, UserInv
<1>4. CASE \E t \in Tags : ReportStep(t)
    BY SMTT(30), <1>4, BeginReportInv, LoadCounterInv, ResetCounterInv, EndRangeInv,
        PostInv DEF ReportStep
<1>5. CASE UNCHANGED vars
    <2>1. /\ UNCHANGED <<counterOf, store, bytes, cst, alive, storage>>
          /\ UNCHANGED <<served, uidMap, userOps, sent, posted, reported, discarded>>
          /\ UNCHANGED <<rpc, rctr, rtodo, rcur, rsnap, slice>>
        BY ZenonT(60), <1>5 DEF vars, counterVars, connVars, userVars, reportVars
    <2>2. TypeOK'
        BY ZenonT(60), <2>1 DEF Inv, TypeOK
    <2>3. MapsInv' /\ RangeInv'
        BY ZenonT(60), <2>1, SameMaps, SameRange DEF Inv
    <2>4. CountedInv' /\ SliceInv' /\ ReportedInv'
        BY ZenonT(60), <2>1, SamePackets DEF Inv
    <2> QED
        BY SMTT(60), <2>2, <2>3, <2>4 DEF Inv
<1> QED
    BY ZenonT(60), <1>1, <1>2, <1>3, <1>4, <1>5 DEF Next

(* The inductive invariant holds in every behaviour. *)
LEMMA InvHolds == Spec => []Inv
BY InitInv, NextInv, PTL DEF Spec

(* The state of the accounting is always well typed. *)
THEOREM TrafficTypeCorrect == Spec => []TypeOK
<1>1. Inv => TypeOK
    BY ZenonT(60) DEF Inv
<1> QED
    BY <1>1, InvHolds, PTL

(* No byte is in two reports, for any number of nodes, users, connections   *)
(* and reports, lost or repeated: GetUserTrafficSlice resets what it loads  *)
(* before the slice is posted, and the slice goes into one call only.       *)
THEOREM TrafficBilledOnce == Spec => []NeverReportedTwice
<1>1. Inv => NeverReportedTwice
    BY SMTT(60) DEF Inv, ReportedInv, NeverReportedTwice
<1> QED
    BY <1>1, InvHolds, PTL

(* Every report attributes traffic to the node and user whose connection    *)
(* carried it, even while counters are replaced and users come and go.      *)
THEOREM TrafficBilledToOwner == Spec => []BilledToOwner
<1>1. Inv => BilledToOwner
    BY DEF Inv, SliceInv, OwnerIs, BilledToOwner
<1> QED
    BY <1>1, InvHolds, PTL

-----------------------------------------------------------------------------
(* The uid map tells the users of different nodes apart: its keys hold the  *)
(* tag (xray), or the core has one node only.                               *)
UidsApart == KeyByTag \/ \A s, t \in Tags : s = t

(* The uid of every user a node serves is known, and none was missing yet. *)
UidInv ==
    /\ \A t \in Tags : \A u \in served[t] : Key(t, u) \in uidMap
    /\ discarded = {}

(* Keys that tell the nodes apart have one owner. *)
LEMMA KeysApart ==
    ASSUME UidsApart, NEW s \in Tags, NEW t \in Tags, NEW u, NEW v,
           Key(s, u) = Key(t, v)
    PROVE  s = t /\ u = v
<1>1. CASE KeyByTag
    <2>1. <<s, u>> = <<t, v>>
        BY ZenonT(60), <1>1 DEF Key
    <2> QED
        BY ZenonT(60), <2>1
<1>2. CASE ~KeyByTag
    <2>1. <<u>> = <<v>> /\ s = t
        BY ZenonT(60), <1>2 DEF Key, UidsApart
    <2> QED
        BY ZenonT(60), <2>1
<1> QED
    BY ZenonT(60), <1>1, <1>2

(* Users come and go together with their uids. *)
LEMMA UidUserStep ==
    ASSUME UidsApart, TypeOK, UidInv, NEW t \in Tags, NEW u \in Users,
           AddUser(t, u) \/ DelUser(t, u)
    PROVE  UidInv'
<1>1. served \in [Tags -> SUBSET Users]
    BY ZenonT(60) DEF TypeOK
<1>2. CASE AddUser(t, u)
    <2>1. /\ served' = [served EXCEPT ![t] = served[t] \cup {u}] /\ discarded' = discarded
          /\ uidMap' = uidMap \cup {Key(t, u)}
        BY ZenonT(60), <1>2 DEF AddUser
    <2> QED
        BY ZenonT(60), <1>1, <2>1 DEF UidInv, Key
<1>3. CASE DelUser(t, u)
    <2>1. /\ served' = [served EXCEPT ![t] = served[t] \ {u}] /\ discarded' = discarded
          /\ uidMap' = uidMap \ {Key(t, u)}
        BY ZenonT(60), <1>3 DEF DelUser
    <2> SUFFICES ASSUME NEW s \in Tags, NEW v \in served'[s]
                 PROVE  Key(s, v) \in uidMap'
        BY ZenonT(60), <2>1 DEF UidInv, Key
    <2>2. v \in served[s] /\ ~(s = t /\ v = u)
        BY ZenonT(60), <1>1, <2>1
    <2>3. Key(s, v) # Key(t, u)
        BY ZenonT(60), <2>2, KeysApart
    <2> QED
        BY ZenonT(60), <2>1, <2>2, <2>3 DEF UidInv
<1> QED
    BY ZenonT(60), <1>2, <1>3

(* With such keys GetUserTrafficSlice drops only counters of users who have *)
(* left the node, whatever users are added and deleted on the other nodes   *)
(* of the core between the reports.                                         *)
THEOREM ServedTrafficIsKept ==
    ASSUME UidsApart PROVE Spec => []ServedNotDiscarded
<1>1. Init => UidInv
    <2> SUFFICES ASSUME Init PROVE UidInv
        OBVIOUS
    <2>1. /\ served = [t \in Tags |-> Users] /\ discarded = {}
          /\ uidMap = {Key(t, u) : t \in Tags, u \in Users}
        BY DEF Init
    <2>2. \A t \in Tags, u \in Users : Key(t, u) \in uidMap
        BY <2>1
    <2> QED
        BY ZenonT(60), <2>1, <2>2 DEF UidInv
<1>2. TypeOK /\ UidInv /\ [Next]_vars => UidInv'
    <2> SUFFICES ASSUME TypeOK, UidInv, [Next]_vars PROVE UidInv'
        OBVIOUS
    <2>1. CASE \E t \in Tags, u \in Users : AddUser(t, u) \/ DelUser(t, u)
        BY ZenonT(60), <2>1, UidUserStep
    <2>2. ASSUME NEW t \in Tags, ResetCounter(t) PROVE UidInv'
        BY ZenonT(60), <2>2 DEF ResetCounter, userVars, UidInv, Key
    <2>3. CASE \/ \E c \in Conns : Attach(c) \/ CreateCounter(c)
               \/ \E p \in Packets : Transfer(p)
               \/ \E t \in Tags : \/ BeginReport(t) \/ EndRange(t)
                                  \/ \E u \in Users : LoadCounter(t, u)
                                  \/ \E n \in Deliveries : Post(t, n)
               \/ UNCHANGED vars
        <3>1. UNCHANGED <<served, uidMap, discarded>>
            BY ZenonT(60), <2>3 DEF Attach, CreateCounter, Transfer, BeginReport, EndRange,
                LoadCounter, Post, vars, userVars
        <3> QED
            BY ZenonT(60), <3>1 DEF UidInv, Key
    <2> QED
        BY ZenonT(60), <2>1, <2>2, <2>3 DEF Next, ReportStep
<1>3. UidInv => ServedNotDiscarded
    BY ZenonT(60) DEF UidInv, ServedNotDiscarded
<1> QED
    BY <1>1, <1>2, <1>3, TrafficTypeCorrect, PTL DEF Spec

-----------------------------------------------------------------------------
(* A slice has nothing yet of the users a report still has to visit. *)
Fresh(t) ==
    /\ rpc[t] = "idle" => \A u \in Users : slice[t][u] = {}
    /\ rpc[t] \in {"range", "reset"} => \A u \in rtodo[t] : slice[t][u] = {}
    /\ rpc[t] = "reset" => slice[t][rcur[t]] = {}

FreshInv == \A t \in Tags : Fresh(t)

(* The steps of one node's report keep the slices fresh. *)
LEMMA FreshReport ==
    ASSUME Inv, FreshInv, NEW t \in Tags, ReportStep(t)
    PROVE  FreshInv'
<1>1. /\ rpc \in [Tags -> {"idle", "range", "reset", "post"}]
      /\ rtodo \in [Tags -> SUBSET Users] /\ rcur \in [Tags -> Users \cup {None}]
      /\ slice \in [Tags -> [Users -> SUBSET Packets]]
    BY ZenonT(60) DEF Inv, TypeOK
<1>2. \A v \in Tags \ {t} : /\ rpc'[v] = rpc[v] /\ rtodo'[v] = rtodo[v] /\ rcur'[v] = rcur[v]
                            /\ slice'[v] = slice[v]
    BY ZenonT(60), <1>1 DEF ReportStep, BeginReport, LoadCounter, ResetCounter, EndRange, Post
<1>3. ASSUME NEW v \in Tags \ {t} PROVE Fresh(v)'
    <2>1. Fresh(v)
        BY ZenonT(60) DEF FreshInv
    <2>2. /\ rpc'[v] = rpc[v] /\ rtodo'[v] = rtodo[v] /\ rcur'[v] = rcur[v]
          /\ slice'[v] = slice[v]
        BY ZenonT(60), <1>2
    <2> QED
        BY ZenonT(60), <2>1, <2>2 DEF Fresh
<1>4. Fresh(t)
    BY ZenonT(60) DEF FreshInv
<1> SUFFICES Fresh(t)'
    BY ZenonT(60), <1>3 DEF FreshInv
<1>5. CASE BeginReport(t)
    <2>1. /\ rpc[t] = "idle" /\ rpc'[t] = "range" /\ rtodo'[t] \subseteq Users /\ slice' = slice
        BY ZenonT(60), <1>1, <1>5 DEF BeginReport
    <2> QED
        BY ZenonT(60), <1>4, <2>1 DEF Fresh
<1>6. ASSUME NEW u \in Users, LoadCounter(t, u)
      PROVE  Fresh(t)'
    <2>1. /\ rpc[t] = "range" /\ u \in rtodo[t] /\ rtodo'[t] = rtodo[t] \ {u} /\ slice' = slice
          /\ rpc'[t] = "range" \/ (rpc'[t] = "reset" /\ rcur'[t] = u)
        BY ZenonT(60), <1>1, <1>6 DEF LoadCounter
    <2> QED
        BY ZenonT(60), <1>4, <2>1 DEF Fresh
<1>7. CASE ResetCounter(t)
    <2>1. /\ rpc[t] = "reset" /\ rpc'[t] = "range" /\ rtodo' = rtodo
          /\ rcur[t] \notin rtodo[t]
        BY ZenonT(60), <1>1, <1>7 DEF ResetCounter, Inv, RangeInv
    <2>2. \A w \in Users : w # rcur[t] => slice'[t][w] = slice[t][w]
        <3>1. \/ slice' = slice
              \/ slice' = [slice EXCEPT ![t] = [slice[t] EXCEPT ![rcur[t]] = rsnap[t]]]
            BY ZenonT(60), <1>7 DEF ResetCounter
        <3> QED
            BY SMTT(60), <1>1, <3>1
    <2> QED
        BY ZenonT(60), <1>1, <1>4, <2>1, <2>2 DEF Fresh
<1>8. CASE EndRange(t)
    <2>1. /\ rtodo[t] = {} /\ rtodo' = rtodo /\ slice' = slice
          /\ rpc'[t] = IF InSlice(t) = {} THEN "idle" ELSE "post"
        BY ZenonT(60), <1>1, <1>8 DEF EndRange
    <2>2. InSlice(t) = {} => \A u \in Users : slice[t][u] = {}
        BY ZenonT(60) DEF InSlice
    <2>3. rpc'[t] # "reset" /\ (rpc'[t] = "idle" => InSlice(t) = {})
        BY ZenonT(60), <2>1
    <2> QED
        BY ZenonT(60), <2>1, <2>2, <2>3 DEF Fresh
<1>9. ASSUME NEW n \in Deliveries, Post(t, n)
      PROVE  Fresh(t)'
    BY ZenonT(60), <1>1, <1>9 DEF Post, Fresh
<1> QED
    BY ZenonT(60), <1>5, <1>6, <1>7, <1>8, <1>9 DEF ReportStep

(* No other step touches a slice. *)
LEMMA FreshHolds == Spec => []FreshInv
<1>1. Init => FreshInv
    BY SMTT(60) DEF Init, FreshInv, Fresh
<1>2. Inv /\ FreshInv /\ [Next]_vars => FreshInv'
    <2> SUFFICES ASSUME Inv, FreshInv, [Next]_vars PROVE FreshInv'
        OBVIOUS
    <2>1. CASE \E t \in Tags : ReportStep(t)
        BY ZenonT(60), <2>1, FreshReport
    <2>2. CASE ~\E t \in Tags : ReportStep(t)
        <3>1. UNCHANGED <<rpc, rtodo, rcur, slice>>
            BY ZenonT(60), <2>2 DEF Next, Attach, CreateCounter, Transfer, AddUser, DelUser, vars,
                reportVars
        <3> QED
            BY ZenonT(60), <3>1 DEF FreshInv, Fresh
    <2> QED
        BY ZenonT(60), <2>1, <2>2
<1> QED
    BY <1>1, <1>2, InvHolds, PTL DEF Spec

(* A step that moves no packet leaves the ledger alone. *)
LEMMA SameBooks ==
    ASSUME bytes' = bytes, slice' = slice, sent' = sent, posted' = posted
    PROVE  UNCHANGED Books!ledger
<1>1. Counted' = Counted
    BY ZenonT(60) DEF Counted
<1>2. Taken' = Taken
    BY ZenonT(60) DEF Taken
<1>3. Billed' = Billed
    BY ZenonT(60) DEF Billed
<1> QED
    BY ZenonT(60), <1>1, <1>2, <1>3 DEF Books!ledger

(* A transfer enters a new packet. *)
LEMMA TransferEnters ==
    ASSUME Inv, NEW p \in Packets, Transfer(p) PROVE Books!Count(p)
<1>1. storage[ConnOf[p]] \in Conns
    <2>1. cst[ConnOf[p]] = "open" /\ ConnOf[p] \in Conns
        BY ZenonT(60) DEF Transfer
    <2>2. storage \in [Conns -> Conns \cup {None}] /\ storage[ConnOf[p]] # None
        BY ZenonT(60), <2>1 DEF Inv, TypeOK, MapsInv
    <2> QED
        BY ZenonT(60), <2>1, <2>2
<1>2. /\ p \notin sent /\ sent' = sent \cup {p}
      /\ bytes' = [bytes EXCEPT ![storage[ConnOf[p]]] = bytes[storage[ConnOf[p]]] \cup {p}]
      /\ slice' = slice /\ posted' = posted
    BY ZenonT(60) DEF Transfer, reportVars
<1>3. bytes \in [Conns -> SUBSET Packets]
    BY ZenonT(60) DEF Inv, TypeOK
<1>4. \A s \in Conns : bytes'[s] = IF s = storage[ConnOf[p]] THEN bytes[s] \cup {p} ELSE bytes[s]
    BY ZenonT(60), <1>2, <1>3
<1>5. Counted' = Counted \cup {p}
    BY ZenonT(60), <1>1, <1>4 DEF Counted
<1>6. Taken' = Taken
    BY ZenonT(60), <1>2 DEF Taken
<1>7. Billed' = Billed
    BY ZenonT(60), <1>2 DEF Billed
<1> QED
    BY ZenonT(60), <1>2, <1>5, <1>6, <1>7 DEF Books!Count

(* A reset takes packets of one user of one node out of a counter; those    *)
(* that were loaded get into the slice if the uid is known, and the others  *)
(* are lost.                                                                *)
LEMMA ResetTakes ==
    ASSUME Inv, FreshInv, NEW t \in Tags, ResetCounter(t)
    PROVE  \E a \in Tags \X Users, gone \in SUBSET Counted :
              \E kept \in SUBSET gone : Books!Reset(a, gone, kept)
<1> DEFINE u == rcur[t]
           s == store[rctr[t]][u]
           kept == IF Key(t, u) \in uidMap THEN rsnap[t] ELSE {}
<1>1. /\ u \in Users /\ s \in Conns /\ rsnap[t] \subseteq bytes[s]
      /\ TagOf[s] = t /\ UserOf[s] = u
    <2>1. /\ rctr \in [Tags -> Conns \cup {None}] /\ rcur \in [Tags -> Users \cup {None}]
          /\ store \in [Conns -> [Users -> Conns \cup {None}]]
        BY ZenonT(60) DEF Inv, TypeOK
    <2>2. /\ rctr[t] # None /\ TagOf[rctr[t]] = t /\ u # None /\ s # None
          /\ rsnap[t] \subseteq bytes[s]
        BY ZenonT(60) DEF Inv, RangeInv, Ranging, ResetCounter
    <2>3. rctr[t] \in Conns /\ u \in Users
        BY ZenonT(60), <2>1, <2>2
    <2>4. s \in Conns
        <3>1. store[rctr[t]] \in [Users -> Conns \cup {None}]
            BY ZenonT(60), <2>1, <2>3
        <3>2. s \in Conns \cup {None}
            BY ZenonT(60), <2>3, <3>1
        <3> QED
            BY ZenonT(60), <2>2, <3>2
    <2>5. TagOf[s] = TagOf[rctr[t]] /\ UserOf[s] = u
        BY ZenonT(60), <2>2, <2>3 DEF Inv, MapsInv
    <2> QED
        BY ZenonT(60), <2>2, <2>3, <2>4, <2>5
<1>2. /\ bytes' = [bytes EXCEPT ![s] = {}]
      /\ slice' = IF Key(t, u) \in uidMap
                  THEN [slice EXCEPT ![t] = [slice[t] EXCEPT ![u] = rsnap[t]]]
                  ELSE slice
      /\ sent' = sent /\ posted' = posted
    BY ZenonT(60) DEF ResetCounter
<1>3. /\ bytes \in [Conns -> SUBSET Packets] /\ slice \in [Tags -> [Users -> SUBSET Packets]]
    BY ZenonT(60) DEF Inv, TypeOK
<1> HIDE DEF u, s
<1>4. /\ bytes[s] \subseteq Packets /\ kept \subseteq bytes[s]
      /\ \A r \in Conns : bytes'[r] = IF r = s THEN {} ELSE bytes[r]
    BY ZenonT(60), <1>1, <1>2, <1>3
<1>5. bytes[s] \subseteq Counted /\ Counted' = Counted \ bytes[s]
    <2>1. \A r \in Conns : \A p \in bytes[r] : p \in bytes[s] => r = s
        BY ZenonT(60), <1>1 DEF Inv, CountedInv
    <2> QED
        BY ZenonT(60), <1>1, <1>4, <2>1 DEF Counted
<1>6. \A p \in bytes[s] : Account[p] = <<t, u>>
    BY ZenonT(60), <1>1, <1>4 DEF Inv, CountedInv, OwnerIs, Account
<1>7. Taken' = Taken \cup kept
    <2>1. CASE Key(t, u) \in uidMap
        <3>1. slice' = [slice EXCEPT ![t] = [slice[t] EXCEPT ![u] = rsnap[t]]]
            BY ZenonT(60), <1>2, <2>1
        <3>2. \A v \in Tags, w \in Users :
                 slice'[v][w] = IF v = t /\ w = u THEN rsnap[t] ELSE slice[v][w]
            BY SMTT(60), <1>1, <1>3, <3>1
        <3>3. slice[t][u] = {} /\ kept = rsnap[t] /\ rsnap[t] \subseteq Packets
            BY ZenonT(60), <1>1, <1>4, <2>1 DEF FreshInv, Fresh, ResetCounter, u
        <3>4. ASSUME NEW p \in Packets
              PROVE  (\E v \in Tags, w \in Users : p \in slice'[v][w])
                        <=> (\E v \in Tags, w \in Users : p \in slice[v][w]) \/ p \in kept
            BY SMTT(60), <1>1, <3>2, <3>3
        <3> QED
            BY ZenonT(60), <3>3, <3>4 DEF Taken
    <2>2. CASE Key(t, u) \notin uidMap
        BY ZenonT(60), <1>2, <2>2 DEF Taken
    <2> QED
        BY ZenonT(60), <2>1, <2>2
<1>8. Billed' = Billed
    BY ZenonT(60), <1>2 DEF Billed
<1> HIDE DEF kept
<1>9. Books!Reset(<<t, u>>, bytes[s], kept)
    BY ZenonT(60), <1>2, <1>5, <1>6, <1>7, <1>8 DEF Books!Reset
<1> QED
    BY ZenonT(60), <1>1, <1>4, <1>5, <1>9

(* A POST bills what is in the slice of its node. *)
LEMMA PostBills ==
    ASSUME Inv, NEW t \in Tags, NEW n \in Deliveries, Post(t, n)
    PROVE  \E gone \in SUBSET Taken : Books!Bill(gone)
<1>1. /\ slice \in [Tags -> [Users -> SUBSET Packets]] /\ posted \in [Packets -> Nat]
    BY ZenonT(60) DEF Inv, TypeOK
<1>2. /\ posted' = [p \in Packets |-> IF p \in InSlice(t) THEN posted[p] + 1 ELSE posted[p]]
      /\ slice' = [slice EXCEPT ![t] = [u \in Users |-> {}]]
      /\ bytes' = bytes /\ sent' = sent
    BY ZenonT(60) DEF Post
<1>3. \A p : p \in InSlice(t) <=> \E u \in Users : p \in slice[t][u]
    BY SMTT(60) DEF InSlice
<1>4. InSlice(t) \subseteq Taken
    <2>1. \A u \in Users : slice[t][u] \subseteq Packets
        BY SMTT(60), <1>1
    <2> QED
        BY ZenonT(60), <1>3, <2>1 DEF Taken
<1>5. Counted' = Counted
    BY ZenonT(60), <1>2 DEF Counted
<1>6. Billed' = Billed \cup InSlice(t)
    <2>1. \A p \in InSlice(t) : p \in Packets
        BY ZenonT(60), <1>4 DEF Taken
    <2>2. \A p \in Packets : posted'[p] > 0 <=> (posted[p] > 0 \/ p \in InSlice(t))
        <3> SUFFICES ASSUME NEW p \in Packets
                     PROVE  posted'[p] > 0 <=> (posted[p] > 0 \/ p \in InSlice(t))
            OBVIOUS
        <3>1. posted'[p] = IF p \in InSlice(t) THEN posted[p] + 1 ELSE posted[p]
            BY ZenonT(60), <1>2
        <3>2. posted[p] \in Nat
            BY ZenonT(60), <1>1
        <3>3. posted[p] + 1 > 0
            BY SMTT(60), <3>2
        <3>4. CASE p \in InSlice(t)
            BY ZenonT(60), <3>1, <3>3, <3>4
        <3>5. CASE p \notin InSlice(t)
            BY ZenonT(60), <3>1, <3>5
        <3> QED
            BY ZenonT(60), <3>4, <3>5
    <2> QED
        BY ZenonT(60), <2>1, <2>2 DEF Billed
<1>7. Taken' = Taken \ InSlice(t)
    <2>1. \A v \in Tags, w \in Users : slice'[v][w] = IF v = t THEN {} ELSE slice[v][w]
        BY SMTT(60), <1>1, <1>2
    <2>2. ASSUME NEW v \in Tags, NEW w \in Users, NEW p \in slice[v][w]
          PROVE  p \in InSlice(t) <=> v = t
        <3>1. OwnerIs(p, v, w)
            BY ZenonT(60) DEF Inv, SliceInv
        <3>2. \A u \in Users : p \in slice[t][u] => OwnerIs(p, t, u)
            BY ZenonT(60) DEF Inv, SliceInv
        <3>3. v = t => p \in InSlice(t)
            BY ZenonT(60), <1>3
        <3>4. p \in InSlice(t) => v = t
            BY ZenonT(60), <1>3, <3>1, <3>2 DEF OwnerIs
        <3> QED
            BY ZenonT(60), <3>3, <3>4
    <2>3. ASSUME NEW p \in Packets PROVE p \in Taken' <=> p \in Taken /\ p \notin InSlice(t)
        <3>1. p \in Taken' <=> \E v \in Tags, w \in Users : p \in slice'[v][w]
            BY ZenonT(60) DEF Taken
        <3>2. p \in Taken <=> \E v \in Tags, w \in Users : p \in slice[v][w]
            BY ZenonT(60) DEF Taken
        <3>3. ASSUME p \in Taken' PROVE p \in Taken /\ p \notin InSlice(t)
            <4>1. PICK v \in Tags, w \in Users : p \in slice'[v][w]
                BY ZenonT(60), <3>1, <3>3
            <4>2. v # t /\ p \in slice[v][w]
                BY SMTT(60), <2>1, <4>1
            <4> QED
                BY ZenonT(60), <2>2, <3>2, <4>2
        <3>4. ASSUME p \in Taken, p \notin InSlice(t) PROVE p \in Taken'
            <4>1. PICK v \in Tags, w \in Users : p \in slice[v][w]
                BY ZenonT(60), <3>2, <3>4
            <4>2. v # t
                BY ZenonT(60), <2>2, <3>4, <4>1
            <4>3. slice'[v][w] = slice[v][w]
                BY ZenonT(60), <2>1, <4>2
            <4> QED
                BY ZenonT(60), <3>1, <4>1, <4>3
        <3> QED
            BY ZenonT(60), <3>3, <3>4
    <2>4. Taken \subseteq Packets /\ Taken' \subseteq Packets
        BY ZenonT(60) DEF Taken
    <2> QED
        BY ZenonT(60), <2>3, <2>4
<1>8. Books!Bill(InSlice(t))
    BY ZenonT(60), <1>2, <1>5, <1>6, <1>7 DEF Books!Bill
<1> QED
    BY ZenonT(60), <1>4, <1>8

(* Every step of the accounting is a step of the ledger or leaves it alone. *)
LEMMA StepKeepsLedger == Inv /\ FreshInv /\ [Next]_vars => [Books!Next]_(Books!ledger)
<1> SUFFICES ASSUME Inv, FreshInv, [Next]_vars PROVE Books!Next \/ UNCHANGED Books!ledger
    BY ZenonT(60)
<1>1. CASE \/ \E c \in Conns : Attach(c) \/ CreateCounter(c)
           \/ \E t \in Tags, u \in Users : AddUser(t, u) \/ DelUser(t, u)
           \/ \E t \in Tags : \/ BeginReport(t) \/ EndRange(t)
                              \/ \E u \in Users : LoadCounter(t, u)
           \/ UNCHANGED vars
    <2>1. UNCHANGED <<bytes, slice, sent, posted>>
        BY ZenonT(60), <1>1 DEF Attach, CreateCounter, AddUser, DelUser, BeginReport, EndRange,
            LoadCounter, vars, reportVars
    <2> QED
        BY ZenonT(60), <2>1, SameBooks
<1>2. ASSUME NEW p \in Packets, Transfer(p) PROVE Books!Next
    BY ZenonT(60), <1>2, TransferEnters DEF Books!Next
<1>3. ASSUME NEW t \in Tags, ResetCounter(t) PROVE Books!Next
    BY ZenonT(60), <1>3, ResetTakes DEF Books!Next
<1>4. ASSUME NEW t \in Tags, NEW n \in Deliveries, Post(t, n) PROVE Books!Next
    BY ZenonT(60), <1>4, PostBills DEF Books!Next
<1> QED
    BY ZenonT(60), <1>1, <1>2, <1>3, <1>4 DEF Next, ReportStep

(* Whatever the nodes, users, connections and lost or repeated POSTs, the   *)
(* counters, slices and reports of a core implement the ledger.             *)
THEOREM TrafficKeepsLedger == Spec => KeepsLedger
<1>1. Init => Books!Init
    <2> SUFFICES ASSUME Init PROVE Books!Init
        OBVIOUS
    <2>1. Counted = {}
        BY ZenonT(60) DEF Init, Counted
    <2>2. Taken = {}
        BY SMTT(60) DEF Init, Taken
    <2>3. Billed = {} /\ sent = {}
        BY DEF Init, Billed
    <2> QED
        BY ZenonT(60), <2>1, <2>2, <2>3 DEF Books!Init
<1> QED
    BY <1>1, InvHolds, FreshHolds, StepKeepsLedger, PTL DEF Spec, KeepsLedger, Books!Spec
=============================================================================
