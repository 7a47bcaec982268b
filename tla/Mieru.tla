------------------------------- MODULE Mieru ---------------------------------
(***************************************************************************)
(* The mieru core (core/mieru/mieru.go).  The controller adds and deletes  *)
(* the node and its users; applyConfig starts the mux once there are users *)
(* and replaces it when none are left; every start launches one more       *)
(* acceptLoop, and every accepted connection runs handleConnection, which  *)
(* registers with the traffic counter and the connSet of its user so that  *)
(* DelUsers can cut it.                                                    *)
(*                                                                         *)
(* Muxes are numbered in the order of NewMux; the acceptLoop that is       *)
(* launched when a mux starts has the number of that mux.  Counters and    *)
(* connSets are named after the connection that created them.  The verdict *)
(* of the limiter is arbitrary here (module Limiter).                      *)
(***************************************************************************)
EXTENDS Naturals, FiniteSets

CONSTANTS
    Users, Conns, UserOf,
    Udp,        \* the connections that are UDP associations
    None,
    MaxOps      \* bound: calls of the controller

ASSUME ConnAssumption ==
    /\ UserOf \in [Conns -> Users]
    /\ Udp \subseteq Conns
    /\ None \notin Users \cup Conns
ASSUME BoundAssumption == MaxOps \in Nat

\* A call replaces the mux at most once.
Muxes == 1..(MaxOps + 1)

VARIABLES
    running, started,
    mux,        \* m.mux
    muxState,   \* of every mux: not started, open, closed
    muxUsers,   \* the users m.mux serves
    uids,       \* uidMap
    counterOf,  \* trafficMap: user -> counter
    connsOf,    \* userConns: user -> connSet
    members,    \* connSet -> the connections in it
    opc,        \* the next step of the controller's call
    todo, cur,  \* DelUsers: the users left, and the current one
    taken,      \* the connSet LoadAndDelete returned
    up,         \* the node has been added and not deleted
    loop, lmux, \* where each acceptLoop is, and the mux it accepts from
    phase,      \* where each connection is in handleConnection
    counter, cset,  \* the counter and the connSet it was given
    closed,     \* connections CloseAll has closed
    ops,
    startFailed,    \* the last mux.Start failed
    bytes,      \* counter -> the packets in it
    rpc, rcur, rctr, rsnap, \* the report: its step, user, counter, and what it loaded
    sent,       \* connections whose packet was transferred
    reported,   \* connections whose packet was reported
    missed,     \* connections about to Add to a connSet CloseAll is done with
    orphan,     \* connections whose user was not in uidMap at some time
    raced       \* packets counted between Load and Store of a report

muxVars == <<running, started, mux, muxState, muxUsers>>
mapVars == <<uids, counterOf, connsOf>>
opVars == <<todo, cur, taken>>
loopVars == <<loop, lmux>>
reportVars == <<rpc, rcur, rctr, rsnap, reported>>
trafficVars == <<bytes, sent, reportVars, raced>>
ghostVars == <<missed, orphan>>
vars == <<muxVars, mapVars, members, opc, opVars, up, loopVars, phase, counter,
          cset, closed, ops, startFailed, trafficVars, ghostVars>>

\* New.
Init ==
    /\ running = FALSE /\ started = FALSE
    /\ mux = 1 /\ muxState = [k \in Muxes |-> "new"] /\ muxUsers = {}
    /\ uids = {}
    /\ counterOf = [u \in Users |-> None]
    /\ connsOf = [u \in Users |-> None]
    /\ members = [s \in Conns |-> {}]
    /\ opc = "boot" /\ todo = {} /\ cur = None /\ taken = None
    /\ up = FALSE /\ startFailed = FALSE
    /\ loop = [k \in Muxes |-> "none"] /\ lmux = [k \in Muxes |-> 0]
    /\ phase = [c \in Conns |-> "new"]
    /\ counter = [c \in Conns |-> None] /\ cset = [c \in Conns |-> None]
    /\ closed = {} /\ ops = 0
    /\ bytes = [t \in Conns |-> {}] /\ sent = {} /\ reported = {}
    /\ rpc = "load" /\ rcur = None /\ rctr = None /\ rsnap = {}
    /\ missed = {} /\ orphan = {} /\ raced = {}

-----------------------------------------------------------------------------
\* Start of a new core: it has no users, so the mux waits for applyConfig.
Start ==
    /\ opc = "boot"
    /\ opc' = "idle" /\ running' = TRUE
    /\ UNCHANGED <<started, mux, muxState, muxUsers, mapVars, members, opVars,
                   up, loopVars, phase, counter, cset, closed, ops,
                   startFailed, trafficVars, ghostVars>>

Begin(step) ==
    /\ opc = "idle" /\ ops < MaxOps
    /\ ops' = ops + 1
    /\ opc' = step

AddNode ==
    /\ ~up
    /\ Begin("apply")
    /\ running' = TRUE /\ up' = TRUE
    /\ UNCHANGED <<started, mux, muxState, muxUsers, mapVars, members, opVars,
                   loopVars, phase, counter, cset, closed, startFailed,
                   trafficVars, ghostVars>>

\* DelNode is Close: the flags under the mutex, then the mux.
DelNode ==
    /\ up
    /\ Begin(IF started THEN "closeMux" ELSE "idle")
    /\ running' = FALSE /\ started' = FALSE /\ up' = FALSE
    /\ UNCHANGED <<mux, muxState, muxUsers, mapVars, members, opVars, loopVars,
                   phase, counter, cset, closed, startFailed, trafficVars, ghostVars>>

ReplaceMux ==
    /\ muxState' = [muxState EXCEPT ![mux] = "closed"]
    /\ mux' = mux + 1 /\ muxUsers' = {}

CloseMux ==
    /\ opc = "closeMux" /\ opc' = "idle"
    /\ ReplaceMux
    /\ UNCHANGED <<running, started, mapVars, members, opVars, up, loopVars,
                   phase, counter, cset, closed, ops, startFailed, trafficVars, ghostVars>>

AddUsers(users) ==
    /\ up
    /\ Begin("apply")
    /\ uids' = uids \cup users
    /\ UNCHANGED <<muxVars, counterOf, connsOf, members, opVars, up, loopVars,
                   phase, counter, cset, closed, startFailed, trafficVars, ghostVars>>

\* The controller deletes users it has added.
DelUsers(users) ==
    /\ up /\ users \subseteq uids
    /\ Begin("del")
    /\ todo' = users
    /\ UNCHANGED <<muxVars, mapVars, members, cur, taken, up, loopVars, phase,
                   counter, cset, closed, startFailed, trafficVars, ghostVars>>

\* uidMap.Delete of one user; the end of the list applies.
DeleteUser ==
    /\ opc = "del"
    /\ \/ /\ todo = {}
          /\ opc' = "apply" /\ cur' = None
          /\ UNCHANGED <<todo, uids, orphan>>
       \/ \E u \in todo :
             /\ opc' = "drop" /\ cur' = u /\ todo' = todo \ {u}
             /\ uids' = uids \ {u}
             /\ orphan' = orphan \cup {c \in Conns : UserOf[c] = u /\ phase[c] # "new"}
    /\ UNCHANGED <<muxVars, counterOf, connsOf, members, taken, up, loopVars, phase,
                   counter, cset, closed, ops, startFailed,
                   trafficVars, missed>>

\* trafficMap.Delete.
DropCounter ==
    /\ opc = "drop" /\ opc' = "take"
    /\ counterOf' = [counterOf EXCEPT ![cur] = None]
    /\ UNCHANGED <<muxVars, uids, connsOf, members, opVars, up, loopVars, phase,
                   counter, cset, closed, ops, startFailed, trafficVars, ghostVars>>

\* userConns.LoadAndDelete.
TakeConns ==
    /\ opc = "take"
    /\ opc' = IF connsOf[cur] = None THEN "del" ELSE "close"
    /\ taken' = connsOf[cur]
    /\ connsOf' = [connsOf EXCEPT ![cur] = None]
    /\ UNCHANGED <<muxVars, uids, counterOf, members, todo, cur, up, loopVars,
                   phase, counter, cset, closed, ops, startFailed, trafficVars, ghostVars>>

CloseAll ==
    /\ opc = "close" /\ opc' = "del"
    /\ closed' = closed \cup members[taken]
    /\ members' = [members EXCEPT ![taken] = {}]
    /\ missed' = missed \cup {c \in Conns : phase[c] = "add" /\ cset[c] = taken}
    /\ taken' = None
    /\ UNCHANGED <<muxVars, mapVars, todo, cur, up, loopVars, phase, counter,
                   cset, ops, startFailed, trafficVars, orphan>>

\* Mutant: the users are set only before the mux is started.
SetServerUsersOnce == muxUsers' = IF started THEN muxUsers ELSE uids

SetServerUsers == muxUsers' = uids

\* applyConfig, under the mutex.  The last user closes the mux; the first one
\* starts it, and with it an acceptLoop, unless mux.Start fails.
ApplyConfig ==
    /\ opc = "apply" /\ opc' = "idle"
    /\ \/ /\ uids = {} /\ started
          /\ ReplaceMux
          /\ started' = FALSE
          /\ UNCHANGED <<running, loopVars, startFailed>>
       \/ /\ uids = {} /\ ~started
          /\ UNCHANGED <<muxVars, loopVars, startFailed>>
       \/ /\ uids # {} /\ (started \/ ~running)
          /\ SetServerUsers
          /\ UNCHANGED <<running, started, mux, muxState, loopVars, startFailed>>
       \/ /\ uids # {} /\ running /\ ~started
          /\ SetServerUsers
          /\ \/ /\ started' = TRUE /\ startFailed' = FALSE
                /\ muxState' = [muxState EXCEPT ![mux] = "open"]
                /\ loop' = [loop EXCEPT ![mux] = "top"]
             \/ /\ startFailed' = TRUE
                /\ UNCHANGED <<started, muxState, loop>>
          /\ UNCHANGED <<running, mux, lmux>>
    /\ UNCHANGED <<mapVars, members, opVars, up, phase, counter, cset, closed,
                   ops, trafficVars, ghostVars>>

-----------------------------------------------------------------------------
LoopGoto(k, step) == loop' = [loop EXCEPT ![k] = step]

\* The head of acceptLoop.
CheckRunning(k) ==
    /\ loop[k] = "top"
    /\ LoopGoto(k, IF running THEN "fetch" ELSE "exited")
    /\ UNCHANGED <<muxVars, mapVars, members, opc, opVars, up, lmux, phase,
                   counter, cset, closed, ops, startFailed, trafficVars, ghostVars>>

\* accept reads m.mux.
FetchMux(k) ==
    /\ loop[k] = "fetch"
    /\ LoopGoto(k, "accept")
    /\ lmux' = [lmux EXCEPT ![k] = mux]
    /\ UNCHANGED <<muxVars, mapVars, members, opc, opVars, up, phase, counter,
                   cset, closed, ops, startFailed, trafficVars, ghostVars>>

\* mux.Accept and the handshake of a user the mux knows.
Accept(k, c) ==
    /\ loop[k] = "accept" /\ muxState[lmux[k]] = "open"
    /\ phase[c] = "new" /\ UserOf[c] \in muxUsers
    /\ LoopGoto(k, "top")
    /\ lmux' = [lmux EXCEPT ![k] = 0]
    /\ phase' = [phase EXCEPT ![c] = "check"]
    /\ orphan' = IF UserOf[c] \in uids THEN orphan ELSE orphan \cup {c}
    /\ UNCHANGED <<muxVars, mapVars, members, opc, opVars, up, counter,
                   cset, closed, ops, startFailed, trafficVars, missed>>

\* Mutant: the loop ends with the first error.
AcceptErrorEnds(k) ==
    /\ loop[k] = "accept" /\ muxState[lmux[k]] # "new"
    /\ LoopGoto(k, "exited")
    /\ lmux' = [lmux EXCEPT ![k] = 0]
    /\ UNCHANGED <<muxVars, mapVars, members, opc, opVars, up, phase,
                   counter, cset, closed, ops, startFailed, trafficVars, ghostVars>>

\* A failed handshake or a closed mux; a mux that is not started blocks.
AcceptError(k) ==
    /\ loop[k] = "accept" /\ muxState[lmux[k]] # "new"
    /\ LoopGoto(k, "top")
    /\ lmux' = [lmux EXCEPT ![k] = 0]
    /\ UNCHANGED <<muxVars, mapVars, members, opc, opVars, up, phase,
                   counter, cset, closed, ops, startFailed, trafficVars, ghostVars>>

-----------------------------------------------------------------------------
\* The steps of handleConnection with bridgeTCP or bridgeUDP.
After(c) ==
    IF c \in Udp
    THEN [check |-> "set", set |-> "add", add |-> "counter", counter |-> "bridge"]
    ELSE [check |-> "dial", dial |-> "counter", counter |-> "set", set |-> "add",
          add |-> "bridge"]

Proceed(c, step) ==
    /\ phase[c] = step
    /\ phase' = [phase EXCEPT ![c] = After(c)[step]]
    /\ UNCHANGED <<muxVars, uids, opc, opVars, up, loopVars, closed, ops,
                   startFailed, trafficVars, ghostVars>>

\* The limiter admits the connection, and the destination answers.
CheckLimit(c) == Proceed(c, "check") /\ UNCHANGED <<counterOf, connsOf, members, counter, cset>>
Dial(c) == Proceed(c, "dial") /\ UNCHANGED <<counterOf, connsOf, members, counter, cset>>

\* Rejected by the limiter, or a failed dial, reply or ListenPacket.
Refuse(c) ==
    /\ phase[c] \in {"check", "dial"}
    /\ phase' = [phase EXCEPT ![c] = "done"]
    /\ UNCHANGED <<muxVars, mapVars, members, opc, opVars, up, loopVars,
                   counter, cset, closed, ops, startFailed, trafficVars, ghostVars>>

\* Mutant: Store of a new counter for every connection.
GetCounterStores(c) ==
    /\ Proceed(c, "counter")
    /\ counterOf' = [counterOf EXCEPT ![UserOf[c]] = c]
    /\ counter' = [counter EXCEPT ![c] = c]
    /\ UNCHANGED <<connsOf, members, cset>>

\* trafficMap.LoadOrStore.
GetCounter(c) ==
    LET u == UserOf[c]
        t == IF counterOf[u] = None THEN c ELSE counterOf[u]
    IN  /\ Proceed(c, "counter")
        /\ counterOf' = [counterOf EXCEPT ![u] = t]
        /\ counter' = [counter EXCEPT ![c] = t]
        /\ UNCHANGED <<connsOf, members, cset>>

\* userConns.LoadOrStore.
GetConnSet(c) ==
    LET u == UserOf[c]
        s == IF connsOf[u] = None THEN c ELSE connsOf[u]
    IN  /\ Proceed(c, "set")
        /\ connsOf' = [connsOf EXCEPT ![u] = s]
        /\ cset' = [cset EXCEPT ![c] = s]
        /\ UNCHANGED <<counterOf, members, counter>>

\* connSet.Add of both ends.
AddConn(c) ==
    /\ Proceed(c, "add")
    /\ members' = [members EXCEPT ![cset[c]] = @ \cup {c}]
    /\ UNCHANGED <<counterOf, connsOf, counter, cset>>

\* Either end closes, or CloseAll did.
EndBridge(c) ==
    /\ phase[c] = "bridge"
    /\ phase' = [phase EXCEPT ![c] = "remove"]
    /\ UNCHANGED <<muxVars, mapVars, members, opc, opVars, up, loopVars,
                   counter, cset, closed, ops, startFailed, trafficVars, ghostVars>>

\* Mutant: every connection drops the connSet of its user.
RemoveConnDropsSet(c) ==
    /\ phase[c] = "remove"
    /\ phase' = [phase EXCEPT ![c] = "done"]
    /\ members' = [members EXCEPT ![cset[c]] = @ \ {c}]
    /\ connsOf' = [connsOf EXCEPT ![UserOf[c]] = None]
    /\ UNCHANGED <<muxVars, uids, counterOf, opc, opVars, up, loopVars, counter,
                   cset, closed, ops, startFailed, trafficVars, ghostVars>>

RemoveConn(c) ==
    /\ phase[c] = "remove"
    /\ phase' = [phase EXCEPT ![c] = "done"]
    /\ members' = [members EXCEPT ![cset[c]] = @ \ {c}]
    /\ counter' = [counter EXCEPT ![c] = None] /\ cset' = [cset EXCEPT ![c] = None]
    /\ closed' = closed \ {c} /\ missed' = missed \ {c}
    /\ UNCHANGED <<muxVars, mapVars, opc, opVars, up, loopVars, ops,
                   startFailed, trafficVars, orphan>>

\* countedWriter.Write and the two loops of bridgeUDP; one packet for each.
Transfer(c) ==
    /\ phase[c] = "bridge" /\ c \notin sent
    /\ c \in closed => c \in Udp
    /\ sent' = sent \cup {c}
    /\ bytes' = [bytes EXCEPT ![counter[c]] = @ \cup {c}]
    /\ UNCHANGED <<muxVars, mapVars, members, opc, opVars, up, loopVars, phase,
                   counter, cset, closed, ops, startFailed, reportVars, raced,
                   ghostVars>>

-----------------------------------------------------------------------------
\* GetUserTrafficSlice, for one user of its Range: Load,
LoadCounter(u) ==
    /\ rpc = "load" /\ counterOf[u] # None
    /\ bytes[counterOf[u]] # {}
    /\ rpc' = "store" /\ rcur' = u /\ rctr' = counterOf[u]
    /\ rsnap' = bytes[counterOf[u]]
    /\ UNCHANGED <<muxVars, mapVars, members, opc, opVars, up, loopVars, phase,
                   counter, cset, closed, ops, startFailed, bytes, sent,
                   reported, raced, ghostVars>>

\* Store(0),
ResetCounter ==
    /\ rpc = "store" /\ rpc' = "uid"
    /\ bytes' = [bytes EXCEPT ![rctr] = {}]
    /\ raced' = raced \cup (bytes[rctr] \ rsnap)
    /\ UNCHANGED <<muxVars, mapVars, members, opc, opVars, up, loopVars, phase,
                   counter, cset, closed, ops, startFailed, sent, rcur, rctr,
                   rsnap, reported, ghostVars>>

\* and the uid, without which the traffic is dropped.
AppendTraffic ==
    /\ rpc = "uid" /\ rpc' = "load"
    /\ reported' = IF rcur \in uids THEN reported \cup rsnap ELSE reported
    /\ rcur' = None /\ rctr' = None /\ rsnap' = {}
    /\ UNCHANGED <<muxVars, mapVars, members, opc, opVars, up, loopVars, phase,
                   counter, cset, closed, ops, startFailed, bytes, sent, raced,
                   ghostVars>>

GetUserTrafficSlice == (\E u \in Users : LoadCounter(u)) \/ ResetCounter \/ AppendTraffic

HandleConnection(c) ==
    \/ CheckLimit(c) \/ Dial(c) \/ Refuse(c) \/ GetCounter(c) \/ GetConnSet(c)
    \/ AddConn(c) \/ Transfer(c) \/ EndBridge(c) \/ RemoveConn(c)

AcceptLoop(k) ==
    \/ CheckRunning(k) \/ FetchMux(k) \/ AcceptError(k)
    \/ \E c \in Conns : Accept(k, c)

Next ==
    \/ Start \/ AddNode \/ DelNode \/ CloseMux \/ DeleteUser \/ DropCounter
    \/ TakeConns \/ CloseAll \/ ApplyConfig \/ GetUserTrafficSlice
    \/ \E users \in SUBSET Users \ {{}} : AddUsers(users) \/ DelUsers(users)
    \/ \E k \in Muxes : AcceptLoop(k)
    \/ \E c \in Conns : HandleConnection(c)

Spec == Init /\ [][Next]_vars

-----------------------------------------------------------------------------
(* A started mux is open, and some acceptLoop accepts from it or comes back *)
(* to it, however often the users left and the node was reloaded.           *)
StartedIsServed ==
    started =>
        /\ muxState[mux] = "open"
        /\ \E k \in Muxes :
              \/ loop[k] \in {"top", "fetch"}
              \/ loop[k] = "accept" /\ (lmux[k] = mux \/ muxState[lmux[k]] = "closed")

(* Between two calls, a node with users is open for exactly these users,    *)
(* unless its port could not be opened, and one without users is closed.    *)
OpenForItsUsers ==
    (opc = "idle" /\ up) =>
        /\ started => uids # {} /\ muxUsers = uids
        /\ ~started => uids = {} \/ startFailed

Bridging(c) == phase[c] = "bridge" \/ (c \in Udp /\ phase[c] = "counter")

(* A connection that is served is in the connSet of its user, where the     *)
(* next DelUsers finds it ("active connections will be terminated"), unless *)
(* it was about to register while DelUsers closed that set.                 *)
BridgesCanBeCut ==
    \A c \in Conns : (Bridging(c) /\ c \notin closed \cup missed) =>
        /\ c \in members[cset[c]]
        /\ cset[c] = connsOf[UserOf[c]] \/ (opc = "close" /\ cset[c] = taken)

(* What a connection transfers is in the counter of its user, in a report,  *)
(* or reported, while the user stays, and no report repeats it: only bytes  *)
(* added between the Load and the Store of a report get lost.               *)
TrafficKept ==
    /\ rsnap \cap reported = {}
    /\ \A c \in sent \ (orphan \cup raced) :
          \/ counterOf[UserOf[c]] # None /\ c \in bytes[counterOf[UserOf[c]]]
          \/ c \in rsnap \cup reported

\* What is in counters, and what the report has taken out of one.
Counted == {c \in Conns : \E t \in Conns : c \in bytes[t]}
Taken == IF rpc = "uid" THEN rsnap ELSE {}

Books == INSTANCE Ledger WITH Packets <- Conns, Accounts <- Users, AccountOf <- UserOf,
    counted <- Counted, taken <- Taken, billed <- reported

(* The counters of the users and the report keep a ledger: a packet goes    *)
(* from the counter of its user into one report, or is lost in a reset or   *)
(* for want of a uid, and never comes back.                                 *)
KeepsLedger == Books!Spec
=============================================================================
