---------------------------- MODULE MieruProofs ------------------------------
(***************************************************************************)
(* For any number of users, connections and calls of the controller: a     *)
(* started mux is served and open for the users of the node, connections   *)
(* stay where DelUsers finds them, traffic is kept, and the accounting     *)
(* implements Ledger.                                                      *)
(***************************************************************************)
EXTENDS Mieru, TLAPS

USE ConnAssumption, BoundAssumption

Loops == {"none", "top", "fetch", "accept", "exited"}
Phases == {"new", "check", "dial", "counter", "set", "add", "bridge", "remove", "done"}

(* A call in progress has its mux to replace. *)
MuxType ==
    /\ ops \in Nat /\ ops <= MaxOps
    /\ mux \in Nat /\ 1 <= mux /\ mux <= ops + 1
    /\ opc \in {"apply", "closeMux"} => mux <= ops
    /\ opc \in {"del", "drop", "take", "close"} => mux <= ops
    /\ muxState \in [Muxes -> {"new", "open", "closed"}]
    /\ loop \in [Muxes -> Loops] /\ lmux \in [Muxes -> Nat]

(* The flags go with the node, and no acceptLoop waits for a mux that is    *)
(* neither the current one nor closed.                                      *)
MuxInv ==
    /\ up \/ started => running
    /\ opc \in {"boot", "closeMux"} => ~up /\ ~started
    /\ \A k \in Muxes : loop[k] = "accept" =>
          lmux[k] \in Muxes /\ (lmux[k] = mux \/ muxState[lmux[k]] = "closed")
    /\ started => /\ muxState[mux] = "open"
                  /\ \E k \in Muxes : loop[k] \in {"top", "fetch", "accept"}
    /\ OpenForItsUsers

muxInvVars == <<running, started, mux, muxState, muxUsers, uids, opc, up, loop,
                lmux, ops, startFailed>>
(* Connections and reports leave the muxes alone. *)
LEMMA MuxQuiet ==
    ASSUME GetUserTrafficSlice \/ (\E c \in Conns : HandleConnection(c)) \/ UNCHANGED vars
    PROVE  UNCHANGED muxInvVars
<1> USE DEF muxInvVars, muxVars, mapVars, loopVars, trafficVars
<1>1. CASE GetUserTrafficSlice
    BY ZenonT(60), <1>1 DEF GetUserTrafficSlice, LoadCounter, ResetCounter, AppendTraffic
<1>2. ASSUME NEW c \in Conns, HandleConnection(c) PROVE UNCHANGED muxInvVars
    BY ZenonT(60), <1>2 DEF HandleConnection, CheckLimit, Dial, Refuse, GetCounter,
        GetConnSet, AddConn, Transfer, EndBridge, RemoveConn, Proceed
<1>3. CASE UNCHANGED vars
    BY ZenonT(60), <1>3 DEF vars
<1> QED
    BY ZenonT(60), <1>1, <1>2, <1>3

(* A call replaces the mux at most once, so the muxes do not run out. *)
LEMMA MuxTypeStep ==
    ASSUME MuxType, [Next]_vars PROVE MuxType'
<1> USE DEF MuxType, Muxes, Loops
<1>1. CASE Start \/ AddNode \/ DelNode \/ \E users \in SUBSET Users : AddUsers(users) \/ DelUsers(users)
    <2>1. UNCHANGED <<mux, muxState, loop, lmux>>
        BY ZenonT(60), <1>1 DEF Start, AddNode, DelNode, AddUsers, DelUsers, muxVars, loopVars
    <2>2. \/ ops' = ops /\ opc' = "idle"
          \/ ops < MaxOps /\ ops' = ops + 1
        BY ZenonT(60), <1>1 DEF Start, AddNode, DelNode, AddUsers, DelUsers, Begin
    <2>3. ops' \in Nat /\ ops' <= MaxOps /\ mux <= ops' + 1 /\ (opc' # "idle" => mux <= ops')
        BY <2>2
    <2> QED
        BY ZenonT(60), <2>1, <2>3
<1>2. CASE DeleteUser \/ DropCounter \/ TakeConns \/ CloseAll
    BY ZenonT(60), <1>2 DEF DeleteUser, DropCounter, TakeConns, CloseAll, muxVars, loopVars,
        opVars
<1>3. CASE CloseMux
    BY <1>3 DEF CloseMux, ReplaceMux, loopVars
<1>4. CASE ApplyConfig
    <2>1. /\ opc' = "idle" /\ opc = "apply" /\ UNCHANGED <<ops, lmux>>
        BY ZenonT(60), <1>4 DEF ApplyConfig, muxVars, loopVars
    <2>2. /\ mux' = mux \/ mux' = mux + 1
          /\ \/ muxState' = muxState
             \/ muxState' = [muxState EXCEPT ![mux] = "open"]
             \/ muxState' = [muxState EXCEPT ![mux] = "closed"]
          /\ loop' = loop \/ loop' = [loop EXCEPT ![mux] = "top"]
        BY ZenonT(60), <1>4 DEF ApplyConfig, ReplaceMux, muxVars, loopVars
    <2>3. /\ muxState' \in [Muxes -> {"new", "open", "closed"}]
          /\ loop' \in [Muxes -> Loops]
        BY ZenonT(60), <2>2
    <2> QED
        BY <2>1, <2>2, <2>3
<1>5. ASSUME NEW k \in Muxes, AcceptLoop(k) PROVE MuxType'
    <2>1. UNCHANGED <<ops, mux, opc, muxState>>
        BY ZenonT(60), <1>5 DEF AcceptLoop, CheckRunning, FetchMux, AcceptError, Accept, muxVars
    <2>2. \E l \in Loops : loop' = [loop EXCEPT ![k] = l]
        BY ZenonT(60), <1>5 DEF AcceptLoop, CheckRunning, FetchMux, AcceptError, Accept, LoopGoto
    <2>3. \E m \in Nat : lmux' = lmux \/ lmux' = [lmux EXCEPT ![k] = m]
        BY ZenonT(60), <1>5 DEF AcceptLoop, CheckRunning, FetchMux, AcceptError, Accept
    <2>4. loop' \in [Muxes -> Loops] /\ lmux' \in [Muxes -> Nat]
        BY ZenonT(60), <2>2, <2>3
    <2> QED
        BY ZenonT(60), <2>1, <2>4
<1>6. CASE UNCHANGED muxInvVars
    BY ZenonT(60), <1>6 DEF muxInvVars
<1> QED
    BY ZenonT(60), <1>1, <1>2, <1>3, <1>4, <1>5, <1>6, MuxQuiet DEF Next

(* Every step keeps the mux served and open for the users. *)
LEMMA MuxStep ==
    ASSUME MuxType, MuxInv, [Next]_vars PROVE MuxInv'
<1> USE DEF MuxInv, OpenForItsUsers
<1>1. CASE Start \/ AddNode \/ \E users \in SUBSET Users : AddUsers(users) \/ DelUsers(users)
    <2>1. /\ UNCHANGED <<started, mux, muxState, loop, lmux>>
          /\ \/ opc' = "idle" /\ opc = "boot" /\ (up' => up) /\ running'
             \/ /\ opc' \in {"apply", "del"}
                /\ running' \/ ((running => running') /\ (up' => up))
        BY <1>1 DEF Start, AddNode, AddUsers, DelUsers, Begin, muxVars, loopVars
    <2> QED
        BY ZenonT(60), <2>1
<1>2. CASE DelNode
    <2>1. /\ UNCHANGED <<mux, muxState, loop, lmux>> /\ opc' # "boot"
          /\ ~up' /\ ~started'
        BY ZenonT(60), <1>2 DEF DelNode, Begin, muxVars, loopVars
    <2> QED
        BY ZenonT(60), <2>1
<1>3. CASE DeleteUser \/ DropCounter \/ TakeConns \/ CloseAll
    <2>1. /\ UNCHANGED <<running, started, up, mux, muxState, loop, lmux>>
          /\ opc' \in {"apply", "drop", "take", "del", "close"}
        BY ZenonT(60), <1>3 DEF DeleteUser, DropCounter, TakeConns, CloseAll, muxVars, loopVars
    <2> QED
        BY ZenonT(60), <2>1
<1>4. CASE CloseMux
    <2>1. mux \in Muxes
        BY <1>4 DEF MuxType, CloseMux, Muxes
    <2> QED
        BY ZenonT(60), <1>4, <2>1 DEF MuxType, CloseMux, ReplaceMux, loopVars
<1>5. CASE ApplyConfig
    <2>1. mux \in Muxes
        BY <1>5 DEF MuxType, ApplyConfig, Muxes
    <2>2. CASE uids = {}
        BY <1>5, <2>1, <2>2 DEF MuxType, ApplyConfig, ReplaceMux, muxVars, loopVars, mapVars
    <2>3. CASE uids # {} /\ (started \/ ~running)
        BY <1>5, <2>1, <2>3 DEF MuxType, ApplyConfig, SetServerUsers, loopVars, mapVars
    <2>4. CASE uids # {} /\ running /\ ~started
        <3>1. /\ UNCHANGED <<running, mux, lmux, uids, up>> /\ opc' = "idle" /\ muxUsers' = uids
              /\ \/ /\ started' /\ muxState' = [muxState EXCEPT ![mux] = "open"]
                    /\ loop' = [loop EXCEPT ![mux] = "top"]
                 \/ startFailed' /\ UNCHANGED <<started, muxState, loop>>
            BY ZenonT(60), <1>5, <2>4 DEF ApplyConfig, SetServerUsers, mapVars
        <3>2. CASE startFailed' /\ UNCHANGED <<started, muxState, loop>>
            BY ZenonT(60), <2>4, <3>1, <3>2
        <3>3. CASE /\ started' /\ muxState' = [muxState EXCEPT ![mux] = "open"]
                   /\ loop' = [loop EXCEPT ![mux] = "top"]
            <4>1. muxState'[mux] = "open" /\ loop'[mux] = "top"
                BY ZenonT(60), <2>1, <3>3 DEF MuxType
            <4>2. ASSUME NEW k \in Muxes, loop'[k] = "accept"
                  PROVE  lmux[k] \in Muxes /\ (lmux[k] = mux \/ muxState'[lmux[k]] = "closed")
                BY ZenonT(60), <2>1, <3>3, <4>2 DEF MuxType
            <4> QED
                BY ZenonT(60), <2>1, <2>4, <3>1, <3>3, <4>1, <4>2
        <3> QED
            BY ZenonT(60), <3>1, <3>2, <3>3
    <2> QED
        BY ZenonT(60), <2>2, <2>3, <2>4
<1>6. ASSUME NEW k \in Muxes, AcceptLoop(k) PROVE MuxInv'
    <2>1. mux \in Muxes
        BY DEF MuxType, Muxes
    <2>2. CASE CheckRunning(k)
        BY ZenonT(60), <2>2 DEF MuxType, CheckRunning, LoopGoto, muxVars, mapVars
    <2>3. CASE FetchMux(k)
        BY ZenonT(60), <2>1, <2>3 DEF MuxType, FetchMux, LoopGoto, muxVars, mapVars
    <2>4. CASE AcceptError(k) \/ \E c \in Conns : Accept(k, c)
        BY <2>4 DEF MuxType, AcceptError, Accept, LoopGoto, muxVars, mapVars
    <2> QED
        BY ZenonT(60), <1>6, <2>2, <2>3, <2>4 DEF AcceptLoop
<1>7. CASE UNCHANGED muxInvVars
    BY ZenonT(60), <1>7 DEF muxInvVars
<1> QED
    BY ZenonT(60), <1>1, <1>2, <1>3, <1>4, <1>5, <1>6, <1>7, MuxQuiet DEF Next

-----------------------------------------------------------------------------
ConnType ==
    /\ connsOf \in [Users -> Conns \cup {None}] /\ members \in [Conns -> SUBSET Conns]
    /\ phase \in [Conns -> Phases] /\ \A c \in Udp : phase[c] # "dial"
    /\ cset \in [Conns -> Conns \cup {None}]
    /\ todo \subseteq Users
    /\ opc \in {"drop", "take"} => cur \in Users
    /\ opc = "close" => taken \in Conns

(* A connection that is about to register, or has, was given the connSet of *)
(* its user, and DelUsers has that set when the user has another one.       *)
CutInv(c) ==
    /\ phase[c] \in {"add", "remove"} \/ Bridging(c) => cset[c] \in Conns
    /\ (phase[c] = "add" \/ Bridging(c)) /\ c \notin closed \cup missed =>
          cset[c] = connsOf[UserOf[c]] \/ (opc = "close" /\ cset[c] = taken)
    /\ Bridging(c) /\ c \notin closed \cup missed => c \in members[cset[c]]

(* The order of the steps of handleConnection. *)
LEMMA Order ==
    ASSUME NEW c \in Conns
    PROVE  /\ After(c)["check"] = IF c \in Udp THEN "set" ELSE "dial"
           /\ c \notin Udp => After(c)["dial"] = "counter"
           /\ After(c)["counter"] = IF c \in Udp THEN "bridge" ELSE "set"
           /\ After(c)["set"] = "add"
           /\ After(c)["add"] = IF c \in Udp THEN "counter" ELSE "bridge"
BY ZenonT(60) DEF After

(* What a connection does leaves the others registered. *)
LEMMA OtherConn ==
    ASSUME ConnType, NEW d \in Conns, CutInv(d),
           phase'[d] = phase[d], cset'[d] = cset[d],
           \/ connsOf'[UserOf[d]] = connsOf[UserOf[d]]
           \/ connsOf[UserOf[d]] = None,
           opc = "close" => opc' = "close" /\ taken' = taken,
           \A s \in Conns : d \in members[s] => d \in members'[s],
           d \in closed \cup missed => d \in closed' \cup missed'
    PROVE  CutInv(d)'
BY ZenonT(60) DEF ConnType, CutInv, Bridging

(* The steps of handleConnection that touch no connSet. *)
LEMMA PlainStep ==
    ASSUME ConnType, \A d \in Conns : CutInv(d), NEW c \in Conns,
           CheckLimit(c) \/ Dial(c) \/ Refuse(c) \/ GetCounter(c) \/ EndBridge(c) \/ Transfer(c)
    PROVE  ConnType' /\ \A d \in Conns : CutInv(d)'
<1>1. UNCHANGED <<connsOf, members, cset, todo, cur, taken, opc, closed, missed>>
    BY ZenonT(60) DEF CheckLimit, Dial, Refuse, GetCounter, EndBridge, Transfer, Proceed,
        mapVars, opVars, ghostVars
<1>2. \/ phase' = phase
      \/ \E p \in Phases :
            /\ phase' = [phase EXCEPT ![c] = p]
            /\ p = "dial" => c \notin Udp
            /\ p # "add"
            /\ p = "bridge" => c \in Udp /\ phase[c] = "counter"
            /\ p = "counter" => c \notin Udp
            /\ p = "remove" => phase[c] = "bridge"
    BY ZenonT(60), Order DEF CheckLimit, Dial, Refuse, GetCounter, EndBridge, Transfer, Proceed,
        Phases, ConnType
<1>3. ConnType'
    BY <1>1, <1>2 DEF ConnType
<1>4. ASSUME NEW d \in Conns PROVE CutInv(d)'
    <2>1. CASE phase'[d] = phase[d]
        BY ZenonT(60), <1>1, <2>1, OtherConn
    <2>2. CASE phase'[d] # phase[d]
        BY <1>1, <1>2, <2>2 DEF ConnType, CutInv, Bridging
    <2> QED
        BY ZenonT(60), <2>1, <2>2
<1> QED
    BY ZenonT(60), <1>3, <1>4

(* userConns.LoadOrStore gives a connection the set of its user. *)
LEMMA GetConnSetStep ==
    ASSUME ConnType, \A d \in Conns : CutInv(d), NEW c \in Conns, GetConnSet(c)
    PROVE  ConnType' /\ \A d \in Conns : CutInv(d)'
<1> DEFINE u == UserOf[c]
           set == IF connsOf[u] = None THEN c ELSE connsOf[u]
<1>1. /\ phase' = [phase EXCEPT ![c] = "add"]
      /\ connsOf' = [connsOf EXCEPT ![u] = set] /\ cset' = [cset EXCEPT ![c] = set]
      /\ UNCHANGED <<members, todo, cur, taken, opc, closed, missed>>
    BY ZenonT(60), Order DEF GetConnSet, Proceed, opVars, ghostVars
<1>2. set \in Conns /\ u \in Users
    BY ZenonT(60) DEF ConnType
<1> HIDE DEF set
<1>3. ConnType'
    BY ZenonT(60), <1>1, <1>2 DEF ConnType, Phases
<1>4. CutInv(c)'
    BY ZenonT(60), <1>1, <1>2 DEF ConnType, CutInv, Bridging
<1>5. ASSUME NEW d \in Conns, d # c PROVE CutInv(d)'
    <2>1. phase'[d] = phase[d] /\ cset'[d] = cset[d]
        BY ZenonT(60), <1>1, <1>5 DEF ConnType
    <2>2. connsOf'[UserOf[d]] = connsOf[UserOf[d]] \/ connsOf[UserOf[d]] = None
        BY ZenonT(60), <1>1, <1>2 DEF ConnType, set
    <2> QED
        BY ZenonT(60), <1>1, <2>1, <2>2, OtherConn
<1> QED
    BY ZenonT(60), <1>3, <1>4, <1>5

(* connSet.Add registers the connection in that set. *)
LEMMA AddConnStep ==
    ASSUME ConnType, \A d \in Conns : CutInv(d), NEW c \in Conns, AddConn(c)
    PROVE  ConnType' /\ \A d \in Conns : CutInv(d)'
<1>1. /\ phase[c] = "add"
      /\ phase' = [phase EXCEPT ![c] = IF c \in Udp THEN "counter" ELSE "bridge"]
      /\ members' = [members EXCEPT ![cset[c]] = @ \cup {c}]
      /\ UNCHANGED <<connsOf, cset, todo, cur, taken, opc, closed, missed>>
    BY ZenonT(60), Order DEF AddConn, Proceed, opVars, ghostVars
<1>2. cset[c] \in Conns
    BY ZenonT(60), <1>1 DEF CutInv
<1>3. ConnType'
    BY ZenonT(60), <1>1, <1>2 DEF ConnType, Phases
<1>4. CutInv(c)'
    BY ZenonT(60), <1>1, <1>2 DEF ConnType, CutInv, Bridging
<1>5. ASSUME NEW d \in Conns, d # c PROVE CutInv(d)'
    <2>1. phase'[d] = phase[d]
        BY ZenonT(60), <1>1, <1>5 DEF ConnType
    <2>2. \A s \in Conns : d \in members[s] => d \in members'[s]
        BY ZenonT(60), <1>1, <1>2 DEF ConnType
    <2> QED
        BY ZenonT(60), <1>1, <2>1, <2>2, OtherConn
<1> QED
    BY ZenonT(60), <1>3, <1>4, <1>5

(* The end of a connection takes only that one out of its set. *)
LEMMA RemoveConnStep ==
    ASSUME ConnType, \A d \in Conns : CutInv(d), NEW c \in Conns, RemoveConn(c)
    PROVE  ConnType' /\ \A d \in Conns : CutInv(d)'
<1>1. /\ phase[c] = "remove" /\ phase' = [phase EXCEPT ![c] = "done"]
      /\ members' = [members EXCEPT ![cset[c]] = @ \ {c}]
      /\ cset' = [cset EXCEPT ![c] = None]
      /\ closed' = closed \ {c} /\ missed' = missed \ {c}
      /\ UNCHANGED <<connsOf, todo, cur, taken, opc>>
    BY ZenonT(60) DEF RemoveConn, mapVars, opVars
<1>2. cset[c] \in Conns
    BY ZenonT(60), <1>1 DEF CutInv
<1>3. ConnType'
    BY ZenonT(60), <1>1, <1>2 DEF ConnType, Phases
<1>4. CutInv(c)'
    BY ZenonT(60), <1>1 DEF ConnType, CutInv, Bridging
<1>5. ASSUME NEW d \in Conns, d # c PROVE CutInv(d)'
    <2>1. phase'[d] = phase[d] /\ cset'[d] = cset[d]
        BY ZenonT(60), <1>1, <1>5 DEF ConnType
    <2>2. /\ \A s \in Conns : d \in members[s] => d \in members'[s]
          /\ d \in closed \cup missed => d \in closed' \cup missed'
        BY ZenonT(60), <1>1, <1>2, <1>5 DEF ConnType
    <2> QED
        BY ZenonT(60), <1>1, <2>1, <2>2, OtherConn
<1> QED
    BY ZenonT(60), <1>3, <1>4, <1>5

(* LoadAndDelete takes the set away from the user: DelUsers has it now. *)
LEMMA TakeConnsStep ==
    ASSUME ConnType, \A d \in Conns : CutInv(d), TakeConns
    PROVE  ConnType' /\ \A d \in Conns : CutInv(d)'
<1>1. /\ opc = "take" /\ opc' = IF connsOf[cur] = None THEN "del" ELSE "close"
      /\ taken' = connsOf[cur] /\ connsOf' = [connsOf EXCEPT ![cur] = None]
      /\ UNCHANGED <<members, phase, cset, todo, cur, closed, missed>>
    BY ZenonT(60) DEF TakeConns, ghostVars
<1>2. ConnType'
    BY ZenonT(60), <1>1 DEF ConnType
<1>3. ASSUME NEW d \in Conns PROVE CutInv(d)'
    <2>1. CutInv(d) /\ UserOf[d] \in Users
        OBVIOUS
    <2>2. CASE UserOf[d] = cur
        BY ZenonT(60), <1>1, <2>1, <2>2 DEF ConnType, CutInv, Bridging
    <2>3. CASE UserOf[d] # cur
        <3>1. connsOf'[UserOf[d]] = connsOf[UserOf[d]]
            BY ZenonT(60), <1>1, <2>1, <2>3 DEF ConnType
        <3> QED
            BY ZenonT(60), <1>1, <2>1, <3>1, OtherConn
    <2> QED
        BY ZenonT(60), <2>2, <2>3
<1> QED
    BY ZenonT(60), <1>2, <1>3

(* CloseAll closes what is in the set; it misses what is about to come. *)
LEMMA CloseAllStep ==
    ASSUME ConnType, \A d \in Conns : CutInv(d), CloseAll
    PROVE  ConnType' /\ \A d \in Conns : CutInv(d)'
<1>1. /\ opc = "close" /\ opc' = "del"
      /\ closed' = closed \cup members[taken] /\ members' = [members EXCEPT ![taken] = {}]
      /\ missed' = missed \cup {c \in Conns : phase[c] = "add" /\ cset[c] = taken}
      /\ UNCHANGED <<connsOf, phase, cset, todo, cur>>
    BY ZenonT(60) DEF CloseAll, mapVars
<1>2. ConnType'
    BY ZenonT(60), <1>1 DEF ConnType
<1>3. ASSUME NEW d \in Conns PROVE CutInv(d)'
    <2>1. CutInv(d)
        OBVIOUS
    <2>2. CASE cset[d] = taken
        BY ZenonT(60), <1>1, <2>1, <2>2 DEF ConnType, CutInv, Bridging
    <2>3. CASE cset[d] # taken
        BY ZenonT(60), <1>1, <2>1, <2>3 DEF ConnType, CutInv, Bridging
    <2> QED
        BY ZenonT(60), <2>2, <2>3
<1> QED
    BY ZenonT(60), <1>2, <1>3

(* Every other step leaves the connSets alone. *)
LEMMA CutQuiet ==
    ASSUME ConnType, \A d \in Conns : CutInv(d),
           \/ Start \/ AddNode \/ DelNode \/ CloseMux \/ DeleteUser \/ DropCounter
           \/ ApplyConfig
           \/ \E users \in SUBSET Users : AddUsers(users) \/ DelUsers(users)
           \/ GetUserTrafficSlice \/ UNCHANGED vars
           \/ \E k \in Muxes : CheckRunning(k) \/ FetchMux(k) \/ AcceptError(k)
    PROVE  ConnType' /\ \A d \in Conns : CutInv(d)'
<1>1. UNCHANGED <<connsOf, members, phase, cset, closed, missed>>
    <2> USE DEF mapVars, ghostVars
    <2>1. CASE Start \/ AddNode \/ DelNode \/ CloseMux \/ DeleteUser \/ DropCounter \/ ApplyConfig
        BY ZenonT(60), <2>1 DEF Start, AddNode, DelNode, CloseMux, DeleteUser, DropCounter,
            ApplyConfig
    <2>2. CASE GetUserTrafficSlice \/ UNCHANGED vars
        BY ZenonT(60), <2>2 DEF GetUserTrafficSlice, LoadCounter, ResetCounter,
            AppendTraffic, vars
    <2>3. CASE \/ \E users \in SUBSET Users : AddUsers(users) \/ DelUsers(users)
               \/ \E k \in Muxes : CheckRunning(k) \/ FetchMux(k) \/ AcceptError(k)
        BY ZenonT(60), <2>3 DEF AddUsers, DelUsers, CheckRunning, FetchMux, AcceptError
    <2> QED
        BY ZenonT(60), <2>1, <2>2, <2>3
<1>2. /\ todo' \subseteq Users
      /\ \/ UNCHANGED <<opc, cur, taken>>
         \/ opc # "close" /\ opc' \notin {"drop", "take", "close"}
         \/ opc # "close" /\ opc' \in {"drop", "take"} /\ cur' \in Users
    <2> USE DEF opVars, ConnType
    <2>1. CASE Start \/ AddNode \/ DelNode \/ CloseMux \/ ApplyConfig
        BY ZenonT(60), <2>1 DEF Start, AddNode, DelNode, CloseMux, ApplyConfig, Begin
    <2>2. CASE DeleteUser \/ DropCounter
        BY ZenonT(60), <2>2 DEF DeleteUser, DropCounter
    <2>3. CASE GetUserTrafficSlice \/ UNCHANGED vars
        BY ZenonT(60), <2>3 DEF GetUserTrafficSlice, LoadCounter, ResetCounter,
            AppendTraffic, vars
    <2>4. CASE \/ \E users \in SUBSET Users : AddUsers(users) \/ DelUsers(users)
               \/ \E k \in Muxes : CheckRunning(k) \/ FetchMux(k) \/ AcceptError(k)
        BY ZenonT(60), <2>4 DEF AddUsers, DelUsers, Begin, CheckRunning, FetchMux, AcceptError
    <2> QED
        BY ZenonT(60), <2>1, <2>2, <2>3, <2>4
<1>3. ConnType'
    BY ZenonT(60), <1>1, <1>2 DEF ConnType
<1>4. ASSUME NEW d \in Conns PROVE CutInv(d)'
    BY ZenonT(60), <1>1, <1>2, OtherConn
<1> QED
    BY ZenonT(60), <1>3, <1>4

(* Every step keeps the connections where DelUsers finds them. *)
LEMMA CutStep ==
    ASSUME ConnType, \A d \in Conns : CutInv(d), [Next]_vars
    PROVE  ConnType' /\ \A d \in Conns : CutInv(d)'
<1>1. ASSUME NEW k \in Muxes, NEW c \in Conns, Accept(k, c)
      PROVE  ConnType' /\ \A d \in Conns : CutInv(d)'
    <2>1. /\ phase' = [phase EXCEPT ![c] = "check"]
          /\ UNCHANGED <<connsOf, members, cset, todo, cur, taken, opc, closed, missed>>
        BY ZenonT(60), <1>1 DEF Accept, mapVars, opVars
    <2>2. ConnType'
        BY ZenonT(60), <2>1 DEF ConnType, Phases
    <2>3. CutInv(c)'
        BY ZenonT(60), <2>1 DEF ConnType, CutInv, Bridging
    <2>4. ASSUME NEW d \in Conns, d # c PROVE CutInv(d)'
        <3>1. phase'[d] = phase[d]
            BY ZenonT(60), <2>1, <2>4 DEF ConnType
        <3> QED
            BY ZenonT(60), <2>1, <3>1, OtherConn
    <2> QED
        BY ZenonT(60), <2>2, <2>3, <2>4
<1>2. ASSUME NEW c \in Conns, HandleConnection(c)
      PROVE  ConnType' /\ \A d \in Conns : CutInv(d)'
    BY ZenonT(60), <1>2, PlainStep, GetConnSetStep, AddConnStep, RemoveConnStep
        DEF HandleConnection
<1>3. CASE TakeConns \/ CloseAll
    BY ZenonT(60), <1>3, TakeConnsStep, CloseAllStep
<1> QED
    BY ZenonT(60), <1>1, <1>2, <1>3, CutQuiet DEF Next, AcceptLoop

-----------------------------------------------------------------------------
(* Connections between GetCounter and the end of their bridge. *)
Counting(c) == phase[c] = "bridge" \/ (c \notin Udp /\ phase[c] \in {"set", "add"})

CountType ==
    /\ uids \subseteq Users /\ sent \subseteq Conns
    /\ counterOf \in [Users -> Conns \cup {None}] /\ counter \in [Conns -> Conns \cup {None}]

(* A connection has the counter of its user as long as the user stays. *)
CountInv ==
    /\ \A u \in Users : counterOf[u] # None => UserOf[counterOf[u]] = u
    /\ \A c \in Conns :
          /\ Counting(c) => /\ counter[c] \in Conns /\ UserOf[counter[c]] = UserOf[c]
                            /\ c \notin orphan => counterOf[UserOf[c]] = counter[c]
          /\ phase[c] # "new" /\ UserOf[c] \notin uids => c \in orphan
          /\ c \in sent => phase[c] # "new"

(* DelUsers drops the counter of a user whose uid is gone. *)
DropInv == opc = "drop" => cur \in Users /\ cur \notin uids

LEMMA DropStep ==
    ASSUME ConnType, DropInv, [Next]_vars PROVE DropInv'
<1>1. CASE UNCHANGED <<opc, cur, uids>>
    BY ZenonT(60), <1>1 DEF DropInv
<1>2. CASE opc' # "drop"
    BY ZenonT(60), <1>2 DEF DropInv
<1>3. CASE Start \/ AddNode \/ DelNode \/ CloseMux \/ DropCounter \/ TakeConns \/ CloseAll
           \/ ApplyConfig \/ \E users \in SUBSET Users : AddUsers(users) \/ DelUsers(users)
    <2>1. opc' # "drop"
        BY ZenonT(60), <1>3 DEF Start, AddNode, DelNode, CloseMux, DropCounter, TakeConns,
            CloseAll, ApplyConfig, AddUsers, DelUsers, Begin
    <2> QED
        BY ZenonT(60), <1>2, <2>1
<1>4. CASE DeleteUser
    BY ZenonT(60), <1>4 DEF DeleteUser, DropInv, ConnType
<1>5. ASSUME NEW k \in Muxes, AcceptLoop(k) PROVE UNCHANGED <<opc, cur, uids>>
    BY ZenonT(60), <1>5 DEF AcceptLoop, CheckRunning, FetchMux, AcceptError, Accept, opVars,
        mapVars
<1>6. CASE GetUserTrafficSlice \/ UNCHANGED vars
    <2>1. UNCHANGED <<opc, cur, uids>>
        BY ZenonT(60), <1>6 DEF GetUserTrafficSlice, LoadCounter, ResetCounter, AppendTraffic,
            vars, opVars, mapVars
    <2> QED
        BY ZenonT(60), <1>1, <2>1
<1>7. ASSUME NEW c \in Conns, HandleConnection(c) PROVE UNCHANGED <<opc, cur, uids>>
    BY ZenonT(60), <1>7 DEF HandleConnection, CheckLimit, Dial, Refuse, GetCounter,
        GetConnSet, AddConn, Transfer, EndBridge, RemoveConn, Proceed, opVars, mapVars
<1> QED
    BY ZenonT(60), <1>1, <1>3, <1>4, <1>5, <1>6, <1>7 DEF Next

(* Steps of the connections other than those that get and leave a counter. *)
LEMMA CountPlain ==
    ASSUME ConnType, CountType, CountInv, NEW c \in Conns,
           \/ CheckLimit(c) \/ Dial(c) \/ Refuse(c) \/ GetConnSet(c) \/ AddConn(c)
           \/ EndBridge(c) \/ Transfer(c)
    PROVE  CountType' /\ CountInv'
<1>1. /\ UNCHANGED <<uids, counterOf, counter, orphan>>
      /\ sent' = sent \/ (sent' = sent \cup {c} /\ phase' = phase /\ phase[c] = "bridge")
    BY ZenonT(60) DEF CheckLimit, Dial, Refuse, GetConnSet, AddConn, EndBridge, Transfer,
        Proceed, mapVars, ghostVars, trafficVars
<1>2. \/ phase' = phase
      \/ \E p \in Phases :
            /\ phase' = [phase EXCEPT ![c] = p]
            /\ p # "new" /\ phase[c] # "new"
            /\ p = "bridge" \/ (c \notin Udp /\ p \in {"set", "add"}) => Counting(c)
    BY ZenonT(60), Order DEF CheckLimit, Dial, Refuse, GetConnSet, AddConn, EndBridge, Transfer, Proceed,
        Phases, ConnType, Counting
<1>3. \A d \in Conns : /\ Counting(d)' => Counting(d)
                       /\ phase'[d] = "new" <=> phase[d] = "new"
    BY ZenonT(60), <1>2 DEF Counting, ConnType
<1> QED
    BY ZenonT(60), <1>1, <1>3 DEF CountType, CountInv

(* trafficMap.LoadOrStore, the end of a connection, and a new one. *)
LEMMA CountConn ==
    ASSUME ConnType, CountType, CountInv, NEW c \in Conns,
           GetCounter(c) \/ RemoveConn(c) \/ \E k \in Muxes : Accept(k, c)
    PROVE  CountType' /\ CountInv'
<1>1. CASE GetCounter(c)
    <2> DEFINE u == UserOf[c]
               t == IF counterOf[u] = None THEN c ELSE counterOf[u]
    <2>1. /\ phase[c] = "counter"
          /\ phase' = [phase EXCEPT ![c] = IF c \in Udp THEN "bridge" ELSE "set"]
          /\ counterOf' = [counterOf EXCEPT ![u] = t] /\ counter' = [counter EXCEPT ![c] = t]
          /\ UNCHANGED <<uids, sent, orphan>>
        BY ZenonT(60), <1>1, Order DEF GetCounter, Proceed, trafficVars, ghostVars
    <2>2. t \in Conns /\ UserOf[t] = u /\ u \in Users
        BY DEF CountType, CountInv
    <2>3. CountType'
        BY ZenonT(60), <2>1, <2>2 DEF CountType
    <2>4. \A v \in Users : /\ counterOf'[v] = counterOf[v] \/ counterOf[v] = None
                           /\ counterOf'[v] # None => UserOf[counterOf'[v]] = v
        BY ZenonT(60), <2>1, <2>2 DEF CountType, CountInv
    <2>5. counter'[c] = t /\ counterOf'[u] = t /\ phase'[c] # "new"
        BY ZenonT(60), <2>1, <2>2 DEF CountType, ConnType
    <2> HIDE DEF t
    <2>6. ASSUME NEW d \in Conns, d # c
          PROVE  counter'[d] = counter[d] /\ phase'[d] = phase[d]
        BY ZenonT(60), <2>1, <2>6 DEF CountType, ConnType
    <2> DEFINE Fits(d) ==
                   /\ Counting(d) => /\ counter[d] \in Conns /\ UserOf[counter[d]] = UserOf[d]
                                     /\ d \notin orphan => counterOf[UserOf[d]] = counter[d]
                   /\ phase[d] # "new" /\ UserOf[d] \notin uids => d \in orphan
                   /\ d \in sent => phase[d] # "new"
    <2>7. Fits(c)'
        BY ZenonT(60), <2>1, <2>2, <2>5 DEF CountInv
    <2>8. ASSUME NEW d \in Conns, d # c PROVE Fits(d)'
        BY <2>1, <2>4, <2>6, <2>8 DEF CountInv, Counting
    <2> QED
        BY ZenonT(60), <2>3, <2>4, <2>7, <2>8 DEF CountInv
<1>2. CASE RemoveConn(c)
    <2>1. /\ phase[c] = "remove" /\ phase' = [phase EXCEPT ![c] = "done"]
          /\ counter' = [counter EXCEPT ![c] = None]
          /\ UNCHANGED <<uids, sent, counterOf, orphan>>
        BY ZenonT(60), <1>2 DEF RemoveConn, mapVars, trafficVars
    <2> QED
        BY ZenonT(60), <2>1 DEF CountType, CountInv, Counting, ConnType
<1>3. ASSUME NEW k \in Muxes, Accept(k, c) PROVE CountType' /\ CountInv'
    <2>1. /\ phase[c] = "new" /\ phase' = [phase EXCEPT ![c] = "check"]
          /\ orphan' = IF UserOf[c] \in uids THEN orphan ELSE orphan \cup {c}
          /\ UNCHANGED <<uids, sent, counterOf, counter>>
        BY ZenonT(60), <1>3 DEF Accept, mapVars, trafficVars
    <2> QED
        BY ZenonT(60), <2>1 DEF CountType, CountInv, Counting, ConnType
<1> QED
    BY ZenonT(60), <1>1, <1>2, <1>3

(* AddUsers knows more users; DelUsers drops the uid and the counter of one. *)
LEMMA CountCall ==
    ASSUME ConnType, CountType, DropInv, CountInv,
           DeleteUser \/ DropCounter \/ \E users \in SUBSET Users : AddUsers(users)
    PROVE  CountType' /\ CountInv'
<1>1. UNCHANGED <<phase, counter, sent>>
    BY ZenonT(60) DEF DeleteUser, DropCounter, AddUsers, trafficVars
<1>2. ASSUME NEW users \in SUBSET Users, AddUsers(users) PROVE CountType' /\ CountInv'
    <2>1. uids' = uids \cup users /\ UNCHANGED <<counterOf, orphan>>
        BY ZenonT(60), <1>2 DEF AddUsers, ghostVars
    <2> QED
        BY ZenonT(60), <1>1, <2>1 DEF CountType, CountInv, Counting
<1>3. CASE DropCounter
    <2>1. /\ cur \in Users /\ cur \notin uids
          /\ counterOf' = [counterOf EXCEPT ![cur] = None] /\ UNCHANGED <<uids, orphan>>
        BY ZenonT(60), <1>3 DEF DropCounter, DropInv, ghostVars
    <2>2. \A c \in Conns : Counting(c) => phase[c] # "new"
        BY ZenonT(60) DEF Counting
    <2> QED
        BY ZenonT(60), <1>1, <2>1, <2>2 DEF CountType, CountInv, Counting, ConnType
<1>4. CASE DeleteUser
    <2>1. /\ counterOf' = counterOf /\ uids' \subseteq uids /\ orphan \subseteq orphan'
          /\ \A c \in Conns : phase[c] # "new" /\ UserOf[c] \in uids \ uids' => c \in orphan'
        BY ZenonT(60), <1>4 DEF DeleteUser
    <2> QED
        BY ZenonT(60), <1>1, <2>1 DEF CountType, CountInv, Counting
<1> QED
    BY ZenonT(60), <1>2, <1>3, <1>4

(* All other steps leave the counters to the connections. *)
LEMMA CountStep ==
    ASSUME ConnType, CountType, DropInv, CountInv, [Next]_vars
    PROVE  CountType' /\ CountInv'
<1>1. CASE \/ Start \/ AddNode \/ DelNode \/ CloseMux \/ TakeConns \/ CloseAll
           \/ ApplyConfig \/ GetUserTrafficSlice \/ UNCHANGED vars
           \/ \E users \in SUBSET Users : DelUsers(users)
           \/ \E k \in Muxes : CheckRunning(k) \/ FetchMux(k) \/ AcceptError(k)
    <2>1. UNCHANGED <<uids, counterOf, phase, counter, sent, orphan>>
        BY ZenonT(60), <1>1 DEF Start, AddNode, DelNode, CloseMux, TakeConns, CloseAll,
            ApplyConfig, GetUserTrafficSlice, LoadCounter, ResetCounter, AppendTraffic,
            vars, DelUsers, CheckRunning, FetchMux, AcceptError, mapVars, ghostVars,
            trafficVars
    <2> QED
        BY ZenonT(60), <2>1 DEF CountType, CountInv, Counting
<1>2. ASSUME NEW c \in Conns, HandleConnection(c) PROVE CountType' /\ CountInv'
    BY ZenonT(60), <1>2, CountPlain, CountConn DEF HandleConnection
<1> QED
    BY ZenonT(60), <1>1, <1>2, CountConn, CountCall DEF Next, AcceptLoop

-----------------------------------------------------------------------------
(* A packet is in one counter, that of a connection of the same user, and   *)
(* no longer in any when it is reported.                                    *)
BytesInv ==
    /\ bytes \in [Conns -> SUBSET Conns] /\ reported \subseteq sent
    /\ \A t \in Conns : /\ bytes[t] \subseteq sent /\ bytes[t] \cap reported = {}
                        /\ \A c \in bytes[t] : UserOf[c] = UserOf[t]
    /\ \A s, t \in Conns : s # t => bytes[s] \cap bytes[t] = {}

(* What a report has loaded is of one user, and is about to be reset, or no *)
(* longer in a counter.                                                     *)
ReportInv ==
    /\ rpc \in {"load", "store", "uid"}
    /\ rpc = "load" => rsnap = {}
    /\ rpc = "store" => rctr \in Conns /\ rsnap \subseteq bytes[rctr]
    /\ rpc = "uid" => \A t \in Conns : rsnap \cap bytes[t] = {}
    /\ rsnap \subseteq sent /\ rsnap \cap reported = {}
    /\ \A c \in rsnap : UserOf[c] = rcur

TrafficInv == BytesInv /\ ReportInv /\ TrafficKept

(* A transfer goes to the counter of the user. *)
LEMMA TransferStep ==
    ASSUME ConnType, CountType, CountInv, TrafficInv, NEW c \in Conns, Transfer(c)
    PROVE  TrafficInv'
<1>1. /\ phase[c] = "bridge" /\ c \notin sent /\ sent' = sent \cup {c}
      /\ bytes' = [bytes EXCEPT ![counter[c]] = @ \cup {c}]
      /\ UNCHANGED <<rpc, rcur, rctr, rsnap, reported, raced, counterOf, orphan>>
    BY ZenonT(60) DEF Transfer, reportVars, mapVars, ghostVars
<1>2. /\ counter[c] \in Conns /\ UserOf[counter[c]] = UserOf[c]
      /\ c \notin orphan => counterOf[UserOf[c]] = counter[c]
    BY ZenonT(60), <1>1 DEF CountInv, Counting
<1>3. /\ bytes' \in [Conns -> SUBSET Conns]
      /\ \A t \in Conns : bytes'[t] = IF t = counter[c] THEN bytes[t] \cup {c} ELSE bytes[t]
    BY ZenonT(60), <1>1, <1>2 DEF TrafficInv, BytesInv
<1>4. BytesInv'
    BY <1>1, <1>2, <1>3 DEF TrafficInv, BytesInv
<1>5. ReportInv'
    BY <1>1, <1>3 DEF TrafficInv, BytesInv, ReportInv
<1>6. TrafficKept'
    BY <1>1, <1>2, <1>3 DEF TrafficInv, TrafficKept, BytesInv, CountType
<1> QED
    BY ZenonT(60), <1>4, <1>5, <1>6 DEF TrafficInv

(* The report takes a counter's packets, resets it, and finds the uid. *)
LEMMA ReportStep ==
    ASSUME ConnType, CountType, CountInv, TrafficInv, GetUserTrafficSlice
    PROVE  TrafficInv'
<1>1. UNCHANGED <<counterOf, orphan, sent, uids>>
    BY ZenonT(60) DEF GetUserTrafficSlice, LoadCounter, ResetCounter, AppendTraffic, mapVars,
        ghostVars
<1>2. ASSUME NEW u \in Users, LoadCounter(u) PROVE TrafficInv'
    <2>1. /\ rpc = "load" /\ rpc' = "store" /\ counterOf[u] # None
          /\ rcur' = u /\ rctr' = counterOf[u] /\ rsnap' = bytes[counterOf[u]]
          /\ UNCHANGED <<bytes, reported, raced>>
        BY ZenonT(60), <1>2 DEF LoadCounter
    <2>2. counterOf[u] \in Conns /\ UserOf[counterOf[u]] = u
        BY ZenonT(60), <2>1 DEF CountType, CountInv
    <2>3. BytesInv' /\ ReportInv'
        BY ZenonT(60), <1>1, <2>1, <2>2 DEF TrafficInv, BytesInv, ReportInv
    <2>4. TrafficKept'
        BY ZenonT(60), <1>1, <2>1, <2>2 DEF TrafficInv, BytesInv, ReportInv, TrafficKept
    <2> QED
        BY ZenonT(60), <2>3, <2>4 DEF TrafficInv
<1>3. CASE ResetCounter
    <2>1. /\ rpc = "store" /\ rpc' = "uid" /\ bytes' = [bytes EXCEPT ![rctr] = {}]
          /\ raced' = raced \cup (bytes[rctr] \ rsnap)
          /\ UNCHANGED <<rcur, rctr, rsnap, reported>>
        BY ZenonT(60), <1>3 DEF ResetCounter
    <2>2. /\ rctr \in Conns /\ bytes' \in [Conns -> SUBSET Conns]
          /\ \A t \in Conns : bytes'[t] = IF t = rctr THEN {} ELSE bytes[t]
        BY ZenonT(60), <2>1 DEF TrafficInv, BytesInv, ReportInv
    <2>3. BytesInv' /\ ReportInv'
        BY <1>1, <2>1, <2>2 DEF TrafficInv, BytesInv, ReportInv
    <2>4. TrafficKept'
        BY <1>1, <2>1, <2>2 DEF TrafficInv, CountType, TrafficKept
    <2> QED
        BY ZenonT(60), <2>3, <2>4 DEF TrafficInv
<1>4. CASE AppendTraffic
    <2>1. /\ rpc = "uid" /\ rpc' = "load" /\ rsnap' = {}
          /\ reported' = IF rcur \in uids THEN reported \cup rsnap ELSE reported
          /\ UNCHANGED <<bytes, raced>>
        BY ZenonT(60), <1>4 DEF AppendTraffic
    <2>2. rcur \notin uids => rsnap \subseteq orphan
        BY ZenonT(60) DEF CountType, CountInv, TrafficInv, ReportInv
    <2>3. BytesInv' /\ ReportInv'
        BY ZenonT(60), <1>1, <2>1 DEF TrafficInv, BytesInv, ReportInv
    <2>4. TrafficKept'
        BY ZenonT(60), <1>1, <2>1, <2>2 DEF TrafficInv, TrafficKept
    <2> QED
        BY ZenonT(60), <2>3, <2>4 DEF TrafficInv
<1> QED
    BY ZenonT(60), <1>2, <1>3, <1>4 DEF GetUserTrafficSlice

(* No other step touches a packet: a counter is replaced only when the user *)
(* was deleted, and then the user's connections are exempt.                 *)
LEMMA TrafficQuiet ==
    ASSUME ConnType, CountType, CountInv, TrafficInv,
           UNCHANGED <<bytes, sent, rpc, rcur, rctr, rsnap, reported, raced>>,
           orphan \subseteq orphan',
           \A c \in sent : \/ c \in orphan'
                           \/ counterOf'[UserOf[c]] = counterOf[UserOf[c]]
                           \/ counterOf[UserOf[c]] = None
    PROVE  TrafficInv'
<1>1. BytesInv' /\ ReportInv'
    BY ZenonT(60) DEF TrafficInv, BytesInv, ReportInv
<1>2. TrafficKept'
    BY ZenonT(60) DEF TrafficInv, TrafficKept
<1> QED
    BY ZenonT(60), <1>1, <1>2 DEF TrafficInv

(* Every step keeps the traffic. *)
LEMMA TrafficStep ==
    ASSUME ConnType, CountType, DropInv, CountInv, TrafficInv, [Next]_vars
    PROVE  TrafficInv'
<1> DEFINE Packets == <<bytes, sent, rpc, rcur, rctr, rsnap, reported, raced>>
<1>1. CASE \/ Start \/ AddNode \/ DelNode \/ CloseMux \/ TakeConns \/ CloseAll
           \/ ApplyConfig \/ UNCHANGED vars
           \/ \E users \in SUBSET Users : AddUsers(users) \/ DelUsers(users)
           \/ \E k \in Muxes : CheckRunning(k) \/ FetchMux(k) \/ AcceptError(k)
    <2>1. UNCHANGED <<Packets, counterOf, orphan>>
        BY ZenonT(60), <1>1 DEF Start, AddNode, DelNode, CloseMux, TakeConns, CloseAll,
            ApplyConfig, vars, AddUsers, DelUsers, CheckRunning, FetchMux, AcceptError,
            mapVars, ghostVars, trafficVars, reportVars
    <2> QED
        BY ZenonT(60), <2>1, TrafficQuiet
<1>2. CASE DeleteUser
    <2>1. UNCHANGED <<Packets, counterOf>> /\ orphan \subseteq orphan'
        BY ZenonT(60), <1>2 DEF DeleteUser, trafficVars, reportVars
    <2> QED
        BY ZenonT(60), <2>1, TrafficQuiet
<1>3. CASE DropCounter
    <2>1. /\ UNCHANGED <<Packets, orphan>> /\ cur \in Users /\ cur \notin uids
          /\ counterOf' = [counterOf EXCEPT ![cur] = None]
        BY ZenonT(60), <1>3 DEF DropCounter, DropInv, trafficVars, reportVars, ghostVars
    <2>2. \A c \in sent : c \in orphan \/ counterOf'[UserOf[c]] = counterOf[UserOf[c]]
        BY ZenonT(60), <2>1 DEF CountType, CountInv
    <2> QED
        BY ZenonT(60), <2>1, <2>2, TrafficQuiet
<1>4. ASSUME NEW k \in Muxes, NEW c \in Conns, Accept(k, c) PROVE TrafficInv'
    <2>1. UNCHANGED <<Packets, counterOf>> /\ orphan \subseteq orphan'
        BY ZenonT(60), <1>4 DEF Accept, mapVars, trafficVars, reportVars
    <2> QED
        BY ZenonT(60), <2>1, TrafficQuiet
<1>5. ASSUME NEW c \in Conns, GetCounter(c) PROVE TrafficInv'
    <2>1. /\ UNCHANGED <<Packets, orphan>>
          /\ counterOf' = [counterOf EXCEPT ![UserOf[c]] =
                               IF counterOf[UserOf[c]] = None THEN c ELSE counterOf[UserOf[c]]]
        BY ZenonT(60), <1>5 DEF GetCounter, Proceed, ghostVars, trafficVars, reportVars
    <2>2. \A u \in Users : counterOf'[u] = counterOf[u] \/ counterOf[u] = None
        BY ZenonT(60), <2>1 DEF CountType
    <2>3. \A d \in sent : UserOf[d] \in Users
        BY ZenonT(60) DEF CountType
    <2> QED
        BY ZenonT(60), <2>1, <2>2, <2>3, TrafficQuiet
<1>6. ASSUME NEW c \in Conns, HandleConnection(c), ~GetCounter(c), ~Transfer(c)
      PROVE  TrafficInv'
    <2>1. UNCHANGED <<Packets, counterOf, orphan>>
        BY ZenonT(60), <1>6 DEF HandleConnection, CheckLimit, Dial, Refuse, GetConnSet,
            AddConn, EndBridge, RemoveConn, Proceed, mapVars, ghostVars, trafficVars,
            reportVars
    <2> QED
        BY ZenonT(60), <2>1, TrafficQuiet
<1> QED
    BY ZenonT(60), <1>1, <1>2, <1>3, <1>4, <1>5, <1>6, TransferStep, ReportStep DEF Next, AcceptLoop

-----------------------------------------------------------------------------
(* The muxes, whatever connections do. *)
LEMMA MuxInvariant == Spec => [](MuxType /\ MuxInv)
<1>1. Init => MuxType /\ MuxInv
    BY DEF Init, MuxType, MuxInv, OpenForItsUsers, Muxes, Loops
<1>2. MuxType /\ MuxInv /\ [Next]_vars => (MuxType /\ MuxInv)'
    BY ZenonT(60), MuxTypeStep, MuxStep
<1> QED
    BY <1>1, <1>2, PTL DEF Spec

(* The connections, whatever the muxes do. *)
ConnsInv ==
    /\ ConnType /\ \A c \in Conns : CutInv(c)
    /\ CountType /\ DropInv /\ CountInv /\ TrafficInv

LEMMA ConnsInvariant == Spec => []ConnsInv
<1>1. Init => ConnsInv
    <2> SUFFICES ASSUME Init PROVE ConnsInv
        OBVIOUS
    <2> USE DEF Init
    <2>1. ConnType /\ \A c \in Conns : CutInv(c)
        BY ZenonT(60) DEF ConnType, CutInv, Bridging, Phases
    <2>2. CountType /\ DropInv /\ CountInv
        BY ZenonT(60) DEF CountType, DropInv, CountInv, Counting
    <2>3. TrafficInv
        BY ZenonT(60) DEF TrafficInv, BytesInv, ReportInv, TrafficKept
    <2> QED
        BY ZenonT(60), <2>1, <2>2, <2>3 DEF ConnsInv
<1>2. ConnsInv /\ [Next]_vars => ConnsInv'
    BY ZenonT(60), CutStep, DropStep, CountStep, TrafficStep DEF ConnsInv
<1> QED
    BY <1>1, <1>2, PTL DEF Spec

(* However users come and go and the node is reloaded, a mux that           *)
(* applyConfig started is open and some acceptLoop serves it.               *)
THEOREM StartedMuxIsServed == Spec => []StartedIsServed
<1>1. MuxType /\ MuxInv => StartedIsServed
    BY ZenonT(60) DEF MuxInv, StartedIsServed
<1> QED
    BY <1>1, MuxInvariant, PTL

(* Between two calls of the controller the mux is open for exactly the      *)
(* users of the node, unless mux.Start failed.                              *)
THEOREM MuxOpenForItsUsers == Spec => []OpenForItsUsers
<1>1. MuxInv => OpenForItsUsers
    BY ZenonT(60) DEF MuxInv
<1> QED
    BY <1>1, MuxInvariant, PTL

(* DelUsers finds every connection of its users that is being served,       *)
(* unless it registers while DelUsers closes the set.                       *)
THEOREM ConnectionsCanBeCut == Spec => []BridgesCanBeCut
<1>1. ConnsInv => BridgesCanBeCut
    BY ZenonT(60) DEF ConnsInv, CutInv, BridgesCanBeCut
<1> QED
    BY <1>1, ConnsInvariant, PTL

(* GetUserTrafficSlice loses only what is counted between its Load and its  *)
(* Store, and reports nothing twice, while the user stays.                  *)
THEOREM MieruTrafficKept == Spec => []TrafficKept
<1>1. ConnsInv => TrafficKept
    BY ZenonT(60) DEF ConnsInv, TrafficInv
<1> QED
    BY <1>1, ConnsInvariant, PTL

-----------------------------------------------------------------------------
(* A step that moves no packet leaves the ledger alone. *)
LEMMA SameBooks ==
    ASSUME UNCHANGED <<bytes, sent, rsnap, reported>>,
           rpc' = "uid" <=> rpc = "uid"
    PROVE  UNCHANGED Books!ledger
<1>1. Counted' = Counted
    BY ZenonT(60) DEF Counted
<1>2. Taken' = Taken
    BY ZenonT(60) DEF Taken
<1> QED
    BY ZenonT(60), <1>1, <1>2 DEF Books!ledger

(* A transfer enters a new packet. *)
LEMMA TransferEnters ==
    ASSUME ConnsInv, NEW c \in Conns, Transfer(c) PROVE Books!Count(c)
<1>1. /\ phase[c] = "bridge" /\ c \notin sent /\ sent' = sent \cup {c}
      /\ bytes' = [bytes EXCEPT ![counter[c]] = bytes[counter[c]] \cup {c}]
      /\ UNCHANGED <<rpc, rsnap, reported>>
    BY ZenonT(60) DEF Transfer, reportVars
<1>2. counter[c] \in Conns /\ bytes \in [Conns -> SUBSET Conns]
    BY ZenonT(60), <1>1 DEF ConnsInv, CountInv, Counting, TrafficInv, BytesInv
<1>3. \A t \in Conns : bytes'[t] = IF t = counter[c] THEN bytes[t] \cup {c} ELSE bytes[t]
    BY ZenonT(60), <1>1, <1>2
<1>4. Counted' = Counted \cup {c}
    BY ZenonT(60), <1>2, <1>3 DEF Counted
<1>5. Taken' = Taken
    BY ZenonT(60), <1>1 DEF Taken
<1> QED
    BY ZenonT(60), <1>1, <1>4, <1>5 DEF Books!Count

(* The reset takes what was loaded out of the counter of one user. *)
LEMMA ResetTakes ==
    ASSUME ConnsInv, ResetCounter
    PROVE  \E a \in Users, gone \in SUBSET Counted :
              \E kept \in SUBSET gone : Books!Reset(a, gone, kept)
<1>1. /\ rpc = "store" /\ rpc' = "uid" /\ bytes' = [bytes EXCEPT ![rctr] = {}]
      /\ UNCHANGED <<sent, rsnap, reported>>
    BY ZenonT(60) DEF ResetCounter
<1>2. /\ rctr \in Conns /\ rsnap \subseteq bytes[rctr] /\ bytes \in [Conns -> SUBSET Conns]
      /\ \A c \in bytes[rctr] : UserOf[c] = UserOf[rctr]
      /\ \A t \in Conns : t # rctr => bytes[rctr] \cap bytes[t] = {}
    BY ZenonT(60), <1>1 DEF ConnsInv, TrafficInv, BytesInv, ReportInv
<1>3. \A t \in Conns : bytes'[t] = IF t = rctr THEN {} ELSE bytes[t]
    BY ZenonT(60), <1>1, <1>2
<1>4. bytes[rctr] \subseteq Counted
    BY ZenonT(60), <1>2 DEF Counted
<1>5. Counted' = Counted \ bytes[rctr]
    BY ZenonT(60), <1>2, <1>3 DEF Counted
<1>6. Taken = {} /\ Taken' = rsnap
    BY ZenonT(60), <1>1 DEF Taken
<1>7. Books!Reset(UserOf[rctr], bytes[rctr], rsnap)
    BY ZenonT(60), <1>1, <1>2, <1>5, <1>6 DEF Books!Reset
<1>8. UserOf[rctr] \in Users
    BY ZenonT(60), <1>2, ConnAssumption
<1> QED
    BY ZenonT(60), <1>2, <1>4, <1>7, <1>8

(* What was taken is reported, or dropped when the uid is gone. *)
LEMMA AppendBills ==
    ASSUME AppendTraffic
    PROVE  Books!Drop(Taken) \/ Books!Bill(Taken)
<1>1. /\ rpc = "uid" /\ rpc' = "load"
      /\ reported' = IF rcur \in uids THEN reported \cup rsnap ELSE reported
      /\ UNCHANGED <<bytes, sent>>
    BY ZenonT(60) DEF AppendTraffic
<1>2. Counted' = Counted /\ Taken = rsnap /\ Taken' = {}
    BY ZenonT(60), <1>1 DEF Counted, Taken
<1>3. Taken' = Taken \ Taken
    BY ZenonT(60), <1>2
<1> QED
    BY ZenonT(60), <1>1, <1>2, <1>3 DEF Books!Drop, Books!Bill

(* Every step of the core is a step of the ledger or leaves it alone. *)
LEMMA StepKeepsLedger == ConnsInv /\ [Next]_vars => [Books!Next]_(Books!ledger)
<1> SUFFICES ASSUME ConnsInv, [Next]_vars PROVE Books!Next \/ UNCHANGED Books!ledger
    BY ZenonT(60)
<1>1. CASE UNCHANGED trafficVars
    BY ZenonT(60), <1>1, SameBooks DEF trafficVars, reportVars
<1>2. ASSUME NEW u \in Users, LoadCounter(u) PROVE UNCHANGED Books!ledger
    <2>1. /\ rpc = "load" /\ rpc' = "store" /\ UNCHANGED <<bytes, sent, reported>>
        BY ZenonT(60), <1>2 DEF LoadCounter
    <2>2. Counted' = Counted /\ Taken' = {} /\ Taken = {}
        BY ZenonT(60), <2>1 DEF Counted, Taken
    <2> QED
        BY ZenonT(60), <2>1, <2>2 DEF Books!ledger
<1>3. ASSUME NEW c \in Conns, Transfer(c) PROVE Books!Next
    BY ZenonT(60), <1>3, TransferEnters DEF Books!Next
<1>4. CASE ResetCounter
    BY ZenonT(60), <1>4, ResetTakes DEF Books!Next
<1>5. CASE AppendTraffic
    BY ZenonT(60), <1>5, AppendBills DEF Books!Next
<1>6. CASE \/ Start \/ AddNode \/ DelNode \/ CloseMux \/ DeleteUser \/ DropCounter
           \/ TakeConns \/ CloseAll \/ ApplyConfig \/ UNCHANGED vars
           \/ \E users \in SUBSET Users : AddUsers(users) \/ DelUsers(users)
           \/ \E k \in Muxes : AcceptLoop(k)
    <2>1. UNCHANGED trafficVars
        BY ZenonT(60), <1>6 DEF Start, AddNode, DelNode, CloseMux, DeleteUser, DropCounter,
            TakeConns, CloseAll, ApplyConfig, vars, AddUsers, DelUsers, AcceptLoop, CheckRunning, FetchMux,
            AcceptError, Accept
    <2> QED
        BY ZenonT(60), <1>1, <2>1
<1>7. ASSUME NEW c \in Conns, HandleConnection(c), ~Transfer(c)
      PROVE  UNCHANGED trafficVars
    BY ZenonT(60), <1>7 DEF HandleConnection, CheckLimit, Dial, Refuse, GetCounter, GetConnSet,
        AddConn, EndBridge, RemoveConn, Proceed
<1> QED
    BY ZenonT(60), <1>1, <1>2, <1>3, <1>4, <1>5, <1>6, <1>7 DEF Next, GetUserTrafficSlice

(* Whatever users are deleted and return while their connections run, the   *)
(* counters and reports of the mieru core implement the ledger.             *)
THEOREM MieruKeepsLedger == Spec => KeepsLedger
<1>1. Init => Books!Init
    <2> SUFFICES ASSUME Init PROVE Books!Init
        OBVIOUS
    <2>1. Counted = {} /\ Taken = {}
        BY ZenonT(60) DEF Init, Counted, Taken
    <2> QED
        BY ZenonT(60), <2>1 DEF Init, Books!Init
<1> QED
    BY <1>1, ConnsInvariant, StepKeepsLedger, PTL DEF Spec, KeepsLedger, Books!Spec
=============================================================================
