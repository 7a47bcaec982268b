------------------------------ MODULE Admission ------------------------------
(***************************************************************************)
(* A connection meets its node's controller.  Controllers start, reload    *)
(* and close their nodes (node/controller.go, node/task.go) through the    *)
(* selector and the registry of limiters (limiter/limiter.go); meanwhile   *)
(* connections that an inbound accepted look up the limiter of their tag   *)
(* and run through its rules (limiter/rule.go, RoutedConnection of         *)
(* core/sing/hook.go, getLink and routedDispatch of the xray dispatcher).  *)
(*                                                                         *)
(* CheckLimit is here the test whether the limiter knows the user; Limiter *)
(* has the rest of it.  A rule is the destination or protocol it matches.  *)
(* The node's type and id, and so its tag, stay the same over a reload.    *)
(* sing's connections are those of TCP: RoutedPacketConnection compares    *)
(* the protocol rules with Destination.Network(), not with what was        *)
(* sniffed, and is not modelled.                                           *)
(***************************************************************************)
EXTENDS Selector, Sequences

CONSTANTS
    Conns, TagOf,   \* connections, and the inbound each comes through
    DestOf,         \* its destination, and the protocol sniffed, or None
    ProtoOf,
    RuleSets,       \* panel.Rules: kind -> sequence of rules
    BadRule,        \* a pattern that does not compile
    UserSets        \* user lists the panel may serve

Kinds == {"domain", "protocol"}

ASSUME ConnAssumption ==
    /\ TagOf \in [Conns -> Tags]
    /\ UserSets \subseteq SUBSET Users
    /\ \A r \in RuleSets, k \in Kinds : Len(r[k]) \in Nat

NilSlice == [arr |-> 0, len |-> 0]

VARIABLES
    life,       \* tag -> "off", "starting", "running", "closing" or "closed"
    step,       \* tag -> the next call of its controller
    info,       \* tag -> the Rules of the node the controller runs
    userList,   \* tag -> the controller's user list, and the newU of a monitor
    newList,    \* that is changing the users
    named,      \* the tags whose Options.Name is set
    reg,        \* limiter: tag -> generation of the registered limiter, 0 for none
    held,       \* c.limiter: tag -> generation, 0 for none
    knows,      \* tag -> the UserLimitInfo of its limiters, by generation
    slices,     \* tag -> the slice headers of its limiters, by generation
    arrays,     \* tag -> the rule sets that UpdateRule was given
    filled,     \* tag -> how much of the last DomainRules is compiled
    cpc,        \* connection: its next step,
    via, who,   \* the type of core it came through, its user (None: fallback),
    lim,        \* the generation it looked up,
    pos, upto,  \* the index and the end of its range loop
    due, moved, \* ghosts: the Rules when it came; its node was taken down since
    crashed     \* why the process is gone

infoVars == <<info, userList, newList, named>>
ctlVars == <<life, step, infoVars>>
limVars == <<reg, held, knows, slices, arrays, filled>>
loopVars == <<lim, pos, upto>>
connVars == <<cpc, via, who, loopVars, due, moved>>
allVars == <<vars, ctlVars, limVars, connVars, crashed>>

Alive == crashed = "no"
Crash(why) == crashed' = why
Ended == {"unchecked", "passed", "rejected"}
InFlight(c) == cpc[c] \notin {"new"} \cup Ended

GoOn(t, s) == step' = [step EXCEPT ![t] = s]
\* The node of t is about to go; its connections that are under way stay.
Leave(t) == moved' = [c \in Conns |-> moved[c] \/ (TagOf[c] = t /\ InFlight(c))]

AdmissionInit ==
    /\ Init
    /\ life = [t \in Tags |-> "off"] /\ step = life
    /\ info = [t \in Tags |-> None] /\ userList = [t \in Tags |-> {}]
    /\ newList = userList /\ named \in SUBSET Tags
    /\ reg = [t \in Tags |-> 0] /\ held = reg
    /\ knows = [t \in Tags |-> <<>>] /\ slices = knows /\ arrays = knows
    /\ filled = [t \in Tags |-> 0]
    /\ cpc = [c \in Conns |-> "new"] /\ via = [c \in Conns |-> None] /\ who = via
    /\ lim = [c \in Conns |-> 0] /\ pos = lim /\ upto = lim
    /\ due = via /\ moved = [c \in Conns |-> FALSE]
    /\ crashed = "no"

-----------------------------------------------------------------------------
\* AddLimiter builds a limiter for the user list and then registers it.
AddLimiter(t, users) ==
    LET g == Len(knows[t]) + 1
    IN  /\ knows' = [knows EXCEPT ![t] = Append(@, users)]
        /\ slices' = [slices EXCEPT ![t] = Append(@, [k \in Kinds |-> NilSlice])]
        /\ reg' = [reg EXCEPT ![t] = g] /\ held' = [held EXCEPT ![t] = g]
        /\ UNCHANGED <<arrays, filled>>

DeleteLimiter(t) ==
    /\ reg' = [reg EXCEPT ![t] = 0]
    /\ UNCHANGED <<held, knows, slices, arrays, filled>>

\* Controller.Start, up to UpdateRule.
StartNode(t) ==
    /\ life[t] = "off" /\ state = "started"
    /\ life' = [life EXCEPT ![t] = "starting"]
    /\ \E rules \in RuleSets, users \in UserSets :
          /\ info' = [info EXCEPT ![t] = rules]
          /\ userList' = [userList EXCEPT ![t] = users]
          /\ AddLimiter(t, users)
    /\ GoOn(t, "publish")
    /\ UNCHANGED <<vars, newList, named, connVars, crashed>>

\* A slice header is written in two halves, in the order the compiler likes:
\* a reader may see the array of one slice with the length of the other.
HalfWritten(t, k, arr, len) ==
    LET old == slices[t][held[t]][k]
    IN  \E h \in {[old EXCEPT !.arr = arr], [old EXCEPT !.len = len]} :
            slices' = [slices EXCEPT ![t][held[t]][k] = h]
Written(t, k, arr, len) ==
    slices' = [slices EXCEPT ![t][held[t]][k] = [arr |-> arr, len |-> len]]

\* UpdateRule publishes a DomainRules of nil pointers,
PublishRules(t) ==
    /\ step[t] = "publish" /\ GoOn(t, "published")
    /\ arrays' = [arrays EXCEPT ![t] = Append(@, info[t])]
    /\ filled' = [filled EXCEPT ![t] = 0]
    /\ HalfWritten(t, "domain", Len(arrays[t]) + 1, Len(info[t]["domain"]))
    /\ UNCHANGED <<vars, life, infoVars, reg, held, knows, connVars, crashed>>

\* Mutant: the slice is made one too long.
RulesPublishedTooLong(t) ==
    /\ step[t] = "published" /\ GoOn(t, "compile")
    /\ Written(t, "domain", Len(arrays[t]), Len(info[t]["domain"]) + 1)
    /\ UNCHANGED <<vars, life, infoVars, reg, held, knows, arrays, filled,
                   connVars, crashed>>

RulesPublished(t) ==
    /\ step[t] = "published" /\ GoOn(t, "compile")
    /\ Written(t, "domain", Len(arrays[t]), Len(info[t]["domain"]))
    /\ UNCHANGED <<vars, life, infoVars, reg, held, knows, arrays, filled,
                   connVars, crashed>>

\* compiles the patterns into it, where a bad one panics,
CompileRule(t) ==
    /\ step[t] = "compile" /\ filled[t] < Len(info[t]["domain"])
    /\ \/ /\ info[t]["domain"][filled[t] + 1] = BadRule
          /\ Crash("bad rule") /\ UNCHANGED filled
       \/ /\ info[t]["domain"][filled[t] + 1] # BadRule
          /\ filled' = [filled EXCEPT ![t] = @ + 1] /\ UNCHANGED crashed
    /\ UNCHANGED <<vars, ctlVars, reg, held, knows, slices, arrays, connVars>>

\* and assigns ProtocolRules.
AssignProtocols(t) ==
    /\ step[t] = "compile" /\ filled[t] = Len(info[t]["domain"])
    /\ GoOn(t, "assigned")
    /\ HalfWritten(t, "protocol", Len(arrays[t]), Len(info[t]["protocol"]))
    /\ UNCHANGED <<vars, life, infoVars, reg, held, knows, arrays, filled,
                   connVars, crashed>>

ProtocolsAssigned(t) ==
    /\ step[t] = "assigned" /\ GoOn(t, "cert")
    /\ Written(t, "protocol", Len(arrays[t]), Len(info[t]["protocol"]))
    /\ UNCHANGED <<vars, life, infoVars, reg, held, knows, arrays, filled,
                   connVars, crashed>>

\* requestCert; Start returns its error and the process ends, a reload returns
\* with the node removed.
RequestCert(t) ==
    /\ step[t] = "cert"
    /\ \/ GoOn(t, "addNode") /\ UNCHANGED crashed
       \/ life[t] = "starting" /\ Crash("start") /\ UNCHANGED step
       \/ life[t] # "starting" /\ GoOn(t, "down") /\ UNCHANGED crashed
    /\ UNCHANGED <<vars, life, infoVars, limVars, connVars>>

\* server.AddNode: an error ends the process, by return or by log.Panic.
AddNodeOf(t) ==
    /\ step[t] = "addNode" /\ GoOn(t, "store")
    /\ \E type \in NodeTypes : AddNode(t, type)
    /\ crashed' = IF pc'[t] = "lost" THEN "core" ELSE crashed
    /\ UNCHANGED <<life, infoVars, limVars, connVars>>

StoreNodeOf(t) ==
    /\ step[t] = "store" /\ StoreNode(t) /\ GoOn(t, "addUsers")
    /\ UNCHANGED <<life, infoVars, limVars, connVars, crashed>>

\* An error of AddUsers, with part of the users added, ends a start; a reload
\* logs it.
AddUsersOf(t) ==
    /\ step[t] = "addUsers" /\ GoOn(t, "up")
    /\ \E got \in SUBSET userList[t] :
          /\ AddUsers(t, got)
          /\ crashed' = IF life[t] = "starting" /\ got # userList[t] THEN "start" ELSE crashed
    /\ life' = [life EXCEPT ![t] = IF @ = "starting" THEN "running" ELSE @]
    /\ UNCHANGED <<infoVars, limVars, connVars>>

\* server.DelNode: an error, for a node that is not there among others, is a
\* panic of nodeInfoMonitor or of Node.Close.
TakeDown(t, next) ==
    \/ /\ nodes[t] = None
       /\ Crash("core") /\ UNCHANGED <<vars, step>>
    \/ /\ DelNode(t) /\ GoOn(t, next)
       /\ crashed' = IF pc'[t] = "lost" THEN "core" ELSE crashed

\* nodeInfoMonitor with a new node.
ReloadNode(t) ==
    /\ step[t] \in {"up", "down"} /\ life[t] \in {"running", "closing"}
    /\ \E rules \in RuleSets, users \in UserSets :
          /\ info' = [info EXCEPT ![t] = rules]
          /\ userList' = [userList EXCEPT ![t] = users]
    /\ TakeDown(t, "forget") /\ Leave(t)
    /\ UNCHANGED <<life, newList, named, limVars, cpc, via, who, loopVars, due>>

\* nodeInfoMonitor with a new user list, unless it is empty: the core first,
\* where an error ends the round, then the limiter.  The core of a node that is
\* down knows no tag.
RemoveUsers(t) ==
    LET Gone(users) == userList[t] \ users
    IN  /\ step[t] = "up" /\ life[t] \in {"running", "closing"}
        /\ \E users \in UserSets \ {{}, userList[t]} :
              /\ newList' = [newList EXCEPT ![t] = users]
              /\ \/ Gone(users) = {} /\ GoOn(t, "moreUsers") /\ UNCHANGED vars
                 \/ \E gone \in SUBSET Gone(users) :
                       /\ Gone(users) # {} /\ DelUsers(t, gone)
                       /\ GoOn(t, IF gone = Gone(users) THEN "moreUsers" ELSE "up")
        /\ UNCHANGED <<life, info, userList, named, limVars, connVars, crashed>>

MoreUsers(t) ==
    LET added == newList[t] \ userList[t]
    IN  /\ step[t] = "moreUsers"
        /\ \/ added = {} /\ GoOn(t, "updateUser") /\ UNCHANGED vars
           \/ \E got \in SUBSET added :
                 /\ added # {} /\ AddUsers(t, got)
                 /\ GoOn(t, IF got = added THEN "updateUser" ELSE "up")
        /\ UNCHANGED <<life, infoVars, limVars, connVars, crashed>>

UpdateUser(t) ==
    /\ step[t] = "updateUser" /\ GoOn(t, "up")
    /\ knows' = [knows EXCEPT ![t][held[t]] =
                    (@ \ (userList[t] \ newList[t])) \cup (newList[t] \ userList[t])]
    /\ userList' = [userList EXCEPT ![t] = newList[t]]
    /\ UNCHANGED <<vars, life, info, newList, named, reg, held, slices, arrays, filled,
                   connVars, crashed>>

\* A named node keeps its limiter.
NodeForgotten(t) ==
    /\ step[t] = "forget" /\ ForgetNode(t)
    /\ GoOn(t, IF t \in named THEN "publish" ELSE "dropLimiter")
    /\ UNCHANGED <<life, infoVars, limVars, connVars, crashed>>

DropLimiter(t) ==
    /\ step[t] = "dropLimiter" /\ DeleteLimiter(t) /\ GoOn(t, "addLimiter")
    /\ UNCHANGED <<vars, life, infoVars, connVars, crashed>>

\* Mutant: the new limiter gets no rules.
RenewLimiterNoRules(t) ==
    /\ step[t] = "addLimiter" /\ AddLimiter(t, userList[t]) /\ GoOn(t, "cert")
    /\ UNCHANGED <<vars, life, infoVars, connVars, crashed>>

\* Mutant: the new limiter is registered and deleted again.
RenewLimiterDeleted(t) ==
    /\ step[t] = "addLimiter" /\ GoOn(t, "publish")
    /\ held' = [held EXCEPT ![t] = Len(knows[t]) + 1]
    /\ knows' = [knows EXCEPT ![t] = Append(@, userList[t])]
    /\ slices' = [slices EXCEPT ![t] = Append(@, [k \in Kinds |-> NilSlice])]
    /\ reg' = [reg EXCEPT ![t] = 0]
    /\ UNCHANGED <<vars, life, infoVars, arrays, filled, connVars, crashed>>

RenewLimiter(t) ==
    /\ step[t] = "addLimiter" /\ AddLimiter(t, userList[t]) /\ GoOn(t, "publish")
    /\ UNCHANGED <<vars, life, infoVars, connVars, crashed>>

\* Controller.Close deletes the limiter at once; to take the node away it waits
\* for a nodeInfoMonitor that is under way, or begins before its task is closed.
\* (NodeTasks has the one that begins even later.)
CloseNode(t) ==
    /\ life[t] = "running" /\ life' = [life EXCEPT ![t] = "closing"]
    /\ DeleteLimiter(t) /\ Leave(t)
    /\ UNCHANGED <<vars, step, infoVars, cpc, via, who, loopVars, due, crashed>>

\* The monitor is through.
RemoveNode(t) ==
    /\ life[t] = "closing" /\ step[t] \in {"up", "down"}
    /\ TakeDown(t, "remove")
    /\ UNCHANGED <<life, infoVars, limVars, connVars>>

NodeRemoved(t) ==
    /\ step[t] = "remove" /\ ForgetNode(t) /\ GoOn(t, "off")
    /\ life' = [life EXCEPT ![t] = "closed"]
    /\ UNCHANGED <<infoVars, limVars, connVars, crashed>>

Controller(t) ==
    \/ StartNode(t) \/ PublishRules(t) \/ RulesPublished(t) \/ CompileRule(t)
    \/ AssignProtocols(t) \/ ProtocolsAssigned(t) \/ RequestCert(t)
    \/ AddNodeOf(t) \/ StoreNodeOf(t) \/ AddUsersOf(t)
    \/ ReloadNode(t) \/ NodeForgotten(t) \/ DropLimiter(t) \/ RenewLimiter(t)
    \/ RemoveUsers(t) \/ MoreUsers(t) \/ UpdateUser(t)
    \/ CloseNode(t) \/ RemoveNode(t) \/ NodeRemoved(t)

-----------------------------------------------------------------------------
To(c, s) == cpc' = [cpc EXCEPT ![c] = s]

\* The inbound accepts a connection of a user its core serves, or of fallback
\* traffic, which the xray proxies never dispatch.
Arrive(c) ==
    LET t == TagOf[c]
    IN  /\ cpc[c] = "new" /\ To(c, "lookUp")
        /\ \E core \in Cores :
              /\ has[core][t] # None
              /\ \E u \in has[core][t] \cup (IF TypeOf[core] = "xray" THEN {} ELSE {None}) :
                    who' = [who EXCEPT ![c] = u]
              /\ via' = [via EXCEPT ![c] = TypeOf[core]]
        /\ due' = [due EXCEPT ![c] = info[t]]
        /\ moved' = [moved EXCEPT ![c] = life[t] = "closing"]
        /\ UNCHANGED <<vars, ctlVars, limVars, loopVars, crashed>>

\* GetLimiter.  Without one, sing lets the connection pass, xray does not.
LookUp(c) ==
    /\ cpc[c] = "lookUp"
    /\ lim' = [lim EXCEPT ![c] = reg[TagOf[c]]]
    /\ To(c, IF lim'[c] # 0 THEN "check"
             ELSE IF via[c] = "xray" THEN "rejected" ELSE "unchecked")
    /\ UNCHANGED <<vars, ctlVars, limVars, via, who, pos, upto, due, moved, crashed>>

\* CheckLimit, skipped for fallback traffic.
CheckLimit(c) ==
    /\ cpc[c] = "check"
    /\ To(c, IF who[c] \in {None} \cup knows[TagOf[c]][lim[c]]
             THEN "domain" ELSE "rejected")
    /\ UNCHANGED <<vars, ctlVars, limVars, via, who, loopVars, due, moved, crashed>>

\* range takes the length of the slice once.
EnterRange(c) ==
    /\ cpc[c] \in Kinds /\ pos[c] = 0
    /\ pos' = [pos EXCEPT ![c] = 1]
    /\ upto' = [upto EXCEPT ![c] = slices[TagOf[c]][lim[c]][cpc[c]].len]
    /\ UNCHANGED <<vars, ctlVars, limVars, cpc, via, who, lim, due, moved, crashed>>

\* What a rule is compared with: the destination or the sniffed protocol.
Target(c) == IF cpc[c] = "domain" THEN DestOf[c] ELSE ProtoOf[c]

\* One turn of CheckDomainRule or CheckProtocolRule, which reads the field anew
\* each time: an index past its length and a rule not yet compiled panic, and
\* what lies behind a shorter array is anything.
TryRule(c) ==
    LET t == TagOf[c]
        i == pos[c]
        h == slices[t][lim[c]][cpc[c]]
        list == IF h.arr = 0 THEN <<>> ELSE arrays[t][h.arr][cpc[c]]
        isNil == cpc[c] = "domain" /\ h.arr = Len(arrays[t]) /\ i > filled[t]
    IN  /\ cpc[c] \in Kinds /\ i \in 1..upto[c]
        /\ \/ /\ i > h.len \/ i > Len(list) \/ isNil
              /\ Crash("rules") /\ UNCHANGED <<cpc, pos>>
           \/ /\ i <= h.len /\ i > Len(list)
              /\ pos' = [pos EXCEPT ![c] = @ + 1] /\ UNCHANGED <<cpc, crashed>>
           \/ /\ i <= h.len /\ i <= Len(list) /\ ~isNil
              /\ IF list[i] = Target(c)
                 THEN To(c, "rejected") /\ UNCHANGED pos
                 ELSE pos' = [pos EXCEPT ![c] = @ + 1] /\ UNCHANGED cpc
              /\ UNCHANGED crashed
        /\ UNCHANGED <<vars, ctlVars, limVars, via, who, lim, upto, due, moved>>

\* Protocols are checked when one was sniffed.
EndRules(c) ==
    /\ cpc[c] \in Kinds /\ pos[c] > upto[c]
    /\ IF cpc[c] = "domain" /\ ProtoOf[c] # None
       THEN To(c, "protocol") /\ pos' = [pos EXCEPT ![c] = 0]
       ELSE To(c, "passed") /\ UNCHANGED pos
    /\ UNCHANGED <<vars, ctlVars, limVars, via, who, lim, upto, due, moved, crashed>>

Connection(c) ==
    \/ Arrive(c) \/ LookUp(c) \/ CheckLimit(c)
    \/ EnterRange(c) \/ TryRule(c) \/ EndRules(c)

\* The cores start before the controllers and close after them.
CoreStart == Start /\ UNCHANGED <<ctlVars, limVars, connVars, crashed>>
CoreClose ==
    /\ \A t \in Tags : life[t] \in {"off", "closed"}
    /\ Close /\ UNCHANGED <<ctlVars, limVars, connVars, crashed>>

AdmissionNext ==
    /\ Alive
    /\ \/ CoreStart \/ CoreClose
       \/ \E t \in Tags : Controller(t)
       \/ \E c \in Conns : Connection(c)

AdmissionSpec == AdmissionInit /\ [][AdmissionNext]_allVars

-----------------------------------------------------------------------------
Forbidden(c, rules) ==
    \/ \E i \in 1..Len(rules["domain"]) : rules["domain"][i] = DestOf[c]
    \/ ProtoOf[c] # None /\ \E i \in 1..Len(rules["protocol"]) : rules["protocol"][i] = ProtoOf[c]

(* A TCP connection of sing, or any connection of xray, gets past its       *)
(* limiter, or past a rule the panel had set when it came ("reject by       *)
(* rule"), only when its node was reloaded or closing while it was on its   *)
(* way: a node goes up after its limiter and its rules, and a reload takes  *)
(* it down before them.                                                     *)
UncheckedNeedsTeardown ==
    \A c \in Conns :
        \/ cpc[c] = "unchecked"
        \/ cpc[c] = "passed" /\ Forbidden(c, due[c])
        => moved[c]

(* Rules that are published before they are compiled bring the process down *)
(* only through a connection that was under way when its node was reloaded. *)
RulePanicNeedsReload ==
    crashed = "rules" => \E c \in Conns : cpc[c] \in Kinds /\ moved[c]

(* While a node is up, the limiter its connections find is the one its      *)
(* controller updates, and it knows exactly the users of the controller's   *)
(* list, except for a named node, which keeps its limiter over a reload.    *)
LimiterIsCurrent ==
    \A t \in Tags : (Alive /\ life[t] = "running" /\ step[t] = "up") =>
        /\ reg[t] = held[t] /\ held[t] # 0
        /\ t \notin named => knows[t][held[t]] = userList[t]
=============================================================================
