------------------------------ MODULE Selector -------------------------------
(***************************************************************************)
(* The selector (core/selector.go) that serves the nodes of several cores  *)
(* as one Core: AddNode chooses a core by name, by type or by the protocol *)
(* of the node, and s.nodes remembers it for the later calls.  It is used  *)
(* by one controller per tag, all at the same time.                        *)
(*                                                                         *)
(* The cores are external: each holds the users of its nodes; AddNode of a *)
(* core may fail, with the inbound left behind, and so may DelNode, with   *)
(* the inbound gone (core/xray/node.go).  A controller whose AddNode or    *)
(* DelNode failed adds its node no more (node/task.go:89-93: its next      *)
(* DelNode fails too); it is "lost" then.                                  *)
(***************************************************************************)
EXTENDS Naturals

CONSTANTS
    Tags, Users, None,
    Cores, Stray,   \* the cores; a name or a type there is no core of
    TypeOf,     \* the Type() of every core
    Protocols,  \* the Protocols() of every core
    NodeTypes,  \* the types of node the panel knows
    Texts,      \* what the options of a node may say of their core
    MaxOps      \* bound: calls of the controllers

\* The types of core the options can be decoded for.
CoreTypes == {"xray", "sing", "hysteria2", "mieru"}

ASSUME CoreAssumption ==
    /\ None \notin Cores
    /\ \A users \in SUBSET Users : users # None
ASSUME TextAssumption ==
    /\ TypeOf \in [Cores -> CoreTypes]
    /\ Texts \subseteq [name : Cores \cup {None, Stray}, core : CoreTypes \cup {None, Stray}]
    /\ None \notin CoreTypes /\ Stray \notin Cores \cup CoreTypes \cup {None}
ASSUME BoundAssumption == MaxOps \in Nat

VARIABLES
    state,      \* "new", "started", "failed" or "closed"
    open,       \* the cores that are started
    nodes,      \* s.nodes: tag -> core
    has,        \* core -> tag -> the users of the node in that core, or None
    text,       \* tag -> CoreName and Core in the file, None for one not given;
                \* Stray is a name or a value no core has, for Core also ""
    optCore,    \* tag -> option.Core, None when it is empty
    raw,        \* the tags whose options wait in RawOptions to be decoded
    decoded,    \* tag -> the type of core they were decoded for, or None
    pc, home,   \* the step of each controller's call, and the core it chose
    ops

optVars == <<text, optCore, raw, decoded>>
vars == <<state, open, nodes, has, optVars, pc, home, ops>>

(* The selector's map, the cores and the options have their types. *)
TypeOK ==
    /\ state \in {"new", "started", "failed", "closed"}
    /\ open \in SUBSET Cores
    /\ nodes \in [Tags -> Cores \cup {None}]
    /\ has \in [Cores -> [Tags -> (SUBSET Users) \cup {None}]]
    /\ text \in [Tags -> Texts]
    /\ optCore \in [Tags -> CoreTypes \cup {None}]
    /\ raw \in SUBSET Tags
    /\ decoded \in [Tags -> CoreTypes \cup {None}]
    /\ pc \in [Tags -> {"idle", "store", "forget", "lost"}]
    /\ home \in [Tags -> Cores \cup {None}]
    /\ ops \in 0..MaxOps

\* NewSelector, with the options of every node as Options.UnmarshalJSON read
\* them: those that give a type of core are decoded for it, whatever CoreName
\* says; the others are kept as they are.
Init ==
    /\ state = "new" /\ open = {}
    /\ nodes = [t \in Tags |-> None]
    /\ has = [c \in Cores |-> [t \in Tags |-> None]]
    /\ text \in [Tags -> Texts]
    /\ optCore = [t \in Tags |-> IF text[t].core \in CoreTypes THEN text[t].core ELSE None]
    /\ decoded = optCore /\ raw = {t \in Tags : optCore[t] = None}
    /\ pc = [t \in Tags |-> "idle"] /\ home = [t \in Tags |-> None]
    /\ ops = 0

\* One turn of the loop of Start; the first error ends it.
Start ==
    /\ state = "new"
    /\ \/ \E c \in Cores \ open :
             /\ open' = open \cup {c}
             /\ state' = IF open' = Cores THEN "started" ELSE state
       \/ state' = "failed" /\ UNCHANGED open
    /\ UNCHANGED <<nodes, has, optVars, pc, home, ops>>

\* Close, of every core whatever the others return.
Close ==
    /\ state \in {"started", "failed"}
    /\ state' = "closed" /\ open' = {}
    /\ has' = [c \in Cores |-> [t \in Tags |-> None]]
    /\ UNCHANGED <<nodes, optVars, pc, home, ops>>

Call(t) ==
    /\ state = "started" /\ pc[t] = "idle"
    /\ ops < MaxOps /\ ops' = ops + 1

Goto(t, step) == pc' = [pc EXCEPT ![t] = step]

\* Mutant: the type chosen by an earlier AddNode is ignored.
CandidatesByProtocol(t, type) ==
    IF text[t].name # None THEN {text[t].name} \cap Cores
    ELSE {c \in Cores : type \in Protocols[c]}

\* The cores AddNode may choose; the last one in the order of the map wins.
Candidates(t, type) ==
    IF text[t].name # None THEN {text[t].name} \cap Cores
    ELSE IF optCore[t] = None THEN {c \in Cores : type \in Protocols[c]}
    ELSE {c \in Cores : TypeOf[c] = optCore[t]}

\* AddNode and DelNode of core c add and remove the inbound, then the outbound:
\* a call that fails may have done the first half.
CoreAddNode(c, t, ok) ==
    LET added == [has EXCEPT ![c][t] = {}]
    IN  has' \in IF ok THEN {added} ELSE {has, added}

CoreDelNode(c, t, ok) ==
    LET removed == [has EXCEPT ![c][t] = None]
    IN  has' \in IF ok THEN {removed} ELSE {has, removed}

\* UnmarshalJSON of RawOptions, with option.Core set to the type of c: it reads
\* Core again, and a stray one leaves Core empty and nothing decoded.
Decode(t, c) ==
    /\ IF text[t].core = Stray
       THEN optCore' = [optCore EXCEPT ![t] = None] /\ UNCHANGED decoded
       ELSE /\ optCore' = [optCore EXCEPT ![t] = TypeOf[c]]
            /\ decoded' = [decoded EXCEPT ![t] = TypeOf[c]]
    /\ raw' = raw \ {t}

\* It fails on options that do not suit the type, and when RawOptions is gone.
DecodeFails(t, c) ==
    /\ t \in raw => text[t].core # Stray
    /\ optCore' = [optCore EXCEPT ![t] = TypeOf[c]]
    /\ UNCHANGED <<raw, decoded>>

\* AddNode up to the result of core.AddNode.  An empty Core is set to the type
\* of the core chosen and the options are decoded for it.  A core that is given
\* options not decoded for it fails on a nil pointer or does without them.
AddNode(t, type) ==
    /\ Call(t)
    /\ nodes[t] = None
    /\ \/ /\ Candidates(t, type) = {}
          /\ Goto(t, "lost")
          /\ UNCHANGED <<has, optCore, raw, decoded, home>>
       \/ \E c \in Candidates(t, type) :
             \/ /\ optCore[t] = None /\ DecodeFails(t, c)
                /\ Goto(t, "lost")
                /\ UNCHANGED <<has, home>>
             \/ /\ \/ optCore[t] = None /\ t \in raw /\ Decode(t, c)
                   \/ optCore[t] # None /\ UNCHANGED <<optCore, raw, decoded>>
                /\ \/ /\ Goto(t, "store") /\ home' = [home EXCEPT ![t] = c]
                      /\ CoreAddNode(c, t, TRUE)
                   \/ /\ Goto(t, "lost")
                      /\ CoreAddNode(c, t, FALSE)
                      /\ UNCHANGED home
    /\ UNCHANGED <<state, open, nodes, text>>

\* s.nodes.Store.
StoreNode(t) ==
    /\ pc[t] = "store" /\ Goto(t, "idle")
    /\ nodes' = [nodes EXCEPT ![t] = home[t]] /\ home' = [home EXCEPT ![t] = None]
    /\ UNCHANGED <<state, open, has, optVars, ops>>

\* Mutant: the entry goes first, and stays away when core.DelNode fails.
DelNodeForgetsFirst(t) ==
    /\ Call(t)
    /\ nodes[t] # None
    /\ nodes' = [nodes EXCEPT ![t] = None]
    /\ has' \in {has, [has EXCEPT ![nodes[t]][t] = None]}
    /\ UNCHANGED <<state, open, optVars, pc, home>>

\* DelNode up to the result of core.DelNode.
DelNode(t) ==
    /\ Call(t)
    /\ nodes[t] # None
    /\ \/ /\ Goto(t, "forget")
          /\ CoreDelNode(nodes[t], t, TRUE)
       \/ /\ Goto(t, "lost")
          /\ CoreDelNode(nodes[t], t, FALSE)
    /\ UNCHANGED <<state, open, nodes, optVars, home>>

\* s.nodes.Delete.
ForgetNode(t) ==
    /\ pc[t] = "forget" /\ Goto(t, "idle")
    /\ nodes' = [nodes EXCEPT ![t] = None]
    /\ UNCHANGED <<state, open, has, optVars, home, ops>>

\* Mutant: the users replace those of the node.
AddUsersReplaces(t, users) ==
    /\ Call(t)
    /\ nodes[t] # None
    /\ has' = [has EXCEPT ![nodes[t]][t] = IF @ = None THEN @ ELSE users]
    /\ UNCHANGED <<state, open, nodes, optVars, pc, home>>

\* The users the core accepts; without the node the call has no effect.
AddUsers(t, users) ==
    /\ Call(t)
    /\ nodes[t] # None
    /\ has' = [has EXCEPT ![nodes[t]][t] = IF @ = None THEN @ ELSE @ \cup users]
    /\ UNCHANGED <<state, open, nodes, optVars, pc, home>>

DelUsers(t, users) ==
    /\ Call(t)
    /\ nodes[t] # None
    /\ has' = [has EXCEPT ![nodes[t]][t] = IF @ = None THEN @ ELSE @ \ users]
    /\ UNCHANGED <<state, open, nodes, optVars, pc, home>>

Next ==
    \/ Start \/ Close
    \/ \E t \in Tags :
          \/ \E type \in NodeTypes : AddNode(t, type)
          \/ StoreNode(t) \/ DelNode(t) \/ ForgetNode(t)
          \/ \E users \in SUBSET Users : AddUsers(t, users) \/ DelUsers(t, users)

Spec == Init /\ [][Next]_vars

-----------------------------------------------------------------------------
(* Between two calls of a controller, its node is in the core s.nodes names *)
(* and in no other, so that DelNode and DelUsers reach it.                  *)
OneHome ==
    state = "started" =>
        \A t \in Tags : pc[t] = "idle" =>
            {c \in Cores : has[c][t] # None} = {nodes[t]} \ {None}

\* The options give a Core that is no type of core, or not that of CoreName.
Misleading(o) ==
    \/ o.core = Stray
    \/ o.name \in Cores /\ o.core \in CoreTypes \ {TypeOf[o.name]}

(* A core is given options that were decoded for its type, however often    *)
(* the node is added again and whatever its protocol has become, unless the *)
(* file gives Core a value that is no type or contradicts CoreName: AddNode *)
(* notices neither.                                                         *)
OptionsMatchCore ==
    \A t \in Tags : ~Misleading(text[t]) =>
        /\ nodes[t] # None => decoded[t] = TypeOf[nodes[t]]
        /\ home[t] # None => decoded[t] = TypeOf[home[t]]

Served == [t \in Tags |-> IF nodes[t] = None THEN None ELSE has[nodes[t]][t]]

Abstract == INSTANCE Core WITH served <- Served

(* The selector behaves as one core: through s.nodes, every call acts on    *)
(* the node of its own tag only, and what the cores hold under a tag never  *)
(* changes otherwise.                                                       *)
ActsAsOneCore == Abstract!Spec
=============================================================================
