--------------------------- MODULE AdmissionProofs ---------------------------
(***************************************************************************)
(* First Selector, for any tags, users, cores, types and protocols: a node *)
(* has one home, a core is given options of its own type unless the file   *)
(* contradicts itself, and the selector implements Core.  Then Admission,  *)
(* for any nodes, cores, users, rules and connections: controllers use the *)
(* selector as Selector assumes; and a connection gets around its limiter  *)
(* or its rules, or panics in them, only when its node is taken down while *)
(* it is on its way.                                                       *)
(***************************************************************************)
EXTENDS Admission, TLAPS

HasIt(c, t) == has[c][t] # None

\* Where the node of tag t is at every step of the controller's call.
HomeInv(t) ==
    /\ pc[t] = "idle" =>
          \A c \in Cores : HasIt(c, t) <=> c = nodes[t]
    /\ pc[t] = "store" =>
          /\ has[home[t]][t] = {}
          /\ \A c \in Cores : HasIt(c, t) => c = home[t]
    /\ pc[t] = "forget" => \A c \in Cores : ~HasIt(c, t)

\* Between the calls of a controller.
CallInv(t) ==
    /\ pc[t] = "store" => nodes[t] = None /\ home[t] \in Cores
    /\ pc[t] # "store" => home[t] = None
    /\ pc[t] = "forget" => nodes[t] # None

\* Before Start is done no controller has called, after Close nothing is left.
StateInv ==
    /\ state \in {"new", "failed"} =>
          /\ \A t \in Tags : pc[t] = "idle" /\ nodes[t] = None
    /\ state # "started" => \A c \in Cores, t \in Tags : ~HasIt(c, t)
    /\ state = "started" => \A t \in Tags : HomeInv(t)

\* The options of a node that is not lost are decoded for option.Core, which is
\* what the file says or, where it says nothing, the type of the core it names.
OptionInv(t) ==
    /\ (pc[t] # "lost" /\ optCore[t] # None) => decoded[t] = optCore[t]
    /\ text[t].core \in CoreTypes => optCore[t] = text[t].core
    /\ (text[t].core = None /\ text[t].name \in Cores /\ optCore[t] # None) =>
          optCore[t] = TypeOf[text[t].name]
    /\ ~Misleading(text[t]) =>
          /\ nodes[t] # None => decoded[t] = TypeOf[nodes[t]]
          /\ home[t] # None => decoded[t] = TypeOf[home[t]]

USE DEF optVars

Inv ==
    /\ TypeOK
    /\ StateInv
    /\ \A t \in Tags : CallInv(t) /\ OptionInv(t)

(* NewSelector establishes the invariant. *)
LEMMA InitInv == Init => Inv
<1> SUFFICES ASSUME Init PROVE Inv
    OBVIOUS
<1>1. TypeOK
    <2>1. optCore \in [Tags -> CoreTypes \cup {None}] /\ decoded = optCore
        BY ZenonT(60) DEF Init
    <2>2. has \in [Cores -> [Tags -> (SUBSET Users) \cup {None}]]
        BY ZenonT(60) DEF Init
    <2>3. nodes \in [Tags -> Cores \cup {None}] /\ home \in [Tags -> Cores \cup {None}]
        BY ZenonT(60) DEF Init
    <2>4. pc \in [Tags -> {"idle", "store", "forget", "lost"}]
        BY ZenonT(60) DEF Init
    <2>5. 0 \in 0..MaxOps
        BY BoundAssumption
    <2> QED
        BY ZenonT(60), <2>1, <2>2, <2>3, <2>4, <2>5 DEF Init, TypeOK
<1>2. StateInv
    BY ZenonT(60) DEF Init, StateInv, HasIt
<1>3. \A t \in Tags : CallInv(t) /\ OptionInv(t)
    <2>1. \A t \in Tags : CallInv(t)
        BY ZenonT(60) DEF Init, CallInv
    <2>2. ASSUME NEW t \in Tags PROVE OptionInv(t)
        <3>1. /\ optCore[t] = (IF text[t].core \in CoreTypes THEN text[t].core ELSE None)
              /\ decoded[t] = optCore[t] /\ nodes[t] = None /\ home[t] = None
            BY ZenonT(60) DEF Init
        <3>2. text[t].core \in CoreTypes => text[t].core # None
            BY ZenonT(60), TextAssumption
        <3>3. text[t].core = None => optCore[t] = None
            BY ZenonT(60), <3>1
        <3> QED
            BY ZenonT(60), <3>1, <3>3 DEF OptionInv
    <2> QED
        BY ZenonT(60), <2>1, <2>2
<1> QED
    BY ZenonT(60), <1>1, <1>2, <1>3 DEF Inv

(* Start and Close of the selector preserve the invariant. *)
LEMMA StateStepInv == Inv /\ (Start \/ Close) => Inv'
<1> SUFFICES ASSUME Inv, Start \/ Close PROVE Inv'
    OBVIOUS
<1>1. TypeOK'
    BY DEF Inv, TypeOK, Start, Close
<1>2. \A t \in Tags : CallInv(t)' /\ OptionInv(t)'
    BY ZenonT(60) DEF Inv, CallInv, OptionInv, Start, Close
<1>3. StateInv'
    <2>1. CASE Start
        <3>1. \A c \in Cores, t \in Tags : ~HasIt(c, t)'
            BY ZenonT(60), <2>1 DEF Inv, StateInv, Start, HasIt
        <3>2. \A t \in Tags : pc'[t] = "idle" /\ nodes'[t] = None
            BY ZenonT(60), <2>1 DEF Inv, StateInv, Start
        <3>3. \A t \in Tags : HomeInv(t)'
            BY ZenonT(60), <3>1, <3>2, CoreAssumption DEF HomeInv, HasIt
        <3> QED
            BY ZenonT(60), <3>1, <3>2, <3>3 DEF StateInv
    <2>2. CASE Close
        BY ZenonT(60), <2>2 DEF StateInv, Close, HasIt
    <2> QED
        BY ZenonT(60), <2>1, <2>2
<1> QED
    BY ZenonT(60), <1>1, <1>2, <1>3 DEF Inv

-----------------------------------------------------------------------------
(* The node is in the core AddNode chooses only, and unless the file is     *)
(* misleading that core is of the type the options are decoded for.         *)
LEMMA AddNodeInv ==
    ASSUME Inv, NEW t \in Tags, NEW type \in NodeTypes, AddNode(t, type)
    PROVE  Inv'
<1>1. state = "started" /\ pc[t] = "idle" /\ nodes[t] = None /\ ops < MaxOps
    BY ZenonT(60) DEF AddNode, Call
<1>2. /\ state' = state /\ nodes' = nodes /\ open' = open /\ text' = text
      /\ ops' = ops + 1
    BY ZenonT(60) DEF AddNode, Call
<1>3. \A c \in Cores : ~HasIt(c, t)
    BY ZenonT(60), <1>1, CoreAssumption DEF Inv, StateInv, HomeInv
<1>4. home[t] = None /\ (optCore[t] # None => decoded[t] = optCore[t])
    BY ZenonT(60), <1>1 DEF Inv, OptionInv, CallInv
<1>5. CASE /\ Candidates(t, type) = {}
           /\ Goto(t, "lost")
           /\ UNCHANGED <<has, optCore, raw, decoded, home>>
    <2>1. TypeOK'
        BY <1>1, <1>2, <1>5, BoundAssumption DEF Inv, TypeOK, Goto
    <2>2. StateInv'
        BY <1>1, <1>2, <1>5 DEF Inv, TypeOK, StateInv, HomeInv, HasIt, Goto
    <2>3. \A s \in Tags : CallInv(s)' /\ OptionInv(s)'
        BY ZenonT(60), <1>1, <1>2, <1>4, <1>5 DEF Inv, TypeOK, CallInv, OptionInv, Goto
    <2> QED
        BY ZenonT(60), <2>1, <2>2, <2>3 DEF Inv
<1>6. ASSUME NEW c \in Candidates(t, type),
             \/ /\ optCore[t] = None /\ DecodeFails(t, c)
                /\ Goto(t, "lost")
                /\ UNCHANGED <<has, home>>
             \/ /\ \/ optCore[t] = None /\ t \in raw /\ Decode(t, c)
                   \/ optCore[t] # None /\ UNCHANGED <<optCore, raw, decoded>>
                /\ \/ /\ Goto(t, "store") /\ home' = [home EXCEPT ![t] = c]
                      /\ CoreAddNode(c, t, TRUE)
                   \/ /\ Goto(t, "lost")
                      /\ CoreAddNode(c, t, FALSE)
                      /\ UNCHANGED home
      PROVE  Inv'
    <2>1. /\ c \in Cores
          /\ text[t].name # None => c = text[t].name
          /\ (text[t].name = None /\ optCore[t] # None) => TypeOf[c] = optCore[t]
        BY ZenonT(60) DEF Candidates
    <2>2. TypeOf[c] \in CoreTypes /\ TypeOf[c] # None
        BY ZenonT(60), <2>1, TextAssumption
    <2>3. has' \in {has, [has EXCEPT ![c][t] = {}]}
        BY ZenonT(60), <1>6 DEF CoreAddNode
    <2>4. /\ optCore' \in [Tags -> CoreTypes \cup {None}]
          /\ decoded' \in [Tags -> CoreTypes \cup {None}]
          /\ raw' \in SUBSET Tags
          /\ \A s \in Tags \ {t} : optCore'[s] = optCore[s] /\ decoded'[s] = decoded[s]
        BY ZenonT(60), <1>6, <2>2 DEF Inv, TypeOK, Decode, DecodeFails
    <2>5. /\ optCore[t] # None => optCore'[t] = optCore[t] /\ decoded'[t] = decoded[t]
          /\ (optCore[t] = None /\ text[t].core # Stray) =>
                /\ optCore'[t] = TypeOf[c]
                /\ pc'[t] = "store" => decoded'[t] = TypeOf[c]
          /\ (optCore[t] = None /\ text[t].core = Stray /\ pc'[t] = "store") =>
                optCore'[t] = None
        BY ZenonT(60), <1>6 DEF Inv, TypeOK, Decode, DecodeFails, Goto
    <2>6. /\ pc' \in [Tags -> {"idle", "store", "forget", "lost"}]
          /\ pc'[t] \in {"store", "lost"}
          /\ \A s \in Tags \ {t} : pc'[s] = pc[s] /\ home'[s] = home[s]
          /\ home' \in [Tags -> Cores \cup {None}]
          /\ pc'[t] = "store" => home'[t] = c /\ has' = [has EXCEPT ![c][t] = {}]
          /\ pc'[t] = "lost" => home'[t] = None
        BY <1>4, <1>6, <2>1 DEF Inv, TypeOK, Goto, CoreAddNode
    <2>7. TypeOK'
        <3>1. has' \in [Cores -> [Tags -> (SUBSET Users) \cup {None}]]
            BY SMTT(60), <2>1, <2>3 DEF Inv, TypeOK
        <3> QED
            BY <1>1, <1>2, <2>4, <2>6, <3>1, BoundAssumption DEF Inv, TypeOK
    <2>8. \A d \in Cores, s \in Tags : <<d, s>> # <<c, t>> => has'[d][s] = has[d][s]
        BY <2>1, <2>3 DEF Inv, TypeOK
    <2>9. \A s \in Tags : HomeInv(s)'
        <3>1. ASSUME NEW s \in Tags, s # t PROVE HomeInv(s)'
            <4>1. HomeInv(s)
                BY ZenonT(60), <1>1 DEF Inv, StateInv
            <4>2. \A d \in Cores : has'[d][s] = has[d][s]
                BY ZenonT(60), <2>8, <3>1
            <4>3. pc[s] = "store" => home[s] \in Cores
                BY ZenonT(60) DEF Inv, CallInv
            <4> QED
                BY SMTT(60), <1>2, <2>6, <3>1, <4>1, <4>2, <4>3 DEF HomeInv, HasIt
        <3>2. pc'[t] = "store" => /\ has'[c][t] = {}
                                  /\ \A d \in Cores : HasIt(d, t)' => d = c
            BY <1>3, <2>1, <2>6, <2>8 DEF HasIt, Inv, TypeOK
        <3>3. HomeInv(t)'
            BY ZenonT(60), <2>6, <3>2 DEF HomeInv
        <3> QED
            BY ZenonT(60), <3>1, <3>3
    <2>10. StateInv'
        BY ZenonT(60), <1>1, <1>2, <2>9 DEF StateInv
    <2>11. \A s \in Tags : CallInv(s)'
        BY ZenonT(60), <1>1, <1>2, <2>1, <2>6 DEF Inv, CallInv
    <2>12. \A s \in Tags : OptionInv(s)'
        <3>1. ASSUME NEW s \in Tags, s # t PROVE OptionInv(s)'
            BY ZenonT(60), <1>2, <2>4, <2>6, <3>1 DEF Inv, OptionInv
        <3>2. OptionInv(t)
            BY ZenonT(60) DEF Inv
        <3>3. (optCore[t] # None /\ ~Misleading(text[t])) => TypeOf[c] = optCore[t]
            <4> SUFFICES ASSUME optCore[t] # None, ~Misleading(text[t]), text[t].name # None
                         PROVE  TypeOf[c] = optCore[t]
                BY ZenonT(60), <2>1
            <4>1. c = text[t].name /\ text[t].core \in CoreTypes \cup {None}
                <5>1. text[t] \in [name : Cores \cup {None, Stray},
                                   core : CoreTypes \cup {None, Stray}]
                    BY ZenonT(60), TextAssumption DEF Inv, TypeOK
                <5> QED
                    BY <2>1, <5>1 DEF Misleading
            <4>2. CASE text[t].core \in CoreTypes
                BY ZenonT(60), <2>1, <3>2, <4>1, <4>2 DEF OptionInv, Misleading
            <4>3. CASE text[t].core = None
                BY ZenonT(60), <2>1, <3>2, <4>1, <4>3 DEF OptionInv
            <4> QED
                BY ZenonT(60), <4>1, <4>2, <4>3
        <3>4. ~Misleading(text[t]) => text[t].core # Stray
            BY ZenonT(60) DEF Misleading
        <3>5. (pc'[t] # "lost" /\ optCore'[t] # None) => decoded'[t] = optCore'[t]
            BY ZenonT(60), <1>4, <2>5, <2>6
        <3>6. text[t].core \in CoreTypes => optCore'[t] = text[t].core
            <4>1. text[t].core \in CoreTypes => optCore[t] = text[t].core /\ text[t].core # None
                BY ZenonT(60), <3>2, TextAssumption DEF OptionInv
            <4> QED
                BY ZenonT(60), <2>5, <4>1
        <3>7. (text[t].core = None /\ text[t].name \in Cores) => optCore'[t] = TypeOf[text[t].name]
            <4> SUFFICES ASSUME text[t].core = None, text[t].name \in Cores
                         PROVE  optCore'[t] = TypeOf[text[t].name]
                OBVIOUS
            <4>1. c = text[t].name /\ text[t].core # Stray
                <5>1. Stray # None
                    BY ZenonT(60), TextAssumption
                <5> QED
                    BY ZenonT(60), <2>1, <5>1, CoreAssumption
            <4>2. optCore[t] # None => optCore[t] = TypeOf[text[t].name]
                BY ZenonT(60), <3>2 DEF OptionInv
            <4> QED
                BY ZenonT(60), <2>5, <4>1, <4>2
        <3>8. (~Misleading(text[t]) /\ pc'[t] = "store") => decoded'[t] = TypeOf[c]
            BY ZenonT(60), <1>4, <2>5, <3>3, <3>4
        <3>9. nodes'[t] = None /\ (home'[t] # None => pc'[t] = "store" /\ home'[t] = c)
            BY ZenonT(60), <1>1, <1>2, <2>6
        <3>10. OptionInv(t)'
            BY ZenonT(60), <1>2, <3>5, <3>6, <3>7, <3>8, <3>9 DEF OptionInv
        <3> QED
            BY ZenonT(60), <3>1, <3>10
    <2> QED
        BY ZenonT(60), <2>7, <2>10, <2>11, <2>12 DEF Inv
<1> QED
    BY ZenonT(60), <1>5, <1>6 DEF AddNode

(* s.nodes.Store remembers the core that has the node. *)
LEMMA StoreNodeInv ==
    ASSUME Inv, NEW t \in Tags, StoreNode(t) PROVE Inv'
<1> USE DEF StoreNode, Goto
<1>1. nodes[t] = None /\ home[t] \in Cores
    BY ZenonT(60) DEF Inv, CallInv
<1>2. /\ pc'[t] = "idle" /\ nodes'[t] = home[t] /\ home'[t] = None
      /\ \A s \in Tags \ {t} : /\ pc'[s] = pc[s] /\ nodes'[s] = nodes[s]
                               /\ home'[s] = home[s]
    BY ZenonT(60) DEF Inv, TypeOK
<1>3. TypeOK'
    BY ZenonT(60), <1>1 DEF Inv, TypeOK
<1>4. state = "started" => \A s \in Tags : HomeInv(s)'
    <2> SUFFICES ASSUME state = "started", NEW s \in Tags PROVE HomeInv(s)'
        OBVIOUS
    <2>1. HomeInv(s)
        BY ZenonT(60) DEF Inv, StateInv
    <2>2. CASE s # t
        BY ZenonT(60), <1>2, <2>1, <2>2 DEF HomeInv, HasIt
    <2>3. CASE s = t
        <3>1. HasIt(home[t], t)
            BY ZenonT(60), <2>1, <2>3, CoreAssumption DEF HomeInv, HasIt
        <3> QED
            BY <1>1, <1>2, <2>1, <2>3, <3>1 DEF HomeInv, HasIt
    <2> QED
        BY ZenonT(60), <2>2, <2>3
<1>5. StateInv'
    BY ZenonT(60), <1>4 DEF Inv, StateInv, HasIt
<1>6. \A s \in Tags : CallInv(s)' /\ OptionInv(s)'
    BY <1>1, <1>2 DEF Inv, CallInv, OptionInv
<1> QED
    BY ZenonT(60), <1>3, <1>5, <1>6 DEF Inv

(* DelNode takes the node out of its core; when it fails the node is lost. *)
LEMMA DelNodeInv ==
    ASSUME Inv, NEW t \in Tags, DelNode(t) PROVE Inv'
<1>1. state = "started" /\ pc[t] = "idle" /\ nodes[t] \in Cores /\ ops < MaxOps
    BY ZenonT(60) DEF DelNode, Call, Inv, TypeOK
<1>2. /\ state' = state /\ nodes' = nodes /\ open' = open /\ ops' = ops + 1
      /\ home' = home /\ UNCHANGED optVars
    BY ZenonT(60) DEF DelNode, Call
<1>3. /\ pc' \in [Tags -> {"idle", "store", "forget", "lost"}]
      /\ pc'[t] \in {"forget", "lost"}
      /\ \A s \in Tags \ {t} : pc'[s] = pc[s]
    BY ZenonT(60) DEF DelNode, Goto, Inv, TypeOK
<1>4. /\ has' \in {has, [has EXCEPT ![nodes[t]][t] = None]}
      /\ pc'[t] = "forget" => has' = [has EXCEPT ![nodes[t]][t] = None]
    BY ZenonT(60) DEF DelNode, Goto, CoreDelNode, Inv, TypeOK
<1>5. TypeOK'
    <2>1. has' \in [Cores -> [Tags -> (SUBSET Users) \cup {None}]]
        <3>1. has \in [Cores -> [Tags -> (SUBSET Users) \cup {None}]]
            BY ZenonT(60) DEF Inv, TypeOK
        <3>2. PICK c \in Cores : c = nodes[t]
            BY ZenonT(60), <1>1
        <3>3. [has EXCEPT ![c][t] = None] \in [Cores -> [Tags -> (SUBSET Users) \cup {None}]]
            BY ZenonT(60), <3>1
        <3> QED
            BY ZenonT(60), <1>4, <3>1, <3>2, <3>3
    <2> QED
        BY <1>1, <1>2, <1>3, <2>1, BoundAssumption DEF Inv, TypeOK
<1>6. \A d \in Cores, s \in Tags :
          <<d, s>> # <<nodes[t], t>> => has'[d][s] = has[d][s]
    BY <1>1, <1>4 DEF Inv, TypeOK
<1>7. \A s \in Tags : HomeInv(s)'
    <2>1. ASSUME NEW s \in Tags, s # t PROVE HomeInv(s)'
        <3>1. HomeInv(s) /\ \A d \in Cores : has'[d][s] = has[d][s]
            BY ZenonT(60), <1>1, <1>6, <2>1 DEF Inv, StateInv
        <3>2. pc[s] = "store" => home[s] \in Cores
            BY ZenonT(60) DEF Inv, CallInv
        <3> QED
            BY ZenonT(60), <1>2, <1>3, <2>1, <3>1, <3>2 DEF HomeInv, HasIt
    <2>2. pc'[t] = "forget" => \A d \in Cores : ~HasIt(d, t)'
        <3>1. \A d \in Cores : HasIt(d, t) <=> d = nodes[t]
            BY ZenonT(60), <1>1 DEF Inv, StateInv, HomeInv
        <3>2. pc'[t] = "forget" => has'[nodes[t]][t] = None
            BY <1>1, <1>4 DEF Inv, TypeOK
        <3> QED
            BY ZenonT(60), <1>6, <3>1, <3>2 DEF HasIt
    <2>3. HomeInv(t)'
        BY ZenonT(60), <1>3, <2>2 DEF HomeInv
    <2> QED
        BY ZenonT(60), <2>1, <2>3
<1>8. StateInv'
    BY ZenonT(60), <1>1, <1>2, <1>7 DEF StateInv
<1>9. \A s \in Tags : CallInv(s)' /\ OptionInv(s)'
    BY <1>1, <1>2, <1>3, CoreAssumption DEF Inv, CallInv, OptionInv
<1> QED
    BY ZenonT(60), <1>5, <1>8, <1>9 DEF Inv

(* s.nodes.Delete comes after the core gave the node up. *)
LEMMA ForgetNodeInv ==
    ASSUME Inv, NEW t \in Tags, ForgetNode(t) PROVE Inv'
<1> USE DEF ForgetNode, Goto
<1>1. /\ pc'[t] = "idle" /\ nodes'[t] = None
      /\ \A s \in Tags \ {t} : pc'[s] = pc[s] /\ nodes'[s] = nodes[s]
    BY ZenonT(60) DEF Inv, TypeOK
<1>2. TypeOK'
    BY ZenonT(60) DEF Inv, TypeOK
<1>3. StateInv'
    <2>1. ASSUME state = "started", NEW s \in Tags PROVE HomeInv(s)'
        BY <1>1, <2>1, CoreAssumption DEF Inv, StateInv, HomeInv, HasIt
    <2> QED
        BY ZenonT(60), <2>1 DEF Inv, StateInv, HasIt
<1>4. \A s \in Tags : CallInv(s)' /\ OptionInv(s)'
    BY <1>1 DEF Inv, CallInv, OptionInv
<1> QED
    BY ZenonT(60), <1>2, <1>3, <1>4 DEF Inv

(* Calls for the users of a node change the users of that node only. *)
LEMMA UsersInv ==
    ASSUME Inv, NEW t \in Tags, NEW users \in SUBSET Users,
           AddUsers(t, users) \/ DelUsers(t, users)
    PROVE  Inv'
<1>1. state = "started" /\ pc[t] = "idle" /\ nodes[t] \in Cores /\ ops < MaxOps
    BY ZenonT(60) DEF AddUsers, DelUsers, Call, Inv, TypeOK
<1>2. /\ state' = state /\ nodes' = nodes /\ open' = open /\ ops' = ops + 1
      /\ home' = home /\ UNCHANGED optVars /\ pc' = pc
    BY ZenonT(60) DEF AddUsers, DelUsers, Call
<1>3. PICK new \in (SUBSET Users) \cup {None} :
          /\ has' = [has EXCEPT ![nodes[t]][t] = new]
          /\ new = None <=> has[nodes[t]][t] = None
    <2>1. has[nodes[t]][t] \in (SUBSET Users) \cup {None}
        <3>1. has \in [Cores -> [Tags -> (SUBSET Users) \cup {None}]]
            BY ZenonT(60) DEF Inv, TypeOK
        <3> QED
            BY ZenonT(60), <1>1, <3>1
    <2>2. \A x \in SUBSET Users : x \cup users # None /\ x \ users # None
        BY ZenonT(60), CoreAssumption
    <2> DEFINE old == has[nodes[t]][t]
    <2>3. CASE AddUsers(t, users)
        <3> DEFINE new == IF old = None THEN old ELSE old \cup users
        <3>1. has' = [has EXCEPT ![nodes[t]][t] = new]
            BY ZenonT(60), <2>3 DEF AddUsers
        <3>2. new \in (SUBSET Users) \cup {None} /\ (new = None <=> old = None)
            BY ZenonT(60), <2>1, <2>2
        <3> QED
            BY ZenonT(60), <3>1, <3>2
    <2>4. CASE DelUsers(t, users)
        <3> DEFINE new == IF old = None THEN old ELSE old \ users
        <3>1. has' = [has EXCEPT ![nodes[t]][t] = new]
            BY ZenonT(60), <2>4 DEF DelUsers
        <3>2. new \in (SUBSET Users) \cup {None} /\ (new = None <=> old = None)
            BY ZenonT(60), <2>1, <2>2
        <3> QED
            BY ZenonT(60), <3>1, <3>2
    <2> QED
        BY ZenonT(60), <2>3, <2>4
<1>4. TypeOK'
    <2>1. has' \in [Cores -> [Tags -> (SUBSET Users) \cup {None}]]
        BY ZenonT(60), <1>1, <1>3 DEF Inv, TypeOK
    <2> QED
        BY <1>1, <1>2, <2>1, BoundAssumption DEF Inv, TypeOK
<1>5. \A c \in Cores, s \in Tags :
          /\ HasIt(c, s)' <=> HasIt(c, s)
          /\ s # t => has'[c][s] = has[c][s]
    BY ZenonT(60), <1>1, <1>3 DEF Inv, TypeOK, HasIt
<1>6. \A s \in Tags : HomeInv(s)'
    <2> SUFFICES ASSUME NEW s \in Tags PROVE HomeInv(s)'
        OBVIOUS
    <2>1. HomeInv(s) /\ (pc[s] = "store" => home[s] \in Cores /\ s # t)
        BY ZenonT(60), <1>1 DEF Inv, StateInv, CallInv
    <2> QED
        BY ZenonT(60), <1>2, <1>5, <2>1 DEF HomeInv
<1>7. StateInv'
    BY ZenonT(60), <1>1, <1>2, <1>6 DEF StateInv
<1>8. \A s \in Tags : CallInv(s)' /\ OptionInv(s)'
    BY ZenonT(60), <1>2 DEF Inv, CallInv, OptionInv
<1> QED
    BY ZenonT(60), <1>4, <1>7, <1>8 DEF Inv

-----------------------------------------------------------------------------
(* Every step preserves the invariant, *)
LEMMA SelectorStep == Inv /\ [Next]_vars => Inv'
<1> SUFFICES ASSUME Inv, [Next]_vars PROVE Inv'
    OBVIOUS
<1>1. CASE Start \/ Close
    BY ZenonT(60), <1>1, StateStepInv
<1>2. CASE \E t \in Tags, type \in NodeTypes : AddNode(t, type)
    BY ZenonT(60), <1>2, AddNodeInv
<1>3. CASE \E t \in Tags : StoreNode(t)
    BY ZenonT(60), <1>3, StoreNodeInv
<1>4. CASE \E t \in Tags : DelNode(t)
    BY ZenonT(60), <1>4, DelNodeInv
<1>5. CASE \E t \in Tags : ForgetNode(t)
    BY ZenonT(60), <1>5, ForgetNodeInv
<1>6. CASE \E t \in Tags, users \in SUBSET Users :
              AddUsers(t, users) \/ DelUsers(t, users)
    BY ZenonT(60), <1>6, UsersInv
<1>7. CASE UNCHANGED vars
    BY <1>7 DEF vars, Inv, TypeOK, StateInv, CallInv, OptionInv, HomeInv,
        HasIt
<1> QED
    BY ZenonT(60), <1>1, <1>2, <1>3, <1>4, <1>5, <1>6, <1>7 DEF Next

(* so it holds in every reachable state. *)
THEOREM SelectorInvariant == Spec => []Inv
BY InitInv, SelectorStep, PTL DEF Spec

(* The selector's map, the cores and the options keep their types. *)
THEOREM SelectorTypeCorrect == Spec => []TypeOK
<1>1. Inv => TypeOK
    BY ZenonT(60) DEF Inv
<1> QED
    BY SelectorInvariant, <1>1, PTL

(* Between two calls of its controller a node is in the core that s.nodes  *)
(* names and in no other, for any number of nodes and cores.               *)
THEOREM NodeHasOneHome == Spec => []OneHome
<1>1. Inv => OneHome
    <2> SUFFICES ASSUME Inv, state = "started", NEW t \in Tags, pc[t] = "idle"
                 PROVE  {c \in Cores : has[c][t] # None} = {nodes[t]} \ {None}
        BY ZenonT(60) DEF OneHome
    <2>1. \A c \in Cores : has[c][t] # None <=> c = nodes[t]
        BY ZenonT(60) DEF Inv, StateInv, HomeInv, HasIt
    <2>2. nodes[t] \in Cores \cup {None}
        BY ZenonT(60) DEF Inv, TypeOK
    <2> QED
        BY <2>1, <2>2, CoreAssumption
<1> QED
    BY SelectorInvariant, <1>1, PTL

(* A core is only ever given options that were decoded for its type, unless *)
(* the file gives a Core that is no type or is not the type of CoreName.    *)
THEOREM OptionsOfTheRightType == Spec => []OptionsMatchCore
<1>1. Inv => OptionsMatchCore
    BY ZenonT(60) DEF Inv, OptionInv, OptionsMatchCore
<1> QED
    BY SelectorInvariant, <1>1, PTL

-----------------------------------------------------------------------------
(* What the mapping shows under a tag depends on that tag only. *)
LEMMA ServedAt ==
    ASSUME NEW t \in Tags
    PROVE  Served[t] = IF nodes[t] = None THEN None ELSE has[nodes[t]][t]
    BY ZenonT(60) DEF Served

(* Every step of the selector is a step of the abstract core or changes    *)
(* nothing of what it shows.                                               *)
LEMMA StepRefines == Inv /\ [Next]_vars => [Abstract!Next]_Served
<1> SUFFICES ASSUME Inv, [Next]_vars PROVE [Abstract!Next]_Served
    OBVIOUS
<1> USE DEF Abstract!Next
<1>1. CASE Close
    <2>1. Served' = Abstract!Empty
        BY ZenonT(60), <1>1 DEF Close, Served, Abstract!Empty, Inv, TypeOK
    <2> QED
        BY ZenonT(60), <2>1 DEF Abstract!Close
<1>2. CASE Start \/ UNCHANGED vars
    BY ZenonT(60), <1>2 DEF Start, Served, vars
<1>3. ASSUME NEW t \in Tags, NEW type \in NodeTypes, AddNode(t, type)
      PROVE  UNCHANGED Served
    <2>1. nodes' = nodes /\ nodes[t] = None
        BY ZenonT(60), <1>3 DEF AddNode
    <2>2. \A c \in Cores, s \in Tags \ {t} : has'[c][s] = has[c][s]
        BY <1>3 DEF AddNode, CoreAddNode, Inv, TypeOK
    <2> QED
        BY ZenonT(60), <2>1, <2>2 DEF Served, Inv, TypeOK
<1>4. ASSUME NEW t \in Tags, StoreNode(t) PROVE [Abstract!Next]_Served
    <2>1. nodes[t] = None /\ home[t] \in Cores /\ has' = has
        BY ZenonT(60), <1>4 DEF StoreNode, Inv, CallInv
    <2>2. nodes' = [nodes EXCEPT ![t] = home[t]]
        BY ZenonT(60), <1>4 DEF StoreNode
    <2>3. Served' = [Served EXCEPT ![t] = has[home[t]][t]]
        BY ZenonT(60), <2>1, <2>2, CoreAssumption DEF Served, Inv, TypeOK
    <2>4. CASE state = "started"
        <3>1. has[home[t]][t] = {}
            BY ZenonT(60), <1>4, <2>4 DEF StoreNode, Inv, StateInv, HomeInv
        <3>2. Abstract!AddNode(t)
            BY ZenonT(60), <2>1, <2>3, <3>1, ServedAt DEF Abstract!AddNode
        <3> QED
            BY ZenonT(60), <3>2
    <2>5. CASE state # "started"
        <3>1. has[home[t]][t] = None
            BY ZenonT(60), <2>1, <2>5 DEF Inv, StateInv, HasIt
        <3> QED
            BY ZenonT(60), <2>1, <2>3, <3>1 DEF Served
    <2> QED
        BY ZenonT(60), <2>4, <2>5
<1>5. ASSUME NEW t \in Tags, DelNode(t) PROVE [Abstract!Next]_Served
    <2>1. nodes[t] \in Cores /\ nodes' = nodes /\ has[nodes[t]][t] # None
        BY ZenonT(60), <1>5 DEF DelNode, Call, Inv, TypeOK, StateInv, HomeInv, HasIt
    <2>2. has' \in {has, [has EXCEPT ![nodes[t]][t] = None]}
        BY ZenonT(60), <1>5 DEF DelNode, CoreDelNode
    <2>3. CASE has' = has
        BY ZenonT(60), <2>1, <2>3 DEF Served
    <2>4. CASE has' = [has EXCEPT ![nodes[t]][t] = None]
        <3>1. Served' = [Served EXCEPT ![t] = None]
            BY ZenonT(60), <2>1, <2>4 DEF Served, Inv, TypeOK
        <3>2. Abstract!DelNode(t)
            BY ZenonT(60), <2>1, <3>1, ServedAt, CoreAssumption DEF Abstract!DelNode
        <3> QED
            BY ZenonT(60), <3>2
    <2> QED
        BY ZenonT(60), <2>2, <2>3, <2>4
<1>6. ASSUME NEW t \in Tags, ForgetNode(t) PROVE UNCHANGED Served
    <2>1. nodes[t] \in Cores
        BY ZenonT(60), <1>6 DEF ForgetNode, Inv, CallInv, TypeOK
    <2>2. has[nodes[t]][t] = None
        BY ZenonT(60), <1>6, <2>1 DEF ForgetNode, Inv, StateInv, HomeInv, HasIt
    <2> QED
        BY ZenonT(60), <1>6, <2>2 DEF ForgetNode, Served, Inv, TypeOK
<1>7. ASSUME NEW t \in Tags, NEW users \in SUBSET Users,
             AddUsers(t, users) \/ DelUsers(t, users)
      PROVE  Abstract!AddUsers(t, users) \/ Abstract!DelUsers(t, users)
    <2>1. nodes[t] \in Cores /\ nodes' = nodes /\ has[nodes[t]][t] # None
        BY ZenonT(60), <1>7 DEF AddUsers, DelUsers, Call, Inv, TypeOK, StateInv, HomeInv, HasIt
    <2>2. Served[t] = has[nodes[t]][t] /\ Served[t] # None
        BY ZenonT(60), <2>1, ServedAt, CoreAssumption
    <2>3. CASE AddUsers(t, users)
        <3>1. has' = [has EXCEPT ![nodes[t]][t] = Served[t] \cup users]
            BY ZenonT(60), <2>1, <2>2, <2>3 DEF AddUsers
        <3>2. Served' = [Served EXCEPT ![t] = Served[t] \cup users]
            BY ZenonT(60), <2>1, <3>1, CoreAssumption DEF Served, Inv, TypeOK
        <3> QED
            BY ZenonT(60), <2>2, <3>2 DEF Abstract!AddUsers
    <2>4. CASE DelUsers(t, users)
        <3>1. has' = [has EXCEPT ![nodes[t]][t] = Served[t] \ users]
            BY ZenonT(60), <2>1, <2>2, <2>4 DEF DelUsers
        <3>2. Served' = [Served EXCEPT ![t] = Served[t] \ users]
            BY ZenonT(60), <2>1, <3>1, CoreAssumption DEF Served, Inv, TypeOK
        <3> QED
            BY ZenonT(60), <2>2, <3>2 DEF Abstract!DelUsers
    <2> QED
        BY ZenonT(60), <1>7, <2>3, <2>4
<1> QED
    BY ZenonT(60), <1>1, <1>2, <1>3, <1>4, <1>5, <1>6, <1>7 DEF Next

(* For any nodes and cores, the selector implements the abstract Core: each *)
(* call acts on the node of its own tag, in the core that has it.           *)
THEOREM SelectorImplementsCore == Spec => ActsAsOneCore
<1>1. Init => Abstract!Init
    BY ZenonT(60) DEF Init, Served, Abstract!Init, Abstract!Empty
<1> QED
    BY <1>1, SelectorInvariant, StepRefines, PTL DEF Spec, ActsAsOneCore, Abstract!Spec

-----------------------------------------------------------------------------
Steps == {"off", "publish", "published", "compile", "assigned", "cert", "addNode",
          "store", "addUsers", "up", "moreUsers", "updateUser", "forget",
          "dropLimiter", "addLimiter", "down", "remove"}
\* The steps at which the core may have the node.
Up == {"store", "addUsers", "up", "moreUsers", "updateUser"}
Header == [arr : Nat, len : Nat]

(* The controllers' part of the state is well typed, the limiters' too, *)
CtlType ==
    /\ life \in [Tags -> {"off", "starting", "running", "closing", "closed"}]
    /\ step \in [Tags -> Steps]
    /\ info \in [Tags -> RuleSets \cup {None}]
    /\ userList \in [Tags -> SUBSET Users] /\ newList \in [Tags -> SUBSET Users]
LimType ==
    /\ reg \in [Tags -> Nat] /\ held \in [Tags -> Nat]
    /\ knows \in [Tags -> Seq(SUBSET Users)]
    /\ slices \in [Tags -> Seq([Kinds -> Header])]
    /\ arrays \in [Tags -> Seq(RuleSets)]
    /\ filled \in [Tags -> Nat]
NodeType == CtlType /\ LimType

(* What the controller of t has done so far. *)
Begun(t) ==
    /\ life[t] \in {"off", "closed"} <=> step[t] = "off"
    /\ Len(knows[t]) = Len(slices[t]) /\ held[t] <= Len(slices[t])
    /\ step[t] # "off" => info[t] \in RuleSets /\ held[t] # 0
    /\ (life[t] # "closing" /\ step[t] \notin {"off", "addLimiter"}) => reg[t] = held[t]

(* The last array is that of the rules, and published so far. *)
Published(t) ==
    /\ step[t] \in Up \cup {"published", "compile", "assigned", "cert", "addNode"} =>
          Len(arrays[t]) # 0 /\ arrays[t][Len(arrays[t])] = info[t]
    /\ step[t] \in Up \cup {"compile", "assigned", "cert", "addNode"} =>
          slices[t][held[t]]["domain"] = [arr |-> Len(arrays[t]), len |-> Len(info[t]["domain"])]
    /\ step[t] \in Up \cup {"assigned", "cert", "addNode"} =>
          filled[t] = Len(info[t]["domain"])
    /\ step[t] \in Up \cup {"cert", "addNode"} =>
          slices[t][held[t]]["protocol"] = [arr |-> Len(arrays[t]), len |-> Len(info[t]["protocol"])]

(* The limiter of an unnamed node was made for its users. *)
Knows(t) ==
    (t \notin named /\ step[t] \notin {"off", "forget", "dropLimiter", "addLimiter"}) =>
        knows[t][held[t]] = userList[t]

NotInCore(t) == step[t] \notin Up => \A core \in Cores : has[core][t] = None

NodeInv(t) == Begun(t) /\ Published(t) /\ Knows(t) /\ NotInCore(t)

USE CoreAssumption, ConnAssumption

-----------------------------------------------------------------------------
\* A step leaves what NodeInv says of t alone.
SameNode(t) ==
    /\ life'[t] = life[t] /\ step'[t] = step[t] /\ info'[t] = info[t]
    /\ userList'[t] = userList[t] /\ named' = named
    /\ reg'[t] = reg[t] /\ held'[t] = held[t] /\ knows'[t] = knows[t]
    /\ slices'[t] = slices[t] /\ arrays'[t] = arrays[t] /\ filled'[t] = filled[t]
    /\ \A core \in Cores : has[core][t] = None => has'[core][t] = None

LEMMA OtherNode == ASSUME NEW t \in Tags, NodeInv(t), SameNode(t) PROVE NodeInv(t)'
<1>1. Begun(t)'
    BY ZenonT(60) DEF NodeInv, Begun, SameNode
<1>2. Published(t)'
    BY ZenonT(60) DEF NodeInv, Published, SameNode
<1>3. Knows(t)' /\ NotInCore(t)'
    BY ZenonT(60) DEF NodeInv, Knows, NotInCore, SameNode
<1> QED
    BY ZenonT(60), <1>1, <1>2, <1>3 DEF NodeInv

(* The selector's operations leave the nodes of other tags alone. *)
LEMMA HasOther ==
    ASSUME TypeOK, NEW t \in Tags, NEW u \in Tags \ {t},
           \/ \E type \in NodeTypes : AddNode(t, type)
           \/ DelNode(t)
           \/ \E users \in SUBSET Users : AddUsers(t, users) \/ DelUsers(t, users)
    PROVE  \A core \in Cores : has'[core][u] = has[core][u]
<1>1. has' = has \/ \E k \in Cores : \E x : has' = [has EXCEPT ![k][t] = x]
    <2>1. CASE \E type \in NodeTypes : AddNode(t, type)
        <3>1. \A type \in NodeTypes : Candidates(t, type) \subseteq Cores
            BY DEF Candidates
        <3>2. PICK type \in NodeTypes : AddNode(t, type)
            BY ZenonT(60), <2>1
        <3>3. \/ has' = has
              \/ \E k \in Candidates(t, type) : CoreAddNode(k, t, TRUE) \/ CoreAddNode(k, t, FALSE)
            BY ZenonT(60), <3>2 DEF AddNode
        <3> QED
            BY ZenonT(60), <3>1, <3>3 DEF CoreAddNode
    <2>2. CASE DelNode(t)
        BY ZenonT(60), <2>2 DEF DelNode, CoreDelNode, TypeOK
    <2>3. CASE \E users \in SUBSET Users : AddUsers(t, users) \/ DelUsers(t, users)
        BY ZenonT(60), <2>3 DEF AddUsers, DelUsers, TypeOK
    <2> QED
        BY ZenonT(60), <2>1, <2>2, <2>3
<1>2. has \in [Cores -> [Tags -> (SUBSET Users) \cup {None}]]
    BY ZenonT(60) DEF TypeOK
<1> QED
    BY <1>1, <1>2

(* Changing the users neither adds nor removes a node. *)
LEMMA UsersSame ==
    ASSUME TypeOK, NEW t \in Tags, NEW users \in SUBSET Users,
           AddUsers(t, users) \/ DelUsers(t, users), NEW u \in Tags, NEW core \in Cores,
           has[core][u] = None
    PROVE  has'[core][u] = None
<1>1. /\ nodes[t] \in Cores
      /\ has \in [Cores -> [Tags -> (SUBSET Users) \cup {None}]]
    BY ZenonT(60) DEF TypeOK, AddUsers, DelUsers
<1>2. CASE nodes[t] = core /\ t = u
    BY <1>1, <1>2 DEF AddUsers, DelUsers
<1>3. CASE ~(nodes[t] = core /\ t = u)
    BY <1>1, <1>3 DEF AddUsers, DelUsers
<1> QED
    BY ZenonT(60), <1>2, <1>3

(* A DelNode that succeeds leaves the node in no core. *)
LEMMA DelNodeGone ==
    ASSUME Inv, NEW t \in Tags, DelNode(t), pc'[t] # "lost", NEW core \in Cores
    PROVE  has'[core][t] = None
<1>1. /\ pc[t] = "idle" /\ state = "started" /\ nodes[t] \in Cores
      /\ has \in [Cores -> [Tags -> (SUBSET Users) \cup {None}]] /\ pc \in [Tags -> {"idle", "store", "forget", "lost"}]
    BY ZenonT(60) DEF DelNode, Call, Inv, TypeOK
<1>2. HasIt(core, t) <=> core = nodes[t]
    BY ZenonT(60), <1>1 DEF Inv, StateInv, HomeInv
<1>3. has' = [has EXCEPT ![nodes[t]][t] = None]
    BY ZenonT(60), <1>1 DEF DelNode, CoreDelNode, Goto
<1> QED
    BY ZenonT(60), <1>1, <1>2, <1>3 DEF HasIt

-----------------------------------------------------------------------------
\* A step of the controller of t keeps the invariant of the nodes.
Kept(t) ==
    /\ NodeType'
    /\ Alive' => NodeInv(t)'
    /\ \A u \in Tags \ {t} : SameNode(u)

LEMMA HalfHeader ==
    ASSUME NEW old \in Header, NEW a \in Nat, NEW l \in Nat
    PROVE  [old EXCEPT !.arr = a] \in Header /\ [old EXCEPT !.len = l] \in Header
BY ZenonT(60) DEF Header

(* A new header changes nothing else. *)
LEMMA SliceWrite ==
    ASSUME NEW s \in Seq([Kinds -> Header]), NEW g \in 1..Len(s), NEW k \in Kinds,
           NEW h \in Header
    PROVE  LET w == [s EXCEPT ![g][k] = h]
           IN  /\ w \in Seq([Kinds -> Header]) /\ Len(w) = Len(s) /\ w[g][k] = h
               /\ \A j \in Kinds \ {k} : w[g][j] = s[g][j]
<1>1. s[g] \in [Kinds -> Header]
    OBVIOUS
<1>2. [s[g] EXCEPT ![k] = h] \in [Kinds -> Header]
    BY ZenonT(60), <1>1
<1>3. [s EXCEPT ![g] = [s[g] EXCEPT ![k] = h]] \in Seq([Kinds -> Header])
    BY <1>2
<1> QED
    BY <1>1, <1>3

(* AddLimiter appends a limiter that knows the users and has no rules. *)
LEMMA AddLimiterStep ==
    ASSUME NodeType, NEW t \in Tags, NodeInv(t), NEW users \in SUBSET Users,
           AddLimiter(t, users)
    PROVE  /\ reg' \in [Tags -> Nat] /\ held' \in [Tags -> Nat]
           /\ knows' \in [Tags -> Seq(SUBSET Users)]
           /\ slices' \in [Tags -> Seq([Kinds -> Header])]
           /\ UNCHANGED <<arrays, filled>>
           /\ held'[t] = Len(slices'[t]) /\ held'[t] # 0 /\ reg'[t] = held'[t]
           /\ Len(knows'[t]) = Len(slices'[t]) /\ knows'[t][held'[t]] = users
           /\ \A u \in Tags \ {t} :
                 /\ reg'[u] = reg[u] /\ held'[u] = held[u]
                 /\ knows'[u] = knows[u] /\ slices'[u] = slices[u]
<1>1. /\ knows \in [Tags -> Seq(SUBSET Users)] /\ slices \in [Tags -> Seq([Kinds -> Header])]
      /\ reg \in [Tags -> Nat] /\ held \in [Tags -> Nat]
      /\ Len(knows[t]) = Len(slices[t])
    BY ZenonT(60) DEF NodeType, LimType, NodeInv, Begun
<1>2. [k \in Kinds |-> NilSlice] \in [Kinds -> Header]
    BY ZenonT(60) DEF NilSlice, Header
<1> DEFINE none == [k \in Kinds |-> NilSlice]
<1> HIDE DEF none
<1>3. /\ knows' = [knows EXCEPT ![t] = Append(knows[t], users)]
      /\ slices' = [slices EXCEPT ![t] = Append(slices[t], none)]
      /\ reg' = [reg EXCEPT ![t] = Len(knows[t]) + 1]
      /\ held' = [held EXCEPT ![t] = Len(knows[t]) + 1]
      /\ UNCHANGED <<arrays, filled>>
    BY ZenonT(60) DEF AddLimiter, none
<1>4. none \in [Kinds -> Header]
    BY ZenonT(60), <1>2 DEF none
<1> QED
    BY SMTT(30), <1>1, <1>3, <1>4

LEMMA StartNodeKept ==
    ASSUME NodeType, NEW t \in Tags, NodeInv(t), StartNode(t) PROVE Kept(t)
<1>1. PICK rules \in RuleSets, users \in UserSets :
          /\ info' = [info EXCEPT ![t] = rules]
          /\ userList' = [userList EXCEPT ![t] = users]
          /\ AddLimiter(t, users)
    BY ZenonT(60) DEF StartNode
<1>2. users \in SUBSET Users
    OBVIOUS
<1>3. /\ life' = [life EXCEPT ![t] = "starting"] /\ step' = [step EXCEPT ![t] = "publish"]
      /\ life[t] = "off" /\ has' = has /\ UNCHANGED <<newList, named>>
    BY ZenonT(60) DEF StartNode, GoOn, vars
<1>4. /\ reg' \in [Tags -> Nat] /\ held' \in [Tags -> Nat]
      /\ knows' \in [Tags -> Seq(SUBSET Users)]
      /\ slices' \in [Tags -> Seq([Kinds -> Header])]
      /\ UNCHANGED <<arrays, filled>>
    BY ZenonT(60), <1>1, <1>2, AddLimiterStep
<1>5. /\ held'[t] = Len(slices'[t]) /\ held'[t] # 0 /\ reg'[t] = held'[t]
      /\ Len(knows'[t]) = Len(slices'[t]) /\ knows'[t][held'[t]] = users
      /\ \A u \in Tags \ {t} :
            /\ reg'[u] = reg[u] /\ held'[u] = held[u]
            /\ knows'[u] = knows[u] /\ slices'[u] = slices[u]
    BY ZenonT(60), <1>1, <1>2, AddLimiterStep
<1>6. NodeType'
    BY ZenonT(60), <1>1, <1>2, <1>3, <1>4 DEF NodeType, CtlType, LimType, Steps
<1>7. \A u \in Tags \ {t} : SameNode(u)
    BY ZenonT(60), <1>1, <1>3, <1>4, <1>5 DEF SameNode, NodeType, CtlType
<1>8. Begun(t)' /\ Knows(t)'
    BY <1>1, <1>3, <1>4, <1>5 DEF NodeType, CtlType, LimType, Begun, Knows
<1>9. NotInCore(t)' /\ Published(t)'
    BY ZenonT(60), <1>3 DEF NodeType, CtlType, Begun, NotInCore, NodeInv, Published, Up
<1> QED
    BY ZenonT(60), <1>6, <1>7, <1>8, <1>9 DEF Kept, NodeInv

LEMMA UpdateType ==
    ASSUME NEW D, NEW S, NEW f \in [D -> S], NEW d \in D, NEW x \in S
    PROVE  [f EXCEPT ![d] = x] \in [D -> S]
OBVIOUS

LEMMA WriteSlice ==
    ASSUME LimType, NEW t \in Tags, held[t] \in 1..Len(slices[t]), NEW k \in Kinds,
           NEW h \in Header, slices' = [slices EXCEPT ![t][held[t]][k] = h]
    PROVE  /\ slices' \in [Tags -> Seq([Kinds -> Header])]
           /\ Len(slices'[t]) = Len(slices[t]) /\ slices'[t][held[t]][k] = h
           /\ \A j \in Kinds \ {k} : slices'[t][held[t]][j] = slices[t][held[t]][j]
           /\ \A u \in Tags \ {t} : slices'[u] = slices[u]
<1> DEFINE w == [slices[t] EXCEPT ![held[t]][k] = h]
<1>1. slices \in [Tags -> Seq([Kinds -> Header])]
    BY ZenonT(60) DEF LimType
<1>2. slices' = [slices EXCEPT ![t] = w]
    BY ZenonT(60), <1>1
<1>3. /\ w \in Seq([Kinds -> Header]) /\ Len(w) = Len(slices[t]) /\ w[held[t]][k] = h
      /\ \A j \in Kinds \ {k} : w[held[t]][j] = slices[t][held[t]][j]
    BY <1>1, SliceWrite
<1> DEFINE S == Seq([Kinds -> Header])
<1> HIDE DEF w, S
<1>4. slices'[t] = w /\ \A u \in Tags \ {t} : slices'[u] = slices[u]
    BY ZenonT(60), <1>1, <1>2
<1>5. slices \in [Tags -> S] /\ w \in S
    BY ZenonT(60), <1>1, <1>3 DEF S
<1>6. slices' \in [Tags -> S]
    <2>1. [slices EXCEPT ![t] = w] \in [Tags -> S]
        BY ZenonT(60), <1>5, UpdateType
    <2> QED
        BY ZenonT(60), <1>2, <2>1
<1> QED
    BY ZenonT(60), <1>3, <1>4, <1>6 DEF S

(* The limiter of a node that has begun is there. *)
LEMMA HeldThere ==
    ASSUME NodeType, NEW t \in Tags, NodeInv(t), step[t] # "off"
    PROVE  held[t] \in 1..Len(slices[t]) /\ info[t] \in RuleSets
BY DEF NodeType, LimType, NodeInv, Begun

LEMMA PublishRulesKept ==
    ASSUME NodeType, NEW t \in Tags, NodeInv(t), PublishRules(t) PROVE Kept(t)
<1>1. /\ step[t] = "publish" /\ step' = [step EXCEPT ![t] = "published"]
      /\ has' = has /\ UNCHANGED <<life, info, userList, newList, named, reg, held, knows>>
      /\ arrays' = [arrays EXCEPT ![t] = Append(arrays[t], info[t])]
      /\ filled' = [filled EXCEPT ![t] = 0]
      /\ HalfWritten(t, "domain", Len(arrays[t]) + 1, Len(info[t]["domain"]))
    BY ZenonT(60) DEF PublishRules, GoOn, vars, infoVars
<1>2. /\ held[t] \in 1..Len(slices[t]) /\ info[t] \in RuleSets /\ "domain" \in Kinds
      /\ Len(info[t]["domain"]) \in Nat
    BY ZenonT(60), <1>1, HeldThere DEF Kinds
<1>3. PICK h \in Header : slices' = [slices EXCEPT ![t][held[t]]["domain"] = h]
    <2>1. slices[t][held[t]]["domain"] \in Header /\ Len(arrays[t]) + 1 \in Nat
        BY <1>2 DEF NodeType, LimType
    <2> DEFINE old == slices[t][held[t]]["domain"]
    <2>2. /\ [old EXCEPT !.arr = Len(arrays[t]) + 1] \in Header
          /\ [old EXCEPT !.len = Len(info[t]["domain"])] \in Header
        BY ZenonT(60), <1>2, <2>1, HalfHeader
    <2> QED
        BY ZenonT(60), <1>1, <2>2 DEF HalfWritten
<1>4. /\ slices' \in [Tags -> Seq([Kinds -> Header])] /\ Len(slices'[t]) = Len(slices[t])
      /\ \A u \in Tags \ {t} : slices'[u] = slices[u]
    BY ZenonT(60), <1>2, <1>3, WriteSlice DEF NodeType
<1>5. /\ arrays' \in [Tags -> Seq(RuleSets)] /\ filled' \in [Tags -> Nat]
      /\ Len(arrays'[t]) # 0 /\ arrays'[t][Len(arrays'[t])] = info[t]
      /\ \A u \in Tags \ {t} : arrays'[u] = arrays[u] /\ filled'[u] = filled[u]
    BY <1>1, <1>2 DEF NodeType, LimType
<1>6. NodeType'
    BY ZenonT(60), <1>1, <1>4, <1>5 DEF NodeType, CtlType, LimType, Steps
<1>7. \A u \in Tags \ {t} : SameNode(u)
    BY ZenonT(60), <1>1, <1>4, <1>5 DEF SameNode, NodeType, CtlType
<1>8. Begun(t)' /\ Knows(t)' /\ NotInCore(t)'
    BY ZenonT(60), <1>1, <1>4 DEF NodeType, CtlType, NodeInv, Begun, Knows, NotInCore, Up
<1>9. Published(t)'
    BY ZenonT(60), <1>1, <1>5 DEF NodeType, CtlType, Published, Up
<1> QED
    BY ZenonT(60), <1>6, <1>7, <1>8, <1>9 DEF Kept, NodeInv

LEMMA RulesPublishedKept ==
    ASSUME NodeType, NEW t \in Tags, NodeInv(t),
           RulesPublished(t) \/ ProtocolsAssigned(t)
    PROVE  Kept(t)
<1> DEFINE k == IF RulesPublished(t) THEN "domain" ELSE "protocol"
           next == IF RulesPublished(t) THEN "compile" ELSE "cert"
           h == [arr |-> Len(arrays[t]), len |-> Len(info[t][k])]
<1>1. /\ step[t] = IF RulesPublished(t) THEN "published" ELSE "assigned"
      /\ step' = [step EXCEPT ![t] = next] /\ has' = has
      /\ UNCHANGED <<life, info, userList, newList, named, reg, held, knows, arrays, filled>>
      /\ slices' = [slices EXCEPT ![t][held[t]][k] = h]
    BY ZenonT(60) DEF RulesPublished, ProtocolsAssigned, GoOn, vars, infoVars, Written
<1>2. /\ held[t] \in 1..Len(slices[t]) /\ info[t] \in RuleSets /\ k \in Kinds
    BY ZenonT(60), <1>1, HeldThere DEF Kinds
<1>3. h \in Header
    <2>1. Len(arrays[t]) \in Nat
        BY DEF NodeType, LimType
    <2>2. Len(info[t][k]) \in Nat
        BY ZenonT(60), <1>2
    <2> QED
        BY ZenonT(60), <2>1, <2>2 DEF Header
<1> HIDE DEF h, k
<1>4. /\ slices' \in [Tags -> Seq([Kinds -> Header])] /\ Len(slices'[t]) = Len(slices[t])
      /\ slices'[t][held[t]][k] = h
      /\ \A j \in Kinds \ {k} : slices'[t][held[t]][j] = slices[t][held[t]][j]
      /\ \A u \in Tags \ {t} : slices'[u] = slices[u]
    BY ZenonT(60), <1>1, <1>2, <1>3, WriteSlice DEF NodeType
<1>6. NodeType'
    BY ZenonT(60), <1>1, <1>4 DEF NodeType, CtlType, LimType, Steps
<1>7. \A u \in Tags \ {t} : SameNode(u)
    BY ZenonT(60), <1>1, <1>4 DEF SameNode, NodeType, CtlType
<1>8. Begun(t)' /\ Knows(t)' /\ NotInCore(t)'
    BY ZenonT(60), <1>1, <1>4 DEF NodeType, CtlType, NodeInv, Begun, Knows, NotInCore, Up
<1>9. Published(t)'
    BY ZenonT(60), <1>1, <1>4 DEF NodeType, CtlType, NodeInv, Published, Up, Kinds, h, k
<1> QED
    BY ZenonT(60), <1>6, <1>7, <1>8, <1>9 DEF Kept, NodeInv

LEMMA AssignProtocolsKept ==
    ASSUME NodeType, NEW t \in Tags, NodeInv(t), AssignProtocols(t) PROVE Kept(t)
<1>1. /\ step[t] = "compile" /\ step' = [step EXCEPT ![t] = "assigned"]
      /\ filled[t] = Len(info[t]["domain"]) /\ has' = has
      /\ UNCHANGED <<life, info, userList, newList, named, reg, held, knows, arrays, filled>>
      /\ HalfWritten(t, "protocol", Len(arrays[t]), Len(info[t]["protocol"]))
    BY ZenonT(60) DEF AssignProtocols, GoOn, vars, infoVars
<1>2. /\ held[t] \in 1..Len(slices[t]) /\ info[t] \in RuleSets
      /\ "protocol" \in Kinds /\ "domain" \in Kinds \ {"protocol"}
      /\ Len(info[t]["protocol"]) \in Nat
    BY ZenonT(60), <1>1, HeldThere DEF Kinds
<1>3. PICK h \in Header : slices' = [slices EXCEPT ![t][held[t]]["protocol"] = h]
    <2> DEFINE old == slices[t][held[t]]["protocol"]
    <2>1. old \in Header /\ Len(arrays[t]) \in Nat
        BY <1>2 DEF NodeType, LimType
    <2>2. /\ [old EXCEPT !.arr = Len(arrays[t])] \in Header
          /\ [old EXCEPT !.len = Len(info[t]["protocol"])] \in Header
        BY ZenonT(60), <1>2, <2>1, HalfHeader
    <2> QED
        BY ZenonT(60), <1>1, <2>2 DEF HalfWritten
<1>4. /\ slices' \in [Tags -> Seq([Kinds -> Header])] /\ Len(slices'[t]) = Len(slices[t])
      /\ \A j \in Kinds \ {"protocol"} : slices'[t][held[t]][j] = slices[t][held[t]][j]
      /\ \A u \in Tags \ {t} : slices'[u] = slices[u]
    BY ZenonT(60), <1>2, <1>3, WriteSlice DEF NodeType
<1>6. NodeType'
    BY ZenonT(60), <1>1, <1>4 DEF NodeType, CtlType, LimType, Steps
<1>7. \A u \in Tags \ {t} : SameNode(u)
    BY ZenonT(60), <1>1, <1>4 DEF SameNode, NodeType, CtlType
<1>8. Begun(t)' /\ Knows(t)' /\ NotInCore(t)'
    BY ZenonT(60), <1>1, <1>4 DEF NodeType, CtlType, NodeInv, Begun, Knows, NotInCore, Up
<1>9. Published(t)'
    BY ZenonT(60), <1>1, <1>2, <1>4 DEF NodeType, CtlType, NodeInv, Published, Up
<1> QED
    BY ZenonT(60), <1>6, <1>7, <1>8, <1>9 DEF Kept, NodeInv

LEMMA CompileRuleKept ==
    ASSUME NodeType, NEW t \in Tags, NodeInv(t), CompileRule(t) PROVE Kept(t)
<1>1. /\ step[t] = "compile" /\ has' = has
      /\ UNCHANGED <<life, step, info, userList, newList, named, reg, held, knows, slices, arrays>>
      /\ filled' = filled \/ filled' = [filled EXCEPT ![t] = filled[t] + 1]
    BY ZenonT(60) DEF CompileRule, vars, infoVars, ctlVars
<1>5. /\ filled' \in [Tags -> Nat]
      /\ \A u \in Tags \ {t} : filled'[u] = filled[u]
    <2>1. filled \in [Tags -> Nat] /\ filled[t] + 1 \in Nat
        BY DEF NodeType, LimType
    <2> QED
        BY <1>1, <2>1
<1>2. NodeType'
    BY ZenonT(60), <1>1, <1>5 DEF NodeType, CtlType, LimType
<1>3. \A u \in Tags \ {t} : SameNode(u)
    BY ZenonT(60), <1>1, <1>5 DEF SameNode
<1>4. NodeInv(t)'
    BY ZenonT(60), <1>1 DEF NodeInv, Begun, Published, Knows, NotInCore, Up
<1> QED
    BY ZenonT(60), <1>2, <1>3, <1>4 DEF Kept

LEMMA RequestCertKept ==
    ASSUME NodeType, NEW t \in Tags, NodeInv(t), RequestCert(t) PROVE Kept(t)
<1>1. /\ step[t] = "cert" /\ has' = has
      /\ UNCHANGED <<life, info, userList, newList, named, reg, held, knows, slices, arrays, filled>>
      /\ \E s \in {"cert", "addNode", "down"} : step' = [step EXCEPT ![t] = s]
    BY ZenonT(60) DEF RequestCert, GoOn, vars, infoVars, limVars, NodeType, CtlType
<1>2. NodeType'
    BY ZenonT(60), <1>1 DEF NodeType, CtlType, LimType, Steps
<1>3. \A u \in Tags \ {t} : SameNode(u)
    BY ZenonT(60), <1>1 DEF SameNode, NodeType, CtlType
<1>4. NodeInv(t)'
    BY ZenonT(60), <1>1 DEF NodeType, CtlType, NodeInv, Begun, Published, Knows, NotInCore, Up
<1> QED
    BY ZenonT(60), <1>2, <1>3, <1>4 DEF Kept

LEMMA DropLimiterKept ==
    ASSUME NodeType, NEW t \in Tags, NodeInv(t), DropLimiter(t) PROVE Kept(t)
<1>1. /\ step[t] = "dropLimiter" /\ step' = [step EXCEPT ![t] = "addLimiter"] /\ has' = has
      /\ reg' = [reg EXCEPT ![t] = 0]
      /\ UNCHANGED <<life, info, userList, newList, named, held, knows, slices, arrays, filled>>
    BY ZenonT(60) DEF DropLimiter, DeleteLimiter, GoOn, vars, infoVars
<1>2. NodeType'
    BY ZenonT(60), <1>1 DEF NodeType, CtlType, LimType, Steps
<1>3. \A u \in Tags \ {t} : SameNode(u)
    BY ZenonT(60), <1>1 DEF SameNode, NodeType, CtlType, LimType
<1>4. NodeInv(t)'
    BY ZenonT(60), <1>1 DEF NodeType, CtlType, NodeInv, Begun, Published, Knows, NotInCore, Up
<1> QED
    BY ZenonT(60), <1>2, <1>3, <1>4 DEF Kept

LEMMA CloseNodeKept ==
    ASSUME NodeType, NEW t \in Tags, NodeInv(t), CloseNode(t) PROVE Kept(t)
<1>1. /\ life[t] = "running" /\ life' = [life EXCEPT ![t] = "closing"] /\ has' = has
      /\ reg' = [reg EXCEPT ![t] = 0]
      /\ UNCHANGED <<step, info, userList, newList, named, held, knows, slices, arrays, filled>>
    BY ZenonT(60) DEF CloseNode, DeleteLimiter, vars, infoVars
<1>2. NodeType'
    BY ZenonT(60), <1>1 DEF NodeType, CtlType, LimType
<1>3. \A u \in Tags \ {t} : SameNode(u)
    BY ZenonT(60), <1>1 DEF SameNode, NodeType, CtlType, LimType
<1>4. NodeInv(t)'
    BY ZenonT(60), <1>1 DEF NodeType, CtlType, NodeInv, Begun, Published, Knows, NotInCore, Up
<1> QED
    BY ZenonT(60), <1>2, <1>3, <1>4 DEF Kept

LEMMA RenewLimiterKept ==
    ASSUME NodeType, NEW t \in Tags, NodeInv(t), RenewLimiter(t) PROVE Kept(t)
<1>1. /\ step[t] = "addLimiter" /\ step' = [step EXCEPT ![t] = "publish"] /\ has' = has
      /\ UNCHANGED <<life, info, userList, newList, named>> /\ AddLimiter(t, userList[t])
    BY ZenonT(60) DEF RenewLimiter, GoOn, vars, infoVars
<1>2. userList[t] \in SUBSET Users
    BY ZenonT(60) DEF NodeType, CtlType
<1>4. /\ reg' \in [Tags -> Nat] /\ held' \in [Tags -> Nat]
      /\ knows' \in [Tags -> Seq(SUBSET Users)]
      /\ slices' \in [Tags -> Seq([Kinds -> Header])]
      /\ UNCHANGED <<arrays, filled>>
    BY ZenonT(60), <1>1, <1>2, AddLimiterStep
<1>5. /\ held'[t] = Len(slices'[t]) /\ held'[t] # 0 /\ reg'[t] = held'[t]
      /\ Len(knows'[t]) = Len(slices'[t]) /\ knows'[t][held'[t]] = userList[t]
      /\ \A u \in Tags \ {t} :
            /\ reg'[u] = reg[u] /\ held'[u] = held[u]
            /\ knows'[u] = knows[u] /\ slices'[u] = slices[u]
    BY ZenonT(60), <1>1, <1>2, AddLimiterStep
<1>6. NodeType'
    BY ZenonT(60), <1>1, <1>4 DEF NodeType, CtlType, LimType, Steps
<1>7. \A u \in Tags \ {t} : SameNode(u)
    BY ZenonT(60), <1>1, <1>4, <1>5 DEF SameNode, NodeType, CtlType
<1>8. held'[t] <= Len(slices'[t])
    BY <1>4, <1>5
<1>9. NodeInv(t)'
    BY ZenonT(60), <1>1, <1>5, <1>8 DEF NodeType, CtlType, NodeInv, Begun, Published, Knows, NotInCore, Up
<1> QED
    BY ZenonT(60), <1>6, <1>7, <1>9 DEF Kept

LEMMA UpdateUserKept ==
    ASSUME NodeType, NEW t \in Tags, NodeInv(t), UpdateUser(t) PROVE Kept(t)
<1> DEFINE g == held[t]
           users == (knows[t][g] \ (userList[t] \ newList[t])) \cup (newList[t] \ userList[t])
<1>1. /\ step[t] = "updateUser" /\ step' = [step EXCEPT ![t] = "up"] /\ has' = has
      /\ userList' = [userList EXCEPT ![t] = newList[t]]
      /\ UNCHANGED <<life, info, newList, named, reg, held, slices, arrays, filled>>
      /\ knows' = [knows EXCEPT ![t] = [knows[t] EXCEPT ![g] = users]]
    BY ZenonT(60) DEF UpdateUser, GoOn, vars
<1>2. /\ knows[t] \in Seq(SUBSET Users) /\ userList[t] \in SUBSET Users
      /\ newList[t] \in SUBSET Users /\ g \in Nat
      /\ Len(knows[t]) = Len(slices[t]) /\ g \in 1..Len(knows[t])
    BY <1>1 DEF NodeType, CtlType, LimType, NodeInv, Begun
<1>3. users \in SUBSET Users /\ (t \notin named => users = newList[t])
    BY <1>1, <1>2 DEF NodeInv, Knows
<1> HIDE DEF g, users
<1>4. DEFINE k == [knows[t] EXCEPT ![g] = users]
<1>5. k \in Seq(SUBSET Users) /\ Len(k) = Len(knows[t]) /\ k[g] = users
    BY <1>2, <1>3
<1> HIDE DEF k
<1>6. /\ knows' \in [Tags -> Seq(SUBSET Users)] /\ knows'[t] = k
      /\ \A u \in Tags \ {t} : knows'[u] = knows[u]
    BY ZenonT(60), <1>1, <1>5 DEF k, NodeType, LimType
<1>7. NodeType'
    BY ZenonT(60), <1>1, <1>2, <1>6 DEF NodeType, CtlType, LimType, Steps
<1>8. \A u \in Tags \ {t} : SameNode(u)
    BY ZenonT(60), <1>1, <1>6 DEF SameNode, NodeType, CtlType
<1>9. Begun(t)' /\ Knows(t)'
    <2>1. step'[t] = "up" /\ userList'[t] = newList[t] /\ Len(knows'[t]) = Len(slices[t])
        BY ZenonT(60), <1>1, <1>2, <1>5, <1>6 DEF NodeType, CtlType
    <2>2. t \notin named => knows'[t][held[t]] = newList[t]
        BY ZenonT(60), <1>3, <1>5, <1>6 DEF g
    <2> QED
        BY ZenonT(60), <1>1, <2>1, <2>2 DEF NodeInv, Begun, Knows
<1>10. Published(t)' /\ NotInCore(t)'
    BY ZenonT(60), <1>1 DEF NodeType, CtlType, NodeInv, Published, NotInCore, Up
<1> QED
    BY ZenonT(60), <1>7, <1>8, <1>9, <1>10 DEF Kept, NodeInv

(* The steps within Up that call the selector. *)
LEMMA StoreNodeOfKept ==
    ASSUME NodeType, NEW t \in Tags, NodeInv(t), StoreNodeOf(t) PROVE Kept(t)
<1>1. /\ step[t] = "store" /\ step' = [step EXCEPT ![t] = "addUsers"] /\ has' = has
      /\ UNCHANGED <<life, info, userList, newList, named, reg, held, knows, slices, arrays, filled>>
    BY ZenonT(60) DEF StoreNodeOf, StoreNode, GoOn, infoVars, limVars
<1>2. NodeType'
    BY ZenonT(60), <1>1 DEF NodeType, CtlType, LimType, Steps
<1>3. \A u \in Tags \ {t} : SameNode(u)
    BY ZenonT(60), <1>1 DEF SameNode, NodeType, CtlType
<1>4. NodeInv(t)'
    BY ZenonT(60), <1>1 DEF NodeType, CtlType, NodeInv, Begun, Published, Knows, NotInCore, Up
<1> QED
    BY ZenonT(60), <1>2, <1>3, <1>4 DEF Kept

LEMMA AddNodeOfKept ==
    ASSUME Inv, NodeType, NEW t \in Tags, NodeInv(t), AddNodeOf(t) PROVE Kept(t)
<1>1. /\ step[t] = "addNode" /\ step' = [step EXCEPT ![t] = "store"]
      /\ \E type \in NodeTypes : AddNode(t, type)
      /\ UNCHANGED <<life, info, userList, newList, named, reg, held, knows, slices, arrays, filled>>
    BY ZenonT(60) DEF AddNodeOf, GoOn, infoVars, limVars
<1>5. \A u \in Tags \ {t} : \A core \in Cores : has'[core][u] = has[core][u]
    BY ZenonT(60), <1>1, HasOther DEF Inv
<1>2. NodeType'
    BY ZenonT(60), <1>1 DEF NodeType, CtlType, LimType, Steps
<1>3. \A u \in Tags \ {t} : SameNode(u)
    BY ZenonT(60), <1>1, <1>5 DEF SameNode, NodeType, CtlType
<1>4. NodeInv(t)'
    BY ZenonT(60), <1>1 DEF NodeType, CtlType, NodeInv, Begun, Published, Knows, NotInCore, Up
<1> QED
    BY ZenonT(60), <1>2, <1>3, <1>4 DEF Kept

LEMMA UserStepsKept ==
    ASSUME Inv, NodeType, NEW t \in Tags, NodeInv(t),
           AddUsersOf(t) \/ RemoveUsers(t) \/ MoreUsers(t)
    PROVE  Kept(t)
<1>1. userList[t] \in SUBSET Users /\ newList[t] \in SUBSET Users
    BY ZenonT(60) DEF NodeType, CtlType
<1>2. /\ step[t] \in {"addUsers", "up", "moreUsers"}
      /\ \E s \in {"up", "moreUsers", "updateUser"} : step' = [step EXCEPT ![t] = s]
      /\ UNCHANGED <<info, userList, named, reg, held, knows, slices, arrays, filled>>
      /\ newList' = newList \/ \E users \in UserSets : newList' = [newList EXCEPT ![t] = users]
    BY ZenonT(60) DEF AddUsersOf, RemoveUsers, MoreUsers, GoOn, infoVars, limVars
<1>3. /\ life' \in [Tags -> {"off", "starting", "running", "closing", "closed"}]
      /\ \A u \in Tags \ {t} : life'[u] = life[u]
      /\ life[t] \in {"off", "closed"} <=> life'[t] \in {"off", "closed"}
      /\ life[t] = "closing" <=> life'[t] = "closing"
    BY ZenonT(60) DEF AddUsersOf, RemoveUsers, MoreUsers, NodeType, CtlType
<1>4. \/ UNCHANGED vars
      \/ \E users \in SUBSET Users : AddUsers(t, users) \/ DelUsers(t, users)
    <2>1. \/ UNCHANGED vars
          \/ \E users \in SUBSET userList[t] : AddUsers(t, users) \/ DelUsers(t, users)
          \/ \E users \in SUBSET newList[t] : AddUsers(t, users)
        BY ZenonT(60) DEF AddUsersOf, RemoveUsers, MoreUsers
    <2>2. SUBSET userList[t] \subseteq SUBSET Users /\ SUBSET newList[t] \subseteq SUBSET Users
        BY ZenonT(60), <1>1
    <2> QED
        BY ZenonT(60), <2>1, <2>2
<1>5. \A u \in Tags, core \in Cores : has[core][u] = None => has'[core][u] = None
    BY ZenonT(60), <1>4, UsersSame DEF Inv, vars
<1>6. NodeType'
    <2>1. newList' \in [Tags -> SUBSET Users]
        <3>1. newList \in [Tags -> SUBSET Users] /\ UserSets \subseteq SUBSET Users
            BY ZenonT(60) DEF NodeType, CtlType
        <3> QED
            BY <1>2, <3>1
    <2>2. step' \in [Tags -> Steps]
        BY ZenonT(60), <1>2 DEF NodeType, CtlType, Steps
    <2> QED
        BY ZenonT(60), <1>2, <1>3, <2>1, <2>2 DEF NodeType, CtlType, LimType
<1>7. \A u \in Tags \ {t} : SameNode(u)
    BY ZenonT(60), <1>2, <1>3, <1>5 DEF SameNode, NodeType, CtlType
<1>8. NodeInv(t)'
    BY ZenonT(60), <1>2, <1>3 DEF NodeType, CtlType, NodeInv, Begun, Published, Knows, NotInCore, Up
<1> QED
    BY ZenonT(60), <1>6, <1>7, <1>8 DEF Kept

(* Unless the process ends, a node that is taken down is in no core. *)
LEMMA TakeDownStep ==
    ASSUME Inv, NEW t \in Tags, NEW next, TakeDown(t, next)
    PROVE  /\ step' = step \/ step' = [step EXCEPT ![t] = next]
           /\ Alive' => /\ step' = [step EXCEPT ![t] = next]
                        /\ \A core \in Cores : has'[core][t] = None
           /\ \A u \in Tags \ {t}, core \in Cores : has'[core][u] = has[core][u]
<1>1. CASE Crash("core") /\ UNCHANGED <<vars, step>>
    BY ZenonT(60), <1>1 DEF Crash, Alive, vars
<1>2. CASE /\ DelNode(t) /\ step' = [step EXCEPT ![t] = next]
           /\ crashed' = IF pc'[t] = "lost" THEN "core" ELSE crashed
    <2>1. Alive' => pc'[t] # "lost"
        BY ZenonT(60), <1>2 DEF Alive
    <2>2. Alive' => \A core \in Cores : has'[core][t] = None
        BY ZenonT(60), <1>2, <2>1, DelNodeGone
    <2>3. \A u \in Tags \ {t}, core \in Cores : has'[core][u] = has[core][u]
        BY ZenonT(60), <1>2, HasOther DEF Inv
    <2> QED
        BY ZenonT(60), <1>2, <2>2, <2>3
<1> QED
    BY ZenonT(60), <1>1, <1>2 DEF TakeDown, GoOn

LEMMA ReloadNodeKept ==
    ASSUME Inv, NodeType, NEW t \in Tags, NodeInv(t), ReloadNode(t) PROVE Kept(t)
<1>1. PICK rules \in RuleSets, users \in UserSets :
          /\ info' = [info EXCEPT ![t] = rules]
          /\ userList' = [userList EXCEPT ![t] = users]
    BY ZenonT(60) DEF ReloadNode
<1>2. /\ step[t] \in {"up", "down"} /\ life[t] \in {"running", "closing"}
      /\ UNCHANGED <<life, newList, named, reg, held, knows, slices, arrays, filled>>
      /\ TakeDown(t, "forget")
    BY ZenonT(60) DEF ReloadNode, limVars
<1>3. /\ step' = step \/ step' = [step EXCEPT ![t] = "forget"]
      /\ Alive' => /\ step' = [step EXCEPT ![t] = "forget"]
                   /\ \A core \in Cores : has'[core][t] = None
      /\ \A u \in Tags \ {t}, core \in Cores : has'[core][u] = has[core][u]
    BY ZenonT(60), <1>2, TakeDownStep
<1>4. NodeType'
    <2>1. step' \in [Tags -> Steps]
        BY ZenonT(60), <1>3 DEF NodeType, CtlType, Steps
    <2>2. users \in SUBSET Users
        OBVIOUS
    <2> QED
        BY ZenonT(60), <1>1, <1>2, <2>1, <2>2 DEF NodeType, CtlType, LimType
<1>5. \A u \in Tags \ {t} : SameNode(u)
    BY ZenonT(60), <1>1, <1>2, <1>3 DEF SameNode, NodeType, CtlType
<1>6. ASSUME Alive' PROVE NodeInv(t)'
    <2>1. /\ step'[t] = "forget" /\ info'[t] \in RuleSets
          /\ \A core \in Cores : has'[core][t] = None
        BY ZenonT(60), <1>1, <1>3, <1>6 DEF NodeType, CtlType
    <2>2. Begun(t)'
        BY ZenonT(60), <1>2, <2>1 DEF NodeInv, Begun
    <2> QED
        BY ZenonT(60), <2>1, <2>2 DEF NodeInv, Published, Knows, NotInCore, Up
<1> QED
    BY ZenonT(60), <1>4, <1>5, <1>6 DEF Kept

LEMMA RemoveNodeKept ==
    ASSUME Inv, NodeType, NEW t \in Tags, NodeInv(t), RemoveNode(t) PROVE Kept(t)
<1>2. /\ step[t] \in {"up", "down"} /\ life[t] = "closing"
      /\ UNCHANGED <<life, info, userList, newList, named, reg, held, knows, slices, arrays, filled>>
      /\ TakeDown(t, "remove")
    BY ZenonT(60) DEF RemoveNode, infoVars, limVars
<1>3. /\ step' = step \/ step' = [step EXCEPT ![t] = "remove"]
      /\ Alive' => /\ step' = [step EXCEPT ![t] = "remove"]
                   /\ \A core \in Cores : has'[core][t] = None
      /\ \A u \in Tags \ {t}, core \in Cores : has'[core][u] = has[core][u]
    BY ZenonT(60), <1>2, TakeDownStep
<1>4. NodeType'
    <2>1. step' \in [Tags -> Steps]
        BY ZenonT(60), <1>3 DEF NodeType, CtlType, Steps
    <2> QED
        BY ZenonT(60), <1>2, <2>1 DEF NodeType, CtlType, LimType
<1>5. \A u \in Tags \ {t} : SameNode(u)
    BY ZenonT(60), <1>2, <1>3 DEF SameNode, NodeType, CtlType
<1>6. ASSUME Alive' PROVE NodeInv(t)'
    <2>1. step'[t] = "remove" /\ \A core \in Cores : has'[core][t] = None
        BY ZenonT(60), <1>3, <1>6 DEF NodeType, CtlType
    <2>2. Begun(t)' /\ Knows(t)'
        BY ZenonT(60), <1>2, <2>1 DEF NodeInv, Begun, Knows
    <2> QED
        BY ZenonT(60), <2>1, <2>2 DEF NodeInv, Published, NotInCore, Up
<1> QED
    BY ZenonT(60), <1>4, <1>5, <1>6 DEF Kept

LEMMA ForgetKept ==
    ASSUME NodeType, NEW t \in Tags, NodeInv(t), NodeForgotten(t) \/ NodeRemoved(t)
    PROVE  Kept(t)
<1>1. /\ has' = has
      /\ UNCHANGED <<info, userList, newList, named, reg, held, knows, slices, arrays, filled>>
    BY ZenonT(60) DEF NodeForgotten, NodeRemoved, ForgetNode, infoVars, limVars
<1>2. \/ /\ step[t] = "forget" /\ UNCHANGED life
         /\ step' = [step EXCEPT ![t] = IF t \in named THEN "publish" ELSE "dropLimiter"]
      \/ /\ step[t] = "remove" /\ life' = [life EXCEPT ![t] = "closed"]
         /\ step' = [step EXCEPT ![t] = "off"]
    BY ZenonT(60) DEF NodeForgotten, NodeRemoved, GoOn
<1>3. NodeType'
    BY ZenonT(60), <1>1, <1>2 DEF NodeType, CtlType, LimType, Steps
<1>4. \A u \in Tags \ {t} : SameNode(u)
    BY ZenonT(60), <1>1, <1>2 DEF SameNode, NodeType, CtlType
<1>5. NodeInv(t)'
    <2>1. \A core \in Cores : has'[core][t] = None
        BY ZenonT(60), <1>1, <1>2 DEF NodeInv, NotInCore, Up
    <2>2. \/ /\ step[t] = "forget" /\ life' = life
             /\ (step'[t] = "publish" /\ t \in named) \/ step'[t] = "dropLimiter"
          \/ step[t] = "remove" /\ life'[t] = "closed" /\ step'[t] = "off"
        BY ZenonT(60), <1>2 DEF NodeType, CtlType
    <2>3. Begun(t)'
        BY ZenonT(60), <1>1, <2>2 DEF NodeInv, Begun
    <2>4. Published(t)' /\ Knows(t)'
        BY ZenonT(60), <1>1, <2>2 DEF Published, Knows, Up
    <2> QED
        BY ZenonT(60), <2>1, <2>3, <2>4 DEF NodeInv, NotInCore
<1> QED
    BY ZenonT(60), <1>3, <1>4, <1>5 DEF Kept

LEMMA ControllerKept ==
    ASSUME Inv, NodeType, NEW t \in Tags, NodeInv(t), Controller(t) PROVE Kept(t)
<1>1. CASE StartNode(t) \/ PublishRules(t) \/ CompileRule(t) \/ AssignProtocols(t)
    BY ZenonT(60), <1>1, StartNodeKept, PublishRulesKept, CompileRuleKept, AssignProtocolsKept
<1>2. CASE RulesPublished(t) \/ ProtocolsAssigned(t)
    BY ZenonT(60), <1>2, RulesPublishedKept
<1>3. CASE RequestCert(t) \/ AddNodeOf(t) \/ StoreNodeOf(t)
    BY ZenonT(60), <1>3, RequestCertKept, AddNodeOfKept, StoreNodeOfKept
<1>4. CASE AddUsersOf(t) \/ RemoveUsers(t) \/ MoreUsers(t)
    BY ZenonT(60), <1>4, UserStepsKept
<1>5. CASE UpdateUser(t) \/ DropLimiter(t) \/ RenewLimiter(t) \/ CloseNode(t)
    BY ZenonT(60), <1>5, UpdateUserKept, DropLimiterKept, RenewLimiterKept, CloseNodeKept
<1>6. CASE ReloadNode(t) \/ RemoveNode(t)
    BY ZenonT(60), <1>6, ReloadNodeKept, RemoveNodeKept
<1>7. CASE NodeForgotten(t) \/ NodeRemoved(t)
    BY ZenonT(60), <1>7, ForgetKept
<1> QED
    BY ZenonT(60), <1>1, <1>2, <1>3, <1>4, <1>5, <1>6, <1>7 DEF Controller

-----------------------------------------------------------------------------
ConnSteps == {"new", "lookUp", "check"} \cup Kinds \cup Ended

(* The state of the connections is well typed. *)
ConnType ==
    /\ cpc \in [Conns -> ConnSteps]
    /\ lim \in [Conns -> Nat] /\ pos \in [Conns -> Nat]
    /\ upto = [c \in Conns |-> upto[c]]
    /\ due \in [Conns -> RuleSets \cup {None}] /\ moved \in [Conns -> BOOLEAN]

\* No rule of the list before position n matches x.
NoMatch(list, n, x) == \A i \in 1..Len(list) : i < n => list[i] # x

(* A connection on its way whose node stays up has the limiter of its node, *)
(* and no rule it has passed matches it.                                    *)
OnItsWay(c) ==
    LET rules == info[TagOf[c]]
    IN  /\ step[TagOf[c]] \in Up /\ life[TagOf[c]] # "closing"
        /\ due[c] = rules /\ upto[c] \in Nat
        /\ cpc[c] # "lookUp" => lim[c] = held[TagOf[c]]
        /\ cpc[c] \notin Kinds => pos[c] = 0
        /\ (cpc[c] \in Kinds /\ pos[c] # 0) =>
              upto[c] = Len(rules[cpc[c]]) /\ NoMatch(rules[cpc[c]], pos[c], Target(c))
        /\ cpc[c] = "protocol" =>
              NoMatch(rules["domain"], Len(rules["domain"]) + 1, DestOf[c])

ConnInv(c) ==
    /\ cpc[c] = "new" => pos[c] = 0 /\ upto[c] = 0
    /\ InFlight(c) /\ ~moved[c] => OnItsWay(c)

AInv ==
    /\ NodeType /\ ConnType
    /\ Alive => (\A t \in Tags : NodeInv(t)) /\ (\A c \in Conns : ConnInv(c))
    /\ UncheckedNeedsTeardown /\ RulePanicNeedsReload


-----------------------------------------------------------------------------
(* A controller calls the selector as Selector says. *)
LEMMA ControllerCalls ==
    ASSUME NodeType, NEW t \in Tags, Controller(t) PROVE [Next]_vars
<1>1. userList[t] \in SUBSET Users /\ newList[t] \in SUBSET Users
    BY ZenonT(60) DEF NodeType, CtlType
<1>2. CASE UNCHANGED vars
    BY ZenonT(60), <1>2
<1>3. CASE AddNodeOf(t) \/ StoreNodeOf(t) \/ NodeForgotten(t) \/ NodeRemoved(t)
    BY ZenonT(60), <1>3 DEF AddNodeOf, StoreNodeOf, NodeForgotten, NodeRemoved, Next
<1>4. CASE ReloadNode(t) \/ RemoveNode(t)
    BY ZenonT(60), <1>2, <1>4 DEF ReloadNode, RemoveNode, TakeDown, Next
<1>5. CASE AddUsersOf(t)
    <2>1. PICK got \in SUBSET userList[t] : AddUsers(t, got)
        BY ZenonT(60), <1>5 DEF AddUsersOf
    <2>2. got \in SUBSET Users
        BY ZenonT(60), <1>1
    <2> QED
        BY ZenonT(60), <2>1, <2>2 DEF Next
<1>6. CASE RemoveUsers(t) \/ MoreUsers(t)
    <2>1. \/ UNCHANGED vars
          \/ \E users \in SUBSET userList[t] : DelUsers(t, users)
          \/ \E users \in SUBSET newList[t] : AddUsers(t, users)
        BY ZenonT(60), <1>6 DEF RemoveUsers, MoreUsers
    <2>2. SUBSET userList[t] \subseteq SUBSET Users /\ SUBSET newList[t] \subseteq SUBSET Users
        BY ZenonT(60), <1>1
    <2> QED
        BY ZenonT(60), <1>2, <2>1, <2>2 DEF Next
<1>7. CASE \/ StartNode(t) \/ PublishRules(t) \/ RulesPublished(t) \/ CompileRule(t)
           \/ AssignProtocols(t) \/ ProtocolsAssigned(t) \/ RequestCert(t)
           \/ DropLimiter(t) \/ RenewLimiter(t) \/ UpdateUser(t) \/ CloseNode(t)
    <2>1. UNCHANGED vars
        BY ZenonT(60), <1>7 DEF StartNode, PublishRules, RulesPublished, CompileRule,
            AssignProtocols, ProtocolsAssigned, RequestCert, DropLimiter, RenewLimiter,
            UpdateUser, CloseNode
    <2> QED
        BY ZenonT(60), <1>2, <2>1
<1> QED
    BY ZenonT(60), <1>3, <1>4, <1>5, <1>6, <1>7 DEF Controller

LEMMA ConnectionCalls ==
    ASSUME NEW c \in Conns, Connection(c)
    PROVE  UNCHANGED <<vars, ctlVars, limVars>>
BY ZenonT(60) DEF Connection, Arrive, LookUp, CheckLimit, EnterRange, TryRule, EndRules

LEMMA StepCalls == NodeType /\ [AdmissionNext]_allVars => [Next]_vars
<1> SUFFICES ASSUME NodeType, [AdmissionNext]_allVars PROVE [Next]_vars
    OBVIOUS
<1>1. CASE CoreStart \/ CoreClose
    BY ZenonT(60), <1>1 DEF CoreStart, CoreClose, Next
<1>2. ASSUME NEW t \in Tags, Controller(t) PROVE [Next]_vars
    BY ZenonT(60), <1>2, ControllerCalls
<1>3. ASSUME NEW c \in Conns, Connection(c) PROVE [Next]_vars
    BY ZenonT(60), <1>3, ConnectionCalls
<1>4. CASE UNCHANGED allVars
    BY ZenonT(60), <1>4 DEF allVars
<1> QED
    BY ZenonT(60), <1>1, <1>2, <1>3, <1>4 DEF AdmissionNext

-----------------------------------------------------------------------------
\* A node that stays up keeps what OnItsWay says of it.
StaysUp(t) ==
    /\ step'[t] \in Up /\ life'[t] # "closing"
    /\ info'[t] = info[t] /\ held'[t] = held[t]

\* A step that takes the node of t down marks the connections under way.
Marks(t) ==
    \/ Leave(t)
    \/ moved' = moved /\ (step[t] \in Up /\ life[t] # "closing" => StaysUp(t))

LEMMA ControllerMarks ==
    ASSUME NodeType, NEW t \in Tags, NodeInv(t), Controller(t), Alive
    PROVE  Marks(t) /\ UNCHANGED <<cpc, lim, pos, upto, due>> /\ crashed' # "rules"
<1>0. /\ step \in [Tags -> Steps]
      /\ life \in [Tags -> {"off", "starting", "running", "closing", "closed"}]
    BY ZenonT(60) DEF NodeType, CtlType
<1> USE DEF connVars, loopVars, infoVars, limVars, GoOn, Alive, Crash
<1>1. CASE ReloadNode(t) \/ CloseNode(t)
    BY ZenonT(60), <1>1 DEF ReloadNode, CloseNode, TakeDown, Marks
<1>2. CASE UpdateUser(t) \/ StoreNodeOf(t)
    BY ZenonT(60), <1>0, <1>2 DEF UpdateUser, StoreNodeOf, Marks, StaysUp, Up
<1>3. CASE AddUsersOf(t) \/ RemoveUsers(t) \/ MoreUsers(t)
    BY ZenonT(60), <1>0, <1>3 DEF AddUsersOf, RemoveUsers, MoreUsers, Marks, StaysUp, Up
<1>4. CASE \/ PublishRules(t) \/ RulesPublished(t) \/ AssignProtocols(t)
           \/ ProtocolsAssigned(t) \/ AddNodeOf(t)
    BY ZenonT(60), <1>4 DEF PublishRules, RulesPublished, AssignProtocols,
        ProtocolsAssigned, AddNodeOf, Marks, Up
<1>5. CASE CompileRule(t) \/ RequestCert(t) \/ NodeForgotten(t) \/ DropLimiter(t) \/ NodeRemoved(t)
    BY ZenonT(60), <1>5 DEF CompileRule, RequestCert, NodeForgotten, DropLimiter, NodeRemoved, Marks, Up
<1>6. CASE RenewLimiter(t) \/ RemoveNode(t)
    BY ZenonT(60), <1>6 DEF RenewLimiter, RemoveNode, TakeDown, Marks, Up
<1>7. CASE StartNode(t)
    BY ZenonT(60), <1>7 DEF StartNode, Marks, Up, NodeInv, Begun
<1> QED
    BY ZenonT(60), <1>1, <1>2, <1>3, <1>4, <1>5, <1>6, <1>7 DEF Controller

(* A step of a controller keeps the invariant of the connections. *)
LEMMA ControllerConns ==
    ASSUME ConnType, NEW t \in Tags, Marks(t), \A u \in Tags \ {t} : SameNode(u),
           UNCHANGED <<cpc, lim, pos, upto, due>>, crashed' # "rules",
           \A c \in Conns : ConnInv(c), UncheckedNeedsTeardown
    PROVE  /\ ConnType' /\ \A c \in Conns : ConnInv(c)'
           /\ UncheckedNeedsTeardown' /\ RulePanicNeedsReload'
<1>1. /\ moved' \in [Conns -> BOOLEAN]
      /\ \A c \in Conns : moved[c] => moved'[c]
      /\ \A c \in Conns : (TagOf[c] = t /\ InFlight(c) /\ ~moved'[c]) =>
            moved' = moved /\ (step[t] \in Up /\ life[t] # "closing" => StaysUp(t))
    <2>1. moved \in [Conns -> BOOLEAN]
        BY ZenonT(60) DEF ConnType
    <2> QED
        BY ZenonT(60), <2>1 DEF Marks, Leave
<1>2. ConnType'
    BY ZenonT(60), <1>1 DEF ConnType
<1>3. ASSUME NEW c \in Conns, InFlight(c)', ~moved'[c] PROVE OnItsWay(c)'
    <2>1. TagOf[c] \in Tags /\ InFlight(c) /\ ~moved[c] /\ OnItsWay(c)
        BY ZenonT(60), <1>1, <1>3 DEF InFlight, ConnInv
    <2>2. StaysUp(TagOf[c])
        <3>1. CASE TagOf[c] = t
            BY ZenonT(60), <1>1, <1>3, <2>1, <3>1 DEF OnItsWay
        <3>2. CASE TagOf[c] # t
            BY ZenonT(60), <2>1, <3>2 DEF SameNode, StaysUp, OnItsWay
        <3> QED
            BY ZenonT(60), <3>1, <3>2
    <2> QED
        BY ZenonT(60), <2>1, <2>2 DEF OnItsWay, StaysUp, Target
<1>4. \A c \in Conns : ConnInv(c)'
    BY ZenonT(60), <1>3 DEF ConnInv
<1>5. UncheckedNeedsTeardown' /\ RulePanicNeedsReload'
    BY ZenonT(60), <1>1 DEF UncheckedNeedsTeardown, RulePanicNeedsReload, Forbidden
<1> QED
    BY ZenonT(60), <1>2, <1>4, <1>5

-----------------------------------------------------------------------------
\* A step of connection c leaves the nodes and the other connections alone.
Alone(c) ==
    /\ UNCHANGED <<step, life, info, held>>
    /\ \A d \in Conns \ {c} :
          /\ cpc'[d] = cpc[d] /\ lim'[d] = lim[d] /\ pos'[d] = pos[d]
          /\ upto'[d] = upto[d] /\ due'[d] = due[d] /\ moved'[d] = moved[d]

LEMMA OtherConn ==
    ASSUME NEW c \in Conns, Alone(c), NEW d \in Conns \ {c}, ConnInv(d)
    PROVE  ConnInv(d)'
BY ZenonT(60) DEF Alone, ConnInv, InFlight, OnItsWay, Target

\* What a step of c has to keep.
ConnKept(c) ==
    /\ ConnType' /\ Alone(c)
    /\ Alive' => ConnInv(c)'
    /\ cpc'[c] = "unchecked" \/ (cpc'[c] = "passed" /\ Forbidden(c, due'[c])) => moved'[c]
    /\ crashed' = "rules" => cpc'[c] \in Kinds /\ moved'[c]

LEMMA ArriveKept ==
    ASSUME NodeType, ConnType, Alive, NEW c \in Conns, NodeInv(TagOf[c]),
           ConnInv(c), Arrive(c)
    PROVE  ConnKept(c)
<1> DEFINE t == TagOf[c]
<1>1. /\ t \in Tags /\ cpc[c] = "new" /\ cpc' = [cpc EXCEPT ![c] = "lookUp"]
      /\ due' = [due EXCEPT ![c] = info[t]]
      /\ moved' = [moved EXCEPT ![c] = life[t] = "closing"]
      /\ UNCHANGED <<step, life, info, held, lim, pos, upto, crashed>>
      /\ \E core \in Cores : has[core][t] # None
    BY ZenonT(60) DEF Arrive, To, ctlVars, infoVars, limVars, loopVars
<1>2. step[t] \in Up /\ info[t] \in RuleSets
    BY ZenonT(60), <1>1 DEF NodeInv, NotInCore, Begun, Up
<1>3. ConnType'
    BY ZenonT(60), <1>1, <1>2 DEF ConnType, ConnSteps
<1>4. Alone(c)
    BY ZenonT(60), <1>1 DEF Alone, ConnType
<1>5. /\ cpc'[c] = "lookUp" /\ due'[c] = info[t] /\ pos'[c] = 0 /\ upto'[c] = 0
      /\ moved'[c] <=> life[t] = "closing"
    BY ZenonT(60), <1>1 DEF ConnType, ConnInv
<1>6. ConnInv(c)'
    <2>1. ASSUME ~moved'[c] PROVE OnItsWay(c)'
        <3>1. upto'[c] \in Nat /\ life'[t] # "closing" /\ step'[t] \in Up /\ info' = info
            BY ZenonT(60), <1>1, <1>2, <1>5, <2>1 DEF ConnType, Up
        <3> QED
            BY ZenonT(60), <1>5, <3>1 DEF OnItsWay, Kinds
    <2> QED
        BY ZenonT(60), <1>5, <2>1 DEF ConnInv
<1> QED
    BY ZenonT(60), <1>1, <1>3, <1>4, <1>5, <1>6 DEF ConnKept, Alive

LEMMA LookUpKept ==
    ASSUME NodeType, ConnType, Alive, NEW c \in Conns, NodeInv(TagOf[c]),
           ConnInv(c), LookUp(c)
    PROVE  ConnKept(c)
<1> DEFINE t == TagOf[c]
<1>1. /\ t \in Tags /\ cpc[c] = "lookUp" /\ lim' = [lim EXCEPT ![c] = reg[t]]
      /\ UNCHANGED <<step, life, info, held, pos, upto, due, moved, crashed>>
    BY ZenonT(60) DEF LookUp, ctlVars, infoVars, limVars
<1>2. /\ reg[t] \in Nat /\ lim \in [Conns -> Nat] /\ cpc \in [Conns -> ConnSteps]
    BY ZenonT(60), <1>1 DEF NodeType, LimType, ConnType
<1>3. cpc' = [cpc EXCEPT ![c] = IF reg[t] # 0 THEN "check"
                                ELSE IF via[c] = "xray" THEN "rejected" ELSE "unchecked"]
    BY ZenonT(60), <1>1, <1>2 DEF LookUp, To
<1>4. ConnType'
    BY ZenonT(60), <1>1, <1>2, <1>3 DEF ConnType, ConnSteps, Ended
<1>5. Alone(c)
    BY ZenonT(60), <1>1, <1>2, <1>3 DEF Alone
<1>6. CASE moved[c]
    BY ZenonT(60), <1>1, <1>2, <1>3, <1>4, <1>5, <1>6 DEF ConnKept, ConnInv, Alive
<1>7. CASE ~moved[c]
    <2>1. OnItsWay(c)
        BY ZenonT(60), <1>1, <1>7 DEF ConnInv, InFlight, Ended
    <2>2. reg[t] = held[t] /\ held[t] # 0
        BY ZenonT(60), <2>1 DEF OnItsWay, NodeInv, Begun, Up
    <2>3. cpc'[c] = "check" /\ lim'[c] = held[t]
        BY ZenonT(60), <1>1, <1>2, <1>3, <2>2
    <2>4. OnItsWay(c)'
        BY ZenonT(60), <1>1, <2>1, <2>3 DEF OnItsWay, Kinds
    <2> QED
        BY ZenonT(60), <1>1, <1>4, <1>5, <2>3, <2>4 DEF ConnKept, ConnInv, Alive
<1> QED
    BY ZenonT(60), <1>6, <1>7

LEMMA CheckLimitKept ==
    ASSUME ConnType, Alive, NEW c \in Conns, ConnInv(c), CheckLimit(c)
    PROVE  ConnKept(c)
<1>1. /\ cpc[c] = "check"
      /\ \E s \in {"domain", "rejected"} : cpc' = [cpc EXCEPT ![c] = s]
      /\ UNCHANGED <<step, life, info, held, lim, pos, upto, due, moved, crashed>>
    BY ZenonT(60) DEF CheckLimit, To, ctlVars, infoVars, limVars, loopVars
<1>2. ConnType' /\ cpc'[c] \in {"domain", "rejected"}
    BY ZenonT(60), <1>1 DEF ConnType, ConnSteps, Kinds, Ended
<1>3. Alone(c)
    BY ZenonT(60), <1>1 DEF Alone, ConnType
<1>4. ConnInv(c)'
    BY ZenonT(60), <1>1, <1>2 DEF ConnInv, InFlight, Ended, OnItsWay, Kinds
<1> QED
    BY ZenonT(60), <1>1, <1>2, <1>3, <1>4 DEF ConnKept, Alive

(* While the node is up its limiter holds the whole of its rules. *)
LEMMA RulesThere ==
    ASSUME NEW t \in Tags, NodeInv(t), step[t] \in Up, NEW k \in Kinds
    PROVE  /\ info[t] \in RuleSets /\ Len(info[t][k]) \in Nat
           /\ slices[t][held[t]][k] = [arr |-> Len(arrays[t]), len |-> Len(info[t][k])]
           /\ Len(arrays[t]) # 0 /\ arrays[t][Len(arrays[t])] = info[t]
           /\ filled[t] = Len(info[t]["domain"])
<1>1. info[t] \in RuleSets /\ Len(info[t][k]) \in Nat
    BY ZenonT(60) DEF NodeInv, Begun, Up
<1>2. Published(t)
    BY ZenonT(60) DEF NodeInv
<1>3. slices[t][held[t]][k] = [arr |-> Len(arrays[t]), len |-> Len(info[t][k])]
    BY ZenonT(60), <1>2 DEF Published, Kinds
<1> QED
    BY ZenonT(60), <1>1, <1>2, <1>3 DEF Published

LEMMA EnterRangeKept ==
    ASSUME ConnType, Alive, NEW c \in Conns, NodeInv(TagOf[c]), ConnInv(c), EnterRange(c)
    PROVE  ConnKept(c)
<1> DEFINE t == TagOf[c]
<1>1. /\ cpc[c] \in Kinds /\ pos' = [pos EXCEPT ![c] = 1]
      /\ upto' = [upto EXCEPT ![c] = slices[t][lim[c]][cpc[c]].len]
      /\ UNCHANGED <<step, life, info, held, cpc, lim, due, moved, crashed>>
    BY ZenonT(60) DEF EnterRange, ctlVars, infoVars, limVars
<1>2. /\ ConnType' /\ pos'[c] = 1 /\ upto'[c] = slices[t][lim[c]][cpc[c]].len
    BY ZenonT(60), <1>1 DEF ConnType
<1>3. Alone(c)
    BY ZenonT(60), <1>1 DEF Alone, ConnType
<1>4. ConnInv(c)'
    <2> SUFFICES ASSUME ~moved[c] PROVE OnItsWay(c)'
        BY ZenonT(60), <1>1 DEF ConnInv, Kinds
    <2>1. OnItsWay(c) /\ lim[c] = held[t]
        BY ZenonT(60), <1>1 DEF ConnInv, InFlight, Ended, Kinds, OnItsWay
    <2>2. upto'[c] = Len(info[t][cpc[c]]) /\ upto'[c] \in Nat
        <3>1. t \in Tags /\ step[t] \in Up
            BY ZenonT(60), <2>1 DEF OnItsWay
        <3>2. /\ slices[t][held[t]][cpc[c]] =
                    [arr |-> Len(arrays[t]), len |-> Len(info[t][cpc[c]])]
              /\ Len(info[t][cpc[c]]) \in Nat
            BY ZenonT(60), <1>1, <3>1, RulesThere
        <3> QED
            BY <1>2, <2>1, <3>2
    <2>3. NoMatch(info[t][cpc[c]], 1, Target(c))
        BY DEF NoMatch
    <2> QED
        BY ZenonT(60), <1>1, <1>2, <2>1, <2>2, <2>3 DEF OnItsWay, Target
<1> QED
    BY ZenonT(60), <1>1, <1>2, <1>3, <1>4 DEF ConnKept, Alive, Kinds

LEMMA TryRuleKept ==
    ASSUME ConnType, Alive, NEW c \in Conns, NodeInv(TagOf[c]), ConnInv(c), TryRule(c)
    PROVE  ConnKept(c)
<1> DEFINE t == TagOf[c]
           k == cpc[c]
           i == pos[c]
           h == slices[t][lim[c]][k]
           list == IF h.arr = 0 THEN <<>> ELSE arrays[t][h.arr][k]
           isNil == k = "domain" /\ h.arr = Len(arrays[t]) /\ i > filled[t]
<1>1. /\ k \in Kinds /\ i \in 1..upto[c]
      /\ UNCHANGED <<step, life, info, held, lim, upto, due, moved>>
    BY ZenonT(60) DEF TryRule, ctlVars, infoVars, limVars
<1>2. \/ /\ i > h.len \/ i > Len(list) \/ isNil
         /\ Crash("rules") /\ UNCHANGED <<cpc, pos>>
      \/ /\ i <= h.len /\ i > Len(list)
         /\ pos' = [pos EXCEPT ![c] = i + 1] /\ UNCHANGED <<cpc, crashed>>
      \/ /\ i <= h.len /\ i <= Len(list) /\ ~isNil
         /\ IF list[i] = Target(c)
            THEN To(c, "rejected") /\ UNCHANGED pos
            ELSE pos' = [pos EXCEPT ![c] = i + 1] /\ UNCHANGED cpc
         /\ UNCHANGED crashed
    BY ZenonT(60) DEF TryRule
<1>3. /\ cpc' = cpc \/ cpc' = [cpc EXCEPT ![c] = "rejected"]
      /\ pos' = pos \/ pos' = [pos EXCEPT ![c] = i + 1]
      /\ crashed' = "rules" => cpc' = cpc
    BY ZenonT(60), <1>2 DEF To, Crash, Alive
<1>4. i \in Nat /\ cpc \in [Conns -> ConnSteps] /\ pos \in [Conns -> Nat]
    BY ZenonT(60) DEF ConnType
<1>5. ConnType' /\ Alone(c)
    <2>1. /\ cpc' \in [Conns -> ConnSteps] /\ pos' \in [Conns -> Nat]
          /\ \A d \in Conns \ {c} : cpc'[d] = cpc[d] /\ pos'[d] = pos[d]
        <3>1. "rejected" \in ConnSteps /\ i + 1 \in Nat
            BY <1>4 DEF ConnSteps, Ended
        <3> QED
            BY <1>3, <1>4, <3>1
    <2> QED
        BY ZenonT(60), <1>1, <2>1 DEF ConnType, Alone
<1>6. cpc'[c] = k \/ cpc'[c] = "rejected"
    BY ZenonT(60), <1>3, <1>4
<1>7. CASE moved[c]
    BY ZenonT(60), <1>1, <1>3, <1>5, <1>6, <1>7 DEF ConnKept, ConnInv, Kinds
<1>8. CASE ~moved[c]
    <2>1. OnItsWay(c) /\ lim[c] = held[t] /\ t \in Tags /\ step[t] \in Up
        BY ZenonT(60), <1>1, <1>8 DEF ConnInv, InFlight, Ended, Kinds, OnItsWay
    <2>2. /\ info[t] \in RuleSets /\ Len(info[t][k]) \in Nat
          /\ slices[t][held[t]][k] = [arr |-> Len(arrays[t]), len |-> Len(info[t][k])]
          /\ Len(arrays[t]) # 0 /\ arrays[t][Len(arrays[t])] = info[t]
          /\ filled[t] = Len(info[t]["domain"])
        BY ZenonT(60), <1>1, <2>1, RulesThere
    <2>3. /\ h.len = Len(info[t][k]) /\ h.arr = Len(arrays[t]) /\ list = info[t][k]
        BY <2>1, <2>2
    <2>4. /\ i # 0 /\ upto[c] = Len(info[t][k]) /\ NoMatch(info[t][k], i, Target(c))
        BY <1>1, <1>4, <2>1 DEF OnItsWay
    <2>5. i <= h.len /\ i <= Len(list) /\ ~isNil
        <3> DEFINE n == Len(info[t][k])
        <3>1. n \in Nat /\ i \in 1..n
            BY ZenonT(60), <1>1, <2>2, <2>4
        <3> HIDE DEF n
        <3>2. i <= n /\ ~(i > n)
            BY <3>1
        <3> USE DEF n
        <3>3. ~isNil
            BY ZenonT(60), <2>2, <3>2
        <3> QED
            BY ZenonT(60), <2>3, <3>2, <3>3
    <2> HIDE DEF h, list, isNil
    <2>6. /\ crashed' = crashed
          /\ \/ cpc' = [cpc EXCEPT ![c] = "rejected"]
             \/ /\ list[i] # Target(c) /\ cpc' = cpc
                /\ pos' = [pos EXCEPT ![c] = i + 1]
        <3>1. ~(i > h.len) /\ ~(i > Len(list))
            BY <1>4, <2>2, <2>3, <2>5
        <3> QED
            BY ZenonT(60), <1>2, <2>5, <3>1 DEF To
    <2>7. CASE cpc' = [cpc EXCEPT ![c] = "rejected"]
        BY ZenonT(60), <1>1, <1>4, <1>5, <2>6, <2>7 DEF ConnKept, ConnInv, InFlight, Ended, Alive
    <2>8. CASE list[i] # Target(c) /\ cpc' = cpc /\ pos' = [pos EXCEPT ![c] = i + 1]
        <3>1. NoMatch(info[t][k], i + 1, Target(c))
            <4>1. \A m \in Nat, n \in Nat : \A j \in 1..m : j < n + 1 => j < n \/ j = n
                OBVIOUS
            <4> QED
                BY ZenonT(60), <1>4, <2>2, <2>3, <2>4, <2>8, <4>1 DEF NoMatch
        <3>2. pos'[c] = i + 1
            BY ZenonT(60), <1>4, <2>8
        <3>3. OnItsWay(c)'
            BY ZenonT(60), <1>1, <2>1, <2>4, <2>8, <3>1, <3>2 DEF OnItsWay, Target
        <3> QED
            BY ZenonT(60), <1>1, <1>5, <2>6, <2>8, <3>3 DEF ConnKept, ConnInv, Kinds, Alive
    <2> QED
        BY ZenonT(60), <2>6, <2>7, <2>8
<1> QED
    BY ZenonT(60), <1>7, <1>8

LEMMA EndRulesKept ==
    ASSUME ConnType, Alive, NEW c \in Conns, NodeInv(TagOf[c]), ConnInv(c), EndRules(c)
    PROVE  ConnKept(c)
<1> DEFINE t == TagOf[c]
           more == cpc[c] = "domain" /\ ProtoOf[c] # None
<1>1. /\ cpc[c] \in Kinds /\ pos[c] > upto[c]
      /\ UNCHANGED <<step, life, info, held, lim, upto, due, moved, crashed>>
      /\ cpc' = [cpc EXCEPT ![c] = IF more THEN "protocol" ELSE "passed"]
      /\ pos' = IF more THEN [pos EXCEPT ![c] = 0] ELSE pos
    BY ZenonT(60) DEF EndRules, To, ctlVars, infoVars, limVars
<1>2. /\ ConnType' /\ Alone(c) /\ cpc'[c] = (IF more THEN "protocol" ELSE "passed")
      /\ more => pos'[c] = 0
    <2>1. /\ cpc \in [Conns -> ConnSteps] /\ pos \in [Conns -> Nat]
          /\ {"protocol", "passed"} \subseteq ConnSteps
        BY ZenonT(60) DEF ConnType, ConnSteps, Kinds, Ended
    <2>2. /\ cpc' \in [Conns -> ConnSteps] /\ pos' \in [Conns -> Nat]
          /\ \A d \in Conns \ {c} : cpc'[d] = cpc[d] /\ pos'[d] = pos[d]
          /\ cpc'[c] = (IF more THEN "protocol" ELSE "passed") /\ (more => pos'[c] = 0)
        BY ZenonT(60), <1>1, <2>1
    <2> QED
        BY ZenonT(60), <1>1, <2>2 DEF ConnType, Alone
<1>3. CASE moved[c]
    BY <1>1, <1>2, <1>3 DEF ConnKept, ConnInv, Alive
<1>4. CASE ~moved[c]
    <2>1. OnItsWay(c) /\ t \in Tags /\ step[t] \in Up
        BY ZenonT(60), <1>1, <1>4 DEF ConnInv, InFlight, Ended, Kinds, OnItsWay
    <2>2. /\ Len(info[t][cpc[c]]) \in Nat /\ Len(info[t]["domain"]) \in Nat /\ pos[c] \in Nat
        BY ZenonT(60), <1>1, <2>1, RulesThere DEF ConnType, Kinds
    <2>3. pos[c] # 0
        <3>1. upto[c] \in Nat
            BY ZenonT(60), <2>1 DEF OnItsWay
        <3> QED
            BY <1>1, <2>2, <3>1
    <2>4. \A i \in 1..Len(info[t][cpc[c]]) : info[t][cpc[c]][i] # Target(c)
        <3>1. upto[c] = Len(info[t][cpc[c]]) /\ NoMatch(info[t][cpc[c]], pos[c], Target(c))
            BY ZenonT(60), <1>1, <2>1, <2>3 DEF OnItsWay
        <3>2. \A n \in Nat : \A i \in 1..n : pos[c] > n => i < pos[c]
            BY <2>2
        <3> QED
            BY ZenonT(60), <1>1, <2>2, <3>1, <3>2 DEF NoMatch
    <2>5. CASE more
        <3>1. NoMatch(info[t]["domain"], Len(info[t]["domain"]) + 1, DestOf[c])
            BY ZenonT(60), <2>4, <2>5 DEF NoMatch, Target
        <3>2. OnItsWay(c)'
            BY ZenonT(60), <1>1, <1>2, <2>1, <2>5, <3>1 DEF OnItsWay, Kinds
        <3> QED
            <4>1. cpc'[c] = "protocol"
                BY ZenonT(60), <1>2, <2>5
            <4>2. crashed' # "rules"
                BY ZenonT(60), <1>1 DEF Alive
            <4> QED
                BY ZenonT(60), <1>2, <3>2, <4>1, <4>2 DEF ConnKept, ConnInv
    <2>6. CASE ~more
        <3>1. ~Forbidden(c, info[t])
            <4>1. CASE cpc[c] = "domain"
                BY ZenonT(60), <2>4, <2>6, <4>1 DEF Forbidden, Target
            <4>2. CASE cpc[c] = "protocol"
                <5>1. \A n \in Nat : \A i \in 1..n : i < n + 1
                    OBVIOUS
                <5>2. \A i \in 1..Len(info[t]["domain"]) : info[t]["domain"][i] # DestOf[c]
                    BY ZenonT(60), <2>1, <2>2, <4>2, <5>1 DEF OnItsWay, NoMatch
                <5> QED
                    BY ZenonT(60), <2>4, <4>2, <5>2 DEF Forbidden, Target
            <4> QED
                BY ZenonT(60), <1>1, <4>1, <4>2 DEF Kinds
        <3>2. due'[c] = info[t]
            BY ZenonT(60), <1>1, <2>1 DEF OnItsWay
        <3> QED
            <4>1. cpc'[c] = "passed"
                BY ZenonT(60), <1>2, <2>6
            <4>2. crashed' # "rules"
                BY ZenonT(60), <1>1 DEF Alive
            <4> QED
                BY ZenonT(60), <1>2, <3>1, <3>2, <4>1, <4>2
                   DEF ConnKept, ConnInv, InFlight, Ended
    <2> QED
        BY ZenonT(60), <2>5, <2>6
<1> QED
    BY ZenonT(60), <1>3, <1>4

LEMMA ConnectionKept ==
    ASSUME NodeType, ConnType, Alive, NEW c \in Conns, NodeInv(TagOf[c]), ConnInv(c),
           Connection(c)
    PROVE  ConnKept(c)
BY ZenonT(60), ArriveKept, LookUpKept, CheckLimitKept, EnterRangeKept, TryRuleKept,
   EndRulesKept DEF Connection

-----------------------------------------------------------------------------
(* The invariant holds at the start. *)
LEMMA AdmissionInitInv == AdmissionInit => AInv
<1> SUFFICES ASSUME AdmissionInit PROVE AInv
    OBVIOUS
<1>1. NodeType
    BY DEF AdmissionInit, NodeType, CtlType, LimType, Steps
<1>2. ConnType
    BY ZenonT(60) DEF AdmissionInit, ConnType, ConnSteps
<1>3. ASSUME NEW t \in Tags PROVE NodeInv(t)
    <2>1. /\ life[t] = "off" /\ step[t] = "off" /\ held[t] = 0
          /\ knows[t] = <<>> /\ slices[t] = <<>>
        BY ZenonT(60) DEF AdmissionInit
    <2>2. \A core \in Cores : has[core][t] = None
        BY ZenonT(60) DEF AdmissionInit, Init
    <2> QED
        BY <2>1, <2>2 DEF NodeInv, Begun, Published, Knows, NotInCore, Up
<1>4. \A c \in Conns : ConnInv(c)
    BY ZenonT(60) DEF AdmissionInit, ConnInv, InFlight
<1>5. UncheckedNeedsTeardown /\ RulePanicNeedsReload
    BY ZenonT(60) DEF AdmissionInit, UncheckedNeedsTeardown, RulePanicNeedsReload
<1> QED
    BY ZenonT(60), <1>1, <1>2, <1>3, <1>4, <1>5 DEF AInv

(* A step that leaves controllers, limiters and connections alone keeps it. *)
LEMMA QuietInv ==
    ASSUME AInv, UNCHANGED <<ctlVars, limVars, connVars, crashed>>,
           \A t \in Tags, core \in Cores : has[core][t] = None => has'[core][t] = None
    PROVE  AInv'
<1>1. UNCHANGED <<life, step, info, userList, newList, named, reg, held, knows, slices,
                  arrays, filled, cpc, lim, pos, upto, due, moved, crashed>>
    BY ZenonT(60) DEF ctlVars, infoVars, limVars, connVars, loopVars
<1>2. NodeType' /\ ConnType'
    BY ZenonT(60), <1>1 DEF AInv, NodeType, CtlType, LimType, ConnType
<1>3. \A t \in Tags : SameNode(t)
    BY ZenonT(60), <1>1 DEF SameNode
<1>4. Alive => \A t \in Tags : NodeInv(t)'
    BY ZenonT(60), <1>3, OtherNode DEF AInv
<1>5. Alive => \A c \in Conns : ConnInv(c)'
    BY ZenonT(60), <1>1 DEF AInv, ConnInv, InFlight, OnItsWay, Target
<1>6. UncheckedNeedsTeardown' /\ RulePanicNeedsReload'
    BY ZenonT(60), <1>1 DEF AInv, UncheckedNeedsTeardown, RulePanicNeedsReload, Forbidden
<1> QED
    BY ZenonT(60), <1>1, <1>2, <1>4, <1>5, <1>6 DEF AInv, Alive

LEMMA ControllerInv ==
    ASSUME Inv, AInv, Alive, NEW t \in Tags, Controller(t) PROVE AInv'
<1>1. /\ NodeType /\ ConnType /\ UncheckedNeedsTeardown /\ NodeInv(t)
      /\ (\A u \in Tags : NodeInv(u)) /\ (\A c \in Conns : ConnInv(c))
    BY ZenonT(60) DEF AInv
<1>2. Kept(t)
    BY ZenonT(60), <1>1, ControllerKept
<1>3. Marks(t) /\ UNCHANGED <<cpc, lim, pos, upto, due>> /\ crashed' # "rules"
    BY ZenonT(60), <1>1, ControllerMarks
<1>4. NodeType' /\ (Alive' => NodeInv(t)') /\ \A u \in Tags \ {t} : SameNode(u)
    BY ZenonT(60), <1>2 DEF Kept
<1>5. \A u \in Tags \ {t} : NodeInv(u)'
    BY ZenonT(60), <1>1, <1>4, OtherNode
<1>6. Alive' => \A u \in Tags : NodeInv(u)'
    BY ZenonT(60), <1>4, <1>5
<1>7. /\ ConnType' /\ \A c \in Conns : ConnInv(c)'
      /\ UncheckedNeedsTeardown' /\ RulePanicNeedsReload'
    BY ZenonT(60), <1>1, <1>3, <1>4, ControllerConns
<1> QED
    BY ZenonT(60), <1>4, <1>6, <1>7 DEF AInv

LEMMA ConnectionInv ==
    ASSUME AInv, Alive, NEW c \in Conns, Connection(c) PROVE AInv'
<1>1. /\ NodeType /\ ConnType /\ TagOf[c] \in Tags
      /\ (\A u \in Tags : NodeInv(u)) /\ (\A d \in Conns : ConnInv(d))
    BY ZenonT(60) DEF AInv
<1>2. ConnKept(c)
    BY ZenonT(60), <1>1, ConnectionKept
<1>3. UNCHANGED <<life, step, info, userList, newList, named, reg, held, knows, slices,
                  arrays, filled, has>>
    BY ZenonT(60), ConnectionCalls DEF vars, ctlVars, infoVars, limVars
<1>4. NodeType'
    BY ZenonT(60), <1>1, <1>3 DEF NodeType, CtlType, LimType
<1>5. \A u \in Tags : SameNode(u)
    BY ZenonT(60), <1>3 DEF SameNode
<1>6. \A u \in Tags : NodeInv(u)'
    BY ZenonT(60), <1>1, <1>5, OtherNode
<1>7. Alive' => \A d \in Conns : ConnInv(d)'
    BY ZenonT(60), <1>1, <1>2, OtherConn DEF ConnKept
<1>8. UncheckedNeedsTeardown'
    <2> SUFFICES ASSUME NEW d \in Conns,
                        cpc'[d] = "unchecked" \/ (cpc'[d] = "passed" /\ Forbidden(d, due'[d]))
                 PROVE  moved'[d]
        BY ZenonT(60) DEF UncheckedNeedsTeardown, Forbidden
    <2>1. CASE d = c
        BY ZenonT(60), <1>2, <2>1 DEF ConnKept
    <2>2. CASE d # c
        BY ZenonT(60), <1>2, <2>2 DEF ConnKept, Alone, AInv, UncheckedNeedsTeardown
    <2> QED
        BY ZenonT(60), <2>1, <2>2
<1>9. RulePanicNeedsReload'
    BY ZenonT(60), <1>2 DEF ConnKept, RulePanicNeedsReload
<1> QED
    BY ZenonT(60), <1>2, <1>4, <1>6, <1>7, <1>8, <1>9 DEF AInv, ConnKept

LEMMA AdmissionStepInv == Inv /\ AInv /\ [AdmissionNext]_allVars => AInv'
<1> SUFFICES ASSUME Inv, AInv, [AdmissionNext]_allVars PROVE AInv'
    OBVIOUS
<1>1. CASE UNCHANGED allVars
    BY ZenonT(60), <1>1, QuietInv DEF allVars, vars
<1>2. CASE CoreStart
    BY ZenonT(60), <1>2, QuietInv DEF CoreStart, Start
<1>3. CASE CoreClose
    <2>1. \A t \in Tags, core \in Cores : has'[core][t] = None
        BY ZenonT(60), <1>3 DEF CoreClose, Close
    <2> QED
        BY ZenonT(60), <1>3, <2>1, QuietInv DEF CoreClose
<1>4. CASE Alive /\ \E t \in Tags : Controller(t)
    BY ZenonT(60), <1>4, ControllerInv
<1>5. CASE Alive /\ \E c \in Conns : Connection(c)
    BY ZenonT(60), <1>5, ConnectionInv
<1> QED
    BY ZenonT(60), <1>1, <1>2, <1>3, <1>4, <1>5 DEF AdmissionNext

-----------------------------------------------------------------------------
LEMMA AdmissionInvariant == AdmissionSpec => [](Inv /\ AInv)
<1>1. AdmissionInit => Inv /\ AInv
    BY ZenonT(60), AdmissionInitInv, InitInv DEF AdmissionInit
<1>2. Inv /\ AInv /\ [AdmissionNext]_allVars => Inv' /\ AInv'
    BY ZenonT(60), AdmissionStepInv, StepCalls, SelectorStep DEF AInv
<1> QED
    BY <1>1, <1>2, PTL DEF AdmissionSpec

(* The controllers call the selector, under connections that come and go,   *)
(* as Selector says they do: so it has one home for every node and acts as  *)
(* one core.                                                                *)
THEOREM ControllersUseSelector == AdmissionSpec => Spec /\ []OneHome /\ ActsAsOneCore
<1>1. AdmissionInit => Init
    BY ZenonT(60) DEF AdmissionInit
<1>2. AInv /\ [AdmissionNext]_allVars => [Next]_vars
    BY ZenonT(60), StepCalls DEF AInv
<1>3. AdmissionSpec => Spec
    BY <1>1, <1>2, AdmissionInvariant, PTL DEF AdmissionSpec, Spec
<1> QED
    BY <1>3, NodeHasOneHome, SelectorImplementsCore, PTL

(* However connections and the steps of the controllers interleave, one     *)
(* gets past its limiter or a rule only when its node was taken down while  *)
(* it was on its way.                                                       *)
THEOREM ConnectionsAreChecked == AdmissionSpec => []UncheckedNeedsTeardown
<1>1. AInv => UncheckedNeedsTeardown
    BY ZenonT(60) DEF AInv
<1> QED
    BY <1>1, AdmissionInvariant, PTL

(* Only a connection that met a reload panics in rules half published. *)
THEOREM RulesPanicOnlyInReload == AdmissionSpec => []RulePanicNeedsReload
<1>1. AInv => RulePanicNeedsReload
    BY ZenonT(60) DEF AInv
<1> QED
    BY <1>1, AdmissionInvariant, PTL

(* The limiter registered for a node that is up is its controller's, and    *)
(* knows its users.                                                         *)
THEOREM RegisteredLimiterIsCurrent == AdmissionSpec => []LimiterIsCurrent
<1>1. AInv => LimiterIsCurrent
    BY ZenonT(60) DEF AInv, LimiterIsCurrent, NodeInv, Begun, Knows
<1> QED
    BY <1>1, AdmissionInvariant, PTL
=============================================================================
