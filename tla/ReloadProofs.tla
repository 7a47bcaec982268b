---------------------------- MODULE ReloadProofs ----------------------------
(***************************************************************************)
(* For any files, however often the file changes, however many reloads run *)
(* and however their steps fail: the four properties of Reload.  While no  *)
(* two reloads overlap, one reload at most is past its load, and what the  *)
(* cores and the controllers are follows from its step.                    *)
(***************************************************************************)
EXTENDS Reload, TLAPS

Steps == {"none", "sleep", "awake", "done"} \cup Busy
Entry == {"nil", "made", "up", "down"}
Slices == [core : Ids \cup {None}, nodes : Files \cup {None}, entries : Seq(Entry)]
Causes == {"load", "new", "nodes", "delNode"}

WatchType ==
    /\ file \in Files /\ conf \in Files
    /\ edits \in Nat /\ events \in Nat /\ reloads \in Nat /\ age \in Nat
    /\ reloads + events <= edits /\ edits <= MaxEdits
    /\ \A r \in Reloads : r > reloads => rpc[r] = "none"
ReloadType ==
    /\ rpc \in [Reloads -> Steps] /\ ri \in [Reloads -> Nat]
    /\ held \in [Reloads -> Ids \cup {None}]
    /\ \A r \in Reloads : rpc[r] \in {"closeNodes", "startController"} => ri[r] # 0
CoreType ==
    /\ vc \in Ids \cup {None} /\ controllers \in Ids \cup {None}
    /\ core \in [Ids -> {"none", "new", "started", "closed"}]
    /\ slice \in [Ids -> Slices]
    /\ {crashed, overlapped, dropped} \subseteq BOOLEAN
Type == WatchType /\ ReloadType /\ CoreType

(* No step failed that can be fatal later. *)
Fine == failed \cap Causes = {}
NoneUp == \A k \in Ids : Up(k) = {}
NoneOpen == \A k \in Ids : core[k] \notin {"new", "started"}

(* What always holds, *)
Always ==
    /\ \A k \in Ids : Up(k) # {} => slice[k].core = vc /\ k = controllers
    /\ \A k \in Ids : core[k] \in {"new", "started"} => k = vc
    /\ Fine => vc # None /\ conf # Broken /\ ~crashed
(* between the reloads, *)
Rest ==
    /\ (Fine /\ controllers # None) =>
          /\ slice[controllers].core = vc /\ core[vc] = "started"
          /\ \A i \in 1..Len(slice[controllers].entries) : slice[controllers].entries[i] = "up"
    /\ failed = {} =>
          /\ controllers # None /\ slice[controllers].nodes = conf
          /\ Len(slice[controllers].entries) = Len(conf)
(* and at the steps of a reload. *)
Closing(r) ==
    /\ held[r] = controllers
    /\ controllers # None =>
          \A i \in 1..Len(slice[controllers].entries) :
             /\ i < ri[r] => slice[controllers].entries[i] # "up"
             /\ Fine /\ ~(i < ri[r]) => slice[controllers].entries[i] = "up"
    /\ (Fine /\ controllers # None) => slice[controllers].core = vc /\ core[vc] = "started"
    /\ failed = {} => core[vc] = "started"
Starting(r) ==
    /\ controllers = r /\ slice[r].core = vc /\ vc # None /\ core[vc] = "started"
    /\ Fine => \A i \in 1..Len(slice[r].entries) : i < ri[r] => slice[r].entries[i] = "up"
    /\ conf # Broken => slice[r].nodes = conf /\ Len(slice[r].entries) = Len(conf)
At(r) ==
    /\ rpc[r] = "closeNodes" => Closing(r)
    /\ rpc[r] \in {"closeCore", "newCore", "startCore", "startNodes"} => NoneUp /\ controllers = None
    /\ (rpc[r] = "closeCore" /\ failed = {}) => core[vc] = "started"
    /\ rpc[r] = "newCore" => NoneOpen
    /\ rpc[r] = "startCore" => vc # None
    /\ rpc[r] = "startNodes" => vc # None /\ core[vc] = "started"
    /\ rpc[r] = "startController" => Starting(r)

Idle == \A r \in Reloads : rpc[r] \notin Busy
Apart == \A q, r \in Reloads : rpc[q] \in Busy /\ rpc[r] \in Busy => q = r
Good == Always /\ Apart /\ (\A r \in Reloads : At(r)) /\ (Idle => Rest)

(* A change that is not loaded is on its way to be. *)
Fresh ==
    (failed = {} /\ ~dropped) =>
        conf = file \/ events > 0 \/ \E r \in Reloads : rpc[r] \in {"sleep", "awake"}

RInv == Type /\ (~overlapped => Good) /\ Fresh

USE FileAssumption, BoundAssumption, NoneAssumption

-----------------------------------------------------------------------------
(* Writing one entry of a slice changes nothing else. *)
Wrote(s, i, e) ==
    /\ slice' \in [Ids -> Slices]
    /\ slice'[s].core = slice[s].core /\ slice'[s].nodes = slice[s].nodes
    /\ Len(slice'[s].entries) = Len(slice[s].entries)
    /\ slice'[s].entries[i] = e
    /\ \A j \in 1..Len(slice[s].entries) : j # i => slice'[s].entries[j] = slice[s].entries[j]
    /\ \A k \in Ids \ {s} : slice'[k] = slice[k]

LEMMA SliceWrite ==
    ASSUME slice \in [Ids -> Slices], NEW s \in Ids, NEW e \in Entry,
           NEW i \in 1..Len(slice[s].entries), slice' = [slice EXCEPT ![s].entries[i] = e]
    PROVE  Wrote(s, i, e)
<1> DEFINE old == slice[s].entries
           new == [old EXCEPT ![i] = e]
<1>1. slice[s] \in Slices /\ old \in Seq(Entry)
    BY DEF Slices
<1>2. /\ new \in Seq(Entry) /\ Len(new) = Len(old) /\ new[i] = e
      /\ \A j \in 1..Len(old) : j # i => new[j] = old[j]
    BY <1>1
<1>3. slice' = [slice EXCEPT ![s] = [slice[s] EXCEPT !.entries = new]]
    BY ZenonT(60)
<1> HIDE DEF old, new
<1>4. [slice[s] EXCEPT !.entries = new] \in Slices
    BY <1>1, <1>2 DEF Slices
<1>5. /\ slice'[s] = [slice[s] EXCEPT !.entries = new] /\ slice' \in [Ids -> Slices]
      /\ \A k \in Ids \ {s} : slice'[k] = slice[k]
    BY ZenonT(60), <1>3, <1>4
<1>6. /\ slice'[s].core = slice[s].core /\ slice'[s].nodes = slice[s].nodes
      /\ slice'[s].entries = new
    BY <1>1, <1>5 DEF Slices
<1> QED
    BY ZenonT(60), <1>2, <1>5, <1>6 DEF old, Wrote

(* The nodes of a slice that are up, by index. *)
LEMMA UpEntries ==
    ASSUME slice \in [Ids -> Slices], NEW k \in Ids
    PROVE  Up(k) = {i \in 1..Len(slice[k].entries) : slice[k].entries[i] = "up"}
<1>1. slice[k].entries \in Seq(Entry)
    BY DEF Slices
<1>2. DOMAIN slice[k].entries = 1..Len(slice[k].entries)
    BY <1>1
<1> QED
    BY ZenonT(60), <1>2 DEF Up

LEMMA CountOf ==
    ASSUME slice \in [Ids -> Slices], NEW s \in Ids \cup {None}
    PROVE  /\ Count(s) \in Nat
           /\ s \in Ids => Count(s) = Len(slice[s].entries)
           /\ s = None => Count(s) = 0
<1>1. CASE s = None
    BY <1>1 DEF Count
<1>2. CASE s \in Ids
    <2>1. slice[s].entries \in Seq(Entry) /\ s # None
        BY <1>2 DEF Slices
    <2> QED
        BY <1>2, <2>1 DEF Count
<1> QED
    BY <1>1, <1>2

-----------------------------------------------------------------------------
(* A reload goes on to its next step. *)
LEMMA GotoStep ==
    ASSUME WatchType, ReloadType, NEW r \in Reloads, rpc[r] # "none",
           NEW s \in Steps, rpc' = [rpc EXCEPT ![r] = s], reloads' = reloads
    PROVE  /\ rpc' \in [Reloads -> Steps] /\ rpc'[r] = s
           /\ \A q \in Reloads \ {r} : rpc'[q] = rpc[q]
           /\ \A q \in Reloads : q > reloads' => rpc'[q] = "none"
<1>1. /\ rpc' \in [Reloads -> Steps] /\ rpc'[r] = s
      /\ \A q \in Reloads \ {r} : rpc'[q] = rpc[q]
    BY ZenonT(60) DEF ReloadType
<1> QED
    BY ZenonT(60), <1>1 DEF WatchType

LEMMA TypeInit == Init => Type
<1> SUFFICES ASSUME Init PROVE Type
    OBVIOUS
<1> DEFINE first == [core |-> 0, nodes |-> file, entries |-> AllUp(Len(file))]
           none == [core |-> None, nodes |-> None, entries |-> <<>>]
<1>1. 0 \in Ids /\ 0 \in Nat /\ 0 + 0 <= 0 /\ 0 <= MaxEdits /\ Window \in Nat
    BY DEF Ids, Window
<1>2. file \in Files /\ Len(file) \in Nat
    BY ZenonT(60) DEF Init
<1>3. AllUp(Len(file)) \in Seq(Entry) /\ <<>> \in Seq(Entry)
    BY <1>2 DEF AllUp, Entry
<1>4. first \in Slices /\ none \in Slices
    BY ZenonT(60), <1>1, <1>2, <1>3 DEF Slices
<1>5. slice \in [Ids -> Slices]
    <2>1. slice = [k \in Ids |-> IF k = 0 THEN first ELSE none]
        BY ZenonT(60) DEF Init
    <2> HIDE DEF first, none
    <2> QED
        BY ZenonT(60), <1>4, <2>1
<1>6. WatchType /\ ReloadType
    BY ZenonT(60), <1>1, <1>2 DEF Init, WatchType, ReloadType, Steps
<1> QED
    BY ZenonT(60), <1>1, <1>5, <1>6 DEF Init, Type, CoreType

(* A step of a reload leaves the watcher's state well typed. *)
LEMMA WatchKept ==
    ASSUME WatchType, ReloadType, NEW r \in Reloads, rpc[r] # "none",
           NEW s \in Steps, rpc' = rpc \/ rpc' = [rpc EXCEPT ![r] = s],
           UNCHANGED watchVars, conf' \in Files
    PROVE  WatchType' /\ rpc' \in [Reloads -> Steps]
<1>1. UNCHANGED <<file, edits, events, age, reloads>>
    BY ZenonT(60) DEF watchVars
<1>2. CASE rpc' = rpc
    BY ZenonT(60), <1>1, <1>2 DEF WatchType, ReloadType
<1>3. CASE rpc' = [rpc EXCEPT ![r] = s]
    <2>1. /\ rpc' \in [Reloads -> Steps]
          /\ \A q \in Reloads : q > reloads' => rpc'[q] = "none"
        BY ZenonT(60), <1>1, <1>3, GotoStep
    <2> QED
        BY ZenonT(60), <1>1, <2>1 DEF WatchType
<1> QED
    BY ZenonT(60), <1>2, <1>3

LEMMA EditType == ASSUME Type, Edit PROVE Type'
<1>1. /\ edits < MaxEdits /\ edits' = edits + 1 /\ events' = events + 1 /\ file' \in Files
      /\ UNCHANGED <<age, reloads, rpc, ri, held, conf, vc, core, controllers, slice, crashed,
                     overlapped, dropped>>
    BY ZenonT(60) DEF Edit, coreVars, nodeVars, ghostVars
<1>2. /\ edits' \in Nat /\ events' \in Nat
      /\ reloads + events' <= edits' /\ edits' <= MaxEdits
    BY <1>1 DEF Type, WatchType
<1>3. WatchType'
    BY ZenonT(60), <1>1, <1>2 DEF Type, WatchType
<1> QED
    BY ZenonT(60), <1>1, <1>3 DEF Type, ReloadType, CoreType

LEMMA TickType == ASSUME Type, Tick PROVE Type'
<1>1. /\ rpc' = [r \in Reloads |-> IF rpc[r] = "sleep" THEN "awake" ELSE rpc[r]]
      /\ UNCHANGED <<file, edits, events, reloads, ri, held, conf, vc, core, controllers, slice,
                     crashed, overlapped, dropped>>
    BY ZenonT(60) DEF Tick, coreVars, nodeVars, ghostVars
<1>2. age' \in Nat
    BY DEF Type, WatchType, Tick
<1>3. WatchType'
    BY ZenonT(60), <1>1, <1>2 DEF Type, WatchType
<1>4. ReloadType'
    BY ZenonT(60), <1>1 DEF Type, ReloadType, Steps
<1> QED
    BY ZenonT(60), <1>1, <1>3, <1>4 DEF Type, CoreType

LEMMA ReceiveType == ASSUME Type, ReceiveEvent PROVE Type'
<1>1. /\ events > 0 /\ events' = events - 1
      /\ UNCHANGED <<file, edits, ri, held, conf, vc, core, controllers, slice, crashed, overlapped>>
    BY ZenonT(60) DEF ReceiveEvent, coreVars, nodeVars
<1>2. CoreType' /\ file' \in Files /\ conf' \in Files /\ edits' \in Nat
    <2>1. dropped' \in BOOLEAN
        BY ZenonT(60) DEF ReceiveEvent, Type, CoreType
    <2> QED
        BY ZenonT(60), <1>1, <2>1 DEF Type, CoreType, WatchType
<1>3. CASE UNCHANGED <<age, reloads, rpc>>
    <2>1. events' \in Nat /\ reloads' + events' <= edits' /\ edits' <= MaxEdits
        BY <1>1, <1>3 DEF Type, WatchType
    <2>2. WatchType'
        BY ZenonT(60), <1>1, <1>2, <1>3, <2>1 DEF Type, WatchType
    <2> QED
        BY ZenonT(60), <1>1, <1>2, <1>3, <2>2 DEF Type, ReloadType
<1>4. CASE age' = 0 /\ reloads' = reloads + 1 /\ Goto(reloads + 1, "sleep")
    <2> DEFINE n == reloads + 1
    <2>1. /\ events' \in Nat /\ reloads' \in Nat /\ reloads' + events' <= edits' /\ edits' <= MaxEdits
          /\ \A r \in Reloads : r > reloads' => r > reloads /\ r # n
        BY <1>1, <1>4 DEF Type, WatchType, Reloads
    <2> HIDE DEF n
    <2>2. /\ rpc' \in [Reloads -> Steps] /\ \A r \in Reloads : r # n => rpc'[r] = rpc[r]
          /\ n \in Reloads => rpc'[n] = "sleep"
        <3>1. rpc' = [rpc EXCEPT ![n] = "sleep"] /\ "sleep" \in Steps
            BY ZenonT(60), <1>4 DEF Goto, n, Steps
        <3> QED
            BY ZenonT(60), <3>1 DEF Type, ReloadType
    <2>3. WatchType'
        <3>1. age' \in Nat
            BY <1>4
        <3>2. \A r \in Reloads : r > reloads' => rpc'[r] = "none"
            BY ZenonT(60), <2>1, <2>2 DEF Type, WatchType
        <3> QED
            BY ZenonT(60), <1>2, <2>1, <3>1, <3>2 DEF WatchType
    <2>4. ReloadType'
        BY ZenonT(60), <1>1, <2>2 DEF Type, ReloadType
    <2> QED
        BY ZenonT(60), <1>2, <2>3, <2>4 DEF Type
<1> QED
    BY ZenonT(60), <1>3, <1>4 DEF ReceiveEvent

LEMMA LoadType == ASSUME Type, NEW r \in Reloads, Load(r) PROVE Type'
<1>1. /\ rpc[r] = "awake" /\ rpc' = [rpc EXCEPT ![r] = "closeNodes"]
      /\ held' = [held EXCEPT ![r] = controllers] /\ ri' = [ri EXCEPT ![r] = 1]
      /\ dropped' = FALSE /\ overlapped' \in BOOLEAN
      /\ UNCHANGED <<watchVars, vc, core, controllers, slice, crashed>>
    BY ZenonT(60) DEF Load, Goto, coreVars, nodeVars, Type, CoreType
<1>2. conf' \in Files
    BY ZenonT(60) DEF Load, LoadFromPath, Type, WatchType
<1>3. "closeNodes" \in Steps /\ 1 \in Nat /\ 1 # 0
    BY DEF Steps, Busy
<1>4. WatchType' /\ rpc' \in [Reloads -> Steps]
    BY ZenonT(60), <1>1, <1>2, <1>3, WatchKept DEF Type
<1>5. ReloadType'
    BY ZenonT(60), <1>1, <1>3, <1>4 DEF Type, ReloadType, CoreType
<1> QED
    BY ZenonT(60), <1>1, <1>4, <1>5 DEF Type, CoreType

(* The three outcomes of a turn of nodes.Close. *)
CloseEnds(r) ==
    /\ ri[r] > Count(held[r]) /\ controllers' = None /\ rpc' = [rpc EXCEPT ![r] = "closeCore"]
    /\ ri' = [ri EXCEPT ![r] = 0] /\ held' = [held EXCEPT ![r] = None]
    /\ UNCHANGED <<slice, crashed, failed>>
ClosesOne(r) ==
    /\ held[r] \in Ids /\ ri[r] \in 1..Len(slice[held[r]].entries)
    /\ slice' = [slice EXCEPT ![held[r]].entries[ri[r]] = "down"]
    /\ ri' = [ri EXCEPT ![r] = ri[r] + 1]
    /\ UNCHANGED <<rpc, held, controllers, crashed, failed>>
CloseCrashes(r) ==
    /\ held[r] \in Ids /\ ri[r] \in 1..Len(slice[held[r]].entries)
    /\ \/ slice[held[r]].entries[ri[r]] = "up" /\ core[slice[held[r]].core] = "started"
          /\ Fault("delNode")
       \/ ~(slice[held[r]].entries[ri[r]] = "up" /\ core[slice[held[r]].core] = "started")
          /\ UNCHANGED failed
    /\ crashed' = TRUE
    /\ UNCHANGED <<rpc, ri, held, controllers, slice>>

LEMMA CloseNodesSteps ==
    ASSUME Type, NEW r \in Reloads, CloseNodes(r)
    PROVE  /\ rpc[r] = "closeNodes"
           /\ UNCHANGED <<watchVars, conf, vc, core, overlapped, dropped>>
           /\ CloseEnds(r) \/ ClosesOne(r) \/ CloseCrashes(r)
<1> DEFINE s == held[r]
           i == ri[r]
<1>1. rpc[r] = "closeNodes" /\ UNCHANGED <<watchVars, conf, vc, core, overlapped, dropped>>
    BY ZenonT(60) DEF CloseNodes, coreVars, ghostVars
<1>2. s \in Ids \cup {None} /\ i \in Nat /\ i # 0 /\ slice \in [Ids -> Slices]
    BY ZenonT(60), <1>1 DEF Type, ReloadType, CoreType
<1>3. i <= Count(s) => s \in Ids /\ i \in 1..Len(slice[s].entries)
    <2>1. CASE s = None
        BY <1>2, <2>1, CountOf
    <2>2. CASE s \in Ids
        <3>1. Count(s) = Len(slice[s].entries) /\ Count(s) \in Nat
            BY ZenonT(60), <1>2, <2>2, CountOf
        <3> QED
            BY <1>2, <2>2, <3>1
    <2> QED
        BY ZenonT(60), <1>2, <2>1, <2>2
<1> QED
    BY ZenonT(60), <1>1, <1>3
       DEF CloseNodes, CloseEnds, ClosesOne, CloseCrashes, Goto, Crash, nodeVars

LEMMA CloseNodesType == ASSUME Type, NEW r \in Reloads, CloseNodes(r) PROVE Type'
<1>1. /\ rpc[r] = "closeNodes"
      /\ UNCHANGED <<watchVars, conf, vc, core, overlapped, dropped>>
      /\ CloseEnds(r) \/ ClosesOne(r) \/ CloseCrashes(r)
    BY ZenonT(60), CloseNodesSteps
<1>2. "closeCore" \in Steps /\ 0 \in Nat /\ \A n \in Nat : n + 1 \in Nat /\ n + 1 # 0
    BY DEF Steps, Busy
<1>3. WatchType' /\ rpc' \in [Reloads -> Steps]
    <2>1. rpc' = rpc \/ rpc' = [rpc EXCEPT ![r] = "closeCore"]
        BY ZenonT(60), <1>1 DEF CloseEnds, ClosesOne, CloseCrashes
    <2>2. conf' \in Files
        BY ZenonT(60), <1>1 DEF Type, WatchType
    <2> QED
        BY ZenonT(60), <1>1, <1>2, <2>1, <2>2, WatchKept DEF Type
<1>4. CASE CloseEnds(r)
    <2>1. ReloadType'
        BY ZenonT(60), <1>2, <1>3, <1>4 DEF Type, ReloadType, CloseEnds
    <2> QED
        BY ZenonT(60), <1>1, <1>3, <1>4, <2>1 DEF Type, CoreType, CloseEnds
<1>5. CASE ClosesOne(r)
    <2>1. slice' \in [Ids -> Slices]
        <3>1. "down" \in Entry /\ slice \in [Ids -> Slices]
            BY ZenonT(60) DEF Entry, Type, CoreType
        <3> QED
            BY ZenonT(60), <1>5, <3>1, SliceWrite DEF ClosesOne, Wrote
    <2>2. ReloadType'
        BY ZenonT(60), <1>2, <1>5 DEF Type, ReloadType, ClosesOne
    <2> QED
        BY ZenonT(60), <1>1, <1>3, <1>5, <2>1, <2>2 DEF Type, CoreType, ClosesOne
<1>6. CASE CloseCrashes(r)
    <2>1. ReloadType'
        BY ZenonT(60), <1>6 DEF Type, ReloadType, CloseCrashes
    <2> QED
        BY ZenonT(60), <1>1, <1>3, <1>6, <2>1 DEF Type, CoreType, CloseCrashes
<1> QED
    BY ZenonT(60), <1>1, <1>4, <1>5, <1>6

(* The steps on the core: closed, made and started. *)
LEMMA CoreStepType ==
    ASSUME Type, NEW r \in Reloads, CloseCore(r) \/ NewCore(r) \/ StartCore(r) PROVE Type'
<1>1. /\ rpc[r] \in {"closeCore", "newCore", "startCore"}
      /\ UNCHANGED <<watchVars, ri, held, conf, controllers, slice, overlapped, dropped>>
      /\ crashed' = crashed \/ crashed' = TRUE
    BY ZenonT(60) DEF CloseCore, NewCore, StartCore, Crash, nodeVars, ghostVars
<1>2. \/ rpc' = rpc
      \/ \E s \in {"newCore", "startCore", "startNodes", "done"} : rpc' = [rpc EXCEPT ![r] = s]
    BY ZenonT(60) DEF CloseCore, NewCore, StartCore, Goto
<1>3. PICK s \in {"newCore", "startCore", "startNodes", "done"} :
          rpc' = rpc \/ rpc' = [rpc EXCEPT ![r] = s]
    BY ZenonT(60), <1>2
<1>4. WatchType' /\ rpc' \in [Reloads -> Steps]
    <2>1. s \in Steps /\ rpc[r] # "none"
        BY ZenonT(60), <1>1 DEF Steps, Busy
    <2>2. conf' \in Files
        BY ZenonT(60), <1>1 DEF Type, WatchType
    <2> QED
        BY ZenonT(60), <1>1, <1>3, <2>1, <2>2, WatchKept DEF Type
<1>5. ReloadType'
    <2>1. \A q \in Reloads : rpc'[q] \in {"closeNodes", "startController"} => ri[q] # 0
        BY ZenonT(60), <1>3 DEF Type, ReloadType
    <2> QED
        BY ZenonT(60), <1>1, <1>4, <2>1 DEF Type, ReloadType
<1>6. vc' \in Ids \cup {None} /\ core' \in [Ids -> {"none", "new", "started", "closed"}]
    <2>1. r \in Ids
        BY DEF Reloads, Ids
    <2>2. vc' = vc \/ vc' = r \/ vc' = None
        BY ZenonT(60) DEF CloseCore, NewCore, StartCore, coreVars
    <2>3. \/ core' = core \/ core' = [core EXCEPT ![vc] = "closed"]
          \/ core' = [core EXCEPT ![r] = "new"] \/ core' = [core EXCEPT ![vc] = "started"]
        BY ZenonT(60) DEF CloseCore, NewCore, StartCore, coreVars
    <2> QED
        BY ZenonT(60), <2>1, <2>2, <2>3 DEF Type, CoreType
<1> QED
    BY ZenonT(60), <1>1, <1>4, <1>5, <1>6 DEF Type, CoreType

(* nodes.Start makes as many nil controllers as the file has nodes. *)
Made(r) ==
    /\ slice'[r].core = vc /\ slice'[r].nodes = conf
    /\ \A i \in 1..Len(slice'[r].entries) : slice'[r].entries[i] = "nil"
    /\ conf # Broken => Len(slice'[r].entries) = Len(conf)
    /\ \A k \in Ids \ {r} : slice'[k] = slice[k]

LEMMA StartNodesStep ==
    ASSUME Type, NEW r \in Reloads, StartNodes(r)
    PROVE  /\ rpc[r] = "startNodes" /\ rpc' = [rpc EXCEPT ![r] = "startController"]
           /\ controllers' = r /\ ri' = [ri EXCEPT ![r] = 1]
           /\ UNCHANGED <<watchVars, held, conf, vc, core, crashed, failed, overlapped, dropped>>
           /\ slice' \in [Ids -> Slices] /\ r \in Ids /\ Made(r)
<1> DEFINE n == IF conf = Broken THEN 0 ELSE Len(conf)
           e == [i \in 1..n |-> "nil"]
           new == [core |-> vc, nodes |-> conf, entries |-> e]
<1>1. /\ rpc[r] = "startNodes" /\ rpc' = [rpc EXCEPT ![r] = "startController"]
      /\ controllers' = r /\ ri' = [ri EXCEPT ![r] = 1]
      /\ UNCHANGED <<watchVars, held, conf, vc, core, crashed, failed, overlapped, dropped>>
      /\ slice' = [slice EXCEPT ![r] = new]
    BY ZenonT(60) DEF StartNodes, Goto, coreVars, ghostVars
<1>2. r \in Ids
    BY DEF Reloads, Ids
<1>3. n \in Nat /\ (conf # Broken => n = Len(conf))
    BY ZenonT(60) DEF Type, WatchType
<1> HIDE DEF n
<1>4. e \in Seq(Entry) /\ Len(e) = n /\ \A i \in 1..n : e[i] = "nil"
    BY <1>3 DEF Entry
<1> HIDE DEF e
<1>5. /\ new \in Slices /\ new.core = vc /\ new.nodes = conf /\ new.entries = e
    BY <1>4 DEF Type, WatchType, CoreType, Slices
<1> HIDE DEF new
<1>6. /\ slice' \in [Ids -> Slices] /\ slice'[r] = new
      /\ \A k \in Ids \ {r} : slice'[k] = slice[k]
    BY ZenonT(60), <1>1, <1>2, <1>5 DEF Type, CoreType
<1> QED
    BY ZenonT(60), <1>1, <1>2, <1>3, <1>4, <1>5, <1>6 DEF Made

LEMMA StartNodesType == ASSUME Type, NEW r \in Reloads, StartNodes(r) PROVE Type'
<1>1. /\ rpc[r] = "startNodes" /\ rpc' = [rpc EXCEPT ![r] = "startController"]
      /\ controllers' = r /\ ri' = [ri EXCEPT ![r] = 1]
      /\ UNCHANGED <<watchVars, held, conf, vc, core, crashed, overlapped, dropped>>
      /\ slice' \in [Ids -> Slices] /\ r \in Ids
    BY ZenonT(60), StartNodesStep
<1>2. "startController" \in Steps /\ 1 \in Nat /\ 1 # 0
    BY DEF Steps, Busy
<1>3. WatchType' /\ rpc' \in [Reloads -> Steps]
    <2>1. conf' \in Files
        BY ZenonT(60), <1>1 DEF Type, WatchType
    <2> QED
        BY ZenonT(60), <1>1, <1>2, <2>1, WatchKept DEF Type
<1>4. ReloadType'
    BY ZenonT(60), <1>1, <1>2, <1>3 DEF Type, ReloadType
<1> QED
    BY ZenonT(60), <1>1, <1>3, <1>4 DEF Type, CoreType

(* The three outcomes of a turn of nodes.Start. *)
StartEnds(r) ==
    /\ ri[r] > Count(r) /\ rpc' = [rpc EXCEPT ![r] = "done"] /\ ri' = [ri EXCEPT ![r] = 0]
    /\ UNCHANGED <<slice, failed>>
CoreServes(r) == slice[r].core # None /\ core[slice[r].core] = "started"
StartsOne(r) ==
    /\ ri[r] \in 1..Len(slice[r].entries) /\ CoreServes(r)
    /\ slice' = [slice EXCEPT ![r].entries[ri[r]] = "up"]
    /\ ri' = [ri EXCEPT ![r] = ri[r] + 1]
    /\ UNCHANGED <<rpc, failed>>
StartFails(r) ==
    /\ ri[r] \in 1..Len(slice[r].entries)
    /\ \E e \in Entry : slice' = [slice EXCEPT ![r].entries[ri[r]] = e]
    /\ CoreServes(r) => Fault("nodes")
    /\ ~CoreServes(r) => UNCHANGED failed
    /\ rpc' = [rpc EXCEPT ![r] = "done"] /\ ri' = [ri EXCEPT ![r] = 0]

LEMMA StartControllerSteps ==
    ASSUME Type, NEW r \in Reloads, StartController(r)
    PROVE  /\ rpc[r] = "startController" /\ r \in Ids
           /\ UNCHANGED <<watchVars, held, conf, vc, core, controllers, crashed,
                          overlapped, dropped>>
           /\ StartEnds(r) \/ StartsOne(r) \/ StartFails(r)
<1>1. /\ rpc[r] = "startController"
      /\ UNCHANGED <<watchVars, held, conf, vc, core, controllers, crashed, overlapped, dropped>>
    BY ZenonT(60) DEF StartController, coreVars, ghostVars
<1>2. r \in Ids
    BY DEF Reloads, Ids
<1>3. Count(r) = Len(slice[r].entries) /\ Count(r) \in Nat /\ ri[r] \in Nat /\ ri[r] # 0
    BY ZenonT(60), <1>1, <1>2, CountOf DEF Type, ReloadType, CoreType
<1>4. ri[r] <= Count(r) => ri[r] \in 1..Len(slice[r].entries)
    BY <1>3
<1>5. {"nil", "made", "up"} \subseteq Entry
    BY ZenonT(60) DEF Entry
<1> QED
    BY ZenonT(60), <1>1, <1>2, <1>4, <1>5
       DEF StartController, StartEnds, StartsOne, StartFails, CoreServes, Goto

LEMMA StartControllerType == ASSUME Type, NEW r \in Reloads, StartController(r) PROVE Type'
<1>1. /\ rpc[r] = "startController" /\ r \in Ids
      /\ UNCHANGED <<watchVars, held, conf, vc, core, controllers, crashed, overlapped, dropped>>
      /\ StartEnds(r) \/ StartsOne(r) \/ StartFails(r)
    BY ZenonT(60), StartControllerSteps
<1>2. "done" \in Steps /\ 0 \in Nat /\ \A n \in Nat : n + 1 \in Nat /\ n + 1 # 0
    BY DEF Steps
<1>3. \/ rpc' = rpc /\ ri' = [ri EXCEPT ![r] = ri[r] + 1]
      \/ rpc' = [rpc EXCEPT ![r] = "done"] /\ ri' = [ri EXCEPT ![r] = 0]
    BY ZenonT(60), <1>1 DEF StartEnds, StartsOne, StartFails
<1>4. WatchType' /\ rpc' \in [Reloads -> Steps]
    <2>1. conf' \in Files /\ rpc[r] # "none"
        BY ZenonT(60), <1>1 DEF Type, WatchType
    <2> QED
        BY ZenonT(60), <1>1, <1>2, <1>3, <2>1, WatchKept DEF Type
<1>5. ReloadType'
    BY ZenonT(60), <1>1, <1>2, <1>3, <1>4 DEF Type, ReloadType
<1>6. slice' \in [Ids -> Slices]
    <2>1. slice \in [Ids -> Slices] /\ "up" \in Entry
        BY ZenonT(60) DEF Type, CoreType, Entry
    <2>2. CASE StartEnds(r)
        BY ZenonT(60), <2>1, <2>2 DEF StartEnds
    <2>3. CASE StartsOne(r) \/ StartFails(r)
        <3>1. PICK e \in Entry : slice' = [slice EXCEPT ![r].entries[ri[r]] = e]
            BY ZenonT(60), <2>1, <2>3 DEF StartsOne, StartFails
        <3>2. ri[r] \in 1..Len(slice[r].entries)
            BY ZenonT(60), <2>3 DEF StartsOne, StartFails
        <3> QED
            BY ZenonT(60), <1>1, <2>1, <3>1, <3>2, SliceWrite DEF Wrote
    <2> QED
        BY ZenonT(60), <1>1, <2>2, <2>3
<1> QED
    BY ZenonT(60), <1>1, <1>4, <1>5, <1>6 DEF Type, CoreType

LEMMA TypeStep == Type /\ [Next]_vars => Type'
<1> SUFFICES ASSUME Type, [Next]_vars PROVE Type'
    OBVIOUS
<1>1. CASE UNCHANGED vars
    BY ZenonT(60), <1>1
       DEF vars, watchVars, coreVars, nodeVars, ghostVars, Type, WatchType, ReloadType, CoreType
<1>2. CASE \E r \in Reloads : Reload(r)
    BY ZenonT(60), <1>2, LoadType, CloseNodesType, CoreStepType, StartNodesType,
       StartControllerType DEF Reload
<1> QED
    BY ZenonT(60), <1>1, <1>2, EditType, TickType, ReceiveType DEF Next

-----------------------------------------------------------------------------
(* Only the reload that is past its load can disturb what Good says. *)
LEMMA OneAtWork ==
    ASSUME NEW r \in Reloads, \A q \in Reloads \ {r} : rpc[q] \notin Busy /\ rpc'[q] = rpc[q],
           Always', At(r)', rpc'[r] \notin Busy => Rest'
    PROVE  Good'
<1>1. \A q \in Reloads \ {r} : rpc'[q] \notin Busy
    BY ZenonT(60)
<1>2. Apart'
    BY ZenonT(60), <1>1 DEF Apart
<1>3. \A q \in Reloads \ {r} : At(q)'
    BY ZenonT(60), <1>1 DEF At, Busy
<1>4. Idle' => Rest'
    BY ZenonT(60) DEF Idle
<1> QED
    BY ZenonT(60), <1>2, <1>3, <1>4 DEF Good

LEMMA InitGood == Init => Good /\ Fresh
<1> SUFFICES ASSUME Init PROVE Good /\ Fresh
    OBVIOUS
<1>1. Type
    BY ZenonT(60), TypeInit
<1>2. 0 \in Ids /\ file \in Files \ {Broken} /\ Len(file) \in Nat
    BY DEF Ids, Init
<1>3. /\ slice[0].core = 0 /\ slice[0].nodes = file /\ slice[0].entries = AllUp(Len(file))
      /\ \A k \in Ids \ {0} : slice[k].entries = <<>>
    BY ZenonT(60), <1>2 DEF Init
<1>4. /\ Len(AllUp(Len(file))) = Len(file)
      /\ \A i \in 1..Len(file) : AllUp(Len(file))[i] = "up"
    BY <1>2 DEF AllUp
<1>5. \A k \in Ids \ {0} : Up(k) = {}
    <2>1. DOMAIN <<>> = {}
        OBVIOUS
    <2> QED
        BY ZenonT(60), <1>3, <2>1 DEF Up
<1>6. Always
    <2>1. vc # None
        BY ZenonT(60), <1>2 DEF Init
    <2> QED
        BY ZenonT(60), <1>2, <1>3, <1>5, <2>1 DEF Always, Init
<1>7. Rest
    BY ZenonT(60), <1>2, <1>3, <1>4 DEF Rest, Init
<1>8. Apart /\ \A r \in Reloads : At(r)
    BY ZenonT(60) DEF Init, Apart, At, Busy
<1> QED
    BY ZenonT(60), <1>6, <1>7, <1>8 DEF Good, Fresh, Init

(* The state Good speaks of is untouched by the watcher and by time. *)
LEMMA WatchGood == ASSUME Type, Good, Edit \/ Tick \/ ReceiveEvent PROVE Good'
<1>1. UNCHANGED <<ri, held, conf, vc, core, controllers, slice, crashed, failed>>
    BY ZenonT(60) DEF Edit, Tick, ReceiveEvent, coreVars, nodeVars
<1>2. \A r \in Reloads : rpc'[r] = rpc[r] \/ (rpc[r] \notin Busy /\ rpc'[r] \in {"sleep", "awake"})
    <2>1. CASE Edit
        BY ZenonT(60), <2>1 DEF Edit
    <2>2. CASE Tick
        BY ZenonT(60), <2>2 DEF Tick, Busy
    <2>3. CASE ReceiveEvent
        <3>1. rpc \in [Reloads -> Steps]
            BY ZenonT(60) DEF Type, ReloadType
        <3>2. reloads + 1 \in Reloads => rpc[reloads + 1] = "none"
            <4>1. reloads + 1 > reloads
                BY DEF Type, WatchType
            <4> QED
                BY ZenonT(60), <4>1 DEF Type, WatchType
        <3>3. rpc' = rpc \/ rpc' = [rpc EXCEPT ![reloads + 1] = "sleep"]
            BY ZenonT(60), <2>3 DEF ReceiveEvent, Goto
        <3> QED
            BY ZenonT(60), <3>1, <3>2, <3>3 DEF Busy
    <2> QED
        BY ZenonT(60), <2>1, <2>2, <2>3
<1>3. \A r \in Reloads : rpc'[r] \in Busy <=> rpc[r] \in Busy
    BY ZenonT(60), <1>2 DEF Busy
<1>4. Always' /\ Apart' /\ (Idle' => Rest')
    <2>1. \A k \in Ids : Up(k)' = Up(k)
        BY ZenonT(60), <1>1 DEF Up
    <2> QED
        BY ZenonT(60), <1>1, <1>3, <2>1 DEF Good, Always, Apart, Idle, Rest, Fine
<1>5. ASSUME NEW r \in Reloads PROVE At(r)'
    <2>1. CASE rpc'[r] = rpc[r]
        <3>1. (NoneUp => NoneUp') /\ (NoneOpen => NoneOpen')
            BY ZenonT(60), <1>1 DEF NoneUp, NoneOpen, Up
        <3>2. (Closing(r) => Closing(r)') /\ (Starting(r) => Starting(r)')
            BY ZenonT(60), <1>1 DEF Closing, Starting, Fine
        <3> QED
            BY ZenonT(60), <1>1, <2>1, <3>1, <3>2 DEF Good, At
    <2>2. CASE rpc'[r] \in {"sleep", "awake"}
        BY ZenonT(60), <2>2 DEF At
    <2> QED
        BY ZenonT(60), <1>2, <2>1, <2>2
<1> QED
    BY ZenonT(60), <1>4, <1>5 DEF Good

(* The other reloads, seen from a reload that is past its load. *)
LEMMA OthersRest ==
    ASSUME Type, Good, NEW r \in Reloads, rpc[r] \in Busy,
           NEW s, rpc' = rpc \/ rpc' = [rpc EXCEPT ![r] = s]
    PROVE  \A q \in Reloads \ {r} : rpc[q] \notin Busy /\ rpc'[q] = rpc[q]
BY ZenonT(60) DEF Type, ReloadType, Good, Apart

(* A fault is remembered. *)
LEMMA FaultKept ==
    ASSUME NEW kind, Fault(kind)
    PROVE  failed \subseteq failed' /\ failed' # {} /\ (kind \in Causes => ~Fine')
BY ZenonT(60) DEF Fault, Fine

LEMMA LoadGood ==
    ASSUME Type, Good, NEW r \in Reloads, Load(r), ~overlapped' PROVE Good'
<1>1. /\ rpc' = [rpc EXCEPT ![r] = "closeNodes"]
      /\ held' = [held EXCEPT ![r] = controllers] /\ ri' = [ri EXCEPT ![r] = 1]
      /\ UNCHANGED <<vc, core, controllers, slice, crashed>>
    BY ZenonT(60) DEF Load, Goto, coreVars, nodeVars
<1>2. Idle
    BY ZenonT(60) DEF Load, Idle
<1>3. Rest /\ Always
    BY ZenonT(60), <1>2 DEF Good
<1>4. (Fine' => Fine /\ conf' # Broken) /\ (failed' = {} => failed = {})
    BY ZenonT(60) DEF Load, LoadFromPath, Fine, Causes
<1>5. /\ rpc'[r] = "closeNodes" /\ held'[r] = controllers /\ ri'[r] = 1
      /\ \A q \in Reloads \ {r} : rpc[q] \notin Busy /\ rpc'[q] = rpc[q]
    BY ZenonT(60), <1>1, <1>2 DEF Type, ReloadType, Idle
<1>6. Always'
    <2>1. \A k \in Ids : Up(k)' = Up(k)
        BY ZenonT(60), <1>1 DEF Up
    <2> QED
        BY ZenonT(60), <1>1, <1>3, <1>4, <2>1 DEF Always
<1>7. Closing(r)'
    <2>1. \A n : \A i \in 1..n : ~(i < 1)
        OBVIOUS
    <2>2. controllers' # None =>
             \A i \in 1..Len(slice'[controllers'].entries) :
                 ~(i < ri'[r]) /\ (Fine' => slice'[controllers'].entries[i] = "up")
        BY ZenonT(60), <1>1, <1>3, <1>4, <1>5, <2>1 DEF Rest
    <2>3. /\ (Fine' /\ controllers' # None) => slice'[controllers'].core = vc' /\ core'[vc'] = "started"
          /\ failed' = {} => core'[vc'] = "started"
        <3>1. failed = {} => Fine
            BY ZenonT(60) DEF Fine
        <3> QED
            BY ZenonT(60), <1>1, <1>3, <1>4, <3>1 DEF Rest
    <2> QED
        BY ZenonT(60), <1>1, <1>5, <2>2, <2>3 DEF Closing
<1>8. At(r)'
    BY ZenonT(60), <1>5, <1>7 DEF At
<1> QED
    BY ZenonT(60), <1>5, <1>6, <1>8, OneAtWork DEF Busy

LEMMA CloseNodesGood ==
    ASSUME Type, Good, NEW r \in Reloads, CloseNodes(r) PROVE Good'
<1>1. /\ rpc[r] = "closeNodes" /\ UNCHANGED <<conf, vc, core>>
      /\ CloseEnds(r) \/ ClosesOne(r) \/ CloseCrashes(r)
    BY ZenonT(60), CloseNodesSteps
<1>2. Closing(r) /\ Always
    BY ZenonT(60), <1>1 DEF Good, At
<1>3. \A q \in Reloads \ {r} : rpc[q] \notin Busy /\ rpc'[q] = rpc[q]
    <2>1. rpc' = rpc \/ rpc' = [rpc EXCEPT ![r] = "closeCore"]
        BY ZenonT(60), <1>1 DEF CloseEnds, ClosesOne, CloseCrashes
    <2>2. rpc[r] \in Busy
        BY ZenonT(60), <1>1 DEF Busy
    <2> QED
        BY ZenonT(60), <2>1, <2>2, OthersRest
<1>4. /\ slice \in [Ids -> Slices] /\ controllers \in Ids \cup {None}
      /\ rpc \in [Reloads -> Steps] /\ ri \in [Reloads -> Nat] /\ held[r] = controllers
    BY ZenonT(60), <1>2 DEF Type, CoreType, ReloadType, Closing
<1>5. CASE CloseEnds(r)
    <2>1. controllers \in Ids => \A i \in 1..Len(slice[controllers].entries) : i < ri[r]
        <3>1. SUFFICES ASSUME controllers \in Ids,
                              NEW i \in 1..Len(slice[controllers].entries)
                       PROVE  i < ri[r]
            OBVIOUS
        <3>2. Count(controllers) = Len(slice[controllers].entries) /\ Count(controllers) \in Nat
            BY ZenonT(60), <1>4, <3>1, CountOf
        <3>3. ri[r] > Count(controllers) /\ ri[r] \in Nat
            BY ZenonT(60), <1>4, <1>5 DEF CloseEnds
        <3> QED
            BY <3>2, <3>3
    <2>2. NoneUp
        <3>1. controllers \in Ids => Up(controllers) = {}
            <4>1. controllers \in Ids => controllers # None
                OBVIOUS
            <4> QED
                BY ZenonT(60), <1>2, <1>4, <2>1, <4>1, UpEntries DEF Closing
        <3> QED
            BY ZenonT(60), <1>2, <3>1 DEF NoneUp, Always
    <2>3. NoneUp' /\ controllers' = None /\ rpc'[r] = "closeCore" /\ UNCHANGED <<failed, crashed>>
        BY ZenonT(60), <1>4, <1>5, <2>2 DEF CloseEnds, NoneUp, Up
    <2>4. Always'
        BY ZenonT(60), <1>1, <1>2, <2>3 DEF Always, NoneUp, Fine
    <2>5. At(r)'
        BY ZenonT(60), <1>1, <1>2, <2>3 DEF At, Closing
    <2> QED
        BY ZenonT(60), <1>3, <2>3, <2>4, <2>5, OneAtWork DEF Busy
<1>6. CASE ClosesOne(r)
    <2>1. PICK s \in Ids :
             /\ s = controllers /\ s # None /\ ri[r] \in 1..Len(slice[s].entries)
             /\ slice' = [slice EXCEPT ![s].entries[ri[r]] = "down"]
             /\ rpc' = rpc /\ UNCHANGED <<held, controllers, crashed, failed>>
        BY ZenonT(60), <1>4, <1>6 DEF ClosesOne
    <2>2. /\ slice' \in [Ids -> Slices] /\ slice'[s].core = slice[s].core
          /\ Len(slice'[s].entries) = Len(slice[s].entries)
          /\ slice'[s].entries[ri[r]] = "down"
          /\ \A j \in 1..Len(slice[s].entries) :
                j # ri[r] => slice'[s].entries[j] = slice[s].entries[j]
          /\ \A k \in Ids \ {s} : slice'[k] = slice[k]
        <3>1. "down" \in Entry
            BY ZenonT(60) DEF Entry
        <3>2. /\ slice \in [Ids -> Slices] /\ ri[r] \in 1..Len(slice[s].entries)
              /\ slice' = [slice EXCEPT ![s].entries[ri[r]] = "down"]
            BY ZenonT(60), <1>4, <2>1
        <3>3. Wrote(s, ri[r], "down")
            BY ZenonT(60), <3>1, <3>2, SliceWrite
        <3> QED
            BY ZenonT(60), <3>3 DEF Wrote
    <2>3. ri'[r] = ri[r] + 1
        BY ZenonT(60), <1>4, <1>6 DEF ClosesOne
    <2>4. \A k \in Ids : Up(k)' # {} => Up(k) # {}
        <3>1. \A k \in Ids \ {s} : Up(k)' = Up(k)
            BY ZenonT(60), <2>2 DEF Up
        <3>2. Up(s)' = {i \in 1..Len(slice'[s].entries) : slice'[s].entries[i] = "up"}
            <4>1. \A k \in Ids : slice'[k].entries \in Seq(Entry)
                BY <2>2 DEF Slices
            <4>2. DOMAIN slice'[s].entries = 1..Len(slice'[s].entries)
                BY <2>1, <4>1
            <4> QED
                BY ZenonT(60), <4>2 DEF Up
        <3>3. Up(s) = {i \in 1..Len(slice[s].entries) : slice[s].entries[i] = "up"}
            BY ZenonT(60), <1>4, <2>1, UpEntries
        <3>4. Up(s)' \subseteq Up(s)
            BY ZenonT(60), <2>2, <3>2, <3>3
        <3> QED
            BY ZenonT(60), <3>1, <3>4
    <2>5. Always'
        <3>1. \A k \in Ids : Up(k)' # {} => slice'[k].core = vc' /\ k = controllers'
            BY ZenonT(60), <1>1, <1>2, <2>1, <2>2, <2>4 DEF Always
        <3> QED
            BY ZenonT(60), <1>1, <1>2, <2>1, <3>1 DEF Always, Fine
    <2>6. Closing(r)'
        <3>1. \A i \in 1..Len(slice[s].entries) : i < ri[r] + 1 <=> i < ri[r] \/ i = ri[r]
            BY <2>1
        <3>2. Fine' = Fine
            BY ZenonT(60), <2>1 DEF Fine
        <3>3. \A i \in 1..Len(slice'[s].entries) :
                 /\ i < ri'[r] => slice'[s].entries[i] # "up"
                 /\ Fine' /\ ~(i < ri'[r]) => slice'[s].entries[i] = "up"
            <4>1. \A i \in 1..Len(slice[s].entries) :
                     /\ i < ri[r] => slice[s].entries[i] # "up"
                     /\ Fine /\ ~(i < ri[r]) => slice[s].entries[i] = "up"
                BY ZenonT(60), <1>2, <2>1 DEF Closing
            <4> QED
                BY ZenonT(60), <2>2, <2>3, <3>1, <3>2, <4>1
        <3> QED
            BY ZenonT(60), <1>1, <1>2, <2>1, <2>2, <3>2, <3>3 DEF Closing
    <2>7. At(r)'
        BY ZenonT(60), <1>1, <2>1, <2>6 DEF At
    <2> QED
        BY ZenonT(60), <1>1, <1>3, <2>1, <2>5, <2>7, OneAtWork DEF Busy
<1>7. CASE CloseCrashes(r)
    <2>1. /\ controllers \in Ids /\ controllers # None
          /\ ri[r] \in 1..Len(slice[controllers].entries)
          /\ UNCHANGED <<rpc, ri, held, controllers, slice>>
        BY ZenonT(60), <1>4, <1>7 DEF CloseCrashes
    <2>2. failed \subseteq failed' /\ ~Fine'
        <3>1. CASE ~Fine
            BY ZenonT(60), <1>7, <3>1, FaultKept DEF CloseCrashes, Fine
        <3>2. CASE Fine
            <4>1. ~(ri[r] < ri[r])
                BY <2>1
            <4>2. slice[controllers].entries[ri[r]] = "up" /\ core[slice[controllers].core] = "started"
                BY ZenonT(60), <1>2, <2>1, <3>2, <4>1 DEF Closing
            <4>3. Fault("delNode") /\ "delNode" \in Causes
                BY ZenonT(60), <1>4, <1>7, <4>2 DEF CloseCrashes, Causes
            <4> QED
                BY ZenonT(60), <4>3, FaultKept
        <3> QED
            BY ZenonT(60), <3>1, <3>2
    <2>3. Always'
        <3>1. \A k \in Ids : Up(k)' = Up(k)
            BY ZenonT(60), <2>1 DEF Up
        <3> QED
            BY ZenonT(60), <1>1, <1>2, <2>1, <2>2, <3>1 DEF Always
    <2>4. At(r)'
        <3>1. Closing(r)'
            BY ZenonT(60), <1>1, <1>2, <2>1, <2>2 DEF Closing
        <3> QED
            BY ZenonT(60), <1>1, <2>1, <3>1 DEF At
    <2> QED
        BY ZenonT(60), <1>1, <1>3, <2>1, <2>3, <2>4, OneAtWork DEF Busy
<1> QED
    BY ZenonT(60), <1>1, <1>5, <1>6, <1>7

(* With no node up, what Always says is about the core alone. *)
LEMMA NoneUpAlways ==
    ASSUME NoneUp, UNCHANGED slice,
           \A k \in Ids : core'[k] \in {"new", "started"} => k = vc',
           Fine' => vc' # None /\ conf' # Broken /\ ~crashed'
    PROVE  Always' /\ NoneUp'
<1>1. NoneUp'
    BY ZenonT(60) DEF NoneUp, Up
<1> QED
    BY ZenonT(60), <1>1 DEF Always, NoneUp

LEMMA CloseCoreGood ==
    ASSUME Type, Good, ~crashed, NEW r \in Reloads, CloseCore(r) PROVE Good'
<1>1. rpc[r] = "closeCore" /\ rpc[r] \in Busy /\ UNCHANGED <<conf, vc, controllers, slice>>
    BY ZenonT(60) DEF CloseCore, nodeVars, Busy
<1>2. /\ Always /\ NoneUp /\ controllers = None /\ (failed = {} => core[vc] = "started")
      /\ rpc \in [Reloads -> Steps] /\ core \in [Ids -> {"none", "new", "started", "closed"}]
    BY ZenonT(60), <1>1 DEF Good, At, Type, ReloadType, CoreType
<1>3. CASE vc = None /\ crashed' = TRUE /\ UNCHANGED <<rpc, core, failed>>
    <2>1. ~Fine'
        BY ZenonT(60), <1>2, <1>3 DEF Always, Fine
    <2>2. Always' /\ NoneUp'
        BY ZenonT(60), <1>1, <1>2, <1>3, <2>1, NoneUpAlways DEF Always
    <2>3. At(r)'
        BY ZenonT(60), <1>1, <1>2, <1>3, <2>2 DEF At
    <2> QED
        BY ZenonT(60), <1>1, <1>3, <2>2, <2>3, OthersRest, OneAtWork
<1>4. CASE /\ vc # None /\ rpc' = [rpc EXCEPT ![r] = "newCore"]
           /\ core' = [core EXCEPT ![vc] = "closed"] /\ UNCHANGED <<crashed, failed>>
    <2>1. rpc'[r] = "newCore" /\ NoneOpen'
        BY ZenonT(60), <1>2, <1>4 DEF Always, NoneOpen
    <2>2. Always' /\ NoneUp'
        BY ZenonT(60), <1>1, <1>2, <1>4, <2>1, NoneUpAlways DEF Always, Fine, NoneOpen
    <2>3. At(r)'
        BY ZenonT(60), <1>1, <1>2, <2>1, <2>2 DEF At
    <2> QED
        BY ZenonT(60), <1>1, <1>4, <2>1, <2>2, <2>3, OthersRest, OneAtWork DEF Busy
<1>5. CASE /\ vc # None /\ rpc' = [rpc EXCEPT ![r] = "done"] /\ UNCHANGED <<core, crashed>>
           /\ IF core[vc] = "closed" THEN UNCHANGED failed ELSE Fault("close")
    <2>1. rpc'[r] = "done" /\ failed \subseteq failed' /\ failed' # {}
        BY ZenonT(60), <1>2, <1>5, FaultKept
    <2>2. Always' /\ NoneUp'
        <3>1. Fine' => Fine
            BY ZenonT(60), <2>1 DEF Fine
        <3> QED
            BY ZenonT(60), <1>1, <1>2, <1>5, <3>1, NoneUpAlways DEF Always
    <2>3. At(r)' /\ Rest'
        BY ZenonT(60), <1>1, <1>2, <2>1 DEF At, Rest
    <2> QED
        BY ZenonT(60), <1>1, <1>5, <2>2, <2>3, OthersRest, OneAtWork
<1> QED
    BY ZenonT(60), <1>3, <1>4, <1>5 DEF CloseCore, Goto, Crash

LEMMA NewCoreGood ==
    ASSUME Type, Good, ~crashed, NEW r \in Reloads, NewCore(r) PROVE Good'
<1>1. /\ rpc[r] = "newCore" /\ rpc[r] \in Busy /\ UNCHANGED <<conf, controllers, slice>>
      /\ r \in Ids /\ r # None
    <2>1. r \in Ids
        BY DEF Reloads, Ids
    <2> QED
        BY ZenonT(60), <2>1 DEF NewCore, nodeVars, Busy
<1>2. /\ Always /\ NoneUp /\ controllers = None /\ NoneOpen
      /\ rpc \in [Reloads -> Steps] /\ core \in [Ids -> {"none", "new", "started", "closed"}]
    BY ZenonT(60), <1>1 DEF Good, At, Type, ReloadType, CoreType
<1>3. CASE /\ conf # Broken /\ vc' = r /\ core' = [core EXCEPT ![r] = "new"]
           /\ rpc' = [rpc EXCEPT ![r] = "startCore"] /\ UNCHANGED <<crashed, failed>>
    <2>1. /\ rpc'[r] = "startCore"
          /\ \A k \in Ids : core'[k] \in {"new", "started"} => k = vc'
        BY ZenonT(60), <1>1, <1>2, <1>3 DEF NoneOpen
    <2>2. Always' /\ NoneUp'
        BY ZenonT(60), <1>1, <1>2, <1>3, <2>1, NoneUpAlways
    <2>3. At(r)'
        BY ZenonT(60), <1>1, <1>2, <1>3, <2>1, <2>2 DEF At
    <2> QED
        BY ZenonT(60), <1>1, <1>3, <2>1, <2>2, <2>3, OthersRest, OneAtWork DEF Busy
<1>4. CASE /\ IF conf = Broken THEN UNCHANGED failed ELSE Fault("new")
           /\ vc' = None /\ rpc' = [rpc EXCEPT ![r] = "done"] /\ UNCHANGED <<core, crashed>>
    <2>1. ~Fine' /\ failed' # {}
        <3>1. CASE conf = Broken
            BY ZenonT(60), <1>2, <1>4, <3>1 DEF Always, Fine
        <3>2. CASE conf # Broken
            BY ZenonT(60), <1>4, <3>2, FaultKept DEF Causes
        <3> QED
            BY ZenonT(60), <3>1, <3>2
    <2>2. Always' /\ NoneUp' /\ rpc'[r] = "done"
        BY ZenonT(60), <1>1, <1>2, <1>4, <2>1, NoneUpAlways DEF NoneOpen
    <2>3. At(r)' /\ Rest'
        BY ZenonT(60), <1>1, <1>2, <2>1, <2>2 DEF At, Rest
    <2> QED
        BY ZenonT(60), <1>1, <1>4, <2>2, <2>3, OthersRest, OneAtWork
<1>5. CASE Fault("new") /\ crashed' = TRUE /\ UNCHANGED <<rpc, vc, core>>
    <2>1. ~Fine'
        BY ZenonT(60), <1>5, FaultKept DEF Causes
    <2>2. Always' /\ NoneUp' /\ NoneOpen'
        BY ZenonT(60), <1>1, <1>2, <1>5, <2>1, NoneUpAlways DEF NoneOpen
    <2>3. At(r)'
        BY ZenonT(60), <1>1, <1>2, <1>5, <2>1, <2>2 DEF At
    <2> QED
        BY ZenonT(60), <1>1, <1>5, <2>2, <2>3, OthersRest, OneAtWork
<1> QED
    BY ZenonT(60), <1>3, <1>4, <1>5 DEF NewCore, Goto, Crash, coreVars

LEMMA StartCoreGood ==
    ASSUME Type, Good, ~crashed, NEW r \in Reloads, StartCore(r) PROVE Good'
<1>1. rpc[r] = "startCore" /\ rpc[r] \in Busy /\ UNCHANGED <<conf, vc, controllers, slice>>
    BY ZenonT(60) DEF StartCore, nodeVars, Busy
<1>2. /\ Always /\ NoneUp /\ controllers = None /\ vc # None /\ vc \in Ids
      /\ rpc \in [Reloads -> Steps] /\ core \in [Ids -> {"none", "new", "started", "closed"}]
    BY ZenonT(60), <1>1 DEF Good, At, Type, ReloadType, CoreType
<1>3. CASE /\ rpc' = [rpc EXCEPT ![r] = "startNodes"]
           /\ core' = [core EXCEPT ![vc] = "started"] /\ UNCHANGED <<crashed, failed>>
    <2>1. /\ rpc'[r] = "startNodes" /\ core'[vc'] = "started"
          /\ \A k \in Ids : core'[k] \in {"new", "started"} => k = vc'
        BY ZenonT(60), <1>1, <1>2, <1>3 DEF Always
    <2>2. Always' /\ NoneUp'
        BY ZenonT(60), <1>1, <1>2, <1>3, <2>1, NoneUpAlways DEF Always, Fine
    <2>3. At(r)'
        BY ZenonT(60), <1>1, <1>2, <2>1, <2>2 DEF At
    <2> QED
        BY ZenonT(60), <1>1, <1>3, <2>1, <2>2, <2>3, OthersRest, OneAtWork DEF Busy
<1>4. CASE rpc' = [rpc EXCEPT ![r] = "done"] /\ Fault("start") /\ UNCHANGED <<core, crashed>>
    <2>1. rpc'[r] = "done" /\ failed \subseteq failed' /\ failed' # {}
        BY ZenonT(60), <1>2, <1>4, FaultKept
    <2>2. Always' /\ NoneUp'
        <3>1. Fine' => Fine
            BY ZenonT(60), <2>1 DEF Fine
        <3> QED
            BY ZenonT(60), <1>1, <1>2, <1>4, <3>1, NoneUpAlways DEF Always
    <2>3. At(r)' /\ Rest'
        BY ZenonT(60), <1>1, <1>2, <2>1 DEF At, Rest
    <2> QED
        BY ZenonT(60), <1>1, <1>4, <2>2, <2>3, OthersRest, OneAtWork
<1> QED
    BY ZenonT(60), <1>2, <1>3, <1>4 DEF StartCore, Goto

LEMMA StartNodesGood ==
    ASSUME Type, Good, ~crashed, NEW r \in Reloads, StartNodes(r) PROVE Good'
<1>1. /\ rpc[r] = "startNodes" /\ rpc' = [rpc EXCEPT ![r] = "startController"]
      /\ controllers' = r /\ ri' = [ri EXCEPT ![r] = 1]
      /\ UNCHANGED <<conf, vc, core, crashed, failed>>
      /\ slice' \in [Ids -> Slices] /\ r \in Ids /\ Made(r)
    BY ZenonT(60), StartNodesStep
<1>2. /\ Always /\ NoneUp /\ vc # None /\ core[vc] = "started" /\ rpc[r] \in Busy
      /\ rpc'[r] = "startController" /\ ri'[r] = 1
    BY ZenonT(60), <1>1 DEF Good, At, Type, ReloadType, Busy
<1>3. NoneUp'
    <2>1. slice'[r] \in Slices
        BY ZenonT(60), <1>1
    <2>2. DOMAIN slice'[r].entries = 1..Len(slice'[r].entries)
        BY <2>1 DEF Slices
    <2>3. Up(r)' = {}
        BY ZenonT(60), <1>1, <2>2 DEF Up, Made
    <2>4. \A k \in Ids \ {r} : Up(k)' = {}
        BY ZenonT(60), <1>1, <1>2 DEF Up, Made, NoneUp
    <2> QED
        BY ZenonT(60), <2>3, <2>4 DEF NoneUp
<1>4. Always'
    BY ZenonT(60), <1>1, <1>2, <1>3 DEF Always, NoneUp, Fine
<1>5. Starting(r)'
    <2>1. \A n : \A i \in 1..n : ~(i < 1)
        OBVIOUS
    <2> QED
        BY ZenonT(60), <1>1, <1>2, <2>1 DEF Starting, Made
<1>6. At(r)'
    BY ZenonT(60), <1>2, <1>5 DEF At
<1> QED
    BY ZenonT(60), <1>1, <1>2, <1>4, <1>6, OthersRest, OneAtWork DEF Busy

LEMMA StartControllerGood ==
    ASSUME Type, Good, ~crashed, NEW r \in Reloads, StartController(r) PROVE Good'
<1>1. /\ rpc[r] = "startController" /\ r \in Ids
      /\ UNCHANGED <<conf, vc, core, controllers, crashed>>
      /\ StartEnds(r) \/ StartsOne(r) \/ StartFails(r)
    BY ZenonT(60), StartControllerSteps
<1>2. /\ Always /\ Starting(r) /\ rpc[r] \in Busy /\ r # None
      /\ rpc \in [Reloads -> Steps] /\ ri \in [Reloads -> Nat] /\ slice \in [Ids -> Slices]
    BY ZenonT(60), <1>1 DEF Good, At, Busy, Type, ReloadType, CoreType
<1>3. CASE StartEnds(r)
    <2>1. rpc'[r] = "done" /\ UNCHANGED <<slice, failed>> /\ Fine' = Fine
        BY ZenonT(60), <1>2, <1>3 DEF StartEnds, Fine
    <2>2. Fine => \A i \in 1..Len(slice[r].entries) : slice[r].entries[i] = "up"
        <3>1. Count(r) = Len(slice[r].entries) /\ Count(r) \in Nat /\ ri[r] \in Nat
            BY ZenonT(60), <1>1, <1>2, CountOf
        <3>2. \A i \in 1..Len(slice[r].entries) : i < ri[r]
            BY <1>3, <3>1 DEF StartEnds
        <3> QED
            BY ZenonT(60), <1>2, <3>2 DEF Starting
    <2>3. Always'
        <3>1. \A k \in Ids : Up(k)' = Up(k)
            BY ZenonT(60), <2>1 DEF Up
        <3> QED
            BY ZenonT(60), <1>1, <1>2, <2>1, <3>1 DEF Always
    <2>4. Rest'
        <3>1. failed = {} => conf # Broken
            BY ZenonT(60), <1>2 DEF Always, Fine
        <3> QED
            BY ZenonT(60), <1>1, <1>2, <2>1, <2>2, <3>1 DEF Starting, Rest
    <2>5. At(r)'
        BY ZenonT(60), <2>1 DEF At
    <2>6. \A q \in Reloads \ {r} : rpc[q] \notin Busy /\ rpc'[q] = rpc[q]
        BY ZenonT(60), <1>2, <1>3, OthersRest DEF StartEnds
    <2> QED
        BY ZenonT(60), <2>3, <2>4, <2>5, <2>6, OneAtWork
<1>4. CASE StartsOne(r) \/ StartFails(r)
    <2>1. PICK e \in Entry : slice' = [slice EXCEPT ![r].entries[ri[r]] = e]
        BY ZenonT(60), <1>4 DEF StartsOne, StartFails, Entry
    <2>2. ri[r] \in 1..Len(slice[r].entries)
        BY ZenonT(60), <1>4 DEF StartsOne, StartFails
    <2>3. Wrote(r, ri[r], e)
        BY ZenonT(60), <1>1, <1>2, <2>1, <2>2, SliceWrite
    <2>4. /\ \A k \in Ids : Up(k)' # {} => slice'[k].core = vc' /\ k = controllers'
          /\ \A k \in Ids : core'[k] \in {"new", "started"} => k = vc'
        <3>1. \A k \in Ids \ {r} : Up(k)' = Up(k) /\ slice'[k] = slice[k]
            BY ZenonT(60), <2>3 DEF Wrote, Up
        <3>2. slice'[r].core = vc' /\ controllers' = r
            BY ZenonT(60), <1>1, <1>2, <2>3 DEF Wrote, Starting
        <3> QED
            BY ZenonT(60), <1>1, <1>2, <3>1, <3>2 DEF Always
    <2>5. CASE StartsOne(r)
        <3>1. rpc' = rpc /\ ri'[r] = ri[r] + 1 /\ Fine' = Fine
            BY ZenonT(60), <1>2, <2>5 DEF StartsOne, Fine
        <3>2. slice'[r].entries[ri[r]] = "up"
            <4>1. slice' = [slice EXCEPT ![r].entries[ri[r]] = "up"] /\ "up" \in Entry
                BY ZenonT(60), <2>5 DEF StartsOne, Entry
            <4>2. Wrote(r, ri[r], "up")
                BY ZenonT(60), <1>1, <1>2, <2>2, <4>1, SliceWrite
            <4> QED
                BY ZenonT(60), <4>2 DEF Wrote
        <3>3. Always'
            BY ZenonT(60), <1>1, <1>2, <2>4, <3>1 DEF Always
        <3>4. Fine' => \A i \in 1..Len(slice'[r].entries) : i < ri'[r] => slice'[r].entries[i] = "up"
            <4>1. \A i \in 1..Len(slice[r].entries) : i < ri[r] + 1 => i < ri[r] \/ i = ri[r]
                BY <2>2
            <4>2. Fine => \A i \in 1..Len(slice[r].entries) : i < ri[r] => slice[r].entries[i] = "up"
                BY ZenonT(60), <1>2 DEF Starting
            <4> QED
                BY ZenonT(60), <2>3, <3>1, <3>2, <4>1, <4>2 DEF Wrote
        <3>5. Starting(r)'
            BY ZenonT(60), <1>1, <1>2, <2>3, <3>4 DEF Starting, Wrote
        <3>6. At(r)' /\ rpc'[r] \in Busy
            BY ZenonT(60), <1>1, <1>2, <3>1, <3>5 DEF At
        <3> QED
            BY ZenonT(60), <1>2, <3>1, <3>3, <3>6, OthersRest, OneAtWork
    <2>6. CASE StartFails(r)
        <3>1. rpc' = [rpc EXCEPT ![r] = "done"] /\ rpc'[r] = "done"
            BY ZenonT(60), <1>2, <2>6 DEF StartFails
        <3>2. ~Fine' /\ failed' # {}
            <4>1. CoreServes(r)
                BY ZenonT(60), <1>2 DEF CoreServes, Starting
            <4> QED
                BY ZenonT(60), <2>6, <4>1, FaultKept DEF StartFails, Causes
        <3>3. Always' /\ Rest' /\ At(r)'
            BY ZenonT(60), <2>4, <3>1, <3>2 DEF Always, Rest, At
        <3> QED
            BY ZenonT(60), <1>2, <3>1, <3>3, OthersRest, OneAtWork
    <2> QED
        BY ZenonT(60), <1>4, <2>5, <2>6
<1> QED
    BY ZenonT(60), <1>1, <1>3, <1>4

-----------------------------------------------------------------------------
(* A change of the file is loaded, on its way to be, or known as dropped. *)
LEMMA FreshStep == ASSUME Type, Fresh, Next PROVE Fresh'
<1> DEFINE Sleeping == \E r \in Reloads : rpc[r] \in {"sleep", "awake"}
<1>1. rpc \in [Reloads -> Steps] /\ events \in Nat /\ reloads \in Nat
    BY ZenonT(60) DEF Type, WatchType, ReloadType
<1>2. CASE Edit
    <2>1. events' > 0
        BY <1>1, <1>2 DEF Edit
    <2> QED
        BY ZenonT(60), <2>1 DEF Fresh
<1>3. CASE Tick
    <2>1. UNCHANGED <<file, events, conf, failed, dropped>> /\ (Sleeping => Sleeping')
        BY ZenonT(60), <1>1, <1>3 DEF Tick, ghostVars
    <2> QED
        BY ZenonT(60), <2>1 DEF Fresh
<1>4. CASE ReceiveEvent
    <2>1. UNCHANGED <<file, conf, failed>>
        BY ZenonT(60), <1>4 DEF ReceiveEvent
    <2>2. CASE dropped' = (dropped \/ ~Sleeping) /\ UNCHANGED rpc
        BY ZenonT(60), <2>1, <2>2 DEF Fresh
    <2>3. CASE Goto(reloads + 1, "sleep")
        <3>1. reloads + 1 \in Reloads
            BY <1>1, <1>4 DEF Type, WatchType, ReceiveEvent, Reloads
        <3>2. rpc'[reloads + 1] = "sleep"
            BY ZenonT(60), <1>1, <2>3, <3>1 DEF Goto
        <3> QED
            BY ZenonT(60), <3>1, <3>2 DEF Fresh
    <2> QED
        BY ZenonT(60), <1>4, <2>2, <2>3 DEF ReceiveEvent
<1>5. ASSUME NEW r \in Reloads, Reload(r) PROVE Fresh'
    <2>1. CASE Load(r)
        <3>1. UNCHANGED file /\ (failed' = {} => conf' = file)
            BY ZenonT(60), <2>1 DEF Load, LoadFromPath, watchVars
        <3> QED
            BY ZenonT(60), <3>1 DEF Fresh
    <2>2. CASE ~Load(r)
        <3>1. UNCHANGED <<file, events, conf, dropped>>
            BY ZenonT(60), <1>5, <2>2 DEF Reload, CloseNodes, CloseCore, NewCore, StartCore,
               StartNodes, StartController, watchVars, ghostVars
        <3>2. failed \subseteq failed'
            BY ZenonT(60), <1>5, <2>2 DEF Reload, CloseNodes, CloseCore, NewCore, StartCore,
               StartNodes, StartController, Fault
        <3>3. rpc[r] \notin {"sleep", "awake"}
            BY ZenonT(60), <1>5, <2>2 DEF Reload, CloseNodes, CloseCore, NewCore, StartCore,
               StartNodes, StartController
        <3>4. \A q \in Reloads \ {r} : rpc'[q] = rpc[q]
            BY ZenonT(60), <1>1, <1>5, <2>2 DEF Reload, CloseNodes, CloseCore, NewCore, StartCore,
               StartNodes, StartController, Goto
        <3>5. Sleeping => Sleeping'
            BY ZenonT(60), <3>3, <3>4
        <3> QED
            BY ZenonT(60), <3>1, <3>2, <3>5 DEF Fresh
    <2> QED
        BY ZenonT(60), <2>1, <2>2
<1> QED
    BY ZenonT(60), <1>2, <1>3, <1>4, <1>5 DEF Next

LEMMA GoodStep ==
    ASSUME Type, ~overlapped => Good, Next, ~overlapped' PROVE Good'
<1>1. ~overlapped
    BY ZenonT(60) DEF Next, Edit, Tick, ReceiveEvent, Reload, Load, CloseNodes, CloseCore, NewCore,
       StartCore, StartNodes, StartController, ghostVars
<1>2. Good /\ ~crashed
    BY ZenonT(60), <1>1 DEF Next
<1>3. ASSUME NEW r \in Reloads, Reload(r) PROVE Good'
    BY ZenonT(60), <1>2, <1>3, LoadGood, CloseNodesGood, CloseCoreGood, NewCoreGood, StartCoreGood,
       StartNodesGood, StartControllerGood DEF Reload
<1> QED
    BY ZenonT(60), <1>2, <1>3, WatchGood DEF Next

LEMMA RInvStep == RInv /\ [Next]_vars => RInv'
<1> SUFFICES ASSUME RInv, [Next]_vars PROVE RInv'
    OBVIOUS
<1>1. Type'
    BY ZenonT(60), TypeStep DEF RInv
<1>2. CASE Next
    BY ZenonT(60), <1>1, <1>2, GoodStep, FreshStep DEF RInv
<1>3. CASE UNCHANGED vars
    <2>1. UNCHANGED <<file, events, rpc, ri, held, conf, vc, core, controllers, slice, crashed,
                      failed, overlapped, dropped>>
        BY ZenonT(60), <1>3 DEF vars, watchVars, coreVars, nodeVars, ghostVars
    <2>2. Good => Good'
        <3>1. \A k \in Ids : Up(k)' = Up(k)
            BY ZenonT(60), <2>1 DEF Up
        <3>2. (Always => Always') /\ (Apart => Apart') /\ (Rest => Rest') /\ Idle' = Idle
            BY ZenonT(60), <2>1, <3>1 DEF Always, Apart, Rest, Idle, Fine
        <3>3. ASSUME NEW r \in Reloads PROVE At(r) => At(r)'
            <4>1. (Closing(r) => Closing(r)') /\ (Starting(r) => Starting(r)')
                BY ZenonT(60), <2>1 DEF Closing, Starting, Fine
            <4>2. (NoneUp => NoneUp') /\ (NoneOpen => NoneOpen')
                BY ZenonT(60), <2>1, <3>1 DEF NoneUp, NoneOpen
            <4> QED
                BY ZenonT(60), <2>1, <4>1, <4>2 DEF At
        <3> QED
            BY ZenonT(60), <3>2, <3>3 DEF Good
    <2>3. Fresh => Fresh'
        BY ZenonT(60), <2>1 DEF Fresh
    <2> QED
        BY ZenonT(60), <1>1, <2>1, <2>2, <2>3 DEF RInv
<1> QED
    BY ZenonT(60), <1>2, <1>3

(* What the reloads keep, at every step. *)
THEOREM ReloadInvariant == Spec => []RInv
<1>1. Init => RInv
    BY ZenonT(60), TypeInit, InitGood DEF RInv
<1> QED
    BY <1>1, RInvStep, PTL DEF Spec

(* serverHandle closes the old core before it makes a new one, and no error *)
(* path leaves an old one open, however many reloads fail where.            *)
THEOREM OneCoreAtATime == Spec => []OneCoreOpen
<1>1. RInv => OneCoreOpen
    BY ZenonT(60) DEF RInv, Good, Always, OneCoreOpen
<1> QED
    BY <1>1, ReloadInvariant, PTL

(* No error path of a reload loses a node that is up: the next nodes.Close  *)
(* finds it in n.controllers, on the core that is closed after it.          *)
THEOREM NodesStayReachable == Spec => []NoNodeLeftBehind
<1>1. RInv => NoNodeLeftBehind
    BY ZenonT(60) DEF RInv, Good, Always, NoNodeLeftBehind
<1> QED
    BY <1>1, ReloadInvariant, PTL

(* The panics in nodes.Close and on a nil core need one of four failures,   *)
(* or two reloads at a time.                                                *)
THEOREM CrashesAreCaused == Spec => []CrashHasCause
<1>1. RInv => CrashHasCause
    BY ZenonT(60) DEF RInv, Good, Always, Fine, Causes, CrashHasCause
<1> QED
    BY <1>1, ReloadInvariant, PTL

(* When the reloads are done, the instance runs the nodes of the file: it   *)
(* is the load of the last accepted event that saw the last change.         *)
THEOREM FileIsServed == Spec => []ServesFile
<1>1. RInv => ServesFile
    <2> SUFFICES ASSUME RInv, Quiet, failed = {}, ~overlapped, ~dropped
                 PROVE  /\ vc # None /\ core[vc] = "started"
                        /\ controllers # None /\ slice[controllers].core = vc
                        /\ slice[controllers].nodes = file
                        /\ slice[controllers].entries = AllUp(Len(file))
        BY ZenonT(60) DEF ServesFile
    <2>1. Idle
        BY ZenonT(60) DEF Quiet, Idle, Busy
    <2>2. Fine /\ Always /\ Rest
        BY ZenonT(60), <2>1 DEF RInv, Good, Fine
    <2>3. conf = file
        <3>1. ~(events > 0)
            BY DEF Quiet
        <3> QED
            BY ZenonT(60), <3>1 DEF RInv, Fresh, Quiet
    <2>4. /\ vc # None /\ core[vc] = "started" /\ controllers # None
          /\ slice[controllers].core = vc /\ slice[controllers].nodes = file
          /\ Len(slice[controllers].entries) = Len(file)
          /\ \A i \in 1..Len(slice[controllers].entries) : slice[controllers].entries[i] = "up"
        BY ZenonT(60), <2>2, <2>3 DEF Always, Rest
    <2>5. slice[controllers] \in Slices
        BY ZenonT(60), <2>4 DEF RInv, Type, CoreType
    <2>6. slice[controllers].entries \in Seq(Entry)
        BY <2>5 DEF Slices
    <2>7. slice[controllers].entries = AllUp(Len(file))
        BY <2>4, <2>6 DEF AllUp
    <2> QED
        BY ZenonT(60), <2>4, <2>7
<1> QED
    BY <1>1, ReloadInvariant, PTL

=============================================================================
