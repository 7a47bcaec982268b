------------------------------- MODULE Reload --------------------------------
(***************************************************************************)
(* The reload of a changed configuration file: the watcher of conf/watch.go*)
(* accepts an event when the last accepted one is 10 seconds old, waits 5  *)
(* seconds, loads the file and calls the function of serverHandle          *)
(* (cmd/server.go), which closes the nodes (node/node.go) and the core and *)
(* builds them anew from the shared *conf.Conf.  Time is counted in units  *)
(* of 5 seconds.  A reload takes as long as its requests to the panel take,*)
(* so the next one can start before it ends.                               *)
(*                                                                         *)
(* A file is the sequence of its nodes, or Broken when it does not load.   *)
(* The core and the controllers made by the n-th reload have the number n; *)
(* number 0 is what the program started with.                              *)
(***************************************************************************)
EXTENDS Naturals, Sequences, FiniteSets

CONSTANTS
    Files, Broken,
    Partial,    \* what p can hold after a file that did not load
    None,       \* nil
    MaxEdits,   \* bound: changes of the file, and so reloads
    MaxParallel,    \* bound: reloads under way at a time
    MaxFaults   \* bound: steps that fail, broken files apart

ASSUME FileAssumption ==
    /\ Partial \subseteq Files /\ Broken \in Partial
    /\ \A f \in Files \ {Broken} : Len(f) \in Nat
ASSUME BoundAssumption == {MaxEdits, MaxParallel, MaxFaults} \subseteq Nat

Window == 2     \* 10 seconds
Reloads == 1..MaxEdits
Ids == 0..MaxEdits

ASSUME NoneAssumption == None \notin Ids

VARIABLES
    file, edits,
    events,     \* events the watcher has not received
    age,        \* time since the last accepted event, up to Window
    reloads,    \* reloads started so far
    rpc, ri,    \* the step of each reload, and its index in a range loop
    held,       \* the controllers its nodes.Close ranges over
    conf,       \* *p
    vc,         \* the core serverHandle holds
    core,       \* state of every core
    controllers,    \* n.controllers
    slice,      \* the controllers made by each reload
    crashed,
    failed,     \* the kinds of steps that failed so far
    overlapped, \* a reload began before another one ended
    dropped     \* an event was dropped after the last load

watchVars == <<file, edits, events, age, reloads>>
coreVars == <<vc, core>>
nodeVars == <<controllers, slice>>
ghostVars == <<overlapped, dropped>>
vars == <<watchVars, rpc, ri, held, conf, coreVars, nodeVars, crashed, failed,
          ghostVars>>

Busy == {"closeNodes", "closeCore", "newCore", "startCore", "startNodes", "startController"}

AllUp(n) == [i \in 1..n |-> "up"]

\* serverHandle once the nodes are started.
Init ==
    /\ file \in Files \ {Broken} /\ conf = file
    /\ edits = 0 /\ events = 0 /\ age = Window /\ reloads = 0
    /\ rpc = [r \in Reloads |-> "none"] /\ ri = [r \in Reloads |-> 0]
    /\ held = [r \in Reloads |-> None]
    /\ vc = 0 /\ core = [k \in Ids |-> IF k = 0 THEN "started" ELSE "none"]
    /\ controllers = 0
    /\ slice = [k \in Ids |-> IF k = 0 THEN [core |-> 0, nodes |-> file, entries |-> AllUp(Len(file))]
                                       ELSE [core |-> None, nodes |-> None, entries |-> <<>>]]
    /\ crashed = FALSE /\ failed = {} /\ overlapped = FALSE /\ dropped = FALSE

Goto(r, step) == rpc' = [rpc EXCEPT ![r] = step]
Crash == crashed' = TRUE
Fault(kind) ==
    /\ Cardinality(failed \ {"load"}) < MaxFaults
    /\ failed' = failed \cup {kind}

-----------------------------------------------------------------------------
\* The file changes (external), and time passes.
Edit ==
    /\ edits < MaxEdits
    /\ edits' = edits + 1 /\ events' = events + 1
    /\ file' \in Files \ {file}
    /\ UNCHANGED <<age, reloads, rpc, ri, held, conf, coreVars, nodeVars, crashed,
                   failed, ghostVars>>

Tick ==
    /\ age' = IF age < Window THEN age + 1 ELSE age
    /\ rpc' = [r \in Reloads |-> IF rpc[r] = "sleep" THEN "awake" ELSE rpc[r]]
    /\ UNCHANGED <<file, edits, events, reloads, ri, held, conf, coreVars, nodeVars,
                   crashed, failed, ghostVars>>

\* The loop of Watch.
ReceiveEvent ==
    /\ events > 0 /\ events' = events - 1
    /\ \/ /\ age < Window
          /\ dropped' = (dropped \/ ~\E r \in Reloads : rpc[r] \in {"sleep", "awake"})
          /\ UNCHANGED <<age, reloads, rpc>>
       \/ /\ age = Window
          /\ Cardinality({r \in Reloads : rpc[r] \notin {"none", "done"}}) < MaxParallel
          /\ age' = 0 /\ reloads' = reloads + 1 /\ Goto(reloads + 1, "sleep")
          /\ UNCHANGED dropped
    /\ UNCHANGED <<file, edits, ri, held, conf, coreVars, nodeVars, crashed, failed,
                   overlapped>>

\* LoadFromPath: decodes the file, or what precedes the error, into p.
LoadFromPath ==
    \/ /\ file # Broken /\ conf' = file
       /\ UNCHANGED failed
    \/ /\ file = Broken /\ conf' \in Partial
       /\ failed' = failed \cup {"load"}

\* Mutant: the file is loaded into another Conf than the one reload uses.
LoadElsewhere(r) ==
    /\ rpc[r] = "awake" /\ Goto(r, "closeNodes")
    /\ held' = [held EXCEPT ![r] = controllers] /\ ri' = [ri EXCEPT ![r] = 1]
    /\ dropped' = FALSE
    /\ overlapped' = (overlapped \/ \E q \in Reloads : rpc[q] \in Busy)
    /\ UNCHANGED <<watchVars, conf, coreVars, nodeVars, crashed, failed>>

\* After the Sleep: *p = *New() and LoadFromPath, and the call of reload, also
\* when the file did not load.
Load(r) ==
    /\ rpc[r] = "awake" /\ Goto(r, "closeNodes")
    /\ LoadFromPath
    /\ held' = [held EXCEPT ![r] = controllers] /\ ri' = [ri EXCEPT ![r] = 1]
    /\ dropped' = FALSE
    /\ overlapped' = (overlapped \/ \E q \in Reloads : rpc[q] \in Busy)
    /\ UNCHANGED <<watchVars, coreVars, nodeVars, crashed>>

Count(s) == IF s = None THEN 0 ELSE Len(slice[s].entries)

\* Mutant: the controllers are not forgotten.
CloseNodesKeeps(r) ==
    LET s == held[r]
        i == ri[r]
    IN  /\ rpc[r] = "closeNodes"
        /\ \/ /\ i > Count(s)
              /\ Goto(r, "closeCore")
              /\ UNCHANGED <<ri, controllers, slice, crashed, failed>>
           \/ /\ i <= Count(s)
              /\ slice[s].entries[i] = "up"
              /\ slice' = [slice EXCEPT ![s].entries[i] = "down"]
              /\ ri' = [ri EXCEPT ![r] = i + 1]
              /\ UNCHANGED <<rpc, controllers, crashed, failed>>
           \/ /\ i <= Count(s)
              /\ slice[s].entries[i] # "up"
              /\ Crash
              /\ UNCHANGED <<rpc, ri, nodeVars, failed>>
        /\ UNCHANGED <<watchVars, held, conf, coreVars, ghostVars>>

\* Mutant: the controllers are forgotten without being closed.
CloseNodesForgets(r) ==
    /\ rpc[r] = "closeNodes" /\ Goto(r, "closeCore")
    /\ controllers' = None /\ held' = [held EXCEPT ![r] = None]
    /\ UNCHANGED <<watchVars, ri, conf, coreVars, slice, crashed, failed, ghostVars>>

\* One turn of nodes.Close, or its end.  A nil controller, and a DelNode the
\* core refuses, panic: a node it does not have, a core that is closed.
CloseNodes(r) ==
    LET s == held[r]
        i == ri[r]
        Has == slice[s].entries[i] = "up" /\ core[slice[s].core] = "started"
    IN  /\ rpc[r] = "closeNodes"
        /\ \/ /\ i > Count(s)
              /\ controllers' = None /\ Goto(r, "closeCore")
              /\ ri' = [ri EXCEPT ![r] = 0] /\ held' = [held EXCEPT ![r] = None]
              /\ UNCHANGED <<slice, crashed, failed>>
           \/ /\ i <= Count(s)
              /\ Has
              /\ slice' = [slice EXCEPT ![s].entries[i] = "down"]
              /\ ri' = [ri EXCEPT ![r] = i + 1]
              /\ UNCHANGED <<rpc, held, controllers, crashed, failed>>
           \/ /\ i <= Count(s)
              /\ IF Has THEN Fault("delNode") ELSE UNCHANGED failed
              /\ Crash
              /\ UNCHANGED <<rpc, ri, held, nodeVars>>
        /\ UNCHANGED <<watchVars, conf, coreVars, ghostVars>>

\* Mutant: the old core is left open.
CloseCoreNot(r) ==
    /\ rpc[r] = "closeCore" /\ Goto(r, "newCore")
    /\ UNCHANGED <<watchVars, ri, held, conf, coreVars, nodeVars, crashed, failed,
                   ghostVars>>

\* vc.Close: on nil it panics; an error ends the reload.
CloseCore(r) ==
    /\ rpc[r] = "closeCore"
    /\ \/ /\ vc = None /\ Crash
          /\ UNCHANGED <<rpc, core, failed>>
       \/ /\ vc # None /\ Goto(r, "newCore")
          /\ core' = [core EXCEPT ![vc] = "closed"]
          /\ UNCHANGED <<crashed, failed>>
       \/ /\ vc # None /\ Goto(r, "done")
          /\ IF core[vc] = "closed" THEN UNCHANGED failed ELSE Fault("close")
          /\ UNCHANGED <<core, crashed>>
    /\ UNCHANGED <<watchVars, ri, held, conf, vc, nodeVars, ghostVars>>

\* vc, err = NewCore(c.CoresConfig); a conf that did not load has no cores.  On
\* a setting it does not understand the xray core panics, the others return.
NewCore(r) ==
    /\ rpc[r] = "newCore"
    /\ \/ /\ conf # Broken
          /\ vc' = r /\ core' = [core EXCEPT ![r] = "new"]
          /\ Goto(r, "startCore")
          /\ UNCHANGED <<crashed, failed>>
       \/ /\ IF conf = Broken THEN UNCHANGED failed ELSE Fault("new")
          /\ vc' = None /\ Goto(r, "done")
          /\ UNCHANGED <<core, crashed>>
       \/ /\ conf # Broken /\ Fault("new") /\ Crash
          /\ UNCHANGED <<rpc, coreVars>>
    /\ UNCHANGED <<watchVars, ri, held, conf, nodeVars, ghostVars>>

\* vc.Start, of the core vc holds by now.
StartCore(r) ==
    /\ rpc[r] = "startCore"
    /\ \/ /\ vc = None /\ Crash
          /\ UNCHANGED <<rpc, core, failed>>
       \/ /\ vc # None /\ Goto(r, "startNodes")
          /\ core' = [core EXCEPT ![vc] = "started"]
          /\ UNCHANGED <<crashed, failed>>
       \/ /\ vc # None /\ Goto(r, "done") /\ Fault("start")
          /\ UNCHANGED <<core, crashed>>
    /\ UNCHANGED <<watchVars, ri, held, conf, vc, nodeVars, ghostVars>>

\* nodes.Start makes the slice,
StartNodes(r) ==
    /\ rpc[r] = "startNodes" /\ Goto(r, "startController")
    /\ controllers' = r /\ ri' = [ri EXCEPT ![r] = 1]
    /\ LET n == IF conf = Broken THEN 0 ELSE Len(conf)
       IN  slice' = [slice EXCEPT ![r] =
                         [core |-> vc, nodes |-> conf, entries |-> [i \in 1..n |-> "nil"]]]
    /\ UNCHANGED <<watchVars, held, conf, coreVars, crashed, failed, ghostVars>>

\* and starts its controllers; the first error ends it, before the controller
\* is made (panel.New), before it added its node, or after.
StartController(r) ==
    LET i == ri[r]
        Set(e) == slice' = [slice EXCEPT ![r].entries[i] = e]
        Open == slice[r].core # None /\ core[slice[r].core] = "started"
    IN  /\ rpc[r] = "startController"
        /\ \/ /\ i > Count(r)
              /\ Goto(r, "done") /\ ri' = [ri EXCEPT ![r] = 0]
              /\ UNCHANGED <<slice, failed>>
           \/ /\ i <= Count(r) /\ Open
              /\ Set("up") /\ ri' = [ri EXCEPT ![r] = i + 1]
              /\ UNCHANGED <<rpc, failed>>
           \/ /\ i <= Count(r)
              /\ \E e \in {"nil", "made", "up"} : Set(e) /\ (e = "up" => Open)
              /\ IF Open THEN Fault("nodes") ELSE UNCHANGED failed
              /\ Goto(r, "done") /\ ri' = [ri EXCEPT ![r] = 0]
        /\ UNCHANGED <<watchVars, held, conf, coreVars, controllers, crashed, ghostVars>>

Reload(r) ==
    \/ Load(r) \/ CloseNodes(r) \/ CloseCore(r) \/ NewCore(r) \/ StartCore(r)
    \/ StartNodes(r) \/ StartController(r)

Next ==
    /\ ~crashed
    /\ Edit \/ Tick \/ ReceiveEvent \/ \E r \in Reloads : Reload(r)

Spec == Init /\ [][Next]_vars

-----------------------------------------------------------------------------
Quiet == events = 0 /\ \A r \in Reloads : rpc[r] \in {"none", "done"}
Up(k) == {i \in DOMAIN slice[k].entries : slice[k].entries[i] = "up"}

(* Once the reloads are done, the nodes of the file, and no others, are up  *)
(* on the core, unless a step failed, two reloads overlapped, or a change   *)
(* came between the load and the end of the 10 seconds (README.md:21: a     *)
(* change of the configuration restarts the instance by itself).            *)
ServesFile ==
    (Quiet /\ failed = {} /\ ~overlapped /\ ~dropped) =>
        /\ vc # None /\ core[vc] = "started"
        /\ controllers # None /\ slice[controllers].core = vc
        /\ slice[controllers].nodes = file
        /\ slice[controllers].entries = AllUp(Len(file))

(* However the steps of reloads fail, the old core is closed before a new   *)
(* one is made, so that their ports never collide.                          *)
OneCoreOpen ==
    ~overlapped =>
        \A k \in Ids : core[k] \in {"new", "started"} => k = vc

(* However they fail, every node that is up belongs to the controllers the  *)
(* next reload closes and to the core it closes.                            *)
NoNodeLeftBehind ==
    (~overlapped /\ ~crashed) =>
        \A k \in Ids : Up(k) # {} =>
            slice[k].core = vc /\ (k = controllers \/ \E r \in Reloads : rpc[r] = "closeNodes" /\ held[r] = k)

(* The process dies only when reloads overlap, or after a file that did not *)
(* load, a core that could not be made, or a node that could not be started *)
(* or deleted.  A core that failed to close or to start is not fatal.       *)
CrashHasCause ==
    (crashed /\ ~overlapped) => failed \cap {"load", "new", "nodes", "delNode"} # {}
=============================================================================
