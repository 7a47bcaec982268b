----------------------------- MODULE NodeTasks ------------------------------
(***************************************************************************)
(* The two periodic tasks of a node controller and the calls between them: *)
(* startTasks, the part of nodeInfoMonitor that replaces the node and      *)
(* re-times the tasks, and Controller.Close (node/task.go,                 *)
(* node/controller.go).  The variables and steps of Task are those of      *)
(* nodeInfoMonitorPeriodic, Report is a second Task for userReportPeriodic;*)
(* the monitor runs inside Execute of the first and calls Close and Start  *)
(* of both.                                                                *)
(*                                                                         *)
(* Main is the goroutine that starts and later closes the controller;      *)
(* Workers are the goroutines of the monitor's fired timers, Reporters     *)
(* those of the report's.                                                  *)
(***************************************************************************)
EXTENDS Task

CONSTANTS Main, Workers, Reporters,
    Pulls, Pushes,  \* values of pull_interval and push_interval
    MaxChanges      \* bound: node configurations the panel publishes

ASSUME ProcsAssumption == Procs = {Main} \cup Workers \cup Reporters
ASSUME RolesAssumption ==
    Main \notin Workers \cup Reporters /\ Workers \cap Reporters = {}

VARIABLES
    rAccess, rRunning, rTimer, rArmed, rPc, rCall,  \* userReportPeriodic
    mInterval, rInterval,   \* the two Interval fields
    at,                     \* the next call of each goroutine's own code
    panel,                  \* the node configuration the panel serves
    seen,                   \* the version this node fetched last
    newN,                   \* newN of the running nodeInfoMonitor
    nodeUp,                 \* the core has the node's inbound
    crashed,                \* log.Panic, or panic(err) of Node.Close
    late,                   \* monitor runs begun after its task was closed
    failed,                 \* a reload gave up with the node removed
    refused                 \* the core failed to remove a node it had

Report == INSTANCE Task WITH access <- rAccess,
    running <- rRunning, timer <- rTimer, armed <- rArmed, pc <- rPc,
    call <- rCall

rVars == <<rAccess, rRunning, rTimer, rArmed, rPc, rCall>>
intervals == <<mInterval, rInterval>>
nodeVars == <<seen, newN, nodeUp>>
vars == <<taskVars, rVars, intervals, at, panel, nodeVars, crashed, late, failed,
          refused>>

Stages == {"startMonitor", "startReport", "up", "closeMonitor", "closeReport",
           "delNode", "closed", "fetch", "addNode", "return"}

Configs == [version : 0..MaxChanges, pull : Pulls, push : Pushes]

(* All the state of the controller's tasks is well typed. *)
TasksTypeOK ==
    /\ TypeOK
    /\ Report!TypeOK
    /\ mInterval \in Pulls
    /\ rInterval \in Pulls \cup Pushes
    /\ at \in [Procs -> Stages]
    /\ panel \in Configs
    /\ newN \in Configs
    /\ seen \in 0..MaxChanges
    /\ nodeUp \in BOOLEAN
    /\ crashed \in BOOLEAN
    /\ late \in Nat
    /\ failed \in BOOLEAN /\ refused \in BOOLEAN

TasksInit ==
    /\ Init
    /\ Report!Init
    /\ panel \in {c \in Configs : c.version = 0}
    /\ newN = panel
    /\ seen = 0
    /\ mInterval = panel.pull
    /\ rInterval = panel.push
    /\ at = [p \in Procs |-> IF p = Main THEN "startMonitor" ELSE "fetch"]
    /\ nodeUp = TRUE
    /\ crashed = FALSE
    /\ late = 0
    /\ failed = FALSE /\ refused = FALSE

-----------------------------------------------------------------------------
\* What p calls after a call to one of the tasks returned: Main follows
\* startTasks and Controller.Close, a worker the interval checks at the end
\* of a reload.
MainNext == [startMonitor |-> "startReport", startReport |-> "up",
             closeMonitor |-> "closeReport", closeReport |-> "delNode"]
PushCheck == IF rInterval # newN.push /\ newN.push # 0 THEN "closeReport" ELSE "return"
WorkerNext == [closeMonitor |-> "startMonitor", startMonitor |-> PushCheck,
               closeReport |-> "startReport", startReport |-> "return"]
Advance(p) ==
    at' = [at EXCEPT ![p] = IF p = Main THEN MainNext[at[p]] ELSE WorkerNext[at[p]]]

\* p is in its own code, not inside a call to a task (a worker's own code is
\* the Execute of the monitor).
InOwnCode(p) ==
    /\ ~crashed
    /\ rPc[p] = "idle"
    /\ pc[p] = IF p \in Workers THEN "execute" ELSE "idle"

Others == UNCHANGED <<panel, nodeVars, crashed, late, failed, refused>>

StartMonitor(p) ==
    /\ InOwnCode(p)
    /\ at[p] = "startMonitor"
    /\ Start(p, "start")
    /\ Advance(p)
    /\ UNCHANGED <<rVars, intervals>> /\ Others

StartReport(p) ==
    /\ InOwnCode(p)
    /\ at[p] = "startReport"
    /\ Report!Start(p, "start")
    /\ Advance(p)
    /\ UNCHANGED <<taskVars, intervals>> /\ Others

\* Close of the monitor's task: by Controller.Close, or by the monitor
\* itself, which then already holds the mutex Close waits for.
CloseMonitor(p) ==
    /\ InOwnCode(p)
    /\ at[p] = "closeMonitor"
    /\ CloseBody
    /\ Advance(p)
    /\ UNCHANGED <<pc, rVars, intervals>> /\ Others

\* The monitor sets the report interval, then closes the task.
CloseReport(p) ==
    /\ InOwnCode(p)
    /\ at[p] = "closeReport"
    /\ Report!CloseBody
    /\ rInterval' = IF p = Main THEN rInterval ELSE newN.pull
    /\ Advance(p)
    /\ UNCHANGED <<rPc, taskVars, mInterval>> /\ Others

\* Mutant: Controller.Close removes the node without closing the tasks.
BeginCloseDelFirst ==
    /\ InOwnCode(Main)
    /\ at[Main] = "up"
    /\ at' = [at EXCEPT ![Main] = "delNode"]
    /\ UNCHANGED <<taskVars, rVars, intervals>> /\ Others

\* Controller.Close is called (a signal, or a changed configuration file).
BeginClose ==
    /\ InOwnCode(Main)
    /\ at[Main] = "up"
    /\ at' = [at EXCEPT ![Main] = "closeMonitor"]
    /\ UNCHANGED <<taskVars, rVars, intervals>> /\ Others

\* Node.Close panics on an error of DelNode and nodeInfoMonitor logs it with
\* Panic.  A node the core does not have is an error (except of mieru without
\* a selector); so is one whose inbound or mux fails to close, which sing and
\* mieru have removed by then.
DelNode(p) ==
    /\ InOwnCode(p)
    /\ at[p] = "delNode"
    /\ nodeUp' = FALSE
    /\ crashed' \in BOOLEAN
    /\ refused' = (refused \/ (nodeUp /\ crashed'))
    /\ at' = [at EXCEPT ![p] = IF p = Main THEN "closed" ELSE "addNode"]
    /\ UNCHANGED <<taskVars, rVars, intervals, panel, seen, newN, late, failed>>

\* Mutant: the pull interval is not compared with the current one.
AddNodeAlwaysRetimes(p) ==
    /\ InOwnCode(p)
    /\ at[p] = "addNode"
    /\ nodeUp' = TRUE
    /\ at' = [at EXCEPT ![p] = "closeMonitor"]
    /\ mInterval' = newN.pull
    /\ UNCHANGED <<taskVars, rVars, rInterval, panel, seen, newN, crashed, late,
                   failed, refused>>

\* AddNode and AddUsers succeed, then the pull interval is compared.
AddNode(p) ==
    /\ InOwnCode(p)
    /\ at[p] = "addNode"
    /\ nodeUp' = TRUE
    /\ \/ /\ mInterval # newN.pull /\ newN.pull # 0
          /\ mInterval' = newN.pull
          /\ at' = [at EXCEPT ![p] = "closeMonitor"]
       \/ /\ mInterval = newN.pull \/ newN.pull = 0
          /\ at' = [at EXCEPT ![p] = PushCheck]
          /\ UNCHANGED mInterval
    /\ UNCHANGED <<taskVars, rVars, rInterval, panel, seen, newN, crashed, late,
                   failed, refused>>

\* The other ways a reload ends: requestCert fails and the node stays removed;
\* MustCompile of a rule panics, or AddNode fails and log.Panic ends the
\* process; AddUsers fails.
ReloadFails(p) ==
    /\ InOwnCode(p)
    /\ at[p] = "addNode"
    /\ at' = [at EXCEPT ![p] = "return"]
    /\ \/ failed' = TRUE /\ crashed' \in BOOLEAN /\ UNCHANGED nodeUp
       \/ nodeUp' = TRUE /\ UNCHANGED <<failed, crashed>>
    /\ UNCHANGED <<taskVars, rVars, intervals, panel, seen, newN, late, refused>>

\* The monitor fetched a new node configuration.
FetchChanged(p) ==
    /\ p \in Workers
    /\ InOwnCode(p)
    /\ at[p] = "fetch"
    /\ seen # panel.version
    /\ seen' = panel.version
    /\ newN' = panel
    /\ at' = [at EXCEPT ![p] = "delNode"]
    /\ UNCHANGED <<taskVars, rVars, intervals, panel, nodeUp, crashed, late, failed,
                   refused>>

\* nodeInfoMonitor returns nil: after a reload, when nothing changed, and when
\* a request failed.  Only users differ then, which no task notices.
MonitorReturns(p) ==
    /\ p \in Workers
    /\ InOwnCode(p)
    /\ at[p] \in {"fetch", "return"}
    /\ ExecuteSucceeds(p)
    /\ at' = [at EXCEPT ![p] = "fetch"]
    /\ UNCHANGED <<rVars, intervals>> /\ Others

-----------------------------------------------------------------------------
\* The tasks' own steps; the report's Execute always returns nil.
MonitorStep(p) ==
    /\ ~crashed
    /\ HasClosed(p) \/ EnterSection(p)
    /\ late' = IF /\ pc'[p] = "execute"
                  /\ at[Main] \in {"closeReport", "delNode", "closed"}
               THEN late + 1 ELSE late
    /\ UNCHANGED <<rVars, intervals, at, panel, nodeVars, crashed, failed, refused>>

ReportStep(p) ==
    /\ ~crashed
    /\ Report!HasClosed(p) \/ Report!EnterSection(p) \/ Report!ExecuteSucceeds(p)
    /\ UNCHANGED <<taskVars, intervals, at>> /\ Others

Idle(p) == ~crashed /\ pc[p] = "idle" /\ rPc[p] = "idle"

FireMonitor(p) ==
    /\ Idle(p)
    /\ \E x \in armed : Fire(p, x)
    /\ UNCHANGED <<rVars, intervals, at>> /\ Others

FireReport(p) ==
    /\ Idle(p)
    /\ \E x \in rArmed : Report!Fire(p, x)
    /\ UNCHANGED <<taskVars, intervals, at>> /\ Others

\* The administrator edits the node on the panel.
PanelChanges ==
    /\ ~crashed
    /\ panel.version < MaxChanges
    /\ panel' \in {c \in Configs : c.version = panel.version + 1}
    /\ UNCHANGED <<taskVars, rVars, intervals, at, nodeVars, crashed, late, failed,
                   refused>>

Proceed(p) ==
    \/ StartMonitor(p) \/ StartReport(p) \/ CloseMonitor(p) \/ CloseReport(p)
    \/ DelNode(p) \/ AddNode(p) \/ ReloadFails(p) \/ FetchChanged(p) \/ MonitorReturns(p)
    \/ MonitorStep(p) \/ ReportStep(p)

TasksNext ==
    \/ \E p \in Procs : Proceed(p)
    \/ \E p \in Workers : FireMonitor(p)
    \/ \E p \in Reporters : FireReport(p)
    \/ BeginClose
    \/ PanelChanges

\* Timers fire and goroutines go on; sync.Mutex hands the lock to a waiter
\* after a bounded time, hence strong fairness for the calls that lock.
Fairness ==
    /\ \A p \in Procs : SF_vars(Proceed(p))
    /\ WF_vars(\E p \in Workers : FireMonitor(p))
    /\ WF_vars(\E p \in Reporters : FireReport(p))

TasksSpec == TasksInit /\ [][TasksNext]_vars /\ Fairness

-----------------------------------------------------------------------------
Closing == at[Main] \in {"closeMonitor", "closeReport", "delNode", "closed"}

(* nodeInfoMonitor is entered again and again until the controller is       *)
(* closed ("Task is a task that runs periodically").                        *)
MonitorKeepsRunning ==
    []<>(\/ Closing \/ crashed
         \/ \E p \in Workers : pc[p] = "execute" /\ at[p] = "fetch")

(* A call of Controller.Close comes back: it does not wait for a mutex that *)
(* is never released.                                                       *)
CloseReturns == Closing ~> (at[Main] = "closed" \/ crashed)

(* After Controller.Close has closed the monitor's task, nodeInfoMonitor is *)
(* entered at most once more (by a goroutine that had already passed        *)
(* hasClosed).                                                              *)
AtMostOneLateRun == late <= 1

(* The process panics only when such a late run of the monitor overlaps     *)
(* Controller.Close, after a reload gave up with the node removed, or when  *)
(* the core itself fails to remove a node it has (closing its inbound or    *)
(* its mux); in every other interleaving the node is there whenever         *)
(* somebody removes it.                                                     *)
PanicNeedsCause == crashed => late > 0 \/ failed \/ refused
=============================================================================
