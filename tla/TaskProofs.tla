----------------------------- MODULE TaskProofs -----------------------------
(***************************************************************************)
(* For any number of goroutines and timers: Execute runs under the mutex,  *)
(* one at a time, and a task whose running flag is set never loses its     *)
(* successor.  The controller uses both of its tasks this way; after       *)
(* Controller.Close its monitor runs at most once more, and the process    *)
(* panics only in such a late run or after a reload that gave up.          *)
(***************************************************************************)
EXTENDS NodeTasks, TLAPS

(* Every step of the task keeps the types of its state. *)
LEMMA TypeStep == TypeOK /\ [Next]_taskVars => TypeOK'
<1> SUFFICES ASSUME TypeOK, [Next]_taskVars
             PROVE  TypeOK'
    OBVIOUS
<1> USE DEF TypeOK, Goto, PCs, Calls
<1>1. CASE UNCHANGED taskVars
    BY <1>1 DEF taskVars
<1>2. ASSUME NEW p \in Procs, NEW c \in {"start", "startFirst"}, Start(p, c)
      PROVE  TypeOK'
    BY ZenonT(60), <1>2 DEF Start
<1>3. ASSUME NEW p \in Procs, NEW x \in armed, Fire(p, x)
      PROVE  TypeOK'
    BY <1>3 DEF Fire
<1>4. ASSUME NEW p \in Procs, HasClosed(p)
      PROVE  TypeOK'
    BY <1>4 DEF HasClosed
<1>5. ASSUME NEW p \in Procs, EnterSection(p)
      PROVE  TypeOK'
    BY <1>5 DEF EnterSection, Rearm
<1>6. ASSUME NEW p \in Procs, Finish(p)
      PROVE  TypeOK'
    BY ZenonT(60), <1>6 DEF Finish, ExecuteSucceeds, ExecuteFails, Rearm
<1>7. ASSUME NEW p \in Procs, StartFails(p)
      PROVE  TypeOK'
    BY ZenonT(60), <1>7 DEF StartFails
<1>8. ASSUME NEW p \in Procs, Close(p)
      PROVE  TypeOK'
    BY ZenonT(60), <1>8 DEF Close, CloseBody
<1> QED
    BY <1>1, <1>2, <1>3, <1>4, <1>5, <1>6, <1>7, <1>8 DEF Next, Step

(* The state of the task (task.go, type Task) always has its type. *)
THEOREM TaskTypeCorrect == Spec => []TypeOK
<1>1. Init => TypeOK
    BY ZenonT(60) DEF Init, TypeOK, PCs, Calls
<1> QED
    BY <1>1, TypeStep, PTL DEF Spec

-----------------------------------------------------------------------------
(* A step that takes the mutex finds it free, and the goroutine that leaves *)
(* Execute is the one that held it.                                         *)
LEMMA ExclusiveStep ==
    TypeOK /\ ExecuteExclusive /\ [Next]_taskVars => ExecuteExclusive'
<1> SUFFICES ASSUME TypeOK, ExecuteExclusive, [Next]_taskVars
             PROVE  ExecuteExclusive'
    OBVIOUS
<1> USE NoProcAssumption DEF TypeOK, ExecuteExclusive, Goto, PCs
<1>1. CASE UNCHANGED taskVars
    BY <1>1 DEF taskVars
<1>2. ASSUME NEW p \in Procs, NEW c \in {"start", "startFirst"}, Start(p, c)
      PROVE  ExecuteExclusive'
    BY <1>2 DEF Start
<1>3. ASSUME NEW p \in Procs, NEW x \in armed, Fire(p, x)
      PROVE  ExecuteExclusive'
    BY <1>3 DEF Fire
<1>4. ASSUME NEW p \in Procs, HasClosed(p)
      PROVE  ExecuteExclusive'
    BY <1>4 DEF HasClosed
<1>5. ASSUME NEW p \in Procs, EnterSection(p)
      PROVE  ExecuteExclusive'
    BY <1>5 DEF EnterSection, Rearm
<1>6. ASSUME NEW p \in Procs, Finish(p)
      PROVE  ExecuteExclusive'
    BY <1>6 DEF Finish, ExecuteSucceeds, ExecuteFails, Rearm
<1>7. ASSUME NEW p \in Procs, StartFails(p)
      PROVE  ExecuteExclusive'
    BY <1>7 DEF StartFails
<1>8. ASSUME NEW p \in Procs, Close(p)
      PROVE  ExecuteExclusive'
    BY <1>8 DEF Close, CloseBody
<1> QED
    BY <1>1, <1>2, <1>3, <1>4, <1>5, <1>6, <1>7, <1>8 DEF Next, Step

(* checkedExecute calls Execute under t.access: no two Executes overlap,    *)
(* whatever Start, Close and the timers do.                                 *)
THEOREM ExecuteIsExclusive == Spec => []ExecuteExclusive
<1>1. Init => ExecuteExclusive
    BY NoProcAssumption DEF Init, ExecuteExclusive
<1> QED
    BY <1>1, ExclusiveStep, TaskTypeCorrect, PTL DEF Spec

-----------------------------------------------------------------------------
(* Every step that ends a chain (an early return, an error, Close) leaves   *)
(* the flag cleared, or another chain behind.                               *)
LEMMA ChainStep ==
    TypeOK /\ ChainAlive /\ [Next]_taskVars => ChainAlive'
<1> SUFFICES ASSUME TypeOK, ChainAlive, [Next]_taskVars
             PROVE  ChainAlive'
    OBVIOUS
<1> USE DEF TypeOK, ChainAlive, Goto, PCs
<1>1. CASE UNCHANGED taskVars
    BY <1>1 DEF taskVars
<1>2. ASSUME NEW p \in Procs, NEW c \in {"start", "startFirst"}, Start(p, c)
      PROVE  ChainAlive'
    BY ZenonT(60), <1>2 DEF Start
<1>3. ASSUME NEW p \in Procs, NEW x \in armed, Fire(p, x)
      PROVE  ChainAlive'
    BY <1>3 DEF Fire
<1>4. ASSUME NEW p \in Procs, HasClosed(p)
      PROVE  ChainAlive'
    BY <1>4 DEF HasClosed
<1>5. ASSUME NEW p \in Procs, EnterSection(p)
      PROVE  ChainAlive'
    BY <1>5 DEF EnterSection, Rearm
<1>6. ASSUME NEW p \in Procs, Finish(p)
      PROVE  ChainAlive'
    BY ZenonT(60), <1>6 DEF Finish, ExecuteSucceeds, ExecuteFails, Rearm
<1>7. ASSUME NEW p \in Procs, StartFails(p)
      PROVE  ChainAlive'
    BY <1>7 DEF StartFails
<1>8. ASSUME NEW p \in Procs, Close(p)
      PROVE  ChainAlive'
    BY <1>8 DEF Close, CloseBody
<1> QED
    BY <1>1, <1>2, <1>3, <1>4, <1>5, <1>6, <1>7, <1>8 DEF Next, Step

(* A task whose running flag is set has an armed timer or a goroutine on    *)
(* its way to arming one: Start, which refuses a running task, never leaves *)
(* a dead task behind.                                                      *)
THEOREM RunningTaskHasSuccessor == Spec => []ChainAlive
<1>1. Init => ChainAlive
    BY DEF Init, ChainAlive
<1> QED
    BY <1>1, ChainStep, TaskTypeCorrect, PTL DEF Spec

-----------------------------------------------------------------------------
(* The steps of the controller in which the monitor's task takes no part. *)
LEMMA MonitorRests ==
    ASSUME NEW p \in Procs,
           \/ StartReport(p) \/ CloseReport(p) \/ DelNode(p) \/ AddNode(p)
           \/ ReloadFails(p) \/ FetchChanged(p) \/ ReportStep(p) \/ FireReport(p)
           \/ BeginClose \/ PanelChanges
    PROVE  UNCHANGED taskVars
BY ZenonT(60) DEF StartReport, CloseReport, DelNode, AddNode, ReloadFails, FetchChanged,
   ReportStep, FireReport, BeginClose, PanelChanges

(* A worker is in its own code only while it holds the mutex of the         *)
(* monitor's task, so Close and Start of that task are Main's calls.        *)
LEMMA MainCalls ==
    ASSUME TypeOK, ExecuteExclusive, NEW p \in Procs, StartMonitor(p) \/ CloseMonitor(p)
    PROVE  p \notin Workers /\ pc[p] = "idle"
<1>1. pc[p] = IF p \in Workers THEN "execute" ELSE "idle"
    BY ZenonT(60) DEF StartMonitor, CloseMonitor, InOwnCode
<1>2. access = NoProc /\ (pc[p] = "execute" => access = p)
    BY ZenonT(60) DEF StartMonitor, CloseMonitor, Start, CloseBody, ExecuteExclusive
<1> QED
    BY ZenonT(60), <1>1, <1>2, NoProcAssumption

(* Every step of the controller is a step of the monitor's task or leaves   *)
(* it alone.                                                                *)
LEMMA MonitorRefines ==
    TypeOK /\ ExecuteExclusive /\ [TasksNext]_vars => [Next]_taskVars
<1> SUFFICES ASSUME TypeOK, ExecuteExclusive, [TasksNext]_vars PROVE [Next]_taskVars
    OBVIOUS
<1>1. CASE UNCHANGED vars
    BY ZenonT(60), <1>1 DEF vars
<1>2. ASSUME NEW p \in Procs, StartMonitor(p) PROVE Next
    BY ZenonT(60), <1>2 DEF StartMonitor, Next
<1>3. ASSUME NEW p \in Procs, CloseMonitor(p) PROVE Next
    <2>1. Close(p)
        BY ZenonT(60), <1>3, MainCalls DEF CloseMonitor, Close
    <2> QED
        BY ZenonT(60), <2>1 DEF Next
<1>4. ASSUME NEW p \in Procs, MonitorReturns(p) \/ MonitorStep(p) PROVE Next
    BY ZenonT(60), <1>4 DEF MonitorReturns, MonitorStep, Next, Step, Finish
<1>5. ASSUME NEW p \in Workers, FireMonitor(p) PROVE Next
    <2>1. p \in Procs
        BY ZenonT(60), ProcsAssumption
    <2> QED
        BY ZenonT(60), <1>5, <2>1 DEF FireMonitor, Next
<1>6. ASSUME NEW p \in Reporters, FireReport(p) PROVE UNCHANGED taskVars
    BY ZenonT(60), <1>6 DEF FireReport
<1>7. CASE BeginClose \/ PanelChanges
    BY ZenonT(60), <1>7 DEF BeginClose, PanelChanges
<1> QED
    BY ZenonT(60), <1>1, <1>2, <1>3, <1>4, <1>5, <1>6, <1>7, MonitorRests
    DEF TasksNext, Proceed

(* The controller uses nodeInfoMonitorPeriodic as Task assumes, although    *)
(* the monitor runs inside that task's Execute and calls the task itself.   *)
THEOREM MonitorIsATask == TasksSpec => Spec
<1>1. TasksInit => Init /\ TypeOK /\ ExecuteExclusive
    <2>1. Init => TypeOK
        BY ZenonT(60) DEF Init, TypeOK, PCs, Calls
    <2>2. Init => ExecuteExclusive
        BY ZenonT(60), NoProcAssumption DEF Init, ExecuteExclusive
    <2> QED
        BY ZenonT(60), <2>1, <2>2 DEF TasksInit
<1>2. TypeOK /\ ExecuteExclusive /\ [TasksNext]_vars => TypeOK' /\ ExecuteExclusive'
    BY MonitorRefines, TypeStep, ExclusiveStep
<1> QED
    BY <1>1, <1>2, MonitorRefines, PTL DEF TasksSpec, Spec

(* It uses userReportPeriodic in the same way. *)
THEOREM ReportIsATask == TasksSpec => Report!Spec
<1>1. TasksInit => Report!Init
    BY ZenonT(60) DEF TasksInit
<1>2. [TasksNext]_vars => [Report!Next]_(Report!taskVars)
    <2> SUFFICES ASSUME [TasksNext]_vars PROVE [Report!Next]_(Report!taskVars)
        OBVIOUS
    <2>1. UNCHANGED rVars => UNCHANGED Report!taskVars
        BY ZenonT(60) DEF rVars, Report!taskVars
    <2>2. CASE UNCHANGED vars
        BY ZenonT(60), <2>1, <2>2 DEF vars
    <2>3. ASSUME NEW p \in Procs, StartReport(p) PROVE Report!Next
        BY ZenonT(60), <2>3 DEF StartReport, Report!Next
    <2>4. ASSUME NEW p \in Procs, CloseReport(p) PROVE Report!Next
        <3>1. Report!Close(p)
            BY ZenonT(60), <2>4 DEF CloseReport, InOwnCode, Report!Close
        <3> QED
            BY ZenonT(60), <3>1 DEF Report!Next
    <2>5. ASSUME NEW p \in Procs, ReportStep(p) PROVE Report!Next
        BY ZenonT(60), <2>5 DEF ReportStep, Report!Next, Report!Step, Report!Finish
    <2>6. ASSUME NEW p \in Reporters, FireReport(p) PROVE Report!Next
        <3>1. p \in Procs
            BY ZenonT(60), ProcsAssumption
        <3> QED
            BY ZenonT(60), <2>6, <3>1 DEF FireReport, Report!Next
    <2>7. ASSUME NEW p \in Procs,
                 \/ StartMonitor(p) \/ CloseMonitor(p) \/ DelNode(p) \/ AddNode(p)
                 \/ ReloadFails(p) \/ FetchChanged(p) \/ MonitorReturns(p) \/ MonitorStep(p)
          PROVE  UNCHANGED rVars
        BY ZenonT(60), <2>7 DEF StartMonitor, CloseMonitor, DelNode, AddNode, ReloadFails,
           FetchChanged, MonitorReturns, MonitorStep
    <2>8. ASSUME NEW p \in Workers, FireMonitor(p) PROVE UNCHANGED rVars
        BY ZenonT(60), <2>8 DEF FireMonitor
    <2>9. CASE BeginClose \/ PanelChanges
        BY ZenonT(60), <2>1, <2>9 DEF BeginClose, PanelChanges
    <2> QED
        BY ZenonT(60), <2>1, <2>2, <2>3, <2>4, <2>5, <2>6, <2>7, <2>8, <2>9
        DEF TasksNext, Proceed
<1> QED
    BY <1>1, <1>2, PTL DEF TasksSpec, Report!Spec

-----------------------------------------------------------------------------
(* The steps keep the types of the report's task, *)
LEMMA ReportTypeStep == Report!TypeOK /\ [Report!Next]_(Report!taskVars) => Report!TypeOK'
<1> SUFFICES ASSUME Report!TypeOK, [Report!Next]_(Report!taskVars)
             PROVE  Report!TypeOK'
    OBVIOUS
<1> USE DEF Report!TypeOK, Report!Goto, Report!PCs, Report!Calls
<1>1. CASE UNCHANGED Report!taskVars
    BY ZenonT(60), <1>1 DEF Report!taskVars
<1>2. ASSUME NEW p \in Procs, NEW c \in {"start", "startFirst"}, Report!Start(p, c)
      PROVE  Report!TypeOK'
    BY ZenonT(60), <1>2 DEF Report!Start
<1>3. ASSUME NEW p \in Procs, NEW x \in rArmed, Report!Fire(p, x)
      PROVE  Report!TypeOK'
    BY ZenonT(60), <1>3 DEF Report!Fire
<1>4. ASSUME NEW p \in Procs, Report!HasClosed(p)
      PROVE  Report!TypeOK'
    BY ZenonT(60), <1>4 DEF Report!HasClosed
<1>5. ASSUME NEW p \in Procs, Report!EnterSection(p)
      PROVE  Report!TypeOK'
    BY ZenonT(60), <1>5 DEF Report!EnterSection, Report!Rearm
<1>6. ASSUME NEW p \in Procs, Report!Finish(p)
      PROVE  Report!TypeOK'
    BY ZenonT(60), <1>6 DEF Report!Finish, Report!ExecuteSucceeds, Report!ExecuteFails, Report!Rearm
<1>7. ASSUME NEW p \in Procs, Report!StartFails(p)
      PROVE  Report!TypeOK'
    BY ZenonT(60), <1>7 DEF Report!StartFails
<1>8. ASSUME NEW p \in Procs, Report!Close(p)
      PROVE  Report!TypeOK'
    BY ZenonT(60), <1>8 DEF Report!Close, Report!CloseBody
<1> QED
    BY ZenonT(60), <1>1, <1>2, <1>3, <1>4, <1>5, <1>6, <1>7, <1>8 DEF Report!Next, Report!Step

(* and those of the controller's own state. *)
CtlType ==
    /\ mInterval \in Pulls /\ rInterval \in Pulls \cup Pushes
    /\ at \in [Procs -> Stages]
    /\ panel \in Configs /\ newN \in Configs /\ seen \in 0..MaxChanges
    /\ nodeUp \in BOOLEAN /\ crashed \in BOOLEAN /\ failed \in BOOLEAN /\ refused \in BOOLEAN
    /\ late \in Nat

LEMMA Advances ==
    ASSUME at \in [Procs -> Stages], NEW p \in Procs, Advance(p),
           at[p] \in {"startMonitor", "startReport", "closeMonitor", "closeReport"}
    PROVE  /\ at' \in [Procs -> Stages]
           /\ \A q \in Procs \ {p} : at'[q] = at[q]
           /\ p = Main => at'[p] = MainNext[at[p]]
           /\ p # Main => at'[p] = WorkerNext[at[p]]
<1>1. /\ MainNext.startMonitor = "startReport" /\ MainNext.startReport = "up"
      /\ MainNext.closeMonitor = "closeReport" /\ MainNext.closeReport = "delNode"
    BY DEF MainNext
<1>2. /\ WorkerNext.startMonitor = PushCheck /\ WorkerNext.startReport = "return"
      /\ WorkerNext.closeMonitor = "startMonitor" /\ WorkerNext.closeReport = "startReport"
    BY DEF WorkerNext
<1>3. PushCheck \in Stages
    BY ZenonT(60) DEF PushCheck, Stages
<1>4. MainNext[at[p]] \in Stages /\ WorkerNext[at[p]] \in Stages
    BY ZenonT(60), <1>1, <1>2, <1>3 DEF Stages
<1>5. at' = [at EXCEPT ![p] = IF p = Main THEN MainNext[at[p]] ELSE WorkerNext[at[p]]]
    BY ZenonT(60) DEF Advance
<1> QED
    BY ZenonT(60), <1>4, <1>5

LEMMA CtlTypeStep == CtlType /\ [TasksNext]_vars => CtlType'
<1> SUFFICES ASSUME CtlType, [TasksNext]_vars PROVE CtlType'
    OBVIOUS
<1>1. CASE UNCHANGED vars
    BY ZenonT(60), <1>1 DEF vars, intervals, nodeVars, CtlType
<1>2. newN.pull \in Pulls /\ newN.push \in Pushes /\ panel.version \in 0..MaxChanges
    <2>1. newN \in Configs /\ panel \in Configs
        BY ZenonT(60) DEF CtlType
    <2> QED
        BY <2>1 DEF Configs
<1>3. ASSUME NEW p \in Procs,
             StartMonitor(p) \/ StartReport(p) \/ CloseMonitor(p) \/ CloseReport(p)
      PROVE  CtlType'
    <2>1. /\ Advance(p) /\ mInterval' = mInterval
          /\ rInterval' \in {rInterval, newN.pull} /\ Others
          /\ at[p] \in {"startMonitor", "startReport", "closeMonitor", "closeReport"}
        BY ZenonT(60), <1>3 DEF StartMonitor, StartReport, CloseMonitor, CloseReport, intervals
    <2>2. at' \in [Procs -> Stages]
        BY ZenonT(60), <2>1, Advances DEF CtlType
    <2>3. rInterval' \in Pulls \cup Pushes
        BY ZenonT(60), <1>2, <2>1 DEF CtlType
    <2> QED
        BY ZenonT(60), <2>1, <2>2, <2>3 DEF Others, nodeVars, CtlType
<1>4. ASSUME NEW p \in Procs, DelNode(p) PROVE CtlType'
    <2>1. at' \in [Procs -> Stages]
        BY ZenonT(60), <1>4 DEF DelNode, CtlType, Stages
    <2> QED
        BY ZenonT(60), <1>4, <2>1 DEF DelNode, intervals, CtlType
<1>5. ASSUME NEW p \in Procs, AddNode(p) PROVE CtlType'
    <2>1. at' \in [Procs -> Stages] /\ mInterval' \in Pulls
        BY ZenonT(60), <1>2, <1>5 DEF AddNode, CtlType, Stages, PushCheck
    <2> QED
        BY ZenonT(60), <1>5, <2>1 DEF AddNode, CtlType
<1>6. ASSUME NEW p \in Procs, ReloadFails(p) PROVE CtlType'
    <2>1. at' \in [Procs -> Stages]
        BY ZenonT(60), <1>6 DEF ReloadFails, CtlType, Stages
    <2> QED
        BY ZenonT(60), <1>6, <2>1 DEF ReloadFails, intervals, CtlType
<1>7. ASSUME NEW p \in Procs, FetchChanged(p) PROVE CtlType'
    <2>1. at' \in [Procs -> Stages]
        BY ZenonT(60), <1>7 DEF FetchChanged, CtlType, Stages
    <2> QED
        BY ZenonT(60), <1>2, <1>7, <2>1 DEF FetchChanged, intervals, CtlType
<1>8. ASSUME NEW p \in Procs, MonitorReturns(p) PROVE CtlType'
    <2>1. at' \in [Procs -> Stages]
        BY ZenonT(60), <1>8 DEF MonitorReturns, CtlType, Stages
    <2> QED
        BY ZenonT(60), <1>8, <2>1 DEF MonitorReturns, intervals, Others, nodeVars, CtlType
<1>9. ASSUME NEW p \in Procs, MonitorStep(p) PROVE CtlType'
    <2>1. late \in Nat /\ late' \in {late, late + 1}
        BY ZenonT(60), <1>9 DEF MonitorStep, CtlType
    <2>2. late' \in Nat
        BY <2>1
    <2> QED
        BY ZenonT(60), <1>9, <2>2 DEF MonitorStep, intervals, nodeVars, CtlType
<1>10. ASSUME NEW p \in Procs, ReportStep(p) \/ FireMonitor(p) \/ FireReport(p) PROVE CtlType'
    BY ZenonT(60), <1>10 DEF ReportStep, FireMonitor, FireReport, intervals, Others, nodeVars,
       CtlType
<1>11. CASE BeginClose
    <2>1. Main \in Procs
        BY ZenonT(60), ProcsAssumption
    <2>2. at' \in [Procs -> Stages]
        BY ZenonT(60), <1>11, <2>1 DEF BeginClose, CtlType, Stages
    <2> QED
        BY ZenonT(60), <1>11, <2>2 DEF BeginClose, intervals, Others, nodeVars, CtlType
<1>12. CASE PanelChanges
    BY ZenonT(60), <1>12 DEF PanelChanges, intervals, nodeVars, CtlType
<1>13. Workers \subseteq Procs /\ Reporters \subseteq Procs
    BY ZenonT(60), ProcsAssumption
<1> QED
    BY ZenonT(60), <1>1, <1>3, <1>4, <1>5, <1>6, <1>7, <1>8, <1>9, <1>10, <1>11, <1>12, <1>13
    DEF TasksNext, Proceed

(* The state of the controller's tasks (node/task.go, node/controller.go)   *)
(* always has its type: no interval but the panel's is ever set.            *)
THEOREM TasksTypeCorrect == TasksSpec => []TasksTypeOK
<1>1. TasksInit => CtlType
    <2> SUFFICES ASSUME TasksInit PROVE CtlType
        OBVIOUS
    <2>1. panel \in Configs /\ panel.version = 0
        BY ZenonT(60) DEF TasksInit
    <2>2. panel.pull \in Pulls /\ panel.push \in Pushes /\ 0 \in 0..MaxChanges
        BY <2>1 DEF Configs
    <2>3. at \in [Procs -> Stages] /\ late \in Nat
        BY DEF TasksInit, Stages
    <2> QED
        BY ZenonT(60), <2>1, <2>2, <2>3 DEF TasksInit, CtlType
<1>2. TasksSpec => []CtlType
    BY <1>1, CtlTypeStep, PTL DEF TasksSpec
<1>3. Report!Spec => []Report!TypeOK
    <2>1. Report!Init => Report!TypeOK
        BY ZenonT(60) DEF Report!Init, Report!TypeOK, Report!PCs, Report!Calls
    <2> QED
        BY <2>1, ReportTypeStep, PTL DEF Report!Spec
<1>4. TypeOK /\ CtlType /\ Report!TypeOK => TasksTypeOK
    BY ZenonT(60) DEF CtlType, TasksTypeOK
<1> QED
    BY <1>2, <1>3, <1>4, MonitorIsATask, ReportIsATask, TaskTypeCorrect, PTL

-----------------------------------------------------------------------------
(* One chain: a task that Main started once is one armed timer or one       *)
(* goroutine at a time, and t.timer is that timer.                          *)
OneChain ==
    /\ armed \in SUBSET {timer}
    /\ \A p, q \in Procs : pc[p] # "idle" /\ pc[q] # "idle" => p = q
    /\ \A p \in Procs : pc[p] # "idle" => armed = {}
    /\ at[Main] = "startMonitor" => ~running /\ armed = {} /\ \A p \in Procs : pc[p] = "idle"

(* Controller.Close has closed the monitor's task. *)
Late == at[Main] \in {"closeReport", "delNode", "closed"}

(* From then on the task is not running and no timer is armed.  A goroutine *)
(* that has passed hasClosed is the last one to run the monitor.            *)
LateInv ==
    /\ ~Late => late = 0
    /\ Late => ~running /\ armed = {}
    /\ late \in {0, 1}
    /\ late = 1 => \A p \in Procs : pc[p] # "section"
    /\ Late /\ late = 0 => \A p \in Procs : pc[p] # "execute"

(* Without a late run, a reload that gave up or a core that failed to       *)
(* remove it, the node is in the core unless the monitor is about to add it *)
(* again or Close has removed it.                                           *)
NodeInv ==
    late = 0 /\ ~failed /\ ~refused =>
        /\ ~crashed
        /\ \/ nodeUp \/ at[Main] = "closed"
           \/ \E p \in Workers : pc[p] = "execute" /\ at[p] = "addNode"

(* Where the goroutines are in the controller's code. *)
StageInv ==
    /\ at[Main] \in {"startMonitor", "startReport", "up", "closeMonitor", "closeReport",
                     "delNode", "closed"}
    /\ \A p \in Reporters : at[p] = "fetch"
    /\ \A p \in Workers : at[p] # "startMonitor"

TaskInv == TypeOK /\ ExecuteExclusive /\ CtlType /\ OneChain /\ LateInv /\ NodeInv /\ StageInv

(* Steps in which the monitor's task takes no part keep its chain, and      *)
(* unless Main moves on in Close also what holds after it.                  *)
LEMMA ChainRests ==
    ASSUME TaskInv, UNCHANGED taskVars, at'[Main] = "startMonitor" => at[Main] = "startMonitor"
    PROVE  OneChain'
BY ZenonT(60) DEF TaskInv, OneChain, taskVars

LEMMA LateRests ==
    ASSUME TaskInv, UNCHANGED <<taskVars, late>>, Late' <=> Late
    PROVE  LateInv'
BY ZenonT(60) DEF TaskInv, LateInv, taskVars

(* Where a goroutine goes that calls one of the tasks. *)
LEMMA StageAdvances ==
    ASSUME TaskInv, NEW p \in Procs,
           \/ StartMonitor(p) \/ StartReport(p) \/ CloseMonitor(p) \/ CloseReport(p)
    PROVE  /\ StageInv'
           /\ \A q \in Procs \ {p} : at'[q] = at[q]
           /\ \A q \in Workers : at[q] = "addNode" => at'[q] = "addNode"
           /\ p # Main => at'[Main] = at[Main]
           /\ p = Main =>
                 /\ StartMonitor(p) => at[Main] = "startMonitor" /\ at'[Main] = "startReport"
                 /\ StartReport(p) => at[Main] = "startReport" /\ at'[Main] = "up"
                 /\ CloseMonitor(p) => at[Main] = "closeMonitor" /\ at'[Main] = "closeReport"
                 /\ CloseReport(p) => at[Main] = "closeReport" /\ at'[Main] = "delNode"
<1>1. /\ Advance(p) /\ at \in [Procs -> Stages] /\ StageInv
      /\ StartMonitor(p) => at[p] = "startMonitor"
      /\ StartReport(p) => at[p] = "startReport"
      /\ CloseMonitor(p) => at[p] = "closeMonitor"
      /\ CloseReport(p) => at[p] = "closeReport"
      /\ at[p] \in {"startMonitor", "startReport", "closeMonitor", "closeReport"}
    BY ZenonT(60) DEF TaskInv, CtlType, StartMonitor, StartReport, CloseMonitor, CloseReport
<1>2. /\ \A q \in Procs \ {p} : at'[q] = at[q]
      /\ p = Main => at'[p] = MainNext[at[p]]
      /\ p # Main => at'[p] = WorkerNext[at[p]]
    BY ZenonT(60), <1>1, Advances
<1>3. /\ MainNext.startMonitor = "startReport" /\ MainNext.startReport = "up"
      /\ MainNext.closeMonitor = "closeReport" /\ MainNext.closeReport = "delNode"
    BY DEF MainNext
<1>4. /\ WorkerNext.startMonitor = PushCheck /\ WorkerNext.startReport = "return"
      /\ WorkerNext.closeReport = "startReport"
    BY DEF WorkerNext
<1>5. Main \in Procs /\ Workers \subseteq Procs /\ Reporters \subseteq Procs /\ Main \notin Workers
    BY ZenonT(60), ProcsAssumption, RolesAssumption
<1>6. at[p] = "closeMonitor" => p \notin Workers
    <2>1. at[p] = "closeMonitor" => CloseMonitor(p)
        BY ZenonT(60) DEF StartMonitor, StartReport, CloseMonitor, CloseReport
    <2> QED
        BY ZenonT(60), <2>1, MainCalls DEF TaskInv
<1>7. p \notin Reporters
    BY ZenonT(60), <1>1 DEF StageInv
<1>8. p = Main => /\ at'[Main] \in {"startReport", "up", "closeReport", "delNode"}
                  /\ \A q \in Workers \cup Reporters : at'[q] = at[q]
    BY ZenonT(60), <1>1, <1>2, <1>3, <1>5, RolesAssumption
<1>9. p # Main => p \in Workers /\ at'[p] # "startMonitor" /\ at'[Main] = at[Main]
    <2>1. p # Main => p \in Workers
        BY ZenonT(60), <1>7, ProcsAssumption
    <2>2. PushCheck # "startMonitor"
        BY ZenonT(60) DEF PushCheck
    <2>3. p # Main => at'[p] \in {PushCheck, "return", "startReport"}
        BY ZenonT(60), <1>1, <1>2, <1>4, <1>6, <2>1
    <2> QED
        BY ZenonT(60), <1>2, <1>5, <2>1, <2>2, <2>3
<1>10. StageInv'
    <2>1. at'[Main] \in {"startMonitor", "startReport", "up", "closeMonitor", "closeReport",
                         "delNode", "closed"}
        BY ZenonT(60), <1>1, <1>8, <1>9 DEF StageInv
    <2>2. \A q \in Reporters : at'[q] = "fetch"
        BY ZenonT(60), <1>1, <1>2, <1>5, <1>7 DEF StageInv
    <2>3. \A q \in Workers : at'[q] # "startMonitor"
        BY ZenonT(60), <1>1, <1>2, <1>5, <1>8, <1>9 DEF StageInv
    <2> QED
        BY ZenonT(60), <2>1, <2>2, <2>3 DEF StageInv
<1>11. \A q \in Workers : at[q] = "addNode" => at'[q] = "addNode"
    BY ZenonT(60), <1>1, <1>2, <1>5
<1> QED
    BY ZenonT(60), <1>1, <1>2, <1>3, <1>9, <1>10, <1>11

(* Main starts the task, once. *)
LEMMA StartMonitorKeeps ==
    ASSUME TaskInv, NEW p \in Procs, StartMonitor(p)
    PROVE  OneChain' /\ LateInv' /\ NodeInv' /\ StageInv'
<1>1. p = Main /\ p \notin Workers /\ pc[p] = "idle"
    <2>1. at[p] = "startMonitor" /\ p \notin Workers /\ pc[p] = "idle"
        BY ZenonT(60), MainCalls DEF StartMonitor, TaskInv
    <2> QED
        BY ZenonT(60), <2>1, ProcsAssumption DEF TaskInv, StageInv
<1>2. /\ at[Main] = "startMonitor" /\ at'[Main] = "startReport" /\ StageInv'
      /\ \A q \in Workers : at[q] = "addNode" => at'[q] = "addNode"
    BY ZenonT(60), <1>1, StageAdvances
<1>3. ~running /\ armed = {} /\ \A q \in Procs : pc[q] = "idle"
    BY ZenonT(60), <1>2 DEF TaskInv, OneChain
<1>4. /\ pc' = [pc EXCEPT ![p] = "hasClosed"] /\ pc \in [Procs -> PCs]
      /\ UNCHANGED <<armed, timer, late, failed, refused, crashed, nodeUp>>
    BY ZenonT(60), <1>3 DEF StartMonitor, Start, Goto, Others, nodeVars, TaskInv, TypeOK
<1>5. pc'[p] = "hasClosed" /\ \A q \in Procs \ {p} : pc'[q] = "idle"
    BY ZenonT(60), <1>3, <1>4
<1>6. OneChain'
    BY ZenonT(60), <1>2, <1>3, <1>4, <1>5 DEF OneChain
<1>7. ~Late' /\ ~Late
    BY ZenonT(60), <1>2 DEF Late
<1>8. late = 0
    BY ZenonT(60), <1>7 DEF TaskInv, LateInv
<1>9. LateInv'
    BY <1>4, <1>7, <1>8 DEF LateInv
<1>10. NodeInv'
    <2>1. \A q \in Workers : pc[q] # "execute"
        BY ZenonT(60), <1>3, ProcsAssumption
    <2>2. at[Main] # "closed"
        BY ZenonT(60), <1>2
    <2> QED
        BY ZenonT(60), <1>4, <2>1, <2>2 DEF TaskInv, NodeInv
<1> QED
    BY ZenonT(60), <1>2, <1>6, <1>9, <1>10

(* Close finds the mutex free, so no monitor is running, and stops the one  *)
(* timer that was armed.                                                    *)
LEMMA CloseMonitorKeeps ==
    ASSUME TaskInv, NEW p \in Procs, CloseMonitor(p)
    PROVE  OneChain' /\ LateInv' /\ NodeInv' /\ StageInv'
<1>1. p = Main
    <2>1. at[p] = "closeMonitor" /\ p \notin Workers
        BY ZenonT(60), MainCalls DEF CloseMonitor, TaskInv
    <2> QED
        BY ZenonT(60), <2>1, ProcsAssumption DEF TaskInv, StageInv
<1>2. at[Main] = "closeMonitor" /\ at'[Main] = "closeReport" /\ StageInv'
    BY ZenonT(60), <1>1, StageAdvances
<1>3. /\ access = NoProc /\ ~running' /\ timer' = NoTimer /\ armed' = armed \ {timer}
      /\ UNCHANGED <<pc, late, failed, refused, crashed, nodeUp>>
    BY ZenonT(60) DEF CloseMonitor, CloseBody, Others, nodeVars
<1>4. armed' = {}
    BY ZenonT(60), <1>3 DEF TaskInv, OneChain
<1>5. \A q \in Procs : pc[q] # "execute"
    BY ZenonT(60), <1>3, NoProcAssumption DEF TaskInv, ExecuteExclusive
<1>6. late = 0 /\ Late'
    BY ZenonT(60), <1>2 DEF TaskInv, LateInv, Late
<1>7. OneChain'
    BY ZenonT(60), <1>2, <1>3, <1>4 DEF TaskInv, OneChain
<1>8. LateInv'
    BY <1>3, <1>4, <1>5, <1>6 DEF LateInv
<1>9. NodeInv'
    <2>1. \A q \in Workers : pc[q] # "execute"
        BY ZenonT(60), <1>5, ProcsAssumption
    <2> QED
        BY ZenonT(60), <1>2, <1>3, <2>1 DEF TaskInv, NodeInv
<1> QED
    BY ZenonT(60), <1>2, <1>7, <1>8, <1>9

(* Start and Close of the report's task do not touch the monitor's. *)
LEMMA ReportKeeps ==
    ASSUME TaskInv, NEW p \in Procs, StartReport(p) \/ CloseReport(p)
    PROVE  OneChain' /\ LateInv' /\ NodeInv' /\ StageInv'
<1>1. /\ UNCHANGED <<taskVars, late, failed, refused, crashed, nodeUp>>
      /\ UNCHANGED pc
    BY ZenonT(60) DEF StartReport, CloseReport, Others, nodeVars, taskVars
<1>2. /\ StageInv' /\ \A q \in Workers : at[q] = "addNode" => at'[q] = "addNode"
      /\ \/ at'[Main] = at[Main]
         \/ at[Main] = "startReport" /\ at'[Main] = "up"
         \/ at[Main] = "closeReport" /\ at'[Main] = "delNode"
    BY ZenonT(60), StageAdvances
<1>3. OneChain'
    BY ZenonT(60), <1>1, <1>2, ChainRests
<1>4. LateInv'
    <2>1. Late' <=> Late
        BY ZenonT(60), <1>2 DEF Late
    <2> QED
        BY ZenonT(60), <1>1, <2>1, LateRests
<1>5. NodeInv'
    BY ZenonT(60), <1>1, <1>2 DEF TaskInv, NodeInv
<1> QED
    BY ZenonT(60), <1>2, <1>3, <1>4, <1>5

(* The worker in its own code is the only goroutine inside the task, and    *)
(* not in a late run unless late counts it.                                 *)
LEMMA OneWorker ==
    ASSUME TaskInv, NEW p \in Procs, InOwnCode(p), p \in Workers
    PROVE  /\ pc[p] = "execute" /\ \A q \in Procs : pc[q] = "execute" => q = p
           /\ late = 0 => ~Late
<1>1. pc[p] = "execute"
    BY ZenonT(60) DEF InOwnCode
<1>2. pc[p] # "idle"
    BY ZenonT(60), <1>1
<1>3. \A q \in Procs : pc[q] = "execute" => q = p
    BY ZenonT(60), <1>2 DEF TaskInv, OneChain
<1> QED
    BY ZenonT(60), <1>1, <1>3 DEF TaskInv, LateInv

(* Main has no code of the monitor and a reporter has none of its own. *)
LEMMA OwnSteps ==
    ASSUME TaskInv, NEW p \in Procs, at[p] \in {"addNode", "delNode"}
    PROVE  p \in Workers \/ (p = Main /\ at[p] = "delNode")
<1>1. p \notin Reporters
    BY ZenonT(60) DEF TaskInv, StageInv
<1>2. p = Main => at[p] # "addNode"
    BY ZenonT(60) DEF TaskInv, StageInv
<1> QED
    BY ZenonT(60), <1>1, <1>2, ProcsAssumption

(* DelNode finds the node, unless one of the causes has happened. *)
LEMMA DelNodeKeeps ==
    ASSUME TaskInv, NEW p \in Procs, DelNode(p)
    PROVE  OneChain' /\ LateInv' /\ NodeInv' /\ StageInv'
<1>1. /\ InOwnCode(p) /\ at[p] = "delNode" /\ nodeUp' = FALSE /\ crashed' \in BOOLEAN
      /\ refused' = (refused \/ (nodeUp /\ crashed'))
      /\ at' = [at EXCEPT ![p] = IF p = Main THEN "closed" ELSE "addNode"]
      /\ at \in [Procs -> Stages]
      /\ UNCHANGED <<taskVars, late, failed>> /\ UNCHANGED pc
    BY ZenonT(60) DEF DelNode, taskVars, TaskInv, CtlType
<1>2. /\ at'[p] = IF p = Main THEN "closed" ELSE "addNode"
      /\ \A q \in Procs \ {p} : at'[q] = at[q]
    BY ZenonT(60), <1>1
<1>3. Main \in Procs /\ Main \notin Workers /\ Workers \subseteq Procs /\ Reporters \subseteq Procs
    BY ZenonT(60), ProcsAssumption, RolesAssumption
<1>4. CASE p \in Workers
    <2>1. at'[p] = "addNode" /\ at'[Main] = at[Main]
        BY ZenonT(60), <1>2, <1>3, <1>4
    <2>2. OneChain' /\ LateInv'
        <3>1. Late' <=> Late
            BY ZenonT(60), <2>1 DEF Late
        <3> QED
            BY ZenonT(60), <1>1, <2>1, <3>1, ChainRests, LateRests
    <2>3. NodeInv'
        <3> SUFFICES ASSUME late' = 0, ~failed', ~refused' PROVE NodeInv'
            BY ZenonT(60) DEF NodeInv
        <3>1. ~Late /\ pc[p] = "execute" /\ \A q \in Procs : pc[q] = "execute" => q = p
            BY ZenonT(60), <1>1, <1>4, OneWorker
        <3>2. at[Main] # "closed"
            BY ZenonT(60), <3>1 DEF Late
        <3>3. nodeUp
            <4>1. ~(\E q \in Workers : pc[q] = "execute" /\ at[q] = "addNode")
                BY ZenonT(60), <1>1, <1>3, <3>1
            <4> QED
                BY ZenonT(60), <1>1, <3>2, <4>1 DEF TaskInv, NodeInv
        <3> QED
            BY ZenonT(60), <1>1, <1>4, <2>1, <3>1, <3>3 DEF NodeInv
    <2>4. StageInv'
        <3>1. \A q \in Reporters : q # p
            BY ZenonT(60), <1>4, RolesAssumption
        <3> QED
            BY ZenonT(60), <1>2, <1>3, <2>1, <3>1 DEF TaskInv, StageInv
    <2> QED
        BY ZenonT(60), <2>2, <2>3, <2>4
<1>5. CASE p = Main
    <2>1. at'[Main] = "closed" /\ at[Main] = "delNode"
        BY ZenonT(60), <1>1, <1>2, <1>5
    <2>2. OneChain' /\ LateInv'
        <3>1. Late' <=> Late
            BY ZenonT(60), <2>1 DEF Late
        <3> QED
            BY ZenonT(60), <1>1, <2>1, <3>1, ChainRests, LateRests
    <2>3. NodeInv'
        <3> SUFFICES ASSUME late' = 0, ~failed', ~refused' PROVE NodeInv'
            BY ZenonT(60) DEF NodeInv
        <3>1. \A q \in Workers : pc[q] # "execute"
            BY ZenonT(60), <1>1, <1>3, <2>1 DEF TaskInv, LateInv, Late
        <3>2. nodeUp
            BY ZenonT(60), <1>1, <2>1, <3>1 DEF TaskInv, NodeInv
        <3> QED
            BY ZenonT(60), <1>1, <2>1, <3>2 DEF NodeInv
    <2>4. StageInv'
        <3>1. \A q \in Workers \cup Reporters : at'[q] = at[q]
            BY ZenonT(60), <1>2, <1>3, <1>5, RolesAssumption
        <3> QED
            BY ZenonT(60), <2>1, <3>1 DEF TaskInv, StageInv
    <2> QED
        BY ZenonT(60), <2>2, <2>3, <2>4
<1> QED
    BY ZenonT(60), <1>1, <1>4, <1>5, OwnSteps

(* The steps of the monitor within its own code that do not remove the node. *)
LEMMA WorkerKeeps ==
    ASSUME TaskInv, NEW p \in Procs, p \in Workers, UNCHANGED <<taskVars, late>>,
           NEW to, at' = [at EXCEPT ![p] = to], to # "startMonitor",
           NodeInv'
    PROVE  OneChain' /\ LateInv' /\ NodeInv' /\ StageInv'
<1>1. /\ at'[p] = to /\ \A q \in Procs \ {p} : at'[q] = at[q]
      /\ Main \in Procs /\ Main # p /\ Workers \subseteq Procs /\ Reporters \subseteq Procs
      /\ \A q \in Reporters : q # p
    BY ZenonT(60), ProcsAssumption, RolesAssumption DEF TaskInv, CtlType
<1>2. at'[Main] = at[Main]
    BY ZenonT(60), <1>1
<1>3. Late' <=> Late
    BY ZenonT(60), <1>2 DEF Late
<1>4. StageInv'
    BY ZenonT(60), <1>1, <1>2 DEF TaskInv, StageInv
<1> QED
    BY ZenonT(60), <1>2, <1>3, <1>4, ChainRests, LateRests

LEMMA ReloadKeeps ==
    ASSUME TaskInv, NEW p \in Procs, AddNode(p) \/ ReloadFails(p) \/ FetchChanged(p)
    PROVE  OneChain' /\ LateInv' /\ NodeInv' /\ StageInv'
<1>1. p \in Workers /\ UNCHANGED <<taskVars, late>>
    BY ZenonT(60), OwnSteps DEF AddNode, ReloadFails, FetchChanged
<1>2. CASE AddNode(p)
    <2>1. PICK to \in {"closeMonitor", PushCheck} : at' = [at EXCEPT ![p] = to]
        BY ZenonT(60), <1>2 DEF AddNode
    <2>2. to # "startMonitor"
        BY ZenonT(60) DEF PushCheck
    <2>3. NodeInv'
        BY ZenonT(60), <1>2 DEF AddNode, TaskInv, NodeInv
    <2> QED
        BY ZenonT(60), <1>1, <2>1, <2>2, <2>3, WorkerKeeps
<1>3. CASE ReloadFails(p)
    <2>1. at' = [at EXCEPT ![p] = "return"]
        BY ZenonT(60), <1>3 DEF ReloadFails
    <2>2. NodeInv'
        <3>1. failed' \/ (nodeUp' /\ UNCHANGED <<failed, refused, crashed, late>>)
            BY ZenonT(60), <1>3 DEF ReloadFails
        <3> QED
            BY ZenonT(60), <3>1 DEF TaskInv, NodeInv
    <2> QED
        BY ZenonT(60), <1>1, <2>1, <2>2, WorkerKeeps
<1>4. CASE FetchChanged(p)
    <2>1. /\ at' = [at EXCEPT ![p] = "delNode"] /\ at[p] = "fetch"
          /\ UNCHANGED <<nodeUp, crashed, failed, refused>>
        BY ZenonT(60), <1>4 DEF FetchChanged
    <2>2. NodeInv'
        <3>1. /\ Main \in Procs /\ Main # p /\ Workers \subseteq Procs
              /\ \A q \in Procs \ {p} : at'[q] = at[q]
            BY ZenonT(60), <1>1, <2>1, ProcsAssumption, RolesAssumption DEF TaskInv, CtlType
        <3>2. \A q \in Workers : at[q] = "addNode" => at'[q] = "addNode"
            BY ZenonT(60), <2>1, <3>1
        <3> QED
            BY ZenonT(60), <1>1, <2>1, <3>1, <3>2 DEF taskVars, TaskInv, NodeInv
    <2> QED
        BY ZenonT(60), <1>1, <2>1, <2>2, WorkerKeeps
<1> QED
    BY ZenonT(60), <1>2, <1>3, <1>4

(* Controller.Close is called. *)
LEMMA BeginCloseKeeps ==
    ASSUME TaskInv, BeginClose
    PROVE  OneChain' /\ LateInv' /\ NodeInv' /\ StageInv'
<1>1. /\ at[Main] = "up" /\ at' = [at EXCEPT ![Main] = "closeMonitor"] /\ at \in [Procs -> Stages]
      /\ UNCHANGED <<taskVars, late, failed, refused, crashed, nodeUp>> /\ UNCHANGED pc
    BY ZenonT(60) DEF BeginClose, Others, nodeVars, taskVars, TaskInv, CtlType
<1>2. /\ Main \in Procs /\ Workers \cup Reporters \subseteq Procs
      /\ \A q \in Workers \cup Reporters : q # Main
    BY ZenonT(60), ProcsAssumption, RolesAssumption
<1>3. at'[Main] = "closeMonitor" /\ \A q \in Workers \cup Reporters : at'[q] = at[q]
    BY ZenonT(60), <1>1, <1>2
<1>4. ~Late' /\ ~Late
    BY ZenonT(60), <1>1, <1>3 DEF Late
<1>5. OneChain' /\ LateInv'
    BY ZenonT(60), <1>1, <1>3, <1>4, ChainRests, LateRests
<1>6. NodeInv'
    BY ZenonT(60), <1>1, <1>3 DEF TaskInv, NodeInv
<1>7. StageInv'
    BY ZenonT(60), <1>3 DEF TaskInv, StageInv
<1> QED
    BY ZenonT(60), <1>5, <1>6, <1>7

(* checkedExecute arms the next timer, unless the task was closed. *)
LEMMA RearmKeeps ==
    ASSUME TaskInv, NEW p \in Procs, pc[p] # "idle", Rearm(p), running' = running
    PROVE  /\ armed' \in SUBSET {timer'} /\ \A q \in Procs : pc'[q] = "idle"
           /\ ~running => armed' = {}
<1>1. armed = {} /\ \A q \in Procs \ {p} : pc[q] = "idle"
    BY ZenonT(60) DEF TaskInv, OneChain
<1>2. pc'[p] = "idle" /\ \A q \in Procs \ {p} : pc'[q] = pc[q]
    BY ZenonT(60) DEF TaskInv, TypeOK, Rearm, Goto
<1>3. (~running /\ armed' = armed) \/ (running /\ \E x \in Timers : timer' = x /\ armed' = armed \cup {x})
    BY ZenonT(60) DEF Rearm
<1> QED
    BY ZenonT(60), <1>1, <1>2, <1>3

(* The monitor returns to checkedExecute. *)
LEMMA MonitorReturnsKeeps ==
    ASSUME TaskInv, NEW p \in Procs, MonitorReturns(p)
    PROVE  OneChain' /\ LateInv' /\ NodeInv' /\ StageInv'
<1>1. /\ p \in Workers /\ at[p] \in {"fetch", "return"} /\ pc[p] = "execute" /\ pc[p] # "idle"
      /\ Rearm(p) /\ at' = [at EXCEPT ![p] = "fetch"] /\ at \in [Procs -> Stages] /\ InOwnCode(p)
      /\ UNCHANGED <<running, late, failed, refused, crashed, nodeUp>>
    BY ZenonT(60) DEF MonitorReturns, ExecuteSucceeds, Others, nodeVars, TaskInv, CtlType
<1>2. /\ armed' \in SUBSET {timer'} /\ \A q \in Procs : pc'[q] = "idle"
      /\ ~running => armed' = {}
    BY ZenonT(60), <1>1, RearmKeeps
<1>3. /\ Main \in Procs /\ Main # p /\ Workers \subseteq Procs /\ Reporters \subseteq Procs
      /\ at'[p] = "fetch" /\ \A q \in Procs \ {p} : at'[q] = at[q]
    BY ZenonT(60), <1>1, ProcsAssumption, RolesAssumption
<1>4. at'[Main] = at[Main] /\ (Late' <=> Late)
    BY ZenonT(60), <1>3 DEF Late
<1>5. at[Main] # "startMonitor"
    BY ZenonT(60), <1>1 DEF TaskInv, OneChain
<1>6. OneChain'
    BY ZenonT(60), <1>2, <1>4, <1>5 DEF OneChain
<1>7. LateInv'
    BY ZenonT(60), <1>1, <1>2, <1>4 DEF TaskInv, LateInv
<1>8. NodeInv'
    <2>1. \A q \in Workers : pc[q] = "execute" => at[q] # "addNode"
        BY ZenonT(60), <1>1, <1>3, OneWorker
    <2> QED
        BY ZenonT(60), <1>1, <1>4, <2>1 DEF TaskInv, NodeInv
<1>9. StageInv'
    BY ZenonT(60), <1>3, <1>4 DEF TaskInv, StageInv
<1> QED
    BY ZenonT(60), <1>6, <1>7, <1>8, <1>9

(* checkedExecute up to the call of the monitor.  With the task closed,     *)
(* hasClosed lets nobody pass, and the one that had passed runs late.       *)
LEMMA MonitorStepKeeps ==
    ASSUME TaskInv, NEW p \in Procs, MonitorStep(p)
    PROVE  OneChain' /\ LateInv' /\ NodeInv' /\ StageInv'
<1>1. /\ late' = IF pc'[p] = "execute" /\ Late THEN late + 1 ELSE late
      /\ UNCHANGED <<running, at, nodeUp, crashed, failed, refused>>
    BY ZenonT(60) DEF MonitorStep, nodeVars, HasClosed, EnterSection, Late
<1>2. (Late' <=> Late) /\ StageInv'
    BY ZenonT(60), <1>1 DEF Late, TaskInv, StageInv
<1>3. pc \in [Procs -> PCs] /\ Workers \subseteq Procs
    BY ZenonT(60), ProcsAssumption DEF TaskInv, TypeOK
<1>4. pc[p] \in {"hasClosed", "section"} /\ pc[p] # "idle"
    BY ZenonT(60) DEF MonitorStep, HasClosed, EnterSection
<1>5. /\ armed = {} /\ \A q \in Procs \ {p} : pc[q] = "idle"
      /\ at[Main] # "startMonitor"
    BY ZenonT(60), <1>4 DEF TaskInv, OneChain
<1>6. \A q \in Workers : pc[q] # "execute"
    BY ZenonT(60), <1>3, <1>4, <1>5
<1>7. /\ armed' \in SUBSET {timer'} /\ \A q \in Procs \ {p} : pc'[q] = "idle"
      /\ pc'[p] # "idle" => armed' = {}
      /\ ~running => armed' = {}
      /\ pc'[p] = "section" => running
      /\ pc'[p] = "execute" => pc[p] = "section"
    <2>1. CASE HasClosed(p)
        <3>1. /\ pc' = [pc EXCEPT ![p] = IF running THEN "section" ELSE "idle"]
              /\ UNCHANGED <<armed, timer>>
            BY ZenonT(60), <2>1 DEF HasClosed, Goto
        <3>2. /\ pc'[p] = IF running THEN "section" ELSE "idle"
              /\ \A q \in Procs \ {p} : pc'[q] = pc[q]
            BY ZenonT(60), <1>3, <3>1
        <3>3. pc'[p] # "execute" /\ (pc'[p] = "section" => running)
            BY ZenonT(60), <3>2
        <3>4. armed' = {} /\ \A q \in Procs \ {p} : pc'[q] = "idle"
            BY ZenonT(60), <1>5, <3>1, <3>2
        <3> QED
            BY ZenonT(60), <3>3, <3>4
    <2>2. CASE EnterSection(p) /\ call[p] # "start"
        <3>1. /\ pc' = [pc EXCEPT ![p] = "execute"] /\ pc[p] = "section"
              /\ UNCHANGED <<armed, timer>>
            BY ZenonT(60), <2>2 DEF EnterSection, Goto
        <3>2. pc'[p] = "execute" /\ \A q \in Procs \ {p} : pc'[q] = pc[q]
            BY ZenonT(60), <1>3, <3>1
        <3> QED
            BY ZenonT(60), <1>5, <3>1, <3>2
    <2>3. CASE EnterSection(p) /\ call[p] = "start"
        <3>1. Rearm(p)
            BY ZenonT(60), <2>3 DEF EnterSection
        <3>2. /\ armed' \in SUBSET {timer'} /\ \A q \in Procs : pc'[q] = "idle"
              /\ ~running => armed' = {}
            BY ZenonT(60), <1>1, <1>4, <3>1, RearmKeeps
        <3> QED
            BY ZenonT(60), <3>2
    <2> QED
        BY ZenonT(60), <2>1, <2>2, <2>3 DEF MonitorStep
<1>8. OneChain'
    BY ZenonT(60), <1>1, <1>5, <1>7 DEF OneChain
<1>9. LateInv'
    <2>1. CASE pc'[p] = "execute" /\ Late
        <3>1. late = 0
            BY ZenonT(60), <1>7, <2>1 DEF TaskInv, LateInv
        <3>2. late' = 1
            BY <1>1, <2>1, <3>1
        <3>3. \A q \in Procs : pc'[q] # "section"
            BY ZenonT(60), <1>7, <2>1
        <3>4. late' # 0
            BY <3>2
        <3>5. ~running' /\ armed' = {}
            BY ZenonT(60), <1>1, <1>7, <2>1 DEF TaskInv, LateInv
        <3> QED
            BY ZenonT(60), <1>2, <2>1, <3>2, <3>3, <3>4, <3>5 DEF LateInv
    <2>2. CASE ~(pc'[p] = "execute" /\ Late)
        <3>1. late' = late
            BY ZenonT(60), <1>1, <2>2
        <3>2. Late => ~running' /\ armed' = {} /\ \A q \in Procs : pc'[q] \notin {"execute", "section"}
            <4>1. Late => ~running
                BY ZenonT(60) DEF TaskInv, LateInv
            <4>2. Late => pc'[p] # "execute" /\ pc'[p] # "section"
                BY ZenonT(60), <1>7, <2>2, <4>1
            <4> QED
                BY ZenonT(60), <1>1, <1>7, <4>1, <4>2
        <3>3. late = 1 => Late
            BY DEF TaskInv, LateInv
        <3> QED
            BY ZenonT(60), <1>2, <3>1, <3>2, <3>3 DEF TaskInv, LateInv
    <2> QED
        BY ZenonT(60), <2>1, <2>2
<1>10. NodeInv'
    <2>1. late' = 0 => late = 0
        <3>1. late \in {0, 1}
            BY ZenonT(60) DEF TaskInv, LateInv
        <3> QED
            BY <1>1, <3>1
    <2> QED
        BY ZenonT(60), <1>1, <1>6, <2>1 DEF TaskInv, NodeInv
<1> QED
    BY ZenonT(60), <1>2, <1>8, <1>9, <1>10

(* The timer fires. *)
LEMMA FireMonitorKeeps ==
    ASSUME TaskInv, NEW p \in Procs, FireMonitor(p)
    PROVE  OneChain' /\ LateInv' /\ NodeInv' /\ StageInv'
<1>1. /\ pc[p] = "idle" /\ pc' = [pc EXCEPT ![p] = "hasClosed"] /\ pc \in [Procs -> PCs]
      /\ \E x \in armed : armed' = armed \ {x}
      /\ UNCHANGED <<running, timer, at, late, failed, refused, crashed, nodeUp>>
    BY ZenonT(60) DEF FireMonitor, Idle, Fire, Goto, Others, nodeVars, TaskInv, TypeOK
<1>2. armed' = {} /\ armed # {} /\ \A q \in Procs : pc[q] = "idle"
    BY ZenonT(60), <1>1 DEF TaskInv, OneChain
<1>3. /\ pc'[p] = "hasClosed" /\ (\A q \in Procs \ {p} : pc'[q] = "idle")
      /\ at[Main] # "startMonitor"
    BY ZenonT(60), <1>1, <1>2 DEF TaskInv, OneChain
<1>4. (Late' <=> Late) /\ StageInv' /\ Workers \subseteq Procs
    BY ZenonT(60), <1>1, ProcsAssumption DEF Late, TaskInv, StageInv
<1>5. OneChain'
    BY ZenonT(60), <1>1, <1>2, <1>3 DEF OneChain
<1>6. LateInv'
    <2>1. \A q \in Procs : pc'[q] # "section" /\ pc'[q] # "execute"
        BY ZenonT(60), <1>3
    <2> QED
        BY ZenonT(60), <1>1, <1>2, <1>4, <2>1 DEF TaskInv, LateInv
<1>7. NodeInv'
    BY ZenonT(60), <1>1, <1>2, <1>4 DEF TaskInv, NodeInv
<1> QED
    BY ZenonT(60), <1>4, <1>5, <1>6, <1>7

(* Steps of the report, of the panel and none. *)
LEMMA AsideKeeps ==
    ASSUME TaskInv, UNCHANGED <<taskVars, at, late, failed, refused, crashed, nodeUp>>
    PROVE  OneChain' /\ LateInv' /\ NodeInv' /\ StageInv'
<1>1. Late' <=> Late
    BY ZenonT(60) DEF Late
<1>2. OneChain' /\ LateInv'
    BY ZenonT(60), <1>1, ChainRests, LateRests
<1>3. NodeInv' /\ StageInv'
    BY ZenonT(60) DEF TaskInv, NodeInv, StageInv, taskVars
<1> QED
    BY ZenonT(60), <1>2, <1>3

LEMMA TaskInvStep == TaskInv /\ [TasksNext]_vars => TaskInv'
<1> SUFFICES ASSUME TaskInv, [TasksNext]_vars PROVE TaskInv'
    OBVIOUS
<1>1. TypeOK' /\ ExecuteExclusive' /\ CtlType'
    BY ZenonT(60), MonitorRefines, TypeStep, ExclusiveStep, CtlTypeStep DEF TaskInv
<1>2. ASSUME NEW p \in Procs, Proceed(p)
      PROVE  OneChain' /\ LateInv' /\ NodeInv' /\ StageInv'
    <2>1. CASE ReportStep(p)
        BY ZenonT(60), <2>1, AsideKeeps DEF ReportStep, Others, nodeVars
    <2> QED
        BY ZenonT(60), <1>2, <2>1, StartMonitorKeeps, CloseMonitorKeeps, ReportKeeps,
           DelNodeKeeps, ReloadKeeps, MonitorReturnsKeeps, MonitorStepKeeps DEF Proceed
<1>3. ASSUME NEW p \in Workers, FireMonitor(p)
      PROVE  OneChain' /\ LateInv' /\ NodeInv' /\ StageInv'
    BY ZenonT(60), <1>3, ProcsAssumption, FireMonitorKeeps
<1>4. ASSUME NEW p \in Reporters, FireReport(p)
      PROVE  OneChain' /\ LateInv' /\ NodeInv' /\ StageInv'
    BY ZenonT(60), <1>4, AsideKeeps DEF FireReport, Others, nodeVars
<1>5. CASE PanelChanges
    BY ZenonT(60), <1>1, <1>5, AsideKeeps DEF PanelChanges, nodeVars, TaskInv
<1>6. CASE UNCHANGED vars
    BY ZenonT(60), <1>1, <1>6, AsideKeeps DEF vars, nodeVars, TaskInv
<1> QED
    BY ZenonT(60), <1>1, <1>2, <1>3, <1>4, <1>5, <1>6, BeginCloseKeeps DEF TasksNext, TaskInv

LEMMA TaskInvHolds == TasksSpec => []TaskInv
<1>1. TasksInit => OneChain /\ LateInv /\ NodeInv /\ StageInv
    <2> SUFFICES ASSUME TasksInit PROVE OneChain /\ LateInv /\ NodeInv /\ StageInv
        OBVIOUS
    <2>1. /\ ~running /\ armed = {} /\ pc = [p \in Procs |-> "idle"]
          /\ at = [p \in Procs |-> IF p = Main THEN "startMonitor" ELSE "fetch"]
          /\ nodeUp /\ ~crashed /\ late = 0
        BY ZenonT(60) DEF TasksInit, Init
    <2>2. /\ Main \in Procs /\ Workers \cup Reporters \subseteq Procs
          /\ \A q \in Workers \cup Reporters : q # Main
        BY ZenonT(60), ProcsAssumption, RolesAssumption
    <2>3. /\ at[Main] = "startMonitor" /\ \A q \in Workers \cup Reporters : at[q] = "fetch"
          /\ \A p \in Procs : pc[p] = "idle"
        BY ZenonT(60), <2>1, <2>2
    <2>4. LateInv
        BY <2>1, <2>3 DEF LateInv, Late
    <2> QED
        BY ZenonT(60), <2>1, <2>3, <2>4 DEF OneChain, NodeInv, StageInv
<1>2. TasksSpec => [](TypeOK /\ ExecuteExclusive)
    BY MonitorIsATask, TaskTypeCorrect, ExecuteIsExclusive, PTL
<1>3. TasksSpec => []CtlType
    <2>1. TasksTypeOK => CtlType
        BY ZenonT(60) DEF TasksTypeOK, CtlType
    <2> QED
        BY <2>1, TasksTypeCorrect, PTL
<1>4. TypeOK /\ ExecuteExclusive /\ CtlType /\ OneChain /\ LateInv /\ NodeInv /\ StageInv <=> TaskInv
    BY ZenonT(60) DEF TaskInv
<1> QED
    BY <1>1, <1>2, <1>3, <1>4, TaskInvStep, PTL DEF TasksSpec

(* However many goroutines serve the timers: once Controller.Close has      *)
(* closed the monitor's task, nodeInfoMonitor begins at most once more.     *)
THEOREM OneLateRunAtMost == TasksSpec => []AtMostOneLateRun
<1>1. TaskInv => AtMostOneLateRun
    BY DEF TaskInv, LateInv, AtMostOneLateRun
<1> QED
    BY <1>1, TaskInvHolds, PTL

(* In every interleaving of Controller.Close, the monitor and the report,   *)
(* DelNode finds the node in the core, unless a monitor run began after the *)
(* task was closed or a reload gave up with the node removed; the process   *)
(* panics only after one of these, or when the core fails to remove a node  *)
(* it has.                                                                  *)
THEOREM PanicsAreCaused == TasksSpec => []PanicNeedsCause
<1>1. TaskInv => PanicNeedsCause
    <2> SUFFICES ASSUME TaskInv, crashed, ~failed, ~refused PROVE late > 0
        BY ZenonT(60) DEF PanicNeedsCause
    <2>1. late \in {0, 1} /\ late # 0
        BY ZenonT(60) DEF TaskInv, LateInv, NodeInv
    <2> QED
        BY <2>1
<1> QED
    BY <1>1, TaskInvHolds, PTL

-----------------------------------------------------------------------------
(* The monitor is about to close its own task for a new pull interval. *)
Retiming(p) == pc[p] = "execute" /\ at[p] = "closeMonitor"

(* Close waits for the mutex that checkedExecute holds around the monitor:  *)
(* a monitor that re-times its own task never gets any further, and a       *)
(* Controller.Close that has not closed the task by then never does.        *)
THEOREM RetimingBlocksForever ==
    TasksSpec => [][\A p \in Workers :
                        Retiming(p) => Retiming(p)' /\ (Late' => Late)]_vars
<1>1. TaskInv /\ [TasksNext]_vars =>
          [\A p \in Workers : Retiming(p) => Retiming(p)' /\ (Late' => Late)]_vars
    <2> SUFFICES ASSUME TaskInv, TasksNext, NEW w \in Workers, Retiming(w)
                 PROVE  Retiming(w)' /\ (Late' => Late)
        BY ZenonT(60)
    <2>1. /\ pc[w] = "execute" /\ at[w] = "closeMonitor" /\ w \in Procs /\ access = w
          /\ Main \in Procs /\ Main # w /\ access # NoProc /\ Workers \subseteq Procs
        BY ZenonT(60), ProcsAssumption, RolesAssumption, NoProcAssumption
        DEF Retiming, TaskInv, ExecuteExclusive
    <2>2. pc \in [Procs -> PCs] /\ at \in [Procs -> Stages]
        BY ZenonT(60) DEF TaskInv, TypeOK, CtlType
    <2>3. ASSUME NEW p \in Procs, StartReport(p) \/ CloseReport(p)
          PROVE  Retiming(w)' /\ (Late' => Late)
        <3>1. p # w /\ UNCHANGED pc
            BY ZenonT(60), <2>1, <2>3 DEF StartReport, CloseReport, taskVars
        <3>2. /\ at'[w] = at[w]
              /\ \/ at'[Main] = at[Main]
                 \/ at[Main] = "startReport" /\ at'[Main] = "up"
                 \/ at[Main] = "closeReport" /\ at'[Main] = "delNode"
            BY ZenonT(60), <2>1, <2>3, <3>1, StageAdvances
        <3> QED
            BY ZenonT(60), <2>1, <3>1, <3>2 DEF Retiming, Late
    <2>4. ASSUME NEW p \in Procs, DelNode(p) \/ AddNode(p) \/ ReloadFails(p) \/ FetchChanged(p)
          PROVE  Retiming(w)' /\ (Late' => Late)
        <3>1. p # w /\ UNCHANGED pc /\ \A q \in Procs \ {p} : at'[q] = at[q]
            BY ZenonT(60), <2>1, <2>2, <2>4
            DEF DelNode, AddNode, ReloadFails, FetchChanged, taskVars
        <3>2. p = Main => Late
            BY ZenonT(60), <2>4, OwnSteps, RolesAssumption
            DEF DelNode, AddNode, ReloadFails, FetchChanged, Late
        <3> QED
            BY ZenonT(60), <2>1, <3>1, <3>2 DEF Retiming, Late
    <2>5. ASSUME NEW p \in Procs, StartMonitor(p) \/ CloseMonitor(p) \/ MonitorStep(p) PROVE FALSE
        BY ZenonT(60), <2>1, <2>5 DEF StartMonitor, CloseMonitor, MonitorStep, Start, CloseBody,
           HasClosed, EnterSection
    <2>6. ASSUME NEW p \in Procs, MonitorReturns(p) PROVE FALSE
        <3>1. pc[p] = "execute" /\ at[p] \in {"fetch", "return"}
            BY ZenonT(60), <2>6 DEF MonitorReturns, ExecuteSucceeds
        <3>2. access = p
            BY ZenonT(60), <3>1 DEF TaskInv, ExecuteExclusive
        <3> QED
            BY ZenonT(60), <2>1, <3>1, <3>2
    <2>7. ASSUME NEW p \in Procs, FireMonitor(p) PROVE FALSE
        <3>1. armed # {}
            BY ZenonT(60), <2>7 DEF FireMonitor
        <3>2. pc[w] # "idle"
            BY ZenonT(60), <2>1
        <3> QED
            BY ZenonT(60), <2>1, <3>1, <3>2 DEF TaskInv, OneChain
    <2>8. CASE BeginClose
        <3>1. UNCHANGED pc /\ at'[Main] = "closeMonitor" /\ at'[w] = at[w]
            BY ZenonT(60), <2>1, <2>2, <2>8 DEF BeginClose, taskVars
        <3> QED
            BY ZenonT(60), <2>1, <3>1 DEF Retiming, Late
    <2>9. ASSUME UNCHANGED <<pc, at>> PROVE Retiming(w)' /\ (Late' => Late)
        BY ZenonT(60), <2>1, <2>9 DEF Retiming, Late
    <2>10. ASSUME NEW p \in Procs, ReportStep(p) \/ FireReport(p) \/ PanelChanges
           PROVE  UNCHANGED <<pc, at>>
        BY ZenonT(60), <2>10 DEF ReportStep, FireReport, PanelChanges, taskVars
    <2>11. Reporters \subseteq Procs
        BY ZenonT(60), ProcsAssumption
    <2> QED
        BY ZenonT(60), <2>1, <2>3, <2>4, <2>5, <2>6, <2>7, <2>8, <2>9, <2>10, <2>11
        DEF TasksNext, Proceed
<1> QED
    BY <1>1, TaskInvHolds, PTL DEF TasksSpec

=============================================================================
