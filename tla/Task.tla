-------------------------------- MODULE Task --------------------------------
(***************************************************************************)
(* The periodic task of common/task/task.go: a mutex, a running flag and   *)
(* the current time.AfterFunc timer.  Every goroutine that meets the task  *)
(* is a member of Procs: the callers of Start and Close, and the           *)
(* goroutines in which fired timers run checkedExecute(true).              *)
(*                                                                         *)
(* A critical section is one step, except the one that calls Execute:      *)
(* checkedExecute holds t.access for the whole of Execute, so that section *)
(* is split in two with the mutex held in between.                         *)
(***************************************************************************)
EXTENDS Naturals, FiniteSets

CONSTANTS
    Procs,      \* goroutines
    Timers,     \* identities of time.Timer values
    NoProc,     \* the mutex is free
    NoTimer     \* t.timer = nil

ASSUME NoProcAssumption == NoProc \notin Procs
ASSUME NoTimerAssumption == NoTimer \notin Timers

VARIABLES
    access,     \* t.access: the goroutine that holds the mutex, or NoProc
    running,    \* t.running
    timer,      \* t.timer (may point at a timer that has already fired)
    armed,      \* the timers that will still fire
    pc,         \* where each goroutine is in the task's code
    call        \* what it called: a fired timer, Start(true) or Start(false)

taskVars == <<access, running, timer, armed, pc, call>>

Calls == {"timer", "startFirst", "start"}

\* "hasClosed": about to test hasClosed(); "section": about to take the mutex
\* in checkedExecute; "execute": inside Execute; "startErr": about to reset
\* running after a failed first execution.
PCs == {"idle", "hasClosed", "section", "execute", "startErr"}

(* The mutex, the flag, the timers and the program counters have their types. *)
TypeOK ==
    /\ access \in Procs \cup {NoProc}
    /\ running \in BOOLEAN
    /\ timer \in Timers \cup {NoTimer}
    /\ armed \in SUBSET Timers
    /\ pc \in [Procs -> PCs]
    /\ call \in [Procs -> Calls]

Init ==
    /\ access = NoProc
    /\ running = FALSE
    /\ timer = NoTimer
    /\ armed = {}
    /\ pc = [p \in Procs |-> "idle"]
    /\ call = [p \in Procs |-> "timer"]

Goto(p, where) == pc' = [pc EXCEPT ![p] = where]

-----------------------------------------------------------------------------
\* Start(first).  On a running task it returns nil at once.
Start(p, c) ==
    /\ pc[p] = "idle"
    /\ access = NoProc
    /\ \/ /\ running
          /\ UNCHANGED <<running, call, pc>>
       \/ /\ ~running
          /\ running' = TRUE
          /\ call' = [call EXCEPT ![p] = c]
          /\ Goto(p, "hasClosed")
    /\ UNCHANGED <<access, timer, armed>>

\* time.AfterFunc runs checkedExecute(true) in a goroutine of its own.
Fire(p, x) ==
    /\ pc[p] = "idle"
    /\ x \in armed
    /\ armed' = armed \ {x}
    /\ call' = [call EXCEPT ![p] = "timer"]
    /\ Goto(p, "hasClosed")
    /\ UNCHANGED <<access, running, timer>>

\* The early return of checkedExecute; the mutex is released before it is
\* taken again.
HasClosed(p) ==
    /\ pc[p] = "hasClosed"
    /\ access = NoProc
    /\ Goto(p, IF running THEN "section" ELSE "idle")
    /\ UNCHANGED <<access, running, timer, armed, call>>

\* The end of checkedExecute: arm the next timer if the task still runs.
\* What t.timer pointed at before is forgotten, fired or not.
Rearm(p) ==
    /\ access' = NoProc
    /\ Goto(p, "idle")
    /\ \/ /\ ~running
          /\ UNCHANGED <<timer, armed>>
       \/ /\ running
          /\ \E x \in Timers \ armed :
                /\ timer' = x
                /\ armed' = armed \cup {x}

\* Mutant: the mutex is released before Execute is called.
EnterSectionUnlocked(p) ==
    /\ pc[p] = "section"
    /\ access = NoProc
    /\ \/ /\ call[p] # "start"
          /\ Goto(p, "execute")
          /\ UNCHANGED <<access, timer, armed>>
       \/ /\ call[p] = "start"
          /\ Rearm(p)
    /\ UNCHANGED <<running, call>>

\* Mutant: the timer calls checkedExecute(false).
EnterSectionNeverFirst(p) ==
    /\ pc[p] = "section"
    /\ access = NoProc
    /\ Rearm(p)
    /\ UNCHANGED <<running, call>>

\* checkedExecute takes the mutex; it does not look at running again before
\* it calls Execute.
EnterSection(p) ==
    /\ pc[p] = "section"
    /\ access = NoProc
    /\ \/ /\ call[p] # "start"
          /\ access' = p
          /\ Goto(p, "execute")
          /\ UNCHANGED <<timer, armed>>
       \/ /\ call[p] = "start"
          /\ Rearm(p)
    /\ UNCHANGED <<running, call>>

ExecuteSucceeds(p) ==
    /\ pc[p] = "execute"
    /\ Rearm(p)
    /\ UNCHANGED <<running, call>>

\* Mutant: running stays set when Execute fails.
ExecuteFailsStillRunning(p) ==
    /\ pc[p] = "execute"
    /\ access' = NoProc
    /\ Goto(p, IF call[p] = "timer" THEN "idle" ELSE "startErr")
    /\ UNCHANGED <<running, timer, armed, call>>

\* Mutant: the mutex is not released on the error path.
ExecuteFailsLocked(p) ==
    /\ pc[p] = "execute"
    /\ running' = FALSE
    /\ Goto(p, IF call[p] = "timer" THEN "idle" ELSE "startErr")
    /\ UNCHANGED <<access, timer, armed, call>>

ExecuteFails(p) ==
    /\ pc[p] = "execute"
    /\ running' = FALSE
    /\ access' = NoProc
    /\ Goto(p, IF call[p] = "timer" THEN "idle" ELSE "startErr")
    /\ UNCHANGED <<timer, armed, call>>

\* Start resets running once more when its first execution failed.
StartFails(p) ==
    /\ pc[p] = "startErr"
    /\ access = NoProc
    /\ running' = FALSE
    /\ Goto(p, "idle")
    /\ UNCHANGED <<access, timer, armed, call>>

\* Mutant: Close stops the timer and leaves running set.
CloseBodyKeepsRunning ==
    /\ access = NoProc
    /\ timer' = NoTimer
    /\ armed' = armed \ {timer}
    /\ UNCHANGED <<access, running, call>>

\* The body of Close: it needs the mutex, whoever calls it.
CloseBody ==
    /\ access = NoProc
    /\ running' = FALSE
    /\ timer' = NoTimer
    /\ armed' = armed \ {timer}
    /\ UNCHANGED <<access, call>>

Close(p) ==
    /\ pc[p] = "idle"
    /\ CloseBody
    /\ UNCHANGED pc

-----------------------------------------------------------------------------
Finish(p) == ExecuteSucceeds(p) \/ ExecuteFails(p)

\* What the goroutine does by itself once it has entered the task's code.
Step(p) ==
    \/ HasClosed(p)
    \/ EnterSection(p)
    \/ Finish(p)
    \/ StartFails(p)

Next ==
    \E p \in Procs :
        \/ \E c \in {"start", "startFirst"} : Start(p, c)
        \/ \E x \in armed : Fire(p, x)
        \/ Step(p)
        \/ Close(p)

Spec == Init /\ [][Next]_taskVars

InFlight == {p \in Procs : pc[p] # "idle"}

-----------------------------------------------------------------------------
(* Execute never runs twice at the same time, and whoever is in it holds the *)
(* mutex: this is what makes Close wait for a running Execute.               *)
ExecuteExclusive ==
    \A p \in Procs : pc[p] = "execute" <=> access = p

(* A task whose running flag is set has a successor: a timer that will fire, *)
(* or a goroutine inside Start or checkedExecute.  Start refuses to start a  *)
(* task whose flag is set, so a set flag with no successor would be a task   *)
(* that is dead for good.                                                    *)
ChainAlive ==
    running => \/ armed # {}
               \/ \E p \in Procs : pc[p] \in {"hasClosed", "section", "execute"}

(* As long as nobody closes it, a task that was started runs Execute again  *)
(* and again ("Task is a task that runs periodically").                     *)
RunsPeriodically ==
    <>[]running => []<>(\E p \in Procs : pc[p] = "execute")

(* Once it is closed for good the task comes to rest: no goroutine is left  *)
(* inside it and no timer, not even a forgotten one, stays armed.           *)
ComesToRest ==
    <>[](~running) => <>[](armed = {} /\ InFlight = {})
=============================================================================
