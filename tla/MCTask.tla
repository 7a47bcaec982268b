------------------------------- MODULE MCTask -------------------------------
(***************************************************************************)
(* TLC instance of Task.  Every armed timer and every goroutine in flight  *)
(* can become one more chain, so a burst of Close and Start could arm any  *)
(* number of timers: TimerBudget stops new starts before the identities    *)
(* of Timers run out.                                                      *)
(***************************************************************************)
EXTENDS Task

TimerBudget ==
    Cardinality(armed) + Cardinality(InFlight) < Cardinality(Timers)

MCNext ==
    \E p \in Procs :
        \/ \E c \in {"start", "startFirst"} : TimerBudget /\ Start(p, c)
        \/ \E x \in armed : Fire(p, x)
        \/ Step(p)
        \/ Close(p)

\* A timer fires, a goroutine that can go on does, and Execute returns (the
\* panel client has a request timeout).  Nobody is obliged to call Start or
\* Close, and Execute is not obliged to succeed.
Fairness ==
    /\ WF_taskVars(\E p \in Procs, x \in armed : Fire(p, x))
    /\ \A p \in Procs : WF_taskVars(Step(p))

MCSpec == Init /\ [][MCNext]_taskVars /\ Fairness
=============================================================================
