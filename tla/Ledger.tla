------------------------------- MODULE Ledger --------------------------------
(***************************************************************************)
(* What the accounting of a core promises about every unit of traffic: it  *)
(* is counted once when it is transferred, a report takes it out of its    *)
(* counter at most once, and what was taken is billed once or is lost.     *)
(* Nothing comes back, and a reset touches the traffic of one account, a   *)
(* user of a node (GetUserTrafficSlice of core/interface.go, the counters  *)
(* of common/counter, reportUserTrafficTask of node/user.go).              *)
(***************************************************************************)
CONSTANTS Packets, Accounts, AccountOf

VARIABLES
    sent,       \* transferred
    counted,    \* in a counter
    taken,      \* out of its counter, on the way into a report
    billed      \* reported; what is sent and in none of the three is lost

ledger == <<sent, counted, taken, billed>>

Init == sent = {} /\ counted = {} /\ taken = {} /\ billed = {}

\* A transfer and the Add to a counter.
Count(p) ==
    /\ p \notin sent
    /\ sent' = sent \cup {p}
    /\ counted' = counted \cup {p}
    /\ UNCHANGED <<taken, billed>>

\* The counter of account a is reset: all that is gone from it was loaded
\* before and is kept for the report, or is lost.
Reset(a, gone, kept) ==
    /\ \A p \in gone : AccountOf[p] = a
    /\ counted' = counted \ gone
    /\ taken' = taken \cup kept
    /\ UNCHANGED <<sent, billed>>

\* What was taken is dropped for want of a uid.
Drop(gone) ==
    /\ taken' = taken \ gone
    /\ UNCHANGED <<sent, counted, billed>>

\* What was taken goes into the report.
Bill(gone) ==
    /\ taken' = taken \ gone
    /\ billed' = billed \cup gone
    /\ UNCHANGED <<sent, counted>>

Next ==
    \/ \E p \in Packets : Count(p)
    \/ \E a \in Accounts, gone \in SUBSET counted :
          \E kept \in SUBSET gone : Reset(a, gone, kept)
    \/ \E gone \in SUBSET taken : Drop(gone) \/ Bill(gone)

Spec == Init /\ [][Next]_ledger
=============================================================================
