----------------------- MODULE NotificationLifecycle -----------------------
(***************************************************************************)
(* What the pipeline of notifications promises, without its queue: a       *)
(* notification is stored as PENDING, its recipient is told, and the       *)
(* outcome is recorded once.  Every thing that breaks may let one more     *)
(* message through, and from then on an outcome may be recorded again.     *)
(***************************************************************************)
EXTENDS Naturals

CONSTANT Notices

VARIABLES
    outcome,    \* notifications.status
    told,       \* how often the recipient was told
    broken      \* how many things went wrong

lifecycleVars == <<outcome, told, broken>>

Init ==
    /\ outcome = [n \in Notices |-> "NONE"]
    /\ told = [n \in Notices |-> 0]
    /\ broken = 0

Promise(n) ==
    /\ outcome[n] = "NONE"
    /\ outcome' = [outcome EXCEPT ![n] = "PENDING"]
    /\ UNCHANGED <<told, broken>>

\* Only a PENDING notification is worked on, unless something broke.
Workable(n) == outcome[n] = "PENDING" \/ (outcome[n] # "NONE" /\ broken > 0)

Tell(n) ==
    /\ Workable(n)
    /\ told[n] <= broken
    /\ told' = [told EXCEPT ![n] = @ + 1]
    /\ UNCHANGED <<outcome, broken>>

Settle(n, result) ==
    /\ Workable(n)
    /\ result = "SENT" => told[n] > 0
    /\ outcome' = [outcome EXCEPT ![n] = result]
    /\ UNCHANGED <<told, broken>>

Break ==
    /\ broken' = broken + 1
    /\ UNCHANGED <<outcome, told>>

Next ==
    \/ \E n \in Notices : Promise(n) \/ Tell(n)
    \/ \E n \in Notices, result \in {"SENT", "FAILED"} : Settle(n, result)
    \/ Break

Spec == Init /\ [][Next]_lifecycleVars
=============================================================================
