------------------------------ MODULE SlaScan ------------------------------
(***************************************************************************)
(* The repeatable job sla-check: it reads the open orders whose deadline   *)
(* is less than an hour away and enqueues a warning for the technician and *)
(* one for the dealer of each.  A job that fails half way is tried again   *)
(* from its start, and one whose worker died is run again.                 *)
(***************************************************************************)
EXTENDS Naturals

CONSTANTS DueOrders, MaxAttempts, MaxStalls

VARIABLES
    due,        \* each order: whether the scan would find it, and its technician
    scan,       \* the job in the queue
    list,       \* the orders the present attempt read, as they were read
    todo,       \* those of them that are not done with
    warned      \* how many warnings of each kind the job has enqueued

vars == <<due, scan, list, todo, warned>>

Channels == {"LINE", "EMAIL"}
Due == [open : BOOLEAN, technician : BOOLEAN]

TypeOK ==
    /\ due \in [DueOrders -> Due]
    /\ scan \in [state : {"none", "waiting", "active", "delayed", "completed", "failed"},
                 attempts : 0..MaxAttempts, stalls : 0..MaxStalls, at : SUBSET DueOrders]
    /\ list \in [DueOrders -> Due]
    /\ todo \subseteq DueOrders
    /\ warned \in [DueOrders -> [Channels -> 0..(MaxAttempts + MaxStalls)]]

Nobody == [o \in DueOrders |-> [c \in Channels |-> 0]]

Init ==
    /\ due \in [DueOrders -> Due]
    /\ scan = [state |-> "none", attempts |-> 0, stalls |-> 0, at |-> {}]
    /\ list = [o \in DueOrders |-> [open |-> FALSE, technician |-> FALSE]]
    /\ todo = {}
    /\ warned = Nobody

-----------------------------------------------------------------------------
\* Every five minutes; a job that is done with makes room for the next.
Fire ==
    /\ scan.state \in {"none", "completed", "failed"}
    /\ scan' = [state |-> "waiting", attempts |-> 0, stalls |-> 0, at |-> {}]
    /\ warned' = Nobody
    /\ list' = [o \in DueOrders |-> [open |-> FALSE, technician |-> FALSE]]
    /\ todo' = {}
    /\ UNCHANGED due

\* The orders found by the query, and those an earlier attempt left over.
LeftOver == IF scan.attempts = 0 THEN {o \in DueOrders : due[o].open} ELSE todo
Approaching == {o \in DueOrders : due[o].open}

\* The one read of checkApproachingDeadlines.
ReadDue ==
    /\ scan.state = "waiting"
    /\ scan' = [scan EXCEPT !.state = "active", !.at = {}]
    /\ list' = due
    /\ todo' = Approaching
    /\ UNCHANGED <<due, warned>>

\* One order after the other: the technician, if it had one, then the dealer.
WarnTechnician(o) ==
    /\ scan.state = "active" /\ scan.at = {}
    /\ o \in todo
    /\ scan' = [scan EXCEPT !.at = {o}]
    /\ warned' = IF list[o].technician THEN [warned EXCEPT ![o]["LINE"] = @ + 1] ELSE warned
    /\ UNCHANGED <<due, list, todo>>

WarnDealer(o) ==
    /\ scan.state = "active" /\ o \in scan.at
    /\ scan' = [scan EXCEPT !.at = {}]
    /\ warned' = [warned EXCEPT ![o]["EMAIL"] = @ + 1]
    /\ todo' = todo \ {o}
    /\ UNCHANGED <<due, list>>

Finish ==
    /\ scan.state = "active" /\ todo = {}
    /\ scan' = [scan EXCEPT !.state = "completed"]
    /\ UNCHANGED <<due, list, todo, warned>>

\* The read or an enqueue throws: another attempt, or the job has failed.
AttemptFails ==
    /\ scan.state = "active"
    /\ scan' = [scan EXCEPT !.attempts = @ + 1, !.at = {},
                            !.state = IF scan.attempts + 1 < MaxAttempts THEN "delayed" ELSE "failed"]
    /\ UNCHANGED <<due, list, todo, warned>>

BackoffEnds ==
    /\ scan.state = "delayed"
    /\ scan' = [scan EXCEPT !.state = "waiting"]
    /\ UNCHANGED <<due, list, todo, warned>>

\* The worker died and its lock ran out.
Stall ==
    /\ scan.state = "active"
    /\ scan' = IF scan.stalls < MaxStalls
               THEN [scan EXCEPT !.stalls = @ + 1, !.state = "waiting", !.at = {}]
               ELSE [scan EXCEPT !.state = "failed", !.at = {}]
    /\ UNCHANGED <<due, list, todo, warned>>

\* Meanwhile an order is closed or its deadline passes, or it changes hands.
OrderChanges(o) ==
    /\ due[o].open
    /\ \E now \in Due : due' = [due EXCEPT ![o] = now]
    /\ UNCHANGED <<scan, list, todo, warned>>

Next ==
    \/ Fire \/ ReadDue \/ Finish \/ AttemptFails \/ BackoffEnds \/ Stall
    \/ \E o \in DueOrders : WarnTechnician(o) \/ WarnDealer(o) \/ OrderChanges(o)

Spec == Init /\ [][Next]_vars

-----------------------------------------------------------------------------
\* A job that completed has warned the dealer, and the technician if there was
\* one, of every order it read last; and no one is warned by one job more often
\* than the job was begun, whatever failed and was tried again.
CompletedWarnsAll ==
    scan.state = "completed" =>
        \A o \in DueOrders : list[o].open =>
            /\ warned[o]["EMAIL"] > 0
            /\ list[o].technician => warned[o]["LINE"] > 0

Begun ==
    scan.attempts + scan.stalls
        + (IF scan.state \in {"active", "completed", "failed"} THEN 1 ELSE 0)

NoMoreThanBegun == \A o \in DueOrders, c \in Channels : warned[o][c] <= Begun

EveryScanWarns == CompletedWarnsAll /\ NoMoreThanBegun
=============================================================================
