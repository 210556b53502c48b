------------------------ MODULE WorkOrderLifecycle ------------------------
(***************************************************************************)
(* What the work-order service promises, with every transition one atomic  *)
(* step.  An order's state is its status, its technician, whether it has a *)
(* completion time, and its audit trail.                                   *)
(*                                                                         *)
(* Isolated = TRUE is the promise of the state diagram: a transition       *)
(* starts from the order's current status and is made by the technician    *)
(* who holds the order.  Isolated = FALSE is the weaker promise that       *)
(* survives overlapping requests: a transition starts from a status the    *)
(* order has had, and is made by a technician who has held it.             *)
(***************************************************************************)
EXTENDS WorkOrderRules

CONSTANTS Orders, Isolated

VARIABLES status, technicianId, completedAt, history

lifecycleVars == <<status, technicianId, completedAt, history>>

Init ==
    /\ status = [o \in Orders |-> "NONE"]
    /\ technicianId = [o \in Orders |-> NoTechnician]
    /\ completedAt = [o \in Orders |-> FALSE]
    /\ history = [o \in Orders |-> <<>>]

Open(o) ==
    /\ status[o] = "NONE"
    /\ status' = [status EXCEPT ![o] = InitialStatus]
    /\ UNCHANGED <<technicianId, completedAt, history>>

Move(o, u, from, to, given) ==
    LET assignee == AssigneeAfter(from, to, technicianId[o], given) IN
    /\ status[o] # "NONE"
    /\ status' = [status EXCEPT ![o] = to]
    /\ Role[u] \in MoverRoles(from, to)
    /\ Role[u] = "TECHNICIAN" =>
           u \in (IF Isolated THEN {technicianId[o]} ELSE HeldBy(history[o]))
    /\ to = "ASSIGNED" => given \in Technicians
    /\ technicianId' = [technicianId EXCEPT ![o] = assignee]
    /\ completedAt' = [completedAt EXCEPT ![o] = CompletedAfter(to, @)]
    /\ history' = [history EXCEPT ![o] =
           Append(@, [from |-> from, to |-> to, by |-> u, assignee |-> assignee])]

\* The statuses a transition may start from.
Sources(o) == IF Isolated THEN {status[o]} \cap Statuses ELSE Reached(history[o])

Next ==
    \E o \in Orders :
        \/ Open(o)
        \/ \E from \in Sources(o) : \E to \in Transitions[from] :
               \E u \in Users, given \in Technicians \cup {NoTechnician} :
                   Move(o, u, from, to, given)

Spec == Init /\ [][Next]_lifecycleVars
=============================================================================
