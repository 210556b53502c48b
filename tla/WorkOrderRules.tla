-------------------------- MODULE WorkOrderRules --------------------------
(***************************************************************************)
(* The rules a work order moves by: its statuses, the transition table of  *)
(* StateMachineService, the cancellation table of WorkOrdersService and    *)
(* the role that each transition belongs to.  Pure definitions, shared by  *)
(* the abstract lifecycle and by the concurrent service.                   *)
(***************************************************************************)

EXTENDS Naturals, Sequences

CONSTANTS
    Users,          \* everyone with a token: staff users and customers
    Role,           \* the role each token carries
    NoTechnician    \* the NULL of the technician_id column

Roles == {"DEALER", "HQ", "COORDINATOR", "TECHNICIAN", "CUSTOMER"}

ASSUME RoleAssumption == Role \in [Users -> Roles]

ASSUME NoTechnicianAssumption == NoTechnician \notin Users

Technicians == {u \in Users : Role[u] = "TECHNICIAN"}

-----------------------------------------------------------------------------

Statuses == {"REQUESTED", "ASSIGNED", "ACCEPTED", "RESCHEDULED", "EN_ROUTE",
             "IN_PROGRESS", "ISSUE", "ESCALATED", "COMPLETED", "CANCELLED"}

\* TRANSITIONS.  A status mapped to {} has no way out.
Transitions ==
    [from \in Statuses |->
        CASE from = "REQUESTED"   -> {"ASSIGNED", "CANCELLED"}
          [] from = "ASSIGNED"    -> {"ACCEPTED", "REQUESTED", "CANCELLED"}
          [] from = "ACCEPTED"    -> {"RESCHEDULED", "EN_ROUTE", "CANCELLED"}
          [] from = "RESCHEDULED" -> {"ACCEPTED"}
          [] from = "EN_ROUTE"    -> {"IN_PROGRESS"}
          [] from = "IN_PROGRESS" -> {"ISSUE", "COMPLETED"}
          [] from = "ISSUE"       -> {"IN_PROGRESS", "ESCALATED"}
          [] OTHER                -> {}]

Terminal == {"ESCALATED", "COMPLETED", "CANCELLED"}

\* CANCEL_RULES: the roles that may cancel an order found in a status.
CancelRoles ==
    [from \in Statuses |->
        CASE from = "REQUESTED" -> {"DEALER", "HQ"}
          [] from = "ASSIGNED"  -> {"DEALER", "HQ", "TECHNICIAN"}
          [] from = "ACCEPTED"  -> {"TECHNICIAN", "CUSTOMER"}
          [] OTHER              -> {}]

\* Fault: the wrong default.
AssignedAtOnce == "ASSIGNED"

\* The default of the status column.
InitialStatus == "REQUESTED"

\* Who owns the transition from -> to, over all the endpoints that perform it.
MoverRoles(from, to) ==
    CASE to = "CANCELLED"                               -> CancelRoles[from]
      [] to \in {"ASSIGNED", "RESCHEDULED", "ESCALATED"} -> {"COORDINATOR"}
      [] OTHER                                          -> {"TECHNICIAN"}

-----------------------------------------------------------------------------

\* A row of work_order_status_history.  assignee is not a column of the table:
\* it remembers the technician_id the same transaction left on the order.
HistoryRow == [from : Statuses, to : Statuses, by : Users,
               assignee : Technicians \cup {NoTechnician}]

\* Fault: a declined order keeps its technician.
AssigneeKept(from, to, held, given) == IF to = "ASSIGNED" THEN given ELSE held

\* technician_id after a transition that found `held` in the row it updates.
\* Assign writes the technician it was given, decline writes NULL.
AssigneeAfter(from, to, held, given) ==
    CASE to = "ASSIGNED"                         -> given
      [] from = "ASSIGNED" /\ to = "REQUESTED" -> NoTechnician
      [] OTHER                                 -> held

\* Fault: completed_at is written by every transition.
CompletedOnly(to, held) == to = "COMPLETED"

\* Whether completed_at is set after a transition: no transition clears it.
CompletedAfter(to, held) == held \/ to = "COMPLETED"

\* The statuses an order with this trail has had, the current one included, and
\* what its technician_id has been after each transition.
Reached(trail) == {InitialStatus} \cup {trail[i].to : i \in 1..Len(trail)}

HeldBy(trail) == {trail[i].assignee : i \in 1..Len(trail)}
=============================================================================
