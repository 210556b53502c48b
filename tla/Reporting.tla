------------------------------ MODULE Reporting ------------------------------
(***************************************************************************)
(* The overview of the dashboard.  getOverview runs several statements     *)
(* side by side, outside any transaction, while orders move, and shows     *)
(* nothing for one that fails.  Every figure is a sum or a list over the   *)
(* orders, so one order is followed: `told` is what each figure has of it. *)
(***************************************************************************)
EXTENDS WorkOrderRules

VARIABLES
    followed,   \* the order that is followed
    view        \* the overview that is put together

vars == <<followed, view>>

Queries == {"metrics", "pending", "completed", "workload", "activities"}
Figures == {"total", "active", "completedToday", "breached"} \cup (Queries \ {"metrics"})

Order == [status : Statuses, technician : Technicians \cup {NoTechnician},
          today : BOOLEAN, recent : BOOLEAN, late : BOOLEAN, trail : BOOLEAN]

TypeOK ==
    /\ followed \in Order
    /\ view \in [role : Roles \cup {"nobody"}, profile : BOOLEAN, own : BOOLEAN,
                 todo : SUBSET Queries, failed : SUBSET Queries, cut : SUBSET Queries,
                 told : [Figures -> BOOLEAN], changed : BOOLEAN]

Nothing == [f \in Figures |-> FALSE]

View(role, profile, own, todo) ==
    [role |-> role, profile |-> profile, own |-> own, todo |-> todo,
     failed |-> {}, cut |-> {}, told |-> Nothing, changed |-> FALSE]

\* Any order the service can have made: an order beyond REQUESTED, and one that
\* was declined, has an audit trail and, from its assignment on, a technician.
Init ==
    /\ followed \in Order
    /\ followed.today => followed.status = "COMPLETED"
    /\ followed.status # InitialStatus => followed.trail
    /\ followed.status = InitialStatus => followed.technician = NoTechnician
    /\ followed.status \notin {InitialStatus, "CANCELLED"} => followed.technician # NoTechnician
    /\ view = View("nobody", FALSE, FALSE, {})

-----------------------------------------------------------------------------
\* Only technicians and dealers are scoped; they are not told the workload.  A
\* scoped user whose token names no profile is not scoped after all.  Nobody asks
\* for the profile of another role, nor whose order it is but of a dealer.
Scoped(v) == v.role \in {"TECHNICIAN", "DEALER"} /\ v.profile

Ask(role, profile, own) ==
    /\ view.todo = {}
    /\ role \in {"HQ", "COORDINATOR", "TECHNICIAN", "DEALER"}
    /\ profile => role \in {"TECHNICIAN", "DEALER"}
    /\ own => role = "DEALER"
    /\ view' = View(role, profile, own,
                    IF role \in {"TECHNICIAN", "DEALER"} THEN Queries \ {"workload"} ELSE Queries)
    /\ UNCHANGED followed

\* Fault: ISSUE is neither pending nor in process.
ActiveButForIssue == {"REQUESTED", "ASSIGNED", "ACCEPTED", "EN_ROUTE", "IN_PROGRESS"}

\* Pending and in process, as the metrics have it; and not closed, as the lists do.
Active == {"REQUESTED", "ASSIGNED", "ACCEPTED", "EN_ROUTE", "IN_PROGRESS", "ISSUE"}
NotClosed == Statuses \ {"COMPLETED", "CANCELLED"}

\* What a statement tells of the followed.  The scope of all but the activities
\* compares the order's own id with the profile, and so finds nothing.
Tells(figure) ==
    CASE figure = "total"          -> TRUE
      [] figure = "active"         -> followed.status \in Active
      [] figure = "completedToday" -> followed.status = "COMPLETED" /\ followed.today
      [] figure = "breached"       -> followed.status \in NotClosed /\ followed.late
      [] figure = "pending"        -> followed.status \in NotClosed /\ followed.recent
      [] figure = "completed"      -> followed.status = "COMPLETED"
      [] figure = "workload"       -> followed.status \in NotClosed /\ followed.technician # NoTechnician
      [] figure = "activities"     -> followed.trail

InScope(figure) ==
    Scoped(view) => figure = "activities" /\ view.role = "DEALER" /\ view.own

FiguresOf(q) ==
    IF q = "metrics" THEN {"total", "active", "completedToday", "breached"} ELSE {q}

\* One statement sees one state of the tables.
Read(q) ==
    /\ q \in view.todo
    /\ view' = [view EXCEPT !.todo = @ \ {q},
                            !.told = [f \in Figures |->
                                IF f \in FiguresOf(q) THEN Tells(f) /\ InScope(f) ELSE @[f]]]
    /\ UNCHANGED followed

\* The lists hold the newest orders only, and this one is beyond them.
ReadCut(q) ==
    /\ q \in view.todo \cap {"pending", "completed", "activities"}
    /\ Tells(q) /\ InScope(q)
    /\ view' = [view EXCEPT !.todo = @ \ {q}, !.cut = @ \cup {q}]
    /\ UNCHANGED followed

Fails(q) ==
    /\ q \in view.todo
    /\ view' = [view EXCEPT !.todo = @ \ {q}, !.failed = @ \cup {q}]
    /\ UNCHANGED followed

\* Meanwhile the order moves, or time passes: the day ends, the deadline comes,
\* seven days are over.
Moves ==
    /\ \E to \in Transitions[followed.status], t \in Technicians :
         followed' = [followed EXCEPT !.status = to, !.trail = TRUE, !.today = (to = "COMPLETED"),
                                !.technician = AssigneeAfter(followed.status, to, @, t)]
    /\ view' = [view EXCEPT !.changed = TRUE]

TimePasses ==
    /\ \/ followed.today /\ followed' = [followed EXCEPT !.today = FALSE]
       \/ followed.recent /\ followed' = [followed EXCEPT !.recent = FALSE]
       \/ ~followed.late /\ followed' = [followed EXCEPT !.late = TRUE]
    /\ view' = [view EXCEPT !.changed = TRUE]

Next ==
    \/ \E role \in Roles, profile \in BOOLEAN, own \in BOOLEAN : Ask(role, profile, own)
    \/ \E q \in Queries : Read(q) \/ ReadCut(q) \/ Fails(q)
    \/ Moves \/ TimePasses

Spec == Init /\ [][Next]_vars

-----------------------------------------------------------------------------
Has(q) == view.role # "nobody" /\ q \notin view.todo \cup view.failed \cup view.cut
Told(f) == view.told[f]

\* The counts come from one statement, so they never contradict each other.
CountsAgree ==
    /\ ~(Told("active") /\ Told("completedToday"))
    /\ ~(Told("breached") /\ Told("completedToday"))
    /\ Told("active") \/ Told("completedToday") \/ Told("breached") => Told("total")

\* The rest may, but only about an order that changed meanwhile.
ListsAgree ==
    /\ ~(Told("pending") /\ Told("completed"))
    /\ Has("metrics") /\ Told("pending") =>
          Told("active") \/ followed.status \in {"RESCHEDULED", "ESCALATED"}
    /\ Has("pending") /\ Told("active") /\ followed.recent => Told("pending")
    /\ Has("completed") /\ Told("completedToday") => Told("completed")
    /\ Has("workload") /\ Has("metrics") /\ Told("workload") =>
          Told("active") \/ followed.status \in {"RESCHEDULED", "ESCALATED"}
    /\ Has("activities") /\ Told("completed") => Told("activities")

\* The overview tells one story of every order that did not change while it was
\* put together, except that RESCHEDULED and ESCALATED orders are listed as
\* pending and not counted as active; and a technician or dealer with a profile
\* is told nothing but, to a dealer, the activities of its own orders
\* (getOverview, whose statements share no transaction).
OverviewTellsOneStory ==
    /\ CountsAgree
    /\ ~view.changed /\ ~Scoped(view) => ListsAgree
    /\ Scoped(view) => \A f \in Figures :
          Told(f) => f = "activities" /\ view.role = "DEALER" /\ view.own
=============================================================================
