---------------------------- MODULE WorkOrders ----------------------------
(***************************************************************************)
(* WorkOrdersService under concurrent requests.  The API is stateless and  *)
(* replicated, so any number of handlers run at once over one database.    *)
(*                                                                         *)
(* A transition request has three database round trips, and other handlers *)
(* run between them:                                                       *)
(*   1. findById reads the order through the caller's scope; the cancel    *)
(*      rules and StateMachineService.validate look at what it read;       *)
(*   2. a transaction re-reads the order, refuses with a conflict when the *)
(*      status is no longer the one validated, and inserts the audit row;  *)
(*   3. the same transaction updates the order and commits.                *)
(* The transaction runs at the database's default READ COMMITTED.  The     *)
(* re-read takes no lock, so two transactions can both pass it; the second *)
(* update waits for the first one's row lock and then overwrites.  The     *)
(* audit row and the update become visible together at commit, and between *)
(* update and commit other readers see the old row, so update and commit   *)
(* are one step here.                                                      *)
(* After the commit the handler emits WorkOrderStatusChangedEvent and      *)
(* publishes on hq:activities.                                             *)
(***************************************************************************)
EXTENDS WorkOrderRules

CONSTANTS
    Orders,         \* the ids work orders can have
    Slots,          \* request handlers that can be busy at once, all instances
    Departments,
    NoDepartment,   \* NULL department; for a coordinator: no profile row
    DepartmentOf,   \* the department of each coordinator
    NoUser, NoOrder,
    MaxHistory,     \* bound: transitions are requested up to this trail length
    MaxCrashes      \* bound: handlers that die after their commit

ASSUME DepartmentAssumption ==
    DepartmentOf \in [Users -> Departments \cup {NoDepartment}]

ASSUME NullsAssumption ==
    NoUser \notin Users /\ NoOrder \notin Orders /\ NoDepartment \notin Departments

ASSUME BoundsAssumption == MaxHistory \in Nat /\ MaxCrashes \in Nat

VARIABLES
    status,         \* work_orders.status, "NONE" before the row exists
    technicianId,   \* work_orders.technician_id
    completedAt,    \* whether work_orders.completed_at is set
    parties,        \* dealer, customer and department, fixed at creation
    history,        \* work_order_status_history, in commit order
    request,        \* what each handler is doing
    emitted,        \* audit rows whose event reached the in-process listeners
    crashes

dbVars == <<status, technicianId, completedAt, parties, history>>
vars == <<status, technicianId, completedAt, parties, history,
          request, emitted, crashes>>

-----------------------------------------------------------------------------
\* Requests.  seen is the status findById read, row the number of the audit
\* row the handler committed.

Phases == {"idle", "loaded", "checked", "committed", "emitted",
           "conflict", "rejected"}

Request == [phase : Phases, user : Users \cup {NoUser},
            order : Orders \cup {NoOrder}, seen : Statuses \cup {"NONE"},
            to : Statuses \cup {"NONE"},
            assignee : Technicians \cup {NoTechnician}, row : Nat]

Idle == [phase |-> "idle", user |-> NoUser, order |-> NoOrder, seen |-> "NONE",
         to |-> "NONE", assignee |-> NoTechnician, row |-> 0]

Parties == [dealer : Users \cup {NoUser}, customer : Users \cup {NoUser},
            department : Departments \cup {NoDepartment}]

Init ==
    /\ status = [o \in Orders |-> "NONE"]
    /\ technicianId = [o \in Orders |-> NoTechnician]
    /\ completedAt = [o \in Orders |-> FALSE]
    /\ parties = [o \in Orders |-> [dealer |-> NoUser, customer |-> NoUser,
                                    department |-> NoDepartment]]
    /\ history = [o \in Orders |-> <<>>]
    /\ request = [s \in Slots |-> Idle]
    /\ emitted = {}
    /\ crashes = 0

-----------------------------------------------------------------------------
\* POST /work-orders

\* Fault: customer and department written into each other's column.
PartiesSwapped(u, c, d) == [dealer |-> u, customer |-> d, department |-> c]

NewParties(u, c, d) == [dealer |-> u, customer |-> c, department |-> d]

Create(u, o, c, d) ==
    /\ Role[u] = "DEALER"
    /\ Role[c] = "CUSTOMER"
    /\ status[o] = "NONE"
    /\ status' = [status EXCEPT ![o] = InitialStatus]
    /\ parties' = [parties EXCEPT ![o] = NewParties(u, c, d)]
    /\ UNCHANGED <<technicianId, completedAt, history, request, emitted,
                   crashes>>

-----------------------------------------------------------------------------
\* The first round trip of every transition endpoint: applyWorkOrderScope and
\* findById, then the checks made on the order that was read.  A request that
\* fails one of them is answered 403, 404 or 400 and changes nothing, so it is
\* no step of the model.

\* Fault: a technician is not scoped to assigned orders.
InScopeOpen(u, o) ==
    CASE Role[u] = "COORDINATOR" -> DepartmentOf[u] = parties[o].department
      [] OTHER                   -> TRUE

InScope(u, o) ==
    CASE Role[u] = "HQ"          -> TRUE
      [] Role[u] = "DEALER"      -> parties[o].dealer = u
      [] Role[u] = "COORDINATOR" -> \/ DepartmentOf[u] = NoDepartment
                                    \/ DepartmentOf[u] = parties[o].department
      [] Role[u] = "TECHNICIAN"  -> technicianId[o] = u
      [] Role[u] = "CUSTOMER"    -> parties[o].customer = u

\* Fault: only a transition to the same status is refused.
ValidatedLoosely(from, to) == from # to

\* StateMachineService.validate
Validated(from, to) == to \in Transitions[from]

Load(s, u, o, to, t) ==
    /\ request[s].phase = "idle"
    /\ status[o] # "NONE"
    /\ InScope(u, o)
    /\ Validated(status[o], to)
    /\ Len(history[o]) < MaxHistory
    /\ request' = [request EXCEPT ![s] =
           [phase |-> "loaded", user |-> u, order |-> o, seen |-> status[o],
            to |-> to, assignee |-> t, row |-> 0]]
    /\ UNCHANGED <<dbVars, emitted, crashes>>

LoadAs(role, s, u, o, to) == Role[u] = role /\ Load(s, u, o, to, NoTechnician)

\* The endpoints: the role the controller asks for, the target status the
\* service passes to transition().
Assign(s, u, o, t) ==
    /\ Role[u] = "COORDINATOR"
    /\ Load(s, u, o, "ASSIGNED", t)

Accept(s, u, o)       == LoadAs("TECHNICIAN", s, u, o, "ACCEPTED")
Decline(s, u, o)      == LoadAs("TECHNICIAN", s, u, o, "REQUESTED")
Reschedule(s, u, o)   == LoadAs("COORDINATOR", s, u, o, "RESCHEDULED")
StartTravel(s, u, o)  == LoadAs("TECHNICIAN", s, u, o, "EN_ROUTE")
ReportIssue(s, u, o)  == LoadAs("TECHNICIAN", s, u, o, "ISSUE")
Escalate(s, u, o)     == LoadAs("COORDINATOR", s, u, o, "ESCALATED")
Complete(s, u, o)     == LoadAs("TECHNICIAN", s, u, o, "COMPLETED")

\* startWork and resolveIssue make the same call: both target IN_PROGRESS, and
\* each works from EN_ROUTE as well as from ISSUE.
StartWork(s, u, o)    == LoadAs("TECHNICIAN", s, u, o, "IN_PROGRESS")
ResolveIssue(s, u, o) == StartWork(s, u, o)

\* Fault: CANCEL_RULES are not consulted.
CancelUnchecked(s, u, o) ==
    /\ Role[u] \in {"DEALER", "HQ", "TECHNICIAN", "CUSTOMER"}
    /\ Load(s, u, o, "CANCELLED", NoTechnician)

\* cancel() looks at the role and, for a technician or a customer, at whose
\* order it is, before the common path.
Cancel(s, u, o) ==
    /\ status[o] # "NONE"
    /\ Role[u] \in CancelRoles[status[o]]
    /\ Role[u] = "CUSTOMER" => parties[o].customer = u
    /\ Role[u] = "TECHNICIAN" => technicianId[o] \in {NoTechnician, u}
    /\ Load(s, u, o, "CANCELLED", NoTechnician)

-----------------------------------------------------------------------------
\* The transaction.

\* Fault: the transaction does not compare the status it re-read.
StatusIgnored(s) == TRUE

StatusUnchanged(s) == status[request[s].order] = request[s].seen

\* changed_by_user_id references users: a customer's id is not there.
ChangerIsStaff(s) == Role[request[s].user] # "CUSTOMER"

Enter(s, phase) == request' = [request EXCEPT ![s].phase = phase]

\* The re-read finds the validated status, and the audit row is inserted.  Its
\* from_status is the status that was re-read.
Recheck(s) ==
    /\ request[s].phase = "loaded"
    /\ StatusUnchanged(s)
    /\ ChangerIsStaff(s)
    /\ request' = [request EXCEPT ![s].phase = "checked",
                                  ![s].seen = status[request[s].order]]
    /\ UNCHANGED <<dbVars, emitted, crashes>>

\* The re-read finds another status: ConflictAppException, rolled back.
RecheckConflict(s) ==
    /\ request[s].phase = "loaded"
    /\ ~StatusUnchanged(s)
    /\ Enter(s, "conflict")
    /\ UNCHANGED <<dbVars, emitted, crashes>>

\* The insert of the audit row breaks the foreign key: rolled back.
InsertRejected(s) ==
    /\ request[s].phase = "loaded"
    /\ StatusUnchanged(s)
    /\ ~ChangerIsStaff(s)
    /\ Enter(s, "rejected")
    /\ UNCHANGED <<dbVars, emitted, crashes>>

\* A database error, the transaction's time limit or the death of the process:
\* rolled back.
RolledBack(s) ==
    /\ request[s].phase \in {"loaded", "checked"}
    /\ request' = [request EXCEPT ![s] = Idle]
    /\ UNCHANGED <<dbVars, emitted, crashes>>

\* The update by primary key, whatever the row holds by now, and the commit.
Commit(s) ==
    LET r == request[s]
        o == r.order
        assignee == AssigneeAfter(r.seen, r.to, technicianId[o], r.assignee)
    IN
    /\ r.phase = "checked"
    /\ status' = [status EXCEPT ![o] = r.to]
    /\ technicianId' = [technicianId EXCEPT ![o] = assignee]
    /\ completedAt' = [completedAt EXCEPT ![o] = CompletedAfter(r.to, @)]
    /\ history' = [history EXCEPT ![o] =
           Append(@, [from |-> r.seen, to |-> r.to, by |-> r.user,
                      assignee |-> assignee])]
    /\ request' = [request EXCEPT ![s].phase = "committed",
                                  ![s].row = Len(history[o]) + 1]
    /\ UNCHANGED <<parties, emitted, crashes>>

-----------------------------------------------------------------------------
\* After the commit.

\* Fault: no event for a declined order.
EmitEventNotOnDecline(s) ==
    /\ request[s].phase = "committed"
    /\ emitted' = emitted \cup
           (IF request[s].to = "REQUESTED" THEN {}
            ELSE {<<request[s].order, request[s].row>>})
    /\ Enter(s, "emitted")
    /\ UNCHANGED <<dbVars, crashes>>

EmitEvent(s) ==
    /\ request[s].phase = "committed"
    /\ emitted' = emitted \cup {<<request[s].order, request[s].row>>}
    /\ Enter(s, "emitted")
    /\ UNCHANGED <<dbVars, crashes>>

\* redis.publish on hq:activities.  A subscriber sees it or, when Redis refuses
\* it, the client gets an error for a transition that is committed; the order
\* and its trail are the same either way.
Publish(s) ==
    /\ request[s].phase = "emitted"
    /\ request' = [request EXCEPT ![s] = Idle]
    /\ UNCHANGED <<dbVars, emitted, crashes>>

\* The error response of a request whose transaction was refused.
AnswerError(s) ==
    /\ request[s].phase \in {"conflict", "rejected"}
    /\ request' = [request EXCEPT ![s] = Idle]
    /\ UNCHANGED <<dbVars, emitted, crashes>>

\* The handler's process dies after the commit: the transition stays, its event
\* may be lost.  A death before the commit is a RolledBack.
Crash(s) ==
    /\ crashes < MaxCrashes
    /\ request[s].phase \in {"committed", "emitted"}
    /\ crashes' = crashes + 1
    /\ request' = [request EXCEPT ![s] = Idle]
    /\ UNCHANGED <<dbVars, emitted>>

-----------------------------------------------------------------------------

Receive(s, u, o) ==
    \/ \E t \in Technicians : Assign(s, u, o, t)
    \/ Accept(s, u, o)
    \/ Decline(s, u, o)
    \/ Reschedule(s, u, o)
    \/ StartTravel(s, u, o)
    \/ StartWork(s, u, o)
    \/ ReportIssue(s, u, o)
    \/ ResolveIssue(s, u, o)
    \/ Escalate(s, u, o)
    \/ Complete(s, u, o)
    \/ Cancel(s, u, o)

Handle(s) ==
    \/ Recheck(s)
    \/ RecheckConflict(s)
    \/ InsertRejected(s)
    \/ RolledBack(s)
    \/ Commit(s)
    \/ EmitEvent(s)
    \/ Publish(s)
    \/ AnswerError(s)

Next ==
    \/ \E u, c \in Users, o \in Orders, d \in Departments \cup {NoDepartment} :
           Create(u, o, c, d)
    \/ \E s \in Slots, u \in Users, o \in Orders : Receive(s, u, o)
    \/ \E s \in Slots : Handle(s) \/ Crash(s)

Spec == Init /\ [][Next]_vars

\* A handler that was started runs on; users owe nobody a request.
Fairness == \A s \in Slots : WF_vars(Handle(s))

FairSpec == Spec /\ Fairness

\* The service with requests for one order kept apart: a new request for an
\* order is read only when no other handler has that order in hand.
NoOverlap ==
    \A s, t \in Slots :
        /\ s # t
        /\ request[s].phase # "idle"
        /\ request[t].phase # "idle"
        => request[s].order # request[t].order

SerialNext == Next /\ NoOverlap'

SerialSpec == Init /\ [][SerialNext]_vars

FairSerialSpec == SerialSpec /\ Fairness

-----------------------------------------------------------------------------
\* Properties.

TypeOK ==
    /\ status \in [Orders -> Statuses \cup {"NONE"}]
    /\ technicianId \in [Orders -> Technicians \cup {NoTechnician}]
    /\ completedAt \in [Orders -> BOOLEAN]
    /\ parties \in [Orders -> Parties]
    /\ history \in [Orders -> Seq(HistoryRow)]
    /\ request \in [Slots -> Request]
    /\ \A s \in Slots : request[s].phase # "idle" => request[s].order \in Orders
    /\ emitted \subseteq Orders \X Nat
    /\ crashes \in Nat

TrailOf(o) == 1..Len(history[o])

\* Every row of the audit trail is an edge of the transition table, made by a
\* role that owns it; a cancellation obeys CANCEL_RULES for the status it
\* cancelled.  Overlapping requests could break this by validating one status
\* and recording another.
HistoryObeysRules ==
    \A o \in Orders : \A i \in TrailOf(o) :
        /\ history[o][i].to \in Transitions[history[o][i].from]
        /\ Role[history[o][i].by] \in
               MoverRoles(history[o][i].from, history[o][i].to)

\* No row starts from a status the order had not reached before that row was
\* committed.
RowsStartFromReachedStatus ==
    \A o \in Orders : \A i \in TrailOf(o) :
        \/ history[o][i].from = "REQUESTED"
        \/ \E j \in 1..(i - 1) : history[o][j].to = history[o][i].from

\* A technician moves only orders that an earlier transition left in the hands
\* of that technician, however late the request commits.
TechniciansHeldTheOrder ==
    \A o \in Orders : \A i \in TrailOf(o) :
        history[o][i].by \in Technicians =>
            \E j \in 1..(i - 1) : history[o][j].assignee = history[o][i].by

\* The columns of an order agree with its trail: status and technician are
\* those of the last committed row, completed_at is set exactly when some row
\* completed the order.
OrderMatchesTrail ==
    \A o \in Orders :
        /\ completedAt[o] <=> \E i \in TrailOf(o) : history[o][i].to = "COMPLETED"
        /\ IF history[o] = <<>>
           THEN status[o] \in {"NONE", "REQUESTED"} /\ technicianId[o] = NoTechnician
           ELSE /\ status[o] = history[o][Len(history[o])].to
                /\ technicianId[o] = history[o][Len(history[o])].assignee

\* What keeps the trail lawful under overlap: a request between its first read
\* and its commit holds a transition that is legal from a status its order has
\* had, owned by the caller's role, and, if the caller is a technician, of an
\* order that technician has held.
RequestsStandOnTrail ==
    \A s \in Slots : LET r == request[s] IN
        r.phase \in {"loaded", "checked"} =>
            /\ r.user \in Users
            /\ r.order \in Orders
            /\ status[r.order] # "NONE"
            /\ r.seen \in Reached(history[r.order])
            /\ r.to \in Transitions[r.seen]
            /\ Role[r.user] \in MoverRoles(r.seen, r.to)
            /\ r.to = "ASSIGNED" => r.assignee \in Technicians
            /\ r.user \in Technicians => r.user \in HeldBy(history[r.order])

\* A committed transition whose event never reaches the listeners is one whose
\* handler died between the commit and the emit.
UnreportedOnlyAfterCrash ==
    \A o \in Orders : \A i \in TrailOf(o) :
        \/ <<o, i>> \in emitted
        \/ crashes > 0
        \/ \E s \in Slots : /\ request[s].phase = "committed"
                            /\ request[s].order = o
                            /\ request[s].row = i

\* Every committed transition is eventually reported, unless a handler died.
EveryTransitionReported ==
    \A o \in Orders : \A i \in 1..(MaxHistory + 1) :
        i \in TrailOf(o) ~> (<<o, i>> \in emitted \/ crashes > 0)

\* Whatever the interleaving, the service implements the lifecycle that lets a
\* transition start from a status the order has had.
Stale == INSTANCE WorkOrderLifecycle WITH Isolated <- FALSE
StaleLifecycle == Stale!Spec

\* With requests for one order kept apart it implements the state diagram: a
\* transition starts from the current status, made by the current holder.
Strict == INSTANCE WorkOrderLifecycle WITH Isolated <- TRUE
StrictLifecycle == Strict!Spec

\* The trail of an order is a path of the state diagram from REQUESTED.
HistoryChains ==
    \A o \in Orders : \A i \in TrailOf(o) :
        history[o][i].from =
            IF i = 1 THEN "REQUESTED" ELSE history[o][i - 1].to

\* An order that is under way has a technician; one waiting for assignment
\* has none.
HeldWhileUnderWay ==
    \A o \in Orders :
        /\ status[o] \in {"NONE", "REQUESTED"} => technicianId[o] = NoTechnician
        /\ status[o] \notin {"NONE", "REQUESTED", "CANCELLED"} =>
               technicianId[o] # NoTechnician

\* ESCALATED, COMPLETED and CANCELLED are final.
TerminalIsFinal ==
    [][\A o \in Orders : status[o] \in Terminal => status'[o] = status[o]]_vars

\* The handlers that have read an order and may still commit a change to it.
InHands(o) ==
    {s \in Slots : request[s].phase \in {"loaded", "checked"} /\ request[s].order = o}

\* What overlap leaves of it: an order that is final, and that no handler had in
\* hand when it became so, stays as it is for good.
FinalOnceAtRest ==
    [][\A o \in Orders :
           status[o] \in Terminal /\ InHands(o) = {} =>
               /\ UNCHANGED <<status[o], technicianId[o], completedAt[o], history[o]>>
               /\ InHands(o)' = {}]_vars

\* The cancellation of a customer who may cancel is not refused by the audit
\* trail.
CustomerCancelAccepted ==
    \A s \in Slots :
        request[s].phase = "rejected" => Role[request[s].user] # "CUSTOMER"
=============================================================================
