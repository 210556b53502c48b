-------------------------- MODULE WorkOrderProofs --------------------------
(***************************************************************************)
(* Proofs about WorkOrders, for any users, orders, handlers and bounds:    *)
(* the safety properties, and that the service implements the lifecycle in *)
(* which a transition may start from any status the order has had.         *)
(***************************************************************************)
EXTENDS WorkOrders, SequenceTheorems, TLAPS

-----------------------------------------------------------------------------
\* The tables.

\* What the proofs need of the transition and cancellation tables.
LEMMA TableFacts ==
    /\ Transitions \in [Statuses -> SUBSET Statuses]
    /\ CancelRoles \in [Statuses -> SUBSET Roles]
    /\ InitialStatus \in Statuses
    /\ "NONE" \notin Statuses
<1>1. InitialStatus \in Statuses /\ "NONE" \notin Statuses
  BY DEF InitialStatus, Statuses
<1>2. Transitions \in [Statuses -> SUBSET Statuses]
  BY DEF Transitions, Statuses
<1>3. CancelRoles \in [Statuses -> SUBSET Roles]
  BY DEF CancelRoles, Statuses, Roles
<1>. QED  BY <1>1, <1>2, <1>3

\* The role that owns each target status.
LEMMA MoverFacts ==
    ASSUME NEW from \in Statuses, NEW to \in Statuses
    PROVE  /\ to = "CANCELLED" => MoverRoles(from, to) = CancelRoles[from]
           /\ to \in {"ASSIGNED", "RESCHEDULED", "ESCALATED"} =>
                  MoverRoles(from, to) = {"COORDINATOR"}
           /\ to \in {"REQUESTED", "ACCEPTED", "EN_ROUTE", "IN_PROGRESS",
                      "ISSUE", "COMPLETED"} =>
                  MoverRoles(from, to) = {"TECHNICIAN"}
BY DEF MoverRoles

\* The technician a transition leaves is a technician or nobody.
LEMMA AssigneeType ==
    ASSUME NEW held \in Technicians \cup {NoTechnician},
           NEW given \in Technicians \cup {NoTechnician}, NEW from, NEW to
    PROVE  AssigneeAfter(from, to, held, given) \in Technicians \cup {NoTechnician}
BY DEF AssigneeAfter

-----------------------------------------------------------------------------
\* Steps.

\* Every endpoint is a Load of a transition that its caller's role owns.
LEMMA ReceiveIsLoad ==
    ASSUME TypeOK, NEW s \in Slots, NEW u \in Users, NEW o \in Orders,
           Receive(s, u, o)
    PROVE  \E to \in Statuses, t \in Technicians \cup {NoTechnician} :
               /\ Load(s, u, o, to, t)
               /\ status[o] \in Statuses
               /\ Role[u] \in MoverRoles(status[o], to)
               /\ to = "ASSIGNED" => t \in Technicians
<1>. DEFINE L(to, t) == /\ Load(s, u, o, to, t)
                        /\ status[o] \in Statuses
                        /\ Role[u] \in MoverRoles(status[o], to)
                        /\ to = "ASSIGNED" => t \in Technicians
<1>1. ASSUME NEW to, NEW t, Load(s, u, o, to, t)
      PROVE  status[o] \in Statuses
  BY <1>1 DEF Load, TypeOK
<1>2. ASSUME NEW t \in Technicians, Assign(s, u, o, t)
      PROVE  "ASSIGNED" \in Statuses /\ L("ASSIGNED", t)
  BY <1>1, <1>2, MoverFacts DEF Assign, Statuses
<1>3. ASSUME NEW to \in {"REQUESTED", "ACCEPTED", "EN_ROUTE", "IN_PROGRESS",
                         "ISSUE", "COMPLETED"},
             LoadAs("TECHNICIAN", s, u, o, to)
      PROVE  to \in Statuses /\ L(to, NoTechnician)
  <2>1. to \in Statuses /\ to # "ASSIGNED"
    BY DEF Statuses
  <2>. QED  BY <1>1, <1>3, <2>1, MoverFacts DEF LoadAs
<1>4. ASSUME NEW to \in {"RESCHEDULED", "ESCALATED"},
             LoadAs("COORDINATOR", s, u, o, to)
      PROVE  to \in Statuses /\ L(to, NoTechnician)
  <2>1. to \in Statuses /\ to # "ASSIGNED"
    BY DEF Statuses
  <2>. QED  BY <1>1, <1>4, <2>1, MoverFacts DEF LoadAs
<1>5. ASSUME Cancel(s, u, o)
      PROVE  "CANCELLED" \in Statuses /\ L("CANCELLED", NoTechnician)
  <2>1. "CANCELLED" \in Statuses
    BY DEF Statuses
  <2>. QED  BY <1>1, <1>5, <2>1, MoverFacts DEF Cancel
<1>. QED
  BY <1>2, <1>3, <1>4, <1>5
  DEF Receive, Accept, Decline, Reschedule, StartTravel, StartWork,
      ReportIssue, ResolveIssue, Escalate, Complete

\* The steps that touch neither the order nor its trail: the handler goes idle,
\* or moves on with the transition it holds.
Quiet(s) ==
    /\ UNCHANGED dbVars
    /\ request[s].phase # "idle"
    /\ \/ request' = [request EXCEPT ![s] = Idle]
       \/ \E ph \in Phases \ {"loaded", "checked"} :
              request' = [request EXCEPT ![s].phase = ph]
       \/ /\ request[s].phase = "loaded"
          /\ request' = [request EXCEPT ![s].phase = "checked"]

\* All the steps of a handler but Load and Commit are quiet.
LEMMA QuietSteps ==
    ASSUME TypeOK, NEW s \in Slots, (Handle(s) /\ ~Commit(s)) \/ Crash(s)
    PROVE  Quiet(s)
<1>. USE DEF Quiet, Phases
<1>1. CASE Recheck(s)
  <2>1. request[s] \in Request
    BY DEF TypeOK
  <2>2. [request EXCEPT ![s].phase = "checked",
                        ![s].seen = status[request[s].order]]
        = [request EXCEPT ![s].phase = "checked"]
    BY <1>1, <2>1 DEF Recheck, StatusUnchanged, TypeOK, Request
  <2>. QED  BY <1>1, <2>2 DEF Recheck
<1>2. CASE RecheckConflict(s) \/ InsertRejected(s) \/ EmitEvent(s)
  BY <1>2 DEF RecheckConflict, InsertRejected, EmitEvent, Enter
<1>3. CASE RolledBack(s) \/ Publish(s) \/ AnswerError(s) \/ Crash(s)
  BY <1>3 DEF RolledBack, Publish, AnswerError, Crash
<1>. QED  BY <1>1, <1>2, <1>3 DEF Handle

-----------------------------------------------------------------------------
\* Type correctness.

LEMMA IdleType == Idle \in Request
BY DEF Idle, Request, Phases

LEMMA CreateType ==
    ASSUME TypeOK, NEW u \in Users, NEW c \in Users, NEW o \in Orders,
           NEW d \in Departments \cup {NoDepartment}, Create(u, o, c, d)
    PROVE  TypeOK'
<1>1. NewParties(u, c, d) \in Parties
  BY DEF NewParties, Parties
<1>2. status' \in [Orders -> Statuses \cup {"NONE"}]
  BY TableFacts DEF TypeOK, Create
<1>3. parties' \in [Orders -> Parties]
  BY <1>1 DEF TypeOK, Create
<1>. QED  BY <1>2, <1>3 DEF TypeOK, Create

LEMMA LoadType ==
    ASSUME TypeOK, NEW s \in Slots, NEW u \in Users, NEW o \in Orders,
           NEW to \in Statuses, NEW t \in Technicians \cup {NoTechnician},
           Load(s, u, o, to, t)
    PROVE  TypeOK'
<1>1. [phase |-> "loaded", user |-> u, order |-> o, seen |-> status[o],
       to |-> to, assignee |-> t, row |-> 0] \in Request
  BY DEF Request, Phases, TypeOK
<1>2. request' \in [Slots -> Request]
  BY <1>1 DEF Load, TypeOK
<1>3. \A q \in Slots : request'[q].phase # "idle" => request'[q].order \in Orders
  BY DEF Load, TypeOK
<1>. QED  BY <1>2, <1>3 DEF Load, TypeOK, dbVars

\* What a trail holds.
LEMMA TrailType ==
    ASSUME NEW trail \in Seq(HistoryRow)
    PROVE  /\ Reached(trail) \subseteq Statuses
           /\ HeldBy(trail) \subseteq Technicians \cup {NoTechnician}
<1>1. \A i \in 1..Len(trail) : trail[i] \in HistoryRow
  OBVIOUS
<1>2. \A i \in 1..Len(trail) :
          /\ trail[i].to \in Statuses
          /\ trail[i].assignee \in Technicians \cup {NoTechnician}
  BY <1>1 DEF HistoryRow
<1>. QED  BY <1>2, TableFacts DEF Reached, HeldBy

\* A request that was loaded and checked names an order and a legal row.
LEMMA CheckedFacts ==
    ASSUME TypeOK, RequestsStandOnTrail, NEW s \in Slots,
           request[s].phase \in {"loaded", "checked"}
    PROVE  /\ request[s].order \in Orders
           /\ request[s].user \in Users
           /\ request[s].seen \in Statuses
           /\ request[s].to \in Statuses
           /\ request[s].assignee \in Technicians \cup {NoTechnician}
<1>. DEFINE r == request[s]
<1>1. r \in Request
  BY DEF TypeOK
<1>2. r.order \in Orders /\ r.user \in Users /\ r.seen \in Reached(history[r.order])
      /\ r.to \in Transitions[r.seen]
  BY DEF RequestsStandOnTrail
<1>3. history[r.order] \in Seq(HistoryRow)
  BY <1>2 DEF TypeOK
<1>4. r.seen \in Statuses
  BY <1>2, <1>3, TrailType
<1>. QED  BY <1>1, <1>2, <1>4, TableFacts DEF Request

\* The row a commit appends, and the trail it leaves.
NewRow(s) ==
    LET r == request[s] IN
    [from |-> r.seen, to |-> r.to, by |-> r.user,
     assignee |-> AssigneeAfter(r.seen, r.to, technicianId[r.order], r.assignee)]

LEMMA CommitFacts ==
    ASSUME TypeOK, RequestsStandOnTrail, NEW s \in Slots, Commit(s),
           NEW o, o = request[s].order
    PROVE  /\ o \in Orders
           /\ NewRow(s) \in HistoryRow
           /\ history[o] \in Seq(HistoryRow)
           /\ Len(history[o]) \in Nat
           /\ history' = [history EXCEPT ![o] = Append(history[o], NewRow(s))]
           /\ history'[o] = Append(history[o], NewRow(s))
           /\ history'[o] \in Seq(HistoryRow)
           /\ Len(history'[o]) = Len(history[o]) + 1
           /\ \A i \in 1..Len(history[o]) : history'[o][i] = history[o][i]
           /\ history'[o][Len(history[o]) + 1] = NewRow(s)
           /\ \A p \in Orders : p # o => history'[p] = history[p]
<1>1. request[s].phase = "checked"
  BY DEF Commit
<1>2. o \in Orders
  BY <1>1, CheckedFacts
<1>3. technicianId[o] \in Technicians \cup {NoTechnician}
  BY <1>2 DEF TypeOK
<1>4. NewRow(s) \in HistoryRow
  BY <1>1, <1>3, CheckedFacts, AssigneeType DEF NewRow, HistoryRow
<1>5. history[o] \in Seq(HistoryRow) /\ Len(history[o]) \in Nat
  BY <1>2 DEF TypeOK
<1>6. history' = [history EXCEPT ![o] = Append(history[o], NewRow(s))]
  BY DEF Commit, NewRow
<1>7. history'[o] = Append(history[o], NewRow(s))
  BY <1>2, <1>6 DEF TypeOK
<1>8. \A p \in Orders : p # o => history'[p] = history[p]
  BY <1>2, <1>6 DEF TypeOK
<1>. QED  BY <1>2, <1>4, <1>5, <1>6, <1>7, <1>8, AppendProperties

LEMMA CommitType ==
    ASSUME TypeOK, RequestsStandOnTrail, NEW s \in Slots, Commit(s)
    PROVE  TypeOK'
<1>. DEFINE r == request[s]
            o == r.order
            assignee == AssigneeAfter(r.seen, r.to, technicianId[o], r.assignee)
<1>1. r.phase = "checked" /\ r \in Request
  BY DEF Commit, TypeOK
<1>2. o \in Orders /\ r.to \in Statuses
  BY <1>1, CheckedFacts
<1>3. assignee \in Technicians \cup {NoTechnician}
  BY <1>1, <1>2, CheckedFacts, AssigneeType DEF TypeOK
<1>4. status' \in [Orders -> Statuses \cup {"NONE"}]
  BY <1>2 DEF Commit, TypeOK
<1>5. technicianId' \in [Orders -> Technicians \cup {NoTechnician}]
  BY <1>2, <1>3 DEF Commit, TypeOK
<1>6. completedAt' \in [Orders -> BOOLEAN]
  BY <1>2 DEF Commit, TypeOK, CompletedAfter
<1>7. history' \in [Orders -> Seq(HistoryRow)]
  BY <1>2, CommitFacts DEF TypeOK
<1>8. request' \in [Slots -> Request]
  <2>1. Len(history[o]) + 1 \in Nat
    BY <1>2, CommitFacts
  <2>2. [r EXCEPT !.phase = "committed", !.row = Len(history[o]) + 1] \in Request
    BY <1>1, <2>1 DEF Request, Phases
  <2>. QED  BY <2>2 DEF Commit, TypeOK
<1>9. \A q \in Slots : request'[q].phase # "idle" => request'[q].order \in Orders
  BY <1>1, <1>2 DEF Commit, TypeOK, Request
<1>. QED  BY <1>4, <1>5, <1>6, <1>7, <1>8, <1>9 DEF TypeOK, Commit

LEMMA QuietType ==
    ASSUME TypeOK, NEW s \in Slots, (Handle(s) /\ ~Commit(s)) \/ Crash(s)
    PROVE  TypeOK'
<1>1. Quiet(s)
  BY QuietSteps
<1>2. request' \in [Slots -> Request]
  <2>1. request[s] \in Request
    BY DEF TypeOK
  <2>2. \A ph \in Phases : [request[s] EXCEPT !.phase = ph] \in Request
    BY <2>1 DEF Request
  <2>3. \A ph \in Phases : [request EXCEPT ![s].phase = ph] \in [Slots -> Request]
    BY <2>2 DEF TypeOK
  <2>4. [request EXCEPT ![s] = Idle] \in [Slots -> Request]
    BY IdleType DEF TypeOK
  <2>5. "checked" \in Phases
    BY DEF Phases
  <2>. QED  BY <1>1, <2>3, <2>4, <2>5 DEF Quiet
<1>3. crashes' \in Nat
  BY DEF TypeOK, Handle, Recheck, RecheckConflict, InsertRejected, RolledBack,
         EmitEvent, Publish, AnswerError, Crash
<1>4. emitted' \subseteq Orders \X Nat
  <2>1. CASE EmitEvent(s)
    <3>1. request[s].order \in Orders
      BY <2>1 DEF EmitEvent, TypeOK
    <3>2. request[s].row \in Nat
      BY DEF TypeOK, Request
    <3>. QED  BY <2>1, <3>1, <3>2 DEF EmitEvent, TypeOK
  <2>2. CASE ~EmitEvent(s)
    BY <2>2 DEF TypeOK, Handle, Recheck, RecheckConflict, InsertRejected, RolledBack,
                Publish, AnswerError, Crash
  <2>. QED  BY <2>1, <2>2
<1>5. \A q \in Slots : request'[q].phase # "idle" => request'[q].order \in Orders
  <2>1. request[s].order \in Orders
    BY <1>1 DEF Quiet, TypeOK
  <2>2. CASE request' = [request EXCEPT ![s] = Idle]
    BY <2>2 DEF Idle, TypeOK
  <2>3. ASSUME NEW ph \in Phases, request' = [request EXCEPT ![s].phase = ph]
        PROVE  \A q \in Slots : request'[q].order = request[q].order
                             /\ (q # s => request'[q] = request[q])
    BY <2>3 DEF TypeOK, Request
  <2>4. "checked" \in Phases
    BY DEF Phases
  <2>. QED  BY <1>1, <2>1, <2>2, <2>3, <2>4 DEF Quiet, TypeOK
<1>. QED  BY <1>1, <1>2, <1>3, <1>4, <1>5 DEF TypeOK, Quiet, dbVars

-----------------------------------------------------------------------------
\* The inductive invariant.  The trail's properties are not inductive alone: a
\* commit appends whatever its handler checked earlier, so what handlers hold
\* has to be part of the invariant, and what handlers read has to be tied to
\* the trail by OrderMatchesTrail.

TrailInv ==
    /\ HistoryObeysRules
    /\ RowsStartFromReachedStatus
    /\ TechniciansHeldTheOrder

IInv == TypeOK /\ RequestsStandOnTrail /\ OrderMatchesTrail /\ TrailInv

\* The columns of an order are values its trail has been through.
LEMMA CurrentFacts ==
    ASSUME TypeOK, OrderMatchesTrail, NEW o \in Orders
    PROVE  /\ status[o] # "NONE" => status[o] \in Reached(history[o])
           /\ technicianId[o] # NoTechnician => technicianId[o] \in HeldBy(history[o])
           /\ status[o] = "NONE" => history[o] = <<>>
<1>. DEFINE h == history[o]
<1>1. h \in Seq(HistoryRow)
  BY DEF TypeOK
<1>2. CASE h = <<>>
  BY <1>2 DEF OrderMatchesTrail, Reached, InitialStatus
<1>3. CASE h # <<>>
  <2>1. Len(h) \in 1..Len(h)
    BY <1>1, <1>3
  <2>2. h[Len(h)] \in HistoryRow
    BY <1>1, <2>1
  <2>3. status[o] = h[Len(h)].to /\ technicianId[o] = h[Len(h)].assignee
    BY <1>3 DEF OrderMatchesTrail
  <2>4. status[o] \in Statuses
    BY <2>2, <2>3 DEF HistoryRow
  <2>. QED  BY <2>1, <2>3, <2>4, TableFacts DEF Reached, HeldBy
<1>. QED  BY <1>2, <1>3

\* Appending a row loses nothing of what a trail has been through.
LEMMA AppendReached ==
    ASSUME NEW trail \in Seq(HistoryRow), NEW longer \in Seq(HistoryRow),
           Len(longer) = Len(trail) + 1,
           \A i \in 1..Len(trail) : longer[i] = trail[i]
    PROVE  /\ Reached(trail) \subseteq Reached(longer)
           /\ HeldBy(trail) \subseteq HeldBy(longer)
<1>1. Len(trail) \in Nat /\ 1..Len(trail) \subseteq 1..Len(longer)
  OBVIOUS
<1>. QED  BY <1>1 DEF Reached, HeldBy

LEMMA CreateInv ==
    ASSUME IInv, NEW u \in Users, NEW c \in Users, NEW o \in Orders,
           NEW d \in Departments \cup {NoDepartment}, Create(u, o, c, d)
    PROVE  IInv'
<1>1. TypeOK'
  BY CreateType DEF IInv
<1>2. history[o] = <<>> /\ technicianId[o] = NoTechnician
  BY CurrentFacts DEF IInv, Create, OrderMatchesTrail
<1>3. OrderMatchesTrail'
  <2>. SUFFICES ASSUME NEW p \in Orders
                PROVE  OrderMatchesTrail!(p)'
    BY DEF OrderMatchesTrail
  <2>1. CASE p = o
    BY <1>2, <2>1 DEF IInv, TypeOK, Create, OrderMatchesTrail, InitialStatus, TrailOf
  <2>2. CASE p # o
    BY <2>2 DEF IInv, TypeOK, Create, OrderMatchesTrail, TrailOf
  <2>. QED  BY <2>1, <2>2
<1>4. RequestsStandOnTrail'
  BY TableFacts DEF IInv, TypeOK, Create, RequestsStandOnTrail
<1>5. TrailInv'
  BY DEF IInv, TrailInv, Create, HistoryObeysRules, RowsStartFromReachedStatus,
         TechniciansHeldTheOrder, TrailOf
<1>. QED  BY <1>1, <1>3, <1>4, <1>5 DEF IInv

LEMMA LoadInv ==
    ASSUME IInv, NEW s \in Slots, NEW u \in Users, NEW o \in Orders,
           NEW to \in Statuses, NEW t \in Technicians \cup {NoTechnician},
           Load(s, u, o, to, t), status[o] \in Statuses,
           Role[u] \in MoverRoles(status[o], to),
           to = "ASSIGNED" => t \in Technicians
    PROVE  IInv'
<1>1. TypeOK'
  BY LoadType DEF IInv
<1>2. UNCHANGED dbVars
  BY DEF Load
<1>3. OrderMatchesTrail' /\ TrailInv'
  BY <1>2 DEF IInv, TrailInv, dbVars, OrderMatchesTrail, HistoryObeysRules,
              RowsStartFromReachedStatus, TechniciansHeldTheOrder, TrailOf
<1>4. u \in Technicians => u \in HeldBy(history[o])
  <2>. SUFFICES ASSUME u \in Technicians
                PROVE  u \in HeldBy(history[o])
    OBVIOUS
  <2>1. technicianId[o] = u
    BY DEF Load, InScope, Technicians
  <2>2. u # NoTechnician
    BY NoTechnicianAssumption
  <2>. QED  BY <2>1, <2>2, CurrentFacts DEF IInv
<1>5. status[o] \in Reached(history[o]) /\ status[o] # "NONE"
  BY CurrentFacts, TableFacts DEF IInv
<1>6. RequestsStandOnTrail'
  <2>. SUFFICES ASSUME NEW q \in Slots, request'[q].phase \in {"loaded", "checked"}
                PROVE  RequestsStandOnTrail!(q)'
    BY DEF RequestsStandOnTrail
  <2>1. CASE q = s
    <3>1. request'[q] = [phase |-> "loaded", user |-> u, order |-> o,
                         seen |-> status[o], to |-> to, assignee |-> t, row |-> 0]
      BY <2>1 DEF Load, IInv, TypeOK
    <3>2. to \in Transitions[status[o]]
      BY DEF Load, Validated
    <3>. QED  BY <1>2, <1>4, <1>5, <3>1, <3>2 DEF dbVars
  <2>2. CASE q # s
    <3>1. request'[q] = request[q]
      BY <2>2 DEF Load, IInv, TypeOK
    <3>. QED  BY <1>2, <3>1 DEF dbVars, IInv, RequestsStandOnTrail
  <2>. QED  BY <2>1, <2>2
<1>. QED  BY <1>1, <1>3, <1>6 DEF IInv

LEMMA QuietInv ==
    ASSUME IInv, NEW s \in Slots, (Handle(s) /\ ~Commit(s)) \/ Crash(s)
    PROVE  IInv'
<1>1. TypeOK'
  BY QuietType DEF IInv
<1>2. Quiet(s)
  BY QuietSteps DEF IInv
<1>3. OrderMatchesTrail' /\ TrailInv'
  BY <1>2 DEF Quiet, IInv, TrailInv, dbVars, OrderMatchesTrail, HistoryObeysRules,
              RowsStartFromReachedStatus, TechniciansHeldTheOrder, TrailOf
<1>4. RequestsStandOnTrail'
  <2>. SUFFICES ASSUME NEW q \in Slots, request'[q].phase \in {"loaded", "checked"}
                PROVE  RequestsStandOnTrail!(q)'
    BY DEF RequestsStandOnTrail
  <2>1. request[q] \in Request /\ request \in [Slots -> Request]
    BY DEF IInv, TypeOK
  <2>2. CASE q = s
    <3>1. request'[q] = [request[q] EXCEPT !.phase = "checked"]
          /\ request[q].phase = "loaded"
      BY <1>2, <2>1, <2>2 DEF Quiet, Idle, Phases, Request
    <3>2. /\ request'[q].user = request[q].user
          /\ request'[q].order = request[q].order
          /\ request'[q].seen = request[q].seen
          /\ request'[q].to = request[q].to
          /\ request'[q].assignee = request[q].assignee
      BY <2>1, <3>1 DEF Request
    <3>. QED  BY <1>2, <3>1, <3>2 DEF Quiet, dbVars, IInv, RequestsStandOnTrail
  <2>3. CASE q # s
    <3>1. request'[q] = request[q]
      BY <1>2, <2>1, <2>3 DEF Quiet
    <3>. QED  BY <1>2, <3>1 DEF Quiet, dbVars, IInv, RequestsStandOnTrail
  <2>. QED  BY <2>2, <2>3
<1>. QED  BY <1>1, <1>3, <1>4 DEF IInv

\* A commit keeps the order's columns in step with its trail.
LEMMA CommitMatches ==
    ASSUME IInv, NEW s \in Slots, Commit(s)
    PROVE  OrderMatchesTrail'
<1>. DEFINE r == request[s]
            o == r.order
            n == Len(history[o])
<1>1. /\ o \in Orders
      /\ n \in Nat
      /\ history'[o] \in Seq(HistoryRow)
      /\ Len(history'[o]) = n + 1
      /\ \A i \in 1..n : history'[o][i] = history[o][i]
      /\ history'[o][n + 1] = NewRow(s)
      /\ \A p \in Orders : p # o => history'[p] = history[p]
  BY CommitFacts DEF IInv
<1>2. NewRow(s).to = r.to
      /\ NewRow(s).assignee
           = AssigneeAfter(r.seen, r.to, technicianId[o], r.assignee)
  BY DEF NewRow
<1>. SUFFICES ASSUME NEW p \in Orders
              PROVE  OrderMatchesTrail!(p)'
  BY DEF OrderMatchesTrail
<1>3. CASE p = o
  <2>1. status'[o] = r.to /\ technicianId'[o] = NewRow(s).assignee
    BY <1>1, <1>2 DEF Commit, IInv, TypeOK
  <2>2. completedAt'[o] <=> (completedAt[o] \/ r.to = "COMPLETED")
    BY <1>1 DEF Commit, IInv, TypeOK, CompletedAfter
  <2>3. completedAt[o] <=> \E i \in 1..n : history[o][i].to = "COMPLETED"
    BY <1>1 DEF IInv, OrderMatchesTrail, TrailOf
  <2>4. (\E i \in 1..(n + 1) : history'[o][i].to = "COMPLETED")
          <=> \/ \E i \in 1..n : history[o][i].to = "COMPLETED"
              \/ r.to = "COMPLETED"
    <3>1. 1..(n + 1) = (1..n) \cup {n + 1}
      BY <1>1
    <3>. QED  BY <1>1, <1>2, <3>1
  <2>5. history'[o] # <<>>
    BY <1>1
  <2>. QED  BY <1>1, <1>2, <1>3, <2>1, <2>2, <2>3, <2>4, <2>5 DEF TrailOf
<1>4. CASE p # o
  BY <1>1, <1>4 DEF Commit, IInv, TypeOK, OrderMatchesTrail, TrailOf
<1>. QED  BY <1>3, <1>4

\* What a handler held before the commit of another request it still holds.
LEMMA CommitRequests ==
    ASSUME IInv, NEW s \in Slots, Commit(s)
    PROVE  RequestsStandOnTrail'
<1>. DEFINE o == request[s].order
<1>1. /\ o \in Orders
      /\ history[o] \in Seq(HistoryRow)
      /\ history'[o] \in Seq(HistoryRow)
      /\ Len(history'[o]) = Len(history[o]) + 1
      /\ \A i \in 1..Len(history[o]) : history'[o][i] = history[o][i]
      /\ \A p \in Orders : p # o => history'[p] = history[p]
  BY CommitFacts DEF IInv
<1>2. \A p \in Orders : /\ Reached(history[p]) \subseteq Reached(history'[p])
                        /\ HeldBy(history[p]) \subseteq HeldBy(history'[p])
  BY <1>1, AppendReached
<1>3. \A p \in Orders : status[p] # "NONE" => status'[p] # "NONE"
  <2>1. request[s].to \in Statuses
    BY CheckedFacts DEF IInv, Commit
  <2>. QED  BY <1>1, <2>1, TableFacts DEF Commit, IInv, TypeOK
<1>. SUFFICES ASSUME NEW q \in Slots, request'[q].phase \in {"loaded", "checked"}
              PROVE  RequestsStandOnTrail!(q)'
  BY DEF RequestsStandOnTrail
<1>4. q # s /\ request'[q] = request[q]
  BY DEF Commit, IInv, TypeOK, Request
<1>5. RequestsStandOnTrail!(q)
  BY DEF IInv, RequestsStandOnTrail
<1>. QED  BY <1>2, <1>3, <1>4, <1>5

\* The row a commit appends obeys the rules, starts from a status the order has
\* had and, if a technician made it, was made by one who has held the order.
LEMMA CommitTrail ==
    ASSUME IInv, NEW s \in Slots, Commit(s)
    PROVE  TrailInv'
<1>. DEFINE r == request[s]
            o == r.order
            n == Len(history[o])
            row == NewRow(s)
<1>1. /\ o \in Orders
      /\ n \in Nat
      /\ Len(history'[o]) = n + 1
      /\ \A i \in 1..n : history'[o][i] = history[o][i]
      /\ history'[o][n + 1] = row
      /\ \A p \in Orders : p # o => history'[p] = history[p]
  BY CommitFacts DEF IInv
<1>2. /\ row.from = r.seen
      /\ row.to = r.to
      /\ row.by = r.user
  BY DEF NewRow
<1>3. /\ r.seen \in Reached(history[o])
      /\ r.to \in Transitions[r.seen]
      /\ Role[r.user] \in MoverRoles(r.seen, r.to)
      /\ r.user \in Technicians => r.user \in HeldBy(history[o])
  BY DEF IInv, RequestsStandOnTrail, Commit
<1>4. \A i \in 1..(n + 1) : i \in 1..n \/ i = n + 1
  BY <1>1
<1>5. HistoryObeysRules'
  <2>. SUFFICES ASSUME NEW p \in Orders, NEW i \in 1..Len(history'[p])
                PROVE  HistoryObeysRules!(p)!(i)'
    BY DEF HistoryObeysRules, TrailOf
  <2>1. CASE p = o /\ i = n + 1
    BY <1>1, <1>2, <1>3, <2>1
  <2>2. CASE p # o \/ i \in 1..n
    BY <1>1, <2>2 DEF IInv, TrailInv, HistoryObeysRules, TrailOf
  <2>. QED  BY <1>1, <1>4, <2>1, <2>2
<1>6. RowsStartFromReachedStatus'
  <2>. SUFFICES ASSUME NEW p \in Orders, NEW i \in 1..Len(history'[p])
                PROVE  RowsStartFromReachedStatus!(p)!(i)'
    BY DEF RowsStartFromReachedStatus, TrailOf
  <2>1. CASE p = o /\ i = n + 1
    <3>1. (n + 1) - 1 = n
      BY <1>1
    <3>2. \/ r.seen = "REQUESTED"
          \/ \E j \in 1..n : history[o][j].to = r.seen
      BY <1>3 DEF Reached, InitialStatus
    <3>. QED  BY <1>1, <1>2, <2>1, <3>1, <3>2
  <2>2. CASE p = o /\ i \in 1..n
    <3>1. \A j \in 1..(i - 1) : j \in 1..n
      BY <1>1, <2>2
    <3>2. \/ history[o][i].from = "REQUESTED"
          \/ \E j \in 1..(i - 1) : history[o][j].to = history[o][i].from
      BY <1>1, <2>2 DEF IInv, TrailInv, RowsStartFromReachedStatus, TrailOf
    <3>. QED  BY <1>1, <2>2, <3>1, <3>2
  <2>3. CASE p # o
    BY <1>1, <2>3 DEF IInv, TrailInv, RowsStartFromReachedStatus, TrailOf
  <2>. QED  BY <1>1, <1>4, <2>1, <2>2, <2>3
<1>7. TechniciansHeldTheOrder'
  <2>. SUFFICES ASSUME NEW p \in Orders, NEW i \in 1..Len(history'[p]),
                       history'[p][i].by \in Technicians
                PROVE  \E j \in 1..(i - 1) :
                           history'[p][j].assignee = history'[p][i].by
    BY DEF TechniciansHeldTheOrder, TrailOf
  <2>1. CASE p = o /\ i = n + 1
    <3>1. (n + 1) - 1 = n
      BY <1>1
    <3>2. \E j \in 1..n : history[o][j].assignee = r.user
      BY <1>1, <1>2, <1>3, <2>1 DEF HeldBy
    <3>. QED  BY <1>1, <1>2, <2>1, <3>1, <3>2
  <2>2. CASE p = o /\ i \in 1..n
    <3>1. \A j \in 1..(i - 1) : j \in 1..n
      BY <1>1, <2>2
    <3>2. \E j \in 1..(i - 1) : history[o][j].assignee = history[o][i].by
      BY <1>1, <2>2 DEF IInv, TrailInv, TechniciansHeldTheOrder, TrailOf
    <3>. QED  BY <1>1, <2>2, <3>1, <3>2
  <2>3. CASE p # o
    BY <1>1, <2>3 DEF IInv, TrailInv, TechniciansHeldTheOrder, TrailOf
  <2>. QED  BY <1>1, <1>4, <2>1, <2>2, <2>3
<1>. QED  BY <1>5, <1>6, <1>7 DEF TrailInv

LEMMA InitInv == Init => IInv
<1>. SUFFICES ASSUME Init
              PROVE  IInv
  OBVIOUS
<1>1. TypeOK
  BY IdleType, BoundsAssumption DEF Init, TypeOK, Parties, Idle
<1>2. \A o \in Orders : history[o] = <<>> /\ TrailOf(o) = {}
  BY DEF Init, TrailOf
<1>3. OrderMatchesTrail
  BY <1>2 DEF Init, OrderMatchesTrail
<1>4. TrailInv
  BY <1>2 DEF TrailInv, HistoryObeysRules, RowsStartFromReachedStatus,
              TechniciansHeldTheOrder
<1>5. RequestsStandOnTrail
  BY DEF Init, RequestsStandOnTrail, Idle
<1>. QED  BY <1>1, <1>3, <1>4, <1>5 DEF IInv

LEMMA NextInv == IInv /\ [Next]_vars => IInv'
<1>. SUFFICES ASSUME IInv, [Next]_vars
              PROVE  IInv'
  OBVIOUS
<1>1. ASSUME NEW u \in Users, NEW c \in Users, NEW o \in Orders,
             NEW d \in Departments \cup {NoDepartment}, Create(u, o, c, d)
      PROVE  IInv'
  BY <1>1, CreateInv
<1>2. ASSUME NEW s \in Slots, NEW u \in Users, NEW o \in Orders, Receive(s, u, o)
      PROVE  IInv'
  BY <1>2, ReceiveIsLoad, LoadInv DEF IInv
<1>3. ASSUME NEW s \in Slots, Commit(s)
      PROVE  IInv'
  BY <1>3, CommitType, CommitMatches, CommitRequests, CommitTrail DEF IInv
<1>4. ASSUME NEW s \in Slots, (Handle(s) /\ ~Commit(s)) \/ Crash(s)
      PROVE  IInv'
  BY <1>4, QuietInv
<1>5. CASE UNCHANGED vars
  BY <1>5 DEF vars, IInv, TypeOK, RequestsStandOnTrail, OrderMatchesTrail, TrailInv,
              HistoryObeysRules, RowsStartFromReachedStatus, TechniciansHeldTheOrder,
              TrailOf
<1>. QED  BY <1>1, <1>2, <1>3, <1>4, <1>5 DEF Next

\* Every reachable state satisfies the inductive invariant.
THEOREM Invariance == Spec => []IInv
BY InitInv, NextInv, PTL DEF Spec

\* The columns always hold values of their type, and a busy handler has an order.
THEOREM TypeCorrect == Spec => []TypeOK
<1>1. IInv => TypeOK
  BY DEF IInv
<1>. QED  BY <1>1, Invariance, PTL

\* However requests overlap, each row of the audit trail is an edge of the state
\* diagram made by a role that owns it.
THEOREM TrailIsLawful == Spec => []HistoryObeysRules
<1>1. IInv => HistoryObeysRules
  BY DEF IInv, TrailInv
<1>. QED  BY <1>1, Invariance, PTL

\* However requests overlap, a row starts from a status the order had reached.
THEOREM RowsAreReached == Spec => []RowsStartFromReachedStatus
<1>1. IInv => RowsStartFromReachedStatus
  BY DEF IInv, TrailInv
<1>. QED  BY <1>1, Invariance, PTL

\* However requests overlap, a technician moves only orders once held.
THEOREM TechniciansHold == Spec => []TechniciansHeldTheOrder
<1>1. IInv => TechniciansHeldTheOrder
  BY DEF IInv, TrailInv
<1>. QED  BY <1>1, Invariance, PTL

\* Between its first read and its commit, a request holds a transition that is
\* legal from a status its order has had, in the hands of a role that owns it.
THEOREM RequestsStand == Spec => []RequestsStandOnTrail
<1>1. IInv => RequestsStandOnTrail
  BY DEF IInv
<1>. QED  BY <1>1, Invariance, PTL

\* Status, technician and completion time always agree with the audit trail.
THEOREM ColumnsMatchTrail == Spec => []OrderMatchesTrail
<1>1. IInv => OrderMatchesTrail
  BY DEF IInv
<1>. QED  BY <1>1, Invariance, PTL

-----------------------------------------------------------------------------
\* Reporting.

\* A handler between its commit and its emit.
Reporting(s, o, i) ==
    request[s].phase = "committed" /\ request[s].order = o /\ request[s].row = i

LEMMA ReportInit == Init => UnreportedOnlyAfterCrash
BY DEF Init, UnreportedOnlyAfterCrash, TrailOf

\* A commit leaves its new row with the handler that made it.
LEMMA CommitReport ==
    ASSUME IInv, UnreportedOnlyAfterCrash, NEW s \in Slots, Commit(s)
    PROVE  UnreportedOnlyAfterCrash'
<1>. DEFINE r == request[s]
            o == r.order
            n == Len(history[o])
<1>1. /\ o \in Orders
      /\ n \in Nat
      /\ Len(history'[o]) = n + 1
      /\ \A p \in Orders : p # o => history'[p] = history[p]
  BY CommitFacts DEF IInv
<1>2. \A q \in Slots : q # s => request'[q] = request[q]
  BY DEF Commit, IInv, TypeOK
<1>3. r.phase = "checked" /\ r \in Request /\ request \in [Slots -> Request]
  BY DEF Commit, IInv, TypeOK
<1>4. /\ request'[s].phase = "committed"
      /\ request'[s].order = o
      /\ request'[s].row = n + 1
  BY <1>3 DEF Commit, Request
<1>. SUFFICES ASSUME NEW p \in Orders, NEW i \in 1..Len(history'[p])
              PROVE  UnreportedOnlyAfterCrash!(p)!(i)'
  BY DEF UnreportedOnlyAfterCrash, TrailOf
<1>5. CASE p = o /\ i = n + 1
  BY <1>4, <1>5
<1>6. CASE i \in 1..Len(history[p])
  <2>1. \/ <<p, i>> \in emitted
        \/ crashes > 0
        \/ \E q \in Slots : Reporting(q, p, i)
    BY <1>6 DEF UnreportedOnlyAfterCrash, TrailOf, Reporting
  <2>2. \A q \in Slots : Reporting(q, p, i) => Reporting(q, p, i)'
    BY <1>2, <1>3 DEF Reporting
  <2>. QED  BY <2>1, <2>2 DEF Reporting, Commit
<1>. QED  BY <1>1, <1>5, <1>6

\* Any other step of a handler keeps what is reported; only a crash drops a
\* handler that still has to emit.
LEMMA HandlerReport ==
    ASSUME TypeOK, UnreportedOnlyAfterCrash, NEW s \in Slots,
           (Handle(s) /\ ~Commit(s)) \/ Crash(s)
    PROVE  UnreportedOnlyAfterCrash'
<1>1. UNCHANGED history
  BY QuietSteps DEF Quiet, dbVars
<1>2. \A q \in Slots : q # s => request'[q] = request[q]
  BY QuietSteps DEF Quiet, TypeOK
<1>. SUFFICES ASSUME NEW p \in Orders, NEW i \in 1..Len(history[p])
              PROVE  UnreportedOnlyAfterCrash!(p)!(i)'
  BY <1>1 DEF UnreportedOnlyAfterCrash, TrailOf
<1>3. \/ <<p, i>> \in emitted
      \/ crashes > 0
      \/ \E q \in Slots : Reporting(q, p, i)
  BY DEF UnreportedOnlyAfterCrash, TrailOf, Reporting
<1>4. emitted \subseteq emitted' /\ crashes \in Nat
  BY DEF TypeOK, Handle, Recheck, RecheckConflict, InsertRejected, RolledBack,
         EmitEvent, Publish, AnswerError, Crash
<1>5. crashes > 0 => crashes' > 0
  BY <1>4 DEF Handle, Recheck, RecheckConflict, InsertRejected, RolledBack,
              EmitEvent, Publish, AnswerError, Crash
<1>6. ASSUME Reporting(s, p, i)
      PROVE  <<p, i>> \in emitted' \/ crashes' > 0
  BY <1>4, <1>6 DEF Reporting, Handle, Recheck, RecheckConflict, InsertRejected,
                    RolledBack, EmitEvent, Publish, AnswerError, Crash
<1>7. ASSUME NEW q \in Slots, q # s, Reporting(q, p, i)
      PROVE  Reporting(q, p, i)'
  BY <1>2, <1>7 DEF Reporting
<1>. QED  BY <1>3, <1>4, <1>5, <1>6, <1>7 DEF Reporting

\* A step that changes neither what is recorded nor a handler about to emit.
LEMMA ReportKept ==
    ASSUME UnreportedOnlyAfterCrash, UNCHANGED <<history, emitted, crashes>>,
           \A q \in Slots : request[q].phase = "committed" => request'[q] = request[q]
    PROVE  UnreportedOnlyAfterCrash'
<1>. SUFFICES ASSUME NEW o \in Orders, NEW i \in 1..Len(history[o])
              PROVE  UnreportedOnlyAfterCrash!(o)!(i)'
  BY DEF UnreportedOnlyAfterCrash, TrailOf
<1>1. \/ <<o, i>> \in emitted
      \/ crashes > 0
      \/ \E q \in Slots : Reporting(q, o, i)
  BY DEF UnreportedOnlyAfterCrash, TrailOf, Reporting
<1>2. \A q \in Slots : Reporting(q, o, i) => Reporting(q, o, i)'
  BY DEF Reporting
<1>. QED  BY <1>1, <1>2 DEF Reporting

LEMMA ReportNext ==
    ASSUME IInv, UnreportedOnlyAfterCrash, [Next]_vars
    PROVE  UnreportedOnlyAfterCrash'
<1>1. ASSUME NEW u \in Users, NEW c \in Users, NEW o \in Orders,
             NEW d \in Departments \cup {NoDepartment}, Create(u, o, c, d)
      PROVE  UnreportedOnlyAfterCrash'
  BY <1>1, ReportKept DEF Create
<1>2. ASSUME NEW s \in Slots, NEW u \in Users, NEW o \in Orders, Receive(s, u, o)
      PROVE  UnreportedOnlyAfterCrash'
  <2>1. PICK to, t : Load(s, u, o, to, t)
    BY <1>2, ReceiveIsLoad DEF IInv
  <2>2. UNCHANGED <<history, emitted, crashes>> /\ request[s].phase = "idle"
    BY <2>1 DEF Load, dbVars
  <2>3. \A q \in Slots : q # s => request'[q] = request[q]
    BY <2>1 DEF Load, IInv, TypeOK
  <2>. QED  BY <2>2, <2>3, ReportKept
<1>3. ASSUME NEW s \in Slots, Commit(s) \/ Handle(s) \/ Crash(s)
      PROVE  UnreportedOnlyAfterCrash'
  BY <1>3, CommitReport, HandlerReport DEF IInv
<1>4. ASSUME UNCHANGED vars
      PROVE  UnreportedOnlyAfterCrash'
  BY <1>4, ReportKept DEF vars
<1>. QED  BY <1>1, <1>2, <1>3, <1>4 DEF Next

\* While no handler has died after a commit, every committed transition has been
\* emitted or is in the hands of the handler that is about to emit it.
THEOREM LostOnlyByCrash == Spec => []UnreportedOnlyAfterCrash
BY ReportInit, ReportNext, Invariance, PTL DEF Spec

-----------------------------------------------------------------------------
\* The concurrent service implements the lifecycle.

\* A step of the service creates an order, commits a transition, or leaves the
\* orders and their trails alone.
LEMMA StepKinds ==
    ASSUME TypeOK, [Next]_vars
    PROVE  \/ \E u, c \in Users, o \in Orders, d \in Departments \cup {NoDepartment} :
                  Create(u, o, c, d)
           \/ \E s \in Slots : Commit(s)
           \/ UNCHANGED dbVars
<1>1. ASSUME NEW s \in Slots, NEW u \in Users, NEW o \in Orders, Receive(s, u, o)
      PROVE  UNCHANGED dbVars
  BY <1>1, ReceiveIsLoad DEF Load
<1>2. ASSUME NEW s \in Slots, (Handle(s) /\ ~Commit(s)) \/ Crash(s)
      PROVE  UNCHANGED dbVars
  BY <1>2, QuietSteps DEF Quiet
<1>3. CASE UNCHANGED vars
  BY <1>3 DEF vars, dbVars
<1>. QED  BY <1>1, <1>2, <1>3 DEF Next

-----------------------------------------------------------------------------
\* The stale lifecycle.

LEMMA StaleOpen ==
    ASSUME NEW u \in Users, NEW c \in Users, NEW o \in Orders,
           NEW d \in Departments \cup {NoDepartment}, Create(u, o, c, d)
    PROVE  Stale!Next
<1>1. Stale!Open(o)
  BY DEF Create, Stale!Open, InitialStatus, Stale!InitialStatus
<1>. QED  BY <1>1 DEF Stale!Next

\* The tables of the lifecycle are those of the service.
LEMMA StaleTables ==
    /\ Stale!Statuses = Statuses
    /\ Stale!Technicians = Technicians
    /\ Stale!Transitions = Transitions
    /\ \A trail : Stale!Reached(trail) = Reached(trail)
    /\ \A trail : Stale!HeldBy(trail) = HeldBy(trail)
    /\ \A from, to : Stale!MoverRoles(from, to) = MoverRoles(from, to)
    /\ \A from, to, held, given :
           Stale!AssigneeAfter(from, to, held, given)
             = AssigneeAfter(from, to, held, given)
    /\ \A to, held : Stale!CompletedAfter(to, held) = CompletedAfter(to, held)
<1>1. Stale!Statuses = Statuses
  BY DEF Stale!Statuses, Statuses
<1>2. Stale!Technicians = Technicians
  BY DEF Stale!Technicians, Technicians
<1>3. Stale!Transitions = Transitions
  BY <1>1 DEF Stale!Transitions, Transitions
<1>4. Stale!CancelRoles = CancelRoles
  BY <1>1 DEF Stale!CancelRoles, CancelRoles
<1>5. \A trail : Stale!Reached(trail) = Reached(trail)
  BY DEF Stale!Reached, Reached, Stale!InitialStatus, InitialStatus
<1>6. \A trail : Stale!HeldBy(trail) = HeldBy(trail)
  BY DEF Stale!HeldBy, HeldBy
<1>7. \A from, to : Stale!MoverRoles(from, to) = MoverRoles(from, to)
  BY <1>4 DEF Stale!MoverRoles, MoverRoles
<1>8. \A from, to, held, given :
          Stale!AssigneeAfter(from, to, held, given)
            = AssigneeAfter(from, to, held, given)
  BY DEF Stale!AssigneeAfter, AssigneeAfter
<1>9. \A to, held : Stale!CompletedAfter(to, held) = CompletedAfter(to, held)
  BY DEF Stale!CompletedAfter, CompletedAfter
<1>. QED  BY <1>1, <1>2, <1>3, <1>5, <1>6, <1>7, <1>8, <1>9

\* A commit is a move of the lifecycle from a status the order has had.
LEMMA StaleMove ==
    ASSUME IInv, NEW s \in Slots, Commit(s)
    PROVE  Stale!Next
<1>. DEFINE r == request[s]
            o == r.order
<1>1. /\ o \in Orders
      /\ r.user \in Users
      /\ r.assignee \in Technicians \cup {NoTechnician}
      /\ r.seen \in Statuses
      /\ r.to \in Statuses
  BY CheckedFacts DEF IInv, Commit
<1>2. /\ r.seen \in Reached(history[o])
      /\ r.to \in Transitions[r.seen]
      /\ Role[r.user] \in MoverRoles(r.seen, r.to)
      /\ r.to = "ASSIGNED" => r.assignee \in Technicians
      /\ r.user \in Technicians => r.user \in HeldBy(history[o])
      /\ status[o] # "NONE"
  BY DEF IInv, RequestsStandOnTrail, Commit
<1>3. Role[r.user] = "TECHNICIAN" => r.user \in Technicians
  BY <1>1 DEF Technicians
<1>4. Stale!Move(o, r.user, r.seen, r.to, r.assignee)
  BY <1>1, <1>2, <1>3, StaleTables DEF Stale!Move, Commit
<1>5. r.seen \in Stale!Sources(o)
  BY <1>2, StaleTables DEF Stale!Sources
<1>. QED  BY <1>1, <1>2, <1>4, <1>5, StaleTables DEF Stale!Next

\* However requests overlap, the service implements the lifecycle in which a
\* transition starts from some status the order has had and is made, if by a
\* technician, by one who has held the order.
THEOREM ImplementsStaleLifecycle == Spec => StaleLifecycle
<1>1. Init => Stale!Init
  BY DEF Init, Stale!Init
<1>2. IInv /\ [Next]_vars => [Stale!Next]_(Stale!lifecycleVars)
  BY StepKinds, StaleOpen, StaleMove DEF IInv, dbVars, Stale!lifecycleVars
<1>. QED  BY <1>1, <1>2, Invariance, PTL DEF Spec, StaleLifecycle, Stale!Spec

-----------------------------------------------------------------------------
\* Final orders.

\* No handler has taken the order up.
NotTakenUp(o) ==
    \A s \in Slots :
        request'[s].phase \in {"loaded", "checked"} /\ request'[s].order = o =>
            s \in InHands(o)

\* From a terminal status no transition is legal, and it is not "no row".
LEMMA TerminalFacts ==
    /\ "NONE" \notin Terminal
    /\ \A from \in Terminal : Transitions[from] = {}
BY DEF Terminal, Statuses, Transitions

\* A request for a final order is refused, so a handler that takes an order up
\* takes up another one.
LEMMA LoadElsewhere ==
    ASSUME TypeOK, NEW s \in Slots, NEW u \in Users, NEW p \in Orders,
           Receive(s, u, p), NEW o \in Orders, status[o] \in Terminal
    PROVE  NotTakenUp(o)
<1>1. PICK to, t : Load(s, u, p, to, t)
  BY ReceiveIsLoad
<1>2. p # o
  BY <1>1, TerminalFacts DEF Load, Validated
<1>3. request'[s].order = p
  BY <1>1 DEF Load, TypeOK
<1>4. \A q \in Slots : q # s => request'[q] = request[q]
  BY <1>1 DEF Load, TypeOK
<1>. QED  BY <1>2, <1>3, <1>4 DEF NotTakenUp, InHands

\* A handler that goes on with a transition, or drops it, takes no order up.
LEMMA QuietElsewhere ==
    ASSUME TypeOK, NEW s \in Slots, Quiet(s), NEW o \in Orders
    PROVE  NotTakenUp(o)
<1>1. request \in [Slots -> Request]
  BY DEF TypeOK
<1>2. \A q \in Slots : q # s => request'[q] = request[q]
  BY <1>1 DEF Quiet
<1>3. CASE request' = [request EXCEPT ![s] = Idle]
  BY <1>1, <1>2, <1>3 DEF NotTakenUp, InHands, Idle
<1>4. ASSUME NEW ph \in Phases \ {"loaded", "checked"},
             request' = [request EXCEPT ![s].phase = ph]
      PROVE  NotTakenUp(o)
  <2>1. request'[s].phase \notin {"loaded", "checked"}
    BY <1>1, <1>4 DEF Request
  <2>. QED  BY <1>2, <2>1 DEF NotTakenUp, InHands
<1>5. CASE request[s].phase = "loaded" /\ request' = [request EXCEPT ![s].phase = "checked"]
  <2>1. request'[s].order = request[s].order
    BY <1>1, <1>5 DEF Request
  <2>. QED  BY <1>2, <1>5, <2>1 DEF NotTakenUp, InHands
<1>. QED  BY <1>3, <1>4, <1>5 DEF Quiet

\* A commit is made by a handler that has its order in hand.
LEMMA CommitElsewhere ==
    ASSUME IInv, NEW s \in Slots, Commit(s), NEW o \in Orders, s \notin InHands(o)
    PROVE  /\ UNCHANGED <<status[o], technicianId[o], completedAt[o], history[o]>>
           /\ NotTakenUp(o)
<1>1. TypeOK /\ request[s].phase = "checked" /\ request[s].order # o
  BY DEF IInv, Commit, InHands
<1>2. request[s].order \in Orders
  BY CheckedFacts, <1>1 DEF IInv
<1>3. UNCHANGED <<status[o], technicianId[o], completedAt[o]>>
  BY <1>1, <1>2 DEF Commit, TypeOK
<1>4. UNCHANGED history[o]
  BY <1>1, CommitFacts DEF IInv
<1>5. request'[s].phase = "committed"
  BY <1>1 DEF Commit, TypeOK, Request
<1>6. \A q \in Slots : q # s => request'[q] = request[q]
  BY <1>1 DEF Commit, TypeOK
<1>. QED  BY <1>3, <1>4, <1>5, <1>6 DEF NotTakenUp, InHands

LEMMA RestStep ==
    ASSUME IInv, [Next]_vars, NEW o \in Orders,
           status[o] \in Terminal, InHands(o) = {}
    PROVE  /\ UNCHANGED <<status[o], technicianId[o], completedAt[o], history[o]>>
           /\ InHands(o)' = {}
<1>. DEFINE Kept == UNCHANGED <<status[o], technicianId[o], completedAt[o], history[o]>>
            Good == Kept /\ NotTakenUp(o)
<1>1. ASSUME NEW u \in Users, NEW c \in Users, NEW p \in Orders,
             NEW d \in Departments \cup {NoDepartment}, Create(u, p, c, d)
      PROVE  Good
  <2>1. p # o
    BY <1>1, TerminalFacts DEF Create
  <2>2. Kept
    BY <1>1, <2>1 DEF Create, IInv, TypeOK
  <2>. QED  BY <1>1, <2>2 DEF Create, NotTakenUp, InHands
<1>2. ASSUME NEW s \in Slots, NEW u \in Users, NEW p \in Orders, Receive(s, u, p)
      PROVE  Good
  <2>1. UNCHANGED dbVars
    BY <1>2, ReceiveIsLoad DEF Load, IInv
  <2>2. NotTakenUp(o)
    BY <1>2, LoadElsewhere DEF IInv
  <2>. QED  BY <2>1, <2>2 DEF dbVars
<1>3. ASSUME NEW s \in Slots, Commit(s)
      PROVE  Good
  BY <1>3, CommitElsewhere
<1>4. ASSUME NEW s \in Slots, (Handle(s) /\ ~Commit(s)) \/ Crash(s)
      PROVE  Good
  <2>1. Quiet(s)
    BY <1>4, QuietSteps DEF IInv
  <2>2. UNCHANGED dbVars
    BY <2>1 DEF Quiet
  <2>3. NotTakenUp(o)
    BY <2>1, QuietElsewhere DEF IInv
  <2>. QED  BY <2>2, <2>3 DEF dbVars
<1>5. ASSUME UNCHANGED vars
      PROVE  Good
  BY <1>5 DEF vars, NotTakenUp, InHands
<1>. HIDE DEF Good
<1>6. Good
  BY <1>1, <1>2, <1>3, <1>4, <1>5 DEF Next
<1>. QED  BY <1>6 DEF Good, NotTakenUp, InHands

\* An order that is final while no handler has it in hand keeps its status, its
\* technician, its completion time and its trail for good, and is never taken up
\* again.
THEOREM FinalStaysAtRest == Spec => FinalOnceAtRest
<1>1. IInv /\ [Next]_vars =>
          [\A o \in Orders :
               status[o] \in Terminal /\ InHands(o) = {} =>
                   /\ UNCHANGED <<status[o], technicianId[o], completedAt[o], history[o]>>
                   /\ InHands(o)' = {}]_vars
  BY RestStep
<1>. QED  BY <1>1, Invariance, PTL DEF Spec, FinalOnceAtRest
=============================================================================
