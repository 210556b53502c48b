-------------------------- MODULE WorkOrderSerial --------------------------
(***************************************************************************)
(* Proofs about WorkOrders when the requests for each order are kept apart *)
(* (SerialSpec): the promises of the state diagram hold, for any number of *)
(* orders and handlers.  They rest on what a handler read being still true *)
(* when it commits, which is exactly what overlap takes away.              *)
(***************************************************************************)
EXTENDS WorkOrderProofs

-----------------------------------------------------------------------------
\* The inductive invariant.

\* What a handler read still holds: the status it validated, and, if its caller
\* is a technician, that the order is in that technician's hands.
Fresh ==
    \A s \in Slots : LET r == request[s] IN
        r.phase \in {"loaded", "checked"} =>
            /\ status[r.order] = r.seen
            /\ Role[r.user] = "TECHNICIAN" => technicianId[r.order] = r.user

SInv == IInv /\ NoOverlap /\ Fresh /\ HistoryChains /\ HeldWhileUnderWay

LEMMA SerialInit == Init => SInv
<1>. SUFFICES ASSUME Init
              PROVE  SInv
  OBVIOUS
<1>1. NoOverlap /\ Fresh
  BY DEF Init, NoOverlap, Fresh, Idle
<1>2. HistoryChains /\ HeldWhileUnderWay
  BY DEF Init, HistoryChains, HeldWhileUnderWay, TrailOf
<1>. QED  BY <1>1, <1>2, InitInv DEF SInv

\* A step that leaves the orders alone: only what handlers hold can change.
LEMMA OrdersKept ==
    ASSUME SInv, UNCHANGED dbVars
    PROVE  HistoryChains' /\ HeldWhileUnderWay'
BY DEF SInv, dbVars, HistoryChains, HeldWhileUnderWay, TrailOf

LEMMA LoadFresh ==
    ASSUME SInv, NEW s \in Slots, NEW u \in Users, NEW o \in Orders,
           NEW to, NEW t, Load(s, u, o, to, t)
    PROVE  Fresh'
<1>1. request' = [request EXCEPT ![s] =
          [phase |-> "loaded", user |-> u, order |-> o, seen |-> status[o],
           to |-> to, assignee |-> t, row |-> 0]]
  BY DEF Load
<1>2. UNCHANGED <<status, technicianId>>
  BY DEF Load, dbVars
<1>3. Role[u] = "TECHNICIAN" => technicianId[o] = u
  BY DEF Load, InScope
<1>. SUFFICES ASSUME NEW q \in Slots, request'[q].phase \in {"loaded", "checked"}
              PROVE  Fresh!(q)'
  BY DEF Fresh
<1>4. CASE q = s
  BY <1>1, <1>2, <1>3, <1>4 DEF SInv, IInv, TypeOK
<1>5. CASE q # s
  BY <1>1, <1>2, <1>5 DEF SInv, IInv, TypeOK, Fresh
<1>. QED  BY <1>4, <1>5

LEMMA QuietFresh ==
    ASSUME SInv, NEW s \in Slots, Quiet(s)
    PROVE  Fresh'
<1>1. UNCHANGED <<status, technicianId>>
  BY DEF Quiet, dbVars
<1>. SUFFICES ASSUME NEW q \in Slots, request'[q].phase \in {"loaded", "checked"}
              PROVE  Fresh!(q)'
  BY DEF Fresh
<1>2. request \in [Slots -> Request]
  BY DEF SInv, IInv, TypeOK
<1>3. CASE q = s
  <2>1. /\ request[s].phase = "loaded"
        /\ request' = [request EXCEPT ![s].phase = "checked"]
    BY <1>2, <1>3 DEF Quiet, Idle, Phases, Request
  <2>. QED  BY <1>1, <1>2, <1>3, <2>1 DEF SInv, Fresh, Request
<1>4. CASE q # s
  BY <1>1, <1>2, <1>4 DEF Quiet, SInv, Fresh
<1>. QED  BY <1>3, <1>4

\* A new order is in nobody's hands yet.
LEMMA CreateSerial ==
    ASSUME SInv, NEW u \in Users, NEW c \in Users, NEW o \in Orders,
           NEW d \in Departments \cup {NoDepartment}, Create(u, o, c, d)
    PROVE  Fresh' /\ HistoryChains' /\ HeldWhileUnderWay'
<1>1. \A s \in Slots : request[s].phase \in {"loaded", "checked"} =>
          request[s].order # o
  BY DEF SInv, IInv, RequestsStandOnTrail, Create
<1>2. Fresh'
  BY <1>1 DEF SInv, IInv, TypeOK, Fresh, Create
<1>3. HistoryChains'
  BY DEF SInv, HistoryChains, TrailOf, Create
<1>4. HeldWhileUnderWay'
  <2>1. technicianId[o] = NoTechnician
    BY DEF SInv, HeldWhileUnderWay, Create
  <2>. QED  BY <2>1 DEF SInv, IInv, TypeOK, HeldWhileUnderWay, Create, InitialStatus
<1>. QED  BY <1>2, <1>3, <1>4

-----------------------------------------------------------------------------
\* Commits.

\* With what the handler read still true, a commit is a move along the diagram
\* from the current status by the current holder.
LEMMA CommitIsMove ==
    ASSUME SInv, NEW s \in Slots, Commit(s), NEW o, o = request[s].order,
           NEW r, r = request[s]
    PROVE  /\ o \in Orders
           /\ r.user \in Users
           /\ r.assignee \in Technicians \cup {NoTechnician}
           /\ r.seen = status[o]
           /\ status[o] \in Statuses
           /\ r.to \in Statuses
           /\ r.to \in Transitions[status[o]]
           /\ Role[r.user] \in MoverRoles(status[o], r.to)
           /\ Role[r.user] = "TECHNICIAN" => r.user = technicianId[o]
           /\ r.to = "ASSIGNED" => r.assignee \in Technicians
           /\ status' = [status EXCEPT ![o] = r.to]
           /\ technicianId' = [technicianId EXCEPT ![o] =
                  AssigneeAfter(status[o], r.to, technicianId[o], r.assignee)]
<1>1. r.phase = "checked"
  BY DEF Commit
<1>2. r.seen = status[o] /\ (Role[r.user] = "TECHNICIAN" => technicianId[o] = r.user)
  BY <1>1 DEF SInv, Fresh
<1>3. /\ o \in Orders
      /\ r.user \in Users
      /\ r.assignee \in Technicians \cup {NoTechnician}
      /\ r.seen \in Statuses
      /\ r.to \in Statuses
  BY <1>1, CheckedFacts DEF SInv, IInv
<1>4. /\ r.to \in Transitions[r.seen]
      /\ Role[r.user] \in MoverRoles(r.seen, r.to)
      /\ r.to = "ASSIGNED" => r.assignee \in Technicians
  BY <1>1 DEF SInv, IInv, RequestsStandOnTrail
<1>. QED  BY <1>2, <1>3, <1>4 DEF Commit

LEMMA CommitFresh ==
    ASSUME SInv, NEW s \in Slots, Commit(s)
    PROVE  Fresh'
<1>. SUFFICES ASSUME NEW q \in Slots, request'[q].phase \in {"loaded", "checked"}
              PROVE  Fresh!(q)'
  BY DEF Fresh
<1>1. q # s /\ request'[q] = request[q]
  BY DEF Commit, SInv, IInv, TypeOK, Request
<1>2. request[q].order # request[s].order
  BY <1>1 DEF Commit, SInv, NoOverlap
<1>3. request[q].order \in Orders
  BY <1>1 DEF SInv, IInv, TypeOK
<1>. QED  BY <1>1, <1>2, <1>3 DEF Commit, SInv, IInv, TypeOK, Fresh

LEMMA CommitChains ==
    ASSUME SInv, NEW s \in Slots, Commit(s)
    PROVE  HistoryChains'
<1>. DEFINE r == request[s]
            o == r.order
            n == Len(history[o])
<1>1. /\ o \in Orders
      /\ n \in Nat
      /\ Len(history'[o]) = n + 1
      /\ \A i \in 1..n : history'[o][i] = history[o][i]
      /\ history'[o][n + 1] = NewRow(s)
      /\ \A p \in Orders : p # o => history'[p] = history[p]
  BY CommitFacts DEF SInv, IInv
<1>2. NewRow(s).from = status[o] /\ status[o] \in Statuses
  BY CommitIsMove DEF NewRow
<1>3. status[o] = IF n = 0 THEN "REQUESTED" ELSE history[o][n].to
  <2>1. history[o] \in Seq(HistoryRow)
    BY <1>1 DEF SInv, IInv, TypeOK
  <2>2. n = 0 <=> history[o] = <<>>
    BY <2>1
  <2>. QED  BY <1>1, <1>2, <2>2, TableFacts DEF SInv, IInv, OrderMatchesTrail
<1>. SUFFICES ASSUME NEW p \in Orders, NEW i \in 1..Len(history'[p])
              PROVE  HistoryChains!(p)!(i)'
  BY DEF HistoryChains, TrailOf
<1>4. CASE p = o /\ i = n + 1
  <2>1. n # 0 => n \in 1..n
    BY <1>1
  <2>2. i - 1 = n /\ (i = 1 <=> n = 0)
    BY <1>1, <1>4
  <2>. QED  BY <1>1, <1>2, <1>3, <1>4, <2>1, <2>2
<1>5. CASE p = o /\ i \in 1..n
  <2>1. history[o][i].from = IF i = 1 THEN "REQUESTED" ELSE history[o][i - 1].to
    BY <1>1, <1>5 DEF SInv, HistoryChains, TrailOf
  <2>2. i # 1 => i - 1 \in 1..n
    BY <1>1, <1>5
  <2>. QED  BY <1>1, <1>5, <2>1, <2>2
<1>6. CASE p # o
  BY <1>1, <1>6 DEF SInv, HistoryChains, TrailOf
<1>. QED  BY <1>1, <1>4, <1>5, <1>6

\* Assigning gives an order a technician, declining takes it away, and the only
\* way back to REQUESTED is from ASSIGNED.
LEMMA CommitHeld ==
    ASSUME SInv, NEW s \in Slots, Commit(s)
    PROVE  HeldWhileUnderWay'
<1>. DEFINE r == request[s]
            o == r.order
<1>1. /\ o \in Orders
      /\ status[o] \in Statuses
      /\ r.to \in Statuses
      /\ r.to \in Transitions[status[o]]
      /\ r.to = "ASSIGNED" => r.assignee \in Technicians
      /\ status' = [status EXCEPT ![o] = r.to]
      /\ technicianId' = [technicianId EXCEPT ![o] =
             AssigneeAfter(status[o], r.to, technicianId[o], r.assignee)]
  BY CommitIsMove
<1>2. \A t \in Technicians : t # NoTechnician
  BY NoTechnicianAssumption DEF Technicians
<1>3. r.to = "REQUESTED" => status[o] = "ASSIGNED"
  BY <1>1 DEF Transitions, Statuses
<1>4. r.to \notin {"ASSIGNED", "REQUESTED", "CANCELLED"} =>
          status[o] \notin {"NONE", "REQUESTED", "CANCELLED"}
  BY <1>1 DEF Transitions, Statuses
<1>5. status[o] \notin {"NONE", "REQUESTED", "CANCELLED"} =>
          technicianId[o] # NoTechnician
  BY <1>1 DEF SInv, HeldWhileUnderWay
<1>. DEFINE a == AssigneeAfter(status[o], r.to, technicianId[o], r.assignee)
<1>6. /\ r.to = "REQUESTED" => a = NoTechnician
      /\ r.to \notin {"REQUESTED", "CANCELLED"} => a # NoTechnician
  <2>1. CASE r.to = "ASSIGNED"
    BY <1>1, <1>2, <2>1 DEF AssigneeAfter
  <2>2. CASE r.to = "REQUESTED"
    BY <1>3, <2>2 DEF AssigneeAfter
  <2>3. CASE r.to \notin {"ASSIGNED", "REQUESTED"}
    BY <1>4, <1>5, <2>3 DEF AssigneeAfter
  <2>. QED  BY <2>1, <2>2, <2>3
<1>. SUFFICES ASSUME NEW p \in Orders
              PROVE  HeldWhileUnderWay!(p)'
  BY DEF HeldWhileUnderWay
<1>7. CASE p = o
  <2>1. status'[o] = r.to /\ technicianId'[o] = a
    BY <1>1 DEF SInv, IInv, TypeOK
  <2>2. r.to # "NONE"
    BY <1>1, TableFacts
  <2>. QED  BY <1>6, <1>7, <2>1, <2>2
<1>8. CASE p # o
  BY <1>1, <1>8 DEF SInv, IInv, TypeOK, HeldWhileUnderWay
<1>. QED  BY <1>7, <1>8

-----------------------------------------------------------------------------

LEMMA SerialStep == SInv /\ [SerialNext]_vars => SInv'
<1>. SUFFICES ASSUME SInv, [SerialNext]_vars
              PROVE  SInv'
  OBVIOUS
<1>1. IInv'
  BY NextInv DEF SInv, SerialNext
<1>2. NoOverlap'
  BY DEF SInv, SerialNext, NoOverlap, vars
<1>3. ASSUME NEW u \in Users, NEW c \in Users, NEW o \in Orders,
             NEW d \in Departments \cup {NoDepartment}, Create(u, o, c, d)
      PROVE  Fresh' /\ HistoryChains' /\ HeldWhileUnderWay'
  BY <1>3, CreateSerial
<1>4. ASSUME NEW s \in Slots, NEW u \in Users, NEW o \in Orders, Receive(s, u, o)
      PROVE  Fresh' /\ HistoryChains' /\ HeldWhileUnderWay'
  <2>1. PICK to, t : Load(s, u, o, to, t)
    BY <1>4, ReceiveIsLoad DEF SInv, IInv
  <2>2. UNCHANGED dbVars
    BY <2>1 DEF Load
  <2>. QED  BY <2>1, <2>2, LoadFresh, OrdersKept
<1>5. ASSUME NEW s \in Slots, Commit(s)
      PROVE  Fresh' /\ HistoryChains' /\ HeldWhileUnderWay'
  BY <1>5, CommitFresh, CommitChains, CommitHeld
<1>6. ASSUME NEW s \in Slots, (Handle(s) /\ ~Commit(s)) \/ Crash(s)
      PROVE  Fresh' /\ HistoryChains' /\ HeldWhileUnderWay'
  <2>1. Quiet(s)
    BY <1>6, QuietSteps DEF SInv, IInv
  <2>2. UNCHANGED dbVars
    BY <2>1 DEF Quiet
  <2>. QED  BY <2>1, <2>2, QuietFresh, OrdersKept
<1>7. ASSUME UNCHANGED vars
      PROVE  Fresh' /\ HistoryChains' /\ HeldWhileUnderWay'
  <2>1. UNCHANGED dbVars
    BY <1>7 DEF vars, dbVars
  <2>2. Fresh'
    BY <1>7 DEF SInv, Fresh, vars
  <2>. QED  BY <2>1, <2>2, OrdersKept
<1>8. Fresh' /\ HistoryChains' /\ HeldWhileUnderWay'
  BY <1>3, <1>4, <1>5, <1>6, <1>7 DEF SerialNext, Next
<1>. QED  BY <1>1, <1>2, <1>8 DEF SInv

THEOREM SerialInvariance == SerialSpec => []SInv
BY SerialInit, SerialStep, PTL DEF SerialSpec

\* With requests for an order kept apart, its trail is a path of the state
\* diagram that starts at REQUESTED.
THEOREM TrailChains == SerialSpec => []HistoryChains
<1>1. SInv => HistoryChains
  BY DEF SInv
<1>. QED  BY <1>1, SerialInvariance, PTL

\* With requests for an order kept apart, an order under way has a technician
\* and one that waits for assignment has none.
THEOREM AlwaysHeld == SerialSpec => []HeldWhileUnderWay
<1>1. SInv => HeldWhileUnderWay
  BY DEF SInv
<1>. QED  BY <1>1, SerialInvariance, PTL

\* With requests for an order kept apart, an escalated, completed or cancelled
\* order stays so.
THEOREM TerminalStays == SerialSpec => TerminalIsFinal
<1>. DEFINE Final == \A o \in Orders : status[o] \in Terminal => status'[o] = status[o]
<1>1. SInv /\ [SerialNext]_vars => [Final]_vars
  <2>. SUFFICES ASSUME SInv, [Next]_vars
                PROVE  Final
    BY DEF SerialNext
  <2>1. ASSUME NEW u \in Users, NEW c \in Users, NEW o \in Orders,
               NEW d \in Departments \cup {NoDepartment}, Create(u, o, c, d)
        PROVE  Final
    BY <2>1 DEF Create, Terminal, SInv, IInv, TypeOK
  <2>2. ASSUME NEW s \in Slots, Commit(s)
        PROVE  Final
    <3>1. \A f \in Statuses : f \in Terminal => Transitions[f] = {}
      BY DEF Terminal, Transitions, Statuses
    <3>2. /\ status[request[s].order] \in Statuses
          /\ Transitions[status[request[s].order]] # {}
          /\ status' = [status EXCEPT ![request[s].order] = request[s].to]
      BY <2>2, CommitIsMove
    <3>. QED  BY <3>1, <3>2 DEF SInv, IInv, TypeOK
  <2>3. CASE UNCHANGED dbVars
    BY <2>3 DEF dbVars
  <2>. QED  BY <2>1, <2>2, <2>3, StepKinds DEF SInv, IInv
<1>. QED  BY <1>1, SerialInvariance, PTL DEF SerialSpec, TerminalIsFinal

-----------------------------------------------------------------------------
\* The strict lifecycle.

\* The tables of the lifecycle are those of the service.
LEMMA StrictTables ==
    /\ Strict!Statuses = Statuses
    /\ Strict!Technicians = Technicians
    /\ Strict!Transitions = Transitions
    /\ \A from, to : Strict!MoverRoles(from, to) = MoverRoles(from, to)
    /\ \A from, to, held, given :
           Strict!AssigneeAfter(from, to, held, given)
             = AssigneeAfter(from, to, held, given)
    /\ \A to, held : Strict!CompletedAfter(to, held) = CompletedAfter(to, held)
<1>1. Strict!Statuses = Statuses
  BY DEF Strict!Statuses, Statuses
<1>2. Strict!Technicians = Technicians
  BY DEF Strict!Technicians, Technicians
<1>3. Strict!Transitions = Transitions
  BY <1>1 DEF Strict!Transitions, Transitions
<1>4. Strict!CancelRoles = CancelRoles
  BY <1>1 DEF Strict!CancelRoles, CancelRoles
<1>5. \A from, to : Strict!MoverRoles(from, to) = MoverRoles(from, to)
  BY <1>4 DEF Strict!MoverRoles, MoverRoles
<1>6. \A from, to, held, given :
          Strict!AssigneeAfter(from, to, held, given)
            = AssigneeAfter(from, to, held, given)
  BY DEF Strict!AssigneeAfter, AssigneeAfter
<1>7. \A to, held : Strict!CompletedAfter(to, held) = CompletedAfter(to, held)
  BY DEF Strict!CompletedAfter, CompletedAfter
<1>. QED  BY <1>1, <1>2, <1>3, <1>5, <1>6, <1>7

LEMMA StrictOpen ==
    ASSUME NEW u \in Users, NEW c \in Users, NEW o \in Orders,
           NEW d \in Departments \cup {NoDepartment}, Create(u, o, c, d)
    PROVE  Strict!Next
<1>1. Strict!Open(o)
  BY DEF Create, Strict!Open, InitialStatus, Strict!InitialStatus
<1>. QED  BY <1>1 DEF Strict!Next

LEMMA StrictMove ==
    ASSUME SInv, NEW s \in Slots, Commit(s)
    PROVE  Strict!Next
<1>. DEFINE r == request[s]
            o == r.order
<1>1. /\ o \in Orders
      /\ r.user \in Users
      /\ r.assignee \in Technicians \cup {NoTechnician}
      /\ r.seen = status[o]
      /\ status[o] \in Statuses
      /\ r.to \in Transitions[status[o]]
      /\ Role[r.user] \in MoverRoles(status[o], r.to)
      /\ Role[r.user] = "TECHNICIAN" => r.user = technicianId[o]
      /\ r.to = "ASSIGNED" => r.assignee \in Technicians
  BY CommitIsMove
<1>2. status[o] # "NONE"
  BY <1>1, TableFacts
<1>3. Strict!Move(o, r.user, status[o], r.to, r.assignee)
  BY <1>1, <1>2, StrictTables DEF Strict!Move, Commit
<1>4. status[o] \in Strict!Sources(o)
  BY <1>1, StrictTables DEF Strict!Sources
<1>. QED  BY <1>1, <1>3, <1>4, StrictTables DEF Strict!Next

\* With requests for an order kept apart, the service implements the state
\* diagram: each transition starts from the current status and is made, if by a
\* technician, by the one who holds the order.
THEOREM ImplementsStrictLifecycle == SerialSpec => StrictLifecycle
<1>1. Init => Strict!Init
  BY DEF Init, Strict!Init
<1>2. SInv /\ [SerialNext]_vars => [Strict!Next]_(Strict!lifecycleVars)
  <2>1. SInv /\ [SerialNext]_vars => TypeOK /\ [Next]_vars
    BY DEF SInv, IInv, SerialNext
  <2>. QED  BY <2>1, StepKinds, StrictOpen, StrictMove DEF dbVars, Strict!lifecycleVars
<1>. QED
  BY <1>1, <1>2, SerialInvariance, PTL DEF SerialSpec, StrictLifecycle, Strict!Spec
=============================================================================
