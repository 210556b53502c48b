-------------------------- MODULE OrderNewsProofs --------------------------
(***************************************************************************)
(* Proofs about OrderNews: however requests overlap and jobs are repeated, *)
(* the news of a transition goes to somebody of its order, and to          *)
(* everybody it concerns unless something broke; together the two parts    *)
(* behave as each does alone, so what is proved of them holds here; and    *)
(* each transition is reported once.                                       *)
(***************************************************************************)
EXTENDS OrderNews, SequenceTheorems, TLAPS

-----------------------------------------------------------------------------
\* What the news needs of the work orders.

Row == [from : Wor!Statuses \cup {"NONE"}, to : Wor!Statuses, by : Users \cup {NoUser},
        assignee : Wor!Technicians \cup {NoTechnician}]

ServiceTypes ==
    /\ status \in [Orders -> Wor!Statuses \cup {"NONE"}]
    /\ technicianId \in [Orders -> Wor!Technicians \cup {NoTechnician}]
    /\ parties \in [Orders -> Wor!Parties]
    /\ history \in [Orders -> Seq(Row)]
    /\ request \in [Slots -> Wor!Request]
    /\ \A s \in Slots : request[s].phase # "idle" =>
           request[s].order \in Orders /\ request[s].to \in Wor!Statuses
    /\ crashes \in Nat

\* Row i of a trail, or an earlier one, gave the order to t.
Given(trail, i, t) == \E j \in 1..i : trail[j].to = "ASSIGNED" /\ trail[j].assignee = t

\* An order without a row in the database has no trail.
TrailsOfOrders == \A o \in Orders : status[o] = "NONE" => history[o] = <<>>

\* Whoever holds an order, or held it after some transition, was given it.
HoldersWereGiven ==
    \A o \in Orders :
        /\ technicianId[o] # NoTechnician => Given(history[o], Len(history[o]), technicianId[o])
        /\ \A i \in 1..Len(history[o]) :
               history[o][i].assignee # NoTechnician => Given(history[o], i, history[o][i].assignee)

\* A handler about to emit knows its audit row.
CommittedHaveRows ==
    \A s \in Slots : request[s].phase = "committed" =>
        request[s].row \in 1..Len(history[request[s].order])

ServiceInv == ServiceTypes /\ TrailsOfOrders /\ HoldersWereGiven /\ CommittedHaveRows

\* Trails only grow, and the parties of an order with a trail stay.
TrailsGrow ==
    \A o \in Orders :
        /\ Len(history[o]) <= Len(history'[o])
        /\ \A i \in 1..Len(history[o]) : history'[o][i] = history[o][i]
        /\ Len(history[o]) > 0 => parties'[o] = parties[o]

\* Nothing is ordered yet.
LEMMA ServiceInit == Wor!Init => ServiceInv
<1> SUFFICES ASSUME Wor!Init PROVE ServiceInv
  OBVIOUS
<1>1. Wor!Idle \in Wor!Request
  BY DEF Wor!Idle, Wor!Request, Wor!Phases
<1>2. \A o \in Orders : history[o] = <<>> /\ Len(history[o]) = 0
  BY DEF Wor!Init
<1>3. ServiceTypes
  BY <1>1 DEF Wor!Init, ServiceTypes, Wor!Idle, Wor!Parties
<1>4. HoldersWereGiven
  BY <1>2 DEF Wor!Init, HoldersWereGiven
<1> QED
  BY <1>2, <1>3, <1>4 DEF Wor!Init, ServiceInv, TrailsOfOrders, CommittedHaveRows, Wor!Idle

\* Every endpoint loads some transition.
LEMMA ReceiveLoads ==
    ASSUME NEW s \in Slots, NEW u \in Users, NEW o \in Orders, Wor!Receive(s, u, o)
    PROVE  \E to \in Wor!Statuses, t \in Wor!Technicians \cup {NoTechnician} :
               Wor!Load(s, u, o, to, t)
<1>1. ASSUME NEW t \in Wor!Technicians, Wor!Assign(s, u, o, t)
      PROVE  "ASSIGNED" \in Wor!Statuses /\ Wor!Load(s, u, o, "ASSIGNED", t)
  BY <1>1 DEF Wor!Assign, Wor!Statuses
<1>2. ASSUME NEW role, NEW to \in Wor!Statuses, Wor!LoadAs(role, s, u, o, to)
      PROVE  Wor!Load(s, u, o, to, NoTechnician)
  BY <1>2 DEF Wor!LoadAs
<1>3. ASSUME Wor!Cancel(s, u, o)
      PROVE  "CANCELLED" \in Wor!Statuses /\ Wor!Load(s, u, o, "CANCELLED", NoTechnician)
  BY <1>3 DEF Wor!Cancel, Wor!Statuses
<1>4. {"REQUESTED", "ACCEPTED", "EN_ROUTE", "IN_PROGRESS", "ISSUE", "COMPLETED",
       "RESCHEDULED", "ESCALATED"} \subseteq Wor!Statuses
  BY DEF Wor!Statuses
<1> QED
  BY <1>1, <1>2, <1>3, <1>4
  DEF Wor!Receive, Wor!Accept, Wor!Decline, Wor!Reschedule, Wor!StartTravel, Wor!StartWork,
      Wor!ReportIssue, Wor!ResolveIssue, Wor!Escalate, Wor!Complete

\* A step that leaves the orders alone, and moves a handler without committing.
Quietly(s) ==
    /\ UNCHANGED <<status, technicianId, parties, history>>
    /\ crashes' \in {crashes, crashes + 1}
    /\ \E r \in Wor!Request :
         /\ request' = [request EXCEPT ![s] = r]
         /\ r.phase # "committed"
         /\ r.phase # "idle" => r.order \in Orders /\ r.to \in Wor!Statuses

\* Such a step keeps the invariant and leaves the trails alone.
LEMMA QuietlyKeeps ==
    ASSUME ServiceInv, NEW s \in Slots, Quietly(s)
    PROVE  ServiceInv' /\ TrailsGrow
<1> USE DEF ServiceInv, ServiceTypes
<1>1. PICK r \in Wor!Request :
         /\ request' = [request EXCEPT ![s] = r]
         /\ r.phase # "committed"
         /\ r.phase # "idle" => r.order \in Orders /\ r.to \in Wor!Statuses
  BY DEF Quietly
<1>2. UNCHANGED <<status, technicianId, parties, history>> /\ crashes' \in Nat
  BY DEF Quietly
<1>3. ServiceTypes'
  BY <1>1, <1>2
<1>4. TrailsOfOrders' /\ HoldersWereGiven'
  BY <1>2 DEF TrailsOfOrders, HoldersWereGiven
<1>5. CommittedHaveRows'
  BY <1>1, <1>2 DEF CommittedHaveRows
<1>6. TrailsGrow
  <2>1. \A o \in Orders : Len(history[o]) \in Nat
    OBVIOUS
  <2> QED
    BY <1>2, <2>1 DEF TrailsGrow
<1> QED
  BY <1>3, <1>4, <1>5, <1>6

\* All the steps of a handler but the commit move it quietly.
LEMMA MostStepsAreQuiet ==
    ASSUME ServiceInv, NEW s \in Slots,
           \/ \E u \in Users, o \in Orders : Wor!Receive(s, u, o)
           \/ Wor!Recheck(s) \/ Wor!RecheckConflict(s) \/ Wor!InsertRejected(s)
           \/ Wor!RolledBack(s) \/ Wor!Publish(s) \/ Wor!AnswerError(s) \/ Wor!Crash(s)
           \/ Wor!EmitEvent(s)
    PROVE  Quietly(s)
<1> USE DEF ServiceInv, ServiceTypes, Quietly, Wor!dbVars
<1>1. Wor!Idle \in Wor!Request /\ Wor!Idle.phase = "idle"
  BY DEF Wor!Idle, Wor!Request, Wor!Phases
<1>2. request[s] \in Wor!Request
  OBVIOUS
<1>3. ASSUME NEW u \in Users, NEW o \in Orders, Wor!Receive(s, u, o)
      PROVE  Quietly(s)
  <2>1. PICK to \in Wor!Statuses, t \in Wor!Technicians \cup {NoTechnician} :
           Wor!Load(s, u, o, to, t)
    BY <1>3, ReceiveLoads
  <2> DEFINE r == [phase |-> "loaded", user |-> u, order |-> o, seen |-> status[o],
                   to |-> to, assignee |-> t, row |-> 0]
  <2>2. r \in Wor!Request
    BY DEF Wor!Request, Wor!Phases
  <2> QED
    BY <2>1, <2>2 DEF Wor!Load
<1>4. CASE Wor!Recheck(s)
  <2>1. [request[s] EXCEPT !.phase = "checked", !.seen = status[request[s].order]] \in Wor!Request
    BY <1>2, <1>4 DEF Wor!Recheck, Wor!Request, Wor!Phases
  <2> QED
    BY <1>2, <1>4, <2>1 DEF Wor!Recheck, Wor!Request
<1>5. CASE Wor!RecheckConflict(s) \/ Wor!InsertRejected(s) \/ Wor!EmitEvent(s)
  <2>1. \A ph \in Wor!Phases : /\ [request[s] EXCEPT !.phase = ph] \in Wor!Request
                               /\ [request[s] EXCEPT !.phase = ph].phase = ph
                               /\ [request[s] EXCEPT !.phase = ph].order = request[s].order
                               /\ [request[s] EXCEPT !.phase = ph].to = request[s].to
    BY <1>2 DEF Wor!Request
  <2>2. {"conflict", "rejected", "emitted"} \subseteq Wor!Phases
    BY DEF Wor!Phases
  <2>3. request[s].phase # "idle" /\ UNCHANGED <<status, technicianId, parties, history, crashes>>
    BY <1>5 DEF Wor!RecheckConflict, Wor!InsertRejected, Wor!EmitEvent
  <2>4. PICK ph \in {"conflict", "rejected", "emitted"} : request' = [request EXCEPT ![s].phase = ph]
    BY <1>5 DEF Wor!RecheckConflict, Wor!InsertRejected, Wor!EmitEvent, Wor!Enter
  <2>5. request' = [request EXCEPT ![s] = [request[s] EXCEPT !.phase = ph]]
    BY <2>4
  <2>6. request[s].order \in Orders /\ request[s].to \in Wor!Statuses
    BY <2>3
  <2> QED
    BY <2>1, <2>2, <2>3, <2>5, <2>6
<1>6. CASE Wor!RolledBack(s) \/ Wor!Publish(s) \/ Wor!AnswerError(s) \/ Wor!Crash(s)
  BY <1>1, <1>6 DEF Wor!RolledBack, Wor!Publish, Wor!AnswerError, Wor!Crash
<1> QED
  BY <1>3, <1>4, <1>5, <1>6

\* A new order has no trail yet.
LEMMA CreateKeeps ==
    ASSUME ServiceInv, NEW u \in Users, NEW c \in Users, NEW o \in Orders,
           Wor!Create(u, o, c, NoDepartment)
    PROVE  ServiceInv' /\ TrailsGrow
<1> USE DEF ServiceInv, ServiceTypes
<1>1. Wor!NewParties(u, c, NoDepartment) \in Wor!Parties
  BY DEF Wor!NewParties, Wor!Parties
<1>2. Wor!InitialStatus \in Wor!Statuses /\ Wor!InitialStatus # "NONE"
  BY DEF Wor!InitialStatus, Wor!Statuses
<1>3. UNCHANGED <<technicianId, history, request, crashes>> /\ status[o] = "NONE"
  BY DEF Wor!Create
<1>4. ServiceTypes'
  BY <1>1, <1>2 DEF Wor!Create
<1>5. history[o] = <<>> /\ Len(history[o]) = 0
  BY <1>3 DEF TrailsOfOrders
<1>6. TrailsOfOrders'
  <2>1. status' = [status EXCEPT ![o] = Wor!InitialStatus] /\ history' = history
    BY DEF Wor!Create
  <2>2. \A p \in Orders : status'[p] = "NONE" => status[p] = "NONE"
    BY <1>2, <2>1
  <2> QED
    BY <2>1, <2>2 DEF TrailsOfOrders
<1>7. HoldersWereGiven' /\ CommittedHaveRows'
  <2>1. HoldersWereGiven /\ CommittedHaveRows
    OBVIOUS
  <2> QED
    BY <1>3, <2>1 DEF HoldersWereGiven, CommittedHaveRows
<1>8. TrailsGrow
  <2>1. \A p \in Orders : Len(history[p]) \in Nat /\ (p # o => parties'[p] = parties[p])
    BY DEF Wor!Create
  <2> QED
    BY <1>3, <1>5, <2>1 DEF TrailsGrow
<1> QED
  BY <1>4, <1>6, <1>7, <1>8

\* The row a commit appends, and the trail it leaves.
NewRow(s) ==
    LET r == request[s] IN
    [from |-> r.seen, to |-> r.to, by |-> r.user,
     assignee |-> Wor!AssigneeAfter(r.seen, r.to, technicianId[r.order], r.assignee)]

\* What a commit makes of its order's trail.
LEMMA CommitFacts ==
    ASSUME ServiceInv, NEW s \in Slots, Wor!Commit(s), NEW o, o = request[s].order
    PROVE  /\ o \in Orders
           /\ NewRow(s) \in Row
           /\ Len(history[o]) \in Nat
           /\ history' = [history EXCEPT ![o] = Append(history[o], NewRow(s))]
           /\ history'[o] \in Seq(Row)
           /\ Len(history'[o]) = Len(history[o]) + 1
           /\ \A i \in 1..Len(history[o]) : history'[o][i] = history[o][i]
           /\ history'[o][Len(history[o]) + 1] = NewRow(s)
           /\ \A p \in Orders : p # o => history'[p] = history[p]
<1> USE DEF ServiceInv, ServiceTypes
<1>1. request[s].phase = "checked" /\ request[s] \in Wor!Request
  BY DEF Wor!Commit
<1>2. o \in Orders /\ request[s].to \in Wor!Statuses
  BY <1>1
<1>3. NewRow(s) \in Row
  <2>1. technicianId[o] \in Wor!Technicians \cup {NoTechnician}
        /\ request[s].assignee \in Wor!Technicians \cup {NoTechnician}
        /\ request[s].seen \in Wor!Statuses \cup {"NONE"} /\ request[s].user \in Users \cup {NoUser}
    BY <1>1, <1>2 DEF Wor!Request
  <2>2. Wor!AssigneeAfter(request[s].seen, request[s].to, technicianId[o], request[s].assignee)
          \in Wor!Technicians \cup {NoTechnician}
    BY <2>1 DEF Wor!AssigneeAfter
  <2> QED
    BY <1>2, <2>1, <2>2 DEF NewRow, Row
<1>4. history[o] \in Seq(Row) /\ Len(history[o]) \in Nat
  BY <1>2
<1>5. history' = [history EXCEPT ![o] = Append(history[o], NewRow(s))]
  BY DEF Wor!Commit, NewRow
<1>6. history'[o] = Append(history[o], NewRow(s))
  BY <1>2, <1>5
<1>7. \A p \in Orders : p # o => history'[p] = history[p]
  BY <1>2, <1>5
<1> QED
  BY <1>2, <1>3, <1>4, <1>5, <1>6, <1>7, AppendProperties

\* A row that leaves the order where it was, or says who it is given to, keeps
\* the holders accounted for.
LEMMA AppendGiven ==
    ASSUME NEW trail \in Seq(Row), NEW e \in Row, NEW held, NEW longer \in Seq(Row),
           Len(longer) = Len(trail) + 1, longer[Len(trail) + 1] = e,
           \A i \in 1..Len(trail) : longer[i] = trail[i],
           \A i \in 1..Len(trail) :
               trail[i].assignee # NoTechnician => Given(trail, i, trail[i].assignee),
           held # NoTechnician => Given(trail, Len(trail), held),
           e.to = "ASSIGNED" \/ e.assignee \in {NoTechnician, held}
    PROVE  \A i \in 1..Len(longer) :
               longer[i].assignee # NoTechnician => Given(longer, i, longer[i].assignee)
<1>1. Len(trail) \in Nat
  OBVIOUS
<1>2. \A i \in 1..Len(trail) : \A t : Given(trail, i, t) => Given(longer, i, t)
  <2> SUFFICES ASSUME NEW i \in 1..Len(trail), NEW t, Given(trail, i, t) PROVE Given(longer, i, t)
    OBVIOUS
  <2>1. PICK j \in 1..i : trail[j].to = "ASSIGNED" /\ trail[j].assignee = t
    BY DEF Given
  <2>2. j \in 1..Len(trail)
    BY <1>1
  <2> QED
    BY <2>1, <2>2 DEF Given
<1>3. e.assignee # NoTechnician => Given(longer, Len(trail) + 1, e.assignee)
  <2>1. CASE e.to = "ASSIGNED"
    BY <1>1, <2>1 DEF Given
  <2>2. CASE e.assignee = held /\ held # NoTechnician
    <3>1. PICK j \in 1..Len(trail) : trail[j].to = "ASSIGNED" /\ trail[j].assignee = held
      BY <2>2 DEF Given
    <3>2. j \in 1..(Len(trail) + 1) /\ longer[j] = trail[j]
      BY <1>1, <3>1
    <3> QED
      BY <2>2, <3>1, <3>2 DEF Given
  <2> QED
    BY <2>1, <2>2
<1> SUFFICES ASSUME NEW i \in 1..Len(longer), longer[i].assignee # NoTechnician
             PROVE  Given(longer, i, longer[i].assignee)
  OBVIOUS
<1>4. CASE i = Len(trail) + 1
  BY <1>3, <1>4
<1>5. CASE i # Len(trail) + 1
  <2>1. i \in 1..Len(trail)
    BY <1>1, <1>5
  <2> QED
    BY <1>2, <2>1
<1> QED
  BY <1>4, <1>5

\* A commit keeps the invariant; its row says who holds the order from then on.
LEMMA CommitKeeps ==
    ASSUME ServiceInv, NEW s \in Slots, Wor!Commit(s)
    PROVE  ServiceInv' /\ TrailsGrow
<1> USE DEF ServiceInv, ServiceTypes
<1>0. PICK o \in Orders, last \in Nat, e \in Row :
        /\ o = request[s].order /\ last = Len(history[o]) + 1 /\ e = NewRow(s)
  <2>1. request[s].order \in Orders
    BY DEF Wor!Commit
  <2> QED
    BY <2>1, CommitFacts
<1>1. /\ request[s] \in Wor!Request /\ request[s].to \in Wor!Statuses
      /\ request[s].phase = "checked" /\ "NONE" \notin Wor!Statuses
  BY DEF Wor!Commit, Wor!Statuses
<1>2. /\ Len(history[o]) \in Nat
      /\ history' = [history EXCEPT ![o] = Append(history[o], e)]
      /\ history'[o] \in Seq(Row) /\ Len(history'[o]) = last
      /\ \A i \in 1..Len(history[o]) : history'[o][i] = history[o][i]
      /\ history'[o][last] = e
      /\ \A p \in Orders : p # o => history'[p] = history[p]
  BY <1>0, CommitFacts
<1>3. /\ e.assignee \in Wor!Technicians \cup {NoTechnician}
      /\ e.to = "ASSIGNED" \/ e.assignee \in {NoTechnician, technicianId[o]}
  BY <1>0 DEF Row, NewRow, Wor!AssigneeAfter
<1>4. /\ status' = [status EXCEPT ![o] = request[s].to]
      /\ technicianId' = [technicianId EXCEPT ![o] = e.assignee]
      /\ request' = [request EXCEPT ![s] = [request[s] EXCEPT !.phase = "committed", !.row = last]]
      /\ UNCHANGED <<parties, crashes>>
  <2>1. e.assignee = Wor!AssigneeAfter(request[s].seen, request[s].to, technicianId[o],
                                       request[s].assignee)
    BY <1>0 DEF NewRow
  <2>2. /\ status' = [status EXCEPT ![o] = request[s].to]
        /\ technicianId' = [technicianId EXCEPT ![o] = e.assignee]
        /\ UNCHANGED <<parties, crashes>>
    BY <1>0, <2>1 DEF Wor!Commit
  <2>3. request' = [request EXCEPT ![s].phase = "committed", ![s].row = last]
    BY <1>0 DEF Wor!Commit
  <2> QED
    BY <2>2, <2>3
<1>5. ServiceTypes'
  <2>1. [request[s] EXCEPT !.phase = "committed", !.row = last] \in Wor!Request
    BY <1>1, <1>2 DEF Wor!Request, Wor!Phases
  <2>2. history' \in [Orders -> Seq(Row)]
    BY <1>1, <1>2
  <2>3. \A q \in Slots : request'[q].phase # "idle" =>
            request'[q].order \in Orders /\ request'[q].to \in Wor!Statuses
    BY <1>1, <1>4 DEF Wor!Request
  <2> QED
    BY <1>1, <1>3, <1>4, <2>1, <2>2, <2>3
<1>6. TrailsGrow
  <2>1. \A p \in Orders : Len(history[p]) \in Nat
    OBVIOUS
  <2> QED
    BY <1>0, <1>1, <1>2, <1>4, <2>1 DEF TrailsGrow
<1>7. TrailsOfOrders'
  BY <1>1, <1>2, <1>4 DEF TrailsOfOrders
<1>8. CommittedHaveRows'
  <2> SUFFICES ASSUME NEW q \in Slots, request'[q].phase = "committed"
               PROVE  request'[q].row \in 1..Len(history'[request'[q].order])
    BY DEF CommittedHaveRows
  <2>1. CASE q = s
    <3>1. request'[s].row = last /\ request'[s].order = o
      BY <1>0, <1>1, <1>4 DEF Wor!Request
    <3> QED
      BY <1>0, <1>2, <2>1, <3>1
  <2>2. CASE q # s
    <3>1. request'[q] = request[q] /\ request[q].order \in Orders
          /\ request[q].row \in 1..Len(history[request[q].order])
      BY <1>4, <2>2 DEF CommittedHaveRows
    <3>2. Len(history[request[q].order]) <= Len(history'[request[q].order])
          /\ Len(history[request[q].order]) \in Nat /\ Len(history'[request[q].order]) \in Nat
      BY <1>5, <1>6, <3>1 DEF TrailsGrow
    <3> QED
      BY <3>1, <3>2
  <2> QED
    BY <2>1, <2>2
<1>9. HoldersWereGiven'
  <2>1. \A i \in 1..Len(history'[o]) : history'[o][i].assignee # NoTechnician =>
            Given(history'[o], i, history'[o][i].assignee)
    <3>1. /\ technicianId[o] # NoTechnician => Given(history[o], Len(history[o]), technicianId[o])
          /\ \A i \in 1..Len(history[o]) : history[o][i].assignee # NoTechnician =>
                 Given(history[o], i, history[o][i].assignee)
      BY DEF HoldersWereGiven
    <3>2. history[o] \in Seq(Row)
      OBVIOUS
    <3>3. PICK trail \in Seq(Row), longer \in Seq(Row), held \in {technicianId[o]} :
             trail = history[o] /\ longer = history'[o]
      BY <1>2, <3>2
    <3>4. /\ Len(longer) = Len(trail) + 1 /\ longer[Len(trail) + 1] = e
          /\ \A i \in 1..Len(trail) : longer[i] = trail[i]
      BY <1>0, <1>2, <3>3
    <3>5. /\ \A i \in 1..Len(trail) :
                 trail[i].assignee # NoTechnician => Given(trail, i, trail[i].assignee)
          /\ held # NoTechnician => Given(trail, Len(trail), held)
          /\ e.to = "ASSIGNED" \/ e.assignee \in {NoTechnician, held}
      BY <1>3, <3>1, <3>3
    <3>6. \A i \in 1..Len(longer) :
             longer[i].assignee # NoTechnician => Given(longer, i, longer[i].assignee)
      BY <3>4, <3>5, AppendGiven
    <3> QED
      BY <3>3, <3>6
  <2>2. last \in 1..Len(history'[o]) /\ technicianId'[o] = history'[o][last].assignee
    BY <1>0, <1>2, <1>4
  <2>3. \A p \in Orders : p # o => technicianId'[p] = technicianId[p] /\ history'[p] = history[p]
    BY <1>2, <1>4
  <2> QED
    BY <1>2, <2>1, <2>2, <2>3 DEF HoldersWereGiven
<1> QED
  BY <1>5, <1>6, <1>7, <1>8, <1>9

-----------------------------------------------------------------------------
\* What is needed of the notifications.

Outcomes == {"SENT", "FAILED"}

BusyWithNews == \A w \in Workers : worker[w].phase # "idle" => worker[w].notice \in News

QueueTypes == Ntf!TypeOK /\ BusyWithNews

\* News has a job once it was queued and from then on, a worker on news has one
\* too, and nobody is told without.
JobsFollow ==
    /\ \A n \in News : notice[n].stage \in {"unseen", "received", "stored"} => job[n].state = "none"
    /\ \A w \in Workers : worker[w].phase # "idle" => job[worker[w].notice].state # "none"
    /\ \A n \in News : deliveries[n] > 0 => job[n].state # "none"

\* A job ends with an outcome, unless something broke.
JobsEndInOutcome ==
    /\ \A w \in Workers : worker[w].phase = "recorded" => row[worker[w].notice] \in Outcomes
    /\ \A n \in News : job[n].state = "completed" => row[n] \in Outcomes
    /\ faults = 0 => \A n \in News : /\ job[n].state # "failed"
                                     /\ job[n].state = "active" => job[n].owner # NoWorker

QueueInv == QueueTypes /\ JobsFollow /\ JobsEndInOutcome

\* News that is neither seen for the first time nor taken back: a job comes from
\* what was stored, and what is closed has a job unless something broke.
NewsMovesOn ==
    \A n \in News :
        /\ notice'[n].stage = "unseen" <=> notice[n].stage = "unseen"
        /\ notice'[n].stage \in {"received", "stored"} => notice[n].stage \in {"received", "stored"}
        /\ job[n].state # "none" => job'[n].state # "none"
        /\ job'[n].state # "none" => job[n].state # "none" \/ notice[n].stage = "stored"
        /\ notice'[n].stage = "closed" =>
               notice[n].stage = "closed" \/ job'[n].state # "none" \/ faults' > 0

\* No news yet.
LEMMA QueueInit == Ntf!Init => QueueInv
<1> SUFFICES ASSUME Ntf!Init PROVE QueueInv
  OBVIOUS
<1>1. QueueTypes
  BY DEF Ntf!Init, QueueTypes, Ntf!TypeOK, BusyWithNews, Ntf!Channels, Ntf!Notice, Ntf!Job,
         Ntf!Worker
<1>2. JobsFollow /\ JobsEndInOutcome
  BY DEF Ntf!Init, JobsFollow, JobsEndInOutcome
<1> QED
  BY <1>1, <1>2 DEF QueueInv

\* A step that moves the notice of n and perhaps queues it.
LEMMA SubscriberKeeps ==
    ASSUME QueueInv, NEW n \in News, Ntf!Subscriber(n) \/ Ntf!NoticeLost(n)
    PROVE  QueueInv' /\ NewsMovesOn /\ faults' >= faults
<1> USE DEF QueueInv, QueueTypes, Ntf!TypeOK, BusyWithNews
<1>1. PICK stage \in {"stored", "closed"} : notice' = [notice EXCEPT ![n].stage = stage]
  BY DEF Ntf!Subscriber, Ntf!Store, Ntf!Enqueue, Ntf!NoticeLost
<1>2. PICK state \in {"none", "waiting"} : job' = [job EXCEPT ![n].state = state]
        /\ (state = "none" => UNCHANGED job)
        /\ (notice[n].stage = "stored" \/ state = "none")
        /\ (stage = "closed" => state = "waiting" \/ faults' > 0)
        /\ (stage = "stored" => state = "none")
  <2>1. notice[n].stage \in {"received", "stored"} /\ job[n].state = "none"
    BY DEF Ntf!Subscriber, Ntf!Store, Ntf!Enqueue, Ntf!NoticeLost, JobsFollow
  <2>2. job = [job EXCEPT ![n].state = "none"]
    BY <2>1 DEF Ntf!Job
  <2> QED
    BY <1>1, <2>1, <2>2
    DEF Ntf!Subscriber, Ntf!Store, Ntf!Enqueue, Ntf!NoticeLost, Ntf!Fault, Ntf!Notice
<1>3. /\ faults' \in Nat /\ faults' >= faults /\ UNCHANGED <<worker, deliveries>>
      /\ \/ UNCHANGED row
         \/ row' = [row EXCEPT ![n] = "PENDING"]
      /\ notice[n].stage \in {"received", "stored"} /\ job[n].state = "none"
  BY DEF Ntf!Subscriber, Ntf!Store, Ntf!Enqueue, Ntf!NoticeLost, Ntf!Fault, JobsFollow
<1>4. QueueTypes'
  <2>1. [notice[n] EXCEPT !.stage = stage] \in Ntf!Notice
    BY DEF Ntf!Notice
  <2>2. [job[n] EXCEPT !.state = state] \in Ntf!Job
    BY DEF Ntf!Job
  <2>3. notice' \in [News -> Ntf!Notice] /\ job' \in [News -> Ntf!Job]
    BY <1>1, <1>2, <2>1, <2>2
  <2> QED
    BY <1>3, <2>3
<1>5. /\ \A m \in News : m # n => notice'[m] = notice[m] /\ job'[m] = job[m] /\ row'[m] = row[m]
      /\ notice'[n].stage = stage /\ job'[n].state = state /\ job'[n].owner = job[n].owner
  BY <1>1, <1>2, <1>3 DEF Ntf!Notice, Ntf!Job
<1>6. \A w \in Workers : worker[w].phase # "idle" => worker[w].notice \in News /\ worker[w].notice # n
  BY <1>3 DEF JobsFollow
<1>7. JobsFollow'
  BY <1>2, <1>3, <1>5, <1>6 DEF JobsFollow
<1>8. JobsEndInOutcome'
  BY <1>2, <1>3, <1>5, <1>6 DEF JobsEndInOutcome
<1>9. NewsMovesOn
  BY <1>2, <1>3, <1>5 DEF NewsMovesOn
<1> QED
  BY <1>3, <1>4, <1>7, <1>8, <1>9

\* News that starts: nothing of it is under way.
LEMMA StatusKeeps ==
    ASSUME QueueInv, NEW n, NEW to, NEW held, NEW has, Ntf!StatusChanged(n, to, held, has)
    PROVE  /\ QueueInv'
           /\ UNCHANGED <<row, job, worker, deliveries, faults>>
           /\ \A m \in News : m # n => notice'[m] = notice[m]
           /\ n \in News => /\ notice[n].stage = "unseen"
                            /\ notice'[n].stage = IF Ntf!Wanted(to, held, has) THEN "received"
                                                  ELSE "closed"
<1> USE DEF QueueInv, QueueTypes, Ntf!TypeOK, BusyWithNews
<1> DEFINE stage == IF Ntf!Wanted(to, held, has) THEN "received" ELSE "closed"
           entry == [stage |-> stage, channel |-> Ntf!ChannelFor(to, has),
                     reachable |-> Ntf!Resolves(to, Ntf!ChannelFor(to, has), has)]
<1>1. notice' = [notice EXCEPT ![n] = entry] /\ UNCHANGED <<row, job, worker, deliveries, faults>>
      /\ notice[n].stage = "unseen"
  BY DEF Ntf!StatusChanged
<1>2. entry \in Ntf!Notice /\ entry.stage = stage
  <2>1. Ntf!ChannelFor(to, has) \in Ntf!Channels
    BY DEF Ntf!ChannelFor, Ntf!Channels
  <2>2. Ntf!Resolves(to, Ntf!ChannelFor(to, has), has) \in BOOLEAN
    BY DEF Ntf!Resolves
  <2> QED
    BY <2>1, <2>2 DEF Ntf!Notice
<1> HIDE DEF entry
<1>3. /\ \A m \in News : m # n => notice'[m] = notice[m]
      /\ n \in News => notice'[n] = entry
  BY <1>1
<1>4. QueueTypes'
  BY <1>1, <1>2
<1>5. JobsFollow'
  BY <1>1, <1>3 DEF JobsFollow
<1>6. JobsEndInOutcome'
  BY <1>1 DEF JobsEndInOutcome
<1> QED
  BY <1>1, <1>2, <1>3, <1>4, <1>5, <1>6

\* BullMQ hands a job out again, or gives it up after its lock was lost.
LEMMA QueueKeeps ==
    ASSUME QueueInv, NEW n \in News, Ntf!Queue(n)
    PROVE  QueueInv' /\ NewsMovesOn /\ faults' >= faults
<1> USE DEF QueueInv, QueueTypes, Ntf!TypeOK, BusyWithNews
<1>1. UNCHANGED <<notice, row, worker, deliveries, faults>>
  BY DEF Ntf!Queue, Ntf!Stalled, Ntf!BackoffEnds
<1>2. /\ job' \in [News -> Ntf!Job]
      /\ \A m \in News : m # n => job'[m] = job[m]
      /\ job[n].state # "none"
      /\ job'[n].state \in {"waiting", "failed"}
      /\ job'[n].state = "failed" => faults > 0
  <2>1. CASE Ntf!Stalled(n)
    <3>1. job[n].state = "active" /\ job[n].owner = NoWorker /\ faults > 0
      BY <2>1 DEF Ntf!Stalled, JobsEndInOutcome
    <3>2. PICK state \in {"waiting", "failed"} :
             job' = [job EXCEPT ![n] = [job[n] EXCEPT !.stalls = job[n].stalls + 1, !.state = state]]
      BY <2>1 DEF Ntf!Stalled
    <3>3. job[n] \in Ntf!Job /\ job[n].stalls + 1 \in Nat
      BY DEF Ntf!Job
    <3>4. /\ [job[n] EXCEPT !.stalls = job[n].stalls + 1, !.state = state] \in Ntf!Job
          /\ [job[n] EXCEPT !.stalls = job[n].stalls + 1, !.state = state].state = state
      BY <3>3 DEF Ntf!Job
    <3> QED
      BY <3>1, <3>2, <3>4
  <2>2. CASE Ntf!BackoffEnds(n)
    <3>1. /\ [job[n] EXCEPT !.state = "waiting"] \in Ntf!Job
          /\ [job[n] EXCEPT !.state = "waiting"].state = "waiting"
      BY DEF Ntf!Job
    <3>2. job' = [job EXCEPT ![n] = [job[n] EXCEPT !.state = "waiting"]] /\ job[n].state = "delayed"
      BY <2>2 DEF Ntf!BackoffEnds
    <3>3. job' \in [News -> Ntf!Job] /\ job'[n].state = "waiting"
      BY <3>1, <3>2
    <3>4. \A m \in News : m # n => job'[m] = job[m]
      BY <3>2
    <3> QED
      BY <3>2, <3>3, <3>4
  <2> QED
    BY <2>1, <2>2 DEF Ntf!Queue
<1>3. JobsFollow'
  BY <1>1, <1>2 DEF JobsFollow
<1>4. JobsEndInOutcome'
  BY <1>1, <1>2 DEF JobsEndInOutcome
<1>5. NewsMovesOn
  BY <1>1, <1>2 DEF NewsMovesOn
<1> QED
  BY <1>1, <1>2, <1>3, <1>4, <1>5

\* A worker takes a job and owns it.
LEMMA TakeKeeps ==
    ASSUME QueueInv, NoWorker \notin Workers, NEW w \in Workers, NEW n \in News, Ntf!Take(w, n)
    PROVE  QueueInv' /\ NewsMovesOn /\ faults' >= faults
<1> USE DEF QueueInv, QueueTypes, Ntf!TypeOK, BusyWithNews
<1>1. UNCHANGED <<notice, row, deliveries, faults>> /\ job[n].state = "waiting"
  BY DEF Ntf!Take
<1>2. /\ job' \in [News -> Ntf!Job]
      /\ \A m \in News : m # n => job'[m] = job[m]
      /\ job'[n].state = "active" /\ job'[n].owner = w
  <2>1. [job[n] EXCEPT !.state = "active", !.owner = w] \in Ntf!Job
    BY DEF Ntf!Job
  <2>2. job' = [job EXCEPT ![n] = [job[n] EXCEPT !.state = "active", !.owner = w]]
    BY DEF Ntf!Take
  <2> QED
    BY <2>1, <2>2 DEF Ntf!Job
<1>3. /\ worker' \in [Workers -> Ntf!Worker]
      /\ \A v \in Workers : v # w => worker'[v] = worker[v]
      /\ worker'[w].notice = n /\ worker'[w].phase = "sending"
  BY DEF Ntf!Take, Ntf!Worker
<1>4. QueueTypes'
  BY <1>1, <1>2, <1>3
<1>5. JobsFollow'
  BY <1>1, <1>2, <1>3 DEF JobsFollow
<1>6. JobsEndInOutcome'
  BY <1>1, <1>2, <1>3 DEF JobsEndInOutcome
<1>7. NewsMovesOn
  BY <1>1, <1>2 DEF NewsMovesOn
<1> QED
  BY <1>1, <1>4, <1>5, <1>6, <1>7

\* Sending and recording leave the job alone.
LEMMA SendKeeps ==
    ASSUME QueueInv, NEW w \in Workers, Ntf!Send(w) \/ Ntf!GiveUp(w) \/ Ntf!Record(w)
    PROVE  QueueInv' /\ NewsMovesOn /\ faults' >= faults
<1> USE DEF QueueInv, QueueTypes, Ntf!TypeOK, BusyWithNews
<1>1. PICK n \in News : n = worker[w].notice /\ job[n].state # "none"
  BY DEF Ntf!Send, Ntf!GiveUp, Ntf!Record, JobsFollow
<1>2. UNCHANGED <<notice, job, faults>>
  BY DEF Ntf!Send, Ntf!GiveUp, Ntf!Record
<1>3. PICK phase \in {"succeeded", "failed", "recorded"} :
        /\ worker' = [worker EXCEPT ![w].phase = phase]
        /\ phase = "recorded" => row'[n] \in Outcomes
  BY <1>1 DEF Ntf!Send, Ntf!GiveUp, Ntf!Record, Ntf!RowAfter, Outcomes
<1>4. /\ worker' \in [Workers -> Ntf!Worker]
      /\ \A v \in Workers : v # w => worker'[v] = worker[v]
      /\ worker'[w].notice = n /\ worker'[w].phase = phase
  <2>1. [worker[w] EXCEPT !.phase = phase] \in Ntf!Worker
    BY DEF Ntf!Worker
  <2> QED
    BY <1>1, <1>3, <2>1 DEF Ntf!Worker
<1>5. /\ deliveries' \in [News -> Nat]
      /\ \A m \in News : m # n => deliveries'[m] = deliveries[m]
  BY <1>1 DEF Ntf!Send, Ntf!GiveUp, Ntf!Record
<1>6. /\ row' \in [News -> {"NONE", "PENDING", "SENT", "FAILED"}]
      /\ \A m \in News : row'[m] = row[m] \/ row'[m] \in Outcomes
  BY <1>1 DEF Ntf!Send, Ntf!GiveUp, Ntf!Record, Ntf!RowAfter, Outcomes
<1>7. QueueTypes'
  BY <1>2, <1>4, <1>5, <1>6
<1>8. JobsFollow'
  BY <1>1, <1>2, <1>4, <1>5 DEF JobsFollow
<1>9. JobsEndInOutcome'
  BY <1>2, <1>3, <1>4, <1>6 DEF JobsEndInOutcome
<1>10. NewsMovesOn
  BY <1>2 DEF NewsMovesOn
<1> QED
  BY <1>2, <1>7, <1>8, <1>9, <1>10

\* A worker that stops, and perhaps its job with it.
LEMMA StopKeeps ==
    ASSUME QueueInv, NEW w \in Workers,
           \/ Ntf!Finish(w) \/ Ntf!WorkerError(w)
           \/ \E dies \in BOOLEAN : Ntf!LockLost(w, dies)
    PROVE  QueueInv' /\ NewsMovesOn /\ faults' >= faults
<1> USE DEF QueueInv, QueueTypes, Ntf!TypeOK, BusyWithNews
<1>1. PICK n \in News : n = worker[w].notice /\ job[n].state # "none"
  BY DEF Ntf!Finish, Ntf!WorkerError, Ntf!LockLost, JobsFollow
<1>2. UNCHANGED <<notice, row, deliveries>> /\ faults' \in Nat /\ faults' >= faults
  BY DEF Ntf!Finish, Ntf!WorkerError, Ntf!LockLost, Ntf!Fault
<1>3. /\ worker' \in [Workers -> Ntf!Worker]
      /\ \A v \in Workers : worker'[v] = worker[v] \/ worker'[v].phase = "idle"
  BY DEF Ntf!Finish, Ntf!WorkerError, Ntf!LockLost, Ntf!Back, Ntf!Worker
<1>4. /\ job' \in [News -> Ntf!Job]
      /\ \A m \in News : m # n => job'[m] = job[m]
      /\ \/ job'[n] = job[n]
         \/ job'[n].state = "completed" /\ row[n] \in Outcomes
         \/ /\ job'[n].state # "none" /\ faults' > 0
            /\ job'[n].state = "completed" => job[n].state = "completed"
  <2>1. CASE Ntf!Finish(w)
    <3>1. /\ [job[n] EXCEPT !.state = "completed", !.owner = NoWorker] \in Ntf!Job
          /\ [job[n] EXCEPT !.state = "completed", !.owner = NoWorker].state = "completed"
      BY DEF Ntf!Job
    <3>2. \/ job' = job
          \/ job' = [job EXCEPT ![n] = [job[n] EXCEPT !.state = "completed", !.owner = NoWorker]]
      BY <1>1, <2>1 DEF Ntf!Finish, Ntf!JobAfter
    <3>3. row[n] \in Outcomes
      BY <1>1, <2>1 DEF Ntf!Finish, JobsEndInOutcome
    <3> QED
      BY <3>1, <3>2, <3>3
  <2>2. CASE Ntf!WorkerError(w)
    <3>1. /\ Ntf!AnotherAttempt(job[n]) \in Ntf!Job
          /\ Ntf!AnotherAttempt(job[n]).state \in {"delayed", "failed"}
      <4>1. job[n].attempts + 1 \in Nat /\ job[n].stalls \in Nat
        BY DEF Ntf!Job
      <4> QED
        BY <4>1 DEF Ntf!AnotherAttempt, Ntf!Job
    <3>2. faults' > 0
      BY <2>2 DEF Ntf!WorkerError, Ntf!Fault
    <3> QED
      BY <1>1, <2>2, <3>1, <3>2 DEF Ntf!WorkerError
  <2>3. CASE \E dies \in BOOLEAN : Ntf!LockLost(w, dies)
    <3>1. /\ [job[n] EXCEPT !.owner = NoWorker] \in Ntf!Job
          /\ [job[n] EXCEPT !.owner = NoWorker].state = job[n].state
      BY DEF Ntf!Job
    <3>2. job' = job \/ job' = [job EXCEPT ![n] = [job[n] EXCEPT !.owner = NoWorker]]
      BY <1>1, <2>3 DEF Ntf!LockLost
    <3>3. faults' > 0
      BY <2>3 DEF Ntf!LockLost, Ntf!Fault
    <3> QED
      BY <1>1, <3>1, <3>2, <3>3
  <2> QED
    BY <2>1, <2>2, <2>3
<1>5. QueueTypes'
  BY <1>2, <1>3, <1>4
<1>6. job[n].state # "none" => job'[n].state # "none"
  BY <1>4
<1>7. JobsFollow'
  BY <1>1, <1>2, <1>3, <1>4, <1>6 DEF JobsFollow
<1>8. JobsEndInOutcome'
  BY <1>2, <1>3, <1>4 DEF JobsEndInOutcome
<1>9. NewsMovesOn
  BY <1>1, <1>2, <1>4, <1>6 DEF NewsMovesOn
<1> QED
  BY <1>2, <1>5, <1>7, <1>8, <1>9

-----------------------------------------------------------------------------
\* News and trail.

Addressees == Wor!Technicians \cup Users \cup {NoTechnician, NoUser}

\* Somebody is told of n, or may yet be.
Told(n) == notice[n].stage \in {"received", "stored"} \/ job[n].state # "none"

Addressed(n) ==
    \/ addressee[n] \in {parties[n[1]].dealer, parties[n[1]].customer}
    \/ Given(history[n[1]], n[2], addressee[n])

SeenIsCommitted == \A n \in News : notice[n].stage # "unseen" => n[2] <= Len(history[n[1]])

ToldIsAddressed == \A n \in News : Told(n) => Addressed(n)

\* A committed transition was seen, or a handler is about to emit it.
InHand(n) ==
    \E s \in Slots : /\ request[s].phase = "committed"
                     /\ request[s].order = n[1] /\ request[s].row = n[2]

CommittedIsSeen ==
    crashes = 0 => \A n \in News : n[2] <= Len(history[n[1]]) =>
                       notice[n].stage # "unseen" \/ InHand(n)

\* Unless something broke, what concerns somebody is queued before it is closed.
ConcerningIsQueued ==
    faults = 0 => \A n \in News : notice[n].stage = "closed" /\ Concerning(n) =>
                      job[n].state # "none"

LinkInv ==
    /\ addressee \in [News -> Addressees]
    /\ SeenIsCommitted /\ ToldIsAddressed /\ CommittedIsSeen /\ ConcerningIsQueued

\* The inductive invariant: both components' own, and what ties news to trails.
NewsInv == ServiceInv /\ QueueInv /\ LinkInv

\* News is of some order and of a numbered row.
LEMMA NewsType ==
    ASSUME MaxHistory \in Nat, NEW n \in News
    PROVE  n[1] \in Orders /\ n[2] \in Nat /\ n[2] >= 1 /\ n = <<n[1], n[2]>>
BY DEF News

\* No order has a row, so nothing is news.
LEMMA NewsInit == MaxHistory \in Nat /\ Init => NewsInv
<1> SUFFICES ASSUME MaxHistory \in Nat, Init PROVE NewsInv
  OBVIOUS
<1>1. ServiceInv /\ QueueInv
  BY ServiceInit, QueueInit DEF Init
<1>2. \A n \in News : notice[n].stage = "unseen" /\ job[n].state = "none"
  BY DEF Init, Ntf!Init
<1>3. \A n \in News : ~(n[2] <= Len(history[n[1]]))
  <2> SUFFICES ASSUME NEW n \in News PROVE ~(n[2] <= Len(history[n[1]]))
    OBVIOUS
  <2>1. history[n[1]] = <<>>
    BY NewsType DEF Init, Wor!Init
  <2> QED
    BY <2>1, NewsType
<1>4. addressee \in [News -> Addressees]
  BY DEF Init, Addressees
<1> QED
  BY <1>1, <1>2, <1>3, <1>4
  DEF NewsInv, LinkInv, SeenIsCommitted, ToldIsAddressed, Told, CommittedIsSeen, ConcerningIsQueued

\* What a growing trail leaves true of its news.
LEMMA GrowthKeepsNews ==
    ASSUME MaxHistory \in Nat, NewsInv, ServiceInv', TrailsGrow, UNCHANGED <<ntfVars, addressee>>
    PROVE  QueueInv' /\ SeenIsCommitted' /\ ToldIsAddressed' /\ ConcerningIsQueued'
<1>1. UNCHANGED <<notice, row, job, worker, deliveries, faults, addressee>>
  BY DEF ntfVars
<1>2. QueueInv'
  BY <1>1 DEF NewsInv, QueueInv, QueueTypes, Ntf!TypeOK, BusyWithNews, JobsFollow, JobsEndInOutcome
<1>3. ASSUME NEW n \in News, notice[n].stage # "unseen"
      PROVE  /\ n[1] \in Orders /\ n[2] \in 1..Len(history[n[1]])
             /\ n[2] <= Len(history'[n[1]])
             /\ \A i \in 1..n[2] : history'[n[1]][i] = history[n[1]][i]
             /\ parties'[n[1]] = parties[n[1]]
  <2>1. n[1] \in Orders /\ n[2] \in Nat /\ n[2] >= 1
    BY NewsType
  <2>2. n[2] <= Len(history[n[1]])
    BY <1>3 DEF NewsInv, LinkInv, SeenIsCommitted
  <2>3. Len(history[n[1]]) \in Nat /\ Len(history'[n[1]]) \in Nat
    BY <2>1 DEF NewsInv, ServiceInv, ServiceTypes
  <2> QED
    BY <2>1, <2>2, <2>3 DEF TrailsGrow
<1>4. SeenIsCommitted'
  BY <1>1, <1>3 DEF SeenIsCommitted
<1>5. ToldIsAddressed'
  <2> SUFFICES ASSUME NEW n \in News, Told(n)' PROVE Addressed(n)'
    BY DEF ToldIsAddressed
  <2>1. Told(n) /\ notice[n].stage # "unseen"
    BY <1>1 DEF Told, NewsInv, QueueInv, JobsFollow
  <2>2. Addressed(n)
    BY <2>1 DEF NewsInv, LinkInv, ToldIsAddressed
  <2>3. addressee'[n] = addressee[n] /\ parties'[n[1]] = parties[n[1]]
        /\ \A i \in 1..n[2] : history'[n[1]][i] = history[n[1]][i]
    BY <1>1, <1>3, <2>1
  <2> QED
    BY <2>2, <2>3 DEF Addressed, Given
<1>6. ConcerningIsQueued'
  <2> SUFFICES ASSUME faults = 0, NEW n \in News, notice[n].stage = "closed", Concerning(n)'
               PROVE  job[n].state # "none"
    BY <1>1 DEF ConcerningIsQueued
  <2>1. Change(n)' = Change(n)
    BY <1>3, NewsType DEF Change
  <2>2. Concerning(n)
    BY <2>1 DEF Concerning
  <2> QED
    BY <2>2 DEF NewsInv, LinkInv, ConcerningIsQueued
<1> QED
  BY <1>2, <1>4, <1>5, <1>6

\* A handler that commits has its row in hand.
LEMMA CommitInHand ==
    ASSUME MaxHistory \in Nat, NewsInv, NEW s \in Slots, Wor!Commit(s), UNCHANGED ntfVars
    PROVE  CommittedIsSeen'
<1> SUFFICES ASSUME crashes = 0, NEW n \in News, n[2] <= Len(history'[n[1]]),
                    notice[n].stage = "unseen"
             PROVE  InHand(n)'
  BY DEF CommittedIsSeen, Wor!Commit, ntfVars
<1>1. PICK o \in Orders : o = request[s].order
  BY DEF NewsInv, ServiceInv, ServiceTypes, Wor!Commit
<1>2. /\ Len(history[o]) \in Nat /\ Len(history'[o]) = Len(history[o]) + 1
      /\ \A p \in Orders : p # o => history'[p] = history[p]
  BY <1>1, CommitFacts DEF NewsInv
<1>3. /\ request[s] \in Wor!Request /\ request \in [Slots -> Wor!Request]
      /\ request[s].phase = "checked"
  BY DEF NewsInv, ServiceInv, ServiceTypes, Wor!Commit
<1>4. /\ request'[s].phase = "committed" /\ request'[s].order = o
      /\ request'[s].row = Len(history[o]) + 1
      /\ \A q \in Slots : q # s => request'[q] = request[q]
  BY <1>1, <1>3 DEF Wor!Commit, Wor!Request
<1>5. CASE n[1] = o /\ n[2] = Len(history[o]) + 1
  BY <1>4, <1>5 DEF InHand
<1>6. CASE ~(n[1] = o /\ n[2] = Len(history[o]) + 1)
  <2>1. n[2] <= Len(history[n[1]])
    BY <1>2, <1>6, NewsType
  <2>2. PICK q \in Slots : /\ request[q].phase = "committed"
                           /\ request[q].order = n[1] /\ request[q].row = n[2]
    BY <2>1 DEF NewsInv, LinkInv, CommittedIsSeen, InHand
  <2>3. request'[q] = request[q]
    BY <1>3, <1>4, <2>2
  <2> QED
    BY <2>2, <2>3 DEF InHand
<1> QED
  BY <1>5, <1>6

\* The other steps of the work orders leave what is in hand, or lose it by a crash.
LEMMA OthersKeepHands ==
    ASSUME NewsInv, UNCHANGED <<history, ntfVars>>,
           \/ UNCHANGED <<request, crashes>>
           \/ crashes' # 0
           \/ \E s \in Slots : /\ request[s].phase # "committed" /\ UNCHANGED crashes
                               /\ \A q \in Slots : q # s => request'[q] = request[q]
    PROVE  CommittedIsSeen'
<1> SUFFICES ASSUME crashes' = 0, NEW n \in News, n[2] <= Len(history[n[1]]),
                    notice[n].stage = "unseen"
             PROVE  InHand(n)'
  BY DEF CommittedIsSeen, ntfVars
<1>1. crashes = 0
  OBVIOUS
<1>2. PICK q \in Slots : /\ request[q].phase = "committed"
                         /\ request[q].order = n[1] /\ request[q].row = n[2]
  BY <1>1 DEF NewsInv, LinkInv, CommittedIsSeen, InHand
<1>3. request'[q] = request[q]
  BY <1>2
<1> QED
  BY <1>2, <1>3 DEF InHand

\* The steps of the work orders keep the invariant.
LEMMA ServeKeeps ==
    ASSUME MaxHistory \in Nat, NewsInv, Serve
    PROVE  NewsInv'
<1>1. UNCHANGED <<ntfVars, addressee>> /\ ServiceInv
  BY DEF Serve, NewsInv
<1>2. ServiceInv' /\ TrailsGrow /\ CommittedIsSeen'
  <2>1. ASSUME NEW u \in Users, NEW c \in Users, NEW o \in Orders,
               Wor!Create(u, o, c, NoDepartment)
        PROVE  ServiceInv' /\ TrailsGrow /\ CommittedIsSeen'
    BY <1>1, <2>1, CreateKeeps, OthersKeepHands DEF Wor!Create
  <2>2. ASSUME NEW s \in Slots, Wor!Commit(s)
        PROVE  ServiceInv' /\ TrailsGrow /\ CommittedIsSeen'
    BY <1>1, <2>2, CommitKeeps, CommitInHand
  <2>3. ASSUME NEW s \in Slots,
               \/ \E u \in Users, o \in Orders : Wor!Receive(s, u, o)
               \/ Wor!Recheck(s) \/ Wor!RecheckConflict(s) \/ Wor!InsertRejected(s)
               \/ Wor!RolledBack(s) \/ Wor!Publish(s) \/ Wor!AnswerError(s) \/ Wor!Crash(s)
        PROVE  ServiceInv' /\ TrailsGrow /\ CommittedIsSeen'
    <3>1. Quietly(s)
      BY <1>1, <2>3, MostStepsAreQuiet
    <3>2. \/ request[s].phase # "committed" /\ UNCHANGED crashes
          \/ crashes' = crashes + 1
      <4>1. ASSUME NEW u \in Users, NEW o \in Orders, Wor!Receive(s, u, o)
            PROVE  request[s].phase # "committed" /\ UNCHANGED crashes
        BY <4>1, ReceiveLoads DEF Wor!Load
      <4>2. CASE Wor!Crash(s)
        BY <4>2 DEF Wor!Crash
      <4> QED
        BY <2>3, <4>1, <4>2 DEF Wor!Recheck, Wor!RecheckConflict, Wor!InsertRejected,
                                Wor!RolledBack, Wor!Publish, Wor!AnswerError
    <3>3. crashes' = crashes + 1 => crashes' # 0
      BY <1>1 DEF ServiceInv, ServiceTypes
    <3>4. UNCHANGED history /\ \A q \in Slots : q # s => request'[q] = request[q]
      BY <1>1, <3>1 DEF Quietly, ServiceInv, ServiceTypes
    <3> QED
      BY <1>1, <3>1, <3>2, <3>3, <3>4, QuietlyKeeps, OthersKeepHands
  <2> QED
    BY <2>1, <2>2, <2>3 DEF Serve
<1> QED
  BY <1>1, <1>2, GrowthKeepsNews DEF NewsInv, LinkInv

\* The steps of the notifications keep what is known of them, and move news on.
LEMMA TellMoves ==
    ASSUME NoWorker \notin Workers, QueueInv, Tell
    PROVE  QueueInv' /\ NewsMovesOn /\ faults' >= faults
<1>1. ASSUME NEW w \in Workers, Ntf!Work(w)
      PROVE  QueueInv' /\ NewsMovesOn /\ faults' >= faults
  <2>1. CASE Ntf!Finish(w)
    BY <2>1, StopKeeps
  <2>2. CASE Ntf!Send(w) \/ Ntf!GiveUp(w) \/ Ntf!Record(w)
    BY <2>2, SendKeeps
  <2>3. ASSUME NEW n \in News, Ntf!Take(w, n)
        PROVE  QueueInv' /\ NewsMovesOn /\ faults' >= faults
    BY <2>3, TakeKeeps
  <2> QED
    BY <1>1, <2>1, <2>2, <2>3 DEF Ntf!Work
<1> QED
  BY <1>1, SubscriberKeeps, QueueKeeps, StopKeeps DEF Tell

\* The steps of the notifications keep the invariant.
LEMMA TellKeeps ==
    ASSUME MaxHistory \in Nat, NoWorker \notin Workers, NewsInv, Tell
    PROVE  NewsInv'
<1>1. UNCHANGED <<status, technicianId, completedAt, parties, history, request, emitted, crashes,
                  addressee>>
  BY DEF Tell, worVars
<1>2. ServiceInv'
  BY <1>1 DEF NewsInv, ServiceInv, ServiceTypes, TrailsOfOrders, HoldersWereGiven, CommittedHaveRows
<1>3. QueueInv' /\ NewsMovesOn /\ faults' >= faults
  BY TellMoves DEF NewsInv
<1>4. faults \in Nat /\ faults' \in Nat
  BY <1>3 DEF NewsInv, QueueInv, QueueTypes, Ntf!TypeOK
<1>5. SeenIsCommitted'
  BY <1>1, <1>3 DEF SeenIsCommitted, NewsMovesOn, NewsInv, LinkInv
<1>6. ToldIsAddressed'
  <2>1. \A n \in News : Told(n)' => Told(n)
    BY <1>3 DEF Told, NewsMovesOn
  <2>2. \A n \in News : Addressed(n) => Addressed(n)'
    BY <1>1 DEF Addressed
  <2> QED
    BY <2>1, <2>2 DEF ToldIsAddressed, NewsInv, LinkInv
<1>7. CommittedIsSeen'
  BY <1>1, <1>3 DEF CommittedIsSeen, InHand, NewsMovesOn, NewsInv, LinkInv
<1>8. ConcerningIsQueued'
  <2> SUFFICES ASSUME faults' = 0, NEW n \in News, notice'[n].stage = "closed", Concerning(n)'
               PROVE  job'[n].state # "none"
    BY DEF ConcerningIsQueued
  <2>1. faults = 0 /\ ~(faults' > 0)
    BY <1>3, <1>4
  <2>2. Concerning(n)
    BY <1>1 DEF Concerning, Change
  <2> QED
    BY <1>3, <2>1, <2>2 DEF NewsMovesOn, NewsInv, LinkInv, ConcerningIsQueued
<1> QED
  BY <1>1, <1>2, <1>3, <1>5, <1>6, <1>7, <1>8 DEF NewsInv, LinkInv

\* The shared step: a committed row becomes news, with the technician it left.
LEMMA EmitKeeps ==
    ASSUME MaxHistory \in Nat, NewsInv, NEW s \in Slots, Emit(s)
    PROVE  NewsInv'
<1>1. PICK n : n = <<request[s].order, request[s].row>>
  OBVIOUS
<1>2. /\ Wor!EmitEvent(s) /\ UNCHANGED <<status, technicianId, parties, history, crashes>>
      /\ addressee' = [addressee EXCEPT ![n] = Addressee(n)]
  BY <1>1 DEF Emit, Wor!EmitEvent, Wor!dbVars
<1>3. PICK has \in Known : Ntf!StatusChanged(n, Change(n).to, Change(n).assignee # NoTechnician, has)
  BY <1>1 DEF Emit
<1> DEFINE wanted == Ntf!Wanted(Change(n).to, Change(n).assignee # NoTechnician, has)
<1>4. ServiceInv /\ QueueInv
  BY DEF NewsInv
<1>5. ServiceInv'
  BY <1>2, <1>4, MostStepsAreQuiet, QuietlyKeeps
<1>6. /\ QueueInv'
      /\ UNCHANGED <<row, job, worker, deliveries, faults>>
      /\ \A m \in News : m # n => notice'[m] = notice[m]
      /\ n \in News => /\ notice[n].stage = "unseen"
                       /\ notice'[n].stage = IF wanted THEN "received" ELSE "closed"
  BY <1>3, <1>4, StatusKeeps
<1> HIDE DEF wanted
<1>7. \A m \in News : m # n => addressee'[m] = addressee[m]
  BY <1>2 DEF NewsInv, LinkInv
<1>8. /\ request[s].order \in Orders /\ request[s].row \in 1..Len(history[request[s].order])
      /\ Len(history[request[s].order]) \in Nat /\ n[1] = request[s].order /\ n[2] = request[s].row
  BY <1>1, <1>2, <1>4 DEF Wor!EmitEvent, ServiceInv, ServiceTypes, CommittedHaveRows
<1>9. Change(n) \in Row
  <2>1. history[n[1]] \in Seq(Row)
    BY <1>4, <1>8 DEF ServiceInv, ServiceTypes
  <2> QED
    BY <1>8, <2>1 DEF Change
<1>10. addressee' \in [News -> Addressees]
  <2>1. Addressee(n) \in Addressees
    <3>1. parties[n[1]] \in Wor!Parties
      BY <1>4, <1>8 DEF ServiceInv, ServiceTypes
    <3> QED
      BY <1>9, <3>1 DEF Addressee, Addressees, Wor!Parties, Row
  <2> QED
    BY <1>2, <2>1 DEF NewsInv, LinkInv
<1>11. SeenIsCommitted'
  BY <1>2, <1>6, <1>8 DEF SeenIsCommitted, NewsInv, LinkInv
<1>12. ToldIsAddressed'
  <2> SUFFICES ASSUME NEW m \in News, Told(m)' PROVE Addressed(m)'
    BY DEF ToldIsAddressed
  <2>1. CASE m # n
    <3>1. Told(m)
      BY <1>6, <2>1 DEF Told
    <3>2. Addressed(m)
      BY <3>1 DEF NewsInv, LinkInv, ToldIsAddressed
    <3> QED
      BY <1>2, <1>7, <2>1, <3>2 DEF Addressed
  <2>2. CASE m = n
    <3>1. wanted
      BY <1>4, <1>6, <2>2 DEF Told, QueueInv, JobsFollow
    <3>2. addressee'[n] = Addressee(n)
      BY <1>2, <2>2 DEF NewsInv, LinkInv
    <3>3. CASE Change(n).to \in Ntf!TechnicianNews
      <4>1. Change(n).assignee # NoTechnician
        BY <3>1, <3>3 DEF wanted, Ntf!Wanted, Ntf!TechnicianNews, Ntf!DealerNews
      <4>2. Given(history[n[1]], n[2], Change(n).assignee)
        BY <1>4, <1>8, <4>1 DEF ServiceInv, HoldersWereGiven, Change
      <4>3. addressee'[n] = Change(n).assignee
        BY <3>2, <3>3 DEF Addressee
      <4> QED
        BY <1>2, <2>2, <4>2, <4>3 DEF Addressed
    <3>4. CASE Change(n).to \notin Ntf!TechnicianNews
      BY <1>2, <2>2, <3>2, <3>4 DEF Addressee, Addressed
    <3> QED
      BY <3>3, <3>4
  <2> QED
    BY <2>1, <2>2
<1>13. CommittedIsSeen'
  <2> SUFFICES ASSUME crashes = 0, NEW m \in News, m[2] <= Len(history[m[1]]),
                      notice'[m].stage = "unseen"
               PROVE  InHand(m)'
    BY <1>2 DEF CommittedIsSeen
  <2>1. m # n /\ notice[m].stage = "unseen"
    BY <1>6
  <2>2. PICK q \in Slots : /\ request[q].phase = "committed"
                           /\ request[q].order = m[1] /\ request[q].row = m[2]
    BY <2>1 DEF NewsInv, LinkInv, CommittedIsSeen, InHand
  <2>3. q # s
    BY <1>1, <2>1, <2>2, NewsType
  <2>4. request'[q] = request[q]
    BY <1>2, <1>4, <2>3 DEF Wor!EmitEvent, Wor!Enter, ServiceInv, ServiceTypes
  <2> QED
    BY <2>2, <2>4 DEF InHand
<1>14. ConcerningIsQueued'
  <2> SUFFICES ASSUME faults = 0, NEW m \in News, notice'[m].stage = "closed", Concerning(m)
               PROVE  job[m].state # "none"
    BY <1>2, <1>6 DEF ConcerningIsQueued, Concerning, Change
  <2>1. m # n
    <3> SUFFICES ASSUME m = n PROVE FALSE
      OBVIOUS
    <3>1. ~wanted
      BY <1>6
    <3> QED
      BY <3>1 DEF wanted, Ntf!Wanted, Concerning
  <2>2. notice[m].stage = "closed"
    BY <1>6, <2>1
  <2> QED
    BY <2>2 DEF NewsInv, LinkInv, ConcerningIsQueued
<1> QED
  BY <1>5, <1>6, <1>10, <1>11, <1>12, <1>13, <1>14 DEF NewsInv, LinkInv

\* Every step of the composition keeps the invariant.
LEMMA NewsStep ==
    ASSUME MaxHistory \in Nat, NoWorker \notin Workers, NewsInv, [Next]_vars
    PROVE  NewsInv'
<1>1. CASE UNCHANGED vars
  <2>1. UNCHANGED <<status, technicianId, parties, history, request, crashes, addressee,
                    notice, row, job, worker, deliveries, faults>>
    BY <1>1 DEF vars, worVars, ntfVars
  <2>2. ServiceInv'
    BY <2>1 DEF NewsInv, ServiceInv, ServiceTypes, TrailsOfOrders, HoldersWereGiven, CommittedHaveRows
  <2>3. QueueInv'
    BY <2>1 DEF NewsInv, QueueInv, QueueTypes, Ntf!TypeOK, BusyWithNews, JobsFollow, JobsEndInOutcome
  <2>4. LinkInv'
    BY <2>1 DEF NewsInv, LinkInv, SeenIsCommitted, ToldIsAddressed, Told, Addressed, CommittedIsSeen,
                InHand, ConcerningIsQueued, Concerning, Change
  <2> QED
    BY <2>2, <2>3, <2>4 DEF NewsInv
<1> QED
  BY <1>1, ServeKeeps, TellKeeps, EmitKeeps DEF Next

\* At rest every job has ended, and every committed transition was seen.
LEMMA NewsInvMatches ==
    ASSUME MaxHistory \in Nat, NewsInv
    PROVE  NewsMatchTrail
<1>1. ASSUME NEW n \in News, deliveries[n] > 0
      PROVE  /\ n[2] <= Len(history[n[1]])
             /\ \/ addressee[n] \in {parties[n[1]].dealer, parties[n[1]].customer}
                \/ \E i \in 1..n[2] : /\ history[n[1]][i].to = "ASSIGNED"
                                      /\ history[n[1]][i].assignee = addressee[n]
  <2>1. job[n].state # "none" /\ notice[n].stage # "unseen"
    BY <1>1 DEF NewsInv, QueueInv, JobsFollow
  <2> QED
    BY <2>1 DEF NewsInv, LinkInv, SeenIsCommitted, ToldIsAddressed, Told, Addressed, Given
<1>2. ASSUME AtRest, crashes = 0, faults = 0, NEW n \in News, n[2] <= Len(history[n[1]]),
             Concerning(n)
      PROVE  row[n] \in Outcomes
  <2>1. notice[n].stage # "unseen"
    BY <1>2 DEF NewsInv, LinkInv, CommittedIsSeen, InHand, AtRest
  <2>2. notice[n].stage = "closed"
    BY <1>2, <2>1 DEF AtRest, NewsInv, QueueInv, QueueTypes, Ntf!TypeOK, Ntf!Notice
  <2>3. job[n].state # "none"
    BY <1>2, <2>2 DEF NewsInv, LinkInv, ConcerningIsQueued
  <2>4. job[n].state = "completed"
    BY <1>2, <2>3 DEF AtRest, NewsInv, QueueInv, QueueTypes, Ntf!TypeOK, Ntf!Job, JobsEndInOutcome
  <2> QED
    BY <2>4 DEF NewsInv, QueueInv, JobsEndInOutcome
<1> QED
  BY <1>1, <1>2 DEF NewsMatchTrail, Outcomes

\* However many requests overlap, whatever is retried or lost, and for any bounds:
\* who is told had to do with the order by then, and no committed transition that
\* the subscriber has somebody to tell of is left out unless something broke
\* (transition(), NotificationSubscriber, NotificationWorker).
THEOREM NewsFollowsTrail ==
    ASSUME MaxHistory \in Nat, NoWorker \notin Workers
    PROVE  Spec => []NewsMatchTrail
<1>1. Init => NewsInv
  BY NewsInit
<1>2. NewsInv /\ [Next]_vars => NewsInv'
  BY NewsStep
<1>3. NewsInv => NewsMatchTrail
  BY NewsInvMatches
<1> QED
  BY <1>1, <1>2, <1>3, PTL DEF Spec

-----------------------------------------------------------------------------
\* Each transition is reported once.

\* What was reported is in a trail.
ReportedAreRows == \A e \in emitted : e[1] \in Orders /\ e[2] \in 1..Len(history[e[1]])

\* A handler's report is its own, and has not been made.
ReportsAreOwn ==
    \A s \in ToReport : /\ Report(s) \notin emitted
                        /\ \A q \in ToReport \ {s} : Report(q) # Report(s)

SeenAreReported == emitted \cap News = {n \in News : notice[n].stage # "unseen"}

OnceInv == ReportedAreRows /\ ReportsAreOwn /\ SeenAreReported

\* Nothing is reported, or to be reported, at first.
LEMMA OnceInit == Init => OnceInv
  BY DEF Init, Wor!Init, Ntf!Init, Wor!Idle, OnceInv, ReportedAreRows, ReportsAreOwn,
         SeenAreReported, ToReport

\* As trails grow, what was reported stays in them.
LEMMA ReportedStay ==
    ASSUME ServiceInv, ServiceInv', TrailsGrow, ReportedAreRows, UNCHANGED emitted
    PROVE  ReportedAreRows'
<1>1. \A o \in Orders : /\ Len(history[o]) \in Nat /\ Len(history'[o]) \in Nat
                        /\ Len(history[o]) <= Len(history'[o])
  BY DEF ServiceInv, ServiceTypes, TrailsGrow
<1> QED
  BY <1>1 DEF ReportedAreRows

\* A step that makes no report and adds no handler that will.
LEMMA OnceKept ==
    ASSUME ServiceInv, ServiceInv', OnceInv, TrailsGrow, UNCHANGED emitted,
           \A s \in Slots : s \in ToReport' => s \in ToReport /\ request'[s] = request[s],
           \A n \in News : notice'[n].stage = "unseen" <=> notice[n].stage = "unseen"
    PROVE  OnceInv'
<1>1. ReportedAreRows'
  BY ReportedStay DEF OnceInv
<1>2. ReportsAreOwn'
  BY DEF OnceInv, ReportsAreOwn, ToReport, Report
<1>3. SeenAreReported'
  BY DEF OnceInv, SeenAreReported
<1> QED
  BY <1>1, <1>2, <1>3 DEF OnceInv

\* The row a commit appends is new: no other handler holds it, and none reported it.
LEMMA OnceCommit ==
    ASSUME ServiceInv, OnceInv, NEW s \in Slots, Wor!Commit(s), UNCHANGED notice
    PROVE  OnceInv'
<1>0. ServiceInv' /\ TrailsGrow /\ UNCHANGED emitted
  BY CommitKeeps DEF Wor!Commit
<1>1. PICK o \in Orders, last \in Nat : o = request[s].order /\ last = Len(history[o]) + 1
  <2>1. request[s].order \in Orders
    BY DEF Wor!Commit, ServiceInv, ServiceTypes
  <2> QED
    BY <2>1, CommitFacts
<1>2. /\ request'[s].order = o /\ request'[s].row = last
      /\ \A q \in Slots : q # s => request'[q] = request[q]
  BY <1>1 DEF Wor!Commit, ServiceInv, ServiceTypes, Wor!Request
<1>3. \A p \in Orders : Len(history[p]) \in Nat
  BY DEF ServiceInv, ServiceTypes
<1>4. \A e \in emitted : e # <<o, last>>
  BY <1>1, <1>3 DEF OnceInv, ReportedAreRows
<1>5. \A q \in ToReport : Report(q) # <<o, last>>
  BY <1>1, <1>3 DEF ServiceInv, CommittedHaveRows, ToReport, Report
<1>6. \A q \in ToReport' \ {s} : q \in ToReport /\ Report(q)' = Report(q)
  BY <1>2 DEF ToReport, Report
<1>7. Report(s)' = <<o, last>>
  BY <1>2 DEF Report
<1>8. ReportsAreOwn'
  <2> SUFFICES ASSUME NEW q \in ToReport'
               PROVE  /\ Report(q)' \notin emitted
                      /\ \A t \in ToReport' \ {q} : Report(t)' # Report(q)'
    BY <1>0 DEF ReportsAreOwn
  <2>1. CASE q = s
    BY <1>4, <1>5, <1>6, <1>7, <2>1
  <2>2. CASE q # s
    BY <1>5, <1>6, <1>7, <2>2 DEF OnceInv, ReportsAreOwn
  <2> QED
    BY <2>1, <2>2
<1>9. ReportedAreRows'
  BY <1>0, ReportedStay DEF OnceInv
<1>10. SeenAreReported'
  BY <1>0 DEF OnceInv, SeenAreReported
<1> QED
  BY <1>8, <1>9, <1>10 DEF OnceInv

\* A report is made: it was its handler's alone, and the subscriber sees it.
LEMMA OnceEmit ==
    ASSUME ServiceInv, QueueInv, OnceInv, NEW s \in Slots, Emit(s)
    PROVE  OnceInv'
<1>1. PICK n : n = Report(s)
  OBVIOUS
<1>2. /\ Wor!EmitEvent(s)
      /\ \E has \in Known : Ntf!StatusChanged(n, Change(n).to, Change(n).assignee # NoTechnician, has)
  BY <1>1 DEF Emit, Report
<1>3. /\ s \in ToReport /\ emitted' = emitted \cup {n} /\ UNCHANGED history
      /\ request' = [request EXCEPT ![s].phase = "emitted"]
  BY <1>1, <1>2 DEF Wor!EmitEvent, Wor!Enter, Wor!dbVars, ToReport, Report
<1>4. \A q \in Slots : /\ q \in ToReport' => q \in ToReport \ {s}
                       /\ q # s => request'[q] = request[q]
  BY <1>3 DEF ServiceInv, ServiceTypes, ToReport, Wor!Request
<1>5. /\ \A m \in News : m # n => notice'[m] = notice[m]
      /\ n \in News => notice'[n].stage # "unseen"
  BY <1>2, StatusKeeps
<1>6. ReportedAreRows'
  BY <1>1, <1>3 DEF OnceInv, ReportedAreRows, ServiceInv, ServiceTypes, CommittedHaveRows, ToReport, Report
<1>7. ReportsAreOwn'
  BY <1>1, <1>3, <1>4 DEF OnceInv, ReportsAreOwn, ToReport, Report
<1>8. SeenAreReported'
  BY <1>3, <1>5 DEF OnceInv, SeenAreReported
<1> QED
  BY <1>6, <1>7, <1>8 DEF OnceInv

\* Every step keeps the reports apart.
LEMMA OnceStep ==
    ASSUME NoWorker \notin Workers, NewsInv, OnceInv, [Next]_vars
    PROVE  OnceInv'
<1>1. ServiceInv /\ QueueInv
  BY DEF NewsInv
<1>2. CASE Serve
  <2>0. UNCHANGED notice
    BY <1>2 DEF Serve, ntfVars
  <2>1. ASSUME NEW u \in Users, NEW c \in Users, NEW o \in Orders, Wor!Create(u, o, c, NoDepartment)
        PROVE  OnceInv'
    <3>1. ServiceInv' /\ TrailsGrow
      BY <1>1, <2>1, CreateKeeps
    <3>2. UNCHANGED <<request, emitted>>
      BY <2>1 DEF Wor!Create
    <3> QED
      BY <1>1, <2>0, <3>1, <3>2, OnceKept DEF ToReport
  <2>2. ASSUME NEW s \in Slots, Wor!Commit(s) PROVE OnceInv'
    BY <1>1, <2>0, <2>2, OnceCommit
  <2>3. ASSUME NEW s \in Slots,
               \/ \E u \in Users, o \in Orders : Wor!Receive(s, u, o)
               \/ Wor!Recheck(s) \/ Wor!RecheckConflict(s) \/ Wor!InsertRejected(s)
               \/ Wor!RolledBack(s) \/ Wor!Publish(s) \/ Wor!AnswerError(s) \/ Wor!Crash(s)
        PROVE  OnceInv'
    <3>1. Quietly(s)
      BY <1>1, <2>3, MostStepsAreQuiet
    <3>2. ServiceInv' /\ TrailsGrow
      BY <1>1, <3>1, QuietlyKeeps
    <3>3. UNCHANGED emitted
      <4>1. ASSUME NEW u \in Users, NEW o \in Orders, Wor!Receive(s, u, o) PROVE UNCHANGED emitted
        BY <4>1, ReceiveLoads DEF Wor!Load
      <4> QED
        BY <2>3, <4>1 DEF Wor!Recheck, Wor!RecheckConflict, Wor!InsertRejected, Wor!RolledBack,
                          Wor!Publish, Wor!AnswerError, Wor!Crash
    <3>4. \A q \in Slots : q \in ToReport' => q \in ToReport /\ request'[q] = request[q]
      BY <1>1, <3>1 DEF Quietly, ServiceInv, ServiceTypes, ToReport
    <3> QED
      BY <1>1, <2>0, <3>2, <3>3, <3>4, OnceKept
  <2> QED
    BY <1>2, <2>1, <2>2, <2>3 DEF Serve
<1>3. CASE Tell
  <2>1. UNCHANGED <<status, technicianId, completedAt, parties, history, request, emitted, crashes>>
    BY <1>3 DEF Tell, worVars
  <2>2. NewsMovesOn
    BY <1>1, <1>3, TellMoves
  <2>3. ServiceInv'
    BY <1>1, <2>1 DEF ServiceInv, ServiceTypes, TrailsOfOrders, HoldersWereGiven, CommittedHaveRows
  <2>4. TrailsGrow
    BY <1>1, <2>1 DEF TrailsGrow, ServiceInv, ServiceTypes
  <2> QED
    BY <1>1, <2>1, <2>2, <2>3, <2>4, OnceKept DEF NewsMovesOn, ToReport
<1>4. ASSUME NEW s \in Slots, Emit(s) PROVE OnceInv'
  BY <1>1, <1>4, OnceEmit
<1>5. CASE UNCHANGED vars
  BY <1>5 DEF vars, worVars, ntfVars, OnceInv, ReportedAreRows, ReportsAreOwn, SeenAreReported, ToReport,
              Report
<1> QED
  BY <1>2, <1>3, <1>4, <1>5 DEF Next

-----------------------------------------------------------------------------
\* Together, the two parts behave as each does alone.

Service  == INSTANCE WorkOrderProofs
Delivery == INSTANCE NotificationProofs WITH Notices <- News

\* What each part asks of its constants, and what is known of recipients.
LinkedConstants ==
    /\ DepartmentOf \in [Users -> Departments \cup {NoDepartment}]
    /\ NoUser \notin Users /\ NoOrder \notin Orders /\ NoDepartment \notin Departments
    /\ MaxHistory \in Nat /\ MaxCrashes \in Nat
    /\ NoWorker \notin Workers /\ NoNotice \notin News
    /\ MaxAttempts \in Nat \ {0} /\ MaxStalled \in Nat /\ MaxFaults \in Nat
    /\ Adapters \subseteq {"LINE", "EMAIL"} /\ Known \subseteq Ntf!Contacts

\* Both instances of WorkOrders say the same.
LEMMA SameLoad ==
    \A s, u, o, to, t : Wor!Load(s, u, o, to, t) <=> Service!Load(s, u, o, to, t)
  BY DEF Wor!Load, Service!Load, Wor!InScope, Service!InScope, Wor!Validated, Service!Validated,
         Wor!Transitions, Service!Transitions, Wor!Statuses, Service!Statuses, Wor!dbVars, Service!dbVars

LEMMA SameReceive == \A s, u, o : Wor!Receive(s, u, o) => Service!Receive(s, u, o)
<1>1. \A role, s, u, o, to : Wor!LoadAs(role, s, u, o, to) => Service!LoadAs(role, s, u, o, to)
  BY SameLoad DEF Wor!LoadAs, Service!LoadAs
<1>2. \A s, u, o : Wor!Cancel(s, u, o) => Service!Cancel(s, u, o)
  BY SameLoad DEF Wor!Cancel, Service!Cancel, Wor!CancelRoles, Service!CancelRoles, Wor!Statuses,
                  Service!Statuses
<1>3. \A s, u, o, t : Wor!Assign(s, u, o, t) => Service!Assign(s, u, o, t)
  BY SameLoad DEF Wor!Assign, Service!Assign
<1>4. Wor!Technicians = Service!Technicians
  BY DEF Wor!Technicians, Service!Technicians
<1> QED
  BY <1>1, <1>2, <1>3, <1>4
  DEF Wor!Receive, Service!Receive, Wor!Accept, Service!Accept, Wor!Decline, Service!Decline,
      Wor!Reschedule, Service!Reschedule, Wor!StartTravel, Service!StartTravel, Wor!StartWork,
      Service!StartWork, Wor!ReportIssue, Service!ReportIssue, Wor!ResolveIssue, Service!ResolveIssue,
      Wor!Escalate, Service!Escalate, Wor!Complete, Service!Complete

LEMMA SameHandle ==
    \A s : /\ Wor!Recheck(s) => Service!Recheck(s)
           /\ Wor!RecheckConflict(s) => Service!RecheckConflict(s)
           /\ Wor!InsertRejected(s) => Service!InsertRejected(s)
           /\ Wor!RolledBack(s) => Service!RolledBack(s)
           /\ Wor!Commit(s) => Service!Commit(s)
           /\ Wor!EmitEvent(s) => Service!EmitEvent(s)
           /\ Wor!Publish(s) => Service!Publish(s)
           /\ Wor!AnswerError(s) => Service!AnswerError(s)
           /\ Wor!Crash(s) => Service!Crash(s)
<1> USE DEF Wor!dbVars, Service!dbVars, Wor!Enter, Service!Enter, Wor!Idle, Service!Idle,
            Wor!StatusUnchanged, Service!StatusUnchanged, Wor!ChangerIsStaff, Service!ChangerIsStaff
<1>1. \A s : /\ Wor!Recheck(s) => Service!Recheck(s)
             /\ Wor!RecheckConflict(s) => Service!RecheckConflict(s)
             /\ Wor!InsertRejected(s) => Service!InsertRejected(s)
             /\ Wor!RolledBack(s) => Service!RolledBack(s)
  BY DEF Wor!Recheck, Service!Recheck, Wor!RecheckConflict, Service!RecheckConflict,
         Wor!InsertRejected, Service!InsertRejected, Wor!RolledBack, Service!RolledBack
<1>2. \A s : Wor!Commit(s) => Service!Commit(s)
  BY DEF Wor!Commit, Service!Commit, Wor!AssigneeAfter, Service!AssigneeAfter, Wor!CompletedAfter,
         Service!CompletedAfter
<1>3. \A s : /\ Wor!EmitEvent(s) => Service!EmitEvent(s)
             /\ Wor!Publish(s) => Service!Publish(s)
             /\ Wor!AnswerError(s) => Service!AnswerError(s)
             /\ Wor!Crash(s) => Service!Crash(s)
  BY DEF Wor!EmitEvent, Service!EmitEvent, Wor!Publish, Service!Publish, Wor!AnswerError,
         Service!AnswerError, Wor!Crash, Service!Crash
<1> QED
  BY <1>1, <1>2, <1>3

\* Both instances of Notifications say the same.
LEMMA SameStatusChanged ==
    \A n, to, held, has : Ntf!StatusChanged(n, to, held, has) => Delivery!StatusChanged(n, to, held, has)
  BY DEF Ntf!StatusChanged, Delivery!StatusChanged, Ntf!ChannelFor, Delivery!ChannelFor,
         Ntf!Wanted, Delivery!Wanted, Ntf!Resolves, Delivery!Resolves, Ntf!Channels, Delivery!Channels,
         Ntf!TechnicianNews, Delivery!TechnicianNews, Ntf!CustomerNews, Delivery!CustomerNews,
         Ntf!DealerNews, Delivery!DealerNews

LEMMA SameQueue ==
    \A n : /\ Ntf!Subscriber(n) => Delivery!Subscriber(n)
           /\ Ntf!NoticeLost(n) => Delivery!NoticeLost(n)
           /\ Ntf!Queue(n) => Delivery!Queue(n)
  BY DEF Ntf!Subscriber, Delivery!Subscriber, Ntf!Store, Delivery!Store, Ntf!Enqueue, Delivery!Enqueue,
         Ntf!NoticeLost, Delivery!NoticeLost, Ntf!Queue, Delivery!Queue, Ntf!Stalled, Delivery!Stalled,
         Ntf!BackoffEnds, Delivery!BackoffEnds, Ntf!Fault, Delivery!Fault

LEMMA SameWork ==
    \A w : /\ Ntf!Work(w) => Delivery!Work(w)
           /\ Ntf!WorkerError(w) => Delivery!WorkerError(w)
           /\ \A dies : Ntf!LockLost(w, dies) => Delivery!LockLost(w, dies)
<1> USE DEF Ntf!Fault, Delivery!Fault, Ntf!Back, Delivery!Back
<1>1. \A w : /\ \A n : Ntf!Take(w, n) => Delivery!Take(w, n)
             /\ Ntf!Send(w) => Delivery!Send(w)
             /\ Ntf!GiveUp(w) => Delivery!GiveUp(w)
  BY DEF Ntf!Take, Delivery!Take, Ntf!Send, Delivery!Send, Ntf!GiveUp, Delivery!GiveUp, Ntf!CanSend,
         Delivery!CanSend
<1>2. \A w : /\ Ntf!Record(w) => Delivery!Record(w)
             /\ Ntf!Finish(w) => Delivery!Finish(w)
  BY DEF Ntf!Record, Delivery!Record, Ntf!RowAfter, Delivery!RowAfter, Ntf!Finish, Delivery!Finish,
         Ntf!JobAfter, Delivery!JobAfter
<1>3. \A w : /\ Ntf!WorkerError(w) => Delivery!WorkerError(w)
             /\ \A dies : Ntf!LockLost(w, dies) => Delivery!LockLost(w, dies)
  BY DEF Ntf!WorkerError, Delivery!WorkerError, Ntf!AnotherAttempt, Delivery!AnotherAttempt,
         Ntf!LockLost, Delivery!LockLost
<1> QED
  BY <1>1, <1>2, <1>3 DEF Ntf!Work, Delivery!Work

\* What the two parts do by themselves, and the step they share.
LEMMA ServeIsService == Serve => Service!Next /\ UNCHANGED ntfVars
<1> SUFFICES ASSUME Serve PROVE Service!Next
  BY DEF Serve
<1>1. NoDepartment \in Departments \cup {NoDepartment}
  OBVIOUS
<1>2. \A u, c, o, d : Wor!Create(u, o, c, d) => Service!Create(u, o, c, d)
  BY DEF Wor!Create, Service!Create, Wor!InitialStatus, Service!InitialStatus, Wor!NewParties,
         Service!NewParties
<1> QED
  BY <1>1, <1>2, SameReceive, SameHandle DEF Serve, Service!Next, Service!Handle

LEMMA TellIsDelivery == Tell => Delivery!Next /\ UNCHANGED worVars
<1> SUFFICES ASSUME Tell PROVE Delivery!Next
  BY DEF Tell
<1> QED
  BY SameQueue, SameWork DEF Tell, Delivery!Next

LEMMA EmitIsBoth ==
    ASSUME LinkedConstants, NewsInv, NEW s \in Slots, Emit(s)
    PROVE  Service!Next /\ [Delivery!Next]_Delivery!vars
<1>1. PICK n : n = <<request[s].order, request[s].row>>
  OBVIOUS
<1>2. Wor!EmitEvent(s)
  BY DEF Emit
<1>3. PICK has \in Known : Ntf!StatusChanged(n, Change(n).to, Change(n).assignee # NoTechnician, has)
  BY <1>1 DEF Emit
<1>4. Service!Next
  BY <1>2, SameHandle DEF Service!Next, Service!Handle
<1>5. CASE n \in News
  <2>1. Change(n).to \in Delivery!OrderStatuses
    <3>1. /\ request[s].order \in Orders /\ history[request[s].order] \in Seq(Row)
          /\ request[s].row \in 1..Len(history[request[s].order])
      BY <1>2 DEF Wor!EmitEvent, NewsInv, ServiceInv, ServiceTypes, CommittedHaveRows
    <3>2. Change(n) \in Row
      BY <1>1, <3>1 DEF Change
    <3> QED
      BY <3>2 DEF Row, Wor!Statuses, Delivery!OrderStatuses
  <2>2. has \in Delivery!Contacts /\ (Change(n).assignee # NoTechnician) \in BOOLEAN
    BY DEF LinkedConstants, Ntf!Contacts, Delivery!Contacts
  <2>3. Delivery!StatusChanged(n, Change(n).to, Change(n).assignee # NoTechnician, has)
    BY <1>3, SameStatusChanged
  <2> QED
    BY <1>4, <1>5, <2>1, <2>2, <2>3 DEF Delivery!Next
<1>6. CASE n \notin News
  <2>1. notice' = notice /\ UNCHANGED <<row, job, worker, deliveries, faults>>
    BY <1>3, <1>6 DEF Ntf!StatusChanged, NewsInv, QueueInv, QueueTypes, Ntf!TypeOK
  <2> QED
    BY <1>4, <2>1 DEF Delivery!vars
<1> QED
  BY <1>5, <1>6

\* Whatever the subscriber and the workers do to it, the service behaves as it
\* does alone; and whatever orders are moved in between, notifications do.
THEOREM PartsComposed ==
    ASSUME LinkedConstants
    PROVE  Spec => Service!Spec /\ Delivery!Spec
<1>1. Init => Service!Init /\ Delivery!Init /\ NewsInv
  <2>1. Init => Service!Init
    BY DEF Init, Wor!Init, Service!Init, Wor!Idle, Service!Idle
  <2>2. Init => Delivery!Init
    BY DEF Init, Ntf!Init, Delivery!Init
  <2> QED
    BY <2>1, <2>2, NewsInit DEF LinkedConstants
<1>2. NewsInv /\ [Next]_vars => NewsInv'
  BY NewsStep DEF LinkedConstants
<1>3. NewsInv /\ [Next]_vars => [Service!Next]_Service!vars /\ [Delivery!Next]_Delivery!vars
  BY ServeIsService, TellIsDelivery, EmitIsBoth
  DEF Next, vars, worVars, ntfVars, Service!vars, Delivery!vars
<1> QED
  BY <1>1, <1>2, <1>3, PTL DEF Spec, Service!Spec, Delivery!Spec

-----------------------------------------------------------------------------
\* What was proved of the parts then holds of the whole.

\* However many requests overlap and jobs are repeated: a transition is reported
\* once and by its own handler, and who is told of it, once and once more at most
\* for every fault, is told of a lawful one (transition(), NotificationSubscriber,
\* NotificationWorker).
THEOREM ChangesToldOnce ==
    ASSUME LinkedConstants
    PROVE  Spec => []EachChangeToldOnce
<1>1. Init => NewsInv /\ OnceInv
  BY NewsInit, OnceInit DEF LinkedConstants
<1>2. NewsInv /\ OnceInv /\ [Next]_vars => NewsInv' /\ OnceInv'
  BY NewsStep, OnceStep DEF LinkedConstants
<1>3. Service!Spec => []Service!HistoryObeysRules
  <2>1. Service!RoleAssumption /\ Service!NoTechnicianAssumption
    BY RoleAssumption, NoTechnicianAssumption
    DEF Service!RoleAssumption, Service!NoTechnicianAssumption, Roles, Service!Roles
  <2>2. Service!DepartmentAssumption /\ Service!NullsAssumption /\ Service!BoundsAssumption
    BY DEF LinkedConstants, Service!DepartmentAssumption, Service!NullsAssumption,
           Service!BoundsAssumption
  <2> QED
    BY <2>1, <2>2, Service!TrailIsLawful, PTL
<1>4. Delivery!Spec => []Delivery!DeliveredOncePerFault
  <2>1. Delivery!NullAssumption /\ Delivery!LimitAssumption /\ Delivery!AdapterAssumption
    BY DEF LinkedConstants, Delivery!NullAssumption, Delivery!LimitAssumption,
           Delivery!AdapterAssumption
  <2> QED
    BY <2>1, Delivery!DeliveriesBounded, PTL
<1>5. NewsInv /\ OnceInv /\ Service!HistoryObeysRules /\ Delivery!DeliveredOncePerFault
        => EachChangeToldOnce
  <2> SUFFICES ASSUME NewsInv, OnceInv, Service!HistoryObeysRules, Delivery!DeliveredOncePerFault,
                      NEW n \in News, deliveries[n] > 0
               PROVE  /\ n \in emitted
                      /\ Change(n).to \in Transitions[Change(n).from]
                      /\ Role[Change(n).by] \in MoverRoles(Change(n).from, Change(n).to)
                      /\ deliveries[n] <= 1 + faults
    BY DEF EachChangeToldOnce, OnceInv, ReportsAreOwn, SeenAreReported
  <2>1. notice[n].stage # "unseen"
    BY DEF NewsInv, QueueInv, JobsFollow
  <2>2. n \in emitted
    BY <2>1 DEF OnceInv, SeenAreReported
  <2>3. n[1] \in Orders /\ n[2] \in Service!TrailOf(n[1])
    BY <2>2 DEF OnceInv, ReportedAreRows, Service!TrailOf
  <2>4. /\ Change(n).to \in Service!Transitions[Change(n).from]
        /\ Role[Change(n).by] \in Service!MoverRoles(Change(n).from, Change(n).to)
    BY <2>3 DEF Service!HistoryObeysRules, Change
  <2>5. Service!Transitions = Transitions /\ Service!CancelRoles = CancelRoles
    BY DEF Service!Transitions, Transitions, Service!CancelRoles, CancelRoles, Service!Statuses, Statuses
  <2>6. Service!MoverRoles(Change(n).from, Change(n).to) = MoverRoles(Change(n).from, Change(n).to)
    BY <2>5 DEF Service!MoverRoles, MoverRoles
  <2> QED
    BY <2>2, <2>4, <2>5, <2>6 DEF Delivery!DeliveredOncePerFault
<1> QED
  BY <1>1, <1>2, <1>3, <1>4, <1>5, PartsComposed, PTL DEF Spec
=============================================================================
