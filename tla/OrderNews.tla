------------------------------ MODULE OrderNews ------------------------------
(***************************************************************************)
(* WorkOrders and Notifications together.  They share one step: emit calls *)
(* the subscriber at once, up to its first await, with the order as the    *)
(* transaction returned it.  Everything else interleaves: other requests   *)
(* move the order while the news of an earlier transition is stored,       *)
(* queued, retried and sent.                                               *)
(***************************************************************************)
EXTENDS WorkOrderRules

CONSTANTS Orders, Slots, Departments, NoDepartment, DepartmentOf, NoUser, NoOrder,
          MaxHistory, MaxCrashes,
          Workers, NoWorker, NoNotice, Adapters, MaxAttempts, MaxStalled, MaxFaults,
          Known        \* what is known of recipients: subsets of LINE, EMAIL, PHONE

VARIABLES status, technicianId, completedAt, parties, history, request, emitted, crashes,
          notice, row, job, worker, deliveries, faults,
          addressee      \* user or customer of each notification

\* A transition is named by its order and the number of its audit row; requests
\* that overlap make the trail longer than the bound by one row per handler.
News == Orders \X (1..(MaxHistory + 2))

Wor == INSTANCE WorkOrders
Ntf == INSTANCE Notifications WITH Notices <- News

worVars == <<status, technicianId, completedAt, parties, history, request, emitted, crashes>>
ntfVars == <<notice, row, job, worker, deliveries, faults>>
vars == <<worVars, ntfVars, addressee>>

Init == Wor!Init /\ Ntf!Init /\ addressee = [n \in News |-> NoUser]

Change(n) == history[n[1]][n[2]]

-----------------------------------------------------------------------------
\* Fault: the technician is read from the order as it is by now.
AddresseeNow(n) ==
    IF Change(n).to \in Ntf!TechnicianNews THEN technicianId[n[1]]
    ELSE IF Change(n).to \in Ntf!CustomerNews THEN parties[n[1]].customer
    ELSE parties[n[1]].dealer

\* The technician is the one the event carries; the dealer is read again, but
\* never changes.
Addressee(n) ==
    IF Change(n).to \in Ntf!TechnicianNews THEN Change(n).assignee
    ELSE IF Change(n).to \in Ntf!CustomerNews THEN parties[n[1]].customer
    ELSE parties[n[1]].dealer

\* eventEmitter.emit: the handler of the request runs the subscriber.
Emit(s) ==
    LET n == <<request[s].order, request[s].row>>
    IN  /\ Wor!EmitEvent(s)
        /\ \E has \in Known :
               Ntf!StatusChanged(n, Change(n).to, Change(n).assignee # NoTechnician, has)
        /\ addressee' = [addressee EXCEPT ![n] = Addressee(n)]

\* The work orders move without emitting.
Serve ==
    /\ \/ \E u, c \in Users, o \in Orders : Wor!Create(u, o, c, NoDepartment)
       \/ \E s \in Slots, u \in Users, o \in Orders : Wor!Receive(s, u, o)
       \/ \E s \in Slots : \/ Wor!Recheck(s) \/ Wor!RecheckConflict(s) \/ Wor!InsertRejected(s)
                           \/ Wor!RolledBack(s) \/ Wor!Commit(s) \/ Wor!Publish(s)
                           \/ Wor!AnswerError(s) \/ Wor!Crash(s)
    /\ UNCHANGED <<ntfVars, addressee>>

\* The notifications move without an event.
Tell ==
    /\ \/ \E n \in News : Ntf!Subscriber(n) \/ Ntf!NoticeLost(n) \/ Ntf!Queue(n)
       \/ \E w \in Workers : Ntf!Work(w) \/ Ntf!WorkerError(w)
       \/ \E w \in Workers, dies \in BOOLEAN : Ntf!LockLost(w, dies)
    /\ UNCHANGED <<worVars, addressee>>

Next == Serve \/ Tell \/ \E s \in Slots : Emit(s)

Spec == Init /\ [][Next]_vars

-----------------------------------------------------------------------------
AtRest ==
    /\ \A s \in Slots : request[s].phase = "idle"
    /\ \A n \in News : /\ notice[n].stage \notin {"received", "stored"}
                       /\ job[n].state \notin {"waiting", "active", "delayed"}

\* Changes the subscriber has somebody to tell of, whatever is known of whom: the
\* technician of assigned, accepted, in progress and rescheduled, the customer of
\* completed, the dealer of issue and escalated.  EN_ROUTE waits for a contact.
\* Architecture.md:123 lists accepted among what the customer is to hear of; the
\* subscriber has no case that tells a customer so.
Concerning(n) ==
    \/ Change(n).to \in Ntf!TechnicianNews /\ Change(n).assignee # NoTechnician
    \/ Change(n).to \in Ntf!DealerNews \cup {"COMPLETED"}

\* What a handler that committed is about to report.
ToReport == {s \in Slots : request[s].phase = "committed"}
Report(s) == <<request[s].order, request[s].row>>

\* A transition is reported by the one handler that committed it, and once; the
\* subscriber has seen those that were reported and no others; and whoever is
\* told, once and once more at most for every fault, is told of an edge of the
\* state diagram made by a role that owns it (transition(),
\* NotificationSubscriber, NotificationWorker).
EachChangeToldOnce ==
    /\ \A s \in ToReport : /\ Report(s) \notin emitted
                           /\ \A q \in ToReport \ {s} : Report(q) # Report(s)
    /\ emitted \cap News = {n \in News : notice[n].stage # "unseen"}
    /\ \A n \in News : deliveries[n] > 0 =>
         /\ n \in emitted
         /\ Change(n).to \in Transitions[Change(n).from]
         /\ Role[Change(n).by] \in MoverRoles(Change(n).from, Change(n).to)
         /\ deliveries[n] <= 1 + faults

\* However requests overlap and the order moves on while its news is under way:
\* who is told of a transition is a party of its order or a technician it had
\* been assigned to by then, and is told of a committed one; and once everything
\* rests, nothing having failed, the news of every committed transition that the
\* subscriber has somebody to tell of has been tried (transition(),
\* NotificationSubscriber, NotificationWorker).  Whom the documents would have
\* told as well is not part of it: see Concerning.
NewsMatchTrail ==
    /\ \A n \in News : deliveries[n] > 0 =>
         /\ n[2] <= Len(history[n[1]])
         /\ \/ addressee[n] \in {parties[n[1]].dealer, parties[n[1]].customer}
            \/ \E i \in 1..n[2] : /\ history[n[1]][i].to = "ASSIGNED"
                                  /\ history[n[1]][i].assignee = addressee[n]
    /\ AtRest /\ crashes = 0 /\ faults = 0 =>
         \A n \in News : n[2] <= Len(history[n[1]]) /\ Concerning(n) => row[n] \in {"SENT", "FAILED"}
=============================================================================
