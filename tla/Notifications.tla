--------------------------- MODULE Notifications ---------------------------
(***************************************************************************)
(* Telling people about a status change: NotificationSubscriber turns a    *)
(* WorkOrderStatusChangedEvent into at most one notification, enqueue()    *)
(* stores it as PENDING and adds a BullMQ job, and NotificationWorker      *)
(* takes the job, sends through the channel's adapter and records SENT or  *)
(* FAILED.                                                                 *)
(*                                                                         *)
(* The row is in Postgres and the job in Redis, written one after the      *)
(* other; the send, the record of its outcome and the end of the job are   *)
(* three steps.  BullMQ gives a job to one worker under a lock that can be *)
(* lost while the worker still runs, and then hands the job to another.    *)
(***************************************************************************)
EXTENDS Naturals

CONSTANTS
    Notices,        \* one per status change of some order
    Workers,        \* concurrent job processors, over all instances
    NoWorker, NoNotice,
    Adapters,       \* the channels whose adapter is registered
    MaxAttempts,    \* the job option `attempts`
    MaxStalled,     \* BullMQ's limit on stalls of one job
    MaxFaults       \* bound: errors and deaths of the program's own processes

ASSUME NullAssumption == NoWorker \notin Workers /\ NoNotice \notin Notices

ASSUME LimitAssumption ==
    MaxAttempts \in Nat \ {0} /\ MaxStalled \in Nat /\ MaxFaults \in Nat

ASSUME AdapterAssumption == Adapters \subseteq {"LINE", "EMAIL"}

VARIABLES
    notice,         \* the subscriber's progress with a status change
    row,            \* notifications.status, "NONE" before the row exists
    job,            \* the BullMQ job
    worker,         \* what each worker is doing
    deliveries,     \* how often the provider accepted the message
    faults

vars == <<notice, row, job, worker, deliveries, faults>>

-----------------------------------------------------------------------------

Channels == {"LINE", "EMAIL"}

\* What the database knows of a recipient.
Contacts == SUBSET {"LINE", "EMAIL", "PHONE"}

OrderStatuses == {"REQUESTED", "ASSIGNED", "ACCEPTED", "RESCHEDULED",
                  "EN_ROUTE", "IN_PROGRESS", "ISSUE", "ESCALATED",
                  "COMPLETED", "CANCELLED"}

Notice == [stage : {"unseen", "received", "stored", "closed"},
           channel : Channels, reachable : BOOLEAN]

Job == [state : {"none", "waiting", "active", "delayed", "completed", "failed"},
        owner : Workers \cup {NoWorker}, attempts : Nat, stalls : Nat]

Worker == [notice : Notices \cup {NoNotice},
           phase : {"idle", "sending", "succeeded", "failed", "recorded"}]

Init ==
    /\ notice = [n \in Notices |->
                    [stage |-> "unseen", channel |-> "EMAIL", reachable |-> FALSE]]
    /\ row = [n \in Notices |-> "NONE"]
    /\ job = [n \in Notices |->
                 [state |-> "none", owner |-> NoWorker, attempts |-> 0, stalls |-> 0]]
    /\ worker = [w \in Workers |-> [notice |-> NoNotice, phase |-> "idle"]]
    /\ deliveries = [n \in Notices |-> 0]
    /\ faults = 0

Fault == faults < MaxFaults /\ faults' = faults + 1

-----------------------------------------------------------------------------
\* NotificationSubscriber.

TechnicianNews == {"ASSIGNED", "ACCEPTED", "IN_PROGRESS", "RESCHEDULED"}
CustomerNews   == {"EN_ROUTE", "COMPLETED"}
DealerNews     == {"ISSUE", "ESCALATED"}

\* Whether a change to status `to` tells anyone.  held: the order has a
\* technician; has: the contacts of the recipient.
Wanted(to, held, has) ==
    \/ to \in TechnicianNews /\ held
    \/ to = "EN_ROUTE" /\ has \cap Channels # {}
    \/ to = "COMPLETED"
    \/ to \in DealerNews

ChannelFor(to, has) ==
    IF \/ to \in TechnicianNews
       \/ to = "EN_ROUTE" /\ "LINE" \in has
    THEN "LINE" ELSE "EMAIL"

\* resolveUserRecipient and resolveCustomerRecipient: for EMAIL a customer's
\* phone number stands in for a missing address.
Resolves(to, channel, has) ==
    \/ channel \in has
    \/ channel = "EMAIL" /\ to \in CustomerNews /\ "PHONE" \in has

\* handleStatusChange starts on an event.
StatusChanged(n, to, held, has) ==
    LET channel == ChannelFor(to, has) IN
    /\ notice[n].stage = "unseen"
    /\ notice' = [notice EXCEPT ![n] =
           [stage |-> IF Wanted(to, held, has) THEN "received" ELSE "closed",
            channel |-> channel,
            reachable |-> Resolves(to, channel, has)]]
    /\ UNCHANGED <<row, job, worker, deliveries, faults>>

\* enqueue(): the row, then the job.
Store(n) ==
    /\ notice[n].stage = "received"
    /\ row' = [row EXCEPT ![n] = "PENDING"]
    /\ notice' = [notice EXCEPT ![n].stage = "stored"]
    /\ UNCHANGED <<job, worker, deliveries, faults>>

\* Fault: the job is not added.
StoredOnly(n) ==
    /\ notice[n].stage = "stored"
    /\ notice' = [notice EXCEPT ![n].stage = "closed"]
    /\ UNCHANGED <<row, job, worker, deliveries, faults>>

Enqueue(n) ==
    /\ notice[n].stage = "stored"
    /\ job' = [job EXCEPT ![n].state = "waiting"]
    /\ notice' = [notice EXCEPT ![n].stage = "closed"]
    /\ UNCHANGED <<row, worker, deliveries, faults>>

\* Postgres or Redis refuses, which handleStatusChange logs and swallows, or the
\* process dies.  A row that was stored stays PENDING without a job.
NoticeLost(n) ==
    /\ notice[n].stage \in {"received", "stored"}
    /\ notice' = [notice EXCEPT ![n].stage = "closed"]
    /\ Fault
    /\ UNCHANGED <<row, job, worker, deliveries>>

-----------------------------------------------------------------------------
\* NotificationWorker and process().

Take(w, n) ==
    /\ worker[w].phase = "idle"
    /\ job[n].state = "waiting"
    /\ job' = [job EXCEPT ![n].state = "active", ![n].owner = w]
    /\ worker' = [worker EXCEPT ![w] = [notice |-> n, phase |-> "sending"]]
    /\ UNCHANGED <<notice, row, deliveries, faults>>

CanSend(n) == notice[n].channel \in Adapters /\ notice[n].reachable

\* adapter.send: the adapters never throw.  The provider accepts the message or
\* not, and an answer that is lost after it accepted reads as a failure.
Send(w) ==
    LET n == worker[w].notice IN
    /\ worker[w].phase = "sending"
    /\ CanSend(n)
    /\ \E accepted \in BOOLEAN, success \in BOOLEAN :
           /\ success => accepted
           /\ deliveries' = IF accepted THEN [deliveries EXCEPT ![n] = @ + 1]
                            ELSE deliveries
           /\ worker' = [worker EXCEPT ![w].phase =
                            IF success THEN "succeeded" ELSE "failed"]
    /\ UNCHANGED <<notice, row, job, faults>>

\* No adapter for the channel, or no recipient resolved.
GiveUp(w) ==
    /\ worker[w].phase = "sending"
    /\ ~CanSend(worker[w].notice)
    /\ worker' = [worker EXCEPT ![w].phase = "failed"]
    /\ UNCHANGED <<notice, row, job, deliveries, faults>>

\* Fault: the outcome of the send is not looked at.
AlwaysSent(phase) == "SENT"

RowAfter(phase) == IF phase = "succeeded" THEN "SENT" ELSE "FAILED"

Back == [notice |-> NoNotice, phase |-> "idle"]

\* process() writes the outcome to the row and returns.
Record(w) ==
    /\ worker[w].phase \in {"succeeded", "failed"}
    /\ row' = [row EXCEPT ![worker[w].notice] = RowAfter(worker[w].phase)]
    /\ worker' = [worker EXCEPT ![w].phase = "recorded"]
    /\ UNCHANGED <<notice, job, deliveries, faults>>

\* Fault: a failed send puts the job back to be tried again.
RetriedOnFailure(outcome) == IF outcome = "FAILED" THEN "waiting" ELSE "completed"

\* Fault: a job is put back however its send went.
RetriedAlways(outcome) == "waiting"

\* BullMQ completes a job whose processor returns, and process() returns however
\* the send went.
JobAfter(outcome) == "completed"

\* BullMQ closes the job, or finds that the lock was lost.
Finish(w) ==
    LET n == worker[w].notice IN
    /\ worker[w].phase = "recorded"
    /\ job' = IF job[n].owner # w THEN job
              ELSE [job EXCEPT ![n].state = JobAfter(row[n]), ![n].owner = NoWorker]
    /\ worker' = [worker EXCEPT ![w] = Back]
    /\ UNCHANGED <<notice, row, deliveries, faults>>

\* The job with another attempt counted: it waits for its backoff, or is given up.
AnotherAttempt(j) ==
    [state |-> IF j.attempts + 1 < MaxAttempts THEN "delayed" ELSE "failed",
     owner |-> NoWorker, attempts |-> j.attempts + 1, stalls |-> j.stalls]

\* A query of process() fails and it throws.
WorkerError(w) ==
    LET n == worker[w].notice IN
    /\ worker[w].phase \in {"sending", "succeeded", "failed"}
    /\ job' = IF job[n].owner # w THEN job
              ELSE [job EXCEPT ![n] = AnotherAttempt(@)]
    /\ worker' = [worker EXCEPT ![w] = Back]
    /\ Fault
    /\ UNCHANGED <<notice, row, deliveries>>

\* The worker's process dies, or it keeps running but fails to renew its lock.
LockLost(w, dies) ==
    LET n == worker[w].notice IN
    /\ worker[w].phase # "idle"
    /\ dies \/ job[n].owner = w
    /\ job' = IF job[n].owner = w THEN [job EXCEPT ![n].owner = NoWorker] ELSE job
    /\ worker' = IF dies THEN [worker EXCEPT ![w] = Back] ELSE worker
    /\ Fault
    /\ UNCHANGED <<notice, row, deliveries>>

\* BullMQ finds an active job without a lock and queues it again, up to a limit.
Stalled(n) ==
    /\ job[n].state = "active"
    /\ job[n].owner = NoWorker
    /\ job' = [job EXCEPT ![n].stalls = @ + 1,
                          ![n].state = IF job[n].stalls + 1 > MaxStalled THEN "failed"
                                       ELSE "waiting"]
    /\ UNCHANGED <<notice, row, worker, deliveries, faults>>

\* The exponential backoff of a failed attempt runs out.
BackoffEnds(n) ==
    /\ job[n].state = "delayed"
    /\ job' = [job EXCEPT ![n].state = "waiting"]
    /\ UNCHANGED <<notice, row, worker, deliveries, faults>>

-----------------------------------------------------------------------------

Subscriber(n) == Store(n) \/ Enqueue(n)

Queue(n) == Stalled(n) \/ BackoffEnds(n)

Work(w) == (\E n \in Notices : Take(w, n)) \/ Send(w) \/ GiveUp(w) \/ Record(w)
           \/ Finish(w)

Next ==
    \/ \E n \in Notices, to \in OrderStatuses, held \in BOOLEAN, has \in Contacts :
           StatusChanged(n, to, held, has)
    \/ \E n \in Notices : Subscriber(n) \/ NoticeLost(n) \/ Queue(n)
    \/ \E w \in Workers : Work(w) \/ WorkerError(w)
    \/ \E w \in Workers, dies \in BOOLEAN : LockLost(w, dies)

Spec == Init /\ [][Next]_vars

\* Handlers that were started run on, workers take what waits, BullMQ's timers
\* fire.  Status changes and faults are owed by nobody.
Fairness ==
    /\ \A n \in Notices : WF_vars(Subscriber(n)) /\ WF_vars(Queue(n))
    /\ \A w \in Workers : WF_vars(Work(w))

FairSpec == Spec /\ Fairness

-----------------------------------------------------------------------------
\* Properties.

TypeOK ==
    /\ notice \in [Notices -> Notice]
    /\ row \in [Notices -> {"NONE", "PENDING", "SENT", "FAILED"}]
    /\ job \in [Notices -> Job]
    /\ worker \in [Workers -> Worker]
    /\ deliveries \in [Notices -> Nat]
    /\ faults \in Nat

\* A notification shown as SENT was accepted by its provider.
SentMeansDelivered == \A n \in Notices : row[n] = "SENT" => deliveries[n] > 0

\* Nobody is told twice unless something broke, and then at most once more for
\* each thing that broke: stalled jobs, lost locks and failed queries rerun the
\* send, answers lost by the provider do not.
DeliveredOncePerFault == \A n \in Notices : deliveries[n] <= 1 + faults

\* What was recorded as SENT is not overwritten, unless a second worker was
\* given the job after a fault.
SentStays ==
    [][\A n \in Notices : row[n] = "SENT" => row'[n] = "SENT" \/ faults > 0]_vars

\* A job, however often it is retried or stalls, comes to an end.
JobsEnd ==
    \A n \in Notices :
        job[n].state = "waiting" ~> job[n].state \in {"completed", "failed"}

\* A stored notification does not stay PENDING unless something broke.
SettledUnlessFault ==
    \A n \in Notices :
        row[n] = "PENDING" ~> (row[n] \in {"SENT", "FAILED"} \/ faults > 0)

\* Whatever went wrong, a PENDING notification is in somebody's hands: its
\* handler has yet to add the job, the job waits or is delayed, a worker that owns
\* it is at work on it, or its lock is lost and BullMQ will find it.  Otherwise
\* something broke, and the job was never added or has been given up.
PendingIsCarried ==
    \A n \in Notices : row[n] = "PENDING" =>
        \/ notice[n].stage = "stored"
        \/ job[n].state \in {"waiting", "delayed"}
        \/ /\ job[n].state = "active"
           /\ \/ job[n].owner = NoWorker
              \/ \E w \in Workers : /\ job[n].owner = w
                                    /\ worker[w].notice = n
                                    /\ worker[w].phase \in {"sending", "succeeded", "failed"}
        \/ faults > 0 /\ job[n].state \in {"none", "failed"}

\* Queue, locks and workers implement the life of a notification that is told and
\* settled once, and once more at most for every thing that breaks.
Life == INSTANCE NotificationLifecycle WITH
            outcome <- row, told <- deliveries, broken <- faults
SettledOnce == Life!Spec

\* Failed sends are retried: the job of a message that could be sent is not
\* completed while its sends have failed and attempts are left.
FailedSendsRetried ==
    \A n \in Notices :
        job[n].state = "completed" /\ row[n] = "FAILED" /\ CanSend(n) =>
            job[n].attempts >= MaxAttempts
=============================================================================
