------------------------ MODULE NotificationProofs ------------------------
(***************************************************************************)
(* Proofs about Notifications: typing, that SENT was really sent and is    *)
(* kept, and that the number of messages a recipient gets is bounded by    *)
(* what went wrong.                                                        *)
(***************************************************************************)
EXTENDS Notifications, FiniteSetTheorems, TLAPS

\* A worker that is busy is busy with a notification.
BusyWithNotice ==
    \A w \in Workers : worker[w].phase # "idle" => worker[w].notice \in Notices

Typed == TypeOK /\ BusyWithNotice

-----------------------------------------------------------------------------
\* Typing.

LEMMA TypedInit == Init => Typed
BY DEF Init, Typed, TypeOK, BusyWithNotice, Channels, Notice, Job, Worker

LEMMA AttemptTyped ==
    ASSUME NEW j \in Job
    PROVE  /\ AnotherAttempt(j) \in Job
           /\ AnotherAttempt(j).owner = NoWorker
           /\ AnotherAttempt(j).state \in {"delayed", "failed"}
<1>1. j.attempts + 1 \in Nat /\ j.stalls \in Nat
  BY DEF Job
<1>. QED  BY <1>1 DEF AnotherAttempt, Job

LEMMA TypedStep ==
    ASSUME Typed, [Next]_vars
    PROVE  Typed'
<1>. USE DEF Typed, TypeOK, BusyWithNotice
<1>1. ASSUME NEW n \in Notices, NEW to \in OrderStatuses, NEW held \in BOOLEAN,
             NEW has \in Contacts, StatusChanged(n, to, held, has)
      PROVE  Typed'
  <2>1. ChannelFor(to, has) \in Channels
    BY DEF ChannelFor, Channels
  <2>2. Resolves(to, ChannelFor(to, has), has) \in BOOLEAN
    BY DEF Resolves
  <2>. QED  BY <1>1, <2>1, <2>2 DEF StatusChanged, Notice
<1>2. ASSUME NEW n \in Notices, Subscriber(n) \/ NoticeLost(n)
      PROVE  Typed'
  <2>1. [notice[n] EXCEPT !.stage = "stored"] \in Notice
        /\ [notice[n] EXCEPT !.stage = "closed"] \in Notice
    BY DEF Notice
  <2>2. [job[n] EXCEPT !.state = "waiting"] \in Job
    BY DEF Job
  <2>. QED  BY <1>2, <2>1, <2>2 DEF Subscriber, Store, Enqueue, NoticeLost, Fault
<1>3. ASSUME NEW n \in Notices, Queue(n)
      PROVE  Typed'
  <2>1. job'[n] \in Job
    BY <1>3 DEF Queue, Stalled, BackoffEnds, Job
  <2>. QED  BY <1>3, <2>1 DEF Queue, Stalled, BackoffEnds
<1>4. ASSUME NEW w \in Workers, NEW n \in Notices, Take(w, n)
      PROVE  Typed'
  <2>1. job'[n] \in Job /\ worker'[w] \in Worker /\ worker'[w].notice \in Notices
    BY <1>4 DEF Take, Job, Worker
  <2>. QED  BY <1>4, <2>1 DEF Take
<1>5. ASSUME NEW w \in Workers, Send(w) \/ GiveUp(w) \/ Record(w)
      PROVE  Typed'
  <2>1. worker[w].notice \in Notices
    BY <1>5 DEF Send, GiveUp, Record
  <2>2. worker'[w] \in Worker /\ worker'[w].notice \in Notices
    BY <1>5, <2>1 DEF Send, GiveUp, Record, Worker
  <2>. QED  BY <1>5, <2>1, <2>2 DEF Send, GiveUp, Record, RowAfter
<1>6. ASSUME NEW w \in Workers, Finish(w)
      PROVE  Typed'
  <2>1. worker[w].notice \in Notices
    BY <1>6 DEF Finish
  <2>2. Back \in Worker /\ Back.phase = "idle"
    BY DEF Back, Worker
  <2>3. job'[worker[w].notice] \in Job
    BY <1>6, <2>1 DEF Finish, JobAfter, Job
  <2>. QED  BY <1>6, <2>1, <2>2, <2>3 DEF Finish
<1>7. ASSUME NEW w \in Workers, WorkerError(w)
      PROVE  Typed'
  <2>1. worker[w].notice \in Notices
    BY <1>7 DEF WorkerError
  <2>2. Back \in Worker /\ Back.phase = "idle"
    BY DEF Back, Worker
  <2>3. job'[worker[w].notice] \in Job
    <3>1. AnotherAttempt(job[worker[w].notice]) \in Job
      BY <2>1, AttemptTyped
    <3>. QED  BY <1>7, <2>1, <3>1 DEF WorkerError
  <2>. QED  BY <1>7, <2>1, <2>2, <2>3 DEF WorkerError, Fault
<1>8. ASSUME NEW w \in Workers, NEW dies \in BOOLEAN, LockLost(w, dies)
      PROVE  Typed'
  <2>1. worker[w].notice \in Notices
    BY <1>8 DEF LockLost
  <2>2. Back \in Worker /\ Back.phase = "idle"
    BY DEF Back, Worker
  <2>3. job'[worker[w].notice] \in Job
    BY <1>8, <2>1 DEF LockLost, Job
  <2>. QED  BY <1>8, <2>1, <2>2, <2>3 DEF LockLost, Fault
<1>9. CASE UNCHANGED vars
  BY <1>9 DEF vars
<1>. QED
  BY <1>1, <1>2, <1>3, <1>4, <1>5, <1>6, <1>7, <1>8, <1>9 DEF Next, Work

LEMMA TypedAlways == Spec => []Typed
BY TypedInit, TypedStep, PTL DEF Spec

\* Rows, jobs and workers are always well-formed.
THEOREM TypeCorrect == Spec => []TypeOK
<1>1. Typed => TypeOK
  BY DEF Typed
<1>. QED  BY <1>1, TypedAlways, PTL

-----------------------------------------------------------------------------
\* SENT was sent.

\* A worker about to record a success has seen its message accepted.
SuccessWasAccepted ==
    \A w \in Workers :
        worker[w].phase = "succeeded" => deliveries[worker[w].notice] > 0

LEMMA SentStep ==
    ASSUME Typed, SuccessWasAccepted, SentMeansDelivered, [Next]_vars
    PROVE  SuccessWasAccepted' /\ SentMeansDelivered'
<1>. DEFINE Good == SuccessWasAccepted' /\ SentMeansDelivered'
<1>. USE DEF Typed, TypeOK, BusyWithNotice, SuccessWasAccepted, SentMeansDelivered
<1>1. ASSUME UNCHANGED <<deliveries, row>>,
             \A w \in Workers : worker'[w] = worker[w] \/ worker'[w].phase # "succeeded"
      PROVE  Good
  BY <1>1
<1>2. ASSUME NEW n \in Notices, Store(n)
      PROVE  Good
  BY <1>2 DEF Store
<1>3. ASSUME NEW w \in Workers, Send(w)
      PROVE  Good
  <2>1. worker[w].notice \in Notices
    BY <1>3 DEF Send
  <2>2. \A n \in Notices : deliveries'[n] >= deliveries[n]
    BY <1>3, <2>1 DEF Send
  <2>3. worker'[w].phase = "succeeded" => deliveries'[worker[w].notice] > 0
    BY <1>3, <2>1 DEF Send
  <2>4. \A v \in Workers : worker'[v].notice = worker[v].notice
                           /\ (v # w => worker'[v] = worker[v])
    BY <1>3 DEF Send
  <2>5. row' = row
    BY <1>3 DEF Send
  <2>6. SentMeansDelivered'
    BY <2>2, <2>5, <1>3 DEF Send
  <2>7. ASSUME NEW v \in Workers, worker'[v].phase = "succeeded"
        PROVE  deliveries'[worker'[v].notice] > 0
    <3>1. CASE v = w
      BY <2>3, <2>4, <2>7, <3>1
    <3>2. CASE v # w
      <4>1. worker[v].notice \in Notices /\ deliveries[worker[v].notice] > 0
        BY <2>4, <2>7, <3>2
      <4>2. deliveries'[worker[v].notice] >= deliveries[worker[v].notice]
        BY <2>2, <4>1
      <4>3. deliveries'[worker[v].notice] \in Nat
        BY <1>3, <2>1, <4>1 DEF Send
      <4>. QED  BY <2>4, <4>1, <4>2, <4>3
    <3>. QED  BY <3>1, <3>2
  <2>. QED  BY <2>6, <2>7
<1>4. ASSUME NEW w \in Workers, Record(w)
      PROVE  Good
  BY <1>4 DEF Record, RowAfter
<1>5. ASSUME NEW n \in Notices, NEW w \in Workers, Take(w, n)
      PROVE  Good
  BY <1>1, <1>5 DEF Take
<1>6. ASSUME NEW w \in Workers, GiveUp(w) \/ Finish(w) \/ WorkerError(w)
      PROVE  Good
  <2>1. UNCHANGED <<deliveries, row>> /\ worker'[w].phase # "succeeded"
    BY <1>6 DEF GiveUp, Finish, WorkerError, Back, Worker
  <2>2. \A v \in Workers : v # w => worker'[v] = worker[v]
    BY <1>6 DEF GiveUp, Finish, WorkerError
  <2>. QED  BY <1>1, <2>1, <2>2
<1>7. ASSUME NEW w \in Workers, NEW dies \in BOOLEAN, LockLost(w, dies)
      PROVE  Good
  BY <1>1, <1>7 DEF LockLost, Back
<1>8. ASSUME UNCHANGED <<deliveries, row, worker>>
      PROVE  Good
  BY <1>1, <1>8
<1>. QED
  BY <1>2, <1>3, <1>4, <1>5, <1>6, <1>7, <1>8
     DEF Next, Work, Subscriber, Queue, StatusChanged, Enqueue, NoticeLost,
         Stalled, BackoffEnds, vars

\* A notification recorded as SENT was accepted by its provider, however its job
\* stalled, was retried or was run twice at once.
THEOREM SentWasDelivered == Spec => []SentMeansDelivered
<1>1. Init => SuccessWasAccepted /\ SentMeansDelivered
  BY DEF Init, SuccessWasAccepted, SentMeansDelivered
<1>. QED  BY <1>1, SentStep, TypedAlways, PTL DEF Spec

-----------------------------------------------------------------------------
\* How often a recipient is told.

\* The workers about to send a notification, and whether its job may still be
\* handed to another.
Sending(n) == {w \in Workers : worker[w].phase = "sending" /\ worker[w].notice = n}

Due(n) ==
    IF \/ job[n].state \in {"none", "waiting", "delayed"}
       \/ job[n].state = "active" /\ job[n].owner = NoWorker
    THEN 1 ELSE 0

\* What has been sent, is being sent and may yet be sent is paid for by the one
\* regular delivery and the faults so far.
Paid(n) ==
    /\ IsFiniteSet(Sending(n))
    /\ deliveries[n] + Cardinality(Sending(n)) + Due(n) <= 1 + faults

Budget == \A n \in Notices : Paid(n)

\* A notice that has not been queued has no job, and only an active job has an
\* owner.
JobsFollow ==
    \A n \in Notices :
        /\ notice[n].stage \in {"unseen", "received", "stored"} => job[n].state = "none"
        /\ job[n].owner # NoWorker => job[n].state = "active"

LEMMA JobsInit == Init => JobsFollow
<1>. SUFFICES ASSUME Init, NEW n \in Notices
              PROVE  JobsFollow!(n)
  BY DEF JobsFollow
<1>1. job[n] = [state |-> "none", owner |-> NoWorker, attempts |-> 0, stalls |-> 0]
  BY DEF Init
<1>. QED  BY <1>1

LEMMA JobsStep ==
    ASSUME Typed, JobsFollow, [Next]_vars
    PROVE  JobsFollow'
<1>. USE NullAssumption DEF Typed, TypeOK, BusyWithNotice, JobsFollow
<1>1. ASSUME NEW n \in Notices, NEW to \in OrderStatuses, NEW held \in BOOLEAN,
             NEW has \in Contacts, StatusChanged(n, to, held, has)
      PROVE  JobsFollow'
  BY <1>1 DEF StatusChanged
<1>2. ASSUME NEW n \in Notices, Subscriber(n) \/ NoticeLost(n)
      PROVE  JobsFollow'
  BY <1>2 DEF Subscriber, Store, Enqueue, NoticeLost, Job, Notice
<1>3. ASSUME UNCHANGED notice,
             \A n \in Notices :
                 \/ job'[n] = job[n]
                 \/ /\ job[n].state # "none"
                    /\ job'[n].owner # NoWorker => job'[n].state = "active"
      PROVE  JobsFollow'
  BY <1>3
<1>4. ASSUME NEW n \in Notices, Queue(n)
      PROVE  JobsFollow'
  BY <1>3, <1>4 DEF Queue, Stalled, BackoffEnds, Job
<1>5. ASSUME NEW w \in Workers, NEW n \in Notices, Take(w, n)
      PROVE  JobsFollow'
  BY <1>3, <1>5 DEF Take, Job
<1>6. ASSUME NEW w \in Workers, Finish(w) \/ WorkerError(w)
      PROVE  JobsFollow'
  <2>. DEFINE m == worker[w].notice
  <2>1. m \in Notices
    BY <1>6 DEF Finish, WorkerError
  <2>2. UNCHANGED notice /\ \A n \in Notices : n # m => job'[n] = job[n]
    BY <1>6, <2>1 DEF Finish, WorkerError
  <2>3. job'[m] = job[m] \/ (job[m].owner = w /\ job'[m].owner = NoWorker)
    BY <1>6, <2>1, AttemptTyped DEF Finish, WorkerError, Job
  <2>. QED  BY <1>3, <2>1, <2>2, <2>3
<1>7. ASSUME NEW w \in Workers, NEW dies \in BOOLEAN, LockLost(w, dies)
      PROVE  JobsFollow'
  BY <1>3, <1>7 DEF LockLost, Job
<1>8. ASSUME UNCHANGED <<notice, job>>
      PROVE  JobsFollow'
  BY <1>8
<1>. QED
  BY <1>1, <1>2, <1>4, <1>5, <1>6, <1>7, <1>8
     DEF Next, Work, Send, GiveUp, Record, vars

\* The budget is kept when nobody starts or ends a send, and the job is handed
\* out again only for a fault.
LEMMA PaidKept ==
    ASSUME TypeOK, TypeOK', NEW n \in Notices, Paid(n),
           Sending(n)' = Sending(n), deliveries'[n] = deliveries[n],
           Due(n)' + faults <= Due(n) + faults'
    PROVE  Paid(n)'
<1>. DEFINE c == Cardinality(Sending(n))
<1>1. c \in Nat /\ Cardinality(Sending(n)') = c
  BY FS_CardinalityType DEF Paid
<1>2. /\ faults \in Nat /\ faults' \in Nat /\ deliveries[n] \in Nat
      /\ Due(n) \in Nat /\ Due(n)' \in Nat
  BY DEF TypeOK, Due
<1>. HIDE DEF c
<1>3. deliveries[n] + c + Due(n) <= 1 + faults
  BY DEF Paid, c
<1>4. deliveries[n] + c + Due(n)' <= 1 + faults'
  BY <1>1, <1>2, <1>3
<1>. QED  BY <1>1, <1>4 DEF Paid

\* A worker that stops sending leaves room for one delivery or one more run.
LEMMA PaidLeft ==
    ASSUME TypeOK, TypeOK', NEW n \in Notices, Paid(n),
           NEW w \in Sending(n), Sending(n)' = Sending(n) \ {w},
           deliveries'[n] + Due(n)' + faults <= deliveries[n] + Due(n) + 1 + faults'
    PROVE  Paid(n)'
<1>. DEFINE c == Cardinality(Sending(n))
<1>1. c \in Nat /\ IsFiniteSet(Sending(n)') /\ Cardinality(Sending(n)') = c - 1
  BY FS_CardinalityType, FS_RemoveElement DEF Paid
<1>2. /\ faults \in Nat /\ faults' \in Nat
      /\ deliveries[n] \in Nat /\ deliveries'[n] \in Nat
      /\ Due(n) \in Nat /\ Due(n)' \in Nat
  BY DEF TypeOK, Due
<1>. HIDE DEF c
<1>3. deliveries[n] + c + Due(n) <= 1 + faults
  BY DEF Paid, c
<1>4. deliveries'[n] + (c - 1) + Due(n)' <= 1 + faults'
  BY <1>1, <1>2, <1>3
<1>. QED  BY <1>1, <1>4 DEF Paid

\* A worker that takes the job spends what the waiting job stood for.
LEMMA PaidTaken ==
    ASSUME TypeOK, NEW n \in Notices, Paid(n),
           NEW w, w \notin Sending(n), Sending(n)' = Sending(n) \cup {w},
           Due(n) = 1, Due(n)' = 0, UNCHANGED <<deliveries, faults>>
    PROVE  Paid(n)'
<1>. DEFINE c == Cardinality(Sending(n))
<1>1. c \in Nat /\ IsFiniteSet(Sending(n)') /\ Cardinality(Sending(n)') = c + 1
  BY FS_CardinalityType, FS_AddElement DEF Paid
<1>2. faults \in Nat /\ deliveries[n] \in Nat
  BY DEF TypeOK
<1>. HIDE DEF c
<1>3. deliveries[n] + c + 1 <= 1 + faults
  BY DEF Paid, c
<1>4. deliveries[n] + (c + 1) + 0 <= 1 + faults
  BY <1>1, <1>2, <1>3
<1>. QED  BY <1>1, <1>4 DEF Paid

\* A worker that was not sending, or not this notification, does not change who
\* sends it.
LEMMA SendingSame ==
    ASSUME NEW n \in Notices, NEW w \in Workers,
           \A v \in Workers : v # w => worker'[v] = worker[v],
           w \in Sending(n)' <=> w \in Sending(n)
    PROVE  Sending(n)' = Sending(n)
BY DEF Sending

LEMMA SendingLess ==
    ASSUME NEW n \in Notices, NEW w \in Workers,
           \A v \in Workers : v # w => worker'[v] = worker[v],
           w \notin Sending(n)'
    PROVE  Sending(n)' = Sending(n) \ {w}
BY DEF Sending

\* A send that ends, or dies, with its worker.
LEMMA BudgetSendEnds ==
    ASSUME Typed, Typed', JobsFollow, Budget, NEW w \in Workers,
           Send(w) \/ GiveUp(w)
    PROVE  Budget'
<1>. USE DEF Typed, TypeOK
<1>. SUFFICES ASSUME NEW n \in Notices PROVE Paid(n)'
  BY DEF Budget
<1>1. \A v \in Workers : v # w => worker'[v] = worker[v]
  BY DEF Send, GiveUp
<1>2. worker'[w].phase # "sending" /\ worker[w].phase = "sending"
  BY DEF Send, GiveUp, Worker
<1>3. w \notin Sending(n)'
  BY <1>2 DEF Sending
<1>4. Due(n)' = Due(n) /\ faults' = faults
  BY DEF Send, GiveUp, Due
<1>5. CASE worker[w].notice = n
  <2>1. w \in Sending(n) /\ Sending(n)' = Sending(n) \ {w}
    BY <1>1, <1>2, <1>3, <1>5, SendingLess DEF Sending
  <2>2. deliveries'[n] <= deliveries[n] + 1
    BY <1>5 DEF Send, GiveUp
  <2>3. Due(n) \in Nat
    BY DEF Due
  <2>4. deliveries'[n] + Due(n)' + faults <= deliveries[n] + Due(n) + 1 + faults'
    BY <1>4, <2>2, <2>3
  <2>. QED  BY <2>1, <2>4, PaidLeft DEF Budget
<1>6. CASE worker[w].notice # n
  <2>1. Sending(n)' = Sending(n)
    BY <1>1, <1>3, <1>6, SendingSame DEF Sending
  <2>2. deliveries'[n] = deliveries[n]
    BY <1>6 DEF Send, GiveUp
  <2>3. Due(n)' + faults <= Due(n) + faults'
    BY <1>4 DEF Due
  <2>. QED  BY <2>1, <2>2, <2>3, PaidKept DEF Budget
<1>. QED  BY <1>5, <1>6

LEMMA BudgetTake ==
    ASSUME Typed, Typed', Budget, NEW w \in Workers, NEW m \in Notices, Take(w, m)
    PROVE  Budget'
<1>. USE DEF Typed, TypeOK
<1>. SUFFICES ASSUME NEW n \in Notices PROVE Paid(n)'
  BY DEF Budget
<1>1. \A v \in Workers : v # w => worker'[v] = worker[v]
  BY DEF Take
<1>2. w \notin Sending(n) /\ (w \in Sending(n)' <=> n = m)
  BY DEF Sending, Take
<1>3. CASE n = m
  <2>1. Sending(n)' = Sending(n) \cup {w}
    BY <1>1, <1>2, <1>3 DEF Sending
  <2>2. Due(n) = 1 /\ Due(n)' = 0
    BY <1>3, NullAssumption DEF Take, Due, Job
  <2>3. UNCHANGED <<deliveries, faults>>
    BY DEF Take
  <2>. QED  BY <1>2, <2>1, <2>2, <2>3, PaidTaken DEF Budget
<1>4. CASE n # m
  <2>1. Sending(n)' = Sending(n)
    BY <1>1, <1>2, <1>4, SendingSame
  <2>2. deliveries'[n] = deliveries[n] /\ Due(n)' + faults <= Due(n) + faults'
    BY <1>4 DEF Take, Due
  <2>. QED  BY <2>1, <2>2, PaidKept DEF Budget
<1>. QED  BY <1>3, <1>4

\* A worker that loses its job, by an error, a death or a lost lock: the job may
\* run again, for one more fault.
LEMMA BudgetFault ==
    ASSUME Typed, Typed', Budget, NEW w \in Workers,
           \/ WorkerError(w)
           \/ \E dies \in BOOLEAN : LockLost(w, dies)
    PROVE  Budget'
<1>. USE DEF Typed, TypeOK
<1>. SUFFICES ASSUME NEW n \in Notices PROVE Paid(n)'
  BY DEF Budget
<1>1. /\ \A v \in Workers : v # w => worker'[v] = worker[v]
      /\ worker'[w] = worker[w] \/ worker'[w] = Back
  BY DEF WorkerError, LockLost
<1>2. faults' = faults + 1 /\ deliveries' = deliveries
  BY DEF WorkerError, LockLost, Fault
<1>3. Due(n) \in {0, 1} /\ Due(n)' \in {0, 1}
  BY DEF Due
<1>4. CASE w \in Sending(n) /\ w \notin Sending(n)'
  <2>1. Sending(n)' = Sending(n) \ {w}
    BY <1>1, <1>4, SendingLess
  <2>2. deliveries'[n] + Due(n)' + faults <= deliveries[n] + Due(n) + 1 + faults'
    BY <1>2, <1>3
  <2>. QED  BY <1>4, <2>1, <2>2, PaidLeft DEF Budget
<1>5. CASE w \in Sending(n)' <=> w \in Sending(n)
  <2>1. Sending(n)' = Sending(n)
    BY <1>1, <1>5, SendingSame
  <2>2. deliveries'[n] = deliveries[n] /\ Due(n)' + faults <= Due(n) + faults'
    BY <1>2, <1>3
  <2>. QED  BY <2>1, <2>2, PaidKept DEF Budget
<1>6. w \in Sending(n)' => w \in Sending(n)
  BY <1>1 DEF Sending, Back
<1>. QED  BY <1>4, <1>5, <1>6

LEMMA BudgetQuiet ==
    ASSUME Typed, Typed', Budget, UNCHANGED deliveries, faults' >= faults,
           \A n \in Notices : Sending(n)' = Sending(n) /\ Due(n)' <= Due(n)
    PROVE  Budget'
<1>. SUFFICES ASSUME NEW n \in Notices PROVE Paid(n)'
  BY DEF Budget
<1>1. Due(n)' \in {0, 1} /\ Due(n) \in {0, 1} /\ Due(n)' <= Due(n)
  BY DEF Due
<1>2. faults \in Nat /\ faults' \in Nat
  BY DEF Typed, TypeOK
<1>3. Due(n)' + faults <= Due(n) + faults'
  BY <1>1, <1>2
<1>. QED  BY <1>3, PaidKept DEF Budget, Typed

LEMMA BudgetStep ==
    ASSUME Typed, Typed', JobsFollow, Budget, [Next]_vars
    PROVE  Budget'
<1>. USE DEF Typed, TypeOK
<1>1. ASSUME NEW n \in Notices, NEW to \in OrderStatuses, NEW held \in BOOLEAN,
             NEW has \in Contacts, StatusChanged(n, to, held, has)
      PROVE  Budget'
  BY <1>1, BudgetQuiet DEF StatusChanged, Sending, Due
<1>2. ASSUME NEW n \in Notices, Store(n) \/ NoticeLost(n)
      PROVE  Budget'
  <2>1. \A m \in Notices : Sending(m)' = Sending(m) /\ Due(m)' = Due(m)
    BY <1>2 DEF Store, NoticeLost, Sending, Due
  <2>2. UNCHANGED deliveries /\ faults' >= faults
    BY <1>2 DEF Store, NoticeLost, Fault
  <2>. QED  BY <2>1, <2>2, BudgetQuiet DEF Due
<1>3. ASSUME NEW n \in Notices, Enqueue(n)
      PROVE  Budget'
  <2>1. job[n].state = "none"
    BY <1>3 DEF Enqueue, JobsFollow
  <2>2. \A m \in Notices : Sending(m)' = Sending(m) /\ Due(m)' <= Due(m)
    BY <1>3, <2>1 DEF Enqueue, Sending, Due, Job
  <2>. QED  BY <1>3, <2>2, BudgetQuiet DEF Enqueue
<1>4. ASSUME NEW n \in Notices, Queue(n)
      PROVE  Budget'
  <2>1. \A m \in Notices : Sending(m)' = Sending(m)
    BY <1>4 DEF Queue, Stalled, BackoffEnds, Sending
  <2>2. \A m \in Notices : Due(m)' <= Due(m)
    BY <1>4 DEF Queue, Stalled, BackoffEnds, Due, Job
  <2>. QED  BY <1>4, <2>1, <2>2, BudgetQuiet DEF Queue, Stalled, BackoffEnds
<1>5. ASSUME NEW w \in Workers, Record(w)
      PROVE  Budget'
  <2>1. \A m \in Notices : Sending(m)' = Sending(m) /\ Due(m)' = Due(m)
    BY <1>5 DEF Record, Sending, Due, Worker
  <2>. QED  BY <1>5, <2>1, BudgetQuiet DEF Record, Due
<1>6. ASSUME NEW w \in Workers, Finish(w)
      PROVE  Budget'
  <2>1. \A m \in Notices : Sending(m)' = Sending(m)
    BY <1>6 DEF Finish, Sending, Back
  <2>2. \A m \in Notices : Due(m)' <= Due(m)
    BY <1>6 DEF Finish, JobAfter, Due, Job
  <2>. QED  BY <1>6, <2>1, <2>2, BudgetQuiet DEF Finish
<1>7. CASE UNCHANGED vars
  BY <1>7, BudgetQuiet DEF vars, Sending, Due
<1>. QED
  BY <1>1, <1>2, <1>3, <1>4, <1>5, <1>6, <1>7, BudgetTake, BudgetSendEnds,
     BudgetFault DEF Next, Work, Subscriber

LEMMA BudgetInit == Init => Budget
<1>. SUFFICES ASSUME Init, NEW n \in Notices PROVE Paid(n)
  BY DEF Budget
<1>1. Sending(n) = {}
  BY DEF Init, Sending
<1>2. deliveries[n] = 0 /\ Due(n) = 1 /\ faults = 0
  BY DEF Init, Due
<1>. QED  BY <1>1, <1>2, FS_EmptySet DEF Paid

\* A recipient is told at most once, and at most once more for everything that
\* went wrong, for any number of workers, attempts and stalls.
THEOREM DeliveriesBounded == Spec => []DeliveredOncePerFault
<1>1. Typed /\ Budget => DeliveredOncePerFault
  <2>. SUFFICES ASSUME Typed, Budget, NEW n \in Notices
                PROVE  deliveries[n] <= 1 + faults
    BY DEF DeliveredOncePerFault
  <2>1. Cardinality(Sending(n)) \in Nat
    BY FS_CardinalityType DEF Budget, Paid
  <2>2. deliveries[n] \in Nat /\ faults \in Nat /\ Due(n) \in Nat
    BY DEF Typed, TypeOK, Due
  <2>3. deliveries[n] + Cardinality(Sending(n)) + Due(n) <= 1 + faults
    BY DEF Budget, Paid
  <2>. QED  BY <2>1, <2>2, <2>3
<1>. QED
  BY <1>1, BudgetInit, BudgetStep, JobsInit, JobsStep, TypedAlways, PTL DEF Spec

-----------------------------------------------------------------------------
\* SENT stays.

\* While nothing has gone wrong a job has one run: its worker is its owner, the
\* row is SENT only once that run has recorded it, and the job is not handed out
\* again.
OneRun ==
    faults = 0 =>
        /\ \A w \in Workers :
               worker[w].phase # "idle" =>
                   /\ job[worker[w].notice].state = "active"
                   /\ job[worker[w].notice].owner = w
        /\ \A w \in Workers :
               worker[w].phase \in {"sending", "succeeded", "failed"} =>
                   row[worker[w].notice] # "SENT"
        /\ \A n \in Notices :
               /\ row[n] = "SENT" => job[n].state \in {"active", "completed"}
               /\ job[n].state = "active" => job[n].owner # NoWorker
               /\ notice[n].stage \in {"unseen", "received"} => row[n] = "NONE"

LEMMA OneRunStep ==
    ASSUME Typed, JobsFollow, OneRun, [Next]_vars
    PROVE  OneRun'
<1>. USE NullAssumption DEF Typed, TypeOK, BusyWithNotice
<1>. SUFFICES ASSUME faults' = 0
              PROVE  OneRun'
  BY DEF OneRun
<1>1. ASSUME NEW n \in Notices, NEW to \in OrderStatuses, NEW held \in BOOLEAN,
             NEW has \in Contacts, StatusChanged(n, to, held, has)
      PROVE  OneRun'
  BY <1>1 DEF StatusChanged, OneRun
<1>2. ASSUME NEW n \in Notices, Store(n)
      PROVE  OneRun'
  BY <1>2 DEF Store, OneRun, JobsFollow
<1>3. ASSUME NEW n \in Notices, Enqueue(n)
      PROVE  OneRun'
  BY <1>3 DEF Enqueue, OneRun, JobsFollow, Job
<1>4. ASSUME Fault
      PROVE  OneRun'
  BY <1>4 DEF Fault
<1>5. ASSUME NEW n \in Notices, Queue(n)
      PROVE  OneRun'
  <2>1. CASE Stalled(n)
    <3>1. UNCHANGED faults
      BY <2>1 DEF Stalled
    <3>. QED  BY <2>1, <3>1 DEF Stalled, OneRun
  <2>2. CASE BackoffEnds(n)
    <3>1. /\ UNCHANGED <<notice, row, worker, faults>>
          /\ job[n].state = "delayed" /\ job'[n].state = "waiting"
          /\ \A m \in Notices : m # n => job'[m] = job[m]
      BY <2>2 DEF BackoffEnds
    <3>. QED  BY <3>1 DEF OneRun
  <2>. QED  BY <1>5, <2>1, <2>2 DEF Queue
<1>6. ASSUME NEW w \in Workers, NEW n \in Notices, Take(w, n)
      PROVE  OneRun'
  BY <1>6 DEF Take, OneRun, Job
<1>7. ASSUME NEW w \in Workers, Send(w) \/ GiveUp(w)
      PROVE  OneRun'
  <2>1. /\ UNCHANGED <<notice, row, job, faults>>
        /\ worker[w].phase = "sending" /\ worker'[w].notice = worker[w].notice
        /\ \A v \in Workers : v # w => worker'[v] = worker[v]
    <3>1. CASE Send(w)
      BY <3>1 DEF Send
    <3>2. CASE GiveUp(w)
      BY <3>2 DEF GiveUp
    <3>. QED  BY <1>7, <3>1, <3>2
  <2>. QED  BY <2>1 DEF OneRun
<1>8. ASSUME NEW w \in Workers, Record(w)
      PROVE  OneRun'
  <2>. DEFINE m == worker[w].notice
  <2>1. /\ UNCHANGED <<notice, job, faults>> /\ m \in Notices
        /\ worker'[w].notice = m /\ worker'[w].phase = "recorded"
        /\ \A v \in Workers : v # w => worker'[v] = worker[v]
        /\ \A n \in Notices : n # m => row'[n] = row[n]
    BY <1>8 DEF Record
  <2>2. job[m].state = "active" /\ job[m].owner = w
    BY <1>8, <2>1 DEF Record, OneRun
  <2>3. \A v \in Workers : worker[v].phase # "idle" /\ v # w => worker[v].notice # m
    BY <2>1, <2>2 DEF OneRun
  <2>4. notice[m].stage \notin {"unseen", "received"}
    BY <2>1, <2>2 DEF JobsFollow
  <2>. HIDE DEF m
  <2>5. \A v \in Workers :
            worker'[v].phase # "idle" =>
                /\ job'[worker'[v].notice].state = "active"
                /\ job'[worker'[v].notice].owner = v
    BY <2>1, <2>2 DEF OneRun
  <2>6. \A v \in Workers :
            worker'[v].phase \in {"sending", "succeeded", "failed"} =>
                row'[worker'[v].notice] # "SENT"
    BY <2>1, <2>3 DEF OneRun
  <2>7. \A n \in Notices :
            /\ row'[n] = "SENT" => job'[n].state \in {"active", "completed"}
            /\ job'[n].state = "active" => job'[n].owner # NoWorker
            /\ notice'[n].stage \in {"unseen", "received"} => row'[n] = "NONE"
    BY <2>1, <2>2, <2>4 DEF OneRun
  <2>. QED  BY <2>5, <2>6, <2>7 DEF OneRun
<1>9. ASSUME NEW w \in Workers, Finish(w)
      PROVE  OneRun'
  <2>. DEFINE m == worker[w].notice
  <2>1. /\ UNCHANGED <<notice, row, faults>> /\ m \in Notices
        /\ worker'[w].phase = "idle"
        /\ \A v \in Workers : v # w => worker'[v] = worker[v]
        /\ \A n \in Notices : n # m => job'[n] = job[n]
    BY <1>9 DEF Finish, Back
  <2>2. job[m].owner = w
    BY <1>9, <2>1 DEF Finish, OneRun
  <2>3. job'[m].state = "completed"
    BY <1>9, <2>1, <2>2 DEF Finish, JobAfter
  <2>4. \A v \in Workers : worker[v].phase # "idle" /\ v # w => worker[v].notice # m
    BY <2>1, <2>2 DEF OneRun
  <2>. QED  BY <2>1, <2>3, <2>4 DEF OneRun
<1>10. CASE UNCHANGED vars
  BY <1>10 DEF OneRun, vars
<1>11. ASSUME NEW n \in Notices, NoticeLost(n)
       PROVE  OneRun'
  BY <1>4, <1>11 DEF NoticeLost
<1>12. ASSUME NEW w \in Workers, WorkerError(w)
       PROVE  OneRun'
  BY <1>4, <1>12 DEF WorkerError
<1>13. ASSUME NEW w \in Workers, NEW dies \in BOOLEAN, LockLost(w, dies)
       PROVE  OneRun'
  BY <1>4, <1>13 DEF LockLost
<1>14. ASSUME NEW w \in Workers, Work(w)
       PROVE  OneRun'
  BY <1>6, <1>7, <1>8, <1>9, <1>14 DEF Work
<1>. QED
  BY <1>1, <1>2, <1>3, <1>5, <1>10, <1>11, <1>12, <1>13, <1>14 DEF Next, Subscriber

\* With the one run of its job, a row is not overwritten once it is SENT.
LEMMA SentKept ==
    ASSUME Typed, OneRun, [Next]_vars, NEW n \in Notices, row[n] = "SENT", faults = 0
    PROVE  row'[n] = "SENT"
<1>. USE DEF Typed, TypeOK, BusyWithNotice
<1>1. ASSUME NEW m \in Notices, Store(m)
      PROVE  row'[n] = "SENT"
  BY <1>1 DEF Store, OneRun
<1>2. ASSUME NEW w \in Workers, Record(w)
      PROVE  row'[n] = "SENT"
  BY <1>2 DEF Record, OneRun
<1>3. ASSUME UNCHANGED row
      PROVE  row'[n] = "SENT"
  BY <1>3
<1>. QED
  BY <1>1, <1>2, <1>3
     DEF Next, Work, Subscriber, Queue, StatusChanged, Enqueue, NoticeLost, Take, Send,
         GiveUp, Finish, WorkerError, LockLost, Stalled, BackoffEnds, vars

\* What was recorded as SENT is overwritten only after a fault.
THEOREM SentIsKept == Spec => SentStays
<1>1. Init => OneRun
  BY DEF Init, OneRun
<1>2. Typed /\ OneRun /\ [Next]_vars =>
          [\A n \in Notices : row[n] = "SENT" => row'[n] = "SENT" \/ faults > 0]_vars
  <2>1. ASSUME Typed, OneRun, [Next]_vars, NEW n \in Notices, row[n] = "SENT"
        PROVE  row'[n] = "SENT" \/ faults > 0
    BY <2>1, SentKept DEF Typed, TypeOK
  <2>. QED  BY <2>1
<1>. QED
  BY <1>1, <1>2, JobsInit, JobsStep, OneRunStep, TypedAlways, PTL DEF Spec, SentStays
-----------------------------------------------------------------------------
\* Who has a notification in hands.

\* The row is there from Store on, and nothing is worked on before.
RowsAreStored ==
    \A n \in Notices :
        /\ notice[n].stage \in {"unseen", "received"} => row[n] = "NONE"
        /\ notice[n].stage = "stored" => row[n] = "PENDING"
        /\ job[n].state # "none" => row[n] # "NONE"

\* A worker has a job that was added, and the owner of a job is at work on it.
OwnersWork ==
    /\ \A w \in Workers :
           worker[w].phase # "idle" => job[worker[w].notice].state # "none"
    /\ \A n \in Notices, w \in Workers :
           job[n].owner = w => worker[w].notice = n /\ worker[w].phase # "idle"

\* The outcome is recorded before the job is closed.
ClosedAreSettled ==
    /\ \A w \in Workers :
           worker[w].phase = "recorded" => row[worker[w].notice] \in {"SENT", "FAILED"}
    /\ \A n \in Notices : job[n].state = "completed" => row[n] \in {"SENT", "FAILED"}

HandsInv == RowsAreStored /\ OwnersWork /\ ClosedAreSettled /\ PendingIsCarried

\* While nothing has gone wrong, what is to be sent is PENDING.
UnsentArePending ==
    faults = 0 =>
        /\ \A n \in Notices : job[n].state \in {"waiting", "delayed"} => row[n] = "PENDING"
        /\ \A w \in Workers :
               worker[w].phase \in {"sending", "succeeded", "failed"} =>
                   row[worker[w].notice] = "PENDING"

LEMMA HandsInit == Init => HandsInv /\ UnsentArePending
<1>. SUFFICES ASSUME Init PROVE HandsInv /\ UnsentArePending
  OBVIOUS
<1>1. \A n \in Notices :
          /\ job[n] = [state |-> "none", owner |-> NoWorker, attempts |-> 0, stalls |-> 0]
          /\ notice[n].stage = "unseen" /\ row[n] = "NONE"
  BY DEF Init
<1>2. \A w \in Workers : worker[w] = [notice |-> NoNotice, phase |-> "idle"]
  BY DEF Init
<1>. QED
  BY <1>1, <1>2, NullAssumption
     DEF HandsInv, UnsentArePending, RowsAreStored, OwnersWork, ClosedAreSettled,
         PendingIsCarried

\* A worker that lets go of its job: what is left is not its, and whoever works
\* on something else goes on.
LEMMA LetGo ==
    ASSUME Typed, OwnersWork, NEW w \in Workers, worker[w].phase # "idle",
           worker' = [worker EXCEPT ![w] = Back],
           \A n \in Notices \ {worker[w].notice} : job'[n] = job[n],
           job'[worker[w].notice].state # "none",
           \/ /\ job[worker[w].notice].owner # w
              /\ job' = job
           \/ job'[worker[w].notice].owner = NoWorker
    PROVE  OwnersWork'
<1>. USE NullAssumption DEF Typed, TypeOK, BusyWithNotice, OwnersWork
<1>. DEFINE m == worker[w].notice
<1>1. worker'[w].phase = "idle" /\ \A v \in Workers : v # w => worker'[v] = worker[v]
  BY DEF Back
<1>2. m \in Notices
  OBVIOUS
<1>3. \A v \in Workers : worker'[v].phase # "idle" => job'[worker'[v].notice].state # "none"
  BY <1>1, <1>2
<1>4. ASSUME NEW n \in Notices, NEW v \in Workers, job'[n].owner = v
      PROVE  worker'[v].notice = n /\ worker'[v].phase # "idle"
  <2>1. job'[n] = job[n]
    BY <1>2, <1>4
  <2>2. worker[v].notice = n /\ worker[v].phase # "idle"
    BY <1>4, <2>1
  <2>3. v # w
    BY <1>2, <1>4, <2>1, <2>2
  <2>. QED  BY <1>1, <2>2, <2>3
<1>. QED  BY <1>3, <1>4 DEF OwnersWork

LEMMA HandsStep ==
    ASSUME Typed, JobsFollow, OneRun, HandsInv, [Next]_vars
    PROVE  HandsInv'
<1>. USE NullAssumption DEF Typed, TypeOK, BusyWithNotice, HandsInv
<1>1. ASSUME NEW n \in Notices, NEW to \in OrderStatuses, NEW held \in BOOLEAN,
             NEW has \in Contacts, StatusChanged(n, to, held, has)
      PROVE  HandsInv'
  <2>1. /\ UNCHANGED <<row, job, worker, faults>>
        /\ notice[n].stage = "unseen" /\ notice'[n].stage \in {"received", "closed"}
        /\ \A m \in Notices : m # n => notice'[m] = notice[m]
    BY <1>1 DEF StatusChanged
  <2>. QED
    BY <2>1 DEF RowsAreStored, OwnersWork, ClosedAreSettled, PendingIsCarried
<1>2. ASSUME NEW n \in Notices, Store(n)
      PROVE  HandsInv'
  <2>1. /\ UNCHANGED <<job, worker, faults>>
        /\ notice[n].stage = "received" /\ notice'[n].stage = "stored"
        /\ row'[n] = "PENDING" /\ row[n] = "NONE" /\ job[n].state = "none"
        /\ \A m \in Notices : m # n => notice'[m] = notice[m] /\ row'[m] = row[m]
    BY <1>2 DEF Store, RowsAreStored, JobsFollow
  <2>. QED
    BY <2>1 DEF RowsAreStored, OwnersWork, ClosedAreSettled, PendingIsCarried
<1>3. ASSUME NEW n \in Notices, Enqueue(n)
      PROVE  HandsInv'
  <2>1. /\ UNCHANGED <<row, worker, faults>>
        /\ notice[n].stage = "stored" /\ notice'[n].stage = "closed"
        /\ job'[n].state = "waiting" /\ job'[n].owner = job[n].owner /\ row[n] = "PENDING"
        /\ \A m \in Notices : m # n => notice'[m] = notice[m] /\ job'[m] = job[m]
    BY <1>3 DEF Enqueue, RowsAreStored, Job
  <2>. QED
    BY <2>1 DEF RowsAreStored, OwnersWork, ClosedAreSettled, PendingIsCarried
<1>4. ASSUME NEW n \in Notices, NoticeLost(n)
      PROVE  HandsInv'
  <2>1. /\ UNCHANGED <<row, job, worker>> /\ faults' > 0
        /\ notice[n].stage \in {"received", "stored"} /\ notice'[n].stage = "closed"
        /\ job[n].state = "none"
        /\ \A m \in Notices : m # n => notice'[m] = notice[m]
    BY <1>4 DEF NoticeLost, Fault, JobsFollow
  <2>. QED
    BY <2>1 DEF RowsAreStored, OwnersWork, ClosedAreSettled, PendingIsCarried
<1>5. ASSUME NEW n \in Notices, Queue(n)
      PROVE  HandsInv'
  <2>1. /\ UNCHANGED <<notice, row, worker, faults>>
        /\ \A m \in Notices : m # n => job'[m] = job[m]
        /\ job'[n].owner = job[n].owner /\ job[n].owner = NoWorker
        /\ job'[n].state \in {"waiting", "failed"} /\ job[n].state # "none"
        /\ job'[n].state = "failed" => job[n].state = "active"
    BY <1>5 DEF Queue, Stalled, BackoffEnds, Job, JobsFollow
  <2>2. job'[n].state = "failed" => faults > 0
    BY <2>1 DEF OneRun
  <2>. QED
    BY <2>1, <2>2 DEF RowsAreStored, OwnersWork, ClosedAreSettled, PendingIsCarried
<1>6. ASSUME NEW w \in Workers, NEW n \in Notices, Take(w, n)
      PROVE  HandsInv'
  <2>1. /\ UNCHANGED <<notice, row, faults>>
        /\ job[n].state = "waiting" /\ worker[w].phase = "idle"
        /\ job'[n].state = "active" /\ job'[n].owner = w
        /\ worker'[w].notice = n /\ worker'[w].phase = "sending"
        /\ \A m \in Notices : m # n => job'[m] = job[m]
        /\ \A v \in Workers : v # w => worker'[v] = worker[v]
    BY <1>6 DEF Take, Job
  <2>2. OwnersWork'
    BY <2>1 DEF OwnersWork
  <2>3. \A m \in Notices : m # n => job[m].owner # w
    BY <2>1 DEF OwnersWork
  <2>4. PendingIsCarried'
    BY <2>1, <2>3 DEF PendingIsCarried
  <2>. QED  BY <2>1, <2>2, <2>4 DEF RowsAreStored, ClosedAreSettled
<1>7. ASSUME NEW w \in Workers, Send(w) \/ GiveUp(w)
      PROVE  HandsInv'
  <2>1. /\ UNCHANGED <<notice, row, job, faults>>
        /\ worker[w].phase = "sending" /\ worker'[w].notice = worker[w].notice
        /\ worker'[w].phase \in {"succeeded", "failed"}
        /\ \A v \in Workers : v # w => worker'[v] = worker[v]
    <3>1. CASE Send(w)
      BY <3>1 DEF Send, Worker
    <3>2. CASE GiveUp(w)
      BY <3>2 DEF GiveUp, Worker
    <3>. QED  BY <1>7, <3>1, <3>2
  <2>. QED
    BY <2>1 DEF RowsAreStored, OwnersWork, ClosedAreSettled, PendingIsCarried
<1>8. ASSUME NEW w \in Workers, Record(w)
      PROVE  HandsInv'
  <2>. DEFINE m == worker[w].notice
  <2>1. /\ UNCHANGED <<notice, job, faults>> /\ m \in Notices
        /\ worker[w].phase # "idle"
        /\ worker'[w].notice = m /\ worker'[w].phase = "recorded"
        /\ row'[m] \in {"SENT", "FAILED"}
        /\ \A v \in Workers : v # w => worker'[v] = worker[v]
        /\ \A n \in Notices : n # m => row'[n] = row[n]
    BY <1>8 DEF Record, RowAfter, Worker
  <2>2. notice[m].stage \notin {"unseen", "received", "stored"}
    BY <2>1 DEF OwnersWork, JobsFollow
  <2>3. \A v \in Workers : worker'[v].notice = worker[v].notice
    BY <2>1
  <2>. HIDE DEF m
  <2>4. RowsAreStored' /\ OwnersWork'
    BY <2>1, <2>2, <2>3 DEF RowsAreStored, OwnersWork
  <2>5. ClosedAreSettled'
    BY <2>1, <2>3 DEF ClosedAreSettled
  <2>6. PendingIsCarried'
    BY <2>1, <2>3 DEF PendingIsCarried, m
  <2>. QED  BY <2>4, <2>5, <2>6
<1>9. ASSUME NEW w \in Workers, Finish(w)
      PROVE  HandsInv'
  <2>. DEFINE m == worker[w].notice
  <2>1. /\ UNCHANGED <<notice, row, faults>> /\ m \in Notices
        /\ worker[w].phase = "recorded" /\ worker' = [worker EXCEPT ![w] = Back]
        /\ \A n \in Notices : n # m => job'[n] = job[n]
        /\ \/ job[m].owner # w /\ job' = job
           \/ job'[m].owner = NoWorker /\ job'[m].state = "completed"
    BY <1>9 DEF Finish, JobAfter, Job
  <2>2. worker'[w].phase = "idle" /\ \A v \in Workers : v # w => worker'[v] = worker[v]
    BY <2>1 DEF Back
  <2>3. row[m] \in {"SENT", "FAILED"} /\ job[m].state # "none"
    BY <2>1 DEF ClosedAreSettled, OwnersWork
  <2>4. OwnersWork'
    BY <2>1, <2>3, LetGo
  <2>. HIDE DEF m
  <2>5. RowsAreStored' /\ ClosedAreSettled'
    BY <2>1, <2>2, <2>3 DEF RowsAreStored, ClosedAreSettled
  <2>6. PendingIsCarried'
    BY <2>1, <2>2, <2>3 DEF PendingIsCarried
  <2>. QED  BY <2>4, <2>5, <2>6
<1>10. ASSUME NEW w \in Workers, WorkerError(w)
       PROVE  HandsInv'
  <2>. DEFINE m == worker[w].notice
  <2>1. /\ UNCHANGED <<notice, row>> /\ m \in Notices /\ faults' > 0
        /\ worker[w].phase # "idle" /\ worker' = [worker EXCEPT ![w] = Back]
        /\ \A n \in Notices : n # m => job'[n] = job[n]
        /\ \/ job[m].owner # w /\ job' = job
           \/ job'[m].owner = NoWorker /\ job'[m].state \in {"delayed", "failed"}
    BY <1>10, AttemptTyped DEF WorkerError, Fault
  <2>2. worker'[w].phase = "idle" /\ \A v \in Workers : v # w => worker'[v] = worker[v]
    BY <2>1 DEF Back
  <2>3. job[m].state # "none"
    BY <2>1 DEF OwnersWork
  <2>4. OwnersWork'
    BY <2>1, <2>3, LetGo
  <2>5. \A n \in Notices : n # m => job[n].owner # w
    BY <2>1 DEF OwnersWork
  <2>. HIDE DEF m
  <2>6. RowsAreStored' /\ ClosedAreSettled'
    BY <2>1, <2>2, <2>3 DEF RowsAreStored, ClosedAreSettled
  <2>7. PendingIsCarried'
    BY <2>1, <2>2, <2>5 DEF PendingIsCarried
  <2>. QED  BY <2>4, <2>6, <2>7
<1>11. ASSUME NEW w \in Workers, NEW dies \in BOOLEAN, LockLost(w, dies)
       PROVE  HandsInv'
  <2>. DEFINE m == worker[w].notice
  <2>1. /\ UNCHANGED <<notice, row>> /\ m \in Notices /\ faults' > 0
        /\ worker[w].phase # "idle"
        /\ worker' = [worker EXCEPT ![w] = Back] \/ worker' = worker
        /\ \A n \in Notices : n # m => job'[n] = job[n]
        /\ job'[m].state = job[m].state
        /\ \/ job[m].owner # w /\ job' = job
           \/ job[m].owner = w /\ job'[m].owner = NoWorker
    BY <1>11 DEF LockLost, Fault, Job
  <2>2. \A v \in Workers : worker'[v] = worker[v] \/ (v = w /\ worker'[v].phase = "idle")
    BY <2>1 DEF Back
  <2>3. job[m].state # "none"
    BY <2>1 DEF OwnersWork
  <2>4. OwnersWork'
    <3>1. CASE worker' = [worker EXCEPT ![w] = Back]
      BY <2>1, <2>3, <3>1, LetGo
    <3>2. CASE worker' = worker
      BY <2>1, <3>2 DEF OwnersWork
    <3>. QED  BY <2>1, <3>1, <3>2
  <2>5. \A n \in Notices : n # m => job[n].owner # w
    BY <2>1 DEF OwnersWork
  <2>6. job[m].owner = w => job[m].state = "active"
    BY <2>1 DEF JobsFollow
  <2>. HIDE DEF m
  <2>7. RowsAreStored' /\ ClosedAreSettled'
    BY <2>1, <2>2, <2>3 DEF RowsAreStored, ClosedAreSettled
  <2>8. PendingIsCarried'
    BY <2>1, <2>2, <2>5, <2>6 DEF PendingIsCarried
  <2>. QED  BY <2>4, <2>7, <2>8
<1>12. CASE UNCHANGED vars
  BY <1>12 DEF vars, RowsAreStored, OwnersWork, ClosedAreSettled, PendingIsCarried
<1>13. ASSUME NEW w \in Workers, Work(w)
       PROVE  HandsInv'
  BY <1>6, <1>7, <1>8, <1>9, <1>13 DEF Work
<1>. QED
  BY <1>1, <1>2, <1>3, <1>4, <1>5, <1>10, <1>11, <1>12, <1>13 DEF Next, Subscriber

LEMMA OneRunAlways == Spec => [](JobsFollow /\ OneRun)
<1>1. Init => OneRun
  BY DEF Init, OneRun
<1>. QED  BY <1>1, JobsInit, JobsStep, OneRunStep, TypedAlways, PTL DEF Spec

\* A notification that is PENDING is in somebody's hands, or something broke and
\* its job was never added or has been given up: no order of writes, retries,
\* stalls and lost locks lets one slip, for any number of workers.
THEOREM PendingInHands == Spec => []PendingIsCarried
<1>1. HandsInv => PendingIsCarried
  BY DEF HandsInv
<1>. QED  BY <1>1, HandsInit, HandsStep, OneRunAlways, TypedAlways, PTL DEF Spec

-----------------------------------------------------------------------------
\* The life of a notification.

LEMMA UnsentStep ==
    ASSUME Typed, JobsFollow, OneRun, HandsInv, UnsentArePending, [Next]_vars
    PROVE  UnsentArePending'
<1>. USE NullAssumption DEF Typed, TypeOK, BusyWithNotice
<1>. SUFFICES ASSUME faults' = 0
              PROVE  UnsentArePending'
  BY DEF UnsentArePending
<1>1. ASSUME NEW n \in Notices, NEW to \in OrderStatuses, NEW held \in BOOLEAN,
             NEW has \in Contacts, StatusChanged(n, to, held, has)
      PROVE  UnsentArePending'
  BY <1>1 DEF StatusChanged, UnsentArePending
<1>2. ASSUME NEW n \in Notices, Store(n)
      PROVE  UnsentArePending'
  BY <1>2 DEF Store, UnsentArePending
<1>3. ASSUME NEW n \in Notices, Enqueue(n)
      PROVE  UnsentArePending'
  <2>1. /\ UNCHANGED <<row, worker, faults>> /\ row[n] = "PENDING"
        /\ \A m \in Notices : m # n => job'[m] = job[m]
    BY <1>3 DEF Enqueue, HandsInv, RowsAreStored
  <2>. QED  BY <2>1 DEF UnsentArePending
<1>4. ASSUME NEW n \in Notices, Queue(n)
      PROVE  UnsentArePending'
  <2>1. /\ UNCHANGED <<row, worker, faults>>
        /\ \A m \in Notices : m # n => job'[m] = job[m]
        /\ (job[n].state = "active" /\ job[n].owner = NoWorker) \/ job[n].state = "delayed"
    BY <1>4 DEF Queue, Stalled, BackoffEnds
  <2>. QED  BY <2>1 DEF UnsentArePending, OneRun
<1>5. ASSUME NEW w \in Workers, NEW n \in Notices, Take(w, n)
      PROVE  UnsentArePending'
  <2>1. /\ UNCHANGED <<row, faults>> /\ job[n].state = "waiting"
        /\ job'[n].state = "active" /\ worker'[w].notice = n
        /\ \A m \in Notices : m # n => job'[m] = job[m]
        /\ \A v \in Workers : v # w => worker'[v] = worker[v]
    BY <1>5 DEF Take, Job
  <2>. QED  BY <2>1 DEF UnsentArePending
<1>6. ASSUME NEW w \in Workers, Send(w) \/ GiveUp(w)
      PROVE  UnsentArePending'
  <2>1. /\ UNCHANGED <<row, job, faults>>
        /\ worker[w].phase = "sending" /\ worker'[w].notice = worker[w].notice
        /\ \A v \in Workers : v # w => worker'[v] = worker[v]
    <3>1. CASE Send(w)
      BY <3>1 DEF Send
    <3>2. CASE GiveUp(w)
      BY <3>2 DEF GiveUp
    <3>. QED  BY <1>6, <3>1, <3>2
  <2>. QED  BY <2>1 DEF UnsentArePending
<1>7. ASSUME NEW w \in Workers, Record(w)
      PROVE  UnsentArePending'
  <2>. DEFINE m == worker[w].notice
  <2>1. /\ UNCHANGED <<job, faults>> /\ m \in Notices /\ worker[w].phase # "idle"
        /\ worker'[w].phase = "recorded"
        /\ \A v \in Workers : v # w => worker'[v] = worker[v]
        /\ \A n \in Notices : n # m => row'[n] = row[n]
    BY <1>7 DEF Record
  <2>2. job[m].state = "active" /\ job[m].owner = w
    BY <2>1 DEF OneRun
  <2>3. \A v \in Workers : worker[v].phase # "idle" /\ v # w => worker[v].notice # m
    BY <2>1, <2>2 DEF OneRun
  <2>. HIDE DEF m
  <2>. QED  BY <2>1, <2>2, <2>3 DEF UnsentArePending
<1>8. ASSUME NEW w \in Workers, Finish(w)
      PROVE  UnsentArePending'
  <2>. DEFINE m == worker[w].notice
  <2>1. /\ UNCHANGED <<row, faults>> /\ m \in Notices
        /\ worker'[w].phase = "idle"
        /\ \A v \in Workers : v # w => worker'[v] = worker[v]
        /\ \A n \in Notices : n # m => job'[n] = job[n]
        /\ job' = job \/ job'[m].state = "completed"
    BY <1>8 DEF Finish, JobAfter, Back, Job
  <2>. HIDE DEF m
  <2>. QED  BY <2>1 DEF UnsentArePending
<1>9. ASSUME Fault
      PROVE  UnsentArePending'
  BY <1>9 DEF Fault
<1>10. CASE UNCHANGED vars
  BY <1>10 DEF UnsentArePending, vars
<1>11. ASSUME NEW w \in Workers, Work(w)
       PROVE  UnsentArePending'
  BY <1>5, <1>6, <1>7, <1>8, <1>11 DEF Work
<1>12. ASSUME NEW n \in Notices, NoticeLost(n)
       PROVE  UnsentArePending'
  BY <1>9, <1>12 DEF NoticeLost
<1>13. ASSUME NEW w \in Workers, WorkerError(w)
       PROVE  UnsentArePending'
  BY <1>9, <1>13 DEF WorkerError
<1>14. ASSUME NEW w \in Workers, NEW dies \in BOOLEAN, LockLost(w, dies)
       PROVE  UnsentArePending'
  BY <1>9, <1>14 DEF LockLost
<1>. QED
  BY <1>1, <1>2, <1>3, <1>4, <1>10, <1>11, <1>12, <1>13, <1>14 DEF Next, Subscriber

\* Who may send or record a notification may work on it.
LEMMA BusyMayWork ==
    ASSUME Typed, HandsInv, UnsentArePending, NEW w \in Workers,
           worker[w].phase \in {"sending", "succeeded", "failed"}
    PROVE  worker[w].notice \in Notices /\ Life!Workable(worker[w].notice)
<1>1. worker[w].notice \in Notices /\ faults \in Nat
  BY DEF Typed, TypeOK, BusyWithNotice
<1>2. row[worker[w].notice] # "NONE"
  BY <1>1 DEF HandsInv, RowsAreStored, OwnersWork
<1>3. faults = 0 => row[worker[w].notice] = "PENDING"
  BY DEF UnsentArePending
<1>. QED  BY <1>1, <1>2, <1>3 DEF Life!Workable

\* There is a delivery left for whoever is about to send.
LEMMA SenderIsPaid ==
    ASSUME Typed, Budget, NEW w \in Workers, worker[w].phase = "sending"
    PROVE  deliveries[worker[w].notice] <= faults
<1>. DEFINE n == worker[w].notice
            c == Cardinality(Sending(n))
<1>1. n \in Notices
  BY DEF Typed, TypeOK, BusyWithNotice
<1>2. deliveries[n] \in Nat /\ faults \in Nat /\ Due(n) \in Nat
  BY <1>1 DEF Typed, TypeOK, Due
<1>3. w \in Sending(n) /\ IsFiniteSet(Sending(n))
  BY <1>1 DEF Sending, Budget, Paid
<1>4. c \in Nat /\ c # 0
  BY <1>3, FS_CardinalityType, FS_EmptySet
<1>5. deliveries[n] + c + Due(n) <= 1 + faults
  BY <1>1 DEF Budget, Paid
<1>. HIDE DEF n, c
<1>6. deliveries[n] <= faults
  BY <1>2, <1>4, <1>5
<1>. QED  BY <1>6 DEF n

\* Store promises, a send that is accepted tells, Record settles and every fault
\* breaks something; the rest is invisible.
LEMMA LifeStep ==
    ASSUME Typed, SuccessWasAccepted, Budget, HandsInv, UnsentArePending, [Next]_vars
    PROVE  [Life!Next]_(Life!lifecycleVars)
<1>. USE DEF Typed, TypeOK, BusyWithNotice
<1>1. ASSUME UNCHANGED <<row, deliveries, faults>>
      PROVE  UNCHANGED Life!lifecycleVars
  BY <1>1 DEF Life!lifecycleVars
<1>2. ASSUME UNCHANGED <<row, deliveries>>, Fault
      PROVE  Life!Break
  BY <1>2 DEF Life!Break, Fault
<1>3. ASSUME NEW n \in Notices, Store(n)
      PROVE  Life!Promise(n)
  BY <1>3 DEF Store, HandsInv, RowsAreStored, Life!Promise
<1>4. ASSUME NEW w \in Workers, Send(w)
      PROVE  Life!Next \/ UNCHANGED Life!lifecycleVars
  <2>1. worker[w].notice \in Notices /\ Life!Workable(worker[w].notice)
    BY <1>4, BusyMayWork DEF Send
  <2>2. deliveries[worker[w].notice] <= faults
    BY <1>4, SenderIsPaid DEF Send
  <2>3. Life!Tell(worker[w].notice) \/ UNCHANGED Life!lifecycleVars
    BY <1>4, <2>1, <2>2 DEF Send, Life!Tell, Life!lifecycleVars
  <2>. QED  BY <2>1, <2>3 DEF Life!Next
<1>5. ASSUME NEW w \in Workers, Record(w)
      PROVE  Life!Next
  <2>1. worker[w].notice \in Notices /\ Life!Workable(worker[w].notice)
    BY <1>5, BusyMayWork DEF Record
  <2>2. PICK result \in {"SENT", "FAILED"} : result = RowAfter(worker[w].phase)
    BY DEF RowAfter
  <2>3. result = "SENT" => deliveries[worker[w].notice] > 0
    BY <2>2 DEF RowAfter, SuccessWasAccepted
  <2>4. Life!Settle(worker[w].notice, result)
    BY <1>5, <2>1, <2>2, <2>3 DEF Record, Life!Settle
  <2>. QED  BY <2>1, <2>4 DEF Life!Next
<1>6. ASSUME NEW w \in Workers, Work(w)
      PROVE  Life!Next \/ UNCHANGED Life!lifecycleVars
  BY <1>1, <1>4, <1>5, <1>6 DEF Work, Take, GiveUp, Finish
<1>7. ASSUME NEW n \in Notices, Subscriber(n) \/ NoticeLost(n) \/ Queue(n)
      PROVE  Life!Next \/ UNCHANGED Life!lifecycleVars
  BY <1>1, <1>2, <1>3, <1>7
     DEF Subscriber, Enqueue, NoticeLost, Queue, Stalled, BackoffEnds, Life!Next
<1>8. ASSUME NEW w \in Workers, WorkerError(w) \/ \E dies \in BOOLEAN : LockLost(w, dies)
      PROVE  Life!Next
  BY <1>2, <1>8 DEF WorkerError, LockLost, Life!Next
<1>. QED  BY <1>1, <1>6, <1>7, <1>8 DEF Next, StatusChanged, vars

\* Rows, jobs, locks and workers together implement the life of a notification:
\* stored, told, settled once, and once more at most for every fault.
THEOREM ImplementsLifecycle == Spec => SettledOnce
<1>1. Init => Life!Init
  BY DEF Init, Life!Init
<1>2. Init => SuccessWasAccepted /\ SentMeansDelivered
  BY DEF Init, SuccessWasAccepted, SentMeansDelivered
<1>. QED
  BY <1>1, <1>2, LifeStep, SentStep, BudgetInit, BudgetStep, JobsInit, JobsStep,
     HandsInit, HandsStep, UnsentStep, OneRunAlways, TypedAlways, PTL
     DEF Spec, SettledOnce, Life!Spec

=============================================================================
