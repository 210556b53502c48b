# VoltDispatch: TLA+ models and proofs

VoltDispatch dispatches technicians to work orders at charging sites. A NestJS
API (`src/backend`) keeps the orders in Postgres (Prisma), caches positions in
Redis, runs background jobs on BullMQ and speaks WebSocket to technicians and
dashboards; a Next.js application (`src/frontend`) is its client. The API is
stateless and may run as several instances.

This directory models the API where requests, callbacks, workers and clocks
interleave, and the browser's end of it: its tokens, its socket, its buttons and
its order form. TLC checks the models on small instances, and TLAPS proves their
safety properties for every value of the constants. Every definition
is translated from the source; `PROJECT.json` names the lines (`map`), the runs,
the hazards each property is for, and the theorems.

Contents

1. Inventory of the system
2. Modules, and how they correspond to the code
3. Runs: what they check, bounds, fairness
4. Proofs
5. Disagreements found between the code and its documents
6. What is not modelled, and the plan

## 1. Inventory

Paths are relative to `src/backend/src/modules` unless they start with
`frontend`.

| Component | State | Operations | Talks to | Hard behaviour | Correct when |
|---|---|---|---|---|---|
| Work orders (`work-orders/`) | `work_orders`, `work_order_status_history` | create, eleven transition endpoints, reads | Prisma, event emitter, Redis `hq:activities` | an order is read, checked, re-read in a READ COMMITTED transaction without a lock, and updated by id; the event follows the commit | trail is lawful and agrees with the order; final statuses stay; every transition is reported |
| Scoping (`common/services/scoping.service.ts`) | none | one filter per role | work orders | the scope is that of the first read | nobody moves an order that was never theirs |
| Notifications (`notifications/`) | `notifications` rows, BullMQ jobs | subscriber, `enqueue`, worker, `process` | work orders (event), adapters (LINE, Resend), Redis | row and job are two writes; send and record are two steps; job locks can be lost | SENT means delivered; duplicates only after faults; nothing stays PENDING |
| SLA monitor (`sla/`) | repeatable job | five-minute scan | notifications, work orders | a scan that fails half way starts again | a completed scan warned everyone it read, and no one more often than it was begun |
| Location gateway (`locations/location.gateway.ts`, `room-manager.service.ts`, `ws-auth.service.ts`) | `clientData`, `rooms`, `clientRooms`, one Redis subscription per instance | connect, subscribe, unsubscribe, position update, disconnect, broadcast | JWT, Redis deny list and pub/sub, Postgres, ws | the socket closes while a handler awaits; a position comes by two ways | rooms hold present clients that were shown the order when they asked; watchers end on the newest position |
| Positions (`position-rate-limiter.service.ts`, `location-cache.service.ts`, `position-sync.service.ts`, `location.service.ts`) | limits per socket, Redis keys with TTL, `technicians.last_*` | check, set, periodic sync, flush on disconnect | gateway, Redis, Postgres | boundaries of interval, window and ban; several writers of one row with positions of different age | updates are spaced; bans are earned; the last known position is the last |
| Ratings (`ratings/`) | `ratings`, `technicians.rating_*` | create, delete | work orders | an aggregate recomputed by concurrent transactions, and not at all by deletion | the aggregate is exact once a rating was given undisturbed |
| Registration (`registration/`) | `registration_requests`, `users`, profiles | register, approve, reject | users | check-then-write on the request | accounts come from entitled approvers; without overlap from the request as it stands |
| Auth, sessions, users (`auth/`, `users/`, `common/services/token-revoke.service.ts`) | tokens, deny list, `access_token` of customers | login, refresh, magic link, deactivate, reset, change of role | every guard, gateway | a link used twice; a deactivated user with a live token | who is out stays out; role and profile fit |
| Profiles (`customers/`, `technicians/`, `dealers/`, `coordinators/`, `devices/`) | single rows | CRUD | users, work orders | a count, then a deletion, while orders are added | nothing that an order names is deleted |
| Media and avatars (`media/`, `users/users-avatar.controller.ts`) | S3 objects and rows | upload, delete | work orders, S3 | two stores, one after the other; an unawaited deletion | rows name objects, and nothing is left over |
| Reporting (`reporting/`) | none | overview, summary, search | Postgres | figures from several statements without a transaction | the figures of one overview agree about every order that stood still |
| Geocoding cache (`locations/geocoding-cache.service.ts`) | Redis keys | read-through | HTTP | none: answers are immutable | - |
| Infrastructure (`common/`, `redis/`, `bullmq/`) | connections | transactions, guards, filters, row-level security context | all | isolation level, lost connections | appears inside the modules above |
| Frontend session (`frontend/src/lib/api/client.ts`, `lib/stores/auth-store.ts`) | tokens and user | refresh, login, logout | the API | a refresh shared by requests, another by each retry | tokens, user and requests are one person's |
| Frontend socket (`frontend/src/lib/api/locations.ts`, `lib/hooks/use-location-socket.ts`) | socket objects, timers | connect, reconnect, new token, unmount | location gateway | callbacks of sockets already dropped | no timer or wired socket outlives the hook's own |
| Frontend pages (`frontend/src/app`, `components`) | query cache, dialogs, forms | lists, buttons, the form for new orders | the API | lists that are out of date or another user's; three calls for one order | an offered action is refused only for such a reason; one order per form |

Who calls whom, in the modelled core:

```
 controller -> WorkOrdersService --commit--> Postgres
                     |  emit WorkOrderStatusChangedEvent      publish hq:activities
                     v                                              |
          NotificationSubscriber -> enqueue (row, then job)         v
                     |                                        LocationGateway
                     v  BullMQ                                 rooms, sockets
          NotificationWorker -> process -> adapter            |  position updates
                                                              v
                        PositionRateLimiter -> LocationCache -> PositionSync -> Postgres
                                                     \------- flush on disconnect --/
```

## 2. Modules

| Module | Models | Uses |
|---|---|---|
| `WorkOrderRules` | `TRANSITIONS`, `CANCEL_RULES`, the role of every endpoint, what a transition writes to the columns | - |
| `WorkOrderLifecycle` | abstract specification: every transition one atomic step | `WorkOrderRules` |
| `WorkOrders` | `WorkOrdersService` under concurrent requests | `WorkOrderRules`, instances of `WorkOrderLifecycle` |
| `NotificationLifecycle` | abstract specification: a notification is promised, told and settled | - |
| `Notifications` | subscriber, `enqueue`, BullMQ, worker, `process` | an instance of `NotificationLifecycle` |
| `RoomMembership` | abstract specification: one relation of clients and rooms | - |
| `LocationGateway` | gateway, room manager, token check | an instance of `RoomMembership` |
| `PositionRateLimiter` | `check()` as functions of limits and clock | - |
| `Positions` | updates, cache, periodic sync, flush on disconnect | `PositionRateLimiter` |
| `OrderNews` | orders that move on while their news is stored, queued and sent | `WorkOrders`, `Notifications` |
| `SlaScan` | the repeatable job `sla-check` | - |
| `Broadcast` | the two ways of a position to its watchers | - |
| `Registration`, `Sessions`, `Ratings`, `Media`, `Catalog` | the services of those names; `Catalog` is deletion of customers and devices | - |
| `Reporting` | `getOverview` | `WorkOrderRules` |
| `Client` | auth store and interceptors | - |
| `LocationSocket` | hook and socket of the live map | - |
| `Screens` | order lists, buttons, dialogs, query cache | `WorkOrderRules` |
| `OrderForm` | the form for new orders | - |
| `WorkOrderProofs`, `WorkOrderSerial`, `NotificationProofs`, `LocationGatewayProofs`, `PositionProofs` | theorems | the module they are about |
| `OrderNewsProofs` | theorems | `OrderNews`, instances of `WorkOrderProofs` and `NotificationProofs` |
| `BackOfficeProofs`, `FrontendProofs` | theorems about the instances of `MCBackOffice` and `MCFrontend`, their constants left open | `MCBackOffice`, `MCFrontend` |
| `MC*` | instances for TLC | the module they check |

Operators commented `Fault:` are plausible slips in the definition that follows
them; nothing in the specifications refers to them. They exist to test that a
property notices the slip.

### WorkOrders

One record per busy handler (`request[s]`) walks through the round trips of
`transition()`:

| Step of the model | Code (`work-orders.service.ts`) |
|---|---|
| `Load` (through `Assign` ... `Cancel`) | `findById` in the caller's scope, cancel rules, `StateMachineService.validate`. A request that is refused here changes nothing and is no step |
| `Recheck`, `RecheckConflict`, `InsertRejected` | the re-read inside `$transaction`, its conflict, the audit insert and its foreign key on `users` |
| `Commit` | `update` by id and commit: status, technician, `completed_at`, audit row |
| `RolledBack` | any error or death before the commit |
| `EmitEvent`, `Publish`, `AnswerError` | `eventEmitter.emit`, `redis.publish`, the exception filter |
| `Crash` | death after the commit |

Update and commit are one step because no other reader sees the row in between;
re-read and commit are two, because READ COMMITTED with a plain `SELECT` lets
others commit in between. That is the whole difficulty of the module.

`Spec` lets requests overlap. `SerialSpec` is the same next-state relation with
the requests for one order kept apart; it shows what the service would promise
with a lock, or does promise when nobody else touches the order.
`WorkOrderLifecycle` is instantiated twice: with `Isolated = TRUE` it is the
state diagram, with `Isolated = FALSE` it lets a transition start from any
status the order *has had*, made by a technician who *has held* it, which is what
remains under overlap.

### Notifications

`notice[n]` is the subscriber's progress with one status change, `row[n]` the
database row, `job[n]` the BullMQ job, `worker[w]` a processor. `Store` and
`Enqueue` are the two writes of `enqueue()`; `Take`, `Send`/`GiveUp`, `Record`
and `Finish` the life of a job in a worker. BullMQ is modelled from how the code
configures it: `attempts` with backoff (`WorkerError`, `BackoffEnds`), locks and
stalls (`LockLost`, `Stalled`). The adapters never throw, so a send is one step
with three outcomes: accepted and reported, accepted with the answer lost, not
accepted.

`NotificationLifecycle` leaves queue, locks and workers out: `Promise` is the stored
row, `Tell` a send that arrives, `Settle` the recorded outcome, `Break` a fault. A
notification is told and settled while it is PENDING; everything that breaks allows one
more message to everybody, and from then on an outcome may be recorded again.

### LocationGateway

One process, one thread: a handler runs until it awaits. `pending` holds the
handlers that wait and for what; `Connect`/`Verified`/`AutoSubscribed`,
`Subscribe`/`AccessAllowed`/`AccessDenied` and `Disconnect`/`Synced` are the
pieces between the awaits; `Join` is the handler that resumes with the database's
answer, when orders may have moved on. Message and close callbacks run whatever else
waits, because the framework does not wait for `handleConnection`. `entitled` is what
the database would answer now; it changes under the gateway. `shown` is what it would
have answered at some time since the client's handlers that wait began to ask (`Ask`).
`raced` remembers the sockets that closed while a handler waited.

`RoomMembership` has one relation instead of the two maps and the handlers: clients
join rooms of orders they were shown while they asked, quit them, and leave all of them
in the step in which they go. Only who went with a question open (`raced`) may be let in afterwards.

### Positions

A technician may have several connections, one after the other or at once, at one
process or at several (`home`). An update that passes the limit (`AcceptUpdate`) waits
in `checking` for its validation and is dropped there or stamped and sent to Redis
(`Discard`, `Process`), whether its socket is still open or not. `toRedis[i]` holds the
commands of process `i`, which Redis runs in order (`RunCommand`): the `setex` of an
update, and the `get` of a flush that a closing connection asked for. `cache` is the
Redis key (a position is named by its timestamp), `copies` what a periodic sync
(`SyncRead`) or a flush has read and not yet written (`Write`, `FailWrite`).
`overtaken`, `accepted` and `recentDrops` record the past for the properties only.

### OrderNews

`WorkOrders` and `Notifications` are instantiated side by side. They share one
step: `eventEmitter.emit` runs the subscriber in the handler of the request up to
its first `await` (`Emit` is `EmitEvent` and `StatusChanged` together). A
transition is named by its order and the number of its audit row. Everything else
interleaves, so the order is reassigned, declined or finished while the news of an
earlier transition is still stored, queued or sent. `addressee` is the user or
customer a notification is for.

### SlaScan and Broadcast

`scan` is the BullMQ job with its attempts and stalls, `list` what its query found,
`todo` the orders its loop has not reached, `warned` the notifications stored. Orders
change between query and loop (`OrderChanges`).

`Broadcast` follows the positions of one technician. The instance the technician is
connected to publishes to Redis, waits for that, and then broadcasts to its own
rooms; it is also a subscriber, so its clients are told twice. `wire[i]` holds the
messages on their way to instance `i`, `unbroadcast` the positions the local
broadcast still owes, `shown[i]` what a client there shows.

### Registration, Sessions, Ratings, Media, Catalog, Reporting

Each follows one address, user, technician, bucket, pair of rows or order. Handlers
are split at their round trips and hold what they read. A request that is
refused without a change is a step that is not enabled.

| Module | Held between round trips | Read again |
|---|---|---|
| `Registration` | the form as `approve`/`reject` read it | nothing: `register` upserts over whatever is there |
| `Sessions` | role and profile as the token or the row said | `denied`, by the guard of a request and the handshake of a socket; the row, by a request only |
| `Ratings` | nothing; each statement sees what is committed by then, and its own row | by every statement (READ COMMITTED) |
| `Media` | the old avatar's key | nothing |
| `Catalog` | that no open order was counted | the foreign key, by the deletion |
| `Reporting` | `view.told`: what each figure read so far has of the followed order | nothing |

Some variables only remember the past, for the properties: `raced` (two handlers of
`Registration` were under way at once), `moved` (the role of the account of `Sessions` was
ever changed), `settled` (the last write of a rating overlapped no other),
`spoiled` (a second write to bucket or row failed, or avatar changes overlapped),
`changed` (the followed order moved during the overview). In each case the code
promises nothing once they are set, and TLC finds the states in which it does not
hold then: the properties say where the damage of an overlap ends, not that there is
none. In `Sessions` nothing is excused: a deactivation cuts nobody off at once, and
`OutForGood` says from when on the user stays out.

### Client, LocationSocket, Screens, OrderForm

`Client`: a token is represented by the person it was issued to. `renewal` is
`refreshPromise`; `call[r]` a request through both interceptors, with its one retry
and the separate refresh that retry makes. `crossed` remembers that a session began
or ended while a request was out, or that two refreshes ran at once.

`LocationSocket`: `world` holds every `LocationSocket` object and `WebSocket` made so
far, since callbacks keep dropped ones alive; `current` is the one in the hook's
ref. `Effects` runs the effects of a render in their order; an expired token makes
the first of them wait for a refresh (`refreshing`, `orphans` for those whose
component is gone).

`Screens`: one order, one browser, one user after another. `list` is what the page
shows, `dialog` the copy a modal was opened on, `press` the calls under way. What each
table offers is translated from its component, what the API accepts from the
controllers' `@Roles`, `TRANSITIONS` and `CANCEL_RULES` (by way of `WorkOrderRules`).
`sound` says whether the copy a click was made on was the user's own and the order
had not moved since; `here` whether the page it was made on is still on the screen,
since the lock of the cancel dialog and the callback that closes a dialog go with it.

`OrderForm`: a submission makes customer, device and order in three calls and goes on
when the form or the page is closed. Only the third call disables the button, from
`MakeOrder` (the order is committed) until `OrderMade` (its answer is there and the lists
it made out of date were read again), which closes the form. `troubled` remembers a
submission begun while another was under way, and an order whose answer was lost.

## 3. Runs

`backoffice` and `frontend` hold parts that share no variable. A behaviour moves one
part and leaves the others at a fixed initial state, so the states of the parts add up
instead of multiplying; nothing is lost, for no part reads another's state.

All runs but the liveness ones use the plain specification. `CHECK_DEADLOCK
FALSE` everywhere: trails, clocks and sockets are bounded, and the system may
rest when nobody asks for anything.

| Run | Question | Bounds and why they are enough |
|---|---|---|
| `wo_concurrent` | What survives overlapping requests? | 1 order (orders share nothing but handlers), 2 handlers at once, 5 users with two technicians (technicians and handlers are interchangeable, hence the symmetry), new requests up to a trail of 5, so trails of up to 6: assign, decline, assign again and a stale commit fit, and so does completion; one crash |
| `wo_serial` | Does the service implement the state diagram when requests do not overlap? | all six users, trail up to 8 (the longest way through RESCHEDULED and ISSUE), one crash |
| `wo_terminal` | Can an order leave a final status? (violated) | as `wo_concurrent` |
| `wo_customer_cancel` | Can a customer cancel? (violated) | as `wo_concurrent` |
| `notifications` | Rows, jobs, deliveries | 2 notices, 2 workers (two workers on one job, another waiting), 2 attempts, 1 stall, 2 faults; one adapter, so that both "no adapter" and "sent" occur |
| `notif_retry` | Are failed sends retried? (violated) | as above |
| `gateway` | Rooms against sockets | a technician, an HQ user, a customer, a dealer and one order room; any two of them connect (`TwoConnect`), for clients meet only in the room maps |
| `gateway_cleanup` | Is a gone client forgotten? (violated) | two clients |
| `positions` | Rate limit and age of positions | the limits scaled down with their order kept (interval < window = ban), one technician, since only the writers of one technician's row meet; the limiter for long on one connection whose updates go no further (`Limiting`: clock 2..12, two windows and a ban), cache and writers on two connections at one or two processes, each with its sync, while nothing is dropped (`Writing`: clock 2..4, TTL 2: two updates, one of them after a reconnect or on the other connection, and an expiry). Limiter and writers do not look at each other's state. Connections and processes are interchangeable, hence the symmetry |
| `pos_overwrite` | Is the last position the last? (violated) one connection, one process, clock 2..6 |
| `backoffice` | What is left of accounts, sessions, ratings, objects, deletions, warnings, positions, overview and news when handlers overlap, writes fail and jobs are repeated? | two handlers everywhere, since every hazard here is of two; two secrets would only rename (one); two rated orders; one image and two avatar extensions; two orders and two due orders; three attempts and one stall of a scan; three positions. News: one order, two handlers, one technician, LINE and EMAIL both configured, one worker, looked at in three places of the order's life: from nothing, from ACCEPTED (the technician and, on EN_ROUTE, the customer are told) and from IN_PROGRESS (customer, and dealer on ISSUE and ESCALATED). From each, requests are taken until the trail has two more rows (so three with overlap); one fault, in the last place only; no crash and no stall, which `wo_concurrent` and `notifications` cover |
| `frontend` | What do the browser's tokens, socket, buttons and form keep? | two people, two requests (one shares the other's refresh, one refreshes alone); three tokens, six sockets, four objects, one orphaned refresh; one user per role, one call at a time; three submissions, two openings, one serial number |

Fairness. `FairSpec` of `WorkOrders` (handlers that were started run on),
`Notifications` (subscriber handlers run on, workers take waiting jobs, BullMQ's
timers fire) and `LocationGateway` (a query is answered with a result or an
error; a closing socket closes, for `ws` gives up after 30 s). In `Client` every HTTP
call the browser has out is answered or fails at last. Nothing obliges a user, a
status change or a fault to happen. `Positions` and the parts of `backoffice` state no
liveness.

Every property of a passing run is tested against a fault in a definition of the
model (`mutants` in `PROJECT.json`): with the fault TLC must report the property
violated.

Properties, by hazard:

* **Overlapping requests**: `HistoryObeysRules` (each audit row is a legal
  edge made by a role that owns it), `TechniciansHeldTheOrder`,
  `OrderMatchesTrail`, `RequestsStandOnTrail` (what makes the others inductive) and the
  refinement `StaleLifecycle`. `HeldWhileUnderWay` and the refinement `StrictLifecycle`
  hold only without overlap. `FinalOnceAtRest` is what overlap leaves of final statuses:
  an order that becomes final while no handler has it in hand stays as it is.
* **Events after the commit**: `UnreportedOnlyAfterCrash`,
  `EveryTransitionReported`.
* **Row and job, send and record**: `DeliveredOncePerFault` (at most 1 + faults
  deliveries), `PendingIsCarried` (a PENDING notification is in somebody's hands, or
  something broke and its job was never added or was given up), the refinement
  `SettledOnce`, `JobsEnd`, `SettledUnlessFault`.
* **Sockets and awaits**: `MapsAgree`, `OpenMeansKnown`, `GoneUnlessRaced`,
  `EventuallyForgotten`, the refinement `OneRelation` (a client enters a room only if the
  database would have let it see the order at some time while its handler asked, and
  leaves all rooms in one step). Nothing says that a member is still entitled: the code
  does not see to that (section 5).
* **Clock and writers**: `AcceptedApart`, `BanNeedsDrops`,
  `DropsHaveCause`, and `StepsBackHaveCause`: while a technician's connections are at one
  process the cached position never goes back, though handlers still wait at a
  reconnect, and the row in Postgres goes back in one way only, by a copy that was
  overtaken between its read and its write.
* **Check, then write**: `AccountsMatchDecisions`, `DeletedWasUnused` (what an order names
  exists, and a dealer with a profile deletes no customer).
* **Doors that stay closed**: `OutForGood` (once the access tokens, sockets and logins of
  before are gone, a deactivated user never comes back, by request or by socket, whatever
  refresh tokens are left; nor a customer whose link is spent; and the deny list is filled
  for deactivated users only), `ProfileFitsRole` (the role and the profile of a token, a
  socket or a request fit, though tokens take two round trips and the role may change).
* **Statements without a snapshot**: `FiguresExactOnceSettled`,
  `OverviewTellsOneStory`.
* **Second writes and retries**: `BucketMatchesRows`, `EveryScanWarns`,
  `OneOrderPerForm`.
* **Late news**: `NewsMatchTrail` (who is told of a transition had to do with the order
  by then, though it has moved on; without crash and fault nobody is left out whom
  `notifyStatusChange` has to tell, which is not whom `Architecture.md:123` names: see
  section 5), `EachChangeToldOnce` (it was reported by one handler and once, is an edge of the
  diagram made by a role that owns it, and is told once and once more per fault),
  `WatchersEndOnNewest`.
* **The browser**: `OnePersonUnlessCrossed`, `RequestsSettle`, `SocketFollowsHook`,
  `RefusalsExplained`.

The type invariants, and what the refinements imply (`RowsStartFromReachedStatus`,
`HistoryChains`, `TerminalIsFinal` without overlap, `SentMeansDelivered`, `SentStays`),
are proved and not checked in a run.

## 4. Proofs

All theorems hold for every value of the constants that satisfies the named
assumptions (`RoleAssumption`, `NoTechnicianAssumption`, `NullsAssumption`, ...),
which say only that NULLs differ from values, that roles are roles and that
limits are natural numbers in the order the code has them. TLC evaluates them in
every run.

* `WorkOrderProofs`. The trail's laws are not inductive: a request checked
  against an old status commits later. The strengthening `IInv` adds
  `RequestsStandOnTrail`, that a request between its read and its commit holds a
  transition legal from a status in the trail and, for a technician, an order
  that technician has held. Trails only grow, so this survives every step of
  another handler, and it is exactly what `Commit` needs to keep the trail
  lawful. `OrderMatchesTrail` is part of `IInv`, since the first read takes status
  and technician from the columns. `UnreportedOnlyAfterCrash` is proved on top.
  In the same module: every step of `Spec` is a step of the abstract lifecycle
  with `Isolated = FALSE` or a stutter (`ImplementsStaleLifecycle`); `Commit` maps to
  `Move`, with `IInv` supplying its guard. `FinalStaysAtRest` needs that a request for a
  final order is refused, so that no handler takes one up (`NotTakenUp`): the handlers
  that have it in hand only become fewer, and with none left nothing is committed to it.
* `WorkOrderSerial`: with `NoOverlap` a request's `seen` is the current status
  and its technician the current holder (`Fresh`); hence the trail is a path,
  final statuses stay, an order under way is held, and `SerialSpec` implements the
  lifecycle with `Isolated = TRUE` (`ImplementsStrictLifecycle`).
* `NotificationProofs`. `DeliveredOncePerFault` is proved by accounting: `Budget`
  says that the deliveries of a notice, plus the workers that may still send it,
  plus one if its job may still be taken, are at most one more than the faults.
  Each fault can add one to the right side and at most one sender on the left;
  `Send` turns a sender into a delivery. `SentStays` rests on `OneRun`: while nothing
  has gone wrong a job has one worker, its owner, and is not handed out again. `PendingInHands` is inductive with three facts
  (`HandsInv`): only what was stored has a job, the owner of a job is at work on it, and a
  job is completed only after its outcome was recorded. `ImplementsLifecycle` maps row,
  deliveries and faults to the abstract lifecycle: `Budget` gives `Tell` its guard, and
  `UnsentArePending` (without a fault, what is yet to be sent or recorded is PENDING)
  gives `Settle` its own.
* `LocationGatewayProofs`. `MapsAgree` is inductive with types. `GoneUnlessRaced` needs `GoneInv`: a client that is gone,
  has no waiting handler and did not race is tidy, and a waiting position sync
  belongs to a closed socket (`SyncMeansClosed`). `RoomsAreOneRelation` maps the room
  map to `watches`; the guards of the abstract steps come from `MapsAgree`,
  `GoneInv`, `AsksKnown` (a waiting
  handler will only join what its client was shown) and `RacedAreGone` (only a closed socket has raced); a
  handler that resumes after the close is a `Join` of a client that is late.
* `PositionProofs`. `AcceptedApart` from the invariant that the last accepted
  time is the largest of `accepted`. `PositionsGoBackOnlyOvertaken` from `OrderInv`: the
  commands of a process wait in the order of their stamps (`QueuesInOrder`); the cached
  position of a technician at one process lies between the row and the copies on one side
  and the waiting commands on the other (`CacheBetween`); and a copy that was not
  overtaken is at least as new as the row (`FreshIsNewest`). `BanNeedsDrops` needs two more facts:
  what the limiter counts on an open connection are its latest drops, all inside the
  window (`CountedInWindow`), and a closing socket is gone before its ban is over
  (`BannedWhileClosing`, from `CloseTimeout < Ban`), so nothing is counted twice. `DropsAreCaused`: the
  limiter remembers an update it accepted on this connection, or none
  (`RemembersAnAccepted`), and then the clock is far enough from zero for nothing to be
  too soon.

* `OrderNewsProofs` proves `NewsMatchTrail` for the composition, from the assumptions
  that `MaxHistory` is a number and NULL no worker. `NewsInv` has three parts.
  `ServiceInv`: trails only grow, and whoever holds an order, or held it after some row,
  was given it by that row or an earlier one (`HoldersWereGiven`). `QueueInv`: workers
  and deliveries have jobs, and a job ends with an outcome unless something broke
  (`JobsEndInOutcome`). `LinkInv`: what was seen is committed and addressed to one of
  the order (`ToldIsAddressed`), a committed row was seen or is in the hands of a
  handler about to emit it (`CommittedIsSeen`), and what concerns somebody is queued
  before it is closed (`ConcerningIsQueued`). `WorkOrders` and `Notifications` move
  separately but for `Emit`, where the row in hand becomes news.
  `PartsComposed` says that the composition keeps what its parts promise:
  `OrderNews!Spec` implies the specifications of both, so every theorem of
  `WorkOrderProofs` and `NotificationProofs` holds in it. `ChangesToldOnce` uses two of
  them, `TrailIsLawful` and `DeliveriesBounded`, and adds what neither part can see
  (`OnceInv`): what was reported is in a trail (`ReportedAreRows`), no two handlers
  report one row (`ReportsAreOwn`), and the subscriber saw what was reported
  (`SeenAreReported`). `LinkedConstants` gathers what the two parts assume of their
  constants. `BackOfficeProofs` cites both for the instance in `MCBackOffice`
  (`NewsFollowsTheTrail`, `NewsToldOnce`).
* `BackOfficeProofs` and `FrontendProofs` prove each part's property for the part's own
  specification (`Rat!Spec => []FiguresExactOnceSettled` and so on), with one inductive
  invariant per part. What each adds to types and property:
  `RatingsInv`: a transaction still alone has counted and averaged over the committed
  ratings and its own (`AloneSeesAll`). `RegistrationInv`: a handler alone holds the form that stands
  (`AloneReadsHold`). `SessionsInv`: what a visit is doing tells
  whose it is (`KnownByPhase`), and until the role changes all tokens and visits have it
  (`RoleKept`); `OutForGood` then holds of every step. `CatalogInv`: orders not yet created name
  nothing, and a dealer with a profile that is about to delete a customer has an order for
  it (`DealersHaveOrders`). `ScanInv`: an order the loop has passed was warned in this attempt
  (`FoundAreWarned`). `BroadcastInv`: the queue to an instance increases and ends with
  the newest position, or that one was missed. `ReportingInv`: a figure tells of the
  followed order only what is still so, unless it changed (`ToldIsSo`).
  `MediaInv`: one handler at a time holds an image's key (`NewKeysHeldAlone`) or the
  avatar (`OneOnAvatar`). `ClientInv`: requests and the shared refresh are of the person
  in the store. `FormInv`: an untroubled opening has one submission that may still
  order. `ScreensInv`: a sound click asks for a transition that starts from the current
  status. `SocketInv`: `Followed(world)`, kept by every effect in turn.
  Assumptions: `KeysApart` (image and avatar keys differ in their prefix),
  `BoundsAreNumbers`, `NewsConstants` (NULL is no user, and `LinkedConstants`).

Only model-checked: the liveness properties (`EveryTransitionReported`, `JobsEnd`,
`SettledUnlessFault`, `EventuallyForgotten`, `RequestsSettle`), which rest on fairness
and are out of the prover's reach.

## 5. Disagreements found

With a run that shows each:

* `wo_terminal`: the re-read of `transition()` (`work-orders.service.ts:143`) is
  unlocked and the update is by id, so two requests validated against one status
  both commit, and a cancelled order can become accepted, while `Architecture.md:65`
  draws CANCELLED as final.
* `wo_customer_cancel`: the audit row's `changed_by_user_id` references `users`; a
  customer's id is not there, so the cancellation that
  `work-orders.service.spec.ts:461` expects to succeed is rolled back.
* `notif_retry`: a failed send is recorded and the job completes; the attempts of
  the queue are only used by exceptions. `Architecture.md:125` says failed sends
  are retried with backoff.
* `gateway_cleanup`: a handler that resumes after the socket closed enters the
  client into `clientData` and the rooms again.
* `pos_overwrite`: a periodic sync can replace a position by an older one it read
  earlier. `Architecture.md:116` says the location is last-value-wins.

Seen while reading, without a run:

* `RoomManagerService.clientRooms` keeps an empty set for every client that ever
  subscribed.
* A message that arrives while `handleConnection` still waits closes the socket
  (the model has it: `Unauthenticated`).
* `consecutiveDrops` is not reset by an accepted update, so drops that are not
  consecutive lead to a ban (the model has it: `AfterAccept`).
* `.env.example:7` speaks of a restricted connection with row-level security
  enforced at runtime; no code reads `DATABASE_URL_RUNTIME`.
* `API_MANNUAL.md:47` describes rotation of refresh tokens; `auth.service.ts` refreshes
  without revoking the old one.
* `ratings.service.ts:137` deletes a rating and leaves the technician's aggregate;
  `ratings.service.ts:69-88` averages without the rating of an overlapping
  transaction (the model has both: `settled` is false).
* `approve` and `reject` that both read PENDING leave a REJECTED request with its user
  created (`registration.service.ts:104`; `Registration`, `raced`).
* Two uses of one magic link at once both get a session (`Sessions`: `UseLink` of one
  visit before `ConsumeLink` of the other).
* `Concern.md:10` wants the deny list to cut a deactivated user off at once.
  `users.service.ts:79` never sets it: only a login or a refresh of the deactivated user
  does (`auth.service.ts:52, 89`). Until then the handshake of a socket, which asks
  nothing else (`ws-auth.service.ts:51-59`), admits any access token that has not
  expired. No customer is ever put on the list (`Sessions`: `OpenSocket`, `CheckDenied`;
  `OutForGood` says where it ends).
* `Concern.md:13` wants sockets re-validated on sensitive events. Nothing looks at a
  socket's token or user again (`location.gateway.ts:154-259`), so it outlives its token,
  a deactivation and a change of role.
* `Concern.md:33` wants a position visible only to the customer of the technician's
  current active order. A client stays in the room of an order it lost or that is
  finished, until it goes (`location.gateway.ts:257, 279`; `LocationGateway`:
  `EntitlementChanges` leaves the rooms alone); `autoSubscribeRooms` gives a customer
  finished orders too; and an update goes to the room its sender names
  (`location.gateway.ts:219`), whether that order is the technician's or not.
* `Architecture.md:123` counts accepted among the transitions of which the customer is
  told. `notification-subscriber.service.ts:155` tells the technician of it, and the
  customer of EN_ROUTE and COMPLETED only (`OrderNews`, `Addressee`).
* Two processes may cache positions of one technician in another order than they were
  stamped in, and the older one stays (`Positions`: `StepsBackHaveCause` speaks of
  technicians at one process only).
* `getOverview` filters by `id` of the caller's profile (`reporting.service.ts:18`), a
  column of the order itself, so a technician or dealer sees zeros; one without a
  profile sees everything (`:19`). `activeOrders` leaves out RESCHEDULED and ESCALATED,
  which the pending list has.
* Two changes of the avatar at once, or one that follows the unawaited deletion of the
  other, leave a key without an object or an object without a key (`Media`, `spoiled`).
* The count before a deletion looks at open orders; final ones let the foreign key
  refuse it. A dealer sees only customers with orders, so it never deletes one; but one
  whose token names no profile (a failed lookup is enough, `auth.service.ts:195`) sees all
  of them and deletes any that is unused (`customers.service.ts:60, 77`; `Catalog`).
* A position of a technician reaches the watchers on the same instance twice, and an
  older one after a newer one.
* `client.ts:28, 57`: a refresh that ends after a logout stores tokens again, and one
  that ends after a login as somebody else mixes two people (`crossed`).
* `use-location-socket.ts:123`: after a new token the socket's handlers are gone, so the
  live map hears nothing until it is mounted again; a socket still CONNECTING when
  `connect()` runs again is left behind. No client handles the reconnect hint.
* Offered and never accepted (`Misoffered` in `Screens`): the queue's buttons to anyone but
  a coordinator, rescheduling of an ASSIGNED order, cancelling by headquarters in any
  status. `onAssign` and `onReschedule` of the orders page do nothing
  (`work-orders/page.tsx:160-161`). Nothing is offered on RESCHEDULED, and nobody is
  offered `escalate`.
* A coordinator is offered "New Order" (`work-orders/page.tsx:119`), which the API grants
  dealers only.
* `login-form.tsx:13` sends a coordinator to `/queue`, which `role-guard.tsx:10` leaves to
  HQ; `Architecture.md:35` gives the queue to coordinators.
* Logging out keeps the query cache, so the next user sees lists of the one before
  until they are fetched again; dialogs keep what was typed.
* The form for new orders may be submitted again while a customer or a device is being
  made (`create-order-modal.tsx:311-327`), and then makes two orders (`troubled`).
* A failed order leaves the customer its form made, which the dealer's list does not
  show (`OrderForm`: `customers \ orders`).

## 6. What is not modelled, and the plan

Not modelled: single-statement reads (lists, searches, `getSummary`, signed URLs),
creation and update of one profile row, rendering, validation of request bodies, the
row-level-security context, the geocoding cache (a read-through cache of immutable
answers), the shutdown hint of the gateway. They keep no state of their own or none
that another component reads back. The policies of
`prisma/migrations/20260709010000_add_rls_policies` are not part of the models:
they are enabled but not forced, and `prisma.service.ts:17` connects through
`DATABASE_URL`, the owner's connection, to which they do not apply.

Bounds common to all runs: faults, crashes, clock and trails are capped by the
constants `Max...`, and the MC modules add `TwoConnect`, `Limiting`, `Writing` and `Room`.
The proofs hold for every value of the constants and without the bounds of the MC modules.

What the modules build in, the proofs keep: a client of the gateway connects once (a
reconnect is another client); a position is named by its timestamp, with one clock for
all processes; Redis runs the commands of one process in their order (ioredis does,
except for commands it sends again after a lost connection, which is not modelled); the
adapters never throw; a sign-in in `Client` is a person, so two pairs of tokens of one
person are not told apart. And some properties excuse what follows an overlap or a
failure, through a variable that remembers it: `raced` (`LocationGateway`,
`Registration`), `crashes`, `settled`, `spoiled`, `changed`, `missed`, `moved`,
`crossed`, `sound`, `troubled`. The damage of the overlap itself (an account created
beside a rejection, a stale average, an orphaned object, an order ordered twice) is in
the models and is not denied by any property; section 5 lists it.

Abstractions worth knowing: in `Screens` a list is served and arrives in one step, and
the cached list an opening page shows may be any older copy (`Cached`), which covers
more than the cache holds; in `OrderForm` the moment between a submission and the
rendering of the disabled button is left out; in `Reporting` one order stands for all,
since every figure is a sum or a list over orders.

What could follow: the composition of `Positions` with `LocationGateway` over the
disconnect handler they share (`Disconnect`), and of `SlaScan` with `Notifications` over
`enqueue`.
