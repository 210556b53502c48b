----------------------------- MODULE Positions -----------------------------
(***************************************************************************)
(* The way of a technician's position: an update that passes the rate      *)
(* limit of its connection is validated, cached in Redis with a time to    *)
(* live when it moved far enough, and written to technicians.last_* in     *)
(* Postgres by the periodic PositionSyncService of every API process and   *)
(* when a connection closes.  A position is named by its timestamp.        *)
(*                                                                         *)
(* A technician may have several connections, one after the other or at    *)
(* once, at one API process or at several.  The handler of an update waits *)
(* for its validation; Redis runs its command later; a sync reads the      *)
(* cache first and writes row after row: so several writers hold positions *)
(* of different age.                                                       *)
(***************************************************************************)
EXTENDS PositionRateLimiter, Sequences, FiniteSets

CONSTANTS
    Technicians,
    Connections,    \* each is opened at most once
    Holder,         \* the technician of each connection
    Instances,      \* the API processes, each with its own periodic sync
    TTL,            \* POSITION_TTL_SECONDS
    CloseTimeout,   \* how long the ws library waits for a close handshake: 30 s
    Start,          \* the clock when the model starts: long after the epoch
    MaxTime         \* bound on the clock

ASSUME TimeAssumption ==
    /\ TTL \in Nat \ {0}
    /\ CloseTimeout \in Nat
    /\ CloseTimeout < Ban
    /\ Start \in Nat
    /\ Start >= MinInterval
    /\ MaxTime \in Nat

ASSUME HolderAssumption == Holder \in [Connections -> Technicians]

VARIABLES
    now,            \* the clock of the processes, which agree on it
    socket,         \* each connection's socket
    home,           \* the process each connection is or will be opened at
    limits,         \* rateLimits
    checking,       \* updates whose handler waits for the validation
    toRedis,        \* each process's commands on their way to Redis, in order
    cache,          \* location:tech:<id>: a position's stamp, 0 before the first,
                    \* and when it expires
    copies,         \* positions read from the cache and not yet written: by the sync
                    \* of a process or at the close of a connection
    lastLocationAt, \* technicians.last_location_at, 0 for NULL
    accepted,       \* the updates that passed the limit of each connection
    recentDrops     \* the last MaxDrops drops on each connection

vars == <<now, socket, home, limits, checking, toRedis, cache, copies,
          lastLocationAt, accepted, recentDrops>>

-----------------------------------------------------------------------------

Updates == [by : Connections, arrived : Nat]

\* setex, or the get of a flush, with the time it was sent at.
Commands == [kind : {"set", "get"}, by : Connections, sent : Nat]

\* overtaken: another position of the technician was written since it was read.
Copies == [writer : Instances \cup Connections, technician : Technicians,
           stamp : Nat, overtaken : BOOLEAN]

Init ==
    /\ now = Start
    /\ socket = [c \in Connections |-> "new"]
    /\ home \in [Connections -> Instances]
    /\ limits = [c \in Connections |-> FreshLimits(Start)]
    /\ checking = {}
    /\ toRedis = [i \in Instances |-> <<>>]
    /\ cache = [t \in Technicians |-> [stamp |-> 0, until |-> 0]]
    /\ copies = {}
    /\ lastLocationAt = [t \in Technicians |-> 0]
    /\ accepted = [c \in Connections |-> {}]
    /\ recentDrops = [c \in Connections |-> <<>>]

\* A socket the limiter closed is closed by CloseTimeout.
MayStayClosing(c) ==
    socket[c] = "closing" => now - (limits[c].bannedUntil - Ban) < CloseTimeout

Tick ==
    /\ now < MaxTime
    /\ \A c \in Connections : MayStayClosing(c)
    /\ now' = now + 1
    /\ UNCHANGED <<socket, home, limits, checking, toRedis, cache, copies,
                   lastLocationAt, accepted, recentDrops>>

\* A cached position that Redis has not expired.
Live(t) == cache[t].stamp > 0 /\ now < cache[t].until

Receives(c) == socket[c] \in {"open", "closing"}

Sends(c, kind) ==
    toRedis' = [toRedis EXCEPT ![home[c]] =
                    Append(@, [kind |-> kind, by |-> c, sent |-> now])]

-----------------------------------------------------------------------------
\* The connection.

Connect(c) ==
    /\ socket[c] = "new"
    /\ socket' = [socket EXCEPT ![c] = "open"]
    /\ limits' = [limits EXCEPT ![c] = FreshLimits(now)]
    /\ UNCHANGED <<now, home, checking, toRedis, cache, copies, lastLocationAt,
                   accepted, recentDrops>>

\* The socket closes, and syncLastPositionToDb asks for the cached position.
Disconnect(c) ==
    /\ Receives(c)
    /\ socket' = [socket EXCEPT ![c] = "closed"]
    /\ Sends(c, "get")
    /\ UNCHANGED <<now, home, limits, checking, cache, copies, lastLocationAt,
                   accepted, recentDrops>>

-----------------------------------------------------------------------------
\* handlePositionUpdate.  An update in a banned connection, whose socket is
\* closing, is ignored.

DropUpdate(c) ==
    LET dropped == Append(recentDrops[c], now) IN
    /\ Receives(c)
    /\ ~Banned(limits[c], now)
    /\ TooSoon(limits[c], now)
    /\ limits' = [limits EXCEPT ![c] = AfterDrop(@, now)]
    /\ recentDrops' = [recentDrops EXCEPT ![c] =
           IF Len(dropped) > MaxDrops THEN Tail(dropped) ELSE dropped]
    /\ socket' = [socket EXCEPT ![c] = IF BansNow(limits[c], now) THEN "closing" ELSE @]
    /\ UNCHANGED <<now, home, checking, toRedis, cache, copies, lastLocationAt,
                   accepted>>

\* The update passes the limit, and its handler waits for validate.
AcceptUpdate(c) ==
    /\ Receives(c)
    /\ ~Banned(limits[c], now)
    /\ ~TooSoon(limits[c], now)
    /\ limits' = [limits EXCEPT ![c] = AfterAccept(@, now)]
    /\ accepted' = [accepted EXCEPT ![c] = @ \cup {now}]
    /\ checking' = checking \cup {[by |-> c, arrived |-> now]}
    /\ UNCHANGED <<now, socket, home, toRedis, cache, copies, lastLocationAt,
                   recentDrops>>

\* The update is not valid, or less than 50 m from the last one processed.  It
\* has used up its interval all the same.
Discard(u) ==
    /\ u \in checking
    /\ checking' = checking \ {u}
    /\ UNCHANGED <<now, socket, home, limits, toRedis, cache, copies,
                   lastLocationAt, accepted, recentDrops>>

\* Fault: the position is stamped with the time its update arrived at.
StampedOnArrival(u) ==
    /\ u \in checking
    /\ checking' = checking \ {u}
    /\ toRedis' = [toRedis EXCEPT ![home[u.by]] =
                       Append(@, [kind |-> "set", by |-> u.by, sent |-> u.arrived])]
    /\ UNCHANGED <<now, socket, home, limits, cache, copies, lastLocationAt,
                   accepted, recentDrops>>

\* setPosition stamps the position and sends it, whether its socket is still open
\* or not.
Process(u) ==
    /\ u \in checking
    /\ checking' = checking \ {u}
    /\ Sends(u.by, "set")
    /\ UNCHANGED <<now, socket, home, limits, cache, copies, lastLocationAt,
                   accepted, recentDrops>>

-----------------------------------------------------------------------------
\* Redis.

CopyOf(writer, t) ==
    [writer |-> writer, technician |-> t, stamp |-> cache[t].stamp, overtaken |-> FALSE]

\* The next command of a process.
RunCommand(i) ==
    LET next == Head(toRedis[i])
        t    == Holder[next.by] IN
    /\ toRedis[i] # <<>>
    /\ toRedis' = [toRedis EXCEPT ![i] = Tail(@)]
    /\ \/ /\ next.kind = "set"
          /\ cache' = [cache EXCEPT ![t] = [stamp |-> next.sent, until |-> now + TTL]]
          /\ UNCHANGED copies
       \/ /\ next.kind = "get"
          /\ copies' = copies \cup (IF Live(t) THEN {CopyOf(next.by, t)} ELSE {})
          /\ UNCHANGED cache
    /\ UNCHANGED <<now, socket, home, limits, checking, lastLocationAt, accepted,
                   recentDrops>>

\* The next command of a process fails, which its handler logs.
FailCommand(i) ==
    /\ toRedis[i] # <<>>
    /\ toRedis' = [toRedis EXCEPT ![i] = Tail(@)]
    /\ UNCHANGED <<now, socket, home, limits, checking, cache, copies,
                   lastLocationAt, accepted, recentDrops>>

\* syncActivePositions: all the live positions, in one MGET.
SyncRead(i) ==
    /\ \A k \in copies : k.writer # i
    /\ copies' = copies \cup {CopyOf(i, t) : t \in {u \in Technicians : Live(u)}}
    /\ UNCHANGED <<now, socket, home, limits, checking, toRedis, cache,
                   lastLocationAt, accepted, recentDrops>>

-----------------------------------------------------------------------------
\* Postgres: the update of a technician's row by the loop of a sync or by the
\* flush of a connection.

\* The copies on their way when k has been written.
Overtaken(k) ==
    {IF d.technician = k.technician THEN [d EXCEPT !.overtaken = TRUE] ELSE d :
        d \in copies \ {k}}

Write(k) ==
    /\ k \in copies
    /\ lastLocationAt' = [lastLocationAt EXCEPT ![k.technician] = k.stamp]
    /\ copies' = Overtaken(k)
    /\ UNCHANGED <<now, socket, home, limits, checking, toRedis, cache, accepted,
                   recentDrops>>

\* A write that fails is logged and skipped.
FailWrite(k) ==
    /\ k \in copies
    /\ copies' = copies \ {k}
    /\ UNCHANGED <<now, socket, home, limits, checking, toRedis, cache,
                   lastLocationAt, accepted, recentDrops>>

-----------------------------------------------------------------------------

Next ==
    \/ Tick
    \/ \E c \in Connections :
           \/ Connect(c)
           \/ Disconnect(c)
           \/ DropUpdate(c)
           \/ AcceptUpdate(c)
    \/ \E u \in checking : Discard(u) \/ Process(u)
    \/ \E i \in Instances : RunCommand(i) \/ FailCommand(i) \/ SyncRead(i)
    \/ \E k \in copies : Write(k) \/ FailWrite(k)

Spec == Init /\ [][Next]_vars

-----------------------------------------------------------------------------
\* Properties.

TypeOK ==
    /\ now \in Nat
    /\ socket \in [Connections -> {"new", "open", "closing", "closed"}]
    /\ home \in [Connections -> Instances]
    /\ limits \in [Connections -> Limits]
    /\ checking \subseteq Updates
    /\ toRedis \in [Instances -> Seq(Commands)]
    /\ cache \in [Technicians -> [stamp : Nat, until : Nat]]
    /\ copies \subseteq Copies
    /\ lastLocationAt \in [Technicians -> Nat]
    /\ accepted \in [Connections -> SUBSET Nat]
    /\ recentDrops \in [Connections -> Seq(Nat)]

\* Two updates of one connection that pass the limit are at least MinInterval
\* apart, also after drops, after a ban and across windows.
AcceptedApart ==
    \A c \in Connections : \A a, b \in accepted[c] : a < b => b - a >= MinInterval

\* A connection is only closed for its rate after MaxDrops drops in one window.
BanNeedsDrops ==
    \A c \in Connections :
        socket[c] = "closing" =>
            /\ Len(recentDrops[c]) = MaxDrops
            /\ recentDrops[c][MaxDrops] - recentDrops[c][1] <= DropWindow

\* An update is dropped only when another one of its connection was accepted less
\* than MinInterval before it: a technician who keeps the interval is never
\* dropped, and so never closed, not even after drops or a reconnect.
DropsHaveCause ==
    \A c \in Connections : \A i \in 1..Len(recentDrops[c]) :
        \E a \in accepted[c] : /\ a <= recentDrops[c][i]
                               /\ recentDrops[c][i] - a < MinInterval

\* All connections of the technician are at one process.
OneHome(t) ==
    \A c, d \in Connections : Holder[c] = t /\ Holder[d] = t => home[c] = home[d]

NeverOlder(t) == cache'[t].stamp >= cache[t].stamp

\* A position of the technician that goes back in Postgres was overtaken.
OlderOnlyOvertaken(t) ==
    lastLocationAt'[t] < lastLocationAt[t] =>
        \E k \in copies : /\ k.technician = t
                          /\ k.overtaken
                          /\ k.stamp = lastLocationAt'[t]

\* While a technician's connections are at one process, the cached position never
\* goes back, whatever handlers still wait at a reconnect, and the one in
\* Postgres goes back in one way only: a position written after another one that
\* was written since it was read (the missing comparison of PositionSyncService
\* and syncLastPositionToDb).
StepsBackHaveCause ==
    [][\A t \in Technicians : OneHome(t) => NeverOlder(t) /\ OlderOnlyOvertaken(t)]_vars

\* The last known position of a technician is never replaced by an older one.
LastLocationAdvances ==
    [][\A t \in Technicians : lastLocationAt'[t] >= lastLocationAt[t]]_vars
=============================================================================
