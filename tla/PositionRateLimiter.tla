------------------------ MODULE PositionRateLimiter ------------------------
(***************************************************************************)
(* PositionRateLimiterService: what check() does to the limits kept for a  *)
(* connection, as functions of the limits and of the clock.                *)
(***************************************************************************)
EXTENDS Integers

CONSTANTS
    MinInterval,    \* MIN_POSITION_INTERVAL_MS
    MaxDrops,       \* MAX_CONSECUTIVE_DROPS
    DropWindow,     \* DROP_WINDOW_MS
    Ban             \* RATE_LIMIT_BAN_MS

ASSUME LimiterAssumption ==
    /\ MinInterval \in Nat \ {0}
    /\ MaxDrops \in Nat \ {0}
    /\ DropWindow \in Nat
    /\ Ban \in Nat \ {0}

Limits == [lastAccepted : Nat, drops : Nat, windowStart : Nat, bannedUntil : Nat]

-----------------------------------------------------------------------------

\* init
FreshLimits(now) ==
    [lastAccepted |-> 0, drops |-> 0, windowStart |-> now, bannedUntil |-> 0]

Banned(l, now) == l.bannedUntil > now

\* Fault: off by one.
TooSoonByOne(l, now) == now - l.lastAccepted < MinInterval - 1

\* Fault: an update exactly MinInterval after the last one is dropped too.
TooSoonInclusive(l, now) == now - l.lastAccepted <= MinInterval

TooSoon(l, now) == now - l.lastAccepted < MinInterval

WindowOver(l, now) == now - l.windowStart > DropWindow

\* Fault: the drops of an earlier window are never forgotten.
DropsForever(l, now) == l.drops + 1

\* consecutiveDrops after a drop.
DropsAfter(l, now) == IF WindowOver(l, now) THEN 1 ELSE l.drops + 1

BansNow(l, now) == DropsAfter(l, now) >= MaxDrops

AfterDrop(l, now) ==
    [l EXCEPT !.drops = DropsAfter(l, now),
              !.windowStart = IF WindowOver(l, now) THEN now ELSE @,
              !.bannedUntil = IF BansNow(l, now) THEN now + Ban ELSE @]

\* An accepted update leaves the drops counted so far as they are, unless their
\* window is over.
AfterAccept(l, now) ==
    [l EXCEPT !.lastAccepted = now,
              !.drops = IF WindowOver(l, now) THEN 0 ELSE @,
              !.windowStart = IF WindowOver(l, now) THEN now ELSE @]
=============================================================================
