----------------------------- MODULE Broadcast -----------------------------
(***************************************************************************)
(* How the positions of one technician reach the people who watch the      *)
(* order.  The instance the technician is connected to ("home") caches and *)
(* publishes each position, and when both are acknowledged broadcasts it   *)
(* to its own clients; every instance, home included, broadcasts what its  *)
(* Redis subscription brings.  Positions are numbered in the order sent.   *)
(***************************************************************************)
EXTENDS Naturals, Sequences

CONSTANTS MaxUpdates

VARIABLES
    sent,       \* how many positions were published
    unbroadcast,\* published positions whose local broadcast is still to come
    wire,       \* what each subscription is about to bring
    subscribed, \* the state of each instance's subscription
    shown,      \* the position each instance's clients show
    missed      \* positions that never reach an instance's clients that way

vars == <<sent, unbroadcast, wire, subscribed, shown, missed>>

Instances == {"home", "away"}
Updates == 1..MaxUpdates

TypeOK ==
    /\ sent \in 0..MaxUpdates
    /\ unbroadcast \in Seq(Updates)
    /\ wire \in [Instances -> Seq(Updates)]
    /\ subscribed \in [Instances -> {"never", "up", "down"}]
    /\ shown \in [Instances -> 0..MaxUpdates]
    /\ missed \in [Instances \cup {"local"} -> SUBSET Updates]

\* onModuleInit catches a failed subscription and never tries it again.
Init ==
    /\ sent = 0
    /\ unbroadcast = <<>>
    /\ wire = [i \in Instances |-> <<>>]
    /\ subscribed \in [Instances -> {"never", "up"}]
    /\ shown = [i \in Instances |-> 0]
    /\ missed = [i \in Instances \cup {"local"} |-> {}]

-----------------------------------------------------------------------------
Elements(s) == {s[k] : k \in 1..Len(s)}

\* A subscription brings messages in the order they were published in, or not.
Pushed(i) == <<sent + 1>> \o wire[i]
Queued(i) == Append(wire[i], sent + 1)

\* handlePositionUpdate up to its await, for a position that passed the checks.
Publish ==
    /\ sent < MaxUpdates
    /\ sent' = sent + 1
    /\ unbroadcast' = Append(unbroadcast, sent + 1)
    /\ wire' = [i \in Instances |->
           IF subscribed[i] = "up" THEN Queued(i) ELSE wire[i]]
    /\ missed' = [i \in Instances \cup {"local"} |->
           IF i \in Instances /\ subscribed[i] # "up" THEN missed[i] \cup {sent + 1} ELSE missed[i]]
    /\ UNCHANGED <<subscribed, shown>>

\* Both are acknowledged.
BroadcastLocally ==
    /\ unbroadcast # <<>>
    /\ shown' = [shown EXCEPT !["home"] = Head(unbroadcast)]
    /\ unbroadcast' = Tail(unbroadcast)
    /\ UNCHANGED <<sent, wire, subscribed, missed>>

\* The write to the cache failed: the handler throws before its broadcast.
CacheFails ==
    /\ unbroadcast # <<>>
    /\ missed' = [missed EXCEPT !["local"] = @ \cup {Head(unbroadcast)}]
    /\ unbroadcast' = Tail(unbroadcast)
    /\ UNCHANGED <<sent, wire, subscribed, shown>>

\* handlePubSubMessage, on every instance.
Deliver(i) ==
    /\ wire[i] # <<>>
    /\ shown' = [shown EXCEPT ![i] = Head(wire[i])]
    /\ wire' = [wire EXCEPT ![i] = Tail(wire[i])]
    /\ UNCHANGED <<sent, unbroadcast, subscribed, missed>>

\* The subscriber's connection breaks, with what was on it, and comes back.
ConnectionBreaks(i) ==
    /\ subscribed[i] = "up"
    /\ subscribed' = [subscribed EXCEPT ![i] = "down"]
    /\ missed' = [missed EXCEPT ![i] = @ \cup Elements(wire[i])]
    /\ wire' = [wire EXCEPT ![i] = <<>>]
    /\ UNCHANGED <<sent, unbroadcast, shown>>

Resubscribe(i) ==
    /\ subscribed[i] = "down"
    /\ subscribed' = [subscribed EXCEPT ![i] = "up"]
    /\ UNCHANGED <<sent, unbroadcast, wire, shown, missed>>

Next ==
    \/ Publish \/ BroadcastLocally \/ CacheFails
    \/ \E i \in Instances : Deliver(i) \/ ConnectionBreaks(i) \/ Resubscribe(i)

Spec == Init /\ [][Next]_vars

-----------------------------------------------------------------------------
\* A client of another instance never goes back to an older position.  A client
\* of the technician's own instance may, since it gets most positions twice; but
\* all come to rest on the newest position, unless that one was lost with their
\* subscription or its local broadcast was skipped.
AwayNeverGoesBack == \A n \in Elements(wire["away"]) : n > shown["away"]

AwayRestsOnNewest ==
    wire["away"] = <<>> /\ sent > 0 /\ sent \notin missed["away"] => shown["away"] = sent

HomeGetsNewest ==
    /\ sent \notin missed["local"]
    /\ sent \in missed["home"] => subscribed["home"] = "never"

HomeRestsOnNewest ==
    wire["home"] = <<>> /\ unbroadcast = <<>> /\ sent > 0 /\ HomeGetsNewest => shown["home"] = sent

WatchersEndOnNewest == AwayNeverGoesBack /\ AwayRestsOnNewest /\ HomeRestsOnNewest
=============================================================================
