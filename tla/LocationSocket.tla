--------------------------- MODULE LocationSocket ---------------------------
(***************************************************************************)
(* The browser's end of the location gateway: the hook useLocationSocket,  *)
(* whose effects run when the access token changes, and the LocationSocket *)
(* objects it makes and drops, with their WebSockets, reconnect timers and *)
(* push intervals.  A dropped object or socket lives on as long as the     *)
(* browser holds a callback of it, so none is forgotten here.              *)
(***************************************************************************)
EXTENDS Naturals

CONSTANTS MaxTokens, MaxSockets, MaxObjects, MaxOrphans     \* bounds

VARIABLES
    token,      \* accessToken of the store; 0 is null
    issued,     \* tokens issued so far
    mounted,    \* a component that uses the hook is on the screen
    prev,       \* prevTokenRef
    refreshing, \* the running effect waits for its own refresh
    orphans,    \* refreshes whose effect has been cleaned up
    world       \* the sockets, the objects and socketRef

vars == <<token, issued, mounted, prev, refreshing, orphans, world>>

Sockets == 1..MaxSockets
Objects == 1..MaxObjects

TypeOK ==
    /\ {token, prev, issued} \subseteq 0..MaxTokens
    /\ {mounted, refreshing} \subseteq BOOLEAN
    /\ orphans \in 0..(MaxOrphans + 1)
    /\ world \in [socket : [Sockets -> [state : {"unused", "connecting", "open", "closed"},
                                        wired : BOOLEAN, of : 0..MaxObjects]],
                  object : [Objects -> [ws : 0..MaxSockets, timer : BOOLEAN,
                                        push : BOOLEAN, hears : BOOLEAN]],
                  made : 0..MaxObjects,
                  current : 0..MaxObjects]

Init ==
    /\ token \in {0, 1} /\ issued = token /\ prev = 0
    /\ mounted = FALSE /\ refreshing = FALSE /\ orphans = 0
    /\ world = [socket |-> [s \in Sockets |-> [state |-> "unused", wired |-> FALSE, of |-> 0]],
                object |-> [k \in Objects |-> [ws |-> 0, timer |-> FALSE, push |-> FALSE,
                                               hears |-> FALSE]],
                made |-> 0, current |-> 0]

-----------------------------------------------------------------------------
(***************************************************************************)
(* The methods of the object k, as functions of the world.                 *)
(***************************************************************************)
Unused(w) == {s \in Sockets : w.socket[s].state = "unused"}
Fresh(w) == CHOOSE s \in Unused(w) : TRUE

\* connect: nothing if the socket is open, otherwise a new one takes its place,
\* whatever the old one is doing.
Connect(w, k) ==
    LET held == w.object[k].ws
        s == Fresh(w)
    IN  IF held # 0 /\ w.socket[held].state = "open" THEN w
        ELSE [w EXCEPT !.socket[s] = [state |-> "connecting", wired |-> TRUE, of |-> k],
                       !.object[k].ws = s]

\* Fault: disconnect leaves the reconnect timer running.
Undone(o) == [o EXCEPT !.ws = 0, !.push = FALSE, !.hears = FALSE]

Dropped(o) == [ws |-> 0, timer |-> FALSE, push |-> FALSE, hears |-> FALSE]

\* disconnect: the callbacks but onopen are taken off, and a socket that is not
\* yet open is left to open by itself.
Disconnect(w, k) ==
    LET held == w.object[k].ws
        quiet == [w EXCEPT !.object[k] = Dropped(w.object[k])]
    IN  IF held = 0 THEN quiet
        ELSE [quiet EXCEPT !.socket[held].wired = FALSE,
                           !.socket[held].state = IF @ = "open" THEN "closed" ELSE @]

UpdateToken(w, k) == IF w.object[k].ws = 0 THEN w ELSE Connect(Disconnect(w, k), k)

-----------------------------------------------------------------------------
(***************************************************************************)
(* The effects of the hook.  The first makes the object, the second hands  *)
(* a changed token to the object it finds.                                 *)
(***************************************************************************)
Clean(w) == IF w.current = 0 THEN w ELSE [Disconnect(w, w.current) EXCEPT !.current = 0]

Made(w) ==
    LET k == w.made + 1
    IN  [Connect([w EXCEPT !.made = k, !.current = k], k) EXCEPT !.object[k].hears = TRUE]

\* Both effects for the token t, not expired, after the cleanup; `before` is what
\* prevTokenRef holds.
Effects(w, t, before) ==
    LET made == Made(w)
    IN  IF before = t THEN made ELSE UpdateToken(made, made.current)

\* A step of the model makes at most three sockets and two objects.
Room ==
    /\ \E s1, s2, s3 \in Unused(world) : s1 < s2 /\ s2 < s3
    /\ world.made + 2 <= MaxObjects

\* The effects run for the token t.  With an expired token the first one waits
\* for a refresh of its own, or gives up; the second then finds no object.
Run(w, t, before) ==
    \/ /\ t # 0
       /\ world' = Effects(w, t, before) /\ prev' = t /\ refreshing' = FALSE
    \/ /\ t # 0
       /\ world' = w /\ prev' = before
       /\ \/ refreshing' = FALSE
          \/ refreshing' = TRUE /\ orphans < MaxOrphans
    \/ /\ t = 0
       /\ world' = w /\ prev' = before /\ refreshing' = FALSE

Mount ==
    /\ ~mounted /\ Room
    /\ mounted' = TRUE
    /\ Run(world, token, token)
    /\ UNCHANGED <<token, issued, orphans>>

Orphaned == orphans' = IF refreshing THEN orphans + 1 ELSE orphans

Unmount ==
    /\ mounted
    /\ mounted' = FALSE
    /\ world' = Clean(world)
    /\ refreshing' = FALSE /\ Orphaned
    /\ UNCHANGED <<token, issued, prev>>

\* A login or a refresh by the API client stores a new token; a logout none.
TokenChanges(t) ==
    /\ t # token /\ Room
    /\ token' = t
    /\ issued' = IF t = 0 THEN issued ELSE t
    /\ IF mounted
       THEN Run(Clean(world), t, prev) /\ Orphaned
       ELSE UNCHANGED <<world, prev, refreshing, orphans>>
    /\ UNCHANGED mounted

NewToken == issued < MaxTokens /\ TokenChanges(issued + 1)
SignOut == TokenChanges(0)

\* The hook's own refresh brings a token: it is stored, the object is made at
\* once, and the change of the token then cleans it up and makes another.
Refreshed ==
    /\ refreshing /\ issued < MaxTokens /\ Room
    /\ token' = issued + 1 /\ issued' = issued + 1
    /\ world' = Effects(Clean(Made(world)), token', prev)
    /\ prev' = token' /\ refreshing' = FALSE
    /\ UNCHANGED <<mounted, orphans>>

RefreshFails ==
    /\ refreshing
    /\ refreshing' = FALSE
    /\ UNCHANGED <<token, issued, mounted, prev, orphans, world>>

\* So does a refresh whose effect is gone: its token is stored all the same.
OrphanRefreshed ==
    /\ orphans > 0 /\ issued < MaxTokens /\ Room
    /\ token' = issued + 1 /\ issued' = issued + 1
    /\ IF mounted
       THEN /\ world' = Effects(Clean(world), token', prev) /\ prev' = token'
            /\ refreshing' = FALSE
            /\ orphans' = IF refreshing THEN orphans ELSE orphans - 1
       ELSE orphans' = orphans - 1 /\ UNCHANGED <<world, prev, refreshing>>
    /\ UNCHANGED mounted

OrphanFails ==
    /\ orphans > 0
    /\ orphans' = orphans - 1
    /\ UNCHANGED <<token, issued, mounted, prev, refreshing, world>>

-----------------------------------------------------------------------------
(***************************************************************************)
(* The browser's callbacks.                                                *)
(***************************************************************************)
hook == <<token, issued, mounted, prev, refreshing, orphans>>

\* onopen, which is never taken off, starts the push interval of its object.
Opens(s) ==
    /\ world.socket[s].state = "connecting"
    /\ world' = [world EXCEPT !.socket[s].state = "open",
                              !.object[world.socket[s].of].push = TRUE]
    /\ UNCHANGED hook

\* A socket fails or is closed from the other side; onclose, while it is wired,
\* stops the push and schedules a reconnection.
Closes(s) ==
    /\ world.socket[s].state \in {"connecting", "open"}
    /\ world' = IF world.socket[s].wired
                THEN [world EXCEPT !.socket[s] = [@ EXCEPT !.state = "closed", !.wired = FALSE],
                                   !.object[world.socket[s].of].push = FALSE,
                                   !.object[world.socket[s].of].timer = TRUE]
                ELSE [world EXCEPT !.socket[s].state = "closed"]
    /\ UNCHANGED hook

TimerFires(k) ==
    /\ world.object[k].timer /\ Room
    /\ world' = Connect([world EXCEPT !.object[k].timer = FALSE], k)
    /\ UNCHANGED hook

Next ==
    \/ Mount \/ Unmount \/ NewToken \/ SignOut
    \/ Refreshed \/ RefreshFails \/ OrphanRefreshed \/ OrphanFails
    \/ \E s \in Sockets : Opens(s) \/ Closes(s)
    \/ \E k \in Objects : TimerFires(k)

Spec == Init /\ [][Next]_vars

-----------------------------------------------------------------------------
\* However often the token changes, sockets die and the component comes and
\* goes: a reconnect timer and a wired socket belong to the object the hook
\* holds, of which it has never both nor neither; without the component, or
\* without a token, there are none (locations.ts and use-location-socket.ts).
SocketFollowsHook ==
    /\ \A k \in Objects : world.object[k].timer => k = world.current
    /\ \A s \in Sockets : world.socket[s].wired => s = world.object[world.socket[s].of].ws
                                                   /\ world.socket[s].of = world.current
    /\ ~mounted \/ token = 0 => world.current = 0
    /\ world.current # 0 =>
         LET o == world.object[world.current]
         IN  o.ws # 0 /\ (o.timer <=> ~world.socket[o.ws].wired)
=============================================================================
