-------------------------- MODULE RoomMembership --------------------------
(***************************************************************************)
(* What the rooms of the location gateway promise, without its maps and    *)
(* its waiting handlers: one relation says who watches which room.  A      *)
(* client is let in only to what it is shown, a client that goes leaves    *)
(* every room in the same step, and only a late client, which went while a *)
(* question of it was open, may still be let in afterwards.                *)
(***************************************************************************)
CONSTANTS
    Clients,
    Rooms,
    SeesAll         \* the clients that are shown every room

VARIABLES
    watches,        \* the rooms each client gets the messages of
    shown,          \* the rooms each client may be let in to
    gone,           \* the clients that went
    late            \* ... with a question open

membershipVars == <<watches, shown, gone, late>>

Init ==
    /\ watches = [c \in Clients |-> {}]
    /\ shown = [c \in Clients |-> {}]
    /\ gone = {}
    /\ late = {}

\* What the clients are shown changes elsewhere, but never as one is let in.
Show ==
    /\ shown' \in [Clients -> SUBSET Rooms]
    /\ UNCHANGED <<watches, gone, late>>

Join(c, joined) ==
    /\ c \notin gone \/ c \in late
    /\ joined \subseteq shown[c] \/ c \in SeesAll
    /\ watches' = [watches EXCEPT ![c] = @ \cup joined]
    /\ UNCHANGED <<shown, gone, late>>

Quit(c, r) ==
    /\ c \notin gone
    /\ watches' = [watches EXCEPT ![c] = @ \ {r}]
    /\ UNCHANGED <<shown, gone, late>>

Go(c) ==
    /\ c \notin gone
    /\ gone' = gone \cup {c}
    /\ late' \in {late, late \cup {c}}
    /\ watches' = [watches EXCEPT ![c] = {}]
    /\ UNCHANGED shown

Next ==
    \/ Show
    \/ \E c \in Clients :
         \/ \E joined \in SUBSET Rooms : Join(c, joined)
         \/ \E r \in Rooms : Quit(c, r)
         \/ Go(c)

Spec == Init /\ [][Next]_membershipVars
=============================================================================
