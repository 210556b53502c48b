-------------------------- MODULE LocationGateway --------------------------
(***************************************************************************)
(* LocationGateway and RoomManagerService in one API process: WebSocket    *)
(* clients connect, are authenticated, join the rooms of work orders and   *)
(* leave.                                                                  *)
(*                                                                         *)
(* The process has one thread, so a handler runs without interruption      *)
(* until it awaits the database or Redis.  `pending` holds the handlers    *)
(* that wait; each resumes in a step of its own, and the socket can close  *)
(* in between.  The framework does not wait for handleConnection before it *)
(* delivers messages or the close of the socket.                           *)
(***************************************************************************)
EXTENDS FiniteSets

CONSTANTS
    Clients,        \* sockets; each connects once
    RoleOf,         \* the role in each client's token
    OrderRooms,     \* room:order:<id>
    HQRoom          \* room:hq:activities

ASSUME RoleAssumption ==
    RoleOf \in [Clients -> {"TECHNICIAN", "CUSTOMER", "COORDINATOR", "HQ", "DEALER"}]

ASSUME RoomAssumption == HQRoom \notin OrderRooms

VARIABLES
    socket,         \* state of each socket; "closing" once the server closes it
    clientData,     \* the clients with an entry in clientData and a rate limit
    members,        \* RoomManagerService.rooms
    clientRooms,    \* RoomManagerService.clientRooms
    pending,        \* handlers waiting for the database or Redis
    entitled,       \* the order rooms the database lets each client see, now
    shown,          \* ... or has since the client's handlers that wait began to ask
    raced           \* the clients whose socket closed while a handler waited

vars == <<socket, clientData, members, clientRooms, pending, entitled,
          shown, raced>>

-----------------------------------------------------------------------------

Rooms == OrderRooms \cup {HQRoom}

Handler == [client : Clients, waitsFor : {"verify", "autoSubscribe", "sync"}]
           \cup [client : Clients, waitsFor : {"access"}, room : OrderRooms]
           \cup [client : Clients, waitsFor : {"join"}, rooms : SUBSET Rooms]

Waiting(c, what) == [client |-> c, waitsFor |-> what]

WaitingForAccess(c, r) == [client |-> c, waitsFor |-> "access", room |-> r]

\* The database has answered, and the handler is about to resume with the answer.
WaitingToJoin(c, rooms) == [client |-> c, waitsFor |-> "join", rooms |-> rooms]

Busy(c) == \E h \in pending : h.client = c

Asking(c) ==
    \E h \in pending : h.client = c /\ h.waitsFor \in {"autoSubscribe", "access", "join"}

\* A handler of the client begins to ask for its rooms.
Ask(c) ==
    shown' = IF Asking(c) THEN shown ELSE [shown EXCEPT ![c] = entitled[c]]

Init ==
    /\ socket = [c \in Clients |-> "new"]
    /\ clientData = {}
    /\ members = [r \in Rooms |-> {}]
    /\ clientRooms = [c \in Clients |-> {}]
    /\ pending = {}
    /\ entitled = [c \in Clients |-> {}]
    /\ shown = [c \in Clients |-> {}]
    /\ raced = {}

\* Frames are delivered until the close handshake is over.
Listening(c) == socket[c] \in {"open", "closing"}

\* client.close() starts the handshake.
CloseSocket(c) ==
    socket' = [socket EXCEPT ![c] = IF @ = "open" THEN "closing" ELSE @]

-----------------------------------------------------------------------------
\* RoomManagerService.

JoinAll(c, joined) ==
    /\ members' = [r \in Rooms |-> IF r \in joined THEN members[r] \cup {c}
                                   ELSE members[r]]
    /\ clientRooms' = [clientRooms EXCEPT ![c] = @ \cup joined]

\* Fault: the room is forgotten on the client's side only.
LeaveHalf(c, r) ==
    /\ members' = members
    /\ clientRooms' = [clientRooms EXCEPT ![c] = @ \ {r}]

\* unsubscribe
Leave(c, r) ==
    /\ members' = [members EXCEPT ![r] = @ \ {c}]
    /\ clientRooms' = [clientRooms EXCEPT ![c] = @ \ {r}]

\* Fault: the rooms of a client that goes are kept.
LeaveNone(c) == UNCHANGED <<members, clientRooms>>

\* unsubscribeAll goes by the client's own list.
LeaveAll(c) ==
    /\ members' = [r \in Rooms |-> IF r \in clientRooms[c] THEN members[r] \ {c}
                                   ELSE members[r]]
    /\ clientRooms' = [clientRooms EXCEPT ![c] = {}]

-----------------------------------------------------------------------------
\* handleConnection.

\* The client is entered, and the query of autoSubscribe is sent; a dealer has no
\* query.
Admit(c) ==
    /\ clientData' = clientData \cup {c}
    /\ pending' = (pending \ {Waiting(c, "verify")})
                  \cup (IF RoleOf[c] = "DEALER" THEN {}
                        ELSE {Waiting(c, "autoSubscribe")})
    /\ Ask(c)

\* No token, a bad one, or a foreign origin.
ConnectRefused(c) ==
    /\ socket[c] = "new"
    /\ socket' = [socket EXCEPT ![c] = "closing"]
    /\ UNCHANGED <<clientData, members, clientRooms, pending, entitled,
                   shown, raced>>

\* WsAuthService.verify waits for the deny list, except for a customer's token.
Connect(c) ==
    /\ socket[c] = "new"
    /\ socket' = [socket EXCEPT ![c] = "open"]
    /\ IF RoleOf[c] = "CUSTOMER" THEN Admit(c)
       ELSE /\ pending' = pending \cup {Waiting(c, "verify")}
            /\ UNCHANGED <<clientData, shown>>
    /\ UNCHANGED <<members, clientRooms, entitled, raced>>

Verified(c) ==
    /\ Waiting(c, "verify") \in pending
    /\ Admit(c)
    /\ UNCHANGED <<socket, members, clientRooms, entitled, raced>>

\* Fault: the socket of a rejected connection stays open.
RejectedOpen(c) ==
    /\ \E what \in {"verify", "autoSubscribe"} :
           /\ Waiting(c, what) \in pending
           /\ pending' = pending \ {Waiting(c, what)}
    /\ UNCHANGED <<socket, clientData, members, clientRooms, entitled,
                   shown, raced>>

\* A revoked token, or an error of Redis or of the database behind
\* autoSubscribe: the socket is closed.
ConnectionRejected(c) ==
    /\ \E what \in {"verify", "autoSubscribe"} :
           /\ Waiting(c, what) \in pending
           /\ pending' = pending \ {Waiting(c, what)}
    /\ CloseSocket(c)
    /\ UNCHANGED <<clientData, members, clientRooms, entitled, shown, raced>>

\* autoSubscribeRooms: a customer gets all its orders, the others those that are
\* not finished, and HQ only 50 of them.
AutoRooms(c) ==
    IF RoleOf[c] = "CUSTOMER" THEN {entitled[c]}
    ELSE SUBSET (IF RoleOf[c] = "HQ" THEN OrderRooms ELSE entitled[c])

\* The query is answered.
AutoSubscribed(c) ==
    /\ Waiting(c, "autoSubscribe") \in pending
    /\ \E found \in AutoRooms(c) :
           pending' = (pending \ {Waiting(c, "autoSubscribe")})
               \cup {WaitingToJoin(c, found \cup (IF RoleOf[c] = "HQ" THEN {HQRoom} ELSE {}))}
    /\ UNCHANGED <<socket, clientData, members, clientRooms, entitled, shown, raced>>

-----------------------------------------------------------------------------
\* Messages.

\* A message from a client that is not authenticated (yet) closes its socket.
Unauthenticated(c) ==
    /\ Listening(c)
    /\ c \notin clientData
    /\ CloseSocket(c)
    /\ UNCHANGED <<clientData, members, clientRooms, pending, entitled,
                   shown, raced>>

\* handleSubscribe: for a customer or a coordinator validateRoomAccess waits for
\* the database.  Technicians and dealers are refused at once.
Subscribe(c, r) ==
    /\ Listening(c)
    /\ c \in clientData
    /\ RoleOf[c] \in {"CUSTOMER", "COORDINATOR"}
    /\ pending' = pending \cup {WaitingForAccess(c, r)}
    /\ Ask(c)
    /\ UNCHANGED <<socket, clientData, members, clientRooms, entitled, raced>>

\* ... and HQ is let in at once.
SubscribeHQ(c, r) ==
    /\ Listening(c)
    /\ c \in clientData
    /\ RoleOf[c] = "HQ"
    /\ JoinAll(c, {r})
    /\ UNCHANGED <<socket, clientData, pending, entitled, shown, raced>>

\* Fault: any authenticated client may watch any order.
AccessOpen(c, r) == TRUE

\* validateRoomAccess, by what the database says when it is asked.
Access(c, r) == r \in entitled[c]

\* The database lets the client see the order.
AccessAllowed(c, r) ==
    /\ WaitingForAccess(c, r) \in pending
    /\ Access(c, r)
    /\ pending' = (pending \ {WaitingForAccess(c, r)}) \cup {WaitingToJoin(c, {r})}
    /\ UNCHANGED <<socket, clientData, members, clientRooms, entitled, shown, raced>>

\* The handler resumes with what the database said, and joins without looking at
\* the socket, or asking the database, again.
Join(c, rooms) ==
    /\ WaitingToJoin(c, rooms) \in pending
    /\ JoinAll(c, rooms)
    /\ pending' = pending \ {WaitingToJoin(c, rooms)}
    /\ UNCHANGED <<socket, clientData, entitled, shown, raced>>

\* Access denied, or an error of the database.
AccessDenied(c, r) ==
    /\ WaitingForAccess(c, r) \in pending
    /\ pending' = pending \ {WaitingForAccess(c, r)}
    /\ UNCHANGED <<socket, clientData, members, clientRooms, entitled,
                   shown, raced>>

\* handleUnsubscribe
Unsubscribe(c, r) ==
    /\ Listening(c)
    /\ c \in clientData
    /\ Leave(c, r)
    /\ UNCHANGED <<socket, clientData, pending, entitled, shown, raced>>

\* PositionRateLimiterService closes the socket of a client it bans.
RateLimited(c) ==
    /\ Listening(c)
    /\ c \in clientData
    /\ RoleOf[c] = "TECHNICIAN"
    /\ CloseSocket(c)
    /\ UNCHANGED <<clientData, members, clientRooms, pending, entitled,
                   shown, raced>>

-----------------------------------------------------------------------------
\* handleDisconnect.

\* The socket closes.  A client with an entry leaves its rooms; for a technician
\* the last position is written to the database before the entry goes.
Disconnect(c) ==
    LET syncs == c \in clientData /\ RoleOf[c] = "TECHNICIAN" IN
    /\ Listening(c)
    /\ socket' = [socket EXCEPT ![c] = "closed"]
    /\ IF c \in clientData THEN LeaveAll(c) ELSE UNCHANGED <<members, clientRooms>>
    /\ clientData' = IF syncs THEN clientData ELSE clientData \ {c}
    /\ pending' = IF syncs THEN pending \cup {Waiting(c, "sync")} ELSE pending
    /\ raced' = IF Busy(c) THEN raced \cup {c} ELSE raced
    /\ UNCHANGED <<entitled, shown>>

\* Fault: the entry of a technician is kept once the position is written.
SyncedKept(c) ==
    /\ Waiting(c, "sync") \in pending
    /\ pending' = pending \ {Waiting(c, "sync")}
    /\ UNCHANGED <<socket, clientData, members, clientRooms, entitled,
                   shown, raced>>

\* syncLastPositionToDb catches its own errors, so the entry goes in any case.
Synced(c) ==
    /\ Waiting(c, "sync") \in pending
    /\ clientData' = clientData \ {c}
    /\ pending' = pending \ {Waiting(c, "sync")}
    /\ UNCHANGED <<socket, members, clientRooms, entitled, shown, raced>>

\* Elsewhere an order is created, assigned, declined or finished.  HQ sees every
\* order.
EntitlementChanges(c, r) ==
    /\ RoleOf[c] # "HQ"
    /\ entitled' = [entitled EXCEPT ![c] = IF r \in @ THEN @ \ {r} ELSE @ \cup {r}]
    /\ shown' = IF Asking(c) THEN [shown EXCEPT ![c] = @ \cup {r}] ELSE shown
    /\ UNCHANGED <<socket, clientData, members, clientRooms, pending, raced>>

-----------------------------------------------------------------------------

Resume(c) ==
    \/ Verified(c)
    \/ ConnectionRejected(c)
    \/ AutoSubscribed(c)
    \/ Synced(c)
    \/ \E r \in OrderRooms : AccessAllowed(c, r) \/ AccessDenied(c, r)
    \/ \E rooms \in SUBSET Rooms : Join(c, rooms)

Frame(c) ==
    \/ Unauthenticated(c)
    \/ \E r \in OrderRooms : Subscribe(c, r) \/ SubscribeHQ(c, r)
    \/ \E r \in Rooms : Unsubscribe(c, r)
    \/ RateLimited(c)

Next ==
    \/ \E c \in Clients : Connect(c) \/ ConnectRefused(c) \/ Resume(c) \/ Frame(c)
                         \/ Disconnect(c)
    \/ \E c \in Clients, r \in OrderRooms : EntitlementChanges(c, r)

Spec == Init /\ [][Next]_vars

\* A query that was sent is answered, with a result or an error, and a socket
\* that the server closes does close.
Fairness ==
    \A c \in Clients :
        /\ WF_vars(Resume(c))
        /\ WF_vars(socket[c] = "closing" /\ Disconnect(c))

FairSpec == Spec /\ Fairness

-----------------------------------------------------------------------------
\* Properties.

TypeOK ==
    /\ socket \in [Clients -> {"new", "open", "closing", "closed"}]
    /\ clientData \subseteq Clients
    /\ members \in [Rooms -> SUBSET Clients]
    /\ clientRooms \in [Clients -> SUBSET Rooms]
    /\ pending \subseteq Handler
    /\ entitled \in [Clients -> SUBSET OrderRooms]
    /\ shown \in [Clients -> SUBSET OrderRooms]
    /\ raced \subseteq Clients

\* The two maps of the room manager are inverses: unsubscribeAll trusts the
\* client's list to find every room the client is in.
MapsAgree ==
    \A c \in Clients, r \in Rooms : c \in members[r] <=> r \in clientRooms[c]

\* An open socket belongs to a client that is known or still being verified.
OpenMeansKnown ==
    \A c \in Clients :
        socket[c] = "open" => c \in clientData \/ Waiting(c, "verify") \in pending

\* Nothing is left of a client that is gone, except of one whose socket closed
\* while one of its handlers waited.
GoneUnlessRaced ==
    \A c \in Clients \ raced :
        socket[c] = "closed" /\ ~Busy(c) =>
            c \notin clientData /\ (\A r \in Rooms : c \notin members[r])

\* A client whose socket closes is eventually dropped, with the same exception.
EventuallyForgotten ==
    \A c \in Clients : socket[c] \in {"closing", "closed"} ~>
                           (c \in raced \/ c \notin clientData)

\* Seen from the rooms' side, the two maps and the waiting handlers implement one
\* relation: a step changes the rooms of one client only, lets it in only where
\* the database let it see the order at some time while its handler asked, however
\* late that resumes, takes it out of every room when it goes, and lets nobody in
\* afterwards but a client that raced.
Membership == INSTANCE RoomMembership WITH
    SeesAll <- {c \in Clients : RoleOf[c] = "HQ"},
    watches <- [c \in Clients |-> {r \in Rooms : c \in members[r]}],
    gone    <- {c \in Clients : socket[c] = "closed"},
    late    <- raced
OneRelation == Membership!Spec

\* A disconnected client is in no room and has no entry, once its handlers are
\* done.
RoomsCleanedUp ==
    \A c \in Clients :
        socket[c] = "closed" /\ ~Busy(c) =>
            c \notin clientData /\ clientRooms[c] = {}
=============================================================================
