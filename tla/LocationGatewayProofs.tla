----------------------- MODULE LocationGatewayProofs -----------------------
(***************************************************************************)
(* Proofs about LocationGateway: typing, that the two maps of the room     *)
(* manager agree, that no open socket is forgotten, and that maps and      *)
(* waiting handlers together implement one membership relation, in which a *)
(* client is let in only to what it was shown while it asked.              *)
(***************************************************************************)
EXTENDS LocationGateway, TLAPS

\* What a step can do to the rooms.
RoomStep ==
    \/ UNCHANGED <<members, clientRooms>>
    \/ \E c \in Clients : LeaveAll(c)
    \/ \E c \in Clients, r \in Rooms : Leave(c, r)
    \/ \E c \in Clients, joined \in SUBSET Rooms : JoinAll(c, joined)

\* Every action does one of these things.
LEMMA RoomSteps ==
    ASSUME TypeOK, [Next]_vars
    PROVE  RoomStep
<1>. USE DEF RoomStep
<1>1. ASSUME NEW c \in Clients, AutoSubscribed(c)
      PROVE  RoomStep
  BY <1>1 DEF AutoSubscribed
<1>2. ASSUME NEW c \in Clients, NEW joined \in SUBSET Rooms, Join(c, joined)
      PROVE  RoomStep
  BY <1>2 DEF Join
<1>3. ASSUME NEW c \in Clients, NEW r \in OrderRooms, SubscribeHQ(c, r)
      PROVE  RoomStep
  <2>1. JoinAll(c, {r}) /\ {r} \in SUBSET Rooms
    BY <1>3 DEF SubscribeHQ, Rooms
  <2>. QED  BY <2>1
<1>4. ASSUME NEW c \in Clients, NEW r \in Rooms, Unsubscribe(c, r)
      PROVE  RoomStep
  BY <1>4 DEF Unsubscribe
<1>5. ASSUME NEW c \in Clients, Disconnect(c)
      PROVE  RoomStep
  <2>1. LeaveAll(c) \/ UNCHANGED <<members, clientRooms>>
    BY <1>5 DEF Disconnect
  <2>. QED  BY <2>1
<1>6. ASSUME NEW c \in Clients,
             \/ Connect(c) \/ ConnectRefused(c) \/ Verified(c) \/ Synced(c)
             \/ ConnectionRejected(c) \/ Unauthenticated(c) \/ RateLimited(c)
      PROVE  RoomStep
  BY <1>6 DEF Connect, ConnectRefused, Verified, Synced, ConnectionRejected,
              Unauthenticated, RateLimited
<1>7. ASSUME NEW c \in Clients, NEW r \in OrderRooms,
             \/ AccessAllowed(c, r) \/ AccessDenied(c, r) \/ Subscribe(c, r)
             \/ EntitlementChanges(c, r)
      PROVE  RoomStep
  BY <1>7 DEF AccessAllowed, AccessDenied, Subscribe, EntitlementChanges
<1>8. CASE UNCHANGED vars
  BY <1>8 DEF vars
<1>. QED
  BY <1>1, <1>2, <1>3, <1>4, <1>5, <1>6, <1>7, <1>8 DEF Next, Resume, Frame

-----------------------------------------------------------------------------
\* What a step can do to what the clients are shown.
LEMMA ShownByStep ==
    ASSUME [Next]_vars
    PROVE  \/ \E c \in Clients, r \in OrderRooms : EntitlementChanges(c, r)
           \/ UNCHANGED <<entitled, shown>>
           \/ /\ UNCHANGED <<entitled, members, clientRooms>>
              /\ \E c \in Clients : Ask(c)
<1>1. ASSUME NEW c \in Clients, Connect(c) \/ Verified(c)
      PROVE  UNCHANGED <<entitled, members, clientRooms>> /\ (Ask(c) \/ UNCHANGED shown)
  BY <1>1 DEF Connect, Verified, Admit
<1>2. ASSUME NEW c \in Clients, NEW r \in OrderRooms, Subscribe(c, r)
      PROVE  UNCHANGED <<entitled, members, clientRooms>> /\ Ask(c)
  BY <1>2 DEF Subscribe
<1>. QED
  BY <1>1, <1>2 DEF Next, Resume, Frame, ConnectRefused, Synced, ConnectionRejected,
       AutoSubscribed, AccessAllowed, AccessDenied, Join, Unauthenticated, SubscribeHQ,
       Unsubscribe, RateLimited, Disconnect, vars

\* Typing.

LEMMA TypeInit == Init => TypeOK
BY DEF Init, TypeOK

LEMMA RoomsTyped ==
    ASSUME TypeOK, RoomStep
    PROVE  members' \in [Rooms -> SUBSET Clients] /\ clientRooms' \in [Clients -> SUBSET Rooms]
<1>. USE DEF TypeOK
<1>1. ASSUME NEW c \in Clients, LeaveAll(c)
      PROVE  members' \in [Rooms -> SUBSET Clients] /\ clientRooms' \in [Clients -> SUBSET Rooms]
  BY <1>1 DEF LeaveAll
<1>2. ASSUME NEW c \in Clients, NEW r \in Rooms, Leave(c, r)
      PROVE  members' \in [Rooms -> SUBSET Clients] /\ clientRooms' \in [Clients -> SUBSET Rooms]
  BY <1>2 DEF Leave
<1>3. ASSUME NEW c \in Clients, NEW joined \in SUBSET Rooms, JoinAll(c, joined)
      PROVE  members' \in [Rooms -> SUBSET Clients] /\ clientRooms' \in [Clients -> SUBSET Rooms]
  BY <1>3 DEF JoinAll
<1>. QED  BY <1>1, <1>2, <1>3 DEF RoomStep

LEMMA FoundAreRooms ==
    ASSUME TypeOK, NEW c \in Clients, NEW found \in AutoRooms(c)
    PROVE  /\ found \in SUBSET Rooms
           /\ RoleOf[c] # "HQ" => found \subseteq entitled[c]
BY DEF AutoRooms, TypeOK, Rooms

LEMMA TypeStep ==
    ASSUME TypeOK, [Next]_vars
    PROVE  TypeOK'
<1>1. members' \in [Rooms -> SUBSET Clients] /\ clientRooms' \in [Clients -> SUBSET Rooms]
  BY RoomSteps, RoomsTyped
<1>2. /\ entitled' \in [Clients -> SUBSET OrderRooms]
      /\ shown' \in [Clients -> SUBSET OrderRooms]
  <2>. DEFINE Seen == /\ entitled' \in [Clients -> SUBSET OrderRooms]
                      /\ shown' \in [Clients -> SUBSET OrderRooms]
  <2>1. ASSUME NEW c \in Clients, NEW r \in OrderRooms, EntitlementChanges(c, r)
        PROVE  Seen
    BY <2>1 DEF EntitlementChanges, TypeOK
  <2>2. ASSUME UNCHANGED entitled, UNCHANGED shown \/ \E c \in Clients : Ask(c)
        PROVE  Seen
    BY <2>2 DEF TypeOK, Ask
  <2>. QED
    BY <2>1, <2>2, ShownByStep DEF Next, EntitlementChanges
<1>3. /\ socket' \in [Clients -> {"new", "open", "closing", "closed"}]
      /\ clientData' \subseteq Clients /\ raced' \subseteq Clients
      /\ pending' \subseteq Handler
  <2>. DEFINE Rest == /\ socket' \in [Clients -> {"new", "open", "closing", "closed"}]
                      /\ clientData' \subseteq Clients /\ raced' \subseteq Clients
                      /\ pending' \subseteq Handler
  <2>1. ASSUME NEW c \in Clients
        PROVE  /\ Waiting(c, "verify") \in Handler
               /\ Waiting(c, "autoSubscribe") \in Handler
               /\ Waiting(c, "sync") \in Handler
               /\ \A r \in OrderRooms : WaitingForAccess(c, r) \in Handler
               /\ \A rooms \in SUBSET Rooms : WaitingToJoin(c, rooms) \in Handler
    BY DEF Waiting, WaitingForAccess, WaitingToJoin, Handler
  <2>. USE DEF TypeOK
  <2>2. ASSUME NEW c \in Clients,
               Connect(c) \/ ConnectRefused(c) \/ Disconnect(c)
        PROVE  Rest
    BY <2>1, <2>2 DEF Connect, ConnectRefused, Disconnect, Admit, Listening
  <2>3. ASSUME NEW c \in Clients, Resume(c)
        PROVE  Rest
    <3>1. CASE AutoSubscribed(c)
      <4>1. PICK found \in AutoRooms(c) :
              pending' = (pending \ {Waiting(c, "autoSubscribe")})
                  \cup {WaitingToJoin(c, found \cup (IF RoleOf[c] = "HQ" THEN {HQRoom} ELSE {}))}
        BY <3>1 DEF AutoSubscribed
      <4>2. found \in SUBSET Rooms
        BY FoundAreRooms
      <4>. QED  BY <2>1, <3>1, <4>1, <4>2 DEF AutoSubscribed, Rooms
    <3>2. ASSUME NEW r \in OrderRooms, AccessAllowed(c, r)
          PROVE  Rest
      BY <2>1, <3>2 DEF AccessAllowed, Rooms
    <3>. QED
      BY <2>1, <2>3, <3>1, <3>2 DEF Resume, Verified, ConnectionRejected, Synced,
                                    AccessDenied, Join, Admit, CloseSocket
  <2>4. ASSUME NEW c \in Clients, Frame(c)
        PROVE  Rest
    BY <2>1, <2>4 DEF Frame, Unauthenticated, Subscribe, SubscribeHQ, Unsubscribe,
                      RateLimited, CloseSocket
  <2>5. ASSUME UNCHANGED <<socket, clientData, pending, raced>>
        PROVE  Rest
    BY <2>5
  <2>. QED  BY <2>2, <2>3, <2>4, <2>5 DEF Next, EntitlementChanges, vars
<1>. QED  BY <1>1, <1>2, <1>3 DEF TypeOK

\* Sockets, rooms and waiting handlers are always well-formed.
THEOREM TypeCorrect == Spec => []TypeOK
BY TypeInit, TypeStep, PTL DEF Spec

-----------------------------------------------------------------------------
\* The room manager.

LEMMA MapsStep ==
    ASSUME TypeOK, MapsAgree, [Next]_vars
    PROVE  MapsAgree'
<1>. USE DEF TypeOK, MapsAgree
<1>1. ASSUME NEW c \in Clients, LeaveAll(c)
      PROVE  MapsAgree'
  BY <1>1 DEF LeaveAll
<1>2. ASSUME NEW c \in Clients, NEW r \in Rooms, Leave(c, r)
      PROVE  MapsAgree'
  BY <1>2 DEF Leave
<1>3. ASSUME NEW c \in Clients, NEW joined \in SUBSET Rooms, JoinAll(c, joined)
      PROVE  MapsAgree'
  BY <1>3 DEF JoinAll
<1>4. CASE UNCHANGED <<members, clientRooms>>
  BY <1>4
<1>. QED  BY <1>1, <1>2, <1>3, <1>4, RoomSteps DEF RoomStep

\* A room lists a client exactly when the client lists the room, so leaving by
\* the client's own list leaves every room.
THEOREM RoomMapsAgree == Spec => []MapsAgree
<1>1. Init => MapsAgree
  BY DEF Init, MapsAgree
<1>. QED  BY <1>1, MapsStep, TypeCorrect, PTL DEF Spec

-----------------------------------------------------------------------------
\* Clients that go.

\* Why nothing is left of a client no handler raced with: before it is known it
\* has no rooms and waits for nothing but its verification, and once its socket
\* is closed only the write of its position can be under way.
Tidy(c) ==
    /\ socket[c] = "new" => c \notin clientData /\ ~Busy(c)
    /\ c \notin clientData =>
           /\ clientRooms[c] = {}
           /\ \A h \in pending : h.client = c => h = Waiting(c, "verify")
    /\ socket[c] = "closed" =>
           /\ clientRooms[c] = {}
           /\ \A h \in pending : h.client = c => h = Waiting(c, "sync")
           /\ c \in clientData => Waiting(c, "sync") \in pending

\* Only a closed socket has its position written.
SyncMeansClosed ==
    \A c \in Clients : Waiting(c, "sync") \in pending => socket[c] = "closed"

GoneInv == SyncMeansClosed /\ \A c \in Clients \ raced : Tidy(c)

LEMMA HandlersDiffer ==
    /\ \A c, d, v, w : Waiting(c, v) = Waiting(d, w) <=> c = d /\ v = w
    /\ \A c, d, v, r : v # "access" => Waiting(c, v) # WaitingForAccess(d, r)
    /\ \A c, v : Waiting(c, v).client = c
    /\ \A c, r : WaitingForAccess(c, r).client = c
    /\ \A c, d, v, rooms : v # "join" => Waiting(c, v) # WaitingToJoin(d, rooms)
    /\ \A c, rooms : WaitingToJoin(c, rooms).client = c
    /\ \A c, d, rooms, r : WaitingToJoin(c, rooms) # WaitingForAccess(d, r)
<1>1. \A c, v : Waiting(c, v).client = c /\ Waiting(c, v).waitsFor = v
  BY DEF Waiting
<1>2. \A c, r : WaitingForAccess(c, r).client = c
                /\ WaitingForAccess(c, r).waitsFor = "access"
  BY DEF WaitingForAccess
<1>3. \A c, rooms : WaitingToJoin(c, rooms).client = c
                    /\ WaitingToJoin(c, rooms).waitsFor = "join"
  BY DEF WaitingToJoin
<1>. QED  BY <1>1, <1>2, <1>3

\* What resumed handlers and messages leave alone.
SocketKept(c) ==
    \/ socket'[c] = socket[c]
    \/ socket[c] = "open" /\ socket'[c] = "closing"

LEMMA ResumeEffect ==
    ASSUME TypeOK, NEW c \in Clients, Resume(c)
    PROVE  /\ \A h \in pending' \ pending :
                  h = Waiting(c, "autoSubscribe") \/ \E rooms : h = WaitingToJoin(c, rooms)
           /\ \A d \in Clients : SocketKept(d)
<1>. USE DEF SocketKept
<1>. DEFINE Effect ==
         /\ \A h \in pending' \ pending :
                h = Waiting(c, "autoSubscribe") \/ \E rooms : h = WaitingToJoin(c, rooms)
         /\ \A d \in Clients : SocketKept(d)
<1>1. CASE Verified(c)
  BY <1>1 DEF Verified, Admit
<1>2. CASE ConnectionRejected(c)
  BY <1>2 DEF ConnectionRejected, CloseSocket, TypeOK
<1>3. CASE AutoSubscribed(c) \/ Synced(c)
  BY <1>3 DEF AutoSubscribed, Synced
<1>4. ASSUME NEW r \in OrderRooms, AccessAllowed(c, r) \/ AccessDenied(c, r)
      PROVE  Effect
  BY <1>4 DEF AccessAllowed, AccessDenied
<1>5. ASSUME NEW rooms \in SUBSET Rooms, Join(c, rooms)
      PROVE  Effect
  BY <1>5 DEF Join
<1>. QED  BY <1>1, <1>2, <1>3, <1>4, <1>5 DEF Resume

LEMMA FrameEffect ==
    ASSUME TypeOK, NEW c \in Clients, Frame(c)
    PROVE  /\ UNCHANGED <<clientData, raced>>
           /\ pending \subseteq pending'
           /\ \A h \in pending' \ pending :
                  \E r \in OrderRooms : h = WaitingForAccess(c, r) /\ c \in clientData
           /\ \A d \in Clients : SocketKept(d)
<1>. USE DEF SocketKept
<1>1. CASE Unauthenticated(c) \/ RateLimited(c)
  BY <1>1 DEF Unauthenticated, RateLimited, CloseSocket, TypeOK
<1>2. CASE \E r \in OrderRooms : Subscribe(c, r) \/ SubscribeHQ(c, r)
  BY <1>2 DEF Subscribe, SubscribeHQ
<1>3. CASE \E r \in Rooms : Unsubscribe(c, r)
  BY <1>3 DEF Unsubscribe
<1>. QED  BY <1>1, <1>2, <1>3 DEF Frame

LEMMA SyncStep ==
    ASSUME TypeOK, SyncMeansClosed, [Next]_vars
    PROVE  SyncMeansClosed'
<1>. SUFFICES ASSUME NEW d \in Clients, Waiting(d, "sync") \in pending'
              PROVE  socket'[d] = "closed"
  BY DEF SyncMeansClosed, Waiting
<1>. USE HandlersDiffer DEF TypeOK, SyncMeansClosed
<1>1. ASSUME NEW c \in Clients, Connect(c) \/ ConnectRefused(c)
      PROVE  socket'[d] = "closed"
  BY <1>1 DEF Connect, ConnectRefused, Admit
<1>2. ASSUME NEW c \in Clients, Resume(c)
      PROVE  socket'[d] = "closed"
  <2>1. Waiting(d, "sync") \in pending
    BY <1>2, ResumeEffect DEF SocketKept
  <2>. QED  BY <1>2, <2>1, ResumeEffect DEF SocketKept
<1>3. ASSUME NEW c \in Clients, Frame(c)
      PROVE  socket'[d] = "closed"
  <2>1. Waiting(d, "sync") \in pending
    BY <1>3, FrameEffect DEF SocketKept
  <2>. QED  BY <1>3, <2>1, FrameEffect DEF SocketKept
<1>4. ASSUME NEW c \in Clients, Disconnect(c)
      PROVE  socket'[d] = "closed"
  BY <1>4 DEF Disconnect
<1>5. ASSUME UNCHANGED <<socket, pending>>
      PROVE  socket'[d] = "closed"
  BY <1>5
<1>. QED  BY <1>1, <1>2, <1>3, <1>4, <1>5 DEF Next, EntitlementChanges, vars

\* An open socket is that of a client with an entry, or of one whose token is
\* still being verified.
LEMMA KnownStep ==
    ASSUME TypeOK, SyncMeansClosed, OpenMeansKnown, [Next]_vars
    PROVE  OpenMeansKnown'
<1>. SUFFICES ASSUME NEW d \in Clients, socket'[d] = "open"
              PROVE  d \in clientData' \/ Waiting(d, "verify") \in pending'
  BY DEF OpenMeansKnown, Waiting
<1>. DEFINE Known == d \in clientData' \/ Waiting(d, "verify") \in pending'
<1>. USE HandlersDiffer DEF TypeOK, SyncMeansClosed, OpenMeansKnown
<1>1. ASSUME NEW c \in Clients, Connect(c) \/ ConnectRefused(c)
      PROVE  Known
  BY <1>1 DEF Connect, ConnectRefused, Admit
<1>2. ASSUME NEW c \in Clients, Resume(c)
      PROVE  Known
  <2>1. CASE Verified(c)
    BY <2>1 DEF Verified, Admit
  <2>2. CASE ConnectionRejected(c)
    BY <2>2 DEF ConnectionRejected, CloseSocket
  <2>3. CASE Synced(c)
    BY <2>3 DEF Synced
  <2>4. CASE AutoSubscribed(c)
    BY <2>4 DEF AutoSubscribed
  <2>5. ASSUME NEW r \in OrderRooms, AccessAllowed(c, r) \/ AccessDenied(c, r)
        PROVE  Known
    BY <2>5 DEF AccessAllowed, AccessDenied
  <2>6. ASSUME NEW rooms \in SUBSET Rooms, Join(c, rooms)
        PROVE  Known
    BY <2>6 DEF Join
  <2>. QED  BY <1>2, <2>1, <2>2, <2>3, <2>4, <2>5, <2>6 DEF Resume
<1>3. ASSUME NEW c \in Clients, Frame(c)
      PROVE  Known
  BY <1>3, FrameEffect DEF SocketKept
<1>4. ASSUME NEW c \in Clients, Disconnect(c)
      PROVE  Known
  BY <1>4 DEF Disconnect
<1>5. ASSUME UNCHANGED <<socket, pending, clientData>>
      PROVE  Known
  BY <1>5
<1>. QED  BY <1>1, <1>2, <1>3, <1>4, <1>5 DEF Next, EntitlementChanges, vars

\* No open socket is forgotten, whatever closes or fails while it is verified.
THEOREM OpenIsKnown == Spec => []OpenMeansKnown
<1>1. Init => SyncMeansClosed /\ OpenMeansKnown
  BY DEF Init, SyncMeansClosed, OpenMeansKnown
<1>. QED  BY <1>1, SyncStep, KnownStep, TypeCorrect, PTL DEF Spec

\* What is left of a client: its rooms, its entry, its socket and its handlers.
SameFor(d) ==
    /\ clientRooms'[d] = clientRooms[d]
    /\ d \in clientData' <=> d \in clientData
    /\ socket'[d] = socket[d]
    /\ \A h \in pending \cup pending' : h.client = d => (h \in pending <=> h \in pending')

LEMMA TidyKept ==
    ASSUME NEW d \in Clients, Tidy(d), SameFor(d)
    PROVE  Tidy(d)'
<1>1. Waiting(d, "sync").client = d
  BY HandlersDiffer
<1>. QED  BY <1>1 DEF Tidy, SameFor, Busy, Waiting

\* A step of another client changes nothing of this one.
LEMMA OthersSame ==
    ASSUME TypeOK, NEW c \in Clients, NEW d \in Clients, c # d,
           Connect(c) \/ ConnectRefused(c) \/ Resume(c) \/ Frame(c) \/ Disconnect(c)
    PROVE  SameFor(d)
<1>. USE HandlersDiffer DEF TypeOK, SameFor
<1>1. CASE Connect(c) \/ ConnectRefused(c)
  BY <1>1 DEF Connect, ConnectRefused, Admit
<1>2. CASE Verified(c)
  BY <1>2 DEF Verified, Admit
<1>3. CASE ConnectionRejected(c)
  BY <1>3 DEF ConnectionRejected, CloseSocket
<1>4. CASE AutoSubscribed(c)
  BY <1>4 DEF AutoSubscribed
<1>5. CASE Synced(c)
  BY <1>5 DEF Synced
<1>6. ASSUME NEW r \in OrderRooms, AccessAllowed(c, r) \/ AccessDenied(c, r)
      PROVE  SameFor(d)
  BY <1>6 DEF AccessAllowed, AccessDenied
<1>11. ASSUME NEW rooms \in SUBSET Rooms, Join(c, rooms)
       PROVE  SameFor(d)
  BY <1>11 DEF Join, JoinAll
<1>7. CASE Unauthenticated(c) \/ RateLimited(c)
  BY <1>7 DEF Unauthenticated, RateLimited, CloseSocket
<1>8. ASSUME NEW r \in OrderRooms, Subscribe(c, r) \/ SubscribeHQ(c, r)
      PROVE  SameFor(d)
  BY <1>8 DEF Subscribe, SubscribeHQ, JoinAll
<1>9. ASSUME NEW r \in Rooms, Unsubscribe(c, r)
      PROVE  SameFor(d)
  BY <1>9 DEF Unsubscribe, Leave
<1>10. CASE Disconnect(c)
  BY <1>10 DEF Disconnect, LeaveAll
<1>. QED
  BY <1>1, <1>2, <1>3, <1>4, <1>5, <1>6, <1>7, <1>8, <1>9, <1>10, <1>11 DEF Resume, Frame

\* Its own steps keep a client tidy, as long as its socket does not close on a
\* waiting handler.
LEMMA OwnStepTidy ==
    ASSUME TypeOK, SyncMeansClosed, NEW c \in Clients, Tidy(c), c \notin raced',
           Connect(c) \/ ConnectRefused(c) \/ Resume(c) \/ Frame(c) \/ Disconnect(c)
    PROVE  Tidy(c)'
<1>. USE HandlersDiffer DEF TypeOK, SyncMeansClosed
<1>0. /\ Waiting(c, "verify").client = c /\ Waiting(c, "autoSubscribe").client = c
      /\ Waiting(c, "sync").client = c
  BY HandlersDiffer
<1>1. CASE Connect(c)
  BY <1>1 DEF Connect, Admit, Tidy, Busy
<1>2. CASE ConnectRefused(c)
  BY <1>2 DEF ConnectRefused, Tidy, Busy
<1>3. CASE Verified(c)
  BY <1>3 DEF Verified, Admit, Tidy, Busy
<1>4. CASE ConnectionRejected(c)
  BY <1>4 DEF ConnectionRejected, CloseSocket, Tidy, Busy
<1>5. CASE AutoSubscribed(c)
  BY <1>5 DEF AutoSubscribed, Tidy, Busy
<1>6. CASE Synced(c)
  BY <1>6 DEF Synced, Tidy, Busy
<1>7. ASSUME NEW r \in OrderRooms, AccessAllowed(c, r) \/ AccessDenied(c, r)
      PROVE  Tidy(c)'
  BY <1>7 DEF AccessAllowed, AccessDenied, Tidy, Busy
<1>12. ASSUME NEW rooms \in SUBSET Rooms, Join(c, rooms)
       PROVE  Tidy(c)'
  BY <1>12 DEF Join, JoinAll, Tidy, Busy
<1>8. CASE Unauthenticated(c) \/ RateLimited(c)
  BY <1>8 DEF Unauthenticated, RateLimited, CloseSocket, Listening, Tidy, Busy
<1>9. ASSUME NEW r \in OrderRooms, Subscribe(c, r) \/ SubscribeHQ(c, r)
      PROVE  Tidy(c)'
  BY <1>9 DEF Subscribe, SubscribeHQ, JoinAll, Listening, Tidy, Busy
<1>10. ASSUME NEW r \in Rooms, Unsubscribe(c, r)
       PROVE  Tidy(c)'
  BY <1>10 DEF Unsubscribe, Leave, Listening, Tidy, Busy
<1>11. CASE Disconnect(c)
  <2>1. ~Busy(c) /\ socket'[c] = "closed"
    BY <1>11 DEF Disconnect
  <2>2. clientRooms'[c] = {}
    BY <1>11 DEF Disconnect, LeaveAll, Tidy
  <2>. QED  BY <1>0, <1>11, <2>1, <2>2 DEF Disconnect, Tidy, Busy
<1>. QED
  BY <1>1, <1>2, <1>3, <1>4, <1>5, <1>6, <1>7, <1>8, <1>9, <1>10, <1>11, <1>12
     DEF Resume, Frame

LEMMA RacedGrows ==
    ASSUME [Next]_vars
    PROVE  raced \subseteq raced'
BY DEF Next, Resume, Frame, Connect, ConnectRefused, Verified, Synced,
       ConnectionRejected, AutoSubscribed, AccessAllowed, AccessDenied, Join,
       Unauthenticated, Subscribe, SubscribeHQ, Unsubscribe, RateLimited,
       Disconnect, EntitlementChanges, vars

LEMMA GoneStep ==
    ASSUME TypeOK, GoneInv, [Next]_vars
    PROVE  GoneInv'
<1>1. SyncMeansClosed'
  BY SyncStep DEF GoneInv
<1>. SUFFICES ASSUME NEW d \in Clients, d \notin raced'
              PROVE  Tidy(d)'
  BY <1>1 DEF GoneInv
<1>2. Tidy(d) /\ SyncMeansClosed
  BY RacedGrows DEF GoneInv
<1>3. ASSUME NEW c \in Clients,
             Connect(c) \/ ConnectRefused(c) \/ Resume(c) \/ Frame(c) \/ Disconnect(c)
      PROVE  Tidy(d)'
  <2>1. CASE c = d
    BY <1>2, <1>3, <2>1, OwnStepTidy
  <2>2. CASE c # d
    BY <1>2, <1>3, <2>2, OthersSame, TidyKept
  <2>. QED  BY <2>1, <2>2
<1>4. ASSUME UNCHANGED <<socket, clientData, clientRooms, pending>>
      PROVE  Tidy(d)'
  BY <1>2, <1>4, TidyKept DEF SameFor
<1>. QED  BY <1>3, <1>4 DEF Next, EntitlementChanges, vars

\* Nothing is left of a client that is gone, for any number of clients and
\* rooms, unless its socket closed while one of its handlers waited.
THEOREM NothingLeft == Spec => []GoneUnlessRaced
<1>1. Init => GoneInv
  BY DEF Init, GoneInv, SyncMeansClosed, Tidy, Busy
<1>2. GoneInv /\ MapsAgree => GoneUnlessRaced
  <2>. SUFFICES ASSUME GoneInv, MapsAgree, NEW c \in Clients \ raced,
                       socket[c] = "closed", ~Busy(c)
                PROVE  c \notin clientData /\ \A r \in Rooms : c \notin members[r]
    BY DEF GoneUnlessRaced
  <2>1. Tidy(c)
    BY DEF GoneInv
  <2>2. c \notin clientData
    BY <2>1, HandlersDiffer DEF Tidy, Busy
  <2>. QED  BY <2>1, <2>2 DEF Tidy, MapsAgree
<1>. QED
  BY <1>1, <1>2, GoneStep, TypeCorrect, RoomMapsAgree, PTL DEF Spec

-----------------------------------------------------------------------------
\* One relation.

\* The state of the membership relation.
Watches == [c \in Clients |-> {r \in Rooms : c \in members[r]}]

Gone == {c \in Clients : socket[c] = "closed"}

SeesAll == {c \in Clients : RoleOf[c] = "HQ"}

\* What the room manager does to its maps is one change of the relation.
LEMMA WatchesAfter ==
    ASSUME TypeOK, NEW c \in Clients
    PROVE  /\ \A joined \in SUBSET Rooms :
                  JoinAll(c, joined) => Watches' = [Watches EXCEPT ![c] = @ \cup joined]
           /\ \A r \in Rooms : Leave(c, r) => Watches' = [Watches EXCEPT ![c] = @ \ {r}]
           /\ MapsAgree /\ LeaveAll(c) => Watches' = [Watches EXCEPT ![c] = {}]
<1>. USE DEF TypeOK, Watches
<1>1. ASSUME NEW joined \in SUBSET Rooms, JoinAll(c, joined)
      PROVE  Watches' = [Watches EXCEPT ![c] = @ \cup joined]
  <2>1. \A d \in Clients : {r \in Rooms : d \in members'[r]}
            = IF d = c THEN {r \in Rooms : d \in members[r]} \cup joined
              ELSE {r \in Rooms : d \in members[r]}
    BY <1>1 DEF JoinAll
  <2>. QED  BY <2>1
<1>2. ASSUME NEW r \in Rooms, Leave(c, r)
      PROVE  Watches' = [Watches EXCEPT ![c] = @ \ {r}]
  <2>1. \A d \in Clients : {q \in Rooms : d \in members'[q]}
            = IF d = c THEN {q \in Rooms : d \in members[q]} \ {r}
              ELSE {q \in Rooms : d \in members[q]}
    BY <1>2 DEF Leave
  <2>. QED  BY <2>1
<1>3. ASSUME MapsAgree, LeaveAll(c)
      PROVE  Watches' = [Watches EXCEPT ![c] = {}]
  <2>1. \A d \in Clients : {q \in Rooms : d \in members'[q]}
            = IF d = c THEN {} ELSE {q \in Rooms : d \in members[q]}
    BY <1>3 DEF LeaveAll, MapsAgree
  <2>. QED  BY <2>1
<1>. QED  BY <1>1, <1>2, <1>3

\* Only a closed socket has closed on a waiting handler.
RacedAreGone == raced \subseteq Gone

\* Sockets that are closed stay closed, and only Disconnect closes one.
LEMMA GoneKept ==
    ASSUME TypeOK, NEW c \in Clients,
           Connect(c) \/ ConnectRefused(c) \/ Resume(c) \/ Frame(c)
    PROVE  Gone' = Gone /\ raced' = raced
<1>1. ASSUME Connect(c) \/ ConnectRefused(c)
      PROVE  Gone' = Gone /\ raced' = raced
  BY <1>1 DEF Connect, ConnectRefused, Gone, TypeOK
<1>2. ASSUME \A d \in Clients : SocketKept(d)
      PROVE  Gone' = Gone
  BY <1>2 DEF SocketKept, Gone
<1>3. ASSUME Resume(c)
      PROVE  raced' = raced
  BY <1>3 DEF Resume, Verified, ConnectionRejected, AutoSubscribed, Synced,
              AccessAllowed, AccessDenied, Join
<1>. QED  BY <1>1, <1>2, <1>3, ResumeEffect, FrameEffect

LEMMA RacedStep ==
    ASSUME TypeOK, RacedAreGone, [Next]_vars
    PROVE  RacedAreGone'
<1>1. ASSUME NEW c \in Clients,
             Connect(c) \/ ConnectRefused(c) \/ Resume(c) \/ Frame(c)
      PROVE  RacedAreGone'
  BY <1>1, GoneKept DEF RacedAreGone
<1>2. ASSUME NEW c \in Clients, Disconnect(c)
      PROVE  RacedAreGone'
  BY <1>2 DEF Disconnect, RacedAreGone, Gone, TypeOK
<1>3. ASSUME UNCHANGED <<socket, raced>>
      PROVE  RacedAreGone'
  BY <1>3 DEF RacedAreGone, Gone
<1>. QED  BY <1>1, <1>2, <1>3 DEF Next, EntitlementChanges, vars

\* A client a handler lets in has its socket open, or closed it on that handler.
LEMMA LetInWhilePresent ==
    ASSUME GoneInv, NEW c \in Clients,
           Listening(c) \/ \E rooms : WaitingToJoin(c, rooms) \in pending
    PROVE  c \notin Gone \/ c \in raced
<1>. SUFFICES ASSUME c \in Gone, c \notin raced
              PROVE  FALSE
  OBVIOUS
<1>1. socket[c] = "closed" /\ \A h \in pending : h.client = c => h = Waiting(c, "sync")
  BY DEF Gone, GoneInv, Tidy
<1>. QED  BY <1>1, HandlersDiffer DEF Listening

\* What a handler that asks was shown, and that it will only join what it was shown.
AsksKnown ==
    \A c \in Clients :
        /\ Asking(c) => entitled[c] \subseteq shown[c]
        /\ \A rooms : WaitingToJoin(c, rooms) \in pending /\ RoleOf[c] # "HQ" =>
                          rooms \subseteq shown[c]

LEMMA AsksStep ==
    ASSUME TypeOK, AsksKnown, [Next]_vars
    PROVE  AsksKnown'
<1>. DEFINE Asks(h) == h.waitsFor \in {"autoSubscribe", "access", "join"}
<1>0. /\ \A c, v : Waiting(c, v).client = c /\ Waiting(c, v).waitsFor = v
      /\ \A c, r : WaitingForAccess(c, r).client = c
                   /\ WaitingForAccess(c, r).waitsFor = "access"
      /\ \A c, rooms : WaitingToJoin(c, rooms).client = c
                       /\ WaitingToJoin(c, rooms).waitsFor = "join"
                       /\ WaitingToJoin(c, rooms).rooms = rooms
  BY DEF Waiting, WaitingForAccess, WaitingToJoin
<1>1. ASSUME NEW c \in Clients, Ask(c), UNCHANGED entitled,
             \A h \in pending' \ pending : h.client = c /\ h.waitsFor # "join"
      PROVE  AsksKnown'
  <2>1. \A d \in Clients \ {c} : Asking(d)' => Asking(d)
    BY <1>1 DEF Asking
  <2>2. \A d \in Clients : \A rooms : WaitingToJoin(d, rooms) \in pending' =>
            WaitingToJoin(d, rooms) \in pending /\ Asking(d)
    <3>1. ASSUME NEW d \in Clients, NEW rooms, WaitingToJoin(d, rooms) \in pending'
          PROVE  WaitingToJoin(d, rooms) \in pending
      BY <1>0, <1>1, <3>1
    <3>2. ASSUME NEW d \in Clients, NEW rooms, WaitingToJoin(d, rooms) \in pending
          PROVE  Asking(d)
      BY <1>0, <3>2 DEF Asking
    <3>. QED  BY <3>1, <3>2
  <2>3. \A d \in Clients \ {c} : shown'[d] = shown[d]
    BY <1>1 DEF Ask, TypeOK
  <2>4. /\ Asking(c) => shown'[c] = shown[c]
        /\ ~Asking(c) => shown'[c] = entitled[c]
    BY <1>1 DEF Ask, TypeOK
  <2>5. ASSUME NEW d \in Clients, Asking(d)'
        PROVE  entitled'[d] \subseteq shown'[d]
    BY <1>1, <2>1, <2>3, <2>4, <2>5 DEF AsksKnown
  <2>6. ASSUME NEW d \in Clients, NEW rooms, WaitingToJoin(d, rooms) \in pending',
               RoleOf[d] # "HQ"
        PROVE  rooms \subseteq shown'[d]
    <3>1. WaitingToJoin(d, rooms) \in pending /\ Asking(d)
      BY <2>2, <2>6
    <3>2. shown'[d] = shown[d]
      BY <2>3, <2>4, <3>1
    <3>. QED  BY <2>6, <3>1, <3>2 DEF AsksKnown
  <2>7. \A d \in Clients : \A rooms : WaitingToJoin(d, rooms)' = WaitingToJoin(d, rooms)
    BY DEF WaitingToJoin
  <2>. QED  BY <2>5, <2>6, <2>7 DEF AsksKnown
<1>2. ASSUME UNCHANGED <<entitled, shown>>,
             \A h \in pending' \ pending :
                 \/ ~Asks(h)
                 \/ \E c \in Clients : \E rooms :
                      /\ h = WaitingToJoin(c, rooms) /\ Asking(c)
                      /\ RoleOf[c] # "HQ" => rooms \subseteq entitled[c]
      PROVE  AsksKnown'
  <2>1. \A d \in Clients : Asking(d)' => Asking(d)
    BY <1>0, <1>2 DEF Asking
  <2>2. \A d \in Clients : \A rooms : WaitingToJoin(d, rooms) \in pending' =>
            \/ WaitingToJoin(d, rooms) \in pending
            \/ Asking(d) /\ (RoleOf[d] # "HQ" => rooms \subseteq entitled[d])
    BY <1>0, <1>2
  <2>. QED  BY <1>2, <2>1, <2>2 DEF AsksKnown
<1>3. ASSUME NEW c \in Clients, NEW r \in OrderRooms, EntitlementChanges(c, r)
      PROVE  AsksKnown'
  <2>1. \A d \in Clients : (Asking(d)' <=> Asking(d)) /\ shown[d] \subseteq shown'[d]
    BY <1>3 DEF EntitlementChanges, Asking, TypeOK
  <2>2. \A d \in Clients : Asking(d) =>
            entitled'[d] \subseteq entitled[d] \cup (shown'[d] \ shown[d]) \cup shown'[d]
    BY <1>3 DEF EntitlementChanges, TypeOK
  <2>. QED  BY <1>3, <2>1, <2>2 DEF AsksKnown, EntitlementChanges
<1>4. ASSUME NEW c \in Clients, Connect(c) \/ Verified(c)
      PROVE  AsksKnown'
  <2>1. CASE UNCHANGED shown
    <3>1. UNCHANGED entitled
      BY <1>4 DEF Connect, Verified
    <3>2. \A h \in pending' \ pending : ~Asks(h) \/ Ask(c)
      BY <1>0, <1>4 DEF Connect, Verified, Admit
    <3>3. \A h \in pending' \ pending : h.client = c /\ h.waitsFor # "join"
      BY <1>0, <1>4 DEF Connect, Verified, Admit
    <3>. QED  BY <1>1, <1>2, <2>1, <3>1, <3>2, <3>3
  <2>2. CASE Ask(c)
    BY <1>0, <1>1, <1>4, <2>2 DEF Connect, Verified, Admit
  <2>. QED  BY <1>4, <2>1, <2>2 DEF Connect, Verified, Admit
<1>5. ASSUME NEW c \in Clients, NEW r \in OrderRooms, Subscribe(c, r)
      PROVE  AsksKnown'
  BY <1>0, <1>1, <1>5 DEF Subscribe
<1>6. ASSUME NEW c \in Clients, AutoSubscribed(c)
      PROVE  AsksKnown'
  <2>1. PICK found \in AutoRooms(c) :
          pending' = (pending \ {Waiting(c, "autoSubscribe")})
              \cup {WaitingToJoin(c, found \cup (IF RoleOf[c] = "HQ" THEN {HQRoom} ELSE {}))}
    BY <1>6 DEF AutoSubscribed
  <2>2. Asking(c)
    BY <1>0, <1>6 DEF AutoSubscribed, Asking
  <2>3. RoleOf[c] # "HQ" => found \subseteq entitled[c]
    BY FoundAreRooms
  <2>4. UNCHANGED <<entitled, shown>>
    BY <1>6 DEF AutoSubscribed
  <2>. QED  BY <1>2, <2>1, <2>2, <2>3, <2>4
<1>7. ASSUME NEW c \in Clients, NEW r \in OrderRooms, AccessAllowed(c, r)
      PROVE  AsksKnown'
  <2>1. Asking(c)
    BY <1>0, <1>7 DEF AccessAllowed, Asking
  <2>2. /\ {r} \subseteq entitled[c] /\ UNCHANGED <<entitled, shown>>
        /\ pending' \subseteq pending \cup {WaitingToJoin(c, {r})}
    BY <1>7 DEF AccessAllowed, Access
  <2>. QED  BY <1>2, <2>1, <2>2
<1>8. ASSUME NEW c \in Clients, Disconnect(c)
      PROVE  AsksKnown'
  <2>1. UNCHANGED <<entitled, shown>> /\ pending' \subseteq pending \cup {Waiting(c, "sync")}
    BY <1>8 DEF Disconnect
  <2>2. ~Asks(Waiting(c, "sync"))
    BY <1>0
  <2>. QED  BY <1>2, <2>1, <2>2
<1>9. ASSUME UNCHANGED <<entitled, shown>>, pending' \subseteq pending
      PROVE  AsksKnown'
  BY <1>2, <1>9
<1>. HIDE DEF Asks
<1>. QED
  BY <1>3, <1>4, <1>5, <1>6, <1>7, <1>8, <1>9 DEF Next, Resume, Frame, ConnectRefused,
     Synced, ConnectionRejected, AccessDenied, Join, Unauthenticated, SubscribeHQ,
     Unsubscribe, RateLimited, vars

\* A step that lets a client in.
LEMMA JoinStep ==
    ASSUME TypeOK, NEW c \in Clients, NEW joined \in SUBSET Rooms,
           c \notin Gone \/ c \in raced, JoinAll(c, joined),
           joined \subseteq shown[c] \/ RoleOf[c] = "HQ",
           UNCHANGED <<shown, Gone, raced>>
    PROVE  Membership!Next
<1>1. Watches' = [Watches EXCEPT ![c] = @ \cup joined]
  BY WatchesAfter
<1>2. joined \subseteq shown[c] \/ c \in SeesAll
  BY DEF SeesAll
<1>3. Membership!Join(c, joined)
  BY <1>1, <1>2 DEF Membership!Join, Watches, Gone, SeesAll
<1>. QED  BY <1>3 DEF Membership!Next

\* A step that only changes what the clients are shown.
LEMMA ShowStep ==
    ASSUME TypeOK', UNCHANGED <<members, Gone, raced>>
    PROVE  Membership!Next
<1>1. shown' \in [Clients -> SUBSET Rooms] /\ UNCHANGED Watches
  BY DEF TypeOK, Rooms, Watches
<1>2. Membership!Show
  BY <1>1 DEF Membership!Show, Watches, Gone
<1>. QED  BY <1>2 DEF Membership!Next

\* A resumed handler lets its client in, or leaves the rooms alone.
LEMMA ResumeMembership ==
    ASSUME TypeOK, TypeOK', GoneInv, AsksKnown, NEW c \in Clients, Resume(c)
    PROVE  Membership!Next
<1>1. UNCHANGED <<Gone, raced>>
  BY GoneKept
<1>2. ASSUME NEW rooms \in SUBSET Rooms, Join(c, rooms)
      PROVE  Membership!Next
  <2>1. WaitingToJoin(c, rooms) \in pending /\ JoinAll(c, rooms) /\ UNCHANGED shown
    BY <1>2 DEF Join
  <2>2. rooms \subseteq shown[c] \/ RoleOf[c] = "HQ"
    BY <2>1 DEF AsksKnown
  <2>3. c \notin Gone \/ c \in raced
    BY <2>1, LetInWhilePresent
  <2>. QED  BY <1>1, <2>1, <2>2, <2>3, JoinStep
<1>3. ASSUME UNCHANGED members
      PROVE  Membership!Next
  BY <1>1, <1>3, ShowStep
<1>. QED
  BY <1>2, <1>3 DEF Resume, Verified, ConnectionRejected, AutoSubscribed, Synced,
                    AccessAllowed, AccessDenied

\* A message lets HQ in, takes its sender out of a room, or leaves the rooms
\* alone.
LEMMA FrameMembership ==
    ASSUME TypeOK, TypeOK', GoneInv, NEW c \in Clients, Frame(c)
    PROVE  Membership!Next
<1>1. UNCHANGED <<Gone, raced>>
  BY GoneKept
<1>2. ASSUME NEW r \in OrderRooms, SubscribeHQ(c, r)
      PROVE  Membership!Next
  <2>1. JoinAll(c, {r}) /\ {r} \in SUBSET Rooms /\ RoleOf[c] = "HQ" /\ UNCHANGED shown
    BY <1>2 DEF SubscribeHQ, Rooms
  <2>2. c \notin Gone \/ c \in raced
    BY <1>2, LetInWhilePresent DEF SubscribeHQ
  <2>. QED  BY <1>1, <2>1, <2>2, JoinStep
<1>3. ASSUME NEW r \in Rooms, Unsubscribe(c, r)
      PROVE  Membership!Next
  <2>1. c \notin Gone /\ UNCHANGED shown
    BY <1>3 DEF Unsubscribe, Listening, Gone
  <2>2. Watches' = [Watches EXCEPT ![c] = @ \ {r}]
    BY <1>3, WatchesAfter DEF Unsubscribe
  <2>3. Membership!Quit(c, r)
    BY <1>1, <2>1, <2>2 DEF Membership!Quit, Watches, Gone
  <2>. QED  BY <2>3 DEF Membership!Next
<1>4. ASSUME UNCHANGED members
      PROVE  Membership!Next
  BY <1>1, <1>4, ShowStep
<1>. QED
  BY <1>2, <1>3, <1>4 DEF Frame, Unauthenticated, Subscribe, RateLimited

\* A disconnect takes the client out of every room: one without an entry was in
\* none.
LEMMA DisconnectMembership ==
    ASSUME TypeOK, MapsAgree, GoneInv, RacedAreGone, NEW c \in Clients, Disconnect(c)
    PROVE  Membership!Next
<1>1. c \notin Gone /\ Gone' = Gone \cup {c}
  BY DEF Disconnect, Listening, Gone, TypeOK
<1>2. raced' \in {raced, raced \cup {c}} /\ UNCHANGED shown
  BY DEF Disconnect
<1>3. Watches' = [Watches EXCEPT ![c] = {}]
  <2>1. CASE c \in clientData
    BY <2>1, WatchesAfter DEF Disconnect
  <2>2. CASE c \notin clientData
    <3>1. c \notin raced
      BY <1>1 DEF RacedAreGone
    <3>2. clientRooms[c] = {}
      BY <2>2, <3>1 DEF GoneInv, Tidy
    <3>3. Watches[c] = {} /\ UNCHANGED members
      BY <2>2, <3>2 DEF Watches, MapsAgree, Disconnect
    <3>. QED  BY <3>3 DEF Watches
  <2>. QED  BY <2>1, <2>2
<1>4. Membership!Go(c)
  BY <1>1, <1>2, <1>3 DEF Membership!Go, Watches, Gone
<1>. QED  BY <1>4 DEF Membership!Next

LEMMA MembershipStep ==
    ASSUME TypeOK, TypeOK', MapsAgree, GoneInv, RacedAreGone, AsksKnown, [Next]_vars
    PROVE  [Membership!Next]_(Membership!membershipVars)
<1>1. ASSUME NEW c \in Clients, Connect(c) \/ ConnectRefused(c)
      PROVE  Membership!Next
  <2>1. UNCHANGED <<Gone, raced>>
    BY <1>1, GoneKept
  <2>2. UNCHANGED members
    BY <1>1 DEF Connect, ConnectRefused
  <2>. QED  BY <2>1, <2>2, ShowStep
<1>2. ASSUME NEW c \in Clients, Resume(c)
      PROVE  Membership!Next
  BY <1>2, ResumeMembership
<1>3. ASSUME NEW c \in Clients, Frame(c)
      PROVE  Membership!Next
  BY <1>3, FrameMembership
<1>4. ASSUME NEW c \in Clients, Disconnect(c)
      PROVE  Membership!Next
  BY <1>4, DisconnectMembership
<1>5. ASSUME UNCHANGED <<socket, members, raced>>
      PROVE  Membership!Next
  <2>1. UNCHANGED Gone
    BY <1>5 DEF Gone
  <2>. QED  BY <1>5, <2>1, ShowStep
<1>. QED
  BY <1>1, <1>2, <1>3, <1>4, <1>5 DEF Next, EntitlementChanges, vars

\* The room manager, its handlers and the sockets implement one relation between
\* clients and rooms: a client is let in only where it was entitled while it asked,
\* is out of every room when its socket closes, and comes back only if it raced
\* (autoSubscribe, handleSubscribe, handleUnsubscribe, handleDisconnect).
THEOREM RoomsAreOneRelation == Spec => OneRelation
<1>1. Init => Membership!Init
  BY DEF Init, Membership!Init
<1>2. Init => GoneInv /\ RacedAreGone /\ AsksKnown
  BY DEF Init, GoneInv, SyncMeansClosed, Tidy, Busy, Asking, RacedAreGone, AsksKnown
<1>. QED
  BY <1>1, <1>2, GoneStep, RacedStep, AsksStep, MembershipStep, TypeCorrect,
     RoomMapsAgree, PTL DEF Spec, OneRelation, Membership!Spec
=============================================================================
