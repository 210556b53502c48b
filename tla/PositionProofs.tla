-------------------------- MODULE PositionProofs --------------------------
(***************************************************************************)
(* Proofs about Positions: typing, the spacing of accepted updates, that a *)
(* connection is closed only for a full window of drops, that an update is *)
(* dropped only close after an accepted one, and what a position that goes *)
(* back has for a cause.                                                   *)
(***************************************************************************)
EXTENDS Positions, TLAPS

-----------------------------------------------------------------------------
\* The limiter.

\* Limits stay typed whatever check() does to them.
LEMMA LimitsTyped ==
    ASSUME NEW l \in Limits, NEW t \in Nat
    PROVE  /\ FreshLimits(t) \in Limits
           /\ AfterDrop(l, t) \in Limits
           /\ AfterAccept(l, t) \in Limits
<1>1. FreshLimits(t) \in Limits
  BY DEF FreshLimits, Limits
<1>2. DropsAfter(l, t) \in Nat /\ t + Ban \in Nat
  BY LimiterAssumption DEF DropsAfter, Limits
<1>3. AfterDrop(l, t) \in Limits
  BY <1>2 DEF AfterDrop, Limits
<1>4. AfterAccept(l, t) \in Limits
  BY DEF AfterAccept, Limits
<1>. QED  BY <1>1, <1>3, <1>4

\* A drop leaves the time of the last accepted update alone, an accepted update
\* moves it to the clock.
LEMMA LastAccepted ==
    ASSUME NEW l \in Limits, NEW t \in Nat
    PROVE  /\ AfterDrop(l, t).lastAccepted = l.lastAccepted
           /\ AfterAccept(l, t).lastAccepted = t
BY DEF AfterDrop, AfterAccept, Limits

-----------------------------------------------------------------------------
\* Typing.

LEMMA TypeInit == Init => TypeOK
BY TimeAssumption, LimitsTyped DEF Init, TypeOK, FreshLimits, Limits

\* A command a connection sends is typed and so is the queue it is put in.
LEMMA SendsTyped ==
    ASSUME TypeOK, NEW c \in Connections, NEW kind \in {"set", "get"}, Sends(c, kind)
    PROVE  toRedis' \in [Instances -> Seq(Commands)]
<1>1. home[c] \in Instances /\ now \in Nat /\ toRedis \in [Instances -> Seq(Commands)]
  BY DEF TypeOK
<1>2. [kind |-> kind, by |-> c, sent |-> now] \in Commands
  BY <1>1 DEF Commands
<1>3. Append(toRedis[home[c]], [kind |-> kind, by |-> c, sent |-> now]) \in Seq(Commands)
  BY <1>1, <1>2
<1>. QED  BY <1>1, <1>3 DEF Sends

LEMMA CopyTyped ==
    ASSUME TypeOK, NEW w \in Instances \cup Connections, NEW t \in Technicians
    PROVE  CopyOf(w, t) \in Copies
BY DEF CopyOf, Copies, TypeOK

LEMMA TypeStep ==
    ASSUME TypeOK, [Next]_vars
    PROVE  TypeOK'
<1>. USE DEF TypeOK
<1>1. CASE Tick
  BY <1>1 DEF Tick
<1>2. ASSUME NEW c \in Connections, Connect(c)
      PROVE  TypeOK'
  <2>1. FreshLimits(now) \in Limits
    BY LimitsTyped DEF FreshLimits, Limits
  <2>. QED  BY <1>2, <2>1 DEF Connect
<1>3. ASSUME NEW c \in Connections, Disconnect(c)
      PROVE  TypeOK'
  <2>1. toRedis' \in [Instances -> Seq(Commands)]
    BY <1>3, SendsTyped DEF Disconnect
  <2>. QED  BY <1>3, <2>1 DEF Disconnect
<1>4. ASSUME NEW c \in Connections, DropUpdate(c)
      PROVE  TypeOK'
  <2>1. AfterDrop(limits[c], now) \in Limits
    BY LimitsTyped
  <2>2. Append(recentDrops[c], now) \in Seq(Nat) /\ Append(recentDrops[c], now) # <<>>
    <3>1. recentDrops[c] \in Seq(Nat) /\ now \in Nat
      OBVIOUS
    <3>2. Len(Append(recentDrops[c], now)) = Len(recentDrops[c]) + 1
      BY <3>1
    <3>3. Append(recentDrops[c], now) \in Seq(Nat)
      BY <3>1
    <3>4. Len(recentDrops[c]) + 1 # 0
      BY <3>1
    <3>. QED  BY <3>2, <3>3, <3>4
  <2>3. Tail(Append(recentDrops[c], now)) \in Seq(Nat)
    BY <2>2
  <2>. QED  BY <1>4, <2>1, <2>2, <2>3 DEF DropUpdate
<1>5. ASSUME NEW c \in Connections, AcceptUpdate(c)
      PROVE  TypeOK'
  <2>1. AfterAccept(limits[c], now) \in Limits
    BY LimitsTyped
  <2>2. [by |-> c, arrived |-> now] \in Updates
    BY DEF Updates
  <2>. QED  BY <1>5, <2>1, <2>2 DEF AcceptUpdate
<1>6. ASSUME NEW u \in checking, Discard(u)
      PROVE  TypeOK'
  BY <1>6 DEF Discard
<1>7. ASSUME NEW u \in checking, Process(u)
      PROVE  TypeOK'
  <2>1. u.by \in Connections
    BY DEF Updates
  <2>2. toRedis' \in [Instances -> Seq(Commands)]
    BY <1>7, <2>1, SendsTyped DEF Process
  <2>. QED  BY <1>7, <2>2 DEF Process
<1>8. ASSUME NEW i \in Instances, RunCommand(i)
      PROVE  TypeOK'
  <2>. DEFINE next == Head(toRedis[i])
              t    == Holder[next.by]
  <2>1. toRedis[i] \in Seq(Commands) /\ toRedis[i] # <<>>
    BY <1>8 DEF RunCommand
  <2>2. next \in Commands /\ Tail(toRedis[i]) \in Seq(Commands)
    BY <2>1
  <2>3. next.by \in Connections /\ next.sent \in Nat /\ t \in Technicians
    BY <2>2, HolderAssumption DEF Commands
  <2>4. now + TTL \in Nat
    BY TimeAssumption
  <2>5. CopyOf(next.by, t) \in Copies
    BY <2>3, CopyTyped
  <2>6. \/ UNCHANGED cache
        \/ cache' = [cache EXCEPT ![t] = [stamp |-> next.sent, until |-> now + TTL]]
    BY <1>8 DEF RunCommand
  <2>7. copies' \subseteq copies \cup {CopyOf(next.by, t)}
    BY <1>8 DEF RunCommand
  <2>. HIDE DEF next, t
  <2>9. [stamp |-> next.sent, until |-> now + TTL] \in [stamp : Nat, until : Nat]
    BY <2>3, <2>4
  <2>10. cache' \in [Technicians -> [stamp : Nat, until : Nat]]
    BY <2>3, <2>6, <2>9
  <2>11. copies' \subseteq Copies
    BY <2>5, <2>7
  <2>8. toRedis' \in [Instances -> Seq(Commands)]
    BY <1>8, <2>2 DEF RunCommand
  <2>. QED  BY <1>8, <2>8, <2>10, <2>11 DEF RunCommand
<1>9. ASSUME NEW i \in Instances, FailCommand(i)
      PROVE  TypeOK'
  <2>1. Tail(toRedis[i]) \in Seq(Commands)
    BY <1>9 DEF FailCommand
  <2>. QED  BY <1>9, <2>1 DEF FailCommand
<1>10. ASSUME NEW i \in Instances, SyncRead(i)
      PROVE  TypeOK'
  <2>1. \A t \in Technicians : CopyOf(i, t) \in Copies
    BY CopyTyped
  <2>. QED  BY <1>10, <2>1 DEF SyncRead
<1>11. ASSUME NEW k \in copies, Write(k)
      PROVE  TypeOK'
  <2>1. \A d \in Copies : [d EXCEPT !.overtaken = TRUE] \in Copies
    BY DEF Copies
  <2>2. Overtaken(k) \subseteq Copies
    BY <2>1 DEF Overtaken
  <2>3. k.stamp \in Nat
    BY DEF Copies
  <2>. QED  BY <1>11, <2>2, <2>3 DEF Write
<1>12. ASSUME NEW k \in copies, FailWrite(k)
      PROVE  TypeOK'
  BY <1>12 DEF FailWrite
<1>13. CASE UNCHANGED vars
  BY <1>13 DEF vars
<1>. QED
  BY <1>1, <1>2, <1>3, <1>4, <1>5, <1>6, <1>7, <1>8, <1>9, <1>10, <1>11, <1>12, <1>13
     DEF Next

\* Limits, updates, commands, cached positions and their copies are always
\* well-formed.
THEOREM TypeCorrect == Spec => []TypeOK
BY TypeInit, TypeStep, PTL DEF Spec

\* What a step does to the connections, their limits and their history.
LEMMA LimiterSteps ==
    ASSUME [Next]_vars
    PROVE  \/ Tick
           \/ \E c \in Connections :
                  Connect(c) \/ Disconnect(c) \/ DropUpdate(c) \/ AcceptUpdate(c)
           \/ UNCHANGED <<now, socket, limits, accepted, recentDrops>>
BY DEF Next, vars, Discard, Process, RunCommand, FailCommand, SyncRead, Write,
       FailWrite

\* A connection that was not opened has neither accepted nor dropped anything.
NewIsUnused ==
    \A c \in Connections :
        socket[c] = "new" => accepted[c] = {} /\ recentDrops[c] = <<>>

LEMMA NewStep ==
    ASSUME TypeOK, NewIsUnused, [Next]_vars
    PROVE  NewIsUnused'
<1>. USE DEF TypeOK, NewIsUnused
<1>1. CASE Tick
  BY <1>1 DEF Tick
<1>2. ASSUME NEW c \in Connections, Connect(c)
      PROVE  NewIsUnused'
  BY <1>2 DEF Connect
<1>3. ASSUME NEW c \in Connections, Disconnect(c)
      PROVE  NewIsUnused'
  BY <1>3 DEF Disconnect
<1>4. ASSUME NEW c \in Connections, DropUpdate(c)
      PROVE  NewIsUnused'
  BY <1>4 DEF DropUpdate, Receives
<1>5. ASSUME NEW c \in Connections, AcceptUpdate(c)
      PROVE  NewIsUnused'
  BY <1>5 DEF AcceptUpdate, Receives
<1>6. CASE UNCHANGED <<now, socket, limits, accepted, recentDrops>>
  BY <1>6
<1>. QED  BY <1>1, <1>2, <1>3, <1>4, <1>5, <1>6, LimiterSteps

-----------------------------------------------------------------------------
\* The spacing of accepted updates.

\* AcceptedApart is inductive together with what the limiter remembers: the
\* last accepted update is the latest one.
LatestRemembered ==
    \A c \in Connections : \A a \in accepted[c] : a <= limits[c].lastAccepted

LEMMA ApartStep ==
    ASSUME TypeOK, NewIsUnused, LatestRemembered, AcceptedApart, [Next]_vars
    PROVE  LatestRemembered' /\ AcceptedApart'
<1>. DEFINE Good == LatestRemembered' /\ AcceptedApart'
<1>. USE DEF TypeOK
<1>1. ASSUME UNCHANGED <<limits, accepted>>
      PROVE  Good
  BY <1>1 DEF LatestRemembered, AcceptedApart
<1>2. ASSUME NEW c \in Connections, Connect(c)
      PROVE  Good
  BY <1>2 DEF Connect, NewIsUnused, LatestRemembered, AcceptedApart
<1>3. ASSUME NEW c \in Connections, DropUpdate(c)
      PROVE  Good
  <2>1. AfterDrop(limits[c], now).lastAccepted = limits[c].lastAccepted
    BY LastAccepted
  <2>2. \A u \in Connections : limits'[u].lastAccepted = limits[u].lastAccepted
    BY <1>3, <2>1 DEF DropUpdate
  <2>. QED  BY <1>3, <2>2 DEF DropUpdate, LatestRemembered, AcceptedApart
<1>4. ASSUME NEW c \in Connections, AcceptUpdate(c)
      PROVE  Good
  <2>1. limits'[c].lastAccepted = now
    BY <1>4, LastAccepted DEF AcceptUpdate
  <2>2. now - limits[c].lastAccepted >= MinInterval /\ MinInterval \in Nat \ {0}
    BY <1>4, LimiterAssumption DEF AcceptUpdate, TooSoon, Limits
  <2>3. \A a \in accepted[c] : now - a >= MinInterval /\ a < now
    BY <2>2 DEF LatestRemembered, Limits
  <2>4. accepted'[c] = accepted[c] \cup {now}
    BY <1>4 DEF AcceptUpdate
  <2>5. \A u \in Connections :
            u # c => accepted'[u] = accepted[u] /\ limits'[u] = limits[u]
    BY <1>4 DEF AcceptUpdate
  <2>6. \A a \in accepted'[c] : a <= limits'[c].lastAccepted
    BY <2>1, <2>3, <2>4
  <2>7. \A a, b \in accepted'[c] : a < b => b - a >= MinInterval
    <3>1. \A a, b \in accepted[c] : a < b => b - a >= MinInterval
      BY DEF AcceptedApart
    <3>. QED  BY <2>3, <2>4, <3>1
  <2>8. LatestRemembered'
    BY <2>5, <2>6 DEF LatestRemembered
  <2>. QED  BY <2>5, <2>7, <2>8 DEF AcceptedApart
<1>. QED
  BY <1>1, <1>2, <1>3, <1>4, LimiterSteps DEF Tick, Disconnect

\* Two updates of a connection that pass the limit are at least MinInterval
\* apart, for every setting of the limits.
THEOREM UpdatesApart == Spec => []AcceptedApart
<1>1. Init => NewIsUnused /\ LatestRemembered /\ AcceptedApart
  BY DEF Init, NewIsUnused, LatestRemembered, AcceptedApart
<1>. QED  BY <1>1, NewStep, ApartStep, TypeCorrect, PTL DEF Spec

-----------------------------------------------------------------------------
\* A connection is closed for its drops only.

\* What the limiter counts on an open connection are its latest drops, all in
\* the window.
CountedInWindow ==
    \A c \in Connections :
        socket[c] = "open" =>
            /\ limits[c].drops < MaxDrops
            /\ limits[c].drops <= Len(recentDrops[c])
            /\ Len(recentDrops[c]) <= MaxDrops
            /\ limits[c].windowStart <= now
            /\ \A i \in 1..Len(recentDrops[c]) :
                   i > Len(recentDrops[c]) - limits[c].drops =>
                       recentDrops[c][i] >= limits[c].windowStart

\* A socket the limiter closed is gone before its ban is over.
BannedWhileClosing ==
    \A c \in Connections : socket[c] = "closing" => Banned(limits[c], now)

\* The drops of a connection after one more.
Remembered(drops) ==
    LET dropped == Append(drops, now) IN
    IF Len(dropped) > MaxDrops THEN Tail(dropped) ELSE dropped

\* The latest drop is remembered, and of the others at least the last
\* MaxDrops - 1.
LEMMA RememberedDrops ==
    ASSUME now \in Nat, NEW drops \in Seq(Nat), Len(drops) <= MaxDrops,
           NEW count \in Nat, count <= Len(drops), count < MaxDrops, NEW from \in Nat,
           from <= now,
           \A i \in 1..Len(drops) : i > Len(drops) - count => drops[i] >= from
    PROVE  /\ Len(Remembered(drops)) \in Nat
           /\ count + 1 <= Len(Remembered(drops))
           /\ Len(Remembered(drops)) <= MaxDrops
           /\ Remembered(drops)[Len(Remembered(drops))] = now
           /\ \A i \in 1..Len(Remembered(drops)) :
                  i > Len(Remembered(drops)) - (count + 1) =>
                      Remembered(drops)[i] >= from
<1>. DEFINE dropped == Append(drops, now)
<1>1. MaxDrops \in Nat \ {0} /\ Len(drops) \in Nat
  BY LimiterAssumption
<1>2. /\ dropped \in Seq(Nat)
      /\ Len(dropped) = Len(drops) + 1
      /\ dropped[Len(drops) + 1] = now
      /\ \A i \in 1..Len(drops) : dropped[i] = drops[i]
  BY <1>1
<1>3. \A i \in 1..Len(drops) + 1 :
          i > Len(drops) - count => dropped[i] >= from
  BY <1>1, <1>2
<1>4. CASE Len(dropped) <= MaxDrops
  <2>1. Remembered(drops) = dropped
    BY <1>1, <1>2, <1>4 DEF Remembered
  <2>. QED  BY <1>1, <1>2, <1>3, <1>4, <2>1
<1>5. CASE Len(dropped) > MaxDrops
  <2>. DEFINE rest == Tail(dropped)
  <2>1. Remembered(drops) = rest /\ Len(drops) = MaxDrops
    BY <1>1, <1>2, <1>5 DEF Remembered
  <2>2. Len(rest) = Len(drops) /\ \A i \in 1..Len(drops) : rest[i] = dropped[i + 1]
    BY <1>1, <1>2, <2>1
  <2>3. \A i \in 1..Len(drops) :
            i > Len(drops) - (count + 1) => rest[i] >= from
    <3>. SUFFICES ASSUME NEW i \in 1..Len(drops), i > Len(drops) - (count + 1)
                  PROVE  rest[i] >= from
      OBVIOUS
    <3>1. i + 1 \in 1..Len(drops) + 1 /\ i + 1 > Len(drops) - count
      BY <1>1
    <3>. QED  BY <1>3, <2>2, <3>1
  <2>4. rest[Len(drops)] = now
    BY <1>1, <1>2, <2>1, <2>2
  <2>. HIDE DEF rest, dropped
  <2>. QED  BY <1>1, <2>1, <2>2, <2>3, <2>4
<1>. QED  BY <1>1, <1>2, <1>4, <1>5

LEMMA RememberedTyped ==
    ASSUME now \in Nat, NEW drops \in Seq(Nat)
    PROVE  Remembered(drops) \in Seq(Nat)
<1>1. Append(drops, now) \in Seq(Nat) /\ Append(drops, now) # <<>>
  OBVIOUS
<1>. QED  BY <1>1 DEF Remembered

\* One drop: the count stays below the limit or the connection is closed with a
\* full window of drops.
LEMMA DropCounts ==
    ASSUME TypeOK, CountedInWindow, BannedWhileClosing,
           NEW c \in Connections, DropUpdate(c)
    PROVE  CountedInWindow' /\ BannedWhileClosing'
           /\ (BanNeedsDrops => BanNeedsDrops')
<1>. DEFINE l == limits[c]
            d == recentDrops[c]
            e == recentDrops'[c]
<1>1. /\ l \in Limits /\ d \in Seq(Nat) /\ now \in Nat /\ now' = now
      /\ MaxDrops \in Nat \ {0} /\ DropWindow \in Nat /\ Ban \in Nat \ {0}
  BY LimiterAssumption DEF TypeOK, DropUpdate
<1>2. socket[c] = "open"
  BY DEF DropUpdate, Receives, BannedWhileClosing, TypeOK
<1>3. /\ e = Remembered(d)
      /\ limits'[c] = AfterDrop(l, now)
      /\ socket'[c] = IF BansNow(l, now) THEN "closing" ELSE "open"
  BY <1>2 DEF DropUpdate, TypeOK, Remembered
<1>4. \A u \in Connections : u # c => /\ limits'[u] = limits[u]
                                      /\ socket'[u] = socket[u]
                                      /\ recentDrops'[u] = recentDrops[u]
  BY DEF DropUpdate, TypeOK
<1>5. /\ l.drops \in Nat /\ l.windowStart \in Nat /\ l.bannedUntil \in Nat
      /\ Len(d) \in Nat
  BY <1>1 DEF Limits
<1>6. /\ l.drops < MaxDrops /\ l.drops <= Len(d) /\ Len(d) <= MaxDrops
      /\ \A i \in 1..Len(d) : i > Len(d) - l.drops => d[i] >= l.windowStart
      /\ l.windowStart <= now
  BY <1>2 DEF CountedInWindow
<1>. DEFINE n == DropsAfter(l, now)
            w == IF WindowOver(l, now) THEN now ELSE l.windowStart
<1>7. /\ AfterDrop(l, now).drops = n
      /\ AfterDrop(l, now).windowStart = w
      /\ BansNow(l, now) => AfterDrop(l, now).bannedUntil = now + Ban
  BY <1>1 DEF AfterDrop, Limits
<1>8. /\ n \in Nat /\ n <= MaxDrops /\ n <= Len(e) /\ Len(e) \in Nat
      /\ Len(e) <= MaxDrops
      /\ e[Len(e)] = now
      /\ now - w <= DropWindow /\ w \in Nat /\ w <= now
      /\ \A i \in 1..Len(e) : i > Len(e) - n => e[i] >= w
  <2>1. CASE WindowOver(l, now)
    <3>1. n = 1 /\ w = now
      BY <2>1 DEF DropsAfter
    <3>2. /\ Len(e) \in Nat /\ 0 + 1 <= Len(e) /\ Len(e) <= MaxDrops
          /\ e[Len(e)] = now
          /\ \A i \in 1..Len(e) : i > Len(e) - (0 + 1) => e[i] >= now
      <4>1. 0 \in Nat /\ 0 <= Len(d) /\ 0 < MaxDrops /\ now <= now
            /\ \A i \in 1..Len(d) : i > Len(d) - 0 => d[i] >= now
        BY <1>1, <1>5
      <4>. HIDE DEF d, e
      <4>. QED  BY <1>1, <1>3, <1>6, <4>1, RememberedDrops
    <3>. HIDE DEF n, w, e
    <3>. QED  BY <1>1, <3>1, <3>2
  <2>2. CASE ~WindowOver(l, now)
    <3>1. n = l.drops + 1 /\ w = l.windowStart /\ now - l.windowStart <= DropWindow
      BY <1>1, <1>5, <2>2 DEF DropsAfter, WindowOver
    <3>2. /\ Len(e) \in Nat /\ l.drops + 1 <= Len(e) /\ Len(e) <= MaxDrops
          /\ e[Len(e)] = now
          /\ \A i \in 1..Len(e) : i > Len(e) - (l.drops + 1) => e[i] >= l.windowStart
      <4>. HIDE DEF d, e, l
      <4>. QED  BY <1>1, <1>3, <1>5, <1>6, RememberedDrops
    <3>. HIDE DEF n, w, e, l
    <3>. QED  BY <1>1, <1>5, <1>6, <3>1, <3>2
  <2>. QED  BY <2>1, <2>2
<1>9. CASE ~BansNow(l, now)
  <2>1. socket'[c] = "open" /\ n < MaxDrops
    BY <1>1, <1>3, <1>8, <1>9 DEF BansNow
  <2>2. limits'[c].drops = n /\ limits'[c].windowStart = w
    BY <1>3, <1>7
  <2>. HIDE DEF n, w, l, d, e
  <2>3. CountedInWindow'
    BY <1>1, <1>4, <1>8, <2>1, <2>2 DEF CountedInWindow, e
  <2>4. BannedWhileClosing'
    BY <1>1, <1>4, <2>1 DEF BannedWhileClosing
  <2>5. BanNeedsDrops => BanNeedsDrops'
    BY <1>4, <2>1 DEF BanNeedsDrops
  <2>. QED  BY <2>3, <2>4, <2>5
<1>10. CASE BansNow(l, now)
  <2>1. socket'[c] = "closing" /\ n = MaxDrops
    BY <1>1, <1>3, <1>8, <1>10 DEF BansNow
  <2>2. Banned(limits'[c], now')
    BY <1>1, <1>3, <1>7, <1>10 DEF Banned
  <2>. HIDE DEF n, w, l, d, e
  <2>3. Len(e) = MaxDrops /\ e[MaxDrops] - e[1] <= DropWindow
    <3>1. Len(e) = MaxDrops /\ 1 \in 1..Len(e) /\ 1 > Len(e) - n
      BY <1>1, <1>8, <2>1
    <3>2. e[1] >= w /\ e[MaxDrops] = now
      BY <1>8, <3>1
    <3>3. e[1] \in Nat
      <4>1. e \in Seq(Nat)
        BY <1>1, <1>3, RememberedTyped DEF d
      <4>. QED  BY <3>1, <4>1
    <3>. QED  BY <1>1, <1>8, <3>1, <3>2, <3>3
  <2>4. CountedInWindow'
    BY <1>1, <1>4, <2>1 DEF CountedInWindow
  <2>5. BannedWhileClosing'
    BY <1>1, <1>4, <2>2 DEF BannedWhileClosing
  <2>6. BanNeedsDrops => BanNeedsDrops'
    BY <1>4, <2>3 DEF BanNeedsDrops, e
  <2>. QED  BY <2>4, <2>5, <2>6
<1>. QED  BY <1>9, <1>10

LEMMA CountStep ==
    ASSUME TypeOK, NewIsUnused, CountedInWindow, BannedWhileClosing, BanNeedsDrops,
           [Next]_vars
    PROVE  CountedInWindow' /\ BannedWhileClosing' /\ BanNeedsDrops'
<1>. DEFINE Good == CountedInWindow' /\ BannedWhileClosing' /\ BanNeedsDrops'
<1>. USE DEF TypeOK
<1>1. CASE Tick
  <2>1. now' = now + 1 /\ UNCHANGED <<socket, limits, recentDrops>>
    BY <1>1 DEF Tick
  <2>2. ASSUME NEW c \in Connections, socket[c] = "closing"
        PROVE  Banned(limits[c], now + 1)
    <3>1. now - (limits[c].bannedUntil - Ban) < CloseTimeout
      BY <1>1, <2>2 DEF Tick, MayStayClosing
    <3>2. limits[c].bannedUntil \in Nat
      BY DEF Limits
    <3>. QED  BY <3>1, <3>2, LimiterAssumption, TimeAssumption DEF Banned
  <2>3. ASSUME NEW c \in Connections, limits[c].windowStart <= now
        PROVE  limits[c].windowStart <= now + 1
    BY <2>3 DEF Limits
  <2>4. CountedInWindow'
    BY <2>1, <2>3 DEF CountedInWindow
  <2>5. BannedWhileClosing' /\ BanNeedsDrops'
    BY <2>1, <2>2 DEF BannedWhileClosing, BanNeedsDrops
  <2>. QED  BY <2>4, <2>5
<1>2. ASSUME NEW c \in Connections, Connect(c)
      PROVE  Good
  <2>1. /\ FreshLimits(now).drops = 0
        /\ FreshLimits(now).windowStart = now
    BY DEF FreshLimits
  <2>. QED
    BY <1>2, <2>1, LimiterAssumption
       DEF Connect, NewIsUnused, CountedInWindow, BannedWhileClosing, BanNeedsDrops
<1>3. ASSUME NEW c \in Connections, Disconnect(c)
      PROVE  Good
  BY <1>3 DEF Disconnect, CountedInWindow, BannedWhileClosing, BanNeedsDrops
<1>4. ASSUME NEW c \in Connections, DropUpdate(c)
      PROVE  Good
  BY <1>4, DropCounts
<1>5. ASSUME NEW c \in Connections, AcceptUpdate(c)
      PROVE  Good
  <2>1. socket[c] = "open"
    BY <1>5 DEF AcceptUpdate, Receives, BannedWhileClosing
  <2>2. /\ UNCHANGED <<now, socket, recentDrops>>
        /\ limits' = [limits EXCEPT ![c] = AfterAccept(limits[c], now)]
    BY <1>5 DEF AcceptUpdate
  <2>3. \/ /\ limits'[c].drops = limits[c].drops
           /\ limits'[c].windowStart = limits[c].windowStart
        \/ limits'[c].drops = 0 /\ limits'[c].windowStart = now
    BY <2>2 DEF AfterAccept, Limits
  <2>4. \A u \in Connections : u # c => limits'[u] = limits[u]
    BY <2>2
  <2>5. CountedInWindow'
    BY <2>1, <2>2, <2>3, <2>4, LimiterAssumption DEF CountedInWindow
  <2>. QED  BY <2>1, <2>2, <2>4, <2>5 DEF BannedWhileClosing, BanNeedsDrops
<1>6. ASSUME UNCHANGED <<now, socket, limits, recentDrops>>
      PROVE  Good
  BY <1>6 DEF CountedInWindow, BannedWhileClosing, BanNeedsDrops
<1>. QED
  BY <1>1, <1>2, <1>3, <1>4, <1>5, <1>6, LimiterSteps

\* A connection is closed for its rate only after MaxDrops drops in one window,
\* for every setting of the limits with a ban that outlasts the close handshake.
THEOREM BansAreEarned == Spec => []BanNeedsDrops
<1>1. Init => NewIsUnused /\ CountedInWindow /\ BannedWhileClosing /\ BanNeedsDrops
  BY DEF Init, NewIsUnused, CountedInWindow, BannedWhileClosing, BanNeedsDrops
<1>. QED  BY <1>1, NewStep, CountStep, TypeCorrect, PTL DEF Spec

-----------------------------------------------------------------------------
\* Drops have a cause.

\* The limiter remembers an update it accepted on this connection, or none: the
\* clock is then so far past the epoch that nothing is too soon.
RemembersAnAccepted ==
    /\ now >= Start
    /\ \A c \in Connections :
           limits[c].lastAccepted = 0 \/ limits[c].lastAccepted \in accepted[c]

\* Accepted updates lie in the past.
AcceptedEarlier == \A c \in Connections : \A a \in accepted[c] : a <= now

\* A drop at time d that accepted updates explain.
Explained(d, earlier) == \E a \in earlier : a <= d /\ d - a < MinInterval

\* The drops remembered after one more are this one and earlier ones.
LEMMA RememberedAreDrops ==
    ASSUME now \in Nat, NEW drops \in Seq(Nat)
    PROVE  \A i \in 1..Len(Remembered(drops)) :
               \/ Remembered(drops)[i] = now
               \/ \E j \in 1..Len(drops) : Remembered(drops)[i] = drops[j]
<1>. DEFINE dropped == Append(drops, now)
<1>1. /\ dropped \in Seq(Nat)
      /\ Len(drops) \in Nat
      /\ Len(dropped) = Len(drops) + 1
      /\ dropped[Len(drops) + 1] = now
      /\ \A i \in 1..Len(drops) : dropped[i] = drops[i]
  OBVIOUS
<1>2. \A i \in 1..Len(dropped) :
          dropped[i] = now \/ \E j \in 1..Len(drops) : dropped[i] = drops[j]
  BY <1>1
<1>3. CASE Remembered(drops) = dropped
  BY <1>2, <1>3
<1>4. CASE Remembered(drops) = Tail(dropped)
  <2>1. /\ Len(Tail(dropped)) = Len(drops)
        /\ \A i \in 1..Len(drops) : Tail(dropped)[i] = dropped[i + 1]
    BY <1>1
  <2>2. \A i \in 1..Len(drops) : i + 1 \in 1..Len(dropped)
    BY <1>1
  <2>. HIDE DEF dropped
  <2>. QED  BY <1>2, <1>4, <2>1, <2>2
<1>. QED  BY <1>3, <1>4 DEF Remembered

\* An update that is too soon follows one that was accepted.
LEMMA TooSoonIsExplained ==
    ASSUME TypeOK, RemembersAnAccepted, AcceptedEarlier, NEW c \in Connections,
           TooSoon(limits[c], now)
    PROVE  Explained(now, accepted[c])
<1>1. now - limits[c].lastAccepted < MinInterval
  BY DEF TooSoon
<1>2. now >= MinInterval /\ now \in Nat /\ MinInterval \in Nat \ {0}
  BY TimeAssumption, LimiterAssumption DEF RemembersAnAccepted, TypeOK
<1>3. limits[c].lastAccepted # 0
  BY <1>1, <1>2
<1>4. limits[c].lastAccepted \in accepted[c]
  BY <1>3 DEF RemembersAnAccepted
<1>. QED  BY <1>1, <1>4 DEF Explained, AcceptedEarlier

LEMMA CauseStep ==
    ASSUME TypeOK, NewIsUnused, RemembersAnAccepted, AcceptedEarlier,
           DropsHaveCause, [Next]_vars
    PROVE  RemembersAnAccepted' /\ AcceptedEarlier' /\ DropsHaveCause'
<1>. DEFINE Good == RemembersAnAccepted' /\ AcceptedEarlier' /\ DropsHaveCause'
<1>1. ASSUME UNCHANGED <<limits, accepted, recentDrops>>, now' >= now, now' \in Nat
      PROVE  Good
  <2>1. \A c \in Connections : \A a \in accepted[c] : a <= now'
    BY <1>1 DEF AcceptedEarlier, TypeOK
  <2>2. now' >= Start
    BY <1>1, TimeAssumption DEF RemembersAnAccepted, TypeOK
  <2>. QED
    BY <1>1, <2>1, <2>2 DEF RemembersAnAccepted, AcceptedEarlier, DropsHaveCause
<1>2. ASSUME NEW c \in Connections, Connect(c)
      PROVE  Good
  <2>1. FreshLimits(now).lastAccepted = 0
    BY DEF FreshLimits
  <2>. QED
    BY <1>2, <2>1
       DEF Connect, TypeOK, NewIsUnused, RemembersAnAccepted, AcceptedEarlier,
           DropsHaveCause
<1>3. ASSUME NEW c \in Connections, DropUpdate(c)
      PROVE  Good
  <2>. DEFINE d == recentDrops[c]
              e == recentDrops'[c]
  <2>1. now \in Nat /\ d \in Seq(Nat) /\ e = Remembered(d)
    BY <1>3 DEF DropUpdate, TypeOK, Remembered
  <2>2. \A u \in Connections : u # c => recentDrops'[u] = recentDrops[u]
    BY <1>3 DEF DropUpdate, TypeOK
  <2>3. \A u \in Connections : limits'[u].lastAccepted = limits[u].lastAccepted
    BY <1>3, LastAccepted DEF DropUpdate, TypeOK
  <2>4. UNCHANGED <<now, accepted>>
    BY <1>3 DEF DropUpdate
  <2>5. Explained(now, accepted[c])
    BY <1>3, TooSoonIsExplained DEF DropUpdate
  <2>6. \A i \in 1..Len(recentDrops[c]) : Explained(recentDrops[c][i], accepted[c])
    BY DEF DropsHaveCause, Explained
  <2>7. \A i \in 1..Len(e) : e[i] = now \/ \E j \in 1..Len(d) : e[i] = d[j]
    <3>. HIDE DEF d, e
    <3>. QED  BY <2>1, RememberedAreDrops
  <2>10. \A i \in 1..Len(d) : Explained(d[i], accepted[c])
    BY <2>6
  <2>8. \A i \in 1..Len(e) : Explained(e[i], accepted[c])
    <3>. HIDE DEF d, e
    <3>. QED  BY <2>5, <2>7, <2>10
  <2>9. DropsHaveCause'
    <3>. SUFFICES ASSUME NEW u \in Connections, NEW i \in 1..Len(recentDrops'[u])
                  PROVE  Explained(recentDrops'[u][i], accepted[u])
      BY <2>4 DEF DropsHaveCause, Explained
    <3>1. CASE u = c
      BY <2>8, <3>1
    <3>2. CASE u # c
      BY <2>2, <3>2 DEF DropsHaveCause, Explained
    <3>. QED  BY <3>1, <3>2
  <2>. QED  BY <2>3, <2>4, <2>9 DEF RemembersAnAccepted, AcceptedEarlier
<1>4. ASSUME NEW c \in Connections, AcceptUpdate(c)
      PROVE  Good
  <2>1. UNCHANGED <<now, recentDrops>> /\ now \in Nat
    BY <1>4 DEF AcceptUpdate, TypeOK
  <2>2. accepted'[c] = accepted[c] \cup {now}
    BY <1>4 DEF AcceptUpdate, TypeOK
  <2>3. limits'[c].lastAccepted = now
    BY <1>4, LastAccepted DEF AcceptUpdate, TypeOK
  <2>4. \A u \in Connections : u # c => limits'[u] = limits[u] /\ accepted'[u] = accepted[u]
    BY <1>4 DEF AcceptUpdate, TypeOK
  <2>5. \A u \in Connections : accepted[u] \subseteq accepted'[u]
    BY <2>2, <2>4
  <2>6. RemembersAnAccepted' /\ AcceptedEarlier'
    BY <2>1, <2>2, <2>3, <2>4 DEF RemembersAnAccepted, AcceptedEarlier
  <2>. QED  BY <2>1, <2>5, <2>6 DEF DropsHaveCause
<1>. HIDE DEF Good
<1>5. ASSUME Tick
      PROVE  Good
  BY <1>1, <1>5 DEF Tick, TypeOK
<1>6. ASSUME UNCHANGED <<now, limits, accepted, recentDrops>>
      PROVE  Good
  BY <1>1, <1>6 DEF TypeOK
<1>7. Good
  BY <1>2, <1>3, <1>4, <1>5, <1>6, LimiterSteps DEF Disconnect
<1>. QED  BY <1>7 DEF Good

\* An update is dropped only close after an accepted one of its connection: who
\* keeps the interval is never dropped and never closed.
THEOREM DropsAreCaused == Spec => []DropsHaveCause
<1>1. Init => NewIsUnused /\ RemembersAnAccepted /\ AcceptedEarlier /\ DropsHaveCause
  BY TimeAssumption
     DEF Init, FreshLimits, NewIsUnused, RemembersAnAccepted, AcceptedEarlier,
         DropsHaveCause
<1>. QED  BY <1>1, NewStep, CauseStep, TypeCorrect, PTL DEF Spec

-----------------------------------------------------------------------------
\* Positions that go back.

\* The commands of a process on their way.
Queued(i) == {toRedis[i][j] : j \in 1..Len(toRedis[i])}

\* The commands of a process are in the order they were sent in, by connections
\* opened there, and none is from the future.
QueuesInOrder ==
    \A i \in Instances :
        /\ \A m \in Queued(i) : home[m.by] = i /\ m.sent <= now
        /\ \A j, k \in 1..Len(toRedis[i]) :
               j < k => toRedis[i][j].sent <= toRedis[i][k].sent

\* The commands of a technician who is at one process are at least as new as the
\* cached position, and so this is at least as new as the row and every copy.
CacheBetween ==
    \A t \in Technicians :
        OneHome(t) =>
            /\ cache[t].stamp <= now
            /\ \A i \in Instances : \A m \in Queued(i) :
                   Holder[m.by] = t => cache[t].stamp <= m.sent
            /\ lastLocationAt[t] <= cache[t].stamp
            /\ \A k \in copies : k.technician = t => k.stamp <= cache[t].stamp

\* A copy that was not overtaken is at least as new as the row.
FreshIsNewest ==
    \A t \in Technicians : \A k \in copies :
        OneHome(t) /\ k.technician = t /\ ~k.overtaken => lastLocationAt[t] <= k.stamp

OrderInv == QueuesInOrder /\ CacheBetween /\ FreshIsNewest

LEMMA HomeStays ==
    ASSUME [Next]_vars
    PROVE  home' = home /\ \A t : OneHome(t)' <=> OneHome(t)
<1>1. home' = home
  BY DEF Next, vars, Tick, Connect, Disconnect, DropUpdate, AcceptUpdate, Discard,
         Process, RunCommand, FailCommand, SyncRead, Write, FailWrite
<1>. QED  BY <1>1 DEF OneHome

\* A command sent now comes last and is the newest.
LEMMA SendKeepsOrder ==
    ASSUME TypeOK, QueuesInOrder, NEW c \in Connections, NEW kind \in {"set", "get"},
           Sends(c, kind), UNCHANGED <<now, home>>
    PROVE  /\ QueuesInOrder'
           /\ \A i \in Instances : \A m \in Queued(i)' : m \in Queued(i) \/ m.sent = now
<1>1. home[c] \in Instances /\ now \in Nat
  BY DEF TypeOK
<1>. PICK h \in Instances : h = home[c]
  BY <1>1
<1>. DEFINE q   == toRedis[h]
            new == [kind |-> kind, by |-> c, sent |-> now]
            p   == toRedis'[h]
<1>0. q \in Seq(Commands)
  BY DEF TypeOK
<1>2. p = Append(q, new) /\ \A i \in Instances : i # h => toRedis'[i] = toRedis[i]
  BY <1>1 DEF Sends, TypeOK
<1>3. new \in Commands
  BY <1>1 DEF Commands
<1>4. /\ Len(q) \in Nat
      /\ Len(p) = Len(q) + 1
      /\ p[Len(q) + 1] = new
      /\ \A j \in 1..Len(q) : p[j] = q[j] /\ q[j] \in Commands
  <2>. HIDE DEF new, q
  <2>. QED  BY <1>0, <1>2, <1>3
<1>5. \A j \in 1..Len(q) : home[q[j].by] = h /\ q[j].sent <= now
  BY <1>1 DEF QueuesInOrder, Queued
<1>6. \A j, k \in 1..Len(q) : j < k => q[j].sent <= q[k].sent
  BY <1>1 DEF QueuesInOrder
<1>7. new.sent = now /\ home[new.by] = h
  OBVIOUS
<1>8. \A j \in 1..Len(p) : home[p[j].by] = h /\ p[j].sent <= now /\ (j \in 1..Len(q) \/ p[j].sent = now)
  <2>. HIDE DEF new, q, p
  <2>. QED  BY <1>1, <1>4, <1>5, <1>7
<1>9. \A j, k \in 1..Len(p) : j < k => p[j].sent <= p[k].sent
  <2>. HIDE DEF new, q, p
  <2>. QED  BY <1>1, <1>4, <1>5, <1>6, <1>7
<1>10. \A i \in Instances : i # h => Queued(i)' = Queued(i)
  BY <1>2 DEF Queued
<1>11. \A m \in Queued(h)' :
           home[m.by] = h /\ m.sent <= now /\ (m \in Queued(h) \/ m.sent = now)
  <2>1. Queued(h)' = {p[j] : j \in 1..Len(p)} /\ Queued(h) = {q[j] : j \in 1..Len(q)}
    BY DEF Queued
  <2>2. SUFFICES ASSUME NEW j \in 1..Len(p)
                 PROVE  /\ home[p[j].by] = h /\ p[j].sent <= now
                        /\ p[j] \in Queued(h) \/ p[j].sent = now
    BY <2>1, Zenon
  <2>3. j \in 1..Len(q) => p[j] \in Queued(h)
    <3>. HIDE DEF q, p
    <3>. QED  BY <1>4, <2>1, Zenon
  <2>. HIDE DEF q, p
  <2>. QED  BY <1>8, <2>3, Zenon
<1>12. QueuesInOrder'
  <2>. SUFFICES ASSUME NEW i \in Instances
                PROVE  /\ \A m \in Queued(i)' : home[m.by] = i /\ m.sent <= now
                       /\ \A j, k \in 1..Len(toRedis'[i]) :
                              j < k => toRedis'[i][j].sent <= toRedis'[i][k].sent
    BY DEF QueuesInOrder
  <2>1. CASE i = h
    BY <1>9, <1>11, <2>1
  <2>2. CASE i # h
    BY <1>2, <1>10, <2>2 DEF QueuesInOrder
  <2>. QED  BY <2>1, <2>2
<1>. QED  BY <1>10, <1>11, <1>12

\* The commands behind the first one are at least as new.
LEMMA TailKeepsOrder ==
    ASSUME TypeOK, QueuesInOrder, NEW i \in Instances, toRedis[i] # <<>>,
           toRedis' = [toRedis EXCEPT ![i] = Tail(@)], UNCHANGED <<now, home>>
    PROVE  /\ QueuesInOrder'
           /\ \A j \in Instances : Queued(j)' \subseteq Queued(j)
           /\ Head(toRedis[i]) \in Queued(i)
           /\ \A m \in Queued(i)' : Head(toRedis[i]).sent <= m.sent
<1>. DEFINE q == toRedis[i]
            p == toRedis'[i]
<1>1. q \in Seq(Commands) /\ q # <<>>
  BY DEF TypeOK
<1>2. p = Tail(q) /\ \A j \in Instances : j # i => toRedis'[j] = toRedis[j]
  BY DEF TypeOK
<1>3. /\ Len(q) \in Nat
      /\ Len(p) = Len(q) - 1
      /\ Len(q) >= 1
      /\ \A j \in 1..Len(p) : p[j] = q[j + 1] /\ j + 1 \in 1..Len(q)
      /\ Head(q) = q[1] /\ 1 \in 1..Len(q)
  <2>. HIDE DEF q, p
  <2>1. Len(q) \in Nat /\ Len(q) >= 1
    BY <1>1
  <2>2. Len(p) = Len(q) - 1
    BY <1>1, <1>2, <2>1
  <2>3. \A j \in 1..Len(p) : p[j] = q[j + 1]
    BY <1>1, <1>2, <2>1, <2>2
  <2>4. Head(q) = q[1]
    BY <1>1
  <2>. QED  BY <2>1, <2>2, <2>3, <2>4
<1>4. \A j \in 1..Len(q) : home[q[j].by] = i /\ q[j].sent <= now
  BY DEF QueuesInOrder, Queued
<1>5. \A j, k \in 1..Len(q) : j < k => q[j].sent <= q[k].sent
  BY DEF QueuesInOrder
<1>6. \A j, k \in 1..Len(p) : j < k => p[j].sent <= p[k].sent
  <2>. HIDE DEF q, p
  <2>. QED  BY <1>3, <1>5
<1>7. \A j \in 1..Len(p) : q[1].sent <= p[j].sent
  <2>. HIDE DEF q, p
  <2>. QED  BY <1>3, <1>5
<1>8. \A j \in Instances : Queued(j)' \subseteq Queued(j)
  <2>1. \A j \in Instances : j # i => Queued(j)' = Queued(j)
    BY <1>2 DEF Queued
  <2>2. Queued(i)' \subseteq Queued(i)
    BY <1>3 DEF Queued
  <2>. QED  BY <2>1, <2>2
<1>9. QueuesInOrder'
  BY <1>2, <1>6, <1>8 DEF QueuesInOrder
<1>10. Head(q) \in Queued(i) /\ \A m \in Queued(i)' : Head(q).sent <= m.sent
  BY <1>3, <1>7 DEF Queued
<1>. QED  BY <1>8, <1>9, <1>10

\* Steps that write neither the cache nor the row: commands stay or are sent now,
\* copies stay or are read now.
LEMMA QuietStep ==
    ASSUME TypeOK, TypeOK', CacheBetween, FreshIsNewest, [Next]_vars,
           UNCHANGED <<cache, lastLocationAt>>, now' >= now,
           \A i \in Instances : \A m \in Queued(i)' : m \in Queued(i) \/ m.sent = now,
           \A k \in copies' : k \in copies \/ k = CopyOf(k.writer, k.technician)
    PROVE  CacheBetween' /\ FreshIsNewest'
<1>1. /\ \A t \in Technicians : /\ cache[t].stamp \in Nat
                                /\ lastLocationAt[t] \in Nat
      /\ now \in Nat /\ now' \in Nat
  BY DEF TypeOK
<1>2. \A k \in copies' : k \in copies \/ k.stamp = cache[k.technician].stamp
  BY DEF CopyOf
<1>3. \A t \in Technicians : OneHome(t)' <=> OneHome(t)
  BY HomeStays
<1>4. ASSUME NEW t \in Technicians, OneHome(t)
      PROVE  /\ cache[t].stamp <= now'
             /\ \A i \in Instances : \A m \in Queued(i)' :
                    Holder[m.by] = t => cache[t].stamp <= m.sent
             /\ lastLocationAt[t] <= cache[t].stamp
             /\ \A k \in copies' : k.technician = t => k.stamp <= cache[t].stamp
             /\ \A k \in copies' :
                    k.technician = t /\ ~k.overtaken => lastLocationAt[t] <= k.stamp
  <2>1. /\ cache[t].stamp <= now
        /\ \A i \in Instances : \A m \in Queued(i) :
               Holder[m.by] = t => cache[t].stamp <= m.sent
        /\ lastLocationAt[t] <= cache[t].stamp
        /\ \A k \in copies : k.technician = t => k.stamp <= cache[t].stamp
    BY <1>4 DEF CacheBetween
  <2>2. \A k \in copies : k.technician = t /\ ~k.overtaken => lastLocationAt[t] <= k.stamp
    BY <1>4 DEF FreshIsNewest
  <2>3. cache[t].stamp <= now'
    BY <1>1, <2>1
  <2>. QED  BY <1>1, <1>2, <2>1, <2>2, <2>3
<1>. QED  BY <1>3, <1>4 DEF CacheBetween, FreshIsNewest

LEMMA SetStep ==
    ASSUME TypeOK, TypeOK', OrderInv, [Next]_vars, NEW i \in Instances, RunCommand(i),
           Head(toRedis[i]).kind = "set"
    PROVE  /\ OrderInv'
           /\ \A t \in Technicians : OneHome(t) => NeverOlder(t)
<1>. DEFINE next == Head(toRedis[i])
            h    == Holder[next.by]
<1>1. /\ toRedis[i] # <<>>
      /\ toRedis' = [toRedis EXCEPT ![i] = Tail(@)]
      /\ cache' = [cache EXCEPT ![h] = [stamp |-> next.sent, until |-> now + TTL]]
      /\ UNCHANGED <<now, home, copies, lastLocationAt>>
  BY DEF RunCommand
<1>2. /\ QueuesInOrder'
      /\ \A j \in Instances : Queued(j)' \subseteq Queued(j)
      /\ next \in Queued(i)
      /\ \A m \in Queued(i)' : next.sent <= m.sent
  BY <1>1, TailKeepsOrder DEF OrderInv
<1>3. next \in Commands
  BY <1>1 DEF TypeOK
<1>4. next.by \in Connections /\ next.sent \in Nat /\ h \in Technicians
  BY <1>3, HolderAssumption DEF Commands
<1>5. home[next.by] = i /\ next.sent <= now
  BY <1>2 DEF OrderInv, QueuesInOrder
<1>. HIDE DEF next, h
<1>6. /\ \A t \in Technicians : t # h => cache'[t] = cache[t]
      /\ cache'[h].stamp = next.sent
  BY <1>1, <1>4 DEF TypeOK
<1>7. /\ \A t \in Technicians : /\ cache[t].stamp \in Nat
                                /\ lastLocationAt[t] \in Nat
      /\ \A k \in copies : k.stamp \in Nat
  BY DEF TypeOK, Copies
<1>8. OneHome(h) => cache[h].stamp <= next.sent
  BY <1>2, <1>4 DEF OrderInv, CacheBetween, h
<1>9. \A t \in Technicians : OneHome(t)' <=> OneHome(t)
  BY HomeStays
<1>10. \A j \in Instances : \A m \in Queued(j)' :
           m.by \in Connections /\ home[m.by] = j /\ m.sent \in Nat
  <2>1. \A j \in Instances : Queued(j) \subseteq Commands
    BY DEF Queued, TypeOK
  <2>. QED  BY <1>2, <2>1 DEF OrderInv, QueuesInOrder, Commands
<1>11. OneHome(h) => \A j \in Instances : \A m \in Queued(j)' :
           Holder[m.by] = h => next.sent <= m.sent
  <2>. SUFFICES ASSUME OneHome(h), NEW j \in Instances, NEW m \in Queued(j)',
                       Holder[m.by] = h
                PROVE  next.sent <= m.sent
    OBVIOUS
  <2>1. home[m.by] = home[next.by]
    BY <1>4, <1>10 DEF OneHome, h
  <2>2. j = i
    BY <1>5, <1>10, <2>1
  <2>. QED  BY <1>2, <2>2
<1>12. ASSUME NEW t \in Technicians, OneHome(t)
       PROVE  /\ cache[t].stamp <= cache'[t].stamp
              /\ cache'[t].stamp <= now
              /\ \A j \in Instances : \A m \in Queued(j)' :
                     Holder[m.by] = t => cache'[t].stamp <= m.sent
              /\ lastLocationAt[t] <= cache'[t].stamp
              /\ \A k \in copies : k.technician = t => k.stamp <= cache'[t].stamp
  <2>1. /\ cache[t].stamp <= now
        /\ \A j \in Instances : \A m \in Queued(j) :
               Holder[m.by] = t => cache[t].stamp <= m.sent
        /\ lastLocationAt[t] <= cache[t].stamp
        /\ \A k \in copies : k.technician = t => k.stamp <= cache[t].stamp
    BY <1>12 DEF OrderInv, CacheBetween
  <2>2. CASE t = h
    BY <1>4, <1>5, <1>6, <1>7, <1>8, <1>11, <1>12, <2>1, <2>2
  <2>3. CASE t # h
    BY <1>2, <1>6, <1>7, <2>1, <2>3
  <2>. QED  BY <2>2, <2>3
<1>13. CacheBetween'
  BY <1>1, <1>9, <1>12 DEF CacheBetween
<1>14. FreshIsNewest'
  BY <1>1, <1>9 DEF OrderInv, FreshIsNewest
<1>15. \A t \in Technicians : OneHome(t) => NeverOlder(t)
  <2>1. \A t \in Technicians : cache'[t].stamp \in Nat
    BY DEF TypeOK
  <2>. QED  BY <1>7, <1>12, <2>1 DEF NeverOlder
<1>. QED  BY <1>2, <1>13, <1>14, <1>15 DEF OrderInv

LEMMA WriteStep ==
    ASSUME TypeOK, TypeOK', OrderInv, [Next]_vars, NEW k \in copies, Write(k)
    PROVE  /\ OrderInv'
           /\ \A t \in Technicians : OneHome(t) => OlderOnlyOvertaken(t)
<1>. DEFINE h == k.technician
<1>1. /\ lastLocationAt' = [lastLocationAt EXCEPT ![h] = k.stamp]
      /\ copies' = Overtaken(k)
      /\ UNCHANGED <<now, home, toRedis, cache>>
  BY DEF Write
<1>2. h \in Technicians /\ k.stamp \in Nat
  BY DEF TypeOK, Copies
<1>3. /\ lastLocationAt'[h] = k.stamp
      /\ \A t \in Technicians : t # h => lastLocationAt'[t] = lastLocationAt[t]
  BY <1>1, <1>2 DEF TypeOK
<1>4. \A d \in copies' : \E e \in copies :
          /\ d.technician = e.technician
          /\ d.stamp = e.stamp
          /\ IF e.technician = h THEN d.overtaken ELSE d = e
  <2>. SUFFICES ASSUME NEW d \in copies'
                PROVE  \E e \in copies :
                           /\ d.technician = e.technician
                           /\ d.stamp = e.stamp
                           /\ IF e.technician = h THEN d.overtaken ELSE d = e
    OBVIOUS
  <2>1. PICK e \in copies : d = IF e.technician = h THEN [e EXCEPT !.overtaken = TRUE] ELSE e
    BY <1>1 DEF Overtaken
  <2>2. e \in Copies
    BY DEF TypeOK
  <2>. QED  BY <2>1, <2>2 DEF Copies
<1>5. \A t \in Technicians : OneHome(t)' <=> OneHome(t)
  BY HomeStays
<1>. HIDE DEF h
<1>6. QueuesInOrder'
  BY <1>1 DEF OrderInv, QueuesInOrder, Queued
<1>7. ASSUME NEW t \in Technicians, OneHome(t)
      PROVE  /\ lastLocationAt'[t] <= cache[t].stamp
             /\ \A d \in copies' : d.technician = t => d.stamp <= cache[t].stamp
             /\ \A d \in copies' :
                    d.technician = t /\ ~d.overtaken => lastLocationAt'[t] <= d.stamp
  <2>1. /\ lastLocationAt[t] <= cache[t].stamp
        /\ \A e \in copies : e.technician = t => e.stamp <= cache[t].stamp
        /\ \A e \in copies :
               e.technician = t /\ ~e.overtaken => lastLocationAt[t] <= e.stamp
    BY <1>7 DEF OrderInv, CacheBetween, FreshIsNewest
  <2>2. lastLocationAt'[t] <= cache[t].stamp
    BY <1>3, <2>1 DEF h
  <2>. QED  BY <1>3, <1>4, <2>1, <2>2
<1>8. CacheBetween'
  <2>1. \A i \in Instances : Queued(i)' = Queued(i)
    BY <1>1 DEF Queued
  <2>. QED  BY <1>1, <1>5, <1>7, <2>1 DEF OrderInv, CacheBetween
<1>9. FreshIsNewest'
  BY <1>5, <1>7 DEF FreshIsNewest
<1>10. ASSUME NEW t \in Technicians, OneHome(t)
       PROVE  OlderOnlyOvertaken(t)
  <2>. SUFFICES ASSUME lastLocationAt'[t] < lastLocationAt[t]
                PROVE  k.technician = t /\ k.overtaken /\ k.stamp = lastLocationAt'[t]
    BY DEF OlderOnlyOvertaken
  <2>1. lastLocationAt[t] \in Nat /\ lastLocationAt'[t] \in Nat
    BY DEF TypeOK
  <2>2. t = h
    BY <1>3, <2>1
  <2>3. k.stamp = lastLocationAt'[t] /\ k.technician = t
    BY <1>3, <2>2 DEF h
  <2>4. ~k.overtaken => lastLocationAt[t] <= k.stamp
    BY <1>10, <2>3 DEF OrderInv, FreshIsNewest
  <2>. QED  BY <2>1, <2>3, <2>4
<1>. QED  BY <1>6, <1>8, <1>9, <1>10 DEF OrderInv

LEMMA OrderStep ==
    ASSUME TypeOK, TypeOK', OrderInv, [Next]_vars
    PROVE  /\ OrderInv'
           /\ \A t \in Technicians : OneHome(t) => NeverOlder(t) /\ OlderOnlyOvertaken(t)
<1>. DEFINE Good == /\ OrderInv'
                    /\ \A t \in Technicians :
                           OneHome(t) => NeverOlder(t) /\ OlderOnlyOvertaken(t)
<1>1. /\ \A t \in Technicians : cache[t].stamp \in Nat /\ lastLocationAt[t] \in Nat
      /\ now \in Nat
  BY DEF TypeOK
<1>2. UNCHANGED cache => \A t \in Technicians : NeverOlder(t)
  BY <1>1 DEF NeverOlder
<1>3. UNCHANGED lastLocationAt => \A t \in Technicians : OlderOnlyOvertaken(t)
  BY <1>1 DEF OlderOnlyOvertaken
<1>4. ASSUME UNCHANGED <<cache, lastLocationAt>>, now' >= now, QueuesInOrder',
             \A i \in Instances : \A m \in Queued(i)' : m \in Queued(i) \/ m.sent = now,
             \A k \in copies' : k \in copies \/ k = CopyOf(k.writer, k.technician)
      PROVE  Good
  BY <1>2, <1>3, <1>4, QuietStep DEF OrderInv
<1>. HIDE DEF Good
<1>5. ASSUME UNCHANGED <<cache, lastLocationAt, copies, toRedis>>, now' >= now
      PROVE  Good
  <2>1. \A i \in Instances : Queued(i)' = Queued(i)
    BY <1>5 DEF Queued
  <2>2. \A i \in Instances : \A m \in Queued(i) : m.sent \in Nat
    <3>1. \A i \in Instances : toRedis[i] \in Seq(Commands)
      BY DEF TypeOK
    <3>2. \A i \in Instances : Queued(i) \subseteq Commands
      BY <3>1 DEF Queued
    <3>. QED  BY <3>2 DEF Commands
  <2>3. now' \in Nat /\ home' = home
    BY HomeStays DEF TypeOK
  <2>4. QueuesInOrder'
    BY <1>1, <1>5, <2>1, <2>2, <2>3 DEF OrderInv, QueuesInOrder
  <2>. QED  BY <1>4, <1>5, <2>1, <2>4
<1>6. ASSUME NEW c \in Connections, NEW kind \in {"set", "get"}, Sends(c, kind),
             UNCHANGED <<now, home, cache, lastLocationAt, copies>>
      PROVE  Good
  BY <1>1, <1>4, <1>6, SendKeepsOrder DEF OrderInv
<1>7. ASSUME Tick
      PROVE  Good
  <2>1. UNCHANGED <<cache, lastLocationAt, copies, toRedis>> /\ now' = now + 1
    BY <1>7 DEF Tick
  <2>2. now' >= now
    BY <1>1, <2>1
  <2>. QED  BY <1>5, <2>1, <2>2
<1>8. ASSUME NEW c \in Connections, Connect(c) \/ DropUpdate(c) \/ AcceptUpdate(c)
      PROVE  Good
  BY <1>1, <1>5, <1>8 DEF Connect, DropUpdate, AcceptUpdate
<1>9. ASSUME NEW c \in Connections, Disconnect(c)
      PROVE  Good
  BY <1>6, <1>9 DEF Disconnect
<1>10. ASSUME NEW u \in checking, Discard(u)
       PROVE  Good
  BY <1>1, <1>5, <1>10 DEF Discard
<1>11. ASSUME NEW u \in checking, Process(u)
       PROVE  Good
  <2>1. u.by \in Connections
    BY DEF TypeOK, Updates
  <2>. QED  BY <1>6, <1>11, <2>1 DEF Process
<1>12. ASSUME NEW i \in Instances, toRedis[i] # <<>>,
              toRedis' = [toRedis EXCEPT ![i] = Tail(@)],
              UNCHANGED <<now, home, cache, lastLocationAt>>,
              \A k \in copies' : k \in copies \/ k = CopyOf(k.writer, k.technician)
       PROVE  Good
  <2>1. QueuesInOrder' /\ \A j \in Instances : Queued(j)' \subseteq Queued(j)
    BY <1>12, TailKeepsOrder DEF OrderInv
  <2>. QED  BY <1>1, <1>4, <1>12, <2>1
<1>13. ASSUME NEW i \in Instances, FailCommand(i)
       PROVE  Good
  BY <1>12, <1>13 DEF FailCommand
<1>14. ASSUME NEW i \in Instances, RunCommand(i)
       PROVE  Good
  <2>. DEFINE next == Head(toRedis[i])
  <2>1. next \in Commands
    BY <1>14 DEF RunCommand, TypeOK
  <2>2. CASE next.kind = "set"
    <3>1. UNCHANGED lastLocationAt
      BY <1>14 DEF RunCommand
    <3>. QED  BY <1>3, <1>14, <2>2, <3>1, SetStep DEF Good
  <2>3. CASE next.kind = "get"
    <3>1. /\ toRedis[i] # <<>>
          /\ toRedis' = [toRedis EXCEPT ![i] = Tail(@)]
          /\ UNCHANGED <<now, home, cache, lastLocationAt>>
      BY <1>14, <2>3 DEF RunCommand
    <3>2. \A k \in copies' : k \in copies \/ k = CopyOf(next.by, Holder[next.by])
      BY <1>14, <2>3 DEF RunCommand
    <3>3. \A k \in copies' : k \in copies \/ k = CopyOf(k.writer, k.technician)
      BY <3>2 DEF CopyOf
    <3>. QED  BY <1>12, <3>1, <3>3
  <2>. QED  BY <2>1, <2>2, <2>3 DEF Commands
<1>15. ASSUME NEW i \in Instances, SyncRead(i)
       PROVE  Good
  <2>1. /\ UNCHANGED <<now, home, cache, lastLocationAt, toRedis>>
        /\ \A k \in copies' : k \in copies \/ \E t \in Technicians : k = CopyOf(i, t)
    BY <1>15 DEF SyncRead
  <2>2. \A k \in copies' : k \in copies \/ k = CopyOf(k.writer, k.technician)
    BY <2>1 DEF CopyOf
  <2>3. QueuesInOrder' /\ \A j \in Instances : Queued(j)' = Queued(j)
    BY <2>1 DEF OrderInv, QueuesInOrder, Queued
  <2>. QED  BY <1>1, <1>4, <2>1, <2>2, <2>3
<1>16. ASSUME NEW k \in copies, Write(k)
       PROVE  Good
  <2>1. UNCHANGED cache
    BY <1>16 DEF Write
  <2>. QED  BY <1>2, <1>16, <2>1, WriteStep DEF Good
<1>17. ASSUME NEW k \in copies, FailWrite(k)
       PROVE  Good
  <2>1. /\ UNCHANGED <<now, home, cache, lastLocationAt, toRedis>>
        /\ copies' \subseteq copies
    BY <1>17 DEF FailWrite
  <2>2. QueuesInOrder' /\ \A j \in Instances : Queued(j)' = Queued(j)
    BY <2>1 DEF OrderInv, QueuesInOrder, Queued
  <2>. QED  BY <1>1, <1>4, <2>1, <2>2
<1>18. ASSUME UNCHANGED vars
       PROVE  Good
  <2>1. UNCHANGED <<cache, lastLocationAt, copies, toRedis>> /\ now' = now
    BY <1>18 DEF vars
  <2>2. now' >= now
    BY <1>1, <2>1
  <2>. QED  BY <1>5, <2>1, <2>2
<1>19. ASSUME \E c \in Connections :
                  Connect(c) \/ Disconnect(c) \/ DropUpdate(c) \/ AcceptUpdate(c)
       PROVE  Good
  BY <1>8, <1>9, <1>19
<1>20. ASSUME \E u \in checking : Discard(u) \/ Process(u)
       PROVE  Good
  BY <1>10, <1>11, <1>20
<1>21. ASSUME \E i \in Instances : RunCommand(i) \/ FailCommand(i) \/ SyncRead(i)
       PROVE  Good
  BY <1>13, <1>14, <1>15, <1>21
<1>22. ASSUME \E k \in copies : Write(k) \/ FailWrite(k)
       PROVE  Good
  BY <1>16, <1>17, <1>22
<1>23. Good
  BY <1>7, <1>18, <1>19, <1>20, <1>21, <1>22 DEF Next
<1>. QED  BY <1>23 DEF Good

\* For any technicians, connections and processes: while a technician's
\* connections are at one process the cached position never goes back, and the
\* last known position only to one that was overtaken by another write.
THEOREM PositionsGoBackOnlyOvertaken == Spec => StepsBackHaveCause
<1>1. Init => OrderInv
  <2>. SUFFICES ASSUME Init
                PROVE  OrderInv
    OBVIOUS
  <2>1. \A i \in Instances : toRedis[i] = <<>> /\ Queued(i) = {}
    BY DEF Init, Queued
  <2>2. QueuesInOrder
    BY <2>1 DEF QueuesInOrder
  <2>3. CacheBetween
    BY <2>1, TimeAssumption DEF Init, CacheBetween
  <2>. QED  BY <2>2, <2>3 DEF Init, OrderInv, FreshIsNewest
<1>2. TypeOK /\ TypeOK' /\ OrderInv /\ [Next]_vars =>
          [\A t \in Technicians :
               OneHome(t) => NeverOlder(t) /\ OlderOnlyOvertaken(t)]_vars
  BY OrderStep
<1>3. TypeOK /\ TypeOK' /\ OrderInv /\ [Next]_vars => OrderInv'
  BY OrderStep
<1>. QED  BY <1>1, <1>2, <1>3, TypeCorrect, PTL DEF Spec, StepsBackHaveCause
=============================================================================
