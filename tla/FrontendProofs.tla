--------------------------- MODULE FrontendProofs ---------------------------
(***************************************************************************)
(* What the parts of the browser keep, for any number of people, requests, *)
(* submissions and calls.                                                  *)
(***************************************************************************)
EXTENDS MCFrontend, TLAPS

-----------------------------------------------------------------------------
(***************************************************************************)
(* Client.  As long as nothing crossed, whatever is under way is of the    *)
(* person signed in, or of the one a refused refresh has just signed out.  *)
(***************************************************************************)
RenewalAwaited ==
    /\ renewal # Cli!Nobody => \E r \in Requests : call[r].phase = "awaiting"
    /\ \A r \in Requests : call[r].phase \in {"new", "awaiting"} => call[r].header = Cli!Nobody

RequestsAreTheirs ==
    \A r \in Requests :
        /\ call[r].phase \in {"awaiting", "sent", "renewing"} =>
             call[r].by = store.user \/ store.user = Cli!Nobody
        /\ call[r].phase = "renewing" =>
             call[r].renewed \subseteq store.user /\ call[r].renewed # Cli!Nobody

ClientInv ==
    /\ Cli!TypeOK /\ RenewalAwaited
    /\ ~crossed => /\ Cli!StoreIsOnePersons /\ Cli!SentAsOneself /\ RequestsAreTheirs
                   /\ renewal \subseteq store.user

\* Nobody is signed in and nothing is out.
LEMMA ClientInit == Cli!Init => ClientInv
<1> SUFFICES ASSUME Cli!Init PROVE ClientInv
  OBVIOUS
<1>1. Cli!TypeOK
  BY DEF Cli!Init, Cli!SignedOut, Cli!Nobody, Cli!Whose, Cli!Phases, Cli!TypeOK
<1>2. RenewalAwaited
  BY DEF Cli!Init, RenewalAwaited
<1>3. Cli!StoreIsOnePersons /\ Cli!SentAsOneself /\ RequestsAreTheirs /\ renewal \subseteq store.user
  BY DEF Cli!Init, Cli!SignedOut, Cli!Nobody, Cli!StoreIsOnePersons, Cli!SentAsOneself, RequestsAreTheirs
<1> QED
  BY <1>1, <1>2, <1>3 DEF ClientInv

\* Every step of the user, the interceptors and the network keeps the invariant.
LEMMA ClientStep == ClientInv /\ [Cli!Next]_Cli!vars => ClientInv'
<1> SUFFICES ASSUME ClientInv, [Cli!Next]_Cli!vars PROVE ClientInv'
  OBVIOUS
<1> USE DEF ClientInv, Cli!TypeOK, Cli!Whose, Cli!Phases, Cli!Nobody, Cli!StoreIsOnePersons,
            Cli!SentAsOneself, RenewalAwaited, RequestsAreTheirs
<1>1. ASSUME NEW p \in People, NEW refresh \in Cli!Whose, refresh \subseteq {p}, Cli!Login(p, refresh)
      PROVE  ClientInv'
  <2>1. store' = [access |-> {p}, expired |-> FALSE, refresh |-> refresh, user |-> {p}]
        /\ UNCHANGED <<renewal, call>>
    BY <1>1 DEF Cli!Login, Cli!LoggedIn
  <2>2. ~crossed' => ~crossed /\ \A r \in Requests : call[r].phase \notin {"awaiting", "sent", "renewing"}
    BY <1>1 DEF Cli!Login, Cli!Out
  <2>3. crossed' \in BOOLEAN
    BY <1>1 DEF Cli!Login
  <2> QED
    BY <1>1, <2>1, <2>2, <2>3
<1>2. CASE Cli!Logout
  <2>1. store' = Cli!SignedOut /\ UNCHANGED <<renewal, call>>
    BY <1>2 DEF Cli!Logout
  <2>2. ~crossed' => ~crossed /\ \A r \in Requests : call[r].phase \notin {"awaiting", "sent", "renewing"}
    BY <1>2 DEF Cli!Logout, Cli!Out
  <2>3. crossed' \in BOOLEAN
    BY <1>2 DEF Cli!Logout
  <2> QED
    BY <2>1, <2>2, <2>3 DEF Cli!SignedOut
<1>3. CASE Cli!AccessExpires
  BY <1>3 DEF Cli!AccessExpires
<1>4. ASSUME NEW r \in Requests, Cli!Issue(r) PROVE ClientInv'
  <2>1. call[r].phase = "new" /\ UNCHANGED <<store, crossed>>
    BY <1>4 DEF Cli!Issue
  <2>2. CASE Cli!MustRenew
    <3>1. /\ renewal' = IF renewal = {} THEN store.refresh ELSE renewal
          /\ call' = [call EXCEPT ![r].phase = "awaiting", ![r].by = store.user]
      BY <1>4, <2>2 DEF Cli!Issue
    <3>2. Cli!TypeOK'
      BY <2>1, <3>1
    <3>3. RenewalAwaited'
      BY <2>1, <3>1
    <3>4. ~crossed' => RequestsAreTheirs' /\ Cli!SentAsOneself'
      BY <2>1, <3>1
    <3>5. ~crossed' => Cli!StoreIsOnePersons' /\ renewal' \subseteq store'.user
      BY <2>1, <3>1
    <3> QED
      BY <3>2, <3>3, <3>4, <3>5
  <2>3. CASE ~Cli!MustRenew
    <3>1. /\ UNCHANGED renewal
          /\ call' = [call EXCEPT ![r].phase = "sent", ![r].by = store.user, ![r].header = store.access]
      BY <1>4, <2>3 DEF Cli!Issue
    <3>2. Cli!TypeOK'
      <4> HIDE DEF Cli!Whose
      <4>1. store.user \in Cli!Whose /\ store.access \in Cli!Whose
            /\ call[r] \in [phase : Cli!Phases, by : Cli!Whose, header : Cli!Whose, renewed : Cli!Whose,
                            retried : BOOLEAN]
        OBVIOUS
      <4>2. [call[r] EXCEPT !.phase = "sent", !.by = store.user, !.header = store.access]
               \in [phase : Cli!Phases, by : Cli!Whose, header : Cli!Whose, renewed : Cli!Whose,
                    retried : BOOLEAN]
        BY <4>1
      <4> USE DEF Cli!Whose
      <4>3. call' = [call EXCEPT ![r] =
                       [call[r] EXCEPT !.phase = "sent", !.by = store.user, !.header = store.access]]
        BY <3>1
      <4> QED
        BY <2>1, <3>1, <4>2, <4>3
    <3>3. RenewalAwaited'
      BY <2>1, <3>1
    <3>4. ~crossed' => RequestsAreTheirs'
      BY <2>1, <3>1
    <3>5. ~crossed' => Cli!SentAsOneself'
      BY <2>1, <3>1
    <3>6. ~crossed' => Cli!StoreIsOnePersons' /\ renewal' \subseteq store'.user
      BY <2>1, <3>1
    <3> QED
      BY <3>2, <3>3, <3>4, <3>5, <3>6
  <2> QED
    BY <2>2, <2>3
<1>5. CASE Cli!Renewed
  <2>1. renewal # {} /\ renewal' = {} /\ UNCHANGED crossed
        /\ store' = [store EXCEPT !.access = renewal, !.expired = FALSE, !.refresh = renewal]
    BY <1>5 DEF Cli!Renewed, Cli!WithTokens
  <2>2. \A r \in Requests :
           call'[r] = IF call[r].phase = "awaiting"
                      THEN [call[r] EXCEPT !.phase = "sent", !.header = renewal] ELSE call[r]
    BY <1>5 DEF Cli!Renewed
  <2>3. Cli!TypeOK'
    <3>1. store' \in [access : Cli!Whose, expired : BOOLEAN, refresh : Cli!Whose, user : Cli!Whose]
      BY <2>1
    <3>2. ASSUME NEW r \in Requests
          PROVE  call'[r] \in [phase : Cli!Phases, by : Cli!Whose, header : Cli!Whose,
                               renewed : Cli!Whose, retried : BOOLEAN]
      <4>1. CASE call[r].phase = "awaiting"
        BY <2>1, <2>2, <4>1
      <4>2. CASE call[r].phase # "awaiting"
        BY <2>2, <4>2
      <4> QED
        BY <4>1, <4>2
    <3>3. call' = [r \in Requests |-> call'[r]]
      BY <1>5 DEF Cli!Renewed
    <3>4. renewal' \in Cli!Whose /\ crossed' \in BOOLEAN
      BY <2>1
    <3> QED
      BY <3>1, <3>2, <3>3, <3>4
  <2>4. RenewalAwaited'
    <3>1. ASSUME NEW r \in Requests, call'[r].phase \in {"new", "awaiting"} PROVE call'[r] = call[r]
      BY <2>2, <3>1
    <3> QED
      BY <2>1, <3>1
  <2>5. /\ store'.access = renewal /\ store'.refresh = renewal /\ store'.user = store.user
    BY <2>1
  <2>6. ASSUME ~crossed' PROVE Cli!StoreIsOnePersons' /\ renewal' \subseteq store'.user
    BY <2>1, <2>5, <2>6
  <2>7. ASSUME ~crossed', NEW r \in Requests PROVE call'[r].phase = "sent" => call'[r].header \subseteq call'[r].by
    <3>1. call[r].phase = "awaiting" => call[r].by = store.user
      BY <2>1, <2>7
    <3> QED
      BY <2>1, <2>2, <2>7, <3>1
  <2>8. ASSUME ~crossed' PROVE RequestsAreTheirs'
    <3>1. ASSUME NEW r \in Requests
          PROVE  /\ call'[r].by = call[r].by /\ call'[r].renewed = call[r].renewed
                 /\ call'[r].phase = "renewing" => call[r].phase = "renewing"
                 /\ call'[r].phase \in {"awaiting", "sent", "renewing"} =>
                      call[r].phase \in {"awaiting", "sent", "renewing"}
      BY <2>2
    <3> QED
      BY <2>1, <2>5, <2>8, <3>1
  <2> QED
    BY <2>3, <2>4, <2>6, <2>7, <2>8
<1>6. CASE Cli!RenewalRefused
  <2>1. renewal' = {} /\ store' = Cli!SignedOut /\ (~crossed' => ~crossed) /\ crossed' \in BOOLEAN
    BY <1>6 DEF Cli!RenewalRefused
  <2>2. ~crossed' => \A r \in Requests : call[r].phase # "renewing"
    BY <1>6 DEF Cli!RenewalRefused, Cli!Renewing
  <2>3. \A r \in Requests :
           call'[r] = IF call[r].phase = "awaiting" THEN [call[r] EXCEPT !.phase = "sent"] ELSE call[r]
    BY <1>6 DEF Cli!RenewalRefused
  <2>4. Cli!TypeOK'
    <3>1. store' \in [access : Cli!Whose, expired : BOOLEAN, refresh : Cli!Whose, user : Cli!Whose]
      BY <2>1 DEF Cli!SignedOut
    <3>2. ASSUME NEW r \in Requests
          PROVE  call'[r] \in [phase : Cli!Phases, by : Cli!Whose, header : Cli!Whose,
                               renewed : Cli!Whose, retried : BOOLEAN]
      <4>1. CASE call[r].phase = "awaiting"
        BY <2>3, <4>1
      <4>2. CASE call[r].phase # "awaiting"
        BY <2>3, <4>2
      <4> QED
        BY <4>1, <4>2
    <3>3. call' = [r \in Requests |-> call'[r]]
      BY <1>6 DEF Cli!RenewalRefused
    <3> QED
      BY <2>1, <3>1, <3>2, <3>3
  <2> QED
    BY <2>1, <2>2, <2>3, <2>4 DEF Cli!SignedOut
<1>7. ASSUME NEW r \in Requests, Cli!Answered(r) PROVE ClientInv'
  BY <1>7 DEF Cli!Answered, Cli!Settle
<1>8. ASSUME NEW r \in Requests, Cli!Unauthorized(r) PROVE ClientInv'
  <2>1. call[r].phase = "sent" /\ UNCHANGED <<store, renewal, crossed>>
    BY <1>8 DEF Cli!Unauthorized
  <2>2. CASE /\ Cli!MayRetry(r)
             /\ call' = [call EXCEPT ![r].phase = "renewing", ![r].retried = TRUE, ![r].renewed = store.refresh]
    BY <2>1, <2>2 DEF Cli!MayRetry
  <2>3. CASE call' = [call EXCEPT ![r].phase = "done", ![r].retried = TRUE]
    BY <2>1, <2>3
  <2> QED
    BY <1>8, <2>2, <2>3 DEF Cli!Unauthorized
<1>9. ASSUME NEW r \in Requests, Cli!RenewedAlone(r) PROVE ClientInv'
  <2>1. /\ call[r].phase = "renewing" /\ UNCHANGED <<renewal, crossed>>
        /\ store' = [store EXCEPT !.access = call[r].renewed, !.expired = FALSE, !.refresh = call[r].renewed]
        /\ call' = [call EXCEPT ![r].phase = "sent", ![r].header = call[r].renewed]
    BY <1>9 DEF Cli!RenewedAlone, Cli!WithTokens
  <2>2. Cli!TypeOK'
    BY <2>1
  <2>3. RenewalAwaited'
    BY <2>1
  <2>4. store'.access = call[r].renewed /\ store'.refresh = call[r].renewed /\ store'.user = store.user
    BY <2>1
  <2>5. ASSUME ~crossed' PROVE Cli!StoreIsOnePersons' /\ renewal' \subseteq store'.user
    BY <2>1, <2>4, <2>5
  <2>6. ASSUME ~crossed' PROVE RequestsAreTheirs'
    BY <2>1, <2>4, <2>6
  <2>7. ASSUME ~crossed' PROVE Cli!SentAsOneself'
    <3>1. call[r].by = store.user
      BY <2>1, <2>7
    <3> QED
      BY <2>1, <2>7, <3>1
  <2> QED
    BY <2>2, <2>3, <2>5, <2>6, <2>7
<1>10. ASSUME NEW r \in Requests, Cli!RefusedAlone(r) PROVE ClientInv'
  <2>1. /\ store' = Cli!SignedOut /\ call' = [call EXCEPT ![r].phase = "done"] /\ UNCHANGED renewal
        /\ call[r].phase = "renewing"
    BY <1>10 DEF Cli!RefusedAlone
  <2>2. crossed' \in BOOLEAN
    BY <1>10 DEF Cli!RefusedAlone
  <2>3. ~crossed' => ~crossed /\ renewal = {} /\ \A q \in Requests \ {r} : call[q].phase # "renewing"
    BY <1>10 DEF Cli!RefusedAlone, Cli!Renewing
  <2> QED
    BY <2>1, <2>2, <2>3 DEF Cli!SignedOut
<1>11. CASE UNCHANGED Cli!vars
  BY <1>11 DEF Cli!vars
<1> QED
  BY <1>1, <1>2, <1>3, <1>4, <1>5, <1>6, <1>7, <1>8, <1>9, <1>10, <1>11 DEF Cli!Next, Cli!Network

\* The store is of one person and requests go out as that person, unless a
\* session began or ended under a request (client.ts).
THEOREM StoreIsOfOnePerson == Cli!Spec => []OnePersonUnlessCrossed
<1>1. ClientInv => OnePersonUnlessCrossed
  BY DEF ClientInv, OnePersonUnlessCrossed, Cli!OnePersonUnlessCrossed
<1> QED
  BY ClientInit, ClientStep, <1>1, PTL DEF Cli!Spec

-----------------------------------------------------------------------------
(***************************************************************************)
(* OrderForm.  The openings grow with the submissions, and of two that     *)
(* run on one page at a time the later one's opening is troubled.          *)
(***************************************************************************)
Alive(s) == sub[s].phase \in Frm!Running

FormTypes ==
    /\ opened \in Nat /\ shown \in {0, opened}
    /\ sub \in [Frm!Submissions -> [phase : Frm!Phases, opening : Nat,
                                    device : Serials \cup {Frm!Picked}, here : BOOLEAN]]
    /\ \A s \in Frm!Submissions :
         /\ sub[s].phase = "new" => sub[s].opening = 0 /\ s \notin customers /\ s \notin orders
         /\ sub[s].phase # "new" => sub[s].opening \in 1..opened
    /\ latest \subseteq Frm!Submissions /\ customers \subseteq Frm!Submissions
    /\ orders \subseteq Frm!Submissions
    /\ \A s \in orders : sub[s].phase \in {"made", "ordered", "stopped"}
    /\ \A s \in Frm!Submissions : sub[s].phase = "made" => s \in orders

InOrder ==
    \A s, t \in Frm!Submissions : s < t /\ sub[t].phase # "new" =>
        sub[s].phase # "new" /\ sub[s].opening <= sub[t].opening

RunnersHere == \A s \in Frm!Submissions : Alive(s) /\ sub[s].opening = shown => sub[s].here

OverlapsTroubled ==
    \A s, t \in Frm!Submissions :
        s < t /\ Alive(s) /\ Alive(t) /\ sub[s].here /\ sub[t].here => sub[t].opening \in troubled

OneEach ==
    \A s, t \in Frm!Submissions :
        s # t /\ (Alive(s) \/ s \in orders) /\ (Alive(t) \/ t \in orders)
        /\ sub[s].opening = sub[t].opening => sub[s].opening \in troubled

OrdersWatched ==
    \A s \in Frm!Submissions :
        sub[s].phase \in {"order", "made"} /\ sub[s].here /\ sub[s].opening = shown
        /\ s \notin latest => shown \in troubled

ClosedOnceOrdered ==
    \A s \in orders : sub[s].opening = shown /\ sub[s].phase # "made" => shown \in troubled

LeftoversGoOn == \A s \in customers \ orders : sub[s].phase \in {"device", "order", "stopped"}

FormInv ==
    /\ FormTypes /\ InOrder /\ RunnersHere /\ OverlapsTroubled /\ OneEach /\ OrdersWatched
    /\ ClosedOnceOrdered /\ LeftoversGoOn

\* The form was never opened.
LEMMA FormInit == Frm!Init => FormInv
<1> SUFFICES ASSUME Frm!Init PROVE FormInv
  OBVIOUS
<1> USE DEF Frm!Init, Frm!NoSubmission, Frm!Asked, Frm!Running, Frm!Phases, Frm!Submissions, Frm!Picked
<1>1. FormTypes
  BY DEF FormTypes
<1>2. \A s \in Frm!Submissions : sub[s].phase = "new" /\ ~Alive(s)
  BY DEF Alive
<1>3. InOrder /\ RunnersHere /\ OverlapsTroubled /\ OneEach /\ OrdersWatched
  BY <1>2 DEF InOrder, RunnersHere, OverlapsTroubled, OneEach, OrdersWatched
<1>4. ClosedOnceOrdered /\ LeftoversGoOn
  BY DEF ClosedOnceOrdered, LeftoversGoOn
<1> QED
  BY <1>1, <1>3, <1>4 DEF FormInv

\* An answer, or a failure, takes a submission that runs one step further.
LEMMA FormMove ==
    ASSUME FormInv, NEW s \in Frm!Submissions, NEW phase \in Frm!Phases \ {"new", "customer"},
           Alive(s), Frm!To(s, phase), opened' = opened, shown' \in {0, shown},
           troubled \subseteq troubled',
           customers \subseteq customers', customers' \subseteq customers \cup {s},
           orders \subseteq orders', orders' \subseteq orders \cup {s},
           s \in orders' => /\ phase \in {"made", "ordered", "stopped"}
                            /\ sub[s].opening = shown' /\ phase # "made" => shown' \in troubled',
           phase \in {"made", "ordered"} => s \in orders',
           phase = "made" => sub[s].phase = "order"
    PROVE  FormInv'
<1> USE DEF FormInv, FormTypes, Frm!Phases, Frm!Running, Frm!Asked
<1>1. sub[s].phase # "new" /\ sub[s].opening \in 1..opened
  BY DEF Alive
<1>2. \A t \in Frm!Submissions \ {s} : sub'[t] = sub[t]
  BY DEF Frm!To
<1>3. /\ sub'[s].phase = phase /\ sub'[s].opening = sub[s].opening
      /\ sub'[s].here => sub[s].here
      /\ phase \in Frm!Running => sub'[s].here = sub[s].here
  <2>1. CASE phase \in Frm!Running
    BY <2>1 DEF Frm!To
  <2>2. CASE phase \notin Frm!Running
    BY <2>2 DEF Frm!To, Frm!NoSubmission
  <2> QED
    BY <2>1, <2>2
<1>4. latest' = IF phase = "order" /\ sub[s].here THEN {s} ELSE latest
  BY <1>3 DEF Frm!To, Frm!Watched
<1>5. \A t \in Frm!Submissions : /\ sub'[t].opening = sub[t].opening
                                 /\ Alive(t)' => Alive(t)
                                 /\ Alive(t)' => sub'[t].here = sub[t].here
                                 /\ sub'[t].phase = "new" <=> sub[t].phase = "new"
  BY <1>1, <1>2, <1>3 DEF Alive
<1>6. FormTypes'
  <2>1. sub' \in [Frm!Submissions -> [phase : Frm!Phases, opening : Nat,
                                      device : Serials \cup {Frm!Picked}, here : BOOLEAN]]
    <3>1. CASE phase \in Frm!Running
      BY <3>1 DEF Frm!To
    <3>2. CASE phase \notin Frm!Running
      BY <3>2 DEF Frm!To, Frm!NoSubmission
    <3> QED
      BY <3>1, <3>2
  <2>2. \A t \in Frm!Submissions :
           /\ sub'[t].phase = "new" => sub'[t].opening = 0 /\ t \notin customers' /\ t \notin orders'
           /\ sub'[t].phase # "new" => sub'[t].opening \in 1..opened'
    BY <1>1, <1>3, <1>5
  <2>3. \A t \in orders' : sub'[t].phase \in {"made", "ordered", "stopped"}
    BY <1>1, <1>2, <1>3
  <2>6. \A t \in Frm!Submissions : sub'[t].phase = "made" => t \in orders'
    BY <1>2, <1>3
  <2>4. shown' \in {0, opened'} /\ opened' \in Nat
    OBVIOUS
  <2>5. latest' \subseteq Frm!Submissions /\ customers' \subseteq Frm!Submissions
        /\ orders' \subseteq Frm!Submissions
    BY <1>4
  <2> QED
    BY <2>1, <2>2, <2>3, <2>4, <2>5, <2>6
<1>7. InOrder'
  BY <1>5 DEF InOrder
<1>8. RunnersHere'
  <2>1. ASSUME NEW t \in Frm!Submissions, Alive(t)', sub'[t].opening = shown' PROVE sub'[t].here
    <3>1. Alive(t) /\ sub[t].opening = shown' /\ sub[t].opening # 0
      BY <1>5, <2>1 DEF Alive
    <3> QED
      BY <1>5, <2>1, <3>1 DEF RunnersHere
  <2> QED
    BY <2>1 DEF RunnersHere
<1>9. OverlapsTroubled'
  BY <1>5 DEF OverlapsTroubled
<1>10. OneEach'
  <2>1. \A t \in Frm!Submissions : Alive(t)' \/ t \in orders' => Alive(t) \/ t \in orders
    BY <1>5
  <2> QED
    BY <1>5, <2>1 DEF OneEach
<1>11. OrdersWatched'
  <2> SUFFICES ASSUME NEW t \in Frm!Submissions, sub'[t].phase \in {"order", "made"}, sub'[t].here,
                      sub'[t].opening = shown', t \notin latest'
               PROVE  shown' \in troubled'
    BY DEF OrdersWatched
  <2>1. sub[t].phase \in {"order", "made"} /\ sub[t].here /\ sub[t].opening = shown' /\ Alive(t)
    <3>1. CASE t = s
      BY <1>3, <1>4, <3>1 DEF Alive
    <3>2. CASE t # s
      BY <1>2, <3>2 DEF Alive
    <3> QED
      BY <3>1, <3>2
  <2>2. t \in latest => t # s /\ phase = "order"
    BY <1>4
  <2>3. shown' = shown /\ shown = opened
    BY <2>1, <1>1
  <2>4. CASE t \notin latest
    BY <2>1, <2>3, <2>4 DEF OrdersWatched
  <2>5. CASE t \in latest
    <3>1. sub[s].here
      BY <1>4, <2>5
    <3>2. CASE s < t
      BY <2>1, <2>3, <3>1, <3>2 DEF OverlapsTroubled
    <3>3. CASE t < s
      <4>1. sub[s].opening \in troubled
        BY <2>1, <3>1, <3>3 DEF OverlapsTroubled
      <4>2. sub[t].opening <= sub[s].opening /\ sub[s].opening <= opened
        BY <1>1, <3>3 DEF InOrder
      <4> QED
        BY <1>1, <2>1, <2>3, <4>1, <4>2
    <3> QED
      BY <2>2, <2>5, <3>2, <3>3 DEF Frm!Submissions
  <2> QED
    BY <2>4, <2>5
<1>12. ClosedOnceOrdered'
  <2>1. ASSUME NEW t \in orders', sub'[t].opening = shown', sub'[t].phase # "made"
        PROVE  shown' \in troubled'
    <3>1. CASE t = s
      BY <1>3, <2>1, <3>1
    <3>2. CASE t # s
      <4>1. t \in orders /\ sub[t].opening = shown' /\ shown' # 0 /\ sub[t].phase # "made"
        BY <1>2, <1>5, <2>1, <3>2
      <4> QED
        BY <4>1 DEF ClosedOnceOrdered
    <3> QED
      BY <3>1, <3>2
  <2> QED
    BY <2>1 DEF ClosedOnceOrdered
<1>13. LeftoversGoOn'
  BY <1>2, <1>3 DEF LeftoversGoOn
<1> QED
  BY <1>6, <1>7, <1>8, <1>9, <1>10, <1>11, <1>12, <1>13

\* A click on the button.
LEMMA FormSubmit ==
    ASSUME FormInv, NEW s \in Frm!Submissions, Frm!Submit(s)
    PROVE  FormInv'
<1> USE DEF FormInv, FormTypes, Frm!Phases, Frm!Running, Frm!Asked
<1>1. PICK device \in Serials \cup {Frm!Picked}, first \in Frm!Asked :
         /\ sub' = [sub EXCEPT ![s] = [phase |-> first, opening |-> shown, device |-> device, here |-> TRUE]]
         /\ latest' = Frm!Watched(s, first)
  BY DEF Frm!Submit
<1>2. /\ shown # 0 /\ shown = opened /\ UNCHANGED <<opened, shown, customers, registered, orders>>
      /\ \A t \in Frm!Submissions : sub[t].phase = "new" <=> s <= t
  BY DEF Frm!Submit
<1>3. /\ sub'[s].phase = first /\ sub'[s].opening = shown /\ sub'[s].here
      /\ \A t \in Frm!Submissions \ {s} : sub'[t] = sub[t]
  BY <1>1
<1>4. sub[s].phase = "new" /\ s \notin customers /\ s \notin orders
  BY <1>2 DEF Frm!Submissions
<1>5. troubled \subseteq troubled'
      /\ \A t \in Frm!Submissions : Alive(t) /\ sub[t].here => shown \in troubled'
  BY DEF Frm!Submit, Frm!UnderWay, Alive
<1>6. \A t \in Frm!Submissions \ {s} : Alive(t)' <=> Alive(t)
  BY <1>3 DEF Alive
<1>7. FormTypes'
  <2>1. sub' \in [Frm!Submissions -> [phase : Frm!Phases, opening : Nat,
                                      device : Serials \cup {Frm!Picked}, here : BOOLEAN]]
    BY <1>1
  <2>2. latest' \subseteq Frm!Submissions
    BY <1>1 DEF Frm!Watched
  <2> QED
    BY <1>2, <1>3, <1>4, <2>1, <2>2
<1>8. InOrder'
  <2> SUFFICES ASSUME NEW t \in Frm!Submissions, NEW u \in Frm!Submissions, t < u, sub'[u].phase # "new"
               PROVE  sub'[t].phase # "new" /\ sub'[t].opening <= sub'[u].opening
    BY DEF InOrder
  <2>1. CASE u = s
    <3>1. sub[t].phase # "new" /\ t # s
      BY <1>2, <2>1 DEF Frm!Submissions
    <3> QED
      BY <1>2, <1>3, <2>1, <3>1
  <2>2. CASE u # s
    <3>1. sub[u].phase # "new" /\ sub'[u] = sub[u]
      BY <1>3, <2>2
    <3>2. sub[t].phase # "new" /\ sub[t].opening <= sub[u].opening
      BY <3>1 DEF InOrder
    <3>3. t # s
      BY <1>4, <3>2
    <3> QED
      BY <1>3, <3>1, <3>2, <3>3
  <2> QED
    BY <2>1, <2>2
<1>9. RunnersHere'
  BY <1>2, <1>3, <1>6 DEF RunnersHere
<1>10. OverlapsTroubled'
  <2> SUFFICES ASSUME NEW t \in Frm!Submissions, NEW u \in Frm!Submissions, t < u,
                      Alive(t)', Alive(u)', sub'[t].here, sub'[u].here
               PROVE  sub'[u].opening \in troubled'
    BY DEF OverlapsTroubled
  <2>1. CASE u = s
    <3>1. t # s
      BY <2>1 DEF Frm!Submissions
    <3> QED
      BY <1>3, <1>5, <1>6, <2>1, <3>1
  <2>2. CASE u # s /\ t # s
    BY <1>3, <1>5, <1>6, <2>2 DEF OverlapsTroubled
  <2>3. CASE t = s /\ u # s
    <3>1. sub[u].phase # "new"
      BY <1>6, <2>3 DEF Alive
    <3> QED
      BY <1>4, <2>3, <3>1 DEF InOrder
  <2> QED
    BY <2>1, <2>2, <2>3
<1>11. OneEach'
  <2>1. ASSUME NEW t \in Frm!Submissions \ {s}, Alive(t) \/ t \in orders, sub[t].opening = shown
        PROVE  shown \in troubled'
    <3>1. CASE Alive(t)
      BY <1>5, <2>1, <3>1 DEF RunnersHere
    <3>2. CASE t \in orders
      BY <1>5, <2>1, <3>2 DEF ClosedOnceOrdered, RunnersHere, Alive
    <3> QED
      BY <2>1, <3>1, <3>2
  <2> SUFFICES ASSUME NEW t \in Frm!Submissions, NEW u \in Frm!Submissions, t # u,
                      Alive(t)' \/ t \in orders', Alive(u)' \/ u \in orders',
                      sub'[t].opening = sub'[u].opening
               PROVE  sub'[t].opening \in troubled'
    BY DEF OneEach
  <2>2. CASE t = s
    BY <1>2, <1>3, <1>6, <2>1, <2>2
  <2>3. CASE u = s
    BY <1>2, <1>3, <1>6, <2>1, <2>3
  <2>4. CASE t # s /\ u # s
    BY <1>2, <1>3, <1>5, <1>6, <2>4 DEF OneEach
  <2> QED
    BY <2>2, <2>3, <2>4
<1>12. OrdersWatched'
  <2> SUFFICES ASSUME NEW t \in Frm!Submissions, sub'[t].phase \in {"order", "made"}, sub'[t].here,
                      sub'[t].opening = shown', t \notin latest'
               PROVE  shown' \in troubled'
    BY DEF OrdersWatched
  <2>1. latest' = IF first = "order" THEN {s} ELSE latest
    BY <1>1, <1>3 DEF Frm!Watched
  <2>2. t # s
    BY <1>3, <2>1
  <2>3. Alive(t) /\ sub[t].here
    BY <1>3, <2>2 DEF Alive
  <2> QED
    BY <1>2, <1>5, <2>3
<1>13. ClosedOnceOrdered'
  <2>1. ASSUME NEW t \in orders, sub'[t].opening = shown, sub'[t].phase # "made"
        PROVE  shown \in troubled'
    <3>1. sub[t].opening = shown /\ sub[t].phase # "made"
      BY <1>3, <1>4, <2>1
    <3> QED
      BY <1>5, <2>1, <3>1 DEF ClosedOnceOrdered
  <2> QED
    BY <1>2, <2>1 DEF ClosedOnceOrdered
<1>14. LeftoversGoOn'
  BY <1>2, <1>3, <1>4 DEF LeftoversGoOn
<1> QED
  BY <1>7, <1>8, <1>9, <1>10, <1>11, <1>12, <1>13, <1>14

\* The form is opened or closed, or the page left.
LEMMA FormPage ==
    ASSUME FormInv, Frm!OpenForm \/ Frm!CloseForm \/ Frm!LeavePage
    PROVE  FormInv'
<1> USE DEF FormInv, FormTypes, Frm!Phases, Frm!Running, Frm!Asked
<1>1. CASE Frm!OpenForm
  <2>1. /\ opened' = opened + 1 /\ shown' = opened + 1
        /\ UNCHANGED <<sub, latest, customers, orders, troubled>>
    BY <1>1 DEF Frm!OpenForm
  <2>2. \A s \in Frm!Submissions : sub[s].opening # shown'
    BY <2>1
  <2>3. FormTypes'
    BY <2>1
  <2>4. InOrder' /\ OverlapsTroubled' /\ OneEach' /\ LeftoversGoOn'
    BY <2>1 DEF InOrder, OverlapsTroubled, OneEach, LeftoversGoOn, Alive
  <2>5. RunnersHere' /\ OrdersWatched' /\ ClosedOnceOrdered'
    BY <2>1, <2>2 DEF RunnersHere, OrdersWatched, ClosedOnceOrdered
  <2> QED
    BY <2>3, <2>4, <2>5
<1>2. CASE Frm!CloseForm
  <2>1. shown' = 0 /\ UNCHANGED <<opened, sub, latest, customers, orders, troubled>>
    BY <1>2 DEF Frm!CloseForm
  <2>2. \A s \in Frm!Submissions : sub[s].phase # "new" => sub[s].opening # shown'
    BY <2>1
  <2>3. FormTypes'
    BY <2>1
  <2>4. InOrder' /\ OverlapsTroubled' /\ OneEach' /\ LeftoversGoOn'
    BY <2>1 DEF InOrder, OverlapsTroubled, OneEach, LeftoversGoOn, Alive
  <2>5. RunnersHere' /\ OrdersWatched' /\ ClosedOnceOrdered'
    BY <2>1, <2>2 DEF RunnersHere, OrdersWatched, ClosedOnceOrdered, Alive
  <2> QED
    BY <2>3, <2>4, <2>5
<1>3. CASE Frm!LeavePage
  <2>1. shown' = 0 /\ latest' = {} /\ UNCHANGED <<opened, customers, orders, troubled>>
        /\ sub' = [s \in Frm!Submissions |-> [sub[s] EXCEPT !.here = FALSE]]
    BY <1>3 DEF Frm!LeavePage
  <2>2. \A s \in Frm!Submissions : /\ sub'[s].phase = sub[s].phase /\ sub'[s].opening = sub[s].opening
                                   /\ ~sub'[s].here /\ (Alive(s)' <=> Alive(s))
    BY <2>1 DEF Alive
  <2>3. \A s \in Frm!Submissions : sub'[s].phase # "new" => sub'[s].opening # shown'
    BY <2>1, <2>2
  <2>4. FormTypes'
    <3>1. sub' \in [Frm!Submissions -> [phase : Frm!Phases, opening : Nat,
                                        device : Serials \cup {Frm!Picked}, here : BOOLEAN]]
      BY <2>1
    <3> QED
      BY <2>1, <2>2, <3>1
  <2>5. InOrder' /\ OverlapsTroubled' /\ LeftoversGoOn'
    BY <2>1, <2>2 DEF InOrder, OverlapsTroubled, LeftoversGoOn
  <2>6. OneEach'
    BY <2>1, <2>2 DEF OneEach
  <2>7. RunnersHere' /\ OrdersWatched' /\ ClosedOnceOrdered'
    BY <2>1, <2>2, <2>3 DEF RunnersHere, OrdersWatched, ClosedOnceOrdered, Alive
  <2> QED
    BY <2>4, <2>5, <2>6, <2>7
<1> QED
  BY <1>1, <1>2, <1>3

\* Every step of the page and of a submission keeps the invariant.
LEMMA FormStep == FormInv /\ [Frm!Next]_Frm!vars => FormInv'
<1> SUFFICES ASSUME FormInv, [Frm!Next]_Frm!vars PROVE FormInv'
  OBVIOUS
<1>0. {"customer", "device", "order"} = Frm!Asked /\ {"customer", "device", "order", "made"} = Frm!Running
      /\ Frm!Phases \ {"new", "customer"} = {"device", "order", "made", "ordered", "stopped"}
      /\ orders \subseteq Frm!Submissions
      /\ \A s \in Frm!Submissions : sub[s].phase \in Frm!Asked => s \notin orders
  BY DEF Frm!Asked, Frm!Running, Frm!Phases, FormInv, FormTypes
<1>1. ASSUME NEW s \in Frm!Submissions, Frm!MakeCustomer(s) PROVE FormInv'
  <2>1. /\ Alive(s) /\ s \notin orders /\ Frm!To(s, Frm!AfterCustomer(s))
        /\ customers' = customers \cup {s} /\ UNCHANGED <<opened, shown, orders, troubled>>
    BY <1>0, <1>1 DEF Frm!MakeCustomer, Alive
  <2>2. Frm!AfterCustomer(s) \in {"device", "order"}
    BY DEF Frm!AfterCustomer
  <2> QED
    BY <1>0, <2>1, <2>2, FormMove
<1>2. ASSUME NEW s \in Frm!Submissions, Frm!MakeDevice(s) PROVE FormInv'
  <2>1. Alive(s) /\ s \notin orders /\ Frm!To(s, "order")
        /\ UNCHANGED <<opened, shown, customers, orders, troubled>>
    BY <1>0, <1>2 DEF Frm!MakeDevice, Alive
  <2> QED
    BY <1>0, <2>1, FormMove
<1>3. ASSUME NEW s \in Frm!Submissions, Frm!MakeOrder(s) PROVE FormInv'
  <2>1. /\ Alive(s) /\ Frm!To(s, "made") /\ orders' = orders \cup {s}
        /\ UNCHANGED <<opened, shown, customers, troubled>> /\ sub[s].phase = "order"
    BY <1>0, <1>3 DEF Frm!MakeOrder, Alive
  <2>2. shown \in {0, shown} /\ customers \subseteq customers \cup {s}
    OBVIOUS
  <2> QED
    BY <1>0, <2>1, <2>2, FormMove
<1>7. ASSUME NEW s \in Frm!Submissions, Frm!OrderMade(s) PROVE FormInv'
  <2>1. /\ Alive(s) /\ Frm!To(s, "ordered")
        /\ UNCHANGED <<opened, customers, orders, troubled>>
        /\ shown' = IF s \in latest THEN 0 ELSE shown
        /\ sub[s].phase = "made"
    BY <1>0, <1>7 DEF Frm!OrderMade, Frm!Closes, Alive
  <2>2. sub[s].opening # 0 /\ s \in orders
    BY <2>1 DEF FormInv, FormTypes
  <2>3. sub[s].opening = shown' => shown' \in troubled'
    <3> SUFFICES ASSUME sub[s].opening = shown' PROVE shown' \in troubled'
      OBVIOUS
    <3>1. s \notin latest /\ shown' = shown
      BY <2>1, <2>2
    <3>2. sub[s].here
      BY <2>1, <3>1 DEF FormInv, RunnersHere
    <3> QED
      BY <2>1, <3>1, <3>2 DEF FormInv, OrdersWatched
  <2> QED
    BY <1>0, <2>1, <2>2, <2>3, FormMove
<1>4. ASSUME NEW s \in Frm!Submissions, Frm!CallFails(s) PROVE FormInv'
  <2>1. Alive(s) /\ s \notin orders /\ Frm!To(s, "stopped")
        /\ UNCHANGED <<opened, shown, customers, orders, troubled>>
    BY <1>0, <1>4 DEF Frm!CallFails, Alive
  <2> QED
    BY <1>0, <2>1, FormMove
<1>5. ASSUME NEW s \in Frm!Submissions, Frm!AnswerLost(s) PROVE FormInv'
  <2>1. Alive(s) /\ Frm!To(s, "stopped") /\ UNCHANGED <<opened, shown, orders>>
    BY <1>0, <1>5 DEF Frm!AnswerLost, Alive
  <2>2. customers \subseteq customers' /\ customers' \subseteq customers \cup {s}
    BY <1>5 DEF Frm!AnswerLost
  <2>3. troubled \subseteq troubled' /\ (s \in orders => sub[s].opening \in troubled')
    BY <1>0, <1>5 DEF Frm!AnswerLost
  <2> QED
    BY <1>0, <2>1, <2>2, <2>3, FormMove
<1>6. CASE UNCHANGED Frm!vars
  BY <1>6 DEF Frm!vars, FormInv, FormTypes, InOrder, RunnersHere, OverlapsTroubled, OneEach, OrdersWatched,
              ClosedOnceOrdered, LeftoversGoOn, Alive
<1> QED
  BY <1>1, <1>2, <1>3, <1>4, <1>5, <1>6, <1>7, FormSubmit, FormPage DEF Frm!Next

\* An opening of the form makes one order and is not open after it, unless its
\* submissions overlapped or an answer was lost (handleSubmit, onSuccess).
THEOREM FormsMakeOneOrder == Frm!Spec => []OneOrderPerForm
<1>1. FormInv => OneOrderPerForm
  <2> SUFFICES ASSUME FormInv PROVE OneOrderPerForm
    OBVIOUS
  <2> USE DEF FormInv, FormTypes
  <2>1. ASSUME NEW n \in 1..opened, NEW s \in Frm!OrdersOf(n), NEW t \in Frm!OrdersOf(n), s # t
        PROVE  n \in troubled
    BY <2>1 DEF Frm!OrdersOf, OneEach
  <2>2. \A s \in Frm!OrdersOf(shown) : sub[s].phase # "made" => shown \in troubled
    BY DEF Frm!OrdersOf, ClosedOnceOrdered
  <2> QED
    BY <2>1, <2>2 DEF OneOrderPerForm, Frm!OneOrderPerForm, LeftoversGoOn
<1> QED
  BY FormInit, FormStep, <1>1, PTL DEF Frm!Spec

-----------------------------------------------------------------------------
(***************************************************************************)
(* Screens.  A sound copy of the order, in the list, in a dialog or in a   *)
(* call that is out, tells the order as it is, to a user in whose scope it *)
(* is; what was offered on it was offered for its present status.          *)
(***************************************************************************)
ScreensTypes ==
    /\ row.status \in Scr!Statuses
    /\ session \in Users \cup {Scr!Nobody}
    /\ list \subseteq Scr!Copy
    /\ dialog \subseteq [sound : BOOLEAN, to : Scr!Statuses]
    /\ press \in [Calls -> SUBSET Scr!Press]
    /\ \A c \in Calls : \A k, q \in press[c] : k = q

NothingElsewhere ==
    /\ page = "elsewhere" => list = {} /\ dialog = {} /\ fetch = "nobody"
    /\ session = Scr!Nobody => page = "elsewhere"

OfferedNow(to, p, u) == to \in Scr!Offers(p, Role[u], row.status) /\ Scr!InScope(u, row)

SoundIsTrue ==
    /\ \A a \in list : a.sound => a.status = row.status /\ Scr!InScope(session, row)
    /\ \A d \in dialog : d.sound => OfferedNow(d.to, page, session)

CallsAreTrue ==
    \A c \in Calls : \A k \in press[c] : k.click.sound =>
        /\ k.outcome = "out" => \E p \in Scr!Pages : OfferedNow(k.click.to, p, k.click.by)
        /\ k.outcome = "refused" => Scr!Misoffered(k.click)

ScreensInv ==
    ScreensTypes /\ page \in Scr!Pages /\ NothingElsewhere /\ SoundIsTrue /\ CallsAreTrue

\* Nobody is signed in and nothing is shown.
LEMMA ScreensInit == Scr!Init => ScreensInv
BY DEF Scr!Init, Scr!InitialStatus, Scr!Statuses, Scr!Pages, Scr!Tables, ScreensInv, ScreensTypes,
       NothingElsewhere, SoundIsTrue, CallsAreTrue

\* The transition table leads to statuses.
LEMMA TransitionsType == Scr!Transitions \in [Scr!Statuses -> SUBSET Scr!Statuses]
BY DEF Scr!Transitions, Scr!Statuses

\* What a page offers for a status is a transition of the role, or one of the
\* offers the property names (the tables' buttons, TRANSITIONS, @Roles).
LEMMA OffersAreTransitions ==
    ASSUME NEW status \in Scr!Statuses, NEW p, NEW role, NEW to \in Scr!Offers(p, role, status)
    PROVE  \/ to \in Scr!Transitions[status] /\ role \in Scr!MoverRoles(status, to)
           \/ to \in {"ASSIGNED", "RESCHEDULED"} /\ role # "COORDINATOR"
           \/ to = "RESCHEDULED" /\ status = "ASSIGNED"
           \/ to = "CANCELLED" /\ role = "HQ" /\ status \notin {"REQUESTED", "ASSIGNED"}
<1> USE DEF Scr!Transitions, Scr!MoverRoles, Scr!CancelRoles, Scr!Statuses
<1>1. CASE p = "orders"
  <2>1. to \in Scr!OrdersOffers(role, status)
    BY <1>1 DEF Scr!Offers
  <2>2. CASE role = "TECHNICIAN"
    BY <2>1, <2>2 DEF Scr!OrdersOffers, Scr!TechnicianOffers
  <2>3. CASE role = "HQ"
    BY <2>1, <2>3 DEF Scr!OrdersOffers
  <2>4. CASE role \notin {"TECHNICIAN", "HQ"}
    BY <2>1, <2>4 DEF Scr!OrdersOffers
  <2> QED
    BY <2>2, <2>3, <2>4
<1>2. CASE p = "queue"
  <2>1. to \in Scr!QueueOffers(status)
    BY <1>2 DEF Scr!Offers
  <2> QED
    BY <2>1 DEF Scr!QueueOffers
<1>3. CASE p \notin {"orders", "queue"}
  BY <1>3 DEF Scr!Offers
<1> QED
  BY <1>1, <1>2, <1>3

\* When the order moves every copy ages.
LEMMA OrderMoves ==
    ASSUME ScreensInv, Scr!Ages, row'.status \in Scr!Statuses, UNCHANGED <<session, page, fetch>>,
           press' \in [Calls -> SUBSET Scr!Press],
           \A c \in Calls : \A k, q \in press'[c] : ~k.click.sound /\ k = q
    PROVE  ScreensInv'
<1> USE DEF ScreensInv, ScreensTypes, Scr!Copy, Scr!Ages
<1>1. /\ list' \subseteq Scr!Copy /\ \A a \in list' : ~a.sound
      /\ dialog' \subseteq [sound : BOOLEAN, to : Scr!Statuses] /\ \A d \in dialog' : ~d.sound
  OBVIOUS
<1>2. NothingElsewhere'
  BY DEF NothingElsewhere
<1> QED
  BY <1>1, <1>2 DEF SoundIsTrue, CallsAreTrue

\* A copy of a call's click that has aged.
LEMMA AgedCalls ==
    ASSUME ScreensTypes
    PROVE  \A c \in Calls : \A k, q \in Scr!PressAged[c] :
             /\ k \in Scr!Press
             /\ ~k.click.sound /\ k = q
<1> SUFFICES ASSUME NEW c \in Calls, NEW k \in Scr!PressAged[c], NEW q \in Scr!PressAged[c]
             PROVE  /\ k \in Scr!Press
                    /\ ~k.click.sound /\ k = q
  OBVIOUS
<1>1. PICK x \in press[c], y \in press[c] :
         k = [x EXCEPT !.click.sound = FALSE] /\ q = [y EXCEPT !.click.sound = FALSE]
  BY DEF Scr!PressAged
<1>2. x = y /\ x \in Scr!Press
  BY DEF ScreensTypes
<1>3. x.click \in Scr!Click /\ x.outcome \in {"out", "accepted", "refused"} /\ x.here \in BOOLEAN
  BY <1>2 DEF Scr!Press
<1>4. k = [click |-> [x.click EXCEPT !.sound = FALSE], outcome |-> x.outcome, here |-> x.here]
  BY <1>1, <1>2 DEF Scr!Press
<1>5. [x.click EXCEPT !.sound = FALSE] \in Scr!Click /\ ~[x.click EXCEPT !.sound = FALSE].sound
  BY <1>3 DEF Scr!Click
<1> QED
  BY <1>1, <1>2, <1>3, <1>4, <1>5 DEF Scr!Press

\* A call keeps what it asks for when its page is left ...
LEMMA CallLeft ==
    ASSUME NEW k \in Scr!Press
    PROVE  /\ [k EXCEPT !.here = FALSE] \in Scr!Press
           /\ [k EXCEPT !.here = FALSE].click = k.click
           /\ [k EXCEPT !.here = FALSE].outcome = k.outcome
BY DEF Scr!Press

\* ... and when it is served.
LEMMA CallServed ==
    ASSUME NEW k \in Scr!Press, NEW answer \in {"out", "accepted", "refused"}
    PROVE  /\ [k EXCEPT !.outcome = answer] \in Scr!Press
           /\ [k EXCEPT !.outcome = answer].click = k.click
           /\ [k EXCEPT !.outcome = answer].outcome = answer
BY DEF Scr!Press

\* Every step of the users, the browser and the back end keeps the invariant.
LEMMA ScreensStep == ScreensInv /\ [Scr!Next]_Scr!vars => ScreensInv'
<1> SUFFICES ASSUME ScreensInv, [Scr!Next]_Scr!vars PROVE ScreensInv'
  OBVIOUS
<1> USE DEF ScreensInv, ScreensTypes
<1>1. CASE Scr!OtherMoves
  <2>1. row'.status \in Scr!Statuses /\ Scr!Ages /\ press' = Scr!PressAged
        /\ UNCHANGED <<session, page, fetch>>
    BY <1>1, TransitionsType DEF Scr!OtherMoves, Scr!Moved
  <2>2. press' \in [Calls -> SUBSET Scr!Press]
    BY <2>1, AgedCalls DEF Scr!PressAged
  <2> QED
    BY <2>1, <2>2, AgedCalls, OrderMoves
<1>2. ASSUME NEW u \in Users, Scr!SignIn(u) PROVE ScreensInv'
  BY <1>2 DEF Scr!SignIn, NothingElsewhere, SoundIsTrue, CallsAreTrue, OfferedNow, Scr!Misoffered,
              Scr!InScope
<1>3. CASE Scr!SignOut \/ Scr!Close \/ Scr!Redirect
  <2>1. Scr!Leaves /\ UNCHANGED row /\ session' \in Users \cup {Scr!Nobody}
    BY <1>3 DEF Scr!SignOut, Scr!Close, Scr!Redirect
  <2>2. press' = [c \in Calls |-> {[k EXCEPT !.here = FALSE] : k \in press[c]}]
    BY <2>1 DEF Scr!Leaves
  <2>3. ASSUME NEW c \in Calls, NEW q \in press'[c]
        PROVE  /\ q \in Scr!Press
               /\ \E k \in press[c] : /\ q = [k EXCEPT !.here = FALSE]
                                      /\ q.click = k.click /\ q.outcome = k.outcome
    <3>1. PICK k \in press[c] : q = [k EXCEPT !.here = FALSE]
      BY <2>2
    <3>2. k \in Scr!Press
      OBVIOUS
    <3> QED
      BY <3>1, <3>2, CallLeft
  <2>4. press' \in [Calls -> SUBSET Scr!Press] /\ \A c \in Calls : \A k, q \in press'[c] : k = q
    <3>1. press' \in [Calls -> SUBSET Scr!Press]
      BY <2>2, <2>3
    <3>2. ASSUME NEW c \in Calls, NEW k \in press'[c], NEW q \in press'[c] PROVE k = q
      <4>1. PICK x \in press[c], y \in press[c] :
               k = [x EXCEPT !.here = FALSE] /\ q = [y EXCEPT !.here = FALSE]
        BY <2>3
      <4>2. x = y
        OBVIOUS
      <4> QED
        BY <4>1, <4>2
    <3> QED
      BY <3>1, <3>2
  <2>5. CallsAreTrue'
    <3>1. \A x : Scr!Misoffered(x)' <=> Scr!Misoffered(x)
      BY <2>1 DEF Scr!Misoffered
    <3>2. \A x, p, u : OfferedNow(x, p, u)' <=> OfferedNow(x, p, u)
      BY <2>1 DEF OfferedNow, Scr!InScope
    <3>3. \A c \in Calls : \A q \in press'[c] : \E k \in press[c] :
             q.click = k.click /\ q.outcome = k.outcome
      BY <2>3
    <3> QED
      BY <3>1, <3>2, <3>3 DEF CallsAreTrue
  <2> QED
    BY <2>1, <2>4, <2>5 DEF Scr!Leaves, Scr!Pages, NothingElsewhere, SoundIsTrue
<1>4. ASSUME NEW p \in Scr!Tables, Scr!Open(p) PROVE ScreensInv'
  <2>1. /\ UNCHANGED <<row, session, press>> /\ page' = p /\ dialog' = {} /\ session # Scr!Nobody
        /\ list' \subseteq Scr!Copy
        /\ \A a \in list' : a.sound => a.status = row.status /\ Scr!InScope(session, row)
    BY <1>4 DEF Scr!Open, Scr!Cached, Scr!OrNone
  <2> QED
    BY <2>1 DEF Scr!Pages, Scr!Tables, NothingElsewhere, SoundIsTrue, CallsAreTrue, OfferedNow,
                Scr!Misoffered, Scr!InScope
<1>5. CASE Scr!ListArrives
  <2>1. /\ UNCHANGED <<row, session, page, dialog, press>> /\ fetch' = "nobody" /\ fetch # "nobody"
        /\ list' \subseteq Scr!Copy
        /\ \A a \in list' : a.sound => a.status = row.status /\ Scr!InScope(session, row)
    <3>1. UNCHANGED <<row, session, page, dialog, press>> /\ fetch' = "nobody" /\ fetch # "nobody"
      BY <1>5 DEF Scr!ListArrives
    <3>2. CASE fetch = "own" /\ Scr!InScope(session, row)
      <4>1. list' = {[sound |-> TRUE, status |-> row.status]}
        BY <1>5, <3>2 DEF Scr!ListArrives
      <4> QED
        BY <3>1, <3>2, <4>1 DEF Scr!Copy
    <3>3. CASE fetch = "own" /\ ~Scr!InScope(session, row)
      BY <1>5, <3>3 DEF Scr!ListArrives
    <3>4. CASE fetch = "another's"
      <4>1. list' \in Scr!OrNone({[sound |-> FALSE, status |-> row.status]})
        BY <1>5, <3>4 DEF Scr!ListArrives
      <4>2. list' = {} \/ list' = {[sound |-> FALSE, status |-> row.status]}
        BY <4>1 DEF Scr!OrNone
      <4>3. CASE list' = {}
        BY <3>1, <4>3
      <4>4. CASE list' = {[sound |-> FALSE, status |-> row.status]}
        <5>1. [sound |-> FALSE, status |-> row.status] \in Scr!Copy
              /\ ~[sound |-> FALSE, status |-> row.status].sound
          BY DEF Scr!Copy
        <5> QED
          BY <3>1, <4>4, <5>1
      <4> QED
        BY <4>2, <4>3, <4>4
    <3> QED
      BY <1>5, <3>1, <3>2, <3>3, <3>4 DEF Scr!ListArrives
  <2> QED
    BY <2>1 DEF NothingElsewhere, SoundIsTrue, CallsAreTrue, OfferedNow, Scr!Misoffered, Scr!InScope
<1>6. CASE Scr!ListFails \/ Scr!CloseDialog
  BY <1>6 DEF Scr!ListFails, Scr!CloseDialog, NothingElsewhere, SoundIsTrue, CallsAreTrue, OfferedNow,
              Scr!Misoffered, Scr!InScope
<1>7. CASE Scr!OpenDialog
  <2>1. PICK to \in Scr!OpensDialog : \E a \in Scr!Offered(to) : dialog' = {[sound |-> a.sound, to |-> to]}
    BY <1>7 DEF Scr!OpenDialog
  <2>2. PICK a \in list : /\ to \in Scr!Offers(page, Role[session], a.status)
                          /\ dialog' = {[sound |-> a.sound, to |-> to]}
    BY <2>1 DEF Scr!Offered
  <2>3. UNCHANGED <<row, session, page, list, fetch, press>>
    BY <1>7 DEF Scr!OpenDialog
  <2>4. to \in Scr!Statuses /\ a.sound \in BOOLEAN /\ list # {}
    BY DEF Scr!OpensDialog, Scr!Statuses, Scr!Copy
  <2>5. \A d \in dialog' : d.sound => OfferedNow(d.to, page, session)
    BY <2>2 DEF OfferedNow, SoundIsTrue
  <2> QED
    BY <2>2, <2>3, <2>4, <2>5 DEF NothingElsewhere, SoundIsTrue, CallsAreTrue, OfferedNow,
                                  Scr!Misoffered, Scr!InScope
<1>8. ASSUME NEW c \in Calls, Scr!Button(c) \/ Scr!Confirm(c) PROVE ScreensInv'
  <2>1. PICK sound, to : /\ Scr!Sent(c, sound, to) /\ sound \in BOOLEAN /\ to \in Scr!Statuses
                         /\ sound => OfferedNow(to, page, session)
                         /\ page # "elsewhere"
    BY <1>8 DEF Scr!Button, Scr!Confirm, Scr!Offered, SoundIsTrue, OfferedNow, Scr!Copy, NothingElsewhere
  <2>2. UNCHANGED <<row, session, page, list, fetch, dialog>>
        /\ press' = [press EXCEPT ![c] =
             {[click |-> [sound |-> sound, by |-> session, to |-> to],
               outcome |-> "out", here |-> TRUE]}]
    BY <2>1 DEF Scr!Sent
  <2>3. session \in Users
    BY <2>1 DEF NothingElsewhere
  <2>4. ScreensTypes'
    <3>1. [click |-> [sound |-> sound, by |-> session, to |-> to], outcome |-> "out", here |-> TRUE]
             \in Scr!Press
      BY <2>1, <2>3 DEF Scr!Click, Scr!Press
    <3> QED
      BY <2>2, <3>1
  <2>5. CallsAreTrue'
    <3>1. OfferedNow(to, page, session)' <=> OfferedNow(to, page, session)
      BY <2>2 DEF OfferedNow, Scr!InScope
    <3> QED
      BY <2>1, <2>2 DEF CallsAreTrue, OfferedNow, Scr!InScope, Scr!Misoffered
  <2> QED
    BY <2>2, <2>4, <2>5 DEF NothingElsewhere, SoundIsTrue, OfferedNow, Scr!InScope
<1>9. ASSUME NEW c \in Calls, Scr!Accept(c) PROVE ScreensInv'
  <2>1. PICK k \in press[c] : Scr!Accepts(k.click.by, k.click.to)
                              /\ \E t \in Scr!Technicians : row' = Scr!Moved(k.click.to, t)
    BY <1>9 DEF Scr!Accept
  <2>2. row'.status \in Scr!Statuses /\ Scr!Ages /\ UNCHANGED <<session, page, fetch>>
        /\ press' = [Scr!PressAged EXCEPT ![c] = {[q EXCEPT !.outcome = "accepted"] : q \in Scr!PressAged[c]}]
    BY <1>9, <2>1, TransitionsType DEF Scr!Accept, Scr!Accepts, Scr!Moved, Scr!Outcome, Scr!PressAged
  <2>3. \A d \in Calls : \A q, x \in press'[d] :
           /\ q \in Scr!Press
           /\ ~q.click.sound /\ q = x
    <3>1. ASSUME NEW q \in Scr!PressAged[c]
          PROVE  /\ [q EXCEPT !.outcome = "accepted"] \in Scr!Press
                 /\ ~[q EXCEPT !.outcome = "accepted"].click.sound
      <4>1. q \in Scr!Press /\ ~q.click.sound
        <5>1. ScreensTypes
          BY DEF ScreensInv
        <5> HIDE DEF ScreensTypes
        <5> QED
          BY <5>1, AgedCalls
      <4>2. "accepted" \in {"out", "accepted", "refused"}
        OBVIOUS
      <4> QED
        BY <4>1, <4>2, CallServed
    <3>2. press'[c] = {[q EXCEPT !.outcome = "accepted"] : q \in Scr!PressAged[c]}
      BY <2>2 DEF Scr!PressAged
    <3>3. \A d \in Calls \ {c} : press'[d] = Scr!PressAged[d]
      BY <2>2 DEF Scr!PressAged
    <3>4. ScreensTypes
      BY DEF ScreensInv
    <3> HIDE DEF ScreensTypes, ScreensInv
    <3>5. ASSUME NEW q \in press'[c], NEW x \in press'[c]
          PROVE  q \in Scr!Press /\ ~q.click.sound /\ q = x
      <4>1. PICK v \in Scr!PressAged[c], w \in Scr!PressAged[c] :
               q = [v EXCEPT !.outcome = "accepted"] /\ x = [w EXCEPT !.outcome = "accepted"]
        BY <3>2
      <4>2. v = w
        BY <3>4, AgedCalls
      <4> QED
        BY <3>1, <4>1, <4>2
    <3> QED
      BY <3>3, <3>4, <3>5, AgedCalls
  <2>4. press' \in [Calls -> SUBSET Scr!Press]
    BY <2>2, <2>3 DEF Scr!PressAged
  <2> QED
    BY <2>2, <2>3, <2>4, OrderMoves
<1>10. ASSUME NEW c \in Calls, Scr!Refuse(c) PROVE ScreensInv'
  <2>1. UNCHANGED <<row, session, page, list, fetch, dialog>>
        /\ press' = [press EXCEPT ![c] = {[q EXCEPT !.outcome = "refused"] : q \in press[c]}]
    BY <1>10 DEF Scr!Refuse
  <2>2. ScreensTypes'
    <3>1. ASSUME NEW q \in press[c] PROVE [q EXCEPT !.outcome = "refused"] \in Scr!Press
      <4>1. q \in Scr!Press /\ "refused" \in {"out", "accepted", "refused"}
        OBVIOUS
      <4> QED
        BY <4>1, CallServed
    <3>2. press' \in [Calls -> SUBSET Scr!Press]
      BY <2>1, <3>1
    <3> QED
      BY <2>1, <3>2
  <2>3. PICK k \in press[c] : k.outcome = "out" /\ ~Scr!Accepts(k.click.by, k.click.to)
    BY <1>10 DEF Scr!Refuse
  <2>4. CallsAreTrue'
    <3>1. k.click.sound => Scr!Misoffered(k.click)
      <4> SUFFICES ASSUME k.click.sound PROVE Scr!Misoffered(k.click)
        OBVIOUS
      <4>1. PICK p \in Scr!Pages : OfferedNow(k.click.to, p, k.click.by)
        BY <2>3 DEF CallsAreTrue
      <4>2. ~(k.click.to \in Scr!Transitions[row.status]
              /\ Role[k.click.by] \in Scr!MoverRoles(row.status, k.click.to))
        BY <2>3, <4>1 DEF Scr!Accepts, OfferedNow
      <4> QED
        BY <4>1, <4>2, OffersAreTransitions DEF OfferedNow, Scr!Misoffered
    <3>2. press[c] = {k}
      OBVIOUS
    <3>3. press'[c] = {[k EXCEPT !.outcome = "refused"]}
      BY <2>1, <3>2
    <3>4. \A q \in press'[c] : q.click = k.click /\ q.outcome = "refused"
      BY <3>3, CallServed
    <3>5. \A d \in Calls \ {c} : press'[d] = press[d]
      BY <2>1
    <3>6. \A x : Scr!Misoffered(x)' <=> Scr!Misoffered(x)
      BY <2>1 DEF Scr!Misoffered
    <3>7. \A x, p, u : OfferedNow(x, p, u)' <=> OfferedNow(x, p, u)
      BY <2>1 DEF OfferedNow, Scr!InScope
    <3> QED
      BY <3>1, <3>4, <3>5, <3>6, <3>7 DEF CallsAreTrue
  <2> QED
    BY <2>1, <2>2, <2>4 DEF NothingElsewhere, SoundIsTrue, OfferedNow, Scr!InScope
<1>11. ASSUME NEW c \in Calls, Scr!Answered(c) PROVE ScreensInv'
  <2>1. /\ UNCHANGED <<row, session, page, list>> /\ press' = [press EXCEPT ![c] = {}]
        /\ dialog' \subseteq dialog /\ (page = "elsewhere" => fetch' = fetch)
    BY <1>11 DEF Scr!Answered, Scr!Tables
  <2> QED
    BY <2>1 DEF NothingElsewhere, SoundIsTrue, CallsAreTrue, OfferedNow, Scr!InScope, Scr!Misoffered
<1>12. CASE UNCHANGED Scr!vars
  BY <1>12 DEF Scr!vars, NothingElsewhere, SoundIsTrue, CallsAreTrue, OfferedNow, Scr!InScope,
               Scr!Misoffered
<1> QED
  BY <1>1, <1>2, <1>3, <1>4, <1>5, <1>6, <1>7, <1>8, <1>9, <1>10, <1>11, <1>12 DEF Scr!Next

\* A click that is refused was unsound or is one of the offers the back end
\* never accepts (canAction and the queue against TRANSITIONS and @Roles).
THEOREM RefusalsHaveReasons == Scr!Spec => []RefusalsExplained
<1>1. ScreensInv => RefusalsExplained
  BY DEF ScreensInv, CallsAreTrue, RefusalsExplained, Scr!RefusalsExplained
<1> QED
  BY ScreensInit, ScreensStep, <1>1, PTL DEF Scr!Spec

-----------------------------------------------------------------------------
(***************************************************************************)
(* LocationSocket.  The object the hook holds has a wired socket or a      *)
(* reconnect timer with a dead socket; dropping it leaves neither.         *)
(***************************************************************************)
SocketRecord == [state : {"unused", "connecting", "open", "closed"}, wired : BOOLEAN, of : 0..MaxObjects]

ObjectRecord == [ws : 0..MaxSockets, timer : BOOLEAN, push : BOOLEAN, hears : BOOLEAN]

Worlds ==
    [socket : [Soc!Sockets -> SocketRecord], object : [Soc!Objects -> ObjectRecord],
     made : 0..MaxObjects, current : 0..MaxObjects]

FreshObjects(w) ==
    w.current <= w.made /\ \A k \in Soc!Objects : k > w.made => w.object[k].ws = 0

\* No socket has its callbacks and no timer runs.
Quiet(w) ==
    /\ w \in Worlds /\ FreshObjects(w)
    /\ \A k \in Soc!Objects : ~w.object[k].timer
    /\ \A s \in Soc!Sockets : ~w.socket[s].wired

Followed(w) ==
    /\ w \in Worlds /\ FreshObjects(w)
    /\ \A k \in Soc!Objects : w.object[k].timer => k = w.current
    /\ \A s \in Soc!Sockets : w.socket[s].wired =>
         /\ w.current # 0 /\ w.socket[s].of = w.current /\ s = w.object[w.current].ws
         /\ w.socket[s].state \in {"connecting", "open"}
    /\ w.current # 0 =>
         LET o == w.object[w.current]
         IN  /\ o.ws # 0 /\ (o.timer <=> ~w.socket[o.ws].wired)
             /\ o.timer => w.socket[o.ws].state = "closed"

\* A held object whose socket is not open gets a new, wired one (connect).
LEMMA ConnectFollows ==
    ASSUME NEW w, Quiet(w), NEW k \in Soc!Objects, w.current = k, Soc!Unused(w) # {},
           w.object[k].ws # 0 => w.socket[w.object[k].ws].state # "open"
    PROVE  /\ Followed(Soc!Connect(w, k))
           /\ Soc!Connect(w, k).made = w.made /\ Soc!Connect(w, k).current = k
           /\ \E s : Soc!Unused(Soc!Connect(w, k)) = Soc!Unused(w) \ {s}
<1> DEFINE s == Soc!Fresh(w)
           new == [state |-> "connecting", wired |-> TRUE, of |-> k]
           v == Soc!Connect(w, k)
<1>1. s \in Soc!Sockets /\ s \in Soc!Unused(w)
  BY DEF Soc!Fresh, Soc!Unused
<1>2. v = [w EXCEPT !.socket[s] = new, !.object[k].ws = s]
  BY DEF Soc!Connect
<1> HIDE DEF s, v
<1>3. w \in Worlds /\ FreshObjects(w)
  BY DEF Quiet
<1>4. /\ v.socket = [w.socket EXCEPT ![s] = new]
      /\ v.object = [w.object EXCEPT ![k] = [w.object[k] EXCEPT !.ws = s]]
      /\ v.made = w.made /\ v.current = w.current
      /\ v = [socket |-> v.socket, object |-> v.object, made |-> v.made, current |-> v.current]
  BY <1>2, <1>3 DEF Worlds
<1>5. new \in SocketRecord /\ [w.object[k] EXCEPT !.ws = s] \in ObjectRecord
  <2>1. s \in 0..MaxSockets /\ k \in 0..MaxObjects
    BY <1>1, BoundsAreNumbers DEF Soc!Sockets, Soc!Objects, BoundsAreNumbers
  <2>2. w.object[k] \in ObjectRecord
    BY <1>3 DEF Worlds
  <2> QED
    BY <2>1, <2>2 DEF SocketRecord, ObjectRecord
<1>6. v \in Worlds
  BY <1>3, <1>4, <1>5 DEF Worlds
<1>7. /\ v.socket[s].wired /\ v.socket[s].of = k /\ v.socket[s].state = "connecting"
      /\ v.object[k].ws = s /\ v.object[k].timer = w.object[k].timer
      /\ \A t \in Soc!Sockets \ {s} : v.socket[t] = w.socket[t]
      /\ \A j \in Soc!Objects \ {k} : v.object[j] = w.object[j]
  BY <1>1, <1>3, <1>4 DEF Worlds, ObjectRecord
<1>8. Followed(v)
  <2>1. k # 0 /\ s # 0 /\ k <= w.made
    BY <1>1, <1>3, BoundsAreNumbers DEF Soc!Sockets, Soc!Objects, FreshObjects, BoundsAreNumbers
  <2>2. FreshObjects(v)
    <3>1. ASSUME NEW j \in Soc!Objects, j > v.made PROVE j # k /\ j > w.made
      BY <1>3, <1>4, <2>1, <3>1, BoundsAreNumbers DEF Soc!Objects, Worlds, BoundsAreNumbers
    <3> QED
      BY <1>3, <1>4, <1>7, <3>1 DEF FreshObjects
  <2>3. \A j \in Soc!Objects : ~v.object[j].timer
    BY <1>7 DEF Quiet
  <2>4. \A t \in Soc!Sockets : v.socket[t].wired => t = s
    BY <1>7 DEF Quiet
  <2>5. v.current = k
    BY <1>4
  <2> QED
    BY <1>6, <1>7, <2>1, <2>2, <2>3, <2>4, <2>5 DEF Followed
<1>9. Soc!Unused(v) = Soc!Unused(w) \ {s}
  BY <1>1, <1>7 DEF Soc!Unused
<1> QED
  BY <1>4, <1>8, <1>9 DEF v

\* Dropping the held object quietens everything (disconnect).
LEMMA DisconnectQuiets ==
    ASSUME NEW w, Followed(w), w.current # 0
    PROVE  LET v == Soc!Disconnect(w, w.current)
           IN  /\ Quiet(v) /\ v.made = w.made /\ v.current = w.current
               /\ v.object[w.current].ws = 0 /\ Soc!Unused(v) = Soc!Unused(w)
<1> DEFINE k == w.current
           h == w.object[k].ws
           v == Soc!Disconnect(w, k)
           gone == [ws |-> 0, timer |-> FALSE, push |-> FALSE, hears |-> FALSE]
           off == [w.socket[h] EXCEPT !.wired = FALSE,
                                      !.state = IF w.socket[h].state = "open" THEN "closed" ELSE w.socket[h].state]
<1>1. w \in Worlds /\ FreshObjects(w) /\ k \in Soc!Objects /\ h \in Soc!Sockets
  <2>1. w \in Worlds /\ FreshObjects(w)
    BY DEF Followed
  <2>2. k \in Soc!Objects
    BY <2>1, BoundsAreNumbers DEF Worlds, Soc!Objects, BoundsAreNumbers
  <2>3. h \in 0..MaxSockets /\ h # 0
    BY <2>1, <2>2 DEF Followed, Worlds, ObjectRecord
  <2> QED
    BY <2>1, <2>2, <2>3, BoundsAreNumbers DEF Soc!Sockets, BoundsAreNumbers
<1>2. h # 0
  BY DEF Followed
<1>3. /\ v.socket = [w.socket EXCEPT ![h] = off]
      /\ v.object = [w.object EXCEPT ![k] = gone]
      /\ v.made = w.made /\ v.current = w.current
      /\ v = [socket |-> v.socket, object |-> v.object, made |-> v.made, current |-> v.current]
  BY <1>1, <1>2 DEF Soc!Disconnect, Soc!Dropped, Worlds
<1>4. off \in SocketRecord /\ gone \in ObjectRecord /\ ~off.wired
      /\ (off.state = "unused" <=> w.socket[h].state = "unused")
  <2>1. w.socket[h] \in SocketRecord
    BY <1>1 DEF Worlds
  <2>2. off \in SocketRecord /\ ~off.wired
    BY <2>1 DEF SocketRecord
  <2>3. off.state = IF w.socket[h].state = "open" THEN "closed" ELSE w.socket[h].state
    BY <2>1 DEF SocketRecord
  <2>4. 0 \in 0..MaxSockets
    BY BoundsAreNumbers DEF BoundsAreNumbers
  <2> QED
    BY <2>2, <2>3, <2>4 DEF ObjectRecord
<1> HIDE DEF v, off
<1>5. v \in Worlds
  BY <1>1, <1>3, <1>4 DEF Worlds
<1>6. /\ v.socket[h] = off /\ v.object[k] = gone
      /\ \A t \in Soc!Sockets \ {h} : v.socket[t] = w.socket[t]
      /\ \A j \in Soc!Objects \ {k} : v.object[j] = w.object[j]
  BY <1>1, <1>3 DEF Worlds
<1>7. Quiet(v)
  BY <1>1, <1>3, <1>4, <1>5, <1>6 DEF Quiet, Followed, FreshObjects
<1>8. Soc!Unused(v) = Soc!Unused(w)
  BY <1>1, <1>4, <1>6 DEF Soc!Unused
<1> QED
  BY <1>3, <1>6, <1>7, <1>8 DEF v

\* The cleanup of the effect.
LEMMA CleanQuiets ==
    ASSUME NEW w, Followed(w)
    PROVE  LET v == Soc!Clean(w)
           IN  /\ Quiet(v) /\ Followed(v) /\ v.made = w.made /\ v.current = 0
               /\ Soc!Unused(v) = Soc!Unused(w)
<1>1. CASE w.current = 0
  <2>1. Soc!Clean(w) = w
    BY <1>1 DEF Soc!Clean
  <2>2. \A k \in Soc!Objects : k # 0
    BY DEF Soc!Objects
  <2>3. Quiet(w)
    BY <1>1, <2>2 DEF Followed, Quiet
  <2> QED
    BY <1>1, <2>1, <2>3
<1>2. CASE w.current # 0
  <2> DEFINE d == Soc!Disconnect(w, w.current)
             v == Soc!Clean(w)
  <2>1. v = [d EXCEPT !.current = 0]
    BY <1>2 DEF Soc!Clean
  <2>2. Quiet(d) /\ d.made = w.made /\ Soc!Unused(d) = Soc!Unused(w)
    BY <1>2, DisconnectQuiets
  <2> HIDE DEF d, v
  <2>3. /\ v.socket = d.socket /\ v.object = d.object /\ v.made = d.made /\ v.current = 0
        /\ v = [socket |-> v.socket, object |-> v.object, made |-> v.made, current |-> v.current]
    BY <2>1, <2>2 DEF Quiet, Worlds
  <2>4. v \in Worlds /\ FreshObjects(v)
    BY <2>2, <2>3, BoundsAreNumbers DEF Quiet, Worlds, FreshObjects, BoundsAreNumbers
  <2>5. Quiet(v) /\ Followed(v)
    BY <2>2, <2>3, <2>4 DEF Quiet, Followed
  <2>6. Soc!Unused(v) = Soc!Unused(d)
    BY <2>3 DEF Soc!Unused
  <2> QED
    BY <2>2, <2>3, <2>5, <2>6 DEF v
<1> QED
  BY <1>1, <1>2

\* A world with another object in one place.
LEMMA WithObject ==
    ASSUME NEW w \in Worlds, NEW k, NEW o
    PROVE  [w EXCEPT !.object[k] = o] = [socket |-> w.socket, object |-> [w.object EXCEPT ![k] = o],
                                        made |-> w.made, current |-> w.current]
BY DEF Worlds

\* A world in which the object a has been counted and is held.
LEMMA WithHeld ==
    ASSUME NEW w \in Worlds, NEW a
    PROVE  [w EXCEPT !.made = a, !.current = a] = [socket |-> w.socket, object |-> w.object,
                                                   made |-> a, current |-> a]
<1> DEFINE u == [w EXCEPT !.made = a]
<1>1. u = [socket |-> w.socket, object |-> w.object, made |-> a, current |-> w.current]
  BY DEF Worlds
<1>2. [u EXCEPT !.current = a] = [socket |-> w.socket, object |-> w.object, made |-> a, current |-> a]
  <2> HIDE DEF u
  <2> QED
    BY <1>1
<1>3. [w EXCEPT !.made = a, !.current = a] = [u EXCEPT !.current = a]
  OBVIOUS
<1> QED
  BY <1>2, <1>3

\* A new object with its socket (the first effect).
LEMMA MadeFollows ==
    ASSUME NEW w, Quiet(w), w.current = 0, w.made + 1 <= MaxObjects, Soc!Unused(w) # {}
    PROVE  /\ Followed(Soc!Made(w)) /\ Soc!Made(w).made = w.made + 1
           /\ Soc!Made(w).current = w.made + 1 /\ Soc!Made(w).current # 0
           /\ \E s : Soc!Unused(Soc!Made(w)) = Soc!Unused(w) \ {s}
<1> DEFINE k == w.made + 1
           u == [w EXCEPT !.made = k, !.current = k]
           v == Soc!Connect(u, k)
           m == Soc!Made(w)
<1>1. w \in Worlds /\ FreshObjects(w)
  BY DEF Quiet
<1>2. /\ w.made \in Nat /\ k \in Soc!Objects /\ k \in 0..MaxObjects /\ k # 0 /\ k = w.made + 1
  BY <1>1, BoundsAreNumbers DEF Worlds, Soc!Objects, BoundsAreNumbers
<1> HIDE DEF k
<1>3. /\ u.socket = w.socket /\ u.object = w.object /\ u.made = k /\ u.current = k
      /\ u = [socket |-> u.socket, object |-> u.object, made |-> u.made, current |-> u.current]
  <2>1. u = [socket |-> w.socket, object |-> w.object, made |-> k, current |-> k]
    BY <1>1, WithHeld
  <2> HIDE DEF u
  <2> QED
    BY <2>1
<1>4. m = [v EXCEPT !.object[k].hears = TRUE]
  BY DEF Soc!Made, k
<1> HIDE DEF u, v, m
<1>5. u \in Worlds
  BY <1>1, <1>2, <1>3 DEF Worlds
<1>6. FreshObjects(u) /\ u.object[k].ws = 0
  BY <1>1, <1>2, <1>3 DEF FreshObjects, Soc!Objects
<1>7. Quiet(u) /\ Soc!Unused(u) = Soc!Unused(w)
  BY <1>3, <1>5, <1>6 DEF Quiet, Soc!Unused
<1>8. Followed(v) /\ v.made = k /\ v.current = k /\ \E s : Soc!Unused(v) = Soc!Unused(w) \ {s}
  <2>1. Soc!Unused(u) # {}
    BY <1>7
  <2>2. /\ Followed(Soc!Connect(u, k))
        /\ Soc!Connect(u, k).made = u.made /\ Soc!Connect(u, k).current = k
        /\ \E s : Soc!Unused(Soc!Connect(u, k)) = Soc!Unused(u) \ {s}
    BY <1>2, <1>3, <1>6, <1>7, <2>1, ConnectFollows
  <2> QED
    BY <1>3, <1>7, <2>2 DEF v
<1>9. v \in Worlds /\ FreshObjects(v)
  BY <1>8 DEF Followed
<1>10. /\ m.socket = v.socket /\ m.made = v.made /\ m.current = v.current
       /\ m.object = [v.object EXCEPT ![k] = [v.object[k] EXCEPT !.hears = TRUE]]
       /\ m = [socket |-> m.socket, object |-> m.object, made |-> m.made, current |-> m.current]
  BY <1>4, <1>9 DEF Worlds
<1>11. v.object[k] \in ObjectRecord
  BY <1>2, <1>9 DEF Worlds
<1>12. [v.object[k] EXCEPT !.hears = TRUE] \in ObjectRecord
  BY <1>11 DEF ObjectRecord
<1>13. m \in Worlds
  BY <1>9, <1>10, <1>12 DEF Worlds
<1>14. \A j \in Soc!Objects : m.object[j].ws = v.object[j].ws /\ m.object[j].timer = v.object[j].timer
  BY <1>2, <1>9, <1>10, <1>11 DEF Worlds, ObjectRecord
<1>15. Followed(m)
  BY <1>2, <1>8, <1>9, <1>10, <1>13, <1>14 DEF Followed, FreshObjects
<1>16. Soc!Unused(m) = Soc!Unused(v)
  BY <1>10 DEF Soc!Unused
<1> QED
  BY <1>2, <1>8, <1>10, <1>15, <1>16 DEF m

\* Both effects make one object and at most two sockets.
LEMMA EffectsFollow ==
    ASSUME NEW w, Quiet(w), w.current = 0, w.made + 1 <= MaxObjects, NEW t, NEW before,
           \E a, b \in Soc!Unused(w) : a # b
    PROVE  Followed(Soc!Effects(w, t, before)) /\ Soc!Effects(w, t, before).current # 0
<1> DEFINE m == Soc!Made(w)
           k == m.current
           d == Soc!Disconnect(m, k)
<1>1. Followed(m) /\ k # 0 /\ \E s : Soc!Unused(m) = Soc!Unused(w) \ {s}
  BY MadeFollows
<1>2. Soc!Unused(m) # {}
  BY <1>1
<1> HIDE DEF m
<1>3. k \in Soc!Objects /\ m.object[k].ws # 0
  BY <1>1, BoundsAreNumbers DEF Followed, Worlds, Soc!Objects, BoundsAreNumbers
<1>4. Quiet(d) /\ d.current = k /\ d.object[k].ws = 0 /\ Soc!Unused(d) = Soc!Unused(m)
  BY <1>1, DisconnectQuiets
<1>5. Followed(Soc!Connect(d, k)) /\ Soc!Connect(d, k).current = k
  BY <1>2, <1>3, <1>4, ConnectFollows
<1>6. Soc!UpdateToken(m, k) = Soc!Connect(d, k)
  BY <1>3 DEF Soc!UpdateToken
<1>7. Soc!Effects(w, t, before) = m \/ Soc!Effects(w, t, before) = Soc!UpdateToken(m, k)
  BY DEF Soc!Effects, m
<1> QED
  BY <1>1, <1>5, <1>6, <1>7

SocketInv ==
    /\ Followed(world) /\ issued \in Nat
    /\ ~mounted \/ token = 0 => world.current = 0
    /\ refreshing => mounted /\ world.current = 0

\* With nothing held everything is quiet.
LEMMA NothingHeld == ASSUME NEW w, Followed(w), w.current = 0 PROVE Quiet(w)
<1>1. \A k \in Soc!Objects : k # 0
  BY DEF Soc!Objects
<1> QED
  BY <1>1 DEF Followed, Quiet

\* The effects run on a quiet world.
LEMMA RunFollows ==
    ASSUME NEW w, Quiet(w), Followed(w), w.current = 0, w.made + 1 <= MaxObjects,
           \E a, b \in Soc!Unused(w) : a # b, NEW t, NEW before, Soc!Run(w, t, before)
    PROVE  /\ Followed(world') /\ (t = 0 => world'.current = 0)
           /\ refreshing' \in BOOLEAN /\ (refreshing' => world'.current = 0)
<1>1. \/ t # 0 /\ world' = Soc!Effects(w, t, before) /\ refreshing' = FALSE
      \/ world' = w /\ refreshing' \in BOOLEAN
  BY DEF Soc!Run
<1>2. CASE t # 0 /\ world' = Soc!Effects(w, t, before) /\ refreshing' = FALSE
  BY <1>2, EffectsFollow
<1>3. CASE world' = w /\ refreshing' \in BOOLEAN
  BY <1>3
<1> QED
  BY <1>1, <1>2, <1>3

\* Nothing is mounted and nothing made.
LEMMA SocketInit == Soc!Init => SocketInv
<1> SUFFICES ASSUME Soc!Init PROVE SocketInv
  OBVIOUS
<1>1. world \in Worlds
  BY BoundsAreNumbers DEF Soc!Init, Worlds, SocketRecord, ObjectRecord, BoundsAreNumbers
<1>2. world.current = 0 /\ FreshObjects(world)
  BY BoundsAreNumbers DEF Soc!Init, FreshObjects, BoundsAreNumbers
<1>3. Followed(world)
  BY <1>1, <1>2 DEF Soc!Init, Followed
<1> QED
  BY <1>2, <1>3 DEF Soc!Init, SocketInv

\* A socket opens.
LEMMA SocketOpens ==
    ASSUME SocketInv, NEW s \in Soc!Sockets, Soc!Opens(s) PROVE SocketInv'
<1> DEFINE k == world.socket[s].of
<1>1. /\ world \in Worlds /\ FreshObjects(world) /\ Followed(world)
      /\ world.socket[s].state = "connecting"
      /\ UNCHANGED <<token, issued, mounted, prev, refreshing, orphans>>
  BY DEF SocketInv, Followed, Soc!Opens, Soc!hook
<1>2. /\ world'.socket = [world.socket EXCEPT ![s] = [world.socket[s] EXCEPT !.state = "open"]]
      /\ world'.object = [world.object EXCEPT ![k] = [world.object[k] EXCEPT !.push = TRUE]]
      /\ world'.made = world.made /\ world'.current = world.current
      /\ world' = [socket |-> world'.socket, object |-> world'.object, made |-> world'.made,
                   current |-> world'.current]
  BY <1>1 DEF Soc!Opens, Worlds
<1>3. world.socket[s] \in SocketRecord /\ \A j \in Soc!Objects : world.object[j] \in ObjectRecord
  BY <1>1 DEF Worlds
<1>4. [world.socket[s] EXCEPT !.state = "open"] \in SocketRecord
      /\ \A j \in Soc!Objects : [world.object[j] EXCEPT !.push = TRUE] \in ObjectRecord
  BY <1>3 DEF SocketRecord, ObjectRecord
<1>5. world' \in Worlds
  BY <1>1, <1>2, <1>4 DEF Worlds
<1>6. \A j \in Soc!Objects : /\ world'.object[j].ws = world.object[j].ws
                             /\ world'.object[j].timer = world.object[j].timer
  BY <1>1, <1>2, <1>3 DEF Worlds, ObjectRecord
<1>7. /\ world'.socket[s].wired = world.socket[s].wired /\ world'.socket[s].of = world.socket[s].of
      /\ world'.socket[s].state = "open"
      /\ \A t \in Soc!Sockets \ {s} : world'.socket[t] = world.socket[t]
  BY <1>1, <1>2, <1>3 DEF Worlds, SocketRecord
<1>8. world.current # 0 => world.current \in Soc!Objects
  BY <1>1, BoundsAreNumbers DEF Worlds, Soc!Objects, BoundsAreNumbers
<1>9. Followed(world')
  <2>1. FreshObjects(world')
    BY <1>1, <1>2, <1>6 DEF FreshObjects
  <2>2. \A j \in Soc!Objects : world'.object[j].timer => j = world'.current
    BY <1>1, <1>2, <1>6 DEF Followed
  <2>3. \A t \in Soc!Sockets : world'.socket[t].wired =>
           /\ world'.current # 0 /\ world'.socket[t].of = world'.current
           /\ t = world'.object[world'.current].ws
           /\ world'.socket[t].state \in {"connecting", "open"}
    BY <1>1, <1>2, <1>6, <1>7, <1>8 DEF Followed
  <2>4. world.current # 0 => world.object[world.current].ws \in Soc!Sockets
    BY <1>1, <1>8, BoundsAreNumbers DEF Followed, Worlds, ObjectRecord, Soc!Sockets, BoundsAreNumbers
  <2>5. ASSUME world.current # 0
        PROVE  LET o == world'.object[world'.current]
               IN  /\ o.ws # 0 /\ (o.timer <=> ~world'.socket[o.ws].wired)
                   /\ o.timer => world'.socket[o.ws].state = "closed"
    <3> DEFINE h == world.object[world.current].ws
    <3>1. /\ h # 0 /\ (world.object[world.current].timer <=> ~world.socket[h].wired)
          /\ world.object[world.current].timer => world.socket[h].state = "closed"
      BY <1>1, <2>5 DEF Followed
    <3>2. /\ world'.object[world'.current].ws = h
          /\ world'.object[world'.current].timer = world.object[world.current].timer
      BY <1>2, <1>6, <1>8, <2>5
    <3>3. world'.socket[h].wired = world.socket[h].wired
          /\ (world.socket[h].state = "closed" => world'.socket[h].state = "closed")
      BY <1>1, <1>7, <2>4, <2>5
    <3> HIDE DEF h
    <3> QED
      BY <3>1, <3>2, <3>3
  <2> QED
    BY <1>2, <1>5, <2>1, <2>2, <2>3, <2>5 DEF Followed
<1> QED
  BY <1>1, <1>2, <1>9 DEF SocketInv

\* A socket closes: while wired, its object starts the reconnect timer.
LEMMA SocketCloses ==
    ASSUME SocketInv, NEW s \in Soc!Sockets, Soc!Closes(s) PROVE SocketInv'
<1> DEFINE k == world.current
<1>1. /\ world \in Worlds /\ FreshObjects(world) /\ Followed(world)
      /\ world.socket[s].state \in {"connecting", "open"}
      /\ UNCHANGED <<token, issued, mounted, prev, refreshing, orphans>>
  BY DEF SocketInv, Followed, Soc!Closes, Soc!hook
<1>2. world.socket[s] \in SocketRecord /\ \A j \in Soc!Objects : world.object[j] \in ObjectRecord
  BY <1>1 DEF Worlds
<1>3. k # 0 => k \in Soc!Objects
  BY <1>1, BoundsAreNumbers DEF Worlds, Soc!Objects, BoundsAreNumbers
<1>4. k # 0 => world.object[k].ws \in Soc!Sockets
  BY <1>1, <1>3, BoundsAreNumbers DEF Followed, Worlds, ObjectRecord, Soc!Sockets, BoundsAreNumbers
<1>5. CASE world.socket[s].wired
  <2>1. k # 0 /\ world.socket[s].of = k /\ s = world.object[k].ws
    BY <1>1, <1>5 DEF Followed
  <2> DEFINE off == [world.socket[s] EXCEPT !.state = "closed", !.wired = FALSE]
             on == [world.object[k] EXCEPT !.push = FALSE, !.timer = TRUE]
  <2>2. world' = [world EXCEPT !.socket[s] = off, !.object[k].push = FALSE, !.object[k].timer = TRUE]
    BY <1>5, <2>1 DEF Soc!Closes
  <2>3. off \in SocketRecord /\ ~off.wired /\ off.state = "closed"
    BY <1>2 DEF SocketRecord
  <2>4. on \in ObjectRecord /\ on.timer /\ on.ws = s
    BY <1>2, <1>3, <2>1 DEF ObjectRecord
  <2>5. /\ world'.socket = [world.socket EXCEPT ![s] = off]
        /\ world'.object = [world.object EXCEPT ![k] = on]
        /\ world'.made = world.made /\ world'.current = k
        /\ world' = [socket |-> world'.socket, object |-> world'.object, made |-> world'.made,
                     current |-> world'.current]
    BY <1>1, <1>2, <1>3, <2>1, <2>2 DEF Worlds, ObjectRecord
  <2> HIDE DEF off, on
  <2>6. world' \in Worlds
    BY <1>1, <2>3, <2>4, <2>5 DEF Worlds
  <2>7. /\ world'.socket[s] = off /\ world'.object[k] = on
        /\ \A t \in Soc!Sockets \ {s} : world'.socket[t] = world.socket[t]
        /\ \A j \in Soc!Objects \ {k} : world'.object[j] = world.object[j]
    BY <1>1, <1>3, <2>1, <2>5 DEF Worlds
  <2>8. FreshObjects(world')
    BY <1>1, <2>1, <2>4, <2>5, <2>7 DEF FreshObjects
  <2>9. \A t \in Soc!Sockets : ~world'.socket[t].wired
    BY <1>1, <2>1, <2>3, <2>7 DEF Followed
  <2>10. Followed(world')
    BY <1>1, <2>1, <2>3, <2>4, <2>5, <2>6, <2>7, <2>8, <2>9 DEF Followed
  <2> QED
    BY <1>1, <2>1, <2>5, <2>10 DEF SocketInv
<1>6. CASE ~world.socket[s].wired
  <2> DEFINE off == [world.socket[s] EXCEPT !.state = "closed"]
  <2>1. /\ world'.socket = [world.socket EXCEPT ![s] = off]
        /\ world'.object = world.object
        /\ world'.made = world.made /\ world'.current = k
        /\ world' = [socket |-> world'.socket, object |-> world'.object, made |-> world'.made,
                     current |-> world'.current]
    BY <1>1, <1>6 DEF Soc!Closes, Worlds
  <2>2. off \in SocketRecord /\ ~off.wired /\ off.state = "closed"
    BY <1>2, <1>6 DEF SocketRecord
  <2> HIDE DEF off
  <2>3. world' \in Worlds
    BY <1>1, <2>1, <2>2 DEF Worlds
  <2>4. world'.socket[s] = off /\ \A t \in Soc!Sockets \ {s} : world'.socket[t] = world.socket[t]
    BY <1>1, <2>1 DEF Worlds
  <2>5. FreshObjects(world')
    BY <1>1, <2>1 DEF FreshObjects
  <2>6. Followed(world')
    BY <1>1, <1>4, <1>6, <2>1, <2>2, <2>3, <2>4, <2>5 DEF Followed
  <2> QED
    BY <1>1, <2>1, <2>6 DEF SocketInv
<1> QED
  BY <1>5, <1>6

\* The reconnect timer fires.
LEMMA SocketTimer ==
    ASSUME SocketInv, NEW k \in Soc!Objects, Soc!TimerFires(k) PROVE SocketInv'
<1> DEFINE off == [world.object[k] EXCEPT !.timer = FALSE]
           w == [world EXCEPT !.object[k] = off]
<1>1. /\ world \in Worlds /\ FreshObjects(world) /\ Followed(world) /\ world.object[k].timer
      /\ UNCHANGED <<token, issued, mounted, prev, refreshing, orphans>>
  BY DEF SocketInv, Followed, Soc!TimerFires, Soc!hook
<1>2. world' = Soc!Connect(w, k)
  BY DEF Soc!TimerFires
<1>3. k = world.current /\ k # 0
  BY <1>1 DEF Followed, Soc!Objects
<1>4. world.object[k] \in ObjectRecord
  BY <1>1 DEF Worlds
<1>5. off \in ObjectRecord /\ ~off.timer /\ off.ws = world.object[k].ws
  BY <1>4 DEF ObjectRecord
<1>6. /\ w.socket = world.socket /\ w.object = [world.object EXCEPT ![k] = off]
      /\ w.made = world.made /\ w.current = k
      /\ w = [socket |-> w.socket, object |-> w.object, made |-> w.made, current |-> w.current]
  <2> HIDE DEF off
  <2>1. w = [socket |-> world.socket, object |-> [world.object EXCEPT ![k] = off],
             made |-> world.made, current |-> world.current]
    BY <1>1, WithObject
  <2> HIDE DEF w
  <2> QED
    BY <1>3, <2>1
<1> HIDE DEF w, off
<1>7. w \in Worlds
  BY <1>1, <1>3, <1>5, <1>6 DEF Worlds
<1>8. w.object[k] = off /\ \A j \in Soc!Objects \ {k} : w.object[j] = world.object[j]
  BY <1>1, <1>6 DEF Worlds
<1>9. world.object[k].ws \in Soc!Sockets
  BY <1>1, <1>3, <1>4, BoundsAreNumbers DEF Followed, ObjectRecord, Soc!Sockets, BoundsAreNumbers
<1>10. ~world.socket[world.object[k].ws].wired /\ world.socket[world.object[k].ws].state = "closed"
  BY <1>1, <1>3 DEF Followed
<1>11. Quiet(w)
  <2>1. FreshObjects(w)
    BY <1>1, <1>3, <1>5, <1>6, <1>8 DEF FreshObjects
  <2>2. \A j \in Soc!Objects : ~w.object[j].timer
    BY <1>1, <1>3, <1>5, <1>8 DEF Followed
  <2>3. \A t \in Soc!Sockets : ~w.socket[t].wired
    BY <1>1, <1>3, <1>6, <1>10 DEF Followed
  <2> QED
    BY <1>7, <2>1, <2>2, <2>3 DEF Quiet
<1>12. Soc!Unused(w) # {}
  BY <1>6 DEF Soc!TimerFires, Soc!Room, Soc!Unused
<1>13. Followed(world') /\ world'.current = k
  <2>1. w.object[k].ws # 0 => w.socket[w.object[k].ws].state # "open"
    BY <1>5, <1>6, <1>8, <1>10
  <2>2. w.current = k
    BY <1>6
  <2>3. Followed(Soc!Connect(w, k)) /\ Soc!Connect(w, k).current = k
    BY <1>11, <1>12, <2>1, <2>2, ConnectFollows
  <2> QED
    BY <1>2, <2>3
<1> QED
  BY <1>1, <1>3, <1>13 DEF SocketInv

\* What the cleaned world offers to the effects that run on it.
LEMMA CleanedRoom ==
    ASSUME SocketInv, Soc!Room
    PROVE  LET w == Soc!Clean(world)
           IN  /\ Quiet(w) /\ Followed(w) /\ w.current = 0 /\ w.made + 1 <= MaxObjects
               /\ \E a, b \in Soc!Unused(w) : a # b
<1> DEFINE w == Soc!Clean(world)
<1>1. Followed(world) /\ world \in Worlds
  BY DEF SocketInv, Followed
<1>2. Quiet(w) /\ Followed(w) /\ w.made = world.made /\ w.current = 0
      /\ Soc!Unused(w) = Soc!Unused(world)
  BY <1>1, CleanQuiets
<1> HIDE DEF w
<1>3. world.made \in Nat /\ world.made + 2 <= MaxObjects
  BY <1>1, BoundsAreNumbers DEF Worlds, Soc!Room, BoundsAreNumbers
<1>4. w.made + 1 <= MaxObjects
  BY <1>2, <1>3, BoundsAreNumbers DEF BoundsAreNumbers
<1>5. \E a, b \in Soc!Unused(world) : a # b
  <2>1. PICK s1, s2, s3 \in Soc!Unused(world) : s1 < s2 /\ s2 < s3
    BY DEF Soc!Room
  <2>2. s1 \in Nat /\ s2 \in Nat
    BY BoundsAreNumbers DEF Soc!Unused, Soc!Sockets, BoundsAreNumbers
  <2>3. s1 # s2
    BY <2>1, <2>2
  <2> QED
    BY <2>3
<1> QED
  BY <1>2, <1>4, <1>5 DEF w

\* A mounted hook that runs its effects on the cleaned world, at any token.
LEMMA CleanedEffects ==
    ASSUME SocketInv, Soc!Room, NEW t, NEW before
    PROVE  LET v == Soc!Effects(Soc!Clean(world), t, before) IN Followed(v)
BY CleanedRoom, EffectsFollow

\* A changed token: the hook, if mounted, cleans up and runs again.
LEMMA SocketToken ==
    ASSUME SocketInv, NEW t, Soc!TokenChanges(t), (IF t = 0 THEN issued ELSE t) \in Nat
    PROVE  SocketInv'
<1>1. /\ Soc!Room /\ token' = t /\ mounted' = mounted
      /\ issued' = IF t = 0 THEN issued ELSE t
  BY DEF Soc!TokenChanges
<1>2. CASE mounted
  <2> DEFINE w == Soc!Clean(world)
  <2>1. Soc!Run(w, t, prev)
    BY <1>2 DEF Soc!TokenChanges
  <2>2. /\ Quiet(w) /\ Followed(w) /\ w.current = 0 /\ w.made + 1 <= MaxObjects
        /\ \E a, b \in Soc!Unused(w) : a # b
    BY <1>1, CleanedRoom
  <2> HIDE DEF w
  <2>3. /\ Followed(world') /\ (t = 0 => world'.current = 0)
        /\ refreshing' \in BOOLEAN /\ (refreshing' => world'.current = 0)
    BY <2>1, <2>2, RunFollows
  <2> QED
    BY <1>1, <1>2, <2>3 DEF SocketInv
<1>3. CASE ~mounted
  <2>1. UNCHANGED <<world, refreshing>>
    BY <1>3 DEF Soc!TokenChanges
  <2> QED
    BY <1>1, <1>3, <2>1 DEF SocketInv
<1> QED
  BY <1>2, <1>3

\* The hook's own refresh: an object is made, cleaned up and made again.
LEMMA SocketRefreshed == ASSUME SocketInv, Soc!Refreshed PROVE SocketInv'
<1>1. /\ Soc!Room /\ mounted /\ world.current = 0 /\ Followed(world) /\ issued \in Nat
      /\ token' = issued + 1 /\ issued' = issued + 1 /\ refreshing' = FALSE /\ mounted' = mounted
      /\ world' = Soc!Effects(Soc!Clean(Soc!Made(world)), issued + 1, prev)
  BY DEF Soc!Refreshed, SocketInv
<1>2. Quiet(world) /\ world.made \in Nat /\ world.made + 2 <= MaxObjects
  BY <1>1, NothingHeld, BoundsAreNumbers DEF Quiet, Worlds, Soc!Room, BoundsAreNumbers
<1>3. PICK s1, s2, s3 \in Soc!Unused(world) : s1 # s2 /\ s2 # s3 /\ s1 # s3
  <2>1. PICK s1, s2, s3 \in Soc!Unused(world) : s1 < s2 /\ s2 < s3
    BY <1>1 DEF Soc!Room
  <2>2. s1 \in Nat /\ s2 \in Nat /\ s3 \in Nat
    BY BoundsAreNumbers DEF Soc!Unused, Soc!Sockets, BoundsAreNumbers
  <2>3. s1 # s2 /\ s2 # s3 /\ s1 # s3
    BY <2>1, <2>2
  <2> QED
    BY <2>3
<1> DEFINE m == Soc!Made(world)
           w == Soc!Clean(m)
<1>4. /\ Followed(m) /\ m.made = world.made + 1
      /\ \E s : Soc!Unused(m) = Soc!Unused(world) \ {s}
  <2>1. world.made + 1 <= MaxObjects /\ Soc!Unused(world) # {}
    BY <1>2, <1>3, BoundsAreNumbers DEF BoundsAreNumbers
  <2> QED
    BY <1>1, <1>2, <2>1, MadeFollows
<1> HIDE DEF m
<1>5. Quiet(w) /\ w.made = m.made /\ w.current = 0 /\ Soc!Unused(w) = Soc!Unused(m)
  BY <1>4, CleanQuiets
<1> HIDE DEF w
<1>6. w.made + 1 <= MaxObjects
  BY <1>2, <1>4, <1>5, BoundsAreNumbers DEF BoundsAreNumbers
<1>7. \E a, b \in Soc!Unused(w) : a # b
  BY <1>3, <1>4, <1>5
<1>8. Followed(Soc!Effects(w, issued + 1, prev))
  BY <1>5, <1>6, <1>7, EffectsFollow
<1>9. Followed(world')
  BY <1>1, <1>8 DEF w, m
<1>10. token' # 0
  BY <1>1
<1>11. issued' \in Nat
  BY <1>1
<1> QED
  BY <1>1, <1>9, <1>10, <1>11 DEF SocketInv

\* Every step keeps the invariant.
LEMMA SocketStep == SocketInv /\ [Soc!Next]_Soc!vars => SocketInv'
<1> SUFFICES ASSUME SocketInv, [Soc!Next]_Soc!vars PROVE SocketInv'
  OBVIOUS
<1>1. CASE Soc!Mount
  <2>1. /\ mounted' = TRUE /\ token' = token /\ issued' = issued /\ Soc!Room
        /\ Soc!Run(world, token, token) /\ world.current = 0
    BY <1>1 DEF Soc!Mount, SocketInv
  <2>2. Quiet(world) /\ Followed(world)
    BY <2>1, NothingHeld DEF SocketInv
  <2>3. Soc!Clean(world) = world
    BY <2>1 DEF Soc!Clean
  <2>4. world.made + 1 <= MaxObjects /\ \E a, b \in Soc!Unused(world) : a # b
    BY <2>1, <2>3, CleanedRoom
  <2>5. /\ Followed(world') /\ (token = 0 => world'.current = 0)
        /\ refreshing' \in BOOLEAN /\ (refreshing' => world'.current = 0)
    BY <2>1, <2>2, <2>4, RunFollows
  <2> QED
    BY <2>1, <2>5 DEF SocketInv
<1>2. CASE Soc!Unmount
  <2>1. Followed(Soc!Clean(world)) /\ Soc!Clean(world).current = 0
    BY CleanQuiets DEF SocketInv
  <2> QED
    BY <1>2, <2>1 DEF Soc!Unmount, SocketInv
<1>3. CASE Soc!NewToken
  <2>1. issued \in Nat /\ Soc!TokenChanges(issued + 1)
    BY <1>3 DEF Soc!NewToken, SocketInv
  <2>2. (IF issued + 1 = 0 THEN issued ELSE issued + 1) \in Nat
    BY <2>1
  <2> QED
    BY <2>1, <2>2, SocketToken
<1>4. CASE Soc!SignOut
  <2>1. (IF 0 = 0 THEN issued ELSE 0) \in Nat
    BY DEF SocketInv
  <2> QED
    BY <1>4, <2>1, SocketToken DEF Soc!SignOut
<1>5. CASE Soc!Refreshed
  BY <1>5, SocketRefreshed
<1>6. CASE Soc!RefreshFails
  BY <1>6 DEF Soc!RefreshFails, SocketInv
<1>7. CASE Soc!OrphanRefreshed
  <2>1. /\ token' = issued + 1 /\ issued' = issued + 1 /\ issued \in Nat /\ Soc!Room
        /\ mounted' = mounted
    BY <1>7 DEF Soc!OrphanRefreshed, SocketInv
  <2>2. token' # 0 /\ issued' \in Nat
    BY <2>1
  <2>3. CASE mounted
    <3>1. refreshing' = FALSE /\ world' = Soc!Effects(Soc!Clean(world), token', prev)
      BY <1>7, <2>3 DEF Soc!OrphanRefreshed
    <3>2. Followed(world')
      BY <2>1, <3>1, CleanedEffects
    <3> QED
      BY <2>1, <2>2, <2>3, <3>1, <3>2 DEF SocketInv
  <2>4. CASE ~mounted
    <3>1. UNCHANGED <<world, refreshing>>
      BY <1>7, <2>4 DEF Soc!OrphanRefreshed
    <3> QED
      BY <2>1, <2>2, <2>4, <3>1 DEF SocketInv
  <2> QED
    BY <2>3, <2>4
<1>8. CASE Soc!OrphanFails
  BY <1>8 DEF Soc!OrphanFails, SocketInv
<1>9. ASSUME NEW s \in Soc!Sockets, Soc!Opens(s) PROVE SocketInv'
  BY <1>9, SocketOpens
<1>10. ASSUME NEW s \in Soc!Sockets, Soc!Closes(s) PROVE SocketInv'
  BY <1>10, SocketCloses
<1>11. ASSUME NEW k \in Soc!Objects, Soc!TimerFires(k) PROVE SocketInv'
  BY <1>11, SocketTimer
<1>12. CASE UNCHANGED Soc!vars
  BY <1>12 DEF Soc!vars, SocketInv
<1> QED
  BY <1>1, <1>2, <1>3, <1>4, <1>5, <1>6, <1>7, <1>8, <1>9, <1>10, <1>11, <1>12 DEF Soc!Next

\* Wired sockets and reconnect timers belong to the object the hook holds, which
\* has exactly one of the two (use-location-socket.ts and locations.ts).
THEOREM HookIsFollowed == Soc!Spec => []SocketFollowsHook
<1>1. SocketInv => SocketFollowsHook
  <2> SUFFICES ASSUME SocketInv PROVE SocketFollowsHook
    OBVIOUS
  <2>1. Followed(world) /\ (~mounted \/ token = 0 => world.current = 0)
    BY DEF SocketInv
  <2> QED
    BY <2>1 DEF Followed, SocketFollowsHook, Soc!SocketFollowsHook
<1> QED
  BY SocketInit, SocketStep, <1>1, PTL DEF Soc!Spec
=============================================================================
