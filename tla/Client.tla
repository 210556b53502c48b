------------------------------- MODULE Client -------------------------------
(***************************************************************************)
(* The browser's session: the auth store, the two interceptors of the API  *)
(* client that keep its tokens fresh, and the user who signs in and out    *)
(* while requests are under way.  A token is represented by the user it    *)
(* was issued to.  What runs without an await is one step.                 *)
(***************************************************************************)
CONSTANTS People, Requests

VARIABLES
    store,      \* the auth store: accessToken and its age, refreshToken, user
    renewal,    \* refreshPromise: whose tokens the shared refresh will bring
    call,       \* every request made through the client
    crossed     \* a session began or ended while a request or a refresh was out

vars == <<store, renewal, call, crossed>>

Nobody == {}
Whose == {Nobody} \cup {{p} : p \in People}
Phases == {"new", "awaiting", "sent", "renewing", "done"}

TypeOK ==
    /\ store \in [access : Whose, expired : BOOLEAN, refresh : Whose, user : Whose]
    /\ renewal \in Whose
    /\ call \in [Requests -> [phase : Phases, by : Whose, header : Whose, renewed : Whose,
                              retried : BOOLEAN]]
    /\ crossed \in BOOLEAN

SignedOut == [access |-> Nobody, expired |-> FALSE, refresh |-> Nobody, user |-> Nobody]

Init ==
    /\ store = SignedOut
    /\ renewal = Nobody
    /\ call = [r \in Requests |-> [phase |-> "new", by |-> Nobody, header |-> Nobody,
                                   renewed |-> Nobody, retried |-> FALSE]]
    /\ crossed = FALSE

-----------------------------------------------------------------------------
Out == {r \in Requests : call[r].phase \in {"awaiting", "sent", "renewing"}}
Renewing == {r \in Requests : call[r].phase = "renewing"}

\* Fault: an empty refresh token leaves the one from before in place.
KeepsRefresh(p, refresh) ==
    [access |-> {p}, expired |-> FALSE, user |-> {p},
     refresh |-> IF refresh = Nobody THEN store.refresh ELSE refresh]

LoggedIn(p, refresh) ==
    [access |-> {p}, expired |-> FALSE, refresh |-> refresh, user |-> {p}]

\* A member of the staff gets two tokens; a customer with a magic link gets an
\* access token and an empty refresh token.
Login(p, refresh) ==
    /\ store' = LoggedIn(p, refresh)
    /\ crossed' = (crossed \/ Out # {})
    /\ UNCHANGED <<renewal, call>>

Logout ==
    /\ store.user # Nobody
    /\ store' = SignedOut
    /\ crossed' = (crossed \/ Out # {})
    /\ UNCHANGED <<renewal, call>>

\* isTokenExpired turns true, thirty seconds early.
AccessExpires ==
    /\ store.access # Nobody /\ ~store.expired
    /\ store' = [store EXCEPT !.expired = TRUE]
    /\ UNCHANGED <<renewal, call, crossed>>

\* setTokens leaves the user alone.
WithTokens(whose) == [store EXCEPT !.access = whose, !.expired = FALSE, !.refresh = whose]

-----------------------------------------------------------------------------
\* The request interceptor: with an expired token it waits for the refresh that
\* is under way, or starts one; otherwise it sends what the store holds.
MustRenew == store.access # Nobody /\ store.expired /\ store.refresh # Nobody

Issue(r) ==
    /\ call[r].phase = "new"
    /\ \/ /\ MustRenew
          /\ renewal' = IF renewal = Nobody THEN store.refresh ELSE renewal
          /\ call' = [call EXCEPT ![r].phase = "awaiting", ![r].by = store.user]
       \/ /\ ~MustRenew
          /\ call' = [call EXCEPT ![r].phase = "sent", ![r].by = store.user,
                                  ![r].header = store.access]
          /\ UNCHANGED renewal
    /\ UNCHANGED <<store, crossed>>

\* The shared refresh is answered: everyone who waits sends with the new token.
Renewed ==
    /\ renewal # Nobody
    /\ store' = WithTokens(renewal)
    /\ call' = [r \in Requests |->
           IF call[r].phase = "awaiting"
           THEN [call[r] EXCEPT !.phase = "sent", !.header = renewal] ELSE call[r]]
    /\ renewal' = Nobody
    /\ UNCHANGED crossed

\* It is refused: the store is emptied, and they send without a token.
RenewalRefused ==
    /\ renewal # Nobody
    /\ store' = SignedOut
    /\ call' = [r \in Requests |->
           IF call[r].phase = "awaiting" THEN [call[r] EXCEPT !.phase = "sent"] ELSE call[r]]
    /\ renewal' = Nobody
    /\ crossed' = (crossed \/ Renewing # {})

Settle(r) ==
    /\ call' = [call EXCEPT ![r].phase = "done"]
    /\ UNCHANGED <<store, renewal, crossed>>

\* An answer other than 401, or the network gives up.
Answered(r) == call[r].phase = "sent" /\ Settle(r)

\* Fault: the mark on the request is not looked at.
Anyhow(r) == store.refresh # Nobody

\* The response interceptor tries once, if it has a refresh token.
MayRetry(r) == ~call[r].retried /\ store.refresh # Nobody

Unauthorized(r) ==
    /\ call[r].phase = "sent"
    /\ \/ MayRetry(r) /\ call' = [call EXCEPT ![r].phase = "renewing", ![r].retried = TRUE,
                                              ![r].renewed = store.refresh]
       \/ ~MayRetry(r) /\ call' = [call EXCEPT ![r].phase = "done", ![r].retried = TRUE]
    /\ UNCHANGED <<store, renewal, crossed>>

\* Its own refresh, shared with nobody, is answered: the request goes out again
\* through the request interceptor, which finds the new token.
RenewedAlone(r) ==
    /\ call[r].phase = "renewing"
    /\ store' = WithTokens(call[r].renewed)
    /\ call' = [call EXCEPT ![r].phase = "sent", ![r].header = call[r].renewed]
    /\ UNCHANGED <<renewal, crossed>>

RefusedAlone(r) ==
    /\ call[r].phase = "renewing"
    /\ store' = SignedOut
    /\ call' = [call EXCEPT ![r].phase = "done"]
    /\ crossed' = (crossed \/ renewal # Nobody \/ Renewing # {r})
    /\ UNCHANGED renewal

Network ==
    \/ Renewed \/ RenewalRefused
    \/ \E r \in Requests : Answered(r) \/ Unauthorized(r) \/ RenewedAlone(r) \/ RefusedAlone(r)

Next ==
    \/ \E p \in People, refresh \in Whose : refresh \subseteq {p} /\ Login(p, refresh)
    \/ Logout \/ AccessExpires
    \/ \E r \in Requests : Issue(r)
    \/ Network

Spec == Init /\ [][Next]_vars

\* Every call the browser has out is answered or fails at last.
Fairness ==
    /\ WF_vars(Renewed \/ RenewalRefused)
    /\ \A r \in Requests :
         WF_vars(Answered(r) \/ Unauthorized(r) \/ RenewedAlone(r) \/ RefusedAlone(r))

FairSpec == Spec /\ Fairness

-----------------------------------------------------------------------------
\* Unless a session began or ended while a request or a second refresh was out,
\* the store never mixes two people, and a request goes out with the token of
\* the person who made it or with none (client.ts writes the answer of a refresh
\* into whatever the store holds by then).
StoreIsOnePersons == store.access \subseteq store.user /\ store.refresh \subseteq store.user

SentAsOneself ==
    \A r \in Requests : call[r].phase = "sent" =>
        call[r].header \subseteq call[r].by

OnePersonUnlessCrossed == ~crossed => StoreIsOnePersons /\ SentAsOneself

\* Every request is answered or rejected in the end: nothing waits for a refresh
\* that is over, and nothing is retried without end.
RequestsSettle ==
    \A r \in Requests : (call[r].phase \in {"awaiting", "sent", "renewing"}) ~> (call[r].phase = "done")
=============================================================================
