------------------------------ MODULE Sessions ------------------------------
(***************************************************************************)
(* Who is let in: a user of the staff who logs in, refreshes the tokens,   *)
(* sends requests and opens a socket while the head office deactivates the *)
(* account, resets the password or changes the role; and a customer with a *)
(* magic link.  A request is asked for the user's row and then for the     *)
(* deny list; a socket for the deny list alone, once, and then stays.      *)
(* Handlers are split at their round trips to the database and to Redis;   *)
(* one that answers 401 at once is a step that is not enabled.             *)
(***************************************************************************)
CONSTANTS Guests

VARIABLES
    account,    \* the row of users, and whether its role was ever changed
    denied,     \* the key revoked:user:<id>
    tokens,     \* the unexpired tokens handed out, with the role and profile they name
    link,       \* whether the customer's row holds an access token
    visit       \* what each handler is doing, and for which role and profile

vars == <<account, denied, tokens, link, visit>>

Roles == {"HQ", "COORDINATOR"}
Profiles == {"COORDINATOR", "none"}
Phases == {"idle", "revoke", "issue", "guard", "served", "door", "connected", "consume", "sign"}

\* What a token, a request or a socket goes by.
Identity == [role : Roles \cup {"CUSTOMER"}, profile : Profiles]
Customer == [role |-> "CUSTOMER", profile |-> "none"]
User(profile) == [role |-> account.role, profile |-> profile]

\* Nobody reads the role in a refresh token.
Tokens == [type : {"access"}, as : Identity]
          \cup {[type |-> "refresh", as |-> Customer], [type |-> "customer", as |-> Customer]}

TypeOK ==
    /\ account \in [active : BOOLEAN, role : Roles, secret : {"old", "new"}, moved : BOOLEAN]
    /\ denied \in BOOLEAN
    /\ tokens \subseteq Tokens
    /\ link \in BOOLEAN
    /\ visit \in [Guests -> [phase : Phases, as : Identity]]

Idle == [phase |-> "idle", as |-> Customer]

Init ==
    /\ account \in [active : {TRUE}, role : Roles, secret : {"old"}, moved : {FALSE}]
    /\ denied = FALSE
    /\ tokens = {}
    /\ link = TRUE
    /\ visit = [h \in Guests |-> Idle]

-----------------------------------------------------------------------------
Enter(h, phase, identity) ==
    /\ visit[h].phase = "idle"
    /\ visit' = [visit EXCEPT ![h] = [phase |-> phase, as |-> identity]]
    /\ UNCHANGED <<account, denied, tokens, link>>

Turn(h, from, to) ==
    /\ visit[h].phase = from
    /\ visit' = [visit EXCEPT ![h].phase = to]

Leave(h, from) ==
    /\ visit[h].phase = from
    /\ visit' = [visit EXCEPT ![h] = Idle]

\* A request is answered; a socket is closed.
Finish(h) ==
    /\ Leave(h, "served") \/ Leave(h, "connected")
    /\ UNCHANGED <<account, denied, tokens, link>>

\* The check of is_active, and the lack of it.
Unchecked == TRUE
MayEnter == account.active

\* login and refresh read the user: a deactivated one goes to the deny list,
\* any other gets tokens for the role that was read.
Admit(h) == Enter(h, IF MayEnter THEN "issue" ELSE "revoke", User("none"))

\* A deactivated user is denied whatever the password.
Login(h, secret) ==
    /\ account.active => secret = account.secret
    /\ Admit(h)

Refresh(h) ==
    /\ \E t \in tokens : t.type = "refresh"
    /\ Admit(h)

Revoke(h) ==
    /\ Leave(h, "revoke")
    /\ denied' = TRUE
    /\ UNCHANGED <<account, tokens, link>>

\* resolveProfileId: the profile of that role, or none when the role has no
\* profile or the lookup fails.
Resolved(role) == IF role = "HQ" THEN {"none"} ELSE {role, "none"}

\* The role that was read goes into the token with the profile looked up for
\* it; and the profile looked up for the role of the row by now.
IssueFor(h, role) ==
    /\ Leave(h, "issue")
    /\ \E p \in Resolved(role) :
         tokens' = tokens \cup {[type |-> "access", as |-> [visit[h].as EXCEPT !.profile = p]],
                                [type |-> "refresh", as |-> Customer]}
    /\ UNCHANGED <<account, denied, link>>

GenerateTokensAnew(h) == IssueFor(h, account.role)
GenerateTokens(h) == IssueFor(h, visit[h].as.role)

\* JwtStrategy: a customer's token says it all; for a user, the role comes from
\* the row and the profile from the token.
Validate(h, t) ==
    \/ /\ t.type = "customer"
       /\ Enter(h, "guard", Customer)
    \/ /\ t.type = "access" /\ MayEnter
       /\ Enter(h, "guard", User(t.as.profile))

\* WsAuthService: the row is not read, and a customer is not asked for at all.
OpenSocket(h, t) ==
    \/ t.type = "customer" /\ Enter(h, "connected", Customer)
    \/ t.type = "access" /\ Enter(h, "door", t.as)

\* JwtAuthGuard and WsAuthService ask the deny list, where no customer is.
Refused(h) == denied /\ visit[h].as.role # "CUSTOMER"

CheckDenied(h) ==
    /\ \/ Refused(h) /\ (Leave(h, "guard") \/ Leave(h, "door"))
       \/ ~Refused(h) /\ (Turn(h, "guard", "served") \/ Turn(h, "door", "connected"))
    /\ UNCHANGED <<account, denied, tokens, link>>

\* consumeAccessToken: the customer is found by the token, then the token is
\* cleared by the customer's id, and a customer's token is signed.
UseLink(h) == link /\ Enter(h, "consume", Customer)

ConsumeLink(h) ==
    /\ Turn(h, "consume", "sign")
    /\ link' = FALSE
    /\ UNCHANGED <<account, denied, tokens>>

SignCustomer(h) ==
    /\ Leave(h, "sign")
    /\ tokens' = tokens \cup {[type |-> "customer", as |-> Customer]}
    /\ UNCHANGED <<account, denied, link>>

-----------------------------------------------------------------------------
\* The updates of the row; the read before each only answers 404, and none of
\* them touches the tokens, the sockets or the deny list.
Deactivate ==
    /\ account' = [account EXCEPT !.active = FALSE]
    /\ UNCHANGED <<denied, tokens, link, visit>>

ResetPassword ==
    /\ account' = [account EXCEPT !.secret = "new"]
    /\ UNCHANGED <<denied, tokens, link, visit>>

ChangeRole ==
    /\ account' = [account EXCEPT !.role = CHOOSE r \in Roles : r # @, !.moved = TRUE]
    /\ UNCHANGED <<denied, tokens, link, visit>>

\* Tokens and the deny list's key run out.
Expire ==
    /\ \/ \E t \in tokens : tokens' = tokens \ {t} /\ UNCHANGED denied
       \/ denied' = FALSE /\ UNCHANGED tokens
    /\ UNCHANGED <<account, link, visit>>

Next ==
    \/ \E h \in Guests :
         \/ \E secret \in {"old", "new"} : Login(h, secret)
         \/ \E t \in tokens : Validate(h, t) \/ OpenSocket(h, t)
         \/ Refresh(h) \/ Revoke(h) \/ GenerateTokens(h) \/ CheckDenied(h) \/ Finish(h)
         \/ UseLink(h) \/ ConsumeLink(h) \/ SignCustomer(h)
    \/ Deactivate \/ ResetPassword \/ ChangeRole \/ Expire

Spec == Init /\ [][Next]_vars

-----------------------------------------------------------------------------
\* A deactivation does not cut anybody off at once: sockets stay, access tokens
\* still open sockets, and a login that read the row before may still issue some.
\* But once these are gone, whatever refresh tokens are left and whenever the
\* deny list's key runs out, the user never comes back, by request or by socket.
\* Nor does the customer, once the link is spent and its tokens ran out.  And
\* the deny list is only filled for a deactivated user.
StaffOut ==
    /\ ~account.active
    /\ \A t \in tokens : t.type # "access"
    /\ \A h \in Guests : visit[h].as.role # "CUSTOMER" => visit[h].phase = "revoke"

CustomerOut ==
    /\ ~link
    /\ \A t \in tokens : t.type # "customer"
    /\ \A h \in Guests : visit[h].as.role = "CUSTOMER" => visit[h].phase = "idle"

StayOut ==
    /\ StaffOut => StaffOut'
    /\ CustomerOut => CustomerOut'
    /\ denied' => denied \/ ~account.active

OutForGood == [][StayOut]_vars

\* The role and the profile a token names fit, and so do those of every socket,
\* whatever became of the row while the token was made.  A request goes by the
\* row's role and the token's profile, which fit until the role is changed.
Fits(identity) == identity.profile \in {identity.role, "none"}

ProfileFitsRole ==
    /\ \A t \in tokens : Fits(t.as)
    /\ \A h \in Guests :
         (visit[h].phase \in {"guard", "served"} => ~account.moved) => Fits(visit[h].as)
=============================================================================
