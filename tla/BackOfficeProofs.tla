-------------------------- MODULE BackOfficeProofs --------------------------
(***************************************************************************)
(* What the components of the back end around the work orders keep, for    *)
(* any number of handlers, orders and attempts.                            *)
(***************************************************************************)
EXTENDS MCBackOffice, TLAPS

-----------------------------------------------------------------------------
(***************************************************************************)
(* Ratings.  A transaction that is still alone has counted and averaged    *)
(* over the committed ratings and its own.                                 *)
(***************************************************************************)
AloneSeesAll ==
    \A h \in Raters : Rat!InTransaction(h) /\ rater[h].alone =>
        /\ rater[h].phase \in {"average", "write"} => rater[h].count = Rat!Sees(h)
        /\ rater[h].phase = "write" => rater[h].average = Rat!Sees(h)

RatingsInv == Rat!TypeOK /\ AloneSeesAll /\ FiguresExactOnceSettled

\* The technician's figures start over no ratings.
LEMMA RatingsInit == Rat!Init => RatingsInv
<1> SUFFICES ASSUME Rat!Init PROVE RatingsInv
  OBVIOUS
<1>1. \A h \in Raters : \E o \in Rated : rater[h] = Rat!Rater("idle", o, FALSE)
  BY DEF Rat!Init
<1>2. \A h \in Raters : rater[h].phase = "idle"
  <2>1. \A o : Rat!Rater("idle", o, FALSE).phase = "idle"
    BY DEF Rat!Rater
  <2> QED
    BY <1>1, <2>1
<1>3. Rat!TypeOK
  <2>1. \A o \in Rated : Rat!Rater("idle", o, FALSE) \in
          [phase : Rat!Phases, order : Rated, alone : BOOLEAN,
           count : SUBSET Rated, average : SUBSET Rated]
    BY DEF Rat!Rater, Rat!Phases
  <2> QED
    BY <1>1, <2>1 DEF Rat!Init, Rat!TypeOK
<1> QED
  BY <1>2, <1>3 DEF Rat!Init, RatingsInv, AloneSeesAll, Rat!InTransaction,
                    FiguresExactOnceSettled, Rat!FiguresExactOnceSettled

\* Every step of a handler keeps the invariant.
LEMMA RatingsStep == RatingsInv /\ [Rat!Next]_Rat!vars => RatingsInv'
<1> SUFFICES ASSUME RatingsInv, [Rat!Next]_Rat!vars PROVE RatingsInv'
  OBVIOUS
<1> USE DEF RatingsInv, Rat!TypeOK, Rat!Phases, AloneSeesAll, Rat!InTransaction, Rat!Sees,
            FiguresExactOnceSettled, Rat!FiguresExactOnceSettled
<1>1. ASSUME NEW h \in Raters, NEW o \in Rated, Rat!CheckOrder(h, o) \/ Rat!FindRating(h, o)
      PROVE  RatingsInv'
  <2>1. PICK phase \in {"insert", "delete"} :
           rater' = [rater EXCEPT ![h] = Rat!Rater(phase, o, FALSE)]
    BY <1>1 DEF Rat!CheckOrder, Rat!FindRating
  <2>2. UNCHANGED <<ratings, figures, settled>>
    BY <1>1 DEF Rat!CheckOrder, Rat!FindRating
  <2> QED
    BY <2>1, <2>2 DEF Rat!Rater
<1>2. ASSUME NEW h \in Raters, Rat!Insert(h) PROVE RatingsInv'
  <2>1. rater[h].phase = "insert" /\ UNCHANGED <<ratings, figures, settled>>
    BY <1>2 DEF Rat!Insert
  <2>2. CASE rater[h].order \in ratings
    <3>1. rater' = [rater EXCEPT ![h].phase = "idle"]
      BY <1>2, <2>2 DEF Rat!Insert
    <3> QED
      BY <2>1, <3>1
  <2>3. CASE rater[h].order \notin ratings
    <3> DEFINE entry == Rat!Rater("count", rater[h].order, ~ \E g \in Raters : Rat!InTransaction(g))
    <3>1. entry \in [phase : Rat!Phases, order : Rated, alone : BOOLEAN,
                     count : SUBSET Rated, average : SUBSET Rated]
          /\ entry.phase = "count"
      BY DEF Rat!Rater
    <3>2. rater' = [g \in Raters |-> IF g = h THEN entry ELSE [rater[g] EXCEPT !.alone = FALSE]]
      BY <1>2, <2>3 DEF Rat!Insert, Rat!NotAlone
    <3> HIDE DEF entry
    <3>3. Rat!TypeOK'
      BY <2>1, <3>1, <3>2
    <3>4. \A g \in Raters : ~rater'[g].alone \/ rater'[g].phase = "count"
      BY <3>1, <3>2
    <3> QED
      BY <2>1, <3>3, <3>4
  <2> QED
    BY <2>2, <2>3
<1>3. ASSUME NEW h \in Raters, Rat!Count(h) \/ Rat!Average(h) PROVE RatingsInv'
  BY <1>3 DEF Rat!Count, Rat!Average
<1>4. ASSUME NEW h \in Raters, Rat!Commit(h) PROVE RatingsInv'
  BY <1>4 DEF Rat!Commit, Rat!NotAlone, Rat!Rater
<1>5. ASSUME NEW h \in Raters, Rat!Rollback(h) PROVE RatingsInv'
  BY <1>5 DEF Rat!Rollback, Rat!Rater
<1>6. ASSUME NEW h \in Raters, Rat!DeleteRating(h) PROVE RatingsInv'
  <2> DEFINE entry == Rat!Rater("idle", rater[h].order, FALSE)
  <2>1. entry \in [phase : Rat!Phases, order : Rated, alone : BOOLEAN,
                   count : SUBSET Rated, average : SUBSET Rated]
        /\ entry.phase = "idle"
    BY DEF Rat!Rater
  <2>2. rater' = [g \in Raters |-> IF g = h THEN entry ELSE [rater[g] EXCEPT !.alone = FALSE]]
        /\ rater[h].phase = "delete" /\ ratings' = ratings \ {rater[h].order}
        /\ settled' = (settled /\ rater[h].order \notin ratings) /\ UNCHANGED figures
    BY <1>6 DEF Rat!DeleteRating, Rat!NotAlone
  <2> HIDE DEF entry
  <2>3. Rat!TypeOK'
    BY <2>1, <2>2
  <2>4. \A g \in Raters : ~rater'[g].alone \/ rater'[g].phase = "idle"
    BY <2>1, <2>2
  <2>5. AloneSeesAll'
    BY <2>4
  <2>6. FiguresExactOnceSettled'
    <3>1. ASSUME settled' PROVE ratings' = ratings
      <4>1. rater[h].order \notin ratings
        BY <2>2, <3>1, Zenon
      <4> QED
        BY <2>2, <4>1, Zenon
    <3> QED
      BY <2>2, <3>1
  <2> QED
    BY <2>3, <2>5, <2>6
<1>7. CASE UNCHANGED Rat!vars
  BY <1>7 DEF Rat!vars
<1> QED
  BY <1>1, <1>2, <1>3, <1>4, <1>5, <1>6, <1>7 DEF Rat!Next

\* Count and average are those of the committed ratings whenever the last write
\* was by a transaction that overlapped no other write (create, delete).
THEOREM RatingFigures == Rat!Spec => []FiguresExactOnceSettled
<1>1. RatingsInv => FiguresExactOnceSettled
  BY DEF RatingsInv
<1> QED
  BY RatingsInit, RatingsStep, <1>1, PTL DEF Rat!Spec

-----------------------------------------------------------------------------
(***************************************************************************)
(* Catalog.  A dealer that may delete a customer has an order for it, and  *)
(* an order never stops naming its rows.                                   *)
(***************************************************************************)
UncreatedNameNothing == \A o \in Orders : order[o].status = "none" => order[o].names = {}

DealersHaveOrders ==
    \A h \in Clerks : clerk[h].phase # "idle" =>
        /\ clerk[h].by # "OTHER_DEALER"
        /\ clerk[h].by = "NO_PROFILE" => clerk[h].row = "customer"
        /\ clerk[h].by = "DEALER" /\ clerk[h].row = "customer" => Cat!OrdersOf("customer") # {}

CatalogInv ==
    Cat!TypeOK /\ UncreatedNameNothing /\ DealersHaveOrders /\ DeletedWasUnused

\* Both rows are there and nothing was deleted.
LEMMA CatalogInit == Cat!Init => CatalogInv
BY DEF Cat!Init, CatalogInv, Cat!TypeOK, Cat!Rows, Cat!Deleters, UncreatedNameNothing, DealersHaveOrders,
       DeletedWasUnused, Cat!DeletedWasUnused, Cat!OrdersKeepTheirRows, Cat!DealersKeepCustomers

\* Every step keeps the invariant.
LEMMA CatalogStep == CatalogInv /\ [Cat!Next]_Cat!vars => CatalogInv'
<1> SUFFICES ASSUME CatalogInv, [Cat!Next]_Cat!vars PROVE CatalogInv'
  OBVIOUS
<1> USE DEF CatalogInv, Cat!TypeOK, Cat!Rows, Cat!Deleters, UncreatedNameNothing, DealersHaveOrders,
            DeletedWasUnused, Cat!DeletedWasUnused, Cat!OrdersKeepTheirRows,
            Cat!DealersKeepCustomers, Cat!OrdersOf
<1>1. ASSUME NEW o \in Orders, NEW names \in SUBSET Cat!Rows, Cat!CreateOrder(o, names)
      PROVE  CatalogInv'
  <2>1. \A p \in Orders : order[p].names \subseteq order'[p].names
    BY <1>1 DEF Cat!CreateOrder
  <2> QED
    BY <1>1, <2>1 DEF Cat!CreateOrder
<1>2. ASSUME NEW o \in Orders, Cat!CloseOrder(o) PROVE CatalogInv'
  BY <1>2 DEF Cat!CloseOrder
<1>3. ASSUME NEW h \in Clerks, NEW r \in Cat!Rows, NEW by \in Cat!Deleters, Cat!Remove(h, r, by)
      PROVE  CatalogInv'
  BY <1>3 DEF Cat!Remove, Cat!MayTouch
<1>4. ASSUME NEW h \in Clerks, Cat!CountOrders(h) PROVE CatalogInv'
  BY <1>4 DEF Cat!CountOrders
<1>5. ASSUME NEW h \in Clerks, Cat!DeleteRow(h) PROVE CatalogInv'
  BY <1>5 DEF Cat!DeleteRow, Cat!Restricted
<1>6. CASE UNCHANGED Cat!vars
  BY <1>6 DEF Cat!vars
<1> QED
  BY <1>1, <1>2, <1>3, <1>4, <1>5, <1>6 DEF Cat!Next

\* No order names a deleted row, whatever was added since the count; a dealer with a
\* profile deletes no customer, and nobody deletes the device of another dealer
\* (remove, its access check and its count).
THEOREM DeletionsWereUnused == Cat!Spec => []DeletedWasUnused
<1>1. CatalogInv => DeletedWasUnused
  BY DEF CatalogInv
<1> QED
  BY CatalogInit, CatalogStep, <1>1, PTL DEF Cat!Spec

-----------------------------------------------------------------------------
(***************************************************************************)
(* Registration.  An approver under way was entitled to what it read; and  *)
(* as long as no two handlers overlapped, what a handler read still holds. *)
(***************************************************************************)
DecidersEntitled ==
    \A h \in Handlers : desk[h].phase = "grant" => Reg!MayDecide(desk[h].by, desk[h].form.role)

AloneReadsHold ==
    ~raced =>
        /\ \A g, h \in Handlers : desk[g].phase # "idle" /\ desk[h].phase # "idle" => g = h
        /\ \A h \in Handlers :
             /\ desk[h].phase \in {"check", "store"} => holder = "nobody"
             /\ desk[h].phase \in {"grant", "refuse"} =>
                  request.status = "PENDING" /\ request.form = desk[h].form

RegistrationInv ==
    Reg!TypeOK /\ DecidersEntitled /\ AloneReadsHold /\ AccountsMatchDecisions

\* There is no request, no user and no handler under way.
LEMMA RegistrationInit == Reg!Init => RegistrationInv
<1> SUFFICES ASSUME Reg!Init PROVE RegistrationInv
  OBVIOUS
<1>1. Reg!TypeOK
  BY DEF Reg!Init, Reg!TypeOK, Reg!Phases, Reg!Approvers
<1>2. \A h \in Handlers : desk[h].phase = "idle"
  BY DEF Reg!Init
<1>3. AccountsMatchDecisions
  BY DEF Reg!Init, AccountsMatchDecisions, Reg!AccountsMatchDecisions, Reg!Entitled,
         Reg!ApprovedHasAccount, Reg!DecisionStands
<1> QED
  BY <1>1, <1>2, <1>3 DEF RegistrationInv, DecidersEntitled, AloneReadsHold

\* Every step keeps the invariant.
LEMMA RegistrationStep == RegistrationInv /\ [Reg!Next]_Reg!vars => RegistrationInv'
<1> SUFFICES ASSUME RegistrationInv, [Reg!Next]_Reg!vars PROVE RegistrationInv'
  OBVIOUS
<1> USE DEF RegistrationInv, Reg!TypeOK, Reg!Phases, Reg!Approvers, Reg!Forms, DecidersEntitled,
            AloneReadsHold, AccountsMatchDecisions, Reg!AccountsMatchDecisions, Reg!Entitled,
            Reg!ApprovedHasAccount, Reg!DecisionStands
<1>1. ASSUME NEW h \in Handlers, NEW form \in Reg!Forms, Reg!Register(h, form)
      PROVE  RegistrationInv'
  BY <1>1 DEF Reg!Register, Reg!Begin
<1>2. ASSUME NEW h \in Handlers, NEW by \in Reg!Approvers, NEW phase \in {"grant", "refuse"},
             Reg!Decide(h, by, phase)
      PROVE  RegistrationInv'
  BY <1>2 DEF Reg!Decide, Reg!Begin, Reg!MayDecide
<1>3. ASSUME NEW h \in Handlers, Reg!CheckPending(h) PROVE RegistrationInv'
  BY <1>3 DEF Reg!CheckPending, Reg!Move
<1>4. ASSUME NEW h \in Handlers, Reg!StoreRequest(h) PROVE RegistrationInv'
  <2>1. Reg!TypeOK'
    BY <1>4 DEF Reg!StoreRequest, Reg!Move
  <2>2. DecidersEntitled'
    BY <1>4 DEF Reg!StoreRequest, Reg!Move
  <2>3. AloneReadsHold'
    BY <1>4 DEF Reg!StoreRequest, Reg!Move
  <2>4. AccountsMatchDecisions'
    BY <1>4 DEF Reg!StoreRequest, Reg!Move
  <2> QED
    BY <2>1, <2>2, <2>3, <2>4
<1>5. ASSUME NEW h \in Handlers, Reg!Grant(h) PROVE RegistrationInv'
  <2>1. Reg!Account(h) \in [by : Reg!Approvers, form : Reg!Forms]
    BY <1>5 DEF Reg!Grant, Reg!Move, Reg!Account
  <2>2. Reg!TypeOK'
    BY <1>5, <2>1 DEF Reg!Grant, Reg!Move
  <2>3. DecidersEntitled'
    BY <1>5 DEF Reg!Grant, Reg!Move
  <2>4. AloneReadsHold'
    BY <1>5 DEF Reg!Grant, Reg!Move
  <2>5. Reg!Entitled'
    BY <1>5 DEF Reg!Grant, Reg!Move, Reg!Account
  <2>6. Reg!ApprovedHasAccount'
    BY <1>5 DEF Reg!Grant, Reg!Move
  <2>7. Reg!DecisionStands'
    BY <1>5 DEF Reg!Grant, Reg!Move, Reg!Account
  <2> QED
    BY <2>2, <2>3, <2>4, <2>5, <2>6, <2>7
<1>6. ASSUME NEW h \in Handlers, Reg!Refuse(h) PROVE RegistrationInv'
  BY <1>6 DEF Reg!Refuse, Reg!Move
<1>7. ASSUME NEW h \in Handlers, Reg!CreateUser(h) PROVE RegistrationInv'
  BY <1>7 DEF Reg!CreateUser, Reg!Begin
<1>10. ASSUME NEW h \in Handlers, Reg!InsertUser(h) PROVE RegistrationInv'
  <2>1. Reg!TypeOK' /\ DecidersEntitled'
    BY <1>10 DEF Reg!InsertUser, Reg!Move
  <2>2. AloneReadsHold'
    BY <1>10 DEF Reg!InsertUser, Reg!Move
  <2>3. AccountsMatchDecisions'
    BY <1>10 DEF Reg!InsertUser, Reg!Move
  <2> QED
    BY <2>1, <2>2, <2>3
<1>8. CASE Reg!ChangeEmail
  BY <1>8 DEF Reg!ChangeEmail
<1>9. CASE UNCHANGED Reg!vars
  BY <1>9 DEF Reg!vars
<1> QED
  BY <1>1, <1>2, <1>3, <1>4, <1>5, <1>6, <1>7, <1>8, <1>9, <1>10 DEF Reg!Next

\* Accounts have the role their approver decides about, and without an overlap
\* they stand beside an approved request with their form (approve, reject).
THEOREM DecisionsMatchAccounts == Reg!Spec => []AccountsMatchDecisions
<1>1. RegistrationInv => AccountsMatchDecisions
  BY DEF RegistrationInv
<1> QED
  BY RegistrationInit, RegistrationStep, <1>1, PTL DEF Reg!Spec

-----------------------------------------------------------------------------
(***************************************************************************)
(* Sessions.  What every handler goes by is told by what it is doing, and  *)
(* until the role changes, every token and every handler has it.           *)
(***************************************************************************)
KnownByPhase ==
    /\ \A t \in tokens : t.type = "access" <=> t.as.role # "CUSTOMER"
    /\ \A h \in Guests :
         /\ visit[h].phase \in {"revoke", "issue", "door"} => visit[h].as.role # "CUSTOMER"
         /\ visit[h].phase \in {"idle", "consume", "sign"} => visit[h].as.role = "CUSTOMER"
         /\ visit[h].phase = "revoke" => ~account.active

RoleKept ==
    ~account.moved =>
        /\ \A t \in tokens : t.as.role \in {account.role, "CUSTOMER"}
        /\ \A h \in Guests : visit[h].as.role \in {account.role, "CUSTOMER"}

SessionsInv == Ses!TypeOK /\ KnownByPhase /\ RoleKept /\ ProfileFitsRole

\* Nobody is logged in.
LEMMA SessionsInit == Ses!Init => SessionsInv
<1> SUFFICES ASSUME Ses!Init PROVE SessionsInv
  OBVIOUS
<1>1. Ses!TypeOK
  BY DEF Ses!Init, Ses!TypeOK, Ses!Idle, Ses!Customer, Ses!Identity, Ses!Phases, Ses!Roles, Ses!Profiles
<1> QED
  BY <1>1 DEF Ses!Init, Ses!Idle, Ses!Customer, SessionsInv, KnownByPhase, RoleKept,
              ProfileFitsRole, Ses!ProfileFitsRole, Ses!Fits

\* Every step keeps the invariant, and leaves out whoever is out.
LEMMA SessionsStep == SessionsInv /\ [Ses!Next]_Ses!vars => SessionsInv' /\ Ses!StayOut
<1> SUFFICES ASSUME SessionsInv, [Ses!Next]_Ses!vars PROVE SessionsInv' /\ Ses!StayOut
  OBVIOUS
<1> DEFINE Good == SessionsInv' /\ Ses!StayOut
<1> USE DEF SessionsInv, Ses!TypeOK, Ses!Phases, Ses!Roles, Ses!Profiles, Ses!Tokens, Ses!Identity,
            Ses!Customer, Ses!User, Ses!Fits, KnownByPhase, RoleKept, ProfileFitsRole,
            Ses!ProfileFitsRole, Ses!StayOut, Ses!StaffOut, Ses!CustomerOut
<1>1. ASSUME NEW h \in Guests, NEW secret \in {"old", "new"}, Ses!Login(h, secret) PROVE Good
  BY <1>1 DEF Ses!Login, Ses!Admit, Ses!Enter, Ses!MayEnter
<1>2. ASSUME NEW h \in Guests, Ses!Refresh(h) PROVE Good
  BY <1>2 DEF Ses!Refresh, Ses!Admit, Ses!Enter, Ses!MayEnter
<1>3. ASSUME NEW h \in Guests, NEW t \in tokens, Ses!Validate(h, t) \/ Ses!OpenSocket(h, t)
      PROVE  Good
  <2>1. CASE t.type = "customer"
    <3>1. PICK phase \in {"guard", "connected"} :
            visit' = [visit EXCEPT ![h] = [phase |-> phase, as |-> Ses!Customer]]
      BY <1>3, <2>1 DEF Ses!Validate, Ses!OpenSocket, Ses!Enter
    <3>2. UNCHANGED <<account, denied, tokens, link>>
      BY <1>3, <2>1 DEF Ses!Validate, Ses!OpenSocket, Ses!Enter
    <3>3. ~Ses!CustomerOut
      BY <2>1
    <3> QED
      BY <3>1, <3>2, <3>3
  <2>2. CASE t.type = "access"
    <3>1. t.as \in Ses!Identity /\ t.as.role # "CUSTOMER" /\ t.as.profile \in {t.as.role, "none"}
      BY <2>2
    <3>2. ~account.moved => t.as.role = account.role
      BY <3>1
    <3>3. CASE Ses!Validate(h, t)
      <4>1. visit' = [visit EXCEPT ![h] = [phase |-> "guard", as |-> Ses!User(t.as.profile)]]
            /\ visit[h].phase = "idle" /\ UNCHANGED <<account, denied, tokens, link>>
        BY <2>2, <3>3 DEF Ses!Validate, Ses!Enter
      <4> QED
        BY <2>2, <3>1, <3>2, <4>1
    <3>4. CASE Ses!OpenSocket(h, t)
      <4>1. visit' = [visit EXCEPT ![h] = [phase |-> "door", as |-> t.as]]
            /\ visit[h].phase = "idle" /\ UNCHANGED <<account, denied, tokens, link>>
        BY <2>2, <3>4 DEF Ses!OpenSocket, Ses!Enter
      <4> QED
        BY <2>2, <3>1, <3>2, <4>1
    <3> QED
      BY <1>3, <3>3, <3>4
  <2> QED
    BY <1>3, <2>1, <2>2 DEF Ses!Validate, Ses!OpenSocket
<1>4. ASSUME NEW h \in Guests, Ses!ConsumeLink(h) PROVE Good
  <2>1. /\ visit[h].phase = "consume" /\ visit' = [visit EXCEPT ![h].phase = "sign"]
        /\ link' = FALSE /\ UNCHANGED <<account, denied, tokens>>
    BY <1>4 DEF Ses!ConsumeLink, Ses!Turn
  <2>2. visit[h].as.role = "CUSTOMER"
    BY <2>1
  <2>3. SessionsInv'
    BY <2>1, <2>2
  <2>4. ~Ses!CustomerOut
    BY <2>1, <2>2
  <2>5. Ses!StayOut
    BY <2>1, <2>4
  <2> QED
    BY <2>3, <2>5
<1>5. ASSUME NEW h \in Guests, Ses!Revoke(h) PROVE Good
  BY <1>5 DEF Ses!Revoke, Ses!Leave, Ses!Idle
<1>6. ASSUME NEW h \in Guests, Ses!GenerateTokens(h) PROVE Good
  <2>1. PICK p \in Ses!Resolved(visit[h].as.role) :
          tokens' = tokens \cup {[type |-> "access", as |-> [visit[h].as EXCEPT !.profile = p]],
                                 [type |-> "refresh", as |-> Ses!Customer]}
    BY <1>6 DEF Ses!GenerateTokens, Ses!IssueFor
  <2>2. /\ visit[h].phase = "issue" /\ visit' = [visit EXCEPT ![h] = Ses!Idle]
        /\ UNCHANGED <<account, denied, link>>
    BY <1>6 DEF Ses!GenerateTokens, Ses!IssueFor, Ses!Leave
  <2>3. p \in {visit[h].as.role, "none"} /\ p \in Ses!Profiles
    BY <2>2 DEF Ses!Resolved
  <2>4. Ses!TypeOK'
    BY <2>1, <2>2, <2>3 DEF Ses!Idle
  <2>5. KnownByPhase'
    BY <2>1, <2>2 DEF Ses!Idle
  <2>6. RoleKept' /\ ProfileFitsRole'
    BY <2>1, <2>2, <2>3 DEF Ses!Idle
  <2>7. Ses!StayOut
    BY <2>1, <2>2 DEF Ses!Idle
  <2> QED
    BY <2>4, <2>5, <2>6, <2>7
<1>7. ASSUME NEW h \in Guests, Ses!CheckDenied(h) PROVE Good
  <2>1. UNCHANGED <<account, denied, tokens, link>>
    BY <1>7 DEF Ses!CheckDenied
  <2>2. CASE Ses!Leave(h, "guard")
    BY <2>1, <2>2 DEF Ses!Leave, Ses!Idle
  <2>3. CASE Ses!Leave(h, "door")
    BY <2>1, <2>3 DEF Ses!Leave, Ses!Idle
  <2>4. CASE Ses!Turn(h, "guard", "served")
    BY <2>1, <2>4 DEF Ses!Turn
  <2>5. CASE Ses!Turn(h, "door", "connected")
    BY <2>1, <2>5 DEF Ses!Turn
  <2> QED
    BY <1>7, <2>2, <2>4, <2>5, <2>3 DEF Ses!CheckDenied
<1>8. ASSUME NEW h \in Guests, Ses!Finish(h) PROVE Good
  BY <1>8 DEF Ses!Finish, Ses!Leave, Ses!Idle
<1>9. ASSUME NEW h \in Guests, Ses!UseLink(h) PROVE Good
  <2>1. visit' = [visit EXCEPT ![h] = [phase |-> "consume", as |-> Ses!Customer]]
        /\ link /\ UNCHANGED <<account, denied, tokens, link>>
    BY <1>9 DEF Ses!UseLink, Ses!Enter
  <2>2. ~Ses!CustomerOut
    BY <2>1
  <2> QED
    BY <2>1, <2>2
<1>10. ASSUME NEW h \in Guests, Ses!SignCustomer(h) PROVE Good
  BY <1>10 DEF Ses!SignCustomer, Ses!Leave, Ses!Idle
<1>11. CASE Ses!Deactivate \/ Ses!ResetPassword
  <2>1. UNCHANGED <<denied, tokens, link, visit>>
        /\ account' \in [active : BOOLEAN, role : Ses!Roles, secret : {"old", "new"}, moved : BOOLEAN]
        /\ account'.role = account.role /\ account'.moved = account.moved
        /\ (~account.active => ~account'.active)
    BY <1>11 DEF Ses!Deactivate, Ses!ResetPassword
  <2> QED
    BY <2>1
<1>12. CASE Ses!ChangeRole
  <2> DEFINE other == CHOOSE r \in Ses!Roles : r # account.role
  <2>1. \E r \in Ses!Roles : r # account.role
    BY DEF Ses!Roles
  <2>2. other \in Ses!Roles
    BY <2>1
  <2>3. account' = [account EXCEPT !.role = other, !.moved = TRUE]
        /\ UNCHANGED <<denied, tokens, link, visit>>
    BY <1>12 DEF Ses!ChangeRole
  <2> HIDE DEF other
  <2>4. Ses!TypeOK' /\ KnownByPhase' /\ RoleKept'
    BY <2>2, <2>3
  <2>5. ProfileFitsRole'
    BY <2>3
  <2>6. Ses!StayOut
    BY <2>3
  <2> QED
    BY <2>4, <2>5, <2>6
<1>13. CASE Ses!Expire
  <2>1. tokens' \subseteq tokens /\ (denied' => denied) /\ UNCHANGED <<account, link, visit>>
        /\ denied' \in BOOLEAN
    <3>1. CASE \E t \in tokens : tokens' = tokens \ {t} /\ UNCHANGED denied
      <4>1. tokens' \subseteq tokens
        BY <3>1
      <4>2. denied' = denied /\ UNCHANGED <<account, link, visit>>
        BY ONLY <1>13, <3>1 DEF Ses!Expire
      <4> QED
        BY <4>1, <4>2
    <3>2. CASE denied' = FALSE /\ UNCHANGED tokens
      <4>1. UNCHANGED <<account, link, visit>>
        BY ONLY <1>13 DEF Ses!Expire
      <4> QED
        BY <3>2, <4>1
    <3> QED
      BY ONLY <1>13, <3>1, <3>2 DEF Ses!Expire
  <2>2. Ses!TypeOK' /\ KnownByPhase'
    BY <2>1
  <2>3. RoleKept' /\ ProfileFitsRole'
    BY <2>1
  <2>4. Ses!StayOut
    BY <2>1
  <2> QED
    BY <2>2, <2>3, <2>4
<1>14. CASE UNCHANGED Ses!vars
  BY <1>14 DEF Ses!vars
<1> QED
  BY <1>1, <1>2, <1>3, <1>4, <1>5, <1>6, <1>7, <1>8, <1>9, <1>10, <1>11, <1>12, <1>13, <1>14
  DEF Ses!Next

\* Once a deactivated user's access tokens, sockets and handlers under way are
\* gone, it never comes back, nor does a customer whose link is spent (login,
\* refresh, JwtStrategy, JwtAuthGuard, WsAuthService, consumeAccessToken).
THEOREM OutsidersStayOut == Ses!Spec => OutForGood
<1>1. SessionsInv /\ [Ses!Next]_Ses!vars => [Ses!StayOut]_Ses!vars
  BY SessionsStep
<1>2. SessionsInv /\ [Ses!Next]_Ses!vars => SessionsInv'
  BY SessionsStep
<1>3. Ses!Spec => [][Ses!StayOut]_Ses!vars
  BY SessionsInit, <1>1, <1>2, PTL DEF Ses!Spec
<1> QED
  BY <1>3 DEF OutForGood, Ses!OutForGood

\* The profile in a token, and of a socket, is that of its role, however the role
\* changes while the token is made; that of a request, until the role is changed
\* (generateTokens, resolveProfileId, JwtStrategy).
THEOREM ProfilesFitRoles == Ses!Spec => []ProfileFitsRole
<1>1. SessionsInv => ProfileFitsRole
  BY DEF SessionsInv
<1>2. SessionsInv /\ [Ses!Next]_Ses!vars => SessionsInv'
  BY SessionsStep
<1> QED
  BY SessionsInit, <1>1, <1>2, PTL DEF Ses!Spec

-----------------------------------------------------------------------------
(***************************************************************************)
(* SlaScan.  An order the present attempt found open is still to be done   *)
(* or was warned; and an order still to be done was warned at most once in *)
(* each attempt before the present one.                                    *)
(***************************************************************************)
ScanTyped ==
    /\ due \in [DueOrders -> Sla!Due]
    /\ scan \in [state : {"none", "waiting", "active", "delayed", "completed", "failed"},
                 attempts : Nat, stalls : Nat, at : SUBSET DueOrders]
    /\ list \in [DueOrders -> Sla!Due]
    /\ todo \subseteq DueOrders
    /\ warned \in [DueOrders -> [Sla!Channels -> Nat]]

FoundAreWarned ==
    /\ scan.state \in {"active", "completed"} => \A o \in DueOrders :
         list[o].open /\ o \notin todo =>
             warned[o]["EMAIL"] > 0 /\ (list[o].technician => warned[o]["LINE"] > 0)
    /\ scan.state = "active" => \A o \in scan.at : list[o].technician => warned[o]["LINE"] > 0
    /\ scan.state = "completed" => todo = {}

OncePerAttempt ==
    /\ \A o \in DueOrders, c \in Sla!Channels : warned[o][c] <= Sla!Begun
    /\ \A o, p \in scan.at : o = p
    /\ scan.state = "active" => scan.at \subseteq todo
    /\ scan.state = "active" => \A o \in todo :
         /\ warned[o]["EMAIL"] <= scan.attempts + scan.stalls
         /\ o \notin scan.at => warned[o]["LINE"] <= scan.attempts + scan.stalls

ScanInv == ScanTyped /\ FoundAreWarned /\ OncePerAttempt

\* No job was begun.
LEMMA ScanInit == Sla!Init => ScanInv
BY DEF Sla!Init, ScanInv, ScanTyped, FoundAreWarned, OncePerAttempt, Sla!Begun, Sla!Nobody,
       Sla!Channels, Sla!Due

\* Every step keeps the invariant.
LEMMA ScanStep == ScanInv /\ [Sla!Next]_Sla!vars => ScanInv'
<1> SUFFICES ASSUME ScanInv, [Sla!Next]_Sla!vars PROVE ScanInv'
  OBVIOUS
<1> USE DEF ScanInv, ScanTyped, FoundAreWarned, OncePerAttempt, Sla!Begun, Sla!Channels, Sla!Due
<1>1. CASE Sla!Fire
  BY <1>1 DEF Sla!Fire, Sla!Nobody
<1>2. CASE Sla!ReadDue
  <2>1. ScanTyped'
    BY <1>2 DEF Sla!ReadDue, Sla!Approaching
  <2>2. FoundAreWarned'
    BY <1>2 DEF Sla!ReadDue, Sla!Approaching
  <2>3. OncePerAttempt'
    BY <1>2 DEF Sla!ReadDue, Sla!Approaching
  <2> QED
    BY <2>1, <2>2, <2>3
<1>3. ASSUME NEW o \in DueOrders, Sla!WarnTechnician(o) PROVE ScanInv'
  BY <1>3 DEF Sla!WarnTechnician
<1>4. ASSUME NEW o \in DueOrders, Sla!WarnDealer(o) PROVE ScanInv'
  <2>1. ScanTyped'
    BY <1>4 DEF Sla!WarnDealer
  <2>2. FoundAreWarned'
    BY <1>4 DEF Sla!WarnDealer
  <2>3. OncePerAttempt'
    <3>1. /\ scan.state = "active" /\ o \in scan.at /\ scan' = [scan EXCEPT !.at = {}]
          /\ warned' = [warned EXCEPT ![o]["EMAIL"] = @ + 1] /\ todo' = todo \ {o}
      BY <1>4 DEF Sla!WarnDealer
    <3>2. Sla!Begun' = Sla!Begun /\ Sla!Begun = scan.attempts + scan.stalls + 1
      BY <3>1
    <3>3. \A p \in DueOrders, c \in Sla!Channels : warned'[p][c] <= Sla!Begun'
      BY <3>1, <3>2
    <3>4. \A p \in todo' : p \in todo \ scan.at /\ warned'[p] = warned[p]
      BY <3>1
    <3>6. scan.attempts + scan.stalls = scan'.attempts + scan'.stalls
      BY <3>1
    <3>5. scan'.attempts = scan.attempts /\ scan'.stalls = scan.stalls /\ scan'.at = {}
      BY <3>1
    <3> QED
      BY <3>1, <3>3, <3>4, <3>5, <3>6
  <2> QED
    BY <2>1, <2>2, <2>3
<1>5. CASE Sla!Finish
  BY <1>5 DEF Sla!Finish
<1>6. CASE Sla!AttemptFails
  <2>1. ScanTyped'
    <3>1. PICK to \in {"delayed", "failed"} :
             scan' = [scan EXCEPT !.attempts = scan.attempts + 1, !.at = {}, !.state = to]
      BY <1>6 DEF Sla!AttemptFails
    <3>2. scan.attempts + 1 \in Nat
      OBVIOUS
    <3>3. scan' \in [state : {"none", "waiting", "active", "delayed", "completed", "failed"},
                     attempts : Nat, stalls : Nat, at : SUBSET DueOrders]
      BY <3>1, <3>2
    <3> QED
      BY <1>6, <3>3 DEF Sla!AttemptFails
  <2>2. FoundAreWarned'
    BY <1>6 DEF Sla!AttemptFails
  <2>3. OncePerAttempt'
    BY <1>6 DEF Sla!AttemptFails
  <2> QED
    BY <2>1, <2>2, <2>3
<1>7. CASE Sla!BackoffEnds
  BY <1>7 DEF Sla!BackoffEnds
<1>8. CASE Sla!Stall
  <2>1. ScanTyped'
    <3>1. scan' \in [state : {"none", "waiting", "active", "delayed", "completed", "failed"},
                     attempts : Nat, stalls : Nat, at : SUBSET DueOrders]
      <4>1. CASE scan.stalls < MaxStalls
        <5>1. scan.stalls + 1 \in Nat
          OBVIOUS
        <5>2. scan' = [scan EXCEPT !.stalls = scan.stalls + 1, !.state = "waiting", !.at = {}]
          BY <1>8, <4>1 DEF Sla!Stall
        <5> QED
          BY <5>1, <5>2
      <4>2. CASE ~(scan.stalls < MaxStalls)
        BY <1>8, <4>2 DEF Sla!Stall
      <4> QED
        BY <4>1, <4>2
    <3> QED
      BY <1>8, <3>1 DEF Sla!Stall
  <2>2. FoundAreWarned'
    BY <1>8 DEF Sla!Stall
  <2>3. OncePerAttempt'
    BY <1>8 DEF Sla!Stall
  <2> QED
    BY <2>1, <2>2, <2>3
<1>9. ASSUME NEW o \in DueOrders, Sla!OrderChanges(o) PROVE ScanInv'
  BY <1>9 DEF Sla!OrderChanges
<1>10. CASE UNCHANGED Sla!vars
  BY <1>10 DEF Sla!vars
<1> QED
  BY <1>1, <1>2, <1>3, <1>4, <1>5, <1>6, <1>7, <1>8, <1>9, <1>10 DEF Sla!Next

\* A completed job warned everybody it read last, and no job warns anybody more
\* often than it was begun (checkApproachingDeadlines under BullMQ's retries).
THEOREM ScansWarn == Sla!Spec => []EveryScanWarns
<1>1. ScanInv => EveryScanWarns
  BY DEF ScanInv, ScanTyped, FoundAreWarned, OncePerAttempt, EveryScanWarns, Sla!EveryScanWarns,
         Sla!CompletedWarnsAll, Sla!NoMoreThanBegun
<1> QED
  BY ScanInit, ScanStep, <1>1, PTL DEF Sla!Spec

-----------------------------------------------------------------------------
(***************************************************************************)
(* Reporting.  What a figure tells of an order that did not change since   *)
(* the overview was begun is what the order still says.                    *)
(***************************************************************************)
ViewTyped ==
    /\ followed \in Rep!Order
    /\ view \in [role : Rep!Roles \cup {"nobody"}, profile : BOOLEAN, own : BOOLEAN,
                 todo : SUBSET Rep!Queries, failed : SUBSET Rep!Queries,
                 cut : SUBSET Rep!Queries, told : [Rep!Figures -> BOOLEAN], changed : BOOLEAN]

OrderConsistent ==
    /\ followed.today => followed.status = "COMPLETED"
    /\ followed.status # "REQUESTED" => followed.trail

\* The figures of a statement that is still out, failed or was cut tell nothing.
OnlyReadTell ==
    /\ view.todo \cap (view.failed \cup view.cut) = {}
    /\ \A q \in view.todo \cup view.failed \cup view.cut : \A f \in Rep!FiguresOf(q) : ~view.told[f]

ToldIsSo ==
    ~view.changed =>
        /\ \A f \in Rep!Figures : view.told[f] => Rep!Tells(f)
        /\ ~Rep!Scoped(view) => \A q \in Rep!Queries \ {"workload"} :
             Rep!Has(q) => \A f \in Rep!FiguresOf(q) : Rep!Tells(f) => view.told[f]

ScopedToldLittle ==
    Rep!Scoped(view) => \A f \in Rep!Figures :
        view.told[f] => f = "activities" /\ view.role = "DEALER" /\ view.own

ReportingInv ==
    ViewTyped /\ OrderConsistent /\ OnlyReadTell /\ ToldIsSo /\ ScopedToldLittle /\ Rep!CountsAgree

\* Nothing was asked.
LEMMA ReportingInit == Rep!Init => ReportingInv
<1> SUFFICES ASSUME Rep!Init PROVE ReportingInv
  OBVIOUS
<1>1. view = Rep!View("nobody", FALSE, FALSE, {}) /\ followed \in Rep!Order
  BY DEF Rep!Init
<1>2. ViewTyped
  BY <1>1 DEF ViewTyped, Rep!View, Rep!Nothing
<1>3. view.role = "nobody" /\ \A f \in Rep!Figures : ~view.told[f]
  BY <1>1 DEF Rep!View, Rep!Nothing
<1>4. OrderConsistent
  BY DEF Rep!Init, OrderConsistent, Rep!InitialStatus
<1>5. view.todo = {} /\ view.failed = {} /\ view.cut = {}
  BY <1>1 DEF Rep!View
<1> QED
  BY <1>2, <1>3, <1>4, <1>5
  DEF ReportingInv, OnlyReadTell, ToldIsSo, ScopedToldLittle, Rep!CountsAgree, Rep!Told, Rep!Has,
      Rep!Figures, Rep!Queries

\* Every step keeps the invariant.
LEMMA ReportingStep == ReportingInv /\ [Rep!Next]_Rep!vars => ReportingInv'
<1> SUFFICES ASSUME ReportingInv, [Rep!Next]_Rep!vars PROVE ReportingInv'
  OBVIOUS
<1> USE DEF ReportingInv
<1>1. ASSUME NEW role \in Rep!Roles, NEW profile \in BOOLEAN, NEW own \in BOOLEAN,
             Rep!Ask(role, profile, own)
      PROVE  ReportingInv'
  <2>1. PICK todo_ \in SUBSET Rep!Queries : view' = Rep!View(role, profile, own, todo_)
                                            /\ followed' = followed
                                            /\ Rep!Queries \ todo_ \subseteq {"workload"}
    BY <1>1 DEF Rep!Ask, Rep!Queries
  <2>2. ViewTyped'
    BY <2>1 DEF ViewTyped, Rep!View, Rep!Nothing
  <2>3. /\ \A f \in Rep!Figures : ~view'.told[f]
        /\ view'.todo = todo_ /\ view'.failed = {} /\ view'.cut = {}
    BY <2>1 DEF Rep!View, Rep!Nothing
  <2>4. \A q \in Rep!Queries : Rep!FiguresOf(q) \subseteq Rep!Figures
    BY DEF Rep!FiguresOf, Rep!Figures, Rep!Queries
  <2>5. OrderConsistent'
    BY <2>1 DEF OrderConsistent
  <2>6. OnlyReadTell'
    BY <2>3, <2>4 DEF OnlyReadTell
  <2>7. ToldIsSo'
    BY <2>1, <2>3 DEF ToldIsSo, Rep!Has
  <2>8. ScopedToldLittle'
    BY <2>3 DEF ScopedToldLittle
  <2>9. Rep!CountsAgree'
    BY <2>3 DEF Rep!CountsAgree, Rep!Told, Rep!Figures
  <2> QED
    BY <2>2, <2>5, <2>6, <2>7, <2>8, <2>9
<1>2. ASSUME NEW q \in Rep!Queries, Rep!Read(q) PROVE ReportingInv'
  <2>1. /\ followed' = followed /\ q \in view.todo
        /\ view' = [view EXCEPT !.todo = view.todo \ {q},
                                !.told = [f \in Rep!Figures |->
                                    IF f \in Rep!FiguresOf(q) THEN Rep!Tells(f) /\ Rep!InScope(f)
                                    ELSE view.told[f]]]
    BY <1>2 DEF Rep!Read
  <2>2. [f \in Rep!Figures |->
            IF f \in Rep!FiguresOf(q) THEN Rep!Tells(f) /\ Rep!InScope(f) ELSE view.told[f]]
        \in [Rep!Figures -> BOOLEAN]
    BY DEF ViewTyped
  <2>3. ViewTyped'
    BY <2>1, <2>2 DEF ViewTyped
  <2>4. /\ view'.todo = view.todo \ {q} /\ view'.failed = view.failed /\ view'.cut = view.cut
        /\ view'.role = view.role /\ view'.profile = view.profile /\ view'.own = view.own
        /\ view'.changed = view.changed
        /\ \A f \in Rep!Figures : view'.told[f] =
             IF f \in Rep!FiguresOf(q) THEN Rep!Tells(f) /\ Rep!InScope(f) ELSE view.told[f]
    BY <2>1 DEF ViewTyped
  <2>5. \A p \in Rep!Queries : Rep!FiguresOf(p) \subseteq Rep!Figures
                               /\ (p # q => Rep!FiguresOf(p) \cap Rep!FiguresOf(q) = {})
    BY DEF Rep!FiguresOf, Rep!Figures, Rep!Queries
  <2>6. (Rep!Scoped(view') <=> Rep!Scoped(view)) /\ \A f \in Rep!Figures : Rep!Tells(f)' = Rep!Tells(f)
    BY <2>1, <2>4 DEF Rep!Scoped, Rep!Tells
  <2>7. OnlyReadTell'
    <3>1. view'.todo \cap (view'.failed \cup view'.cut) = {}
      BY <2>4 DEF OnlyReadTell
    <3>2. ASSUME NEW p \in view'.todo \cup view'.failed \cup view'.cut, NEW f \in Rep!FiguresOf(p)
          PROVE  ~view'.told[f]
      <4>1. p # q /\ p \in Rep!Queries /\ p \in view.todo \cup view.failed \cup view.cut
        BY <2>1, <2>4 DEF OnlyReadTell, ViewTyped
      <4>2. f \in Rep!Figures /\ f \notin Rep!FiguresOf(q)
        BY <2>5, <4>1
      <4> QED
        BY <2>4, <4>1, <4>2 DEF OnlyReadTell
    <3>3. \A p \in view'.todo \cup view'.failed \cup view'.cut : \A f \in Rep!FiguresOf(p) :
             ~view'.told[f]
      BY <3>2
    <3> QED
      BY <3>1, <3>3 DEF OnlyReadTell, Rep!FiguresOf
  <2>8. ToldIsSo'
    <3> SUFFICES ASSUME ~view.changed
                 PROVE  /\ \A f \in Rep!Figures : view'.told[f] => Rep!Tells(f)
                        /\ ~Rep!Scoped(view) => \A p \in Rep!Queries \ {"workload"} :
                             Rep!Has(p)' => \A f \in Rep!FiguresOf(p) : Rep!Tells(f) => view'.told[f]
      <4>1. \A p \in Rep!Queries : \A f \in Rep!FiguresOf(p) : Rep!Tells(f)' = Rep!Tells(f)
        BY <2>5, <2>6
      <4> QED
        BY <2>4, <2>6, <4>1 DEF ToldIsSo, Rep!FiguresOf
    <3>1. \A f \in Rep!Figures : view'.told[f] => Rep!Tells(f)
      BY <2>4 DEF ToldIsSo
    <3>2. ASSUME ~Rep!Scoped(view), NEW p \in Rep!Queries \ {"workload"}, Rep!Has(p)',
                 NEW f \in Rep!FiguresOf(p), Rep!Tells(f)
          PROVE  view'.told[f]
      <4>1. f \in Rep!Figures
        BY <2>5
      <4>2. CASE p = q
        BY <2>4, <3>2, <4>1, <4>2 DEF Rep!InScope
      <4>3. CASE p # q
        <5>1. Rep!Has(p)
          BY <2>4, <3>2, <4>3 DEF Rep!Has
        <5> QED
          BY <2>4, <2>5, <3>2, <4>1, <4>3, <5>1 DEF ToldIsSo
      <4> QED
        BY <4>2, <4>3
    <3> QED
      BY <3>1, <3>2
  <2>9. ScopedToldLittle'
    BY <2>4, <2>6 DEF ScopedToldLittle, Rep!InScope
  <2>10. Rep!CountsAgree'
    <3>1. CASE q = "metrics"
      <4>1. \A f \in {"total", "active", "completedToday", "breached"} :
               view'.told[f] = (Rep!Tells(f) /\ Rep!InScope(f))
        BY <2>4, <2>5, <3>1 DEF Rep!FiguresOf
      <4>2. Rep!Tells("total") /\ (Rep!Tells("active") => followed.status # "COMPLETED")
            /\ (Rep!Tells("completedToday") => followed.status = "COMPLETED")
            /\ (Rep!Tells("breached") => followed.status # "COMPLETED")
        BY DEF Rep!Tells, Rep!Active, Rep!NotClosed
      <4>3. \A f \in {"active", "completedToday", "breached"} : Rep!InScope(f) => Rep!InScope("total")
        BY DEF Rep!InScope
      <4> QED
        BY <4>1, <4>2, <4>3 DEF Rep!CountsAgree, Rep!Told
    <3>2. CASE q # "metrics"
      <4>1. \A f \in {"total", "active", "completedToday", "breached"} : view'.told[f] = view.told[f]
        BY <2>4, <3>2 DEF Rep!FiguresOf, Rep!Figures, Rep!Queries
      <4> QED
        BY <4>1 DEF Rep!CountsAgree, Rep!Told
    <3> QED
      BY <3>1, <3>2
  <2>11. OrderConsistent'
    BY <2>1 DEF OrderConsistent
  <2> QED
    BY <2>3, <2>7, <2>8, <2>9, <2>10, <2>11
<1>3. ASSUME NEW q \in Rep!Queries, Rep!ReadCut(q) \/ Rep!Fails(q) PROVE ReportingInv'
  <2>1. /\ followed' = followed /\ q \in view.todo
        /\ \/ view' = [view EXCEPT !.todo = view.todo \ {q}, !.cut = view.cut \cup {q}]
           \/ view' = [view EXCEPT !.todo = view.todo \ {q}, !.failed = view.failed \cup {q}]
    BY <1>3 DEF Rep!ReadCut, Rep!Fails
  <2>2. ViewTyped'
    <3>1. CASE view' = [view EXCEPT !.todo = view.todo \ {q}, !.cut = view.cut \cup {q}]
      BY <2>1, <3>1 DEF ViewTyped
    <3>2. CASE view' = [view EXCEPT !.todo = view.todo \ {q}, !.failed = view.failed \cup {q}]
      BY <2>1, <3>2 DEF ViewTyped
    <3> QED
      BY <2>1, <3>1, <3>2
  <2>3. /\ view'.todo = view.todo \ {q} /\ view'.told = view.told
        /\ view'.failed \cup view'.cut = view.failed \cup view.cut \cup {q}
        /\ view'.role = view.role /\ view'.profile = view.profile /\ view'.own = view.own
        /\ view'.changed = view.changed
    BY <2>1 DEF ViewTyped
  <2>4. OnlyReadTell'
    BY <2>1, <2>3 DEF OnlyReadTell, Rep!FiguresOf
  <2>5. (Rep!Scoped(view') <=> Rep!Scoped(view)) /\ \A f \in Rep!Figures : Rep!Tells(f)' = Rep!Tells(f)
    BY <2>1, <2>3 DEF Rep!Scoped, Rep!Tells
  <2>6. \A p \in Rep!Queries : Rep!Has(p)' => Rep!Has(p)
    BY <2>1, <2>3 DEF Rep!Has
  <2>7. \A p \in Rep!Queries : Rep!FiguresOf(p) \subseteq Rep!Figures
    BY DEF Rep!FiguresOf, Rep!Figures, Rep!Queries
  <2>8. ToldIsSo'
    BY <2>3, <2>5, <2>6, <2>7 DEF ToldIsSo, Rep!FiguresOf
  <2>9. ScopedToldLittle' /\ Rep!CountsAgree'
    BY <2>3, <2>5 DEF ScopedToldLittle, Rep!CountsAgree, Rep!Told
  <2>10. OrderConsistent'
    BY <2>1 DEF OrderConsistent
  <2> QED
    BY <2>2, <2>4, <2>8, <2>9, <2>10
<1>4. CASE Rep!Moves \/ Rep!TimePasses
  <2>1. view' = [view EXCEPT !.changed = TRUE]
    BY <1>4 DEF Rep!Moves, Rep!TimePasses
  <2>2. followed' \in Rep!Order /\ OrderConsistent'
    <3>1. CASE Rep!TimePasses
      BY <3>1 DEF Rep!TimePasses, ViewTyped, Rep!Order, OrderConsistent
    <3>2. CASE Rep!Moves
      <4>1. PICK to \in Rep!Transitions[followed.status], t \in Rep!Technicians :
               followed' = [followed EXCEPT !.status = to, !.trail = TRUE, !.today = (to = "COMPLETED"),
                   !.technician = Rep!AssigneeAfter(followed.status, to, followed.technician, t)]
        BY <3>2 DEF Rep!Moves
      <4>2. followed.status \in Rep!Statuses
            /\ followed.technician \in Rep!Technicians \cup {NoTechnician}
        BY DEF ViewTyped, Rep!Order
      <4>3. to \in Rep!Statuses
        BY <4>2 DEF Rep!Transitions, Rep!Statuses
      <4>4. Rep!AssigneeAfter(followed.status, to, followed.technician, t)
              \in Rep!Technicians \cup {NoTechnician}
        BY <4>2 DEF Rep!AssigneeAfter
      <4> QED
        BY <4>1, <4>3, <4>4 DEF ViewTyped, Rep!Order, OrderConsistent
    <3> QED
      BY <1>4, <3>1, <3>2
  <2>3. ViewTyped'
    BY <2>1, <2>2 DEF ViewTyped
  <2>4. /\ view'.changed /\ view'.told = view.told /\ view'.todo = view.todo
        /\ view'.failed = view.failed /\ view'.cut = view.cut
        /\ view'.role = view.role /\ view'.profile = view.profile /\ view'.own = view.own
    BY <2>1 DEF ViewTyped
  <2> QED
    BY <2>2, <2>3, <2>4 DEF OnlyReadTell, ToldIsSo, ScopedToldLittle, Rep!Scoped, Rep!CountsAgree,
                            Rep!Told, Rep!FiguresOf
<1>5. CASE UNCHANGED Rep!vars
  <2>1. view' = view /\ followed' = followed
    BY <1>5 DEF Rep!vars
  <2>2. ViewTyped' /\ OrderConsistent' /\ OnlyReadTell' /\ ScopedToldLittle' /\ Rep!CountsAgree'
    BY <2>1 DEF ViewTyped, OrderConsistent, OnlyReadTell, ScopedToldLittle, Rep!CountsAgree,
                Rep!Scoped, Rep!Told, Rep!FiguresOf
  <2>3. (\A f : Rep!Tells(f)' = Rep!Tells(f)) /\ (\A q : Rep!Has(q)' = Rep!Has(q))
    BY <2>1 DEF Rep!Tells, Rep!Has
  <2>4. ToldIsSo'
    BY <2>1, <2>3 DEF ToldIsSo, Rep!FiguresOf, Rep!Scoped
  <2> QED
    BY <2>2, <2>4
<1> QED
  BY <1>1, <1>2, <1>3, <1>4, <1>5 DEF Rep!Next

\* The figures of one overview fit together, except about an order that changed
\* meanwhile, and a scoped user is told next to nothing (getOverview).
THEOREM OverviewFitsTogether == Rep!Spec => []OverviewTellsOneStory
<1>1. ReportingInv => OverviewTellsOneStory
  <2> SUFFICES ASSUME ReportingInv PROVE OverviewTellsOneStory
    OBVIOUS
  <2>1. ASSUME ~view.changed, ~Rep!Scoped(view) PROVE Rep!ListsAgree
    <3>1. \A f \in Rep!Figures : Rep!Told(f) => Rep!Tells(f)
      BY <2>1 DEF ReportingInv, ToldIsSo, Rep!Told
    <3>2. \A q \in Rep!Queries \ {"workload"} :
             Rep!Has(q) => \A f \in Rep!FiguresOf(q) : Rep!Tells(f) => Rep!Told(f)
      BY <2>1 DEF ReportingInv, ToldIsSo, Rep!Told
    <3>3. followed.status \in Rep!Statuses
      BY DEF ReportingInv, ViewTyped, Rep!Order
    <3> QED
      BY <3>1, <3>2, <3>3 DEF ReportingInv, OrderConsistent, Rep!ListsAgree, Rep!Tells, Rep!Active,
         Rep!NotClosed, Rep!Statuses, Rep!Figures, Rep!Queries, Rep!FiguresOf
  <2> QED
    BY <2>1 DEF ReportingInv, ScopedToldLittle, OverviewTellsOneStory, Rep!OverviewTellsOneStory, Rep!Told
<1> QED
  BY ReportingInit, ReportingStep, <1>1, PTL DEF Rep!Spec
-----------------------------------------------------------------------------
(***************************************************************************)
(* Broadcast.  What is still to be broadcast on either way ends with the   *)
(* newest position, and what another instance is about to get is in the    *)
(* order of publication and newer than what it shows.                      *)
(***************************************************************************)
BroadcastTypes ==
    /\ sent \in Nat
    /\ unbroadcast \in Seq(Nat)
    /\ wire \in [Bro!Instances -> Seq(Nat)]
    /\ subscribed \in [Bro!Instances -> {"never", "up", "down"}]
    /\ shown \in [Bro!Instances -> Nat]
    /\ missed \in [Bro!Instances \cup {"local"} -> SUBSET Nat]

EndsWithNewest(s) == s # <<>> => s[Len(s)] = sent

Increasing(s) == \A j, k \in 1..Len(s) : j < k => s[j] < s[k]

WaysInv ==
    /\ \A i \in Bro!Instances : EndsWithNewest(wire[i]) /\ (wire[i] # <<>> => subscribed[i] = "up")
    /\ EndsWithNewest(unbroadcast)

AwayInv ==
    /\ Increasing(wire["away"])
    /\ shown["away"] <= sent
    /\ \A k \in 1..Len(wire["away"]) : wire["away"][k] > shown["away"] /\ wire["away"][k] <= sent
    /\ Bro!AwayRestsOnNewest

BroadcastInv == BroadcastTypes /\ WaysInv /\ AwayInv /\ Bro!HomeRestsOnNewest

\* Nothing was sent.
LEMMA BroadcastInit == Bro!Init => BroadcastInv
BY DEF Bro!Init, BroadcastInv, BroadcastTypes, WaysInv, AwayInv, EndsWithNewest, Increasing,
       Bro!AwayRestsOnNewest, Bro!HomeRestsOnNewest, Bro!Instances

\* A sequence taken one further ends with what was added.
LEMMA AppendFacts ==
    ASSUME NEW s \in Seq(Nat), NEW n \in Nat
    PROVE  /\ Append(s, n) \in Seq(Nat)
           /\ Append(s, n) # <<>>
           /\ Len(Append(s, n)) = Len(s) + 1
           /\ Append(s, n)[Len(s) + 1] = n
           /\ \A k \in 1..Len(s) : Append(s, n)[k] = s[k]
OBVIOUS

\* Of two places in a sequence taken one further the earlier is an old one.
LEMMA EarlierIsOld ==
    ASSUME NEW len \in Nat, NEW j \in 1..(len + 1), NEW k \in 1..(len + 1), j < k
    PROVE  j \in 1..len /\ (k \in 1..len \/ k = len + 1)
OBVIOUS

\* What is added to an increasing sequence may be larger than all of it.
LEMMA IncreasingAppend ==
    ASSUME NEW s \in Seq(Nat), NEW n \in Nat, Increasing(s), \A k \in 1..Len(s) : s[k] < n
    PROVE  Increasing(Append(s, n))
<1> DEFINE a == Append(s, n)
<1>1. Len(s) \in Nat /\ Len(a) = Len(s) + 1 /\ a[Len(s) + 1] = n
      /\ \A k \in 1..Len(s) : a[k] = s[k] /\ s[k] \in Nat
  BY AppendFacts
<1> HIDE DEF a
<1>2. ASSUME NEW j \in 1..Len(a), NEW k \in 1..Len(a), j < k PROVE a[j] < a[k]
  <2> DEFINE l == Len(s)
  <2>0. l \in Nat /\ j \in 1..(l + 1) /\ k \in 1..(l + 1)
    BY <1>1
  <2>1. j \in 1..l /\ (k \in 1..l \/ k = l + 1)
    <3> HIDE DEF l
    <3> QED
      BY <1>2, <2>0, EarlierIsOld
  <2>2. CASE k \in 1..l
    <3>1. a[j] = s[j] /\ a[k] = s[k]
      BY <1>1, <2>1, <2>2
    <3>2. s[j] < s[k]
      BY <1>2, <2>1, <2>2 DEF Increasing
    <3> QED
      BY <3>1, <3>2
  <2>3. CASE k = l + 1
    <3>1. a[j] = s[j] /\ a[k] = n
      BY <1>1, <2>1, <2>3
    <3>2. s[j] < n
      BY <2>1
    <3> QED
      BY <3>1, <3>2
  <2> QED
    BY <2>1, <2>2, <2>3
<1> QED
  BY <1>2 DEF Increasing, a

\* What is left of a sequence ends as it did, unless nothing is left.
LEMMA TailFacts ==
    ASSUME NEW s \in Seq(Nat), s # <<>>
    PROVE  /\ Tail(s) \in Seq(Nat)
           /\ Len(s) \in Nat /\ Len(s) >= 1
           /\ Len(Tail(s)) = Len(s) - 1
           /\ Head(s) = s[1]
           /\ Head(s) \in Nat
           /\ \A k \in 1..Len(Tail(s)) : k + 1 \in 1..Len(s) /\ Tail(s)[k] = s[k + 1]
           /\ Tail(s) = <<>> <=> Len(s) = 1
<1>1. Tail(s) \in Seq(Nat) /\ Len(s) \in Nat /\ Len(s) >= 1 /\ Len(Tail(s)) = Len(s) - 1
  OBVIOUS
<1>2. Head(s) = s[1] /\ Head(s) \in Nat
  BY <1>1
<1>3. \A k \in 1..Len(Tail(s)) : k + 1 \in 1..Len(s) /\ Tail(s)[k] = s[k + 1]
  BY <1>1
<1>4. Tail(s) = <<>> <=> Len(Tail(s)) = 0
  <2>1. ASSUME NEW t \in Seq(Nat) PROVE t = <<>> <=> Len(t) = 0
    OBVIOUS
  <2> QED
    BY <1>1, <2>1
<1> QED
  BY <1>1, <1>2, <1>3, <1>4

\* Every step of the instances and of Redis keeps the types.
LEMMA BroadcastTypesStep == BroadcastTypes /\ [Bro!Next]_Bro!vars => BroadcastTypes'
<1> SUFFICES ASSUME BroadcastTypes, [Bro!Next]_Bro!vars PROVE BroadcastTypes'
  OBVIOUS
<1> USE DEF BroadcastTypes, Bro!Instances
<1>1. CASE Bro!Publish
  <2>1. \A i \in Bro!Instances : Append(wire[i], sent + 1) \in Seq(Nat)
    BY AppendFacts
  <2> QED
    BY <1>1, <2>1, AppendFacts DEF Bro!Publish, Bro!Queued
<1>2. CASE Bro!BroadcastLocally
  BY <1>2, TailFacts DEF Bro!BroadcastLocally
<1>3. CASE Bro!CacheFails
  BY <1>3, TailFacts DEF Bro!CacheFails
<1>4. ASSUME NEW i \in Bro!Instances, Bro!Deliver(i) PROVE BroadcastTypes'
  BY <1>4, TailFacts DEF Bro!Deliver
<1>5. ASSUME NEW i \in Bro!Instances, Bro!ConnectionBreaks(i) PROVE BroadcastTypes'
  <2>1. Bro!Elements(wire[i]) \subseteq Nat
    BY DEF Bro!Elements
  <2> QED
    BY <1>5, <2>1 DEF Bro!ConnectionBreaks
<1>6. ASSUME NEW i \in Bro!Instances, Bro!Resubscribe(i) PROVE BroadcastTypes'
  BY <1>6 DEF Bro!Resubscribe
<1>7. CASE UNCHANGED Bro!vars
  BY <1>7 DEF Bro!vars
<1> QED
  BY <1>1, <1>2, <1>3, <1>4, <1>5, <1>6, <1>7 DEF Bro!Next

\* Every step keeps the invariant.
LEMMA BroadcastStep == BroadcastInv /\ [Bro!Next]_Bro!vars => BroadcastInv'
<1> SUFFICES ASSUME BroadcastInv, [Bro!Next]_Bro!vars PROVE (WaysInv /\ AwayInv /\ Bro!HomeRestsOnNewest)'
  BY BroadcastTypesStep DEF BroadcastInv
<1> USE DEF BroadcastInv, BroadcastTypes, WaysInv, AwayInv, EndsWithNewest, Increasing, Bro!Instances,
            Bro!AwayRestsOnNewest, Bro!HomeRestsOnNewest, Bro!HomeGetsNewest
<1>1. CASE Bro!Publish
  <2>1. sent' = sent + 1 /\ sent' \in Nat /\ shown' = shown /\ subscribed' = subscribed
    BY <1>1 DEF Bro!Publish
  <2>2. \A i \in Bro!Instances : wire'[i] = IF subscribed[i] = "up" THEN Append(wire[i], sent') ELSE wire[i]
    BY <1>1 DEF Bro!Publish, Bro!Queued
  <2>3. unbroadcast' = Append(unbroadcast, sent')
    BY <1>1 DEF Bro!Publish
  <2>4. subscribed["away"] # "up" => sent' \in missed'["away"]
    BY <1>1 DEF Bro!Publish
  <2>5. WaysInv'
    <3>1. ASSUME NEW s \in Seq(Nat) PROVE Append(s, sent')[Len(Append(s, sent'))] = sent'
      BY <2>1, AppendFacts
    <3>2. unbroadcast'[Len(unbroadcast')] = sent'
      BY <2>3, <3>1
    <3>3. ASSUME NEW i \in Bro!Instances, wire'[i] # <<>>
          PROVE  subscribed'[i] = "up" /\ wire'[i][Len(wire'[i])] = sent'
      <4>1. CASE subscribed[i] = "up"
        BY <2>1, <2>2, <3>1, <4>1
      <4>2. CASE subscribed[i] # "up"
        BY <2>2, <3>3, <4>2
      <4> QED
        BY <4>1, <4>2
    <3> QED
      BY <3>2, <3>3
  <2>6. AwayInv'
    <3>1. CASE subscribed["away"] = "up"
      <4> DEFINE w == wire["away"]
      <4>1. wire'["away"] = Append(w, sent') /\ w \in Seq(Nat)
        BY <2>2, <3>1
      <4>2. Len(w) \in Nat /\ 1..Len(Append(w, sent')) = 1..Len(w) \cup {Len(w) + 1}
        BY <2>1, <4>1, AppendFacts
      <4>3. Append(w, sent')[Len(w) + 1] = sent' /\ \A k \in 1..Len(w) : Append(w, sent')[k] = w[k]
        <5>1. w \in Seq(Nat) /\ sent' \in Nat
          BY <2>1, <4>1
        <5> HIDE DEF w
        <5> QED
          BY <5>1, AppendFacts
      <4>4. \A k \in 1..Len(w) : w[k] \in Nat /\ w[k] <= sent /\ w[k] > shown["away"]
        BY <4>1
      <4>5. Increasing(Append(w, sent'))
        <5>1. w \in Seq(Nat) /\ sent' \in Nat /\ Increasing(w) /\ sent < sent' /\ sent \in Nat
          BY <2>1, <4>1
        <5>2. \A k \in 1..Len(w) : w[k] < sent'
          BY <4>4, <5>1
        <5> HIDE DEF w, Increasing
        <5> QED
          BY <5>1, <5>2, IncreasingAppend
      <4>6. Append(w, sent') # <<>>
        BY <2>1, <4>1, AppendFacts
      <4> HIDE DEF w
      <4>7. \A k \in 1..Len(Append(w, sent')) :
               Append(w, sent')[k] > shown["away"] /\ Append(w, sent')[k] <= sent'
        BY <2>1, <4>2, <4>3, <4>4
      <4>8. wire'["away"] # <<>> /\ Increasing(wire'["away"])
        BY <4>1, <4>5, <4>6
      <4>9. \A k \in 1..Len(wire'["away"]) :
               wire'["away"][k] > shown'["away"] /\ wire'["away"][k] <= sent'
        BY <2>1, <4>1, <4>7
      <4>10. shown'["away"] <= sent'
        BY <2>1
      <4> QED
        BY <4>8, <4>9, <4>10
    <3>2. CASE subscribed["away"] # "up"
      BY <2>1, <2>2, <2>4, <3>2
    <3> QED
      BY <3>1, <3>2
  <2>7. Bro!HomeRestsOnNewest'
    BY <2>1, <2>3, AppendFacts
  <2> QED
    BY <2>5, <2>6, <2>7
<1>2. CASE Bro!BroadcastLocally
  <2>1. EndsWithNewest(Tail(unbroadcast))
    BY <1>2, TailFacts DEF Bro!BroadcastLocally
  <2>2. shown'["away"] = shown["away"] /\ shown'["home"] = Head(unbroadcast)
    BY <1>2 DEF Bro!BroadcastLocally
  <2>3. Tail(unbroadcast) = <<>> => Head(unbroadcast) = sent
    BY <1>2, TailFacts DEF Bro!BroadcastLocally
  <2> QED
    BY <1>2, <2>1, <2>2, <2>3 DEF Bro!BroadcastLocally
<1>3. CASE Bro!CacheFails
  <2>1. EndsWithNewest(Tail(unbroadcast))
    BY <1>3, TailFacts DEF Bro!CacheFails
  <2>2. missed'["away"] = missed["away"] /\ Head(unbroadcast) \in missed'["local"]
    BY <1>3 DEF Bro!CacheFails
  <2>3. Tail(unbroadcast) = <<>> => Head(unbroadcast) = sent
    BY <1>3, TailFacts DEF Bro!CacheFails
  <2> QED
    BY <1>3, <2>1, <2>2, <2>3 DEF Bro!CacheFails
<1>4. ASSUME NEW i \in Bro!Instances, Bro!Deliver(i) PROVE (WaysInv /\ AwayInv /\ Bro!HomeRestsOnNewest)'
  <2>1. wire'[i] = Tail(wire[i]) /\ shown'[i] = Head(wire[i]) /\ wire[i] # <<>>
    BY <1>4 DEF Bro!Deliver
  <2>2. \A j \in Bro!Instances \ {i} : wire'[j] = wire[j] /\ shown'[j] = shown[j]
    BY <1>4 DEF Bro!Deliver
  <2>3. UNCHANGED <<sent, unbroadcast, subscribed, missed>>
    BY <1>4 DEF Bro!Deliver
  <2>4. EndsWithNewest(Tail(wire[i]))
    BY <2>1, TailFacts
  <2>5. Tail(wire[i]) = <<>> => Head(wire[i]) = sent
    BY <2>1, TailFacts
  <2>6. WaysInv'
    BY <2>1, <2>2, <2>3, <2>4
  <2>7. AwayInv'
    <3>1. CASE i = "home"
      BY <3>1, <2>2, <2>3
    <3>2. CASE i = "away"
      BY <3>2, <2>1, <2>3, <2>5, TailFacts
    <3> QED
      BY <3>1, <3>2
  <2>8. Bro!HomeRestsOnNewest'
    BY <2>1, <2>2, <2>3, <2>5
  <2> QED
    BY <2>6, <2>7, <2>8
<1>5. ASSUME NEW i \in Bro!Instances, Bro!ConnectionBreaks(i) PROVE (WaysInv /\ AwayInv /\ Bro!HomeRestsOnNewest)'
  <2>1. wire[i] # <<>> => sent \in missed'[i]
    <3>1. wire[i] # <<>> => Len(wire[i]) \in 1..Len(wire[i])
      BY TailFacts
    <3> QED
      BY <1>5, <3>1 DEF Bro!ConnectionBreaks, Bro!Elements
  <2>2. wire'[i] = <<>> /\ subscribed'[i] = "down" /\ subscribed[i] = "up" /\ missed[i] \subseteq missed'[i]
    BY <1>5 DEF Bro!ConnectionBreaks
  <2>3. \A j \in Bro!Instances \ {i} : wire'[j] = wire[j] /\ subscribed'[j] = subscribed[j]
    BY <1>5 DEF Bro!ConnectionBreaks
  <2>4. missed'["local"] = missed["local"] /\ \A j \in Bro!Instances \ {i} : missed'[j] = missed[j]
    BY <1>5 DEF Bro!ConnectionBreaks
  <2>5. UNCHANGED <<sent, unbroadcast, shown>>
    BY <1>5 DEF Bro!ConnectionBreaks
  <2>6. Len(<<>>) = 0
    OBVIOUS
  <2>7. WaysInv'
    BY <2>2, <2>3, <2>5
  <2>8. AwayInv'
    BY <2>1, <2>2, <2>3, <2>4, <2>5, <2>6
  <2>9. Bro!HomeRestsOnNewest'
    BY <2>1, <2>2, <2>3, <2>4, <2>5
  <2> QED
    BY <2>7, <2>8, <2>9
<1>6. ASSUME NEW i \in Bro!Instances, Bro!Resubscribe(i) PROVE (WaysInv /\ AwayInv /\ Bro!HomeRestsOnNewest)'
  BY <1>6 DEF Bro!Resubscribe
<1>7. CASE UNCHANGED Bro!vars
  BY <1>7 DEF Bro!vars
<1> QED
  BY <1>1, <1>2, <1>3, <1>4, <1>5, <1>6, <1>7 DEF Bro!Next

\* The clients of another instance never go back and come to rest on the newest
\* position, those of the technician's own instance too, but for the losses the
\* property names (handlePositionUpdate, handlePubSubMessage).
THEOREM WatchersKeepUp == Bro!Spec => []WatchersEndOnNewest
<1>1. BroadcastInv => WatchersEndOnNewest
  BY DEF BroadcastInv, AwayInv, WatchersEndOnNewest, Bro!WatchersEndOnNewest, Bro!AwayNeverGoesBack,
         Bro!Elements
<1> QED
  BY BroadcastInit, BroadcastStep, <1>1, PTL DEF Bro!Spec
-----------------------------------------------------------------------------
(***************************************************************************)
(* Media.  A new key belongs to the handler that uploads under it alone,   *)
(* an image without its object or row has a handler that is at it, and     *)
(* whoever changes the avatar alone knows what the bucket holds of it.     *)
(***************************************************************************)
KeysHeld ==
    \A h \in Uploaders :
        /\ uploader[h].phase \in {"putImage", "storeRow", "erase"} =>
             \E i \in Images : uploader[h].keys = {i}
        /\ uploader[h].phase = "erase" <=> uploader[h].todo # {}
        /\ uploader[h].phase = "idle" => uploader[h].keys = {}
        /\ Med!OnAvatar(h) => uploader[h].keys \subseteq Extensions

NewKeysHeldAlone ==
    \A h \in Uploaders, i \in Images :
        uploader[h].phase \in {"putImage", "storeRow"} /\ i \in uploader[h].keys =>
            /\ i \notin images
            /\ i \in objects <=> uploader[h].phase = "storeRow"
            /\ \A g \in Uploaders \ {h} : i \notin uploader[g].keys

ErasedIsGone ==
    \A h \in Uploaders, i \in Images :
        uploader[h].phase = "erase" /\ i \in uploader[h].keys =>
            /\ "object" \notin uploader[h].todo => i \notin objects
            /\ "row" \notin uploader[h].todo => i \notin images

HalvesInHand ==
    \A i \in Images :
        /\ i \in objects \ images =>
             \E h \in Uploaders : uploader[h].phase \in {"storeRow", "erase"} /\ i \in uploader[h].keys
        /\ i \in images \ objects =>
             \E h \in Uploaders : uploader[h].phase = "erase" /\ i \in uploader[h].keys

Avatars == objects \cap Extensions

OneOnAvatar ==
    /\ \A g, h \in Uploaders : Med!OnAvatar(g) /\ Med!OnAvatar(h) => g = h
    /\ \A h \in Uploaders : Med!OnAvatar(h) => uploader[h].old = avatar

OffAvatar(h) == uploader[h].phase \notin {"putAvatar", "setAvatar", "dropAvatar", "clearAvatar"}

AvatarKnown ==
    /\ \A h \in Uploaders :
         /\ uploader[h].phase \in {"putAvatar", "dropAvatar"} => sweeps = {} /\ Avatars = avatar
         /\ uploader[h].phase = "setAvatar" =>
              /\ uploader[h].keys \subseteq Avatars
              /\ sweeps \cap uploader[h].keys = {}
              /\ Avatars \subseteq uploader[h].keys \cup sweeps
         /\ uploader[h].phase = "clearAvatar" => sweeps = {} /\ Avatars = {}
    /\ (\A h \in Uploaders : ~Med!OnAvatar(h)) =>
         avatar \subseteq Avatars /\ sweeps \cap avatar = {} /\ Avatars \subseteq avatar \cup sweeps

MediaTypes == Med!TypeOK /\ KeysHeld

ImageState == NewKeysHeldAlone /\ (~spoiled => ErasedIsGone /\ HalvesInHand)

AvatarState == ~spoiled => OneOnAvatar /\ AvatarKnown

MediaInv == MediaTypes /\ ImageState /\ AvatarState

\* Nothing is stored and nobody stores anything.
LEMMA MediaInit == Med!Init => MediaInv
<1> SUFFICES ASSUME Med!Init PROVE MediaInv
  OBVIOUS
<1> USE DEF Med!Init, Med!Idle, Med!OnAvatar
<1>1. MediaTypes
  BY DEF MediaTypes, Med!TypeOK, Med!Phases, Med!Keys, KeysHeld
<1>2. ImageState
  BY DEF ImageState, NewKeysHeldAlone, ErasedIsGone, HalvesInHand
<1>3. AvatarState
  BY DEF AvatarState, Avatars, OneOnAvatar, AvatarKnown
<1> QED
  BY <1>1, <1>2, <1>3 DEF MediaInv

\* Every step keeps the types.
LEMMA MediaTypesStep == MediaTypes /\ [Med!Next]_Med!vars => MediaTypes'
<1> SUFFICES ASSUME MediaTypes, [Med!Next]_Med!vars PROVE MediaTypes'
  OBVIOUS
<1> USE DEF MediaTypes, Med!TypeOK, Med!Phases, Med!Keys, Med!Idle, KeysHeld, Med!OnAvatar
<1>1. ASSUME NEW h \in Uploaders, NEW i \in Images, Med!UploadImage(h, i) \/ Med!DeleteImage(h, i)
      PROVE  MediaTypes'
  BY <1>1 DEF Med!UploadImage, Med!DeleteImage, Med!Start
<1>2. ASSUME NEW h \in Uploaders, NEW k \in Extensions, Med!ChangeAvatar(h, k) PROVE MediaTypes'
  BY <1>2 DEF Med!ChangeAvatar, Med!BeginAvatar, Med!Start
<1>3. ASSUME NEW h \in Uploaders, NEW p \in {"object", "row"}, NEW fails \in BOOLEAN,
             Med!Erase(h, p, fails)
      PROVE  MediaTypes'
  <2>1. CASE uploader[h].todo = {p}
    BY <1>3, <2>1 DEF Med!Erase
  <2>2. CASE uploader[h].todo # {p}
    <3>1. uploader' = [uploader EXCEPT ![h] = [uploader[h] EXCEPT !.todo = uploader[h].todo \ {p}]]
      BY <1>3, <2>2 DEF Med!Erase, Med!Over
    <3>2. uploader[h].phase = "erase" /\ uploader[h].todo \ {p} # {}
      BY <1>3, <2>2 DEF Med!Erase
    <3>3. objects' \subseteq objects /\ images' \subseteq images /\ UNCHANGED <<avatar, sweeps>>
      BY <1>3 DEF Med!Erase
    <3>4. spoiled' \in BOOLEAN
      BY <1>3 DEF Med!Erase
    <3> DEFINE e == [uploader[h] EXCEPT !.todo = uploader[h].todo \ {p}]
    <3>5. e \in [phase : Med!Phases, keys : SUBSET Med!Keys, todo : SUBSET {"object", "row"},
                 old : SUBSET Extensions]
      OBVIOUS
    <3>6. e.phase = "erase" /\ e.todo # {} /\ e.keys = uploader[h].keys
      BY <3>2
    <3> HIDE DEF e
    <3>7. uploader'[h] = e /\ \A g \in Uploaders \ {h} : uploader'[g] = uploader[g]
      BY <3>1 DEF e
    <3>8. Med!TypeOK'
      BY <3>1, <3>3, <3>4, <3>5 DEF e
    <3>9. KeysHeld'
      BY <3>2, <3>6, <3>7
    <3> QED
      BY <3>8, <3>9
  <2> QED
    BY <2>1, <2>2
<1>4. ASSUME NEW h \in Uploaders, Med!PutImage(h) PROVE MediaTypes'
  BY <1>4 DEF Med!PutImage, Med!Move
<1>5. ASSUME NEW h \in Uploaders, Med!StoreRow(h) PROVE MediaTypes'
  BY <1>5 DEF Med!StoreRow, Med!Move
<1>6. ASSUME NEW h \in Uploaders, Med!GiveUp(h) PROVE MediaTypes'
  BY <1>6 DEF Med!GiveUp, Med!Busy
<1>7. ASSUME NEW h \in Uploaders, Med!RemoveAvatar(h) PROVE MediaTypes'
  BY <1>7 DEF Med!RemoveAvatar, Med!BeginAvatar, Med!Start
<1>8. ASSUME NEW h \in Uploaders, Med!PutAvatar(h) PROVE MediaTypes'
  BY <1>8 DEF Med!PutAvatar, Med!Move, Med!Outdated
<1>9. ASSUME NEW h \in Uploaders, Med!SetAvatar(h) PROVE MediaTypes'
  BY <1>9 DEF Med!SetAvatar, Med!Move
<1>10. ASSUME NEW h \in Uploaders, Med!DropAvatar(h) PROVE MediaTypes'
  BY <1>10 DEF Med!DropAvatar, Med!Move
<1>11. ASSUME NEW h \in Uploaders, Med!ClearAvatar(h) PROVE MediaTypes'
  BY <1>11 DEF Med!ClearAvatar, Med!Move
<1>12. ASSUME NEW k \in Extensions, NEW fails \in BOOLEAN, Med!Sweep(k, fails) PROVE MediaTypes'
  BY <1>12 DEF Med!Sweep
<1>13. CASE UNCHANGED Med!vars
  BY <1>13 DEF Med!vars
<1> QED
  BY <1>1, <1>2, <1>3, <1>4, <1>5, <1>6, <1>7, <1>8, <1>9, <1>10, <1>11, <1>12, <1>13 DEF Med!Next

\* A step that leaves the avatar's handlers, keys and deletions alone keeps what
\* is known of the avatar.
LEMMA AvatarUntouched ==
    ASSUME AvatarState, UNCHANGED <<avatar, sweeps, Avatars>>, spoiled => spoiled',
           \A g \in Uploaders : uploader'[g] = uploader[g] \/ (OffAvatar(g) /\ OffAvatar(g)')
    PROVE  AvatarState'
BY DEF AvatarState, OneOnAvatar, AvatarKnown, OffAvatar, Med!OnAvatar

\* A step that leaves the images' handlers, objects and rows alone keeps what is
\* known of the images.
LEMMA ImagesUntouched ==
    ASSUME ImageState, MediaTypes, MediaTypes', KeysApart, UNCHANGED images, spoiled => spoiled',
           \A i \in Images : i \in objects' <=> i \in objects,
           \A g \in Uploaders :
               \/ uploader'[g] = uploader[g]
               \/ uploader[g].phase \notin {"putImage", "storeRow", "erase"}
                  /\ uploader'[g].phase \notin {"putImage", "storeRow", "erase"}
    PROVE  ImageState'
<1> USE DEF ImageState, MediaTypes, KeysHeld, KeysApart, Med!TypeOK, Med!Phases, Med!OnAvatar
<1>1. \A g \in Uploaders, i \in Images : i \in uploader'[g].keys =>
          uploader'[g].phase \in {"putImage", "storeRow", "erase"} /\ uploader'[g] = uploader[g]
  OBVIOUS
<1>2. NewKeysHeldAlone'
  BY <1>1 DEF NewKeysHeldAlone
<1>3. ~spoiled' => ErasedIsGone' /\ HalvesInHand'
  BY <1>1 DEF ErasedIsGone, HalvesInHand
<1> QED
  BY <1>2, <1>3

\* The start of a handler: it was idle, and the other handlers are left alone.
LEMMA ImageStartStep ==
    ASSUME MediaInv, MediaTypes', NEW h \in Uploaders, NEW i \in Images,
           Med!UploadImage(h, i) \/ Med!DeleteImage(h, i)
    PROVE  ImageState'
<1> USE DEF MediaInv, MediaTypes, KeysHeld, Med!TypeOK, Med!Phases, Med!OnAvatar, ImageState
<1>1. UNCHANGED <<objects, images, avatar, sweeps, spoiled>>
  BY DEF Med!UploadImage, Med!DeleteImage
<1>2. \A g \in Uploaders \ {h} : uploader'[g] = uploader[g]
  BY DEF Med!UploadImage, Med!DeleteImage, Med!Start
<1>3. uploader[h].phase = "idle" /\ uploader[h].keys = {} /\ uploader'[h].keys = {i}
  BY DEF Med!UploadImage, Med!DeleteImage, Med!Start, Med!Busy
<1>4. CASE Med!UploadImage(h, i)
  <2>1. uploader'[h].phase = "putImage" /\ i \notin objects /\ i \notin images
        /\ \A g \in Uploaders : i \notin uploader[g].keys
    BY <1>4 DEF Med!UploadImage, Med!Start
  <2>2. NewKeysHeldAlone'
    BY <1>1, <1>2, <1>3, <2>1 DEF NewKeysHeldAlone
  <2>3. ~spoiled => ErasedIsGone' /\ HalvesInHand'
    BY <1>1, <1>2, <1>3, <2>1 DEF ErasedIsGone, HalvesInHand
  <2> QED
    BY <1>1, <2>2, <2>3
<1>5. CASE Med!DeleteImage(h, i)
  <2>1. uploader'[h].phase = "erase" /\ uploader'[h].todo = {"object", "row"} /\ i \in images
    BY <1>5 DEF Med!DeleteImage, Med!Start
  <2>2. NewKeysHeldAlone'
    BY <1>1, <1>2, <1>3, <2>1 DEF NewKeysHeldAlone
  <2>3. ~spoiled => ErasedIsGone' /\ HalvesInHand'
    BY <1>1, <1>2, <1>3, <2>1 DEF ErasedIsGone, HalvesInHand
  <2> QED
    BY <1>1, <2>2, <2>3
<1> QED
  BY <1>4, <1>5

\* An object is put, then the row is stored.
LEMMA ImagePutStep ==
    ASSUME MediaInv, MediaTypes', NEW h \in Uploaders, Med!PutImage(h) \/ Med!StoreRow(h)
    PROVE  ImageState'
<1> USE DEF MediaInv, MediaTypes, KeysHeld, Med!TypeOK, Med!Phases, ImageState
<1>1. UNCHANGED <<avatar, sweeps, spoiled>>
  BY DEF Med!PutImage, Med!StoreRow
<1>2. \A g \in Uploaders \ {h} : uploader'[g] = uploader[g]
  BY DEF Med!PutImage, Med!StoreRow, Med!Move
<1>3. uploader[h].phase \in {"putImage", "storeRow"}
  BY DEF Med!PutImage, Med!StoreRow, Med!Move
<1>4. PICK i \in Images : uploader[h].keys = {i}
  BY <1>3
<1>5. i \notin images /\ \A g \in Uploaders \ {h} : i \notin uploader[g].keys
  BY <1>3, <1>4 DEF NewKeysHeldAlone
<1>6. CASE Med!PutImage(h)
  <2>1. uploader[h].phase = "putImage" /\ uploader'[h].phase = "storeRow" /\ uploader'[h].keys = {i}
        /\ objects' = objects \cup {i} /\ images' = images
    BY <1>4, <1>6 DEF Med!PutImage, Med!Move
  <2>2. NewKeysHeldAlone'
    BY <1>2, <1>5, <2>1 DEF NewKeysHeldAlone
  <2>3. ~spoiled => ErasedIsGone' /\ HalvesInHand'
    BY <1>2, <1>4, <1>5, <2>1 DEF ErasedIsGone, HalvesInHand
  <2> QED
    BY <1>1, <2>2, <2>3
<1>7. CASE Med!StoreRow(h)
  <2>1. uploader[h].phase = "storeRow" /\ uploader'[h].phase = "idle" /\ uploader'[h].keys = {}
        /\ objects' = objects /\ images' = images \cup {i}
    BY <1>4, <1>7 DEF Med!StoreRow, Med!Move, Med!Idle
  <2>2. i \in objects
    BY <1>4, <2>1 DEF NewKeysHeldAlone
  <2>3. NewKeysHeldAlone'
    BY <1>2, <1>5, <2>1 DEF NewKeysHeldAlone
  <2>4. ~spoiled => ErasedIsGone' /\ HalvesInHand'
    BY <1>2, <1>4, <1>5, <2>1, <2>2 DEF ErasedIsGone, HalvesInHand
  <2> QED
    BY <1>1, <2>3, <2>4
<1> QED
  BY <1>6, <1>7

\* The object or the row goes, or its deletion fails.
LEMMA ImageEraseStep ==
    ASSUME MediaInv, MediaTypes', NEW h \in Uploaders, NEW p \in {"object", "row"},
           NEW fails \in BOOLEAN, Med!Erase(h, p, fails)
    PROVE  ImageState'
<1> USE DEF MediaInv, MediaTypes, KeysHeld, Med!TypeOK, Med!Phases, ImageState
<1>1. \A g \in Uploaders \ {h} : uploader'[g] = uploader[g]
  BY DEF Med!Erase
<1>2. PICK i \in Images : uploader[h].phase = "erase" /\ uploader[h].keys = {i}
  BY DEF Med!Erase
<1>3. \/ uploader[h].todo = {p} /\ uploader'[h].phase = "idle" /\ uploader'[h].keys = {}
      \/ /\ uploader'[h].phase = "erase" /\ uploader'[h].keys = {i}
         /\ uploader'[h].todo = uploader[h].todo \ {p}
  BY <1>2 DEF Med!Erase, Med!Idle, Med!Over
<1>4. /\ objects' = IF p = "object" /\ ~fails THEN objects \ {i} ELSE objects
      /\ images' = IF p = "row" /\ ~fails THEN images \ {i} ELSE images
      /\ ~spoiled' => ~spoiled /\ ~fails
  BY <1>2 DEF Med!Erase
<1>5. NewKeysHeldAlone'
  <2>1. ASSUME NEW g \in Uploaders, NEW j \in Images,
               uploader'[g].phase \in {"putImage", "storeRow"}, j \in uploader'[g].keys
        PROVE  g # h /\ uploader'[g] = uploader[g] /\ j # i
    <3>1. g # h
      BY <1>3, <2>1
    <3>2. uploader'[g] = uploader[g]
      BY <1>1, <3>1
    <3> QED
      BY <1>2, <2>1, <3>1, <3>2 DEF NewKeysHeldAlone
  <2>2. uploader'[h].keys \subseteq uploader[h].keys
    BY <1>2, <1>3
  <2> QED
    BY <1>1, <1>4, <2>1, <2>2 DEF NewKeysHeldAlone
<1>6. ASSUME ~spoiled' PROVE ErasedIsGone'
  BY <1>1, <1>2, <1>3, <1>4, <1>6 DEF ErasedIsGone
<1>7. ASSUME ~spoiled' PROVE HalvesInHand'
  <2>1. uploader'[h].phase = "idle" => i \notin objects' /\ i \notin images'
    BY <1>2, <1>3, <1>4, <1>7 DEF ErasedIsGone
  <2>2. \A j \in Images \ {i} : (j \in objects' <=> j \in objects) /\ (j \in images' <=> j \in images)
    BY <1>4
  <2>3. i \in objects' \/ i \in images' => uploader'[h].phase = "erase" /\ i \in uploader'[h].keys
    BY <1>3, <2>1
  <2> QED
    BY <1>1, <1>2, <1>4, <1>7, <2>2, <2>3 DEF HalvesInHand
<1> QED
  BY <1>5, <1>6, <1>7

\* A change or removal of the avatar begins.
LEMMA AvatarBeginStep ==
    ASSUME MediaInv, NEW h \in Uploaders, NEW phase \in {"putAvatar", "dropAvatar"}, NEW keys,
           Med!BeginAvatar(h, phase, keys)
    PROVE  AvatarState'
<1> SUFFICES ASSUME ~spoiled' PROVE OneOnAvatar' /\ AvatarKnown'
  BY DEF AvatarState
<1> USE DEF MediaInv, MediaTypes, Med!TypeOK, AvatarState
<1>1. UNCHANGED <<objects, avatar, sweeps, Avatars>>
  BY DEF Med!BeginAvatar, Avatars
<1>2. ~spoiled /\ sweeps = {} /\ \A g \in Uploaders : ~Med!OnAvatar(g)
  BY DEF Med!BeginAvatar
<1>3. Avatars = avatar
  BY <1>2 DEF AvatarKnown
<1>4. uploader'[h].phase = phase /\ uploader'[h].old = avatar
      /\ \A g \in Uploaders \ {h} : uploader'[g] = uploader[g]
  BY DEF Med!BeginAvatar, Med!Start
<1>5. OneOnAvatar'
  BY <1>1, <1>2, <1>4 DEF OneOnAvatar, Med!OnAvatar
<1>6. AvatarKnown'
  BY <1>1, <1>2, <1>3, <1>4 DEF AvatarKnown, Med!OnAvatar
<1> QED
  BY <1>5, <1>6

\* A handler that is at the avatar goes on, or gives up before its first write.
LEMMA AvatarMoveStep ==
    ASSUME MediaInv, NEW h \in Uploaders,
           \/ Med!PutAvatar(h) \/ Med!SetAvatar(h) \/ Med!DropAvatar(h) \/ Med!ClearAvatar(h)
           \/ (Med!OnAvatar(h) /\ Med!GiveUp(h))
    PROVE  AvatarState'
<1> SUFFICES ASSUME ~spoiled' PROVE OneOnAvatar' /\ AvatarKnown'
  BY DEF AvatarState
<1> USE DEF MediaInv, MediaTypes, Med!TypeOK, KeysHeld, AvatarState
<1>1. ~spoiled /\ Med!OnAvatar(h)
  BY DEF Med!PutAvatar, Med!SetAvatar, Med!DropAvatar, Med!ClearAvatar, Med!GiveUp, Med!Move, Med!OnAvatar
<1>2. uploader[h].old = avatar /\ \A g \in Uploaders \ {h} : ~Med!OnAvatar(g)
  BY <1>1 DEF OneOnAvatar
<1>3. \A g \in Uploaders \ {h} : uploader'[g] = uploader[g]
  BY DEF Med!PutAvatar, Med!SetAvatar, Med!DropAvatar, Med!ClearAvatar, Med!GiveUp, Med!Move
<1>4. \A g \in Uploaders \ {h} : ~Med!OnAvatar(g)'
  BY <1>2, <1>3 DEF Med!OnAvatar
<1>5. uploader[h].keys \subseteq Extensions
  BY <1>1
<1>6. CASE Med!PutAvatar(h)
  <2>1. /\ uploader[h].phase = "putAvatar" /\ uploader'[h].phase = "setAvatar"
        /\ uploader'[h].old = avatar /\ uploader'[h].keys = uploader[h].keys
        /\ objects' = objects \cup uploader[h].keys /\ avatar' = avatar
        /\ sweeps' = sweeps \cup (avatar \ uploader[h].keys)
    BY <1>2, <1>6 DEF Med!PutAvatar, Med!Move, Med!Outdated
  <2>2. sweeps = {} /\ Avatars = avatar
    BY <1>1, <2>1 DEF AvatarKnown
  <2>3. Avatars' = avatar \cup uploader[h].keys
    BY <1>5, <2>1, <2>2 DEF Avatars
  <2>4. OneOnAvatar'
    BY <1>4, <2>1 DEF OneOnAvatar
  <2>5. AvatarKnown'
    BY <1>4, <2>1, <2>2, <2>3 DEF AvatarKnown, Med!OnAvatar
  <2> QED
    BY <2>4, <2>5
<1>7. CASE Med!SetAvatar(h)
  <2>1. /\ uploader[h].phase = "setAvatar" /\ uploader'[h].phase = "idle"
        /\ avatar' = uploader[h].keys /\ UNCHANGED <<objects, sweeps, Avatars>>
    BY <1>7 DEF Med!SetAvatar, Med!Move, Med!Idle, Avatars
  <2>2. OneOnAvatar'
    BY <1>4, <2>1 DEF OneOnAvatar, Med!OnAvatar
  <2>3. AvatarKnown'
    BY <1>1, <1>4, <2>1 DEF AvatarKnown, Med!OnAvatar
  <2> QED
    BY <2>2, <2>3
<1>8. CASE Med!DropAvatar(h)
  <2>1. /\ uploader[h].phase = "dropAvatar" /\ uploader'[h].phase = "clearAvatar"
        /\ uploader'[h].old = avatar
        /\ objects' = objects \ avatar /\ UNCHANGED <<avatar, sweeps>>
    BY <1>2, <1>8 DEF Med!DropAvatar, Med!Move
  <2>2. sweeps = {} /\ Avatars = avatar
    BY <1>1, <2>1 DEF AvatarKnown
  <2>3. Avatars' = {}
    BY <2>1, <2>2 DEF Avatars
  <2>4. OneOnAvatar'
    BY <1>4, <2>1 DEF OneOnAvatar
  <2>5. AvatarKnown'
    BY <1>4, <2>1, <2>2, <2>3 DEF AvatarKnown, Med!OnAvatar
  <2> QED
    BY <2>4, <2>5
<1>9. CASE Med!ClearAvatar(h)
  <2>1. /\ uploader[h].phase = "clearAvatar" /\ uploader'[h].phase = "idle"
        /\ avatar' = {} /\ UNCHANGED <<objects, sweeps, Avatars>>
    BY <1>9 DEF Med!ClearAvatar, Med!Move, Med!Idle, Avatars
  <2>2. OneOnAvatar'
    BY <1>4, <2>1 DEF OneOnAvatar, Med!OnAvatar
  <2>3. AvatarKnown'
    BY <1>1, <1>4, <2>1 DEF AvatarKnown, Med!OnAvatar
  <2> QED
    BY <2>2, <2>3
<1>10. CASE Med!GiveUp(h)
  <2>1. /\ uploader'[h].phase = "idle" /\ UNCHANGED <<objects, avatar, sweeps, Avatars>>
        /\ uploader[h].phase \in {"putAvatar", "dropAvatar"}
    BY <1>1, <1>10 DEF Med!GiveUp, Med!Idle, Med!OnAvatar, Avatars
  <2>2. OneOnAvatar'
    BY <1>4, <2>1 DEF OneOnAvatar, Med!OnAvatar
  <2>3. AvatarKnown'
    BY <1>1, <1>4, <2>1 DEF AvatarKnown, Med!OnAvatar
  <2> QED
    BY <2>2, <2>3
<1> QED
  BY <1>6, <1>7, <1>8, <1>9, <1>10

\* The object of an old avatar goes, or its deletion fails.
LEMMA AvatarSweepStep ==
    ASSUME MediaInv, NEW k \in Extensions, NEW fails \in BOOLEAN, Med!Sweep(k, fails)
    PROVE  AvatarState'
<1> SUFFICES ASSUME ~spoiled' PROVE OneOnAvatar' /\ AvatarKnown'
  BY DEF AvatarState
<1>1. ~spoiled /\ ~fails /\ k \in sweeps /\ UNCHANGED <<avatar, uploader>> /\ sweeps' = sweeps \ {k}
  BY DEF Med!Sweep
<1>2. Avatars' = Avatars \ {k}
  BY <1>1 DEF Med!Sweep, Avatars
<1>3. OneOnAvatar /\ AvatarKnown
  BY <1>1 DEF MediaInv, AvatarState
<1>4. OneOnAvatar'
  BY <1>1, <1>3 DEF OneOnAvatar, Med!OnAvatar
<1>5. AvatarKnown'
  BY <1>1, <1>2, <1>3 DEF AvatarKnown, Med!OnAvatar
<1> QED
  BY <1>4, <1>5

\* Every step keeps the invariant.
LEMMA MediaStep == MediaInv /\ [Med!Next]_Med!vars => MediaInv'
<1> SUFFICES ASSUME MediaInv, [Med!Next]_Med!vars, MediaTypes' PROVE ImageState' /\ AvatarState'
  BY MediaTypesStep DEF MediaInv
<1>0. KeysApart /\ MediaTypes /\ ImageState /\ AvatarState
  BY KeysApart DEF MediaInv, KeysApart
<1>1. ASSUME NEW h \in Uploaders, NEW i \in Images, Med!UploadImage(h, i) \/ Med!DeleteImage(h, i)
      PROVE  ImageState' /\ AvatarState'
  <2>1. UNCHANGED <<avatar, sweeps, Avatars>> /\ (spoiled => spoiled')
    BY <1>1 DEF Med!UploadImage, Med!DeleteImage, Avatars
  <2>2. /\ uploader[h].phase = "idle" /\ uploader'[h].phase \in {"putImage", "erase"}
        /\ \A g \in Uploaders \ {h} : uploader'[g] = uploader[g]
    BY <1>0, <1>1 DEF Med!UploadImage, Med!DeleteImage, Med!Start, Med!Busy, MediaTypes, Med!TypeOK
  <2>3. \A g \in Uploaders : uploader'[g] = uploader[g] \/ (OffAvatar(g) /\ OffAvatar(g)')
    BY <2>2 DEF OffAvatar
  <2> QED
    BY <1>0, <1>1, <2>1, <2>3, ImageStartStep, AvatarUntouched
<1>2. ASSUME NEW h \in Uploaders, Med!PutImage(h) \/ Med!StoreRow(h) PROVE ImageState' /\ AvatarState'
  <2>1. PICK i \in Images : uploader[h].keys = {i}
    BY <1>0, <1>2 DEF MediaTypes, KeysHeld, Med!PutImage, Med!StoreRow, Med!Move
  <2>2. UNCHANGED <<avatar, sweeps, Avatars>> /\ (spoiled => spoiled')
    BY <1>0, <1>2, <2>1 DEF Med!PutImage, Med!StoreRow, Avatars, KeysApart
  <2>3. /\ uploader[h].phase \in {"putImage", "storeRow"} /\ uploader'[h].phase \in {"storeRow", "idle"}
        /\ \A g \in Uploaders \ {h} : uploader'[g] = uploader[g]
    BY <1>0, <1>2 DEF Med!PutImage, Med!StoreRow, Med!Move, Med!Idle, MediaTypes, Med!TypeOK
  <2>4. \A g \in Uploaders : uploader'[g] = uploader[g] \/ (OffAvatar(g) /\ OffAvatar(g)')
    BY <2>3 DEF OffAvatar
  <2> QED
    BY <1>0, <1>2, <2>2, <2>4, ImagePutStep, AvatarUntouched
<1>3. ASSUME NEW h \in Uploaders, NEW p \in {"object", "row"}, NEW fails \in BOOLEAN, Med!Erase(h, p, fails)
      PROVE  ImageState' /\ AvatarState'
  <2>1. PICK i \in Images : uploader[h].keys = {i}
    BY <1>0, <1>3 DEF MediaTypes, KeysHeld, Med!Erase
  <2>2. UNCHANGED <<avatar, sweeps, Avatars>> /\ (spoiled => spoiled')
    BY <1>0, <1>3, <2>1 DEF Med!Erase, Avatars, KeysApart
  <2>3. /\ uploader[h].phase = "erase"
        /\ \A g \in Uploaders \ {h} : uploader'[g] = uploader[g]
    BY <1>3 DEF Med!Erase
  <2>4. uploader'[h].phase \in {"erase", "idle"}
    <3>1. CASE uploader[h].todo = {p}
      BY <1>0, <1>3, <3>1 DEF Med!Erase, Med!Idle, MediaTypes, Med!TypeOK
    <3>2. CASE uploader[h].todo # {p}
      BY <1>0, <1>3, <3>2 DEF Med!Erase, Med!Over, MediaTypes, Med!TypeOK
    <3> QED
      BY <3>1, <3>2
  <2>5. \A g \in Uploaders : uploader'[g] = uploader[g] \/ (OffAvatar(g) /\ OffAvatar(g)')
    BY <2>3, <2>4 DEF OffAvatar
  <2> QED
    BY <1>0, <1>3, <2>2, <2>5, ImageEraseStep, AvatarUntouched
<1>4. ASSUME NEW h \in Uploaders, Med!GiveUp(h) PROVE ImageState' /\ AvatarState'
  <2>1. /\ UNCHANGED <<objects, images, avatar, sweeps, Avatars>> /\ (spoiled => spoiled')
        /\ uploader'[h] = Med!Idle /\ uploader[h].phase # "erase"
        /\ \A g \in Uploaders \ {h} : uploader'[g] = uploader[g]
    BY <1>0, <1>4 DEF Med!GiveUp, Avatars, MediaTypes, Med!TypeOK
  <2>2. ImageState'
    <3>1. NewKeysHeldAlone'
      BY <1>0, <2>1 DEF ImageState, NewKeysHeldAlone, Med!Idle
    <3>2. uploader'[h].phase = "idle" /\ (~spoiled' => ~spoiled /\ uploader[h].phase # "storeRow")
      <4>1. uploader'[h].phase = "idle"
        BY <2>1 DEF Med!Idle
      <4>2. spoiled' = (spoiled \/ uploader[h].phase \in {"storeRow", "setAvatar", "clearAvatar"})
        BY <1>4 DEF Med!GiveUp
      <4> QED
        BY <4>1, <4>2
    <3>3. ~spoiled' => ErasedIsGone'
      BY <1>0, <2>1, <3>2 DEF ImageState, ErasedIsGone
    <3>4. ~spoiled' => HalvesInHand'
      <4> SUFFICES ASSUME ~spoiled' PROVE HalvesInHand'
        OBVIOUS
      <4>1. HalvesInHand
        BY <1>0, <3>2 DEF ImageState
      <4>2. \A g \in Uploaders : uploader[g].phase \in {"storeRow", "erase"} =>
               g # h /\ uploader'[g] = uploader[g]
        BY <2>1, <3>2
      <4> QED
        BY <2>1, <4>1, <4>2 DEF HalvesInHand
    <3> QED
      BY <3>1, <3>3, <3>4 DEF ImageState
  <2>3. AvatarState'
    <3>1. CASE Med!OnAvatar(h)
      BY <1>4, <3>1, AvatarMoveStep
    <3>2. CASE ~Med!OnAvatar(h)
      <4>1. \A g \in Uploaders : uploader'[g] = uploader[g] \/ (OffAvatar(g) /\ OffAvatar(g)')
        <5>1. uploader'[h].phase = "idle"
          BY <2>1 DEF Med!Idle
        <5> QED
          BY <2>1, <3>2, <5>1 DEF OffAvatar, Med!OnAvatar
      <4> QED
        BY <1>0, <2>1, <4>1, AvatarUntouched
    <3> QED
      BY <3>1, <3>2
  <2> QED
    BY <2>2, <2>3
<1>5. ASSUME NEW h \in Uploaders,
             (\E k \in Extensions : Med!ChangeAvatar(h, k)) \/ Med!RemoveAvatar(h)
      PROVE  ImageState' /\ AvatarState'
  <2>1. PICK phase \in {"putAvatar", "dropAvatar"}, keys \in SUBSET Extensions : Med!BeginAvatar(h, phase, keys)
    BY <1>5 DEF Med!ChangeAvatar, Med!RemoveAvatar
  <2>2. /\ UNCHANGED <<objects, images>> /\ (spoiled => spoiled')
        /\ \A g \in Uploaders \ {h} : uploader'[g] = uploader[g]
        /\ uploader[h].phase = "idle" /\ uploader'[h].phase = phase
    BY <1>0, <2>1 DEF Med!BeginAvatar, Med!Start, Med!Busy, MediaTypes, Med!TypeOK
  <2>3. ImageState'
    BY <1>0, <2>2, ImagesUntouched
  <2> QED
    BY <2>1, <2>3, AvatarBeginStep
<1>6. ASSUME NEW h \in Uploaders,
             Med!PutAvatar(h) \/ Med!SetAvatar(h) \/ Med!DropAvatar(h) \/ Med!ClearAvatar(h)
      PROVE  ImageState' /\ AvatarState'
  <2>1. Med!OnAvatar(h) /\ UNCHANGED images /\ (spoiled => spoiled')
        /\ \A g \in Uploaders \ {h} : uploader'[g] = uploader[g]
    <3>1. Med!OnAvatar(h)
      BY <1>6 DEF Med!PutAvatar, Med!SetAvatar, Med!DropAvatar, Med!ClearAvatar, Med!Move, Med!OnAvatar
    <3>2. UNCHANGED images /\ UNCHANGED spoiled
      BY <1>6 DEF Med!PutAvatar, Med!SetAvatar, Med!DropAvatar, Med!ClearAvatar
    <3>3. \A g \in Uploaders \ {h} : uploader'[g] = uploader[g]
      BY <1>0, <1>6 DEF Med!PutAvatar, Med!SetAvatar, Med!DropAvatar, Med!ClearAvatar, Med!Move, MediaTypes,
                        Med!TypeOK
    <3> QED
      BY <3>1, <3>2, <3>3
  <2>2. uploader'[h].phase \in {"idle", "setAvatar", "clearAvatar"}
    BY <1>0, <1>6 DEF Med!PutAvatar, Med!SetAvatar, Med!DropAvatar, Med!ClearAvatar, Med!Move, Med!Idle,
                      MediaTypes, Med!TypeOK
  <2>3. uploader[h].keys \subseteq Extensions /\ uploader[h].old \subseteq Extensions
    BY <1>0, <2>1 DEF MediaTypes, KeysHeld, Med!TypeOK
  <2>4. \A i \in Images : i \in objects' <=> i \in objects
    BY <1>0, <1>6, <2>3 DEF Med!PutAvatar, Med!SetAvatar, Med!DropAvatar, Med!ClearAvatar, KeysApart
  <2>5. ImageState'
    BY <1>0, <2>1, <2>2, <2>4, ImagesUntouched DEF Med!OnAvatar
  <2> QED
    BY <1>6, <2>5, AvatarMoveStep
<1>7. ASSUME NEW k \in Extensions, NEW fails \in BOOLEAN, Med!Sweep(k, fails)
      PROVE  ImageState' /\ AvatarState'
  <2>1. UNCHANGED <<images, uploader>> /\ (spoiled => spoiled')
        /\ \A i \in Images : i \in objects' <=> i \in objects
    BY <1>0, <1>7 DEF Med!Sweep, KeysApart
  <2>2. ImageState'
    BY <1>0, <2>1, ImagesUntouched
  <2> QED
    BY <1>7, <2>2, AvatarSweepStep
<1>8. CASE UNCHANGED Med!vars
  BY <1>0, <1>8 DEF Med!vars, ImageState, AvatarState, NewKeysHeldAlone, ErasedIsGone, HalvesInHand,
                    OneOnAvatar, AvatarKnown, Avatars, Med!OnAvatar
<1> QED
  BY <1>1, <1>2, <1>3, <1>4, <1>5, <1>6, <1>7, <1>8 DEF Med!Next

\* As long as no second write failed and no two changes of the avatar overlapped,
\* the bucket and the rows match (upload, delete, uploadAvatar, deleteAvatar).
THEOREM BucketAndRowsMatch == Med!Spec => []BucketMatchesRows
<1>1. MediaInv => BucketMatchesRows
  <2> SUFFICES ASSUME MediaInv, ~spoiled PROVE BucketMatchesRows
    BY DEF BucketMatchesRows, Med!BucketMatchesRows
  <2> USE DEF MediaInv, MediaTypes, ImageState, AvatarState, Med!TypeOK, Med!Keys, Avatars
  <2>1. Med!RowsNameObjects
    BY DEF Med!RowsNameObjects, Med!BeingErased, HalvesInHand
  <2>2. Med!AvatarNamesObject
    BY DEF Med!AvatarNamesObject, AvatarKnown
  <2>3. Med!NothingLeftOver
    <3> SUFFICES ASSUME sweeps = {}, \A h \in Uploaders : ~Med!Busy(h) PROVE objects = images \cup avatar
      BY DEF Med!NothingLeftOver
    <3>1. \A h \in Uploaders : uploader[h].phase = "idle" /\ ~Med!OnAvatar(h)
      BY DEF Med!Busy, Med!OnAvatar
    <3>2. \A i \in Images : i \in objects <=> i \in images
      BY <3>1 DEF HalvesInHand
    <3>3. objects \cap Extensions = avatar
      BY <3>1 DEF AvatarKnown
    <3> QED
      BY <3>2, <3>3, KeysApart DEF KeysApart
  <2> QED
    BY <2>1, <2>2, <2>3 DEF BucketMatchesRows, Med!BucketMatchesRows
<1> QED
  BY MediaInit, MediaStep, <1>1, PTL DEF Med!Spec

-----------------------------------------------------------------------------
\* However many requests overlap, whatever is retried or lost: who is told of a
\* transition had to do with its order by then, and no committed one that the
\* subscriber has somebody to tell of is left out unless something broke
\* (transition(), NotificationSubscriber, NotificationWorker).  The instance of
\* NewsFollowsTrail.
THEOREM NewsFollowsTheTrail == New!Spec => []NewsMatchTrail
<1> USE NewsConstants DEF NewsConstants, New!LinkedConstants
<1>1. RoleOf \in [Everyone -> New!Roles] /\ NoTechnician \notin Everyone
  BY DEF RoleOf, New!Roles, Everyone
<1>2. New!Init => New!NewsInv
  BY <1>1, New!NewsInit
<1>3. New!NewsInv /\ [New!Next]_New!vars => New!NewsInv'
  BY <1>1, New!NewsStep
<1>4. New!NewsInv => NewsMatchTrail
  BY <1>1, New!NewsInvMatches DEF NewsMatchTrail
<1> QED
  BY <1>2, <1>3, <1>4, PTL DEF New!Spec

\* A transition is reported once and by its own handler, and whoever is told, once
\* and once more at most for every fault, is told of a lawful one (transition(),
\* NotificationSubscriber, NotificationWorker).  The instance of ChangesToldOnce.
THEOREM NewsToldOnce == New!Spec => []EachChangeToldOnce
<1>1. New!RoleAssumption /\ New!NoTechnicianAssumption
  BY NewsConstants
  DEF NewsConstants, New!RoleAssumption, New!NoTechnicianAssumption, RoleOf, New!Roles, Everyone
<1>2. New!LinkedConstants
  BY NewsConstants DEF NewsConstants
<1>3. New!Spec => []New!EachChangeToldOnce
  BY <1>1, <1>2, New!ChangesToldOnce, PTL
<1>4. New!EachChangeToldOnce => EachChangeToldOnce
  BY DEF EachChangeToldOnce
<1> QED
  BY <1>3, <1>4, PTL
=============================================================================
