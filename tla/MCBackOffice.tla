---------------------------- MODULE MCBackOffice ----------------------------
(***************************************************************************)
(* Nine parts of the back end that share no variable, one at a time:       *)
(* each behaviour moves one part and leaves the others where they began,   *)
(* so that the states are those of the parts added up, not multiplied.     *)
(* The news are looked at in three places of an order's life.              *)
(***************************************************************************)
EXTENDS Naturals, Sequences

CONSTANTS Handlers, Secrets, Guests, Raters, Rated, Uploaders, Images,
          Extensions, Clerks, Orders, DueOrders, MaxAttempts, MaxStalls, MaxUpdates,
          Users, NoTechnician,
          dealer, coordinator, customer, NewsOrders, Senders, Adapters, Known,
          MaxHistory, MaxCrashes, NewRows, SendAttempts, MaxStalled, MaxFaults

VARIABLES
    part,
    request, holder, granted, desk, raced,
    account, denied, tokens, link, visit,
    ratings, figures, rater, settled,
    objects, images, avatar, uploader, sweeps, spoiled,
    present, order, clerk, deletedBy,
    due, scan, list, todo, warned,
    sent, unbroadcast, wire, subscribed, shown, missed,
    followed, view,
    status, technicianId, completedAt, parties, history, transition, emitted, crashes,
    notice, row, job, worker, deliveries, faults, addressee

\* Object keys of images and of avatars differ in their prefix.
ASSUME KeysApart == Images \cap Extensions = {}

\* Whom the orders of Reporting and of OrderNews may be assigned to, and the
\* others who have to do with the latter.
Role == [u \in Users |-> "TECHNICIAN"]

Everyone == Users \cup {dealer, coordinator, customer}

RoleOf == [u \in Everyone |-> CASE u = dealer      -> "DEALER"
                               [] u = coordinator -> "COORDINATOR"
                               [] u = customer    -> "CUSTOMER"
                               [] OTHER           -> "TECHNICIAN"]

Reg == INSTANCE Registration
Ses == INSTANCE Sessions
Rat == INSTANCE Ratings
Med == INSTANCE Media
Cat == INSTANCE Catalog
Sla == INSTANCE SlaScan
Bro == INSTANCE Broadcast
Rep == INSTANCE Reporting
New == INSTANCE OrderNewsProofs WITH
           Users <- Everyone, Role <- RoleOf, Orders <- NewsOrders, Slots <- Handlers,
           request <- transition,
           Departments <- {}, DepartmentOf <- [u \in Everyone |-> NoTechnician],
           NoDepartment <- NoTechnician, NoUser <- NoTechnician, NoOrder <- NoTechnician,
           Workers <- Senders, NoWorker <- NoTechnician, NoNotice <- NoTechnician,
           MaxAttempts <- SendAttempts

\* NULL is nobody, and the orders' and the news' own constants are as they should be.
ASSUME NewsConstants == NoTechnician \notin Everyone /\ New!LinkedConstants

regVars == <<request, holder, granted, desk, raced>>
sesVars == <<account, denied, tokens, link, visit>>
ratVars == <<ratings, figures, rater, settled>>
medVars == <<objects, images, avatar, uploader, sweeps, spoiled>>
catVars == <<present, order, clerk, deletedBy>>
slaVars == <<due, scan, list, todo, warned>>
broVars == <<sent, unbroadcast, wire, subscribed, shown, missed>>
repVars == <<followed, view>>
newVars == <<status, technicianId, completedAt, parties, history, transition, emitted, crashes,
             notice, row, job, worker, deliveries, faults, addressee>>
vars == <<part, regVars, sesVars, ratVars, medVars, catVars, slaVars, broVars, repVars, newVars>>

\* The news of assigning, travelling and working, each with the changes that were
\* made, reported and told before this behaviour begins; from there up
\* to NewRows more are asked for.
Told == [newsOfAssigning  |-> <<>>,
         newsOfTravelling |-> <<"REQUESTED", "ASSIGNED", "ACCEPTED">>,
         newsOfWorking    |-> <<"REQUESTED", "ASSIGNED", "ACCEPTED", "EN_ROUTE", "IN_PROGRESS">>]

News == DOMAIN Told

Parts == {"registration", "sessions", "ratings", "media", "catalog", "sla", "broadcast",
          "reporting"} \cup News

\* An order that was led here, each step by whom it belongs to, everybody told.
BroughtTo(path) ==
    LET technician == CHOOSE u \in Users : TRUE
        rows       == Len(path) - 1
        told(n)    == n[2] <= rows
        Of(n)      == path[n[2] + 1]
        has        == CHOOSE h \in Known : TRUE
    IN
    /\ status = [o \in NewsOrders |-> path[Len(path)]]
    /\ technicianId = [o \in NewsOrders |-> technician]
    /\ completedAt = [o \in NewsOrders |-> FALSE]
    /\ parties = [o \in NewsOrders |->
           [dealer |-> dealer, customer |-> customer, department |-> NoTechnician]]
    /\ history = [o \in NewsOrders |-> [i \in 1..rows |->
           [from |-> path[i], to |-> path[i + 1], assignee |-> technician,
            by |-> IF i = 1 THEN coordinator ELSE technician]]]
    /\ transition = [h \in Handlers |-> New!Wor!Idle]
    /\ emitted = NewsOrders \X (1..rows)
    /\ crashes = 0
    /\ notice = [n \in New!News |->
           IF told(n) THEN [stage |-> "closed", channel |-> New!Ntf!ChannelFor(Of(n), has),
                            reachable |-> TRUE]
           ELSE [stage |-> "unseen", channel |-> "EMAIL", reachable |-> FALSE]]
    /\ row = [n \in New!News |-> IF told(n) THEN "SENT" ELSE "NONE"]
    /\ job = [n \in New!News |->
           [state |-> IF told(n) THEN "completed" ELSE "none", owner |-> NoTechnician,
            attempts |-> 0, stalls |-> 0]]
    /\ worker = [w \in Senders |-> [notice |-> NoTechnician, phase |-> "idle"]]
    /\ deliveries = [n \in New!News |-> IF told(n) THEN 1 ELSE 0]
    /\ faults = 0
    /\ addressee = [n \in New!News |->
           IF ~told(n) THEN NoTechnician
           ELSE IF Of(n) = "EN_ROUTE" THEN customer ELSE technician]

\* Requests are taken, and processes fail once the order is worked on, while the
\* new rows of the trail and the failures are fewer than NewRows; two requests
\* taken together may write one row more.
Room ==
    LET before == IF Told[part] = <<>> THEN 0 ELSE Len(Told[part]) - 1
        taken  == \E h \in Handlers :
                      transition[h].phase = "idle" /\ transition'[h].phase # "idle"
        failed == faults' # faults
    IN  /\ taken \/ failed =>
               \A o \in NewsOrders : Len(history[o]) - before + faults < NewRows
        /\ failed => part = "newsOfWorking"

Init ==
    /\ part \in Parts
    /\ Reg!Init /\ Ses!Init /\ Rat!Init /\ Med!Init /\ Cat!Init /\ Sla!Init /\ Bro!Init /\ Rep!Init
    /\ IF part \in News /\ Told[part] # <<>> THEN BroughtTo(Told[part]) ELSE New!Init
    /\ request.form = CHOOSE f \in Reg!Forms : TRUE
    /\ rater = [h \in Raters |-> Rat!Rater("idle", CHOOSE o \in Rated : TRUE, FALSE)]
    /\ part # "sessions" => account.role = "HQ"
    /\ part # "sla" => \A o \in DueOrders : due[o] = [open |-> TRUE, technician |-> TRUE]
    /\ part # "broadcast" => \A i \in Bro!Instances : subscribed[i] = "up"
    /\ part # "reporting" => followed.status = Rep!InitialStatus /\ ~followed.trail
                            /\ ~followed.recent /\ ~followed.late

Next ==
    /\ UNCHANGED part
    /\ \/ part = "registration" /\ Reg!Next
       \/ part # "registration" /\ UNCHANGED regVars
    /\ \/ part = "sessions" /\ Ses!Next
       \/ part # "sessions" /\ UNCHANGED sesVars
    /\ \/ part = "ratings" /\ Rat!Next
       \/ part # "ratings" /\ UNCHANGED ratVars
    /\ \/ part = "media" /\ Med!Next
       \/ part # "media" /\ UNCHANGED medVars
    /\ \/ part = "catalog" /\ Cat!Next
       \/ part # "catalog" /\ UNCHANGED catVars
    /\ \/ part = "sla" /\ Sla!Next
       \/ part # "sla" /\ UNCHANGED slaVars
    /\ \/ part = "broadcast" /\ Bro!Next
       \/ part # "broadcast" /\ UNCHANGED broVars
    /\ \/ part = "reporting" /\ Rep!Next
       \/ part # "reporting" /\ UNCHANGED repVars
    /\ \/ part \in News /\ New!Next /\ Room
       \/ part \notin News /\ UNCHANGED newVars

Spec == Init /\ [][Next]_vars

-----------------------------------------------------------------------------
\* The properties of the parts, each about the code named in its module.
AccountsMatchDecisions == Reg!AccountsMatchDecisions
OutForGood == Ses!OutForGood
ProfileFitsRole == Ses!ProfileFitsRole
FiguresExactOnceSettled == Rat!FiguresExactOnceSettled
BucketMatchesRows == Med!BucketMatchesRows
DeletedWasUnused == Cat!DeletedWasUnused
EveryScanWarns == Sla!EveryScanWarns
WatchersEndOnNewest == Bro!WatchersEndOnNewest
OverviewTellsOneStory == Rep!OverviewTellsOneStory
NewsMatchTrail == New!NewsMatchTrail
EachChangeToldOnce == New!EachChangeToldOnce
=============================================================================
