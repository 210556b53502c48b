------------------------------ MODULE Screens -------------------------------
(***************************************************************************)
(* What the browser offers to do with a work order, against what the back  *)
(* end accepts.  One browser, in which one user after another may sign in; *)
(* one order, which others move meanwhile; the order as the list of the    *)
(* page on the screen shows it, the dialog that keeps the order it was     *)
(* opened on, and the calls that are out.  An action is named by the       *)
(* status it asks for.                                                     *)
(***************************************************************************)
EXTENDS WorkOrderRules

CONSTANTS Calls     \* calls that may be out at once

VARIABLES
    row,        \* the order in the database: status and technician
    session,    \* who is signed in
    page,       \* the page on the screen
    list,       \* the order in the page's cached answer to GET /work-orders
    fetch,      \* whose request for the page's list is out
    dialog,     \* the dialog of the page, with the order it was opened on
    press       \* the calls made by clicks

vars == <<row, session, page, list, fetch, dialog, press>>

Nobody == NoTechnician
Askers == {"nobody", "own", "another's"}
Tables == {"orders", "queue"}
Pages == Tables \cup {"elsewhere"}

\* A copy of the order is sound if the user's own list told it and the order has
\* not moved since: then it is as `row` is.  A dialog and a call keep their copy.
Copy == [sound : BOOLEAN, status : Statuses]
Click == [sound : BOOLEAN, by : Users, to : Statuses]

\* `here` tells whether the page a call was made on is still on the screen.
Press == [click : Click, outcome : {"out", "accepted", "refused"}, here : BOOLEAN]

OrNone(S) == {{}} \cup {{x} : x \in S}

TypeOK ==
    /\ row \in [status : Statuses, technician : Technicians \cup {NoTechnician}]
    /\ session \in Users \cup {Nobody}
    /\ page \in Pages
    /\ list \in OrNone(Copy)
    /\ fetch \in Askers
    /\ dialog \in OrNone([sound : BOOLEAN, to : Statuses])
    /\ \A c \in Calls : press[c] = {} \/ \E k \in press[c] :
         press[c] = {k} /\ k \in Press

Init ==
    /\ row = [status |-> InitialStatus, technician |-> NoTechnician]
    /\ session = Nobody /\ page = "elsewhere"
    /\ list = {} /\ fetch = "nobody" /\ dialog = {}
    /\ press = [c \in Calls |-> {}]

-----------------------------------------------------------------------------
(***************************************************************************)
(* The order moves, by a click or by somebody else; every copy ages.       *)
(***************************************************************************)
Ages ==
    /\ list' = {[a EXCEPT !.sound = FALSE] : a \in list}
    /\ dialog' = {[d EXCEPT !.sound = FALSE] : d \in dialog}

PressAged == [c \in Calls |-> {[k EXCEPT !.click.sound = FALSE] : k \in press[c]}]

Moved(to, given) == [status |-> to,
                     technician |-> AssigneeAfter(row.status, to, row.technician, given)]

OtherMoves ==
    /\ \E to \in Transitions[row.status], t \in Technicians : row' = Moved(to, t)
    /\ Ages /\ press' = PressAged
    /\ UNCHANGED <<session, page, fetch>>

-----------------------------------------------------------------------------
(***************************************************************************)
(* Session and navigation.                                                 *)
(***************************************************************************)
\* ROLE_ROUTES.
Allowed(p, role) == p = "queue" => role = "HQ"

SignIn(u) ==
    /\ session = Nobody
    /\ session' = u
    /\ UNCHANGED <<row, page, list, fetch, dialog, press>>

\* What the screen no longer shows is not followed: it is among what Cached allows.
\* The calls run on, but no page that is visited again knows of them.
Leaves ==
    /\ page' = "elsewhere" /\ dialog' = {} /\ list' = {} /\ fetch' = "nobody"
    /\ press' = [c \in Calls |-> {[k EXCEPT !.here = FALSE] : k \in press[c]}]

\* logout empties the auth store, not the query cache, and AuthGuard leaves the page.
SignOut ==
    /\ session # Nobody
    /\ session' = Nobody /\ Leaves
    /\ UNCHANGED row

\* applyWorkOrderScope, for the order of this model.
InScope(u, r) == Role[u] = "TECHNICIAN" => r.technician = u

\* The list that earlier visits, whoever made them, left in the cache under a
\* page's key: without the order, with the order as it was, or as it is now.
Cached == OrNone({a \in Copy : a.sound => a.status = row.status /\ InScope(session, row)})

\* A page that opens shows its cached list, if there is one.  It asks for another
\* if there is none, if it is thirty seconds old or if an accepted click made it
\* out of date, unless a request of an earlier visit, maybe another user's, is
\* still out.
Open(p) ==
    /\ session # Nobody /\ page = "elsewhere"
    /\ page' = p /\ dialog' = {}
    /\ list' \in Cached /\ fetch' \in Askers
    /\ UNCHANGED <<row, session, press>>

Close ==
    /\ page \in Tables
    /\ Leaves
    /\ UNCHANGED <<row, session>>

\* RoleGuard looks after the page is on the screen.
Redirect ==
    /\ session # Nobody /\ ~Allowed(page, Role[session])
    /\ Leaves
    /\ UNCHANGED <<row, session>>

-----------------------------------------------------------------------------
(***************************************************************************)
(* The query for the list.                                                 *)
(***************************************************************************)
\* The answer is as of its arrival: a move on its way is one right after.
ListArrives ==
    /\ \/ fetch = "own" /\ InScope(session, row) /\ list' = {[sound |-> TRUE, status |-> row.status]}
       \/ fetch = "own" /\ ~InScope(session, row) /\ list' = {}
       \/ fetch = "another's" /\ list' \in OrNone({[sound |-> FALSE, status |-> row.status]})
    /\ fetch' = "nobody"
    /\ UNCHANGED <<row, session, page, dialog, press>>

ListFails ==
    /\ fetch # "nobody"
    /\ fetch' = "nobody"
    /\ UNCHANGED <<row, session, page, list, dialog, press>>

-----------------------------------------------------------------------------
(***************************************************************************)
(* What the tables offer.                                                  *)
(***************************************************************************)
\* Fault: work can be started before the journey.
TechnicianOffersEarly(status) ==
    CASE status = "ACCEPTED" -> {"EN_ROUTE", "IN_PROGRESS"}
      [] OTHER               -> {}

TechnicianOffers(status) ==
    CASE status = "ASSIGNED"    -> {"ACCEPTED", "REQUESTED"}
      [] status = "ACCEPTED"    -> {"EN_ROUTE"}
      [] status = "EN_ROUTE"    -> {"IN_PROGRESS"}
      [] status = "IN_PROGRESS" -> {"ISSUE", "COMPLETED"}
      [] status = "ISSUE"       -> {"IN_PROGRESS"}
      [] OTHER                  -> {}

\* canAction on the page of work orders.  A coordinator's buttons there have
\* empty handlers, and escalate has no button.
OrdersOffers(role, status) ==
    CASE role = "TECHNICIAN"                        -> TechnicianOffers(status)
      [] role = "HQ"                                -> {"CANCELLED"}
      [] role = "DEALER" /\ status = "REQUESTED"    -> {"CANCELLED"}
      [] OTHER                                      -> {}

\* The queue offers the same to everyone who sees it.
QueueOffers(status) ==
    CASE status = "REQUESTED"                -> {"ASSIGNED"}
      [] status \in {"ASSIGNED", "ACCEPTED"} -> {"RESCHEDULED"}
      [] OTHER                               -> {}

Offers(p, role, status) ==
    CASE p = "orders" -> OrdersOffers(role, status)
      [] p = "queue"  -> QueueOffers(status)
      [] OTHER        -> {}

OpensDialog == {"CANCELLED", "ASSIGNED", "RESCHEDULED"}

\* The order on the screen, if it has the button.
Offered(to) == {a \in list : to \in Offers(page, Role[session], a.status)}

-----------------------------------------------------------------------------
(***************************************************************************)
(* Clicks, and what becomes of them.                                       *)
(***************************************************************************)
Sent(c, sound, to) ==
    /\ press[c] = {}
    /\ press' = [press EXCEPT ![c] = {[click |-> [sound |-> sound, by |-> session, to |-> to],
                                       outcome |-> "out", here |-> TRUE]}]
    /\ UNCHANGED <<row, session, page, list, fetch, dialog>>

Button(c) ==
    \E to \in Statuses \ OpensDialog :
        \E a \in Offered(to) : Sent(c, a.sound, to)

OpenDialog ==
    /\ dialog = {}
    /\ \E to \in OpensDialog :
         \E a \in Offered(to) : dialog' = {[sound |-> a.sound, to |-> to]}
    /\ UNCHANGED <<row, session, page, list, fetch, press>>

\* The cancel dialog is locked until a call of this page's is answered, the others
\* are not.
Confirm(c) ==
    \E d \in dialog :
        /\ d.to = "CANCELLED" =>
               \A c2 \in Calls : \A k \in press[c2] : k.click.to # "CANCELLED" \/ ~k.here
        /\ Sent(c, d.sound, d.to)

CloseDialog ==
    /\ dialog # {}
    /\ dialog' = {}
    /\ UNCHANGED <<row, session, page, list, fetch, press>>

\* The endpoint: the role it is for, the caller's scope, the transition table.
Accepts(u, to) ==
    /\ InScope(u, row)
    /\ to \in Transitions[row.status]
    /\ Role[u] \in MoverRoles(row.status, to)

Outcome(c, o) == [PressAged EXCEPT ![c] = {[k EXCEPT !.outcome = o] : k \in @}]

Accept(c) ==
    /\ \E k \in press[c] :
         /\ k.outcome = "out" /\ Accepts(k.click.by, k.click.to)
         /\ \E t \in Technicians : row' = Moved(k.click.to, t)
    /\ Ages /\ press' = Outcome(c, "accepted")
    /\ UNCHANGED <<session, page, fetch>>

Refuse(c) ==
    /\ \E k \in press[c] : k.outcome = "out" /\ ~Accepts(k.click.by, k.click.to)
    /\ press' = [press EXCEPT ![c] = {[k EXCEPT !.outcome = "refused"] : k \in @}]
    /\ UNCHANGED <<row, session, page, list, fetch, dialog>>

\* The answer: success closes the dialog, unless the page was left or another
\* dialog of its kind was confirmed since, and the list on the screen is asked
\* for again whatever request is out; after a refusal the dialog stays.
Answered(c) ==
    /\ \E k \in press[c] :
         \/ /\ k.outcome = "accepted"
            /\ dialog' \in {dialog} \cup
                   (IF k.here THEN {{d \in dialog : d.to # k.click.to}} ELSE {})
            /\ fetch' = IF page \in Tables THEN "own" ELSE fetch
         \/ k.outcome = "refused" /\ UNCHANGED <<dialog, fetch>>
    /\ press' = [press EXCEPT ![c] = {}]
    /\ UNCHANGED <<row, session, page, list>>

Next ==
    \/ OtherMoves \/ SignOut \/ Close \/ Redirect
    \/ \E u \in Users : SignIn(u)
    \/ \E p \in Tables : Open(p)
    \/ ListArrives \/ ListFails
    \/ OpenDialog \/ CloseDialog
    \/ \E c \in Calls : Button(c) \/ Confirm(c) \/ Accept(c) \/ Refuse(c) \/ Answered(c)

Spec == Init /\ [][Next]_vars

-----------------------------------------------------------------------------
\* What is offered although the back end never accepts it: the queue to anyone
\* but a coordinator, rescheduling before the order is accepted, and a cancel
\* button for headquarters whatever the status.
Misoffered(k) ==
    \/ k.to \in {"ASSIGNED", "RESCHEDULED"} /\ Role[k.by] # "COORDINATOR"
    \/ k.to = "RESCHEDULED" /\ row.status = "ASSIGNED"
    \/ k.to = "CANCELLED" /\ Role[k.by] = "HQ" /\ row.status \notin {"REQUESTED", "ASSIGNED"}

\* Apart from these, a click is refused only because it is not sound: the order
\* moved after the list was read, or the list is that of the user before
\* (canAction and the queue's buttons against TRANSITIONS, CANCEL_RULES, @Roles).
RefusalsExplained ==
    \A c \in Calls : \A k \in press[c] :
        k.outcome = "refused" /\ k.click.sound => Misoffered(k.click)
=============================================================================
