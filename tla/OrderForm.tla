----------------------------- MODULE OrderForm -----------------------------
(***************************************************************************)
(* The form for a new work order.  A submission makes the customer and the *)
(* device it was asked to make, one call after the other, and then the     *)
(* order; it goes on when the form or the page is gone.                    *)
(***************************************************************************)
EXTENDS Naturals

CONSTANTS MaxSubmissions, \* at most so many submissions
          MaxOpenings,    \* the form is opened at most so often
          Serials         \* serial numbers the user may type

VARIABLES
    maker,      \* the role of the user
    opened,     \* how often the form was opened
    shown,      \* the opening on the screen, 0 if the form is closed
    sub,        \* the submissions
    latest,     \* the set of the submission whose order the page watches
    customers,  \* the submissions that made a customer row
    registered, \* the serial numbers in the database
    orders,     \* the submissions that made an order
    troubled    \* openings with a submission begun while another of the page
                \* was under way, or with an order whose answer was lost

vars == <<maker, opened, shown, sub, latest, customers, registered, orders, troubled>>

Submissions == 1..MaxSubmissions
Picked == "picked"
Makers == {"DEALER", "COORDINATOR"}
Asked == {"customer", "device", "order"}

\* The order is made: its answer and the lists that are then awaited are out.
Running == Asked \cup {"made"}
Phases == Running \cup {"new", "ordered", "stopped"}

\* `here` tells whether the page the submission was made on is still on the screen.
NoSubmission == [phase |-> "new", opening |-> 0, device |-> Picked, here |-> FALSE]

Init ==
    /\ maker \in Makers
    /\ opened = 0 /\ shown = 0
    /\ sub = [s \in Submissions |-> NoSubmission]
    /\ latest = {} /\ customers = {} /\ registered = {} /\ orders = {} /\ troubled = {}

-----------------------------------------------------------------------------
(***************************************************************************)
(* The page.                                                               *)
(***************************************************************************)
\* canCreate lets both roles open the form.
OpenForm ==
    /\ shown = 0 /\ opened < MaxOpenings
    /\ opened' = opened + 1 /\ shown' = opened + 1
    /\ UNCHANGED <<maker, sub, latest, customers, registered, orders, troubled>>

CloseForm ==
    /\ shown # 0
    /\ shown' = 0
    /\ UNCHANGED <<maker, opened, sub, latest, customers, registered, orders, troubled>>

\* A page that is left and visited again watches a mutation of its own.
LeavePage ==
    /\ shown' = 0 /\ latest' = {}
    /\ sub' = [s \in Submissions |-> [sub[s] EXCEPT !.here = FALSE]]
    /\ UNCHANGED <<maker, opened, customers, registered, orders, troubled>>

-----------------------------------------------------------------------------
(***************************************************************************)
(* The button.  It is disabled while the order the page watches is out, not *)
(* while a customer or a device is being made.                             *)
(***************************************************************************)
Disabled == \E s \in latest : sub[s].phase \in {"order", "made"}

UnderWay == {s \in Submissions : sub[s].here /\ sub[s].phase \in Running}

\* mutate: the page watches the order called for last.
Watched(s, phase) == IF phase = "order" /\ sub'[s].here THEN {s} ELSE latest

Submit(s) ==
    /\ shown # 0 /\ ~Disabled
    /\ \A t \in Submissions : sub[t].phase = "new" <=> s <= t
    /\ \E device \in Serials \cup {Picked}, first \in Asked :
         /\ first = "device" => device # Picked
         /\ first = "order" => device = Picked
         /\ sub' = [sub EXCEPT ![s] = [phase |-> first, opening |-> shown,
                                       device |-> device, here |-> TRUE]]
         /\ latest' = Watched(s, first)
    /\ troubled' = IF UnderWay = {} THEN troubled ELSE troubled \cup {shown}
    /\ UNCHANGED <<maker, opened, shown, customers, registered, orders>>

-----------------------------------------------------------------------------
(***************************************************************************)
(* The calls of a submission, each with its answer.                        *)
(***************************************************************************)
To(s, phase) ==
    /\ sub' = [sub EXCEPT ![s] = IF phase \in Running THEN [@ EXCEPT !.phase = phase]
                                 ELSE [NoSubmission EXCEPT !.phase = phase,
                                                           !.opening = sub[s].opening]]
    /\ latest' = Watched(s, phase)

AfterCustomer(s) == IF sub[s].device = Picked THEN "order" ELSE "device"

\* POST /customers, for HQ and dealers.
MakeCustomer(s) ==
    /\ sub[s].phase = "customer" /\ maker = "DEALER"
    /\ customers' = customers \cup {s}
    /\ To(s, AfterCustomer(s))
    /\ UNCHANGED <<maker, opened, shown, registered, orders, troubled>>

\* POST /devices, for dealers; the serial number is unique.
MakeDevice(s) ==
    /\ sub[s].phase = "device" /\ maker = "DEALER"
    /\ sub[s].device \notin registered
    /\ registered' = registered \cup {sub[s].device}
    /\ To(s, "order")
    /\ UNCHANGED <<maker, opened, shown, customers, orders, troubled>>

\* Fault: success leaves the form open.
Stays(s) == UNCHANGED shown

\* The callback given to mutate: only the watched order has it, and it closes
\* whatever form is open by then.
Closes(s) == shown' = IF s \in latest THEN 0 ELSE shown

\* POST /work-orders, for dealers.
MakeOrder(s) ==
    /\ sub[s].phase = "order" /\ maker = "DEALER"
    /\ orders' = orders \cup {s}
    /\ To(s, "made")
    /\ UNCHANGED <<maker, opened, shown, customers, registered, troubled>>

\* The answer is there and the lists it made out of date have been read again.
OrderMade(s) ==
    /\ sub[s].phase = "made"
    /\ To(s, "ordered")
    /\ Closes(s)
    /\ UNCHANGED <<maker, opened, customers, registered, orders, troubled>>

\* A call is refused, or it fails on its way there.
CallFails(s) ==
    /\ sub[s].phase \in Asked
    /\ To(s, "stopped")
    /\ UNCHANGED <<maker, opened, shown, customers, registered, orders, troubled>>

\* The call is served and its answer lost; an order is served in a step before.
AnswerLost(s) ==
    /\ maker = "DEALER" /\ sub[s].phase \in {"customer", "device", "made"}
    /\ sub[s].phase = "device" => sub[s].device \notin registered
    /\ customers' = IF sub[s].phase = "customer" THEN customers \cup {s} ELSE customers
    /\ registered' = IF sub[s].phase = "device" THEN registered \cup {sub[s].device}
                                                ELSE registered
    /\ troubled' = IF sub[s].phase = "made" THEN troubled \cup {sub[s].opening} ELSE troubled
    /\ To(s, "stopped")
    /\ UNCHANGED <<maker, opened, shown, orders>>

Next ==
    \/ OpenForm \/ CloseForm \/ LeavePage
    \/ \E s \in Submissions : Submit(s) \/ MakeCustomer(s) \/ MakeDevice(s) \/ MakeOrder(s)
                              \/ OrderMade(s) \/ CallFails(s) \/ AnswerLost(s)

Spec == Init /\ [][Next]_vars

-----------------------------------------------------------------------------
OrdersOf(n) == {s \in orders : sub[s].opening = n}

\* One order for each opening of the form, and no form still open whose order
\* was made and answered, unless the opening is troubled.  A customer row without
\* an order, which the dealer's list will not show, is left by a submission that
\* stopped or is still to order (handleSubmit, createMutation.isPending,
\* onSuccess).
OneOrderPerForm ==
    /\ \A n \in 1..opened : (\E s, t \in OrdersOf(n) : s # t) => n \in troubled
    /\ \A s \in OrdersOf(shown) : sub[s].phase # "made" => shown \in troubled
    /\ \A s \in customers \ orders : sub[s].phase \in {"device", "order", "stopped"}
=============================================================================
