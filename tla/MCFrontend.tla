----------------------------- MODULE MCFrontend -----------------------------
(***************************************************************************)
(* Four parts of the browser that share no variable, one at a time: each   *)
(* behaviour moves one part and leaves the others where they began.        *)
(***************************************************************************)
EXTENDS Naturals

CONSTANTS People, Requests, MaxTokens, MaxSockets, MaxObjects, MaxOrphans,
          hq, dealer, coordinator, technician, NoTechnician, Calls,
          MaxSubmissions, MaxOpenings, Serials

VARIABLES
    part,
    store, renewal, call, crossed,
    token, issued, mounted, prev, refreshing, orphans, world,
    row, session, page, list, fetch, dialog, press,
    maker, opened, shown, sub, latest, customers, registered, orders, troubled

ASSUME BoundsAreNumbers == MaxSockets \in Nat /\ MaxObjects \in Nat

Users == {hq, dealer, coordinator, technician}

Role ==
    [u \in Users |-> CASE u = hq          -> "HQ"
                       [] u = dealer      -> "DEALER"
                       [] u = coordinator -> "COORDINATOR"
                       [] OTHER           -> "TECHNICIAN"]

Cli == INSTANCE Client
Soc == INSTANCE LocationSocket
Scr == INSTANCE Screens
Frm == INSTANCE OrderForm

cliVars == <<store, renewal, call, crossed>>
socVars == <<token, issued, mounted, prev, refreshing, orphans, world>>
scrVars == <<row, session, page, list, fetch, dialog, press>>
frmVars == <<maker, opened, shown, sub, latest, customers, registered, orders, troubled>>
vars == <<part, cliVars, socVars, scrVars, frmVars>>

Init ==
    /\ part \in {"client", "socket", "screens", "form"}
    /\ Cli!Init /\ Soc!Init /\ Scr!Init /\ Frm!Init
    /\ part # "form" => maker = "DEALER"
    /\ part # "socket" => token = 0

Next ==
    /\ UNCHANGED part
    /\ \/ part = "client" /\ Cli!Next
       \/ part # "client" /\ UNCHANGED cliVars
    /\ \/ part = "socket" /\ Soc!Next
       \/ part # "socket" /\ UNCHANGED socVars
    /\ \/ part = "screens" /\ Scr!Next
       \/ part # "screens" /\ UNCHANGED scrVars
    /\ \/ part = "form" /\ Frm!Next
       \/ part # "form" /\ UNCHANGED frmVars

Spec == Init /\ [][Next]_vars /\ Cli!Fairness

-----------------------------------------------------------------------------
\* The properties of the parts, each about the code named in its module.
OnePersonUnlessCrossed == Cli!OnePersonUnlessCrossed
RequestsSettle == Cli!RequestsSettle
SocketFollowsHook == Soc!SocketFollowsHook
RefusalsExplained == Scr!RefusalsExplained
OneOrderPerForm == Frm!OneOrderPerForm
=============================================================================
