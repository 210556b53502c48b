------------------------- MODULE MCLocationGateway -------------------------
(***************************************************************************)
(* One client of each kind the gateway treats differently, of which any    *)
(* two connect.  Clients only meet in the room maps, so two of them show   *)
(* every interleaving.                                                     *)
(***************************************************************************)
EXTENDS LocationGateway, Naturals

CONSTANTS tech, hq, customer, dealer

MCRoleOf ==
    [c \in Clients |-> CASE c = tech     -> "TECHNICIAN"
                         [] c = hq       -> "HQ"
                         [] c = customer -> "CUSTOMER"
                         [] c = dealer   -> "DEALER"]

TwoConnect == Cardinality({c \in Clients : socket[c] # "new"}) <= 2

MCSpec == Init /\ [][Next /\ TwoConnect']_vars /\ Fairness
=============================================================================
