--------------------------- MODULE MCWorkOrders ---------------------------
(***************************************************************************)
(* Small instances of WorkOrders for TLC.  The sets of users and the       *)
(* bounds come from the configurations; a user's role and department       *)
(* follow from its name.                                                   *)
(***************************************************************************)
EXTENDS WorkOrders, TLC

CONSTANTS dealer, hq, coordinator, tech1, tech2, customer, north

MCRole ==
    [u \in Users |->
        CASE u = dealer           -> "DEALER"
          [] u = hq               -> "HQ"
          [] u = coordinator      -> "COORDINATOR"
          [] u \in {tech1, tech2} -> "TECHNICIAN"
          [] u = customer         -> "CUSTOMER"]

MCDepartmentOf ==
    [u \in Users |-> IF u = coordinator THEN north ELSE NoDepartment]

\* The two technicians are interchangeable (same role, no department), and so
\* are the handlers.
Interchangeable == Permutations({tech1, tech2}) \cup Permutations(Slots)
=============================================================================
