---------------------------- MODULE MCPositions ----------------------------
(***************************************************************************)
(* One technician with all the connections: technicians do not meet, the   *)
(* writers of one technician's row do.  The limits are scaled down; the    *)
(* order between them is that of the code.                                 *)
(*                                                                         *)
(* The limiter and what comes after it do not look at each other's state.  *)
(* So the limiter is followed for long on one connection whose updates go  *)
(* no further (Limiting), and cache and writers for less long while two    *)
(* connections have nothing dropped (Writing).                             *)
(***************************************************************************)
EXTENDS Positions, TLC

CONSTANTS t1, c1, c2, i1, i2, WriteTime

HolderOf == [c \in Connections |-> t1]

Opened == {c \in Connections : socket[c] # "new"}

Limiting ==
    /\ Cardinality(Opened) <= 1 /\ Cardinality(checking) <= 1
    /\ \A i \in Instances : \A j \in DOMAIN toRedis[i] : toRedis[i][j].kind = "get"
    /\ \A t \in Technicians : cache[t].stamp = 0

Writing ==
    /\ \A c \in Connections : recentDrops[c] = <<>>
    /\ now <= WriteTime

MCSpec == Init /\ [][Next /\ (Limiting \/ Writing)']_vars

Symmetry == Permutations(Connections) \cup Permutations(Instances)
=============================================================================
