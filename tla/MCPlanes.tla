------------------------------ MODULE MCPlanes ------------------------------
(***************************************************************************)
(* The two planes of a node for TLC, side by side: the router of the       *)
(* control plane and the send queues of a trunk.  A behaviour is one of    *)
(* one of them, the other is at rest in its initial state.                 *)
(***************************************************************************)
EXTENDS MCControlPlane, MCSendScheduler

CONSTANTS n1, c1, c2

VARIABLE part

PartInit ==
  /\ part \in {"control", "trunk"} /\ Init /\ SendInit
  /\ part = "control" => program = Program({a, b}, {a, b}, {"flush"}, TRUE, TRUE)

PartNext ==
  /\ UNCHANGED part
  /\ \/ part = "control" /\ Next /\ UNCHANGED sendVars
     \/ part = "trunk" /\ SendNext /\ UNCHANGED vars

PartSpec == PartInit /\ [][PartNext]_<<part, vars, sendVars>> /\ FlusherFairness
=============================================================================
