--------------------------- MODULE LeaseContract ---------------------------
(***************************************************************************)
(* What the LiNeP V0.2 control plane promises about leases, whatever the   *)
(* datagrams that reach the router and whatever is lost, repeated or late. *)
(*                                                                         *)
(* Every identity has one incarnation (control epoch) and at most one      *)
(* lease.  A lease is offered with a token nobody has been offered before, *)
(* is granted only after it was offered, and once it is dropped it never   *)
(* comes back.  A new incarnation always starts without a lease.           *)
(* ControlPlane is shown to implement this specification.                  *)
(***************************************************************************)
EXTENDS Naturals

CONSTANT Nodes

VARIABLES
  epoch,   \* epoch[n]: incarnation of n; 0 before the first one
  phase,   \* phase[n]: "free", "offered" or "granted"
  token,   \* token[n]: the lease of n; 0 when phase[n] = "free"
  issued   \* the largest token offered so far

vars == <<epoch, phase, token, issued>>

Init ==
  /\ epoch  = [n \in Nodes |-> 0]
  /\ phase  = [n \in Nodes |-> "free"]
  /\ token  = [n \in Nodes |-> 0]
  /\ issued = 0

\* A new incarnation drops whatever lease the previous one had.
Incarnate(n) ==
  /\ epoch' = [epoch EXCEPT ![n] = epoch'[n]]
  /\ epoch'[n] \in Nat /\ epoch'[n] > epoch[n]
  /\ phase' = [phase EXCEPT ![n] = "free"]
  /\ token' = [token EXCEPT ![n] = 0]
  /\ UNCHANGED issued

Offer(n) ==
  /\ phase[n] = "free"
  /\ issued' = issued + 1
  /\ phase' = [phase EXCEPT ![n] = "offered"]
  /\ token' = [token EXCEPT ![n] = issued + 1]
  /\ UNCHANGED epoch

Grant(n) ==
  /\ phase[n] = "offered"
  /\ phase' = [phase EXCEPT ![n] = "granted"]
  /\ UNCHANGED <<epoch, token, issued>>

\* The sweep may drop the leases of several identities in one step.
Drop ==
  \E gone \in SUBSET Nodes :
    /\ phase' = [n \in Nodes |-> IF n \in gone THEN "free" ELSE phase[n]]
    /\ token' = [n \in Nodes |-> IF n \in gone THEN 0 ELSE token[n]]
    /\ UNCHANGED <<epoch, issued>>

Next ==
  \/ \E n \in Nodes : Incarnate(n) \/ Offer(n) \/ Grant(n)
  \/ Drop

Spec == Init /\ [][Next]_vars
=============================================================================
