-------------------------- MODULE MCLeaseHandshake --------------------------
(* LeaseHandshake for TLC: one client, whose identity nothing else shares.  *)
EXTENDS LeaseHandshake

CONSTANTS n1
=============================================================================
