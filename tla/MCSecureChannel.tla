--------------------------- MODULE MCSecureChannel ---------------------------
(***************************************************************************)
(* What two ends of a channel agree on, for TLC: the session's streams,    *)
(* SL1 on a trunk, the SL2 handshake, and the protected datagrams, events  *)
(* and calls, side by side.  A behaviour is one of one part, the others    *)
(* are at rest in their initial state.                                     *)
(***************************************************************************)
EXTENDS MCSession, MCSecureTrunk, MCSecureHandshake, PlaneGuard

CONSTANTS e1, e2

VARIABLE part

rest == <<vars, secureVars, hsVars, guardVars>>

PartInit ==
  /\ part \in {"streams", "sl1", "handshake", "datagrams", "events", "calls"}
  /\ Init /\ SecureInit /\ HsInit /\ GuardInit
  /\ part # "sl1" => leases = Row(TRUE, TRUE)

PartNext ==
  /\ UNCHANGED part
  /\ \/ part = "streams" /\ Next /\ UNCHANGED <<secureVars, hsVars, guardVars>>
     \/ part = "sl1" /\ SecureNext /\ UNCHANGED <<vars, hsVars, guardVars>>
     \/ part = "handshake" /\ HsNext /\ UNCHANGED <<vars, secureVars, guardVars>>
     \/ /\ \/ part = "datagrams" /\ (DatagramNext \/ RecordNext)
           \/ part = "events" /\ (EventNext \/ RecordNext)
           \/ part = "calls" /\ (CallNext \/ RecordNext)
        /\ UNCHANGED <<vars, secureVars, hsVars>>

PartSpec == PartInit /\ [][PartNext]_<<part, rest>>
=============================================================================
