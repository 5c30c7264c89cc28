------------------------------ MODULE MCLinks ------------------------------
(***************************************************************************)
(* TaskLink, Trunk and Envelopes for TLC, side by side: a behaviour is one *)
(* of the V0.1 task transport, one of a V0.2 trunk, or one of a single     *)
(* frame on its way, with the other two at rest.                           *)
(***************************************************************************)
EXTENDS TaskLink, Trunk, MCEnvelopes

CONSTANTS c1, c2, r1, r2

VARIABLE part

\* Two tasks at once, or one stream of several chunks.
TwoTasksOneStream == [m \in {"task", "stream"} |-> IF m = "task" THEN {c1, c2} ELSE {c1}]

Config(thoughts, tokens, failAfter, ignoreCancel, disconnect) ==
  [thoughts |-> thoughts, tokens |-> tokens, failAfter |-> failAfter,
   ignoreCancel |-> ignoreCancel, disconnect |-> disconnect]

\* A runtime that reasons first; one that ignores cancels and drops the connection; and
\* one that fails after its first token.
MCConfigs ==
  {Config(1, 2, 0, FALSE, FALSE), Config(0, 2, 0, TRUE, TRUE), Config(0, 2, 1, FALSE, FALSE)}

OneLease == {[id |-> "a", epoch |-> 1, token |-> 1, sl1 |-> FALSE]}

RestingConfig == Config(1, 2, 0, FALSE, FALSE)
RestingEnvelope == On("control", <<(<<1, <<>>, 9>>)>>)

PartInit ==
  /\ part \in {"task", "trunk", "wire"} /\ LinkInit /\ TrunkInit /\ WireInit
  /\ part # "task" => mode = "task"
  /\ part # "trunk" => config = RestingConfig
  /\ part # "wire" => sent = RestingEnvelope

PartNext ==
  \/ part = "task" /\ LinkNext /\ UNCHANGED <<part, trunkVars, wireVars>>
  \/ part = "trunk" /\ TrunkNext /\ UNCHANGED <<part, linkVars, wireVars>>
  \/ part = "wire" /\ WireNext /\ UNCHANGED <<part, linkVars, trunkVars>>

PartSpec ==
  /\ PartInit /\ [][PartNext]_<<part, linkVars, trunkVars, wireVars>>
  /\ LinkFairness /\ TrunkFairness
=============================================================================
