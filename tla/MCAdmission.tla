---------------------------- MODULE MCAdmission ----------------------------
(***************************************************************************)
(* Who may do what, for TLC: the registration of workers, group            *)
(* membership, policies and governance, side by side.  A behaviour is one  *)
(* of one part, the others are at rest in their initial state.             *)
(***************************************************************************)
EXTENDS MCRegistration, GroupSecurity, Authorization, Governance

CONSTANTS e1, e2, g1, g2

VARIABLE part

MCSends ==
  {<<"authenticated_only", "request", 1>>, <<"confidential_and_authenticated", "request", 2>>,
   <<"confidential_and_authenticated", "event", 3>>, <<"authenticated_only", "unknown", 1>>}

Model == [kind |-> "model", name |-> "m"]

Policy(caps, resources, tokens, temperature, noStreaming) ==
  [domain |-> 1, subject |-> 1, caps |-> caps, resources |-> resources, tokens |-> tokens,
   temperature |-> temperature, noStreaming |-> noStreaming, noReasoning |-> noStreaming]

Role(name, policy) == policy @@ [role |-> name]

MCSubjects ==
  {Policy({"chat"}, {Model}, 0, 0, FALSE), Policy({"chat", "cancel"}, {}, 2, 0, FALSE)}

MCRoles ==
  {Role("r", Policy({"stream_output"}, {[kind |-> "system", name |-> "*"]}, 1, 2, FALSE)),
   Role("r", Policy({"stream_output", "embed"}, {}, 0, 1, FALSE)),
   Role("s", Policy({"reasoning"}, {[kind |-> "model", name |-> "*"]}, 2, 0, TRUE))}

Access(action, roles, streaming, tokens, temperature, profile) ==
  [domain |-> 1, subject |-> 1, roles |-> roles, action |-> action, resource |-> Model,
   profile |-> profile, tokens |-> tokens, temperature |-> temperature, finite |-> TRUE,
   streaming |-> streaming, reasoning |-> FALSE]

MCRequests ==
  {Access("execute", roles, s, n, 2, "chat") :
     roles \in {<<"r">>, <<"r", "s">>, <<"s", "r">>}, s \in BOOLEAN, n \in 1..2}
  \cup {Access("cancel", <<>>, FALSE, 2, 1, "chat"), Access("execute", <<"r">>, TRUE, 1, 1, "embed")}

MCAdvertised ==
  [models |-> {"m"}, profiles |-> {"chat", "embed"}, streaming |-> TRUE, reasoning |-> FALSE,
   spaces |-> {}, cancel |-> TRUE]

rest == <<allVars, groupVars, policies, govVars>>

PartInit ==
  /\ part \in {"registration", "group", "policies", "governance"}
  /\ RegInit /\ GroupInit /\ AuthInit /\ GovInit

PartNext ==
  /\ UNCHANGED part
  /\ \/ part = "registration" /\ RegNext /\ UNCHANGED <<groupVars, policies, govVars>>
     \/ part = "group" /\ GroupNext /\ UNCHANGED <<allVars, policies, govVars>>
     \/ part = "policies" /\ AuthNext /\ UNCHANGED <<allVars, groupVars, govVars>>
     \/ part = "governance" /\ GovNext /\ UNCHANGED <<allVars, groupVars, policies>>

PartSpec == PartInit /\ [][PartNext]_<<part, rest>>
=============================================================================
