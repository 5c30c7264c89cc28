---------------------------- MODULE Authorization ----------------------------
(***************************************************************************)
(* The policy authorizer of LiNeP-SL V0.2 (authorization.cpp): policies    *)
(* of subjects and roles within a trust domain, the aggregation of those   *)
(* that apply to a request, and the validation of an allowed request       *)
(* against what the runtime advertises.                                    *)
(*                                                                         *)
(* A set of capability_flags is a set of names.  A temperature is an       *)
(* integer; a limit of 0 means none.                                       *)
(***************************************************************************)
EXTENDS Integers, Sequences, FiniteSets, SequencesExt

CONSTANTS
  Requests,         \* the authorization_requests callers make
  SubjectPolicies,  \* the subject_policy values they add
  RolePolicies,     \* the role_policy values they add
  Advertised        \* the runtime_capabilities_descriptor

\* Limits are uint32_t and float.  Nothing stops a float from being below 0: for a
\* role such a limit counts for nothing, for a subject it would end all comparisons with
\* the limits of roles, so callers are assumed to leave it at 0 or above.
ASSUME PolicyAssumption ==
  /\ \A p \in SubjectPolicies \cup RolePolicies :
       /\ p.tokens \in Nat /\ p.temperature \in Int
       /\ p.noStreaming \in BOOLEAN /\ p.noReasoning \in BOOLEAN
  /\ \A p \in SubjectPolicies : p.temperature >= 0
  /\ \A req \in Requests :
       /\ req.tokens \in Nat /\ req.temperature \in Int
       /\ Len(req.roles) \in Nat /\ DOMAIN req.roles = 1..Len(req.roles)

VARIABLE policies   \* [subjects, roles]: <<domain, subject or role>> -> policy

Keyed(f, key, policy) ==
  [k \in DOMAIN f \cup {key} |-> IF k = key THEN policy ELSE f[k]]

AuthInit == policies = [subjects |-> <<>>, roles |-> <<>>]

AddSubjectPolicy(p) ==
  policies' = [policies EXCEPT !.subjects = Keyed(@, <<p.domain, p.subject>>, p)]

AddRolePolicy(p) ==
  policies' = [policies EXCEPT !.roles = Keyed(@, <<p.domain, p.role>>, p)]

ClearPolicies == policies' = [subjects |-> <<>>, roles |-> <<>>]

AuthNext ==
  \/ \E p \in SubjectPolicies : AddSubjectPolicy(p)
  \/ \E p \in RolePolicies : AddRolePolicy(p)
  \/ ClearPolicies

AuthSpec == AuthInit /\ [][AuthNext]_policies

-----------------------------------------------------------------------------
(* authorize *)

\* resource_identifier::matches, with the superuser grant.
ResourceMatches(allowed, target) ==
  \/ allowed = [kind |-> "system", name |-> "*"]
  \/ allowed.kind = target.kind /\ allowed.name \in {"*", target.name}

\* The capability an action needs; "none" where the switch denies.
CapabilityOf(req) ==
  CASE req.action = "execute" ->
         IF req.profile \in {"generate", "chat", "embed"} THEN req.profile ELSE "none"
    [] req.action = "emit_output"  -> "stream_output"
    [] req.action = "cancel"       -> "cancel"
    [] req.action = "invoke_tool"  -> "tool_invoke"
    [] req.action = "read_metrics" -> "metrics_read"
    [] req.action = "administer"   -> "administer"
    [] req.action \in {"manage_runtime", "advertise", "report_liveness", "manage_lease"} ->
         "runtime_manage"
    [] OTHER -> "none"

RequiredCapabilities(req) ==
  {CapabilityOf(req)} \cup (IF req.streaming THEN {"stream_output"} ELSE {})
                      \cup (IF req.reasoning THEN {"reasoning"} ELSE {})

\* The smaller of two limits, where 0 is none.
Tighter(a, b) == IF b > 0 /\ (a = 0 \/ b < a) THEN b ELSE a

NoPolicies ==
  [found |-> FALSE, caps |-> {}, resources |-> {}, tokens |-> 0, temperature |-> 0,
   noStreaming |-> FALSE, noReasoning |-> FALSE]

\* Mutant of Combined: the limits of the last policy count.
MutantCombined(acc, p) ==
  [found |-> TRUE, caps |-> acc.caps \cup p.caps, resources |-> acc.resources \cup p.resources,
   tokens |-> p.tokens, temperature |-> p.temperature,
   noStreaming |-> p.noStreaming, noReasoning |-> p.noReasoning]

\* One more policy: capabilities and resources add up, constraints tighten.
Combined(acc, p) ==
  [found |-> TRUE, caps |-> acc.caps \cup p.caps, resources |-> acc.resources \cup p.resources,
   tokens |-> Tighter(acc.tokens, p.tokens),
   temperature |-> Tighter(acc.temperature, p.temperature),
   noStreaming |-> acc.noStreaming \/ p.noStreaming,
   noReasoning |-> acc.noReasoning \/ p.noReasoning]

\* The subject's own policy: its constraints as they are.
FromSubject(req) ==
  LET key == <<req.domain, req.subject>> p == policies.subjects[key] IN
  IF key \notin DOMAIN policies.subjects THEN NoPolicies
  ELSE [found |-> TRUE, caps |-> p.caps, resources |-> p.resources, tokens |-> p.tokens,
        temperature |-> p.temperature, noStreaming |-> p.noStreaming,
        noReasoning |-> p.noReasoning]

WithRole(req, acc, role) ==
  IF <<req.domain, role>> \in DOMAIN policies.roles
  THEN Combined(acc, policies.roles[<<req.domain, role>>]) ELSE acc

\* The subject's policy, then those of the roles as the request lists them.
Effective(req) ==
  FoldLeft(LAMBDA acc, role : WithRole(req, acc, role), FromSubject(req), req.roles)

Authorize(req) ==
  LET e == Effective(req) IN
  IF req.action = "unknown" THEN "action_unknown"
  ELSE IF req.subject = 0 \/ req.domain = 0 THEN "unauthenticated_subject"
  ELSE IF CapabilityOf(req) = "none" THEN "action_unrecognized"
  ELSE IF ~e.found THEN "no_policy_found"
  ELSE IF ~(RequiredCapabilities(req) \subseteq e.caps) THEN "capability_missing"
  ELSE IF ~\E r \in e.resources : ResourceMatches(r, req.resource) THEN "resource_not_permitted"
  ELSE IF ~req.finite THEN "temperature_non_finite"
  ELSE IF e.tokens > 0 /\ req.tokens > e.tokens THEN "max_tokens_exceeded"
  ELSE IF e.temperature > 0 /\ req.temperature > e.temperature THEN "temperature_exceeded"
  ELSE IF e.noStreaming /\ req.streaming THEN "streaming_disallowed"
  ELSE IF e.noReasoning /\ req.reasoning THEN "reasoning_disallowed"
  ELSE "ok"

\* validate_against_advertised_capabilities(): what is advertised only takes away.
ValidateAgainstAdvertised(req) ==
  LET a == Advertised execute == req.action = "execute" IN
  IF Authorize(req) # "ok" THEN Authorize(req)
  ELSE IF execute /\ req.resource.kind = "model" /\ a.models # {}
            /\ req.resource.name \notin a.models THEN "model_not_supported_by_runtime"
  ELSE IF execute /\ req.profile \notin a.profiles THEN "profile_not_supported_by_runtime"
  ELSE IF execute /\ req.streaming /\ ~a.streaming THEN "streaming_not_supported_by_runtime"
  ELSE IF execute /\ req.reasoning /\ ~a.reasoning THEN "reasoning_not_supported_by_runtime"
  ELSE IF execute /\ req.profile = "embed" /\ req.resource.kind = "embedding_space"
            /\ req.resource.name \notin a.spaces THEN "embedding_space_not_supported_by_runtime"
  ELSE IF req.action = "cancel" /\ ~a.cancel THEN "cancellation_not_supported_by_runtime"
  ELSE "ok"

-----------------------------------------------------------------------------
(* Properties *)

\* The policies that apply to a request.
Applying(req) ==
  {p \in {policies.subjects[k] : k \in DOMAIN policies.subjects} :
     p.domain = req.domain /\ p.subject = req.subject}
  \cup {p \in {policies.roles[k] : k \in DOMAIN policies.roles} :
          p.domain = req.domain /\ \E n \in DOMAIN req.roles : req.roles[n] = p.role}

\* An allowed request is within every single policy that applies to it, whatever the
\* order of its roles and of the policies' arrival: no role lifts a limit another one
\* sets, and what it needs is granted in its own trust domain (authorize, "Combine
\* constraints conservatively").
NoRoleLoosens ==
  \A req \in Requests : ValidateAgainstAdvertised(req) = "ok" =>
    /\ \A p \in Applying(req) :
         /\ p.tokens = 0 \/ req.tokens <= p.tokens
         /\ p.temperature <= 0 \/ req.temperature <= p.temperature
         /\ ~(p.noStreaming /\ req.streaming) /\ ~(p.noReasoning /\ req.reasoning)
    /\ RequiredCapabilities(req) \subseteq UNION {p.caps : p \in Applying(req)}
    /\ \E p \in Applying(req) : \E r \in p.resources : ResourceMatches(r, req.resource)
=============================================================================
