----------------------------- MODULE Governance -----------------------------
(***************************************************************************)
(* The governance engine of LiNeP-SL V0.2 (governance.cpp): trust boundary *)
(* profile, federated domains, policy and federation revisions, admission  *)
(* of a peer and the audit trail.                                          *)
(*                                                                         *)
(* Any thread may call the engine.  A call is up to three critical         *)
(* sections: it changes or copies the settings, it makes its audit record  *)
(* (emit_audit_event takes the lock again), it hands the record to the     *)
(* sinks without the lock.  A digest is the record it was computed from.   *)
(***************************************************************************)
EXTENDS Integers, Sequences, FiniteSets

CONSTANTS
  Threads,
  Domains,      \* remote trust domains; 1 is the local one
  MaxRevision,  \* bound: revisions
  MaxRecords    \* bound: audit_seq

VARIABLES
  engine,  \* [policy, federation, profile, federated, verifier]
  audit,   \* the records made, in the order of audit_seq
  calls,   \* thread -> [pc, rec, sinks]
  sink,    \* any one of the sinks: [attached, records as they reached it]
  attachedAt  \* history: records made before the sink was added

govVars == <<engine, audit, calls, sink, attachedAt>>

Profiles == {"intranet", "gateway", "federated", "zero_trust"}

Idle == [pc |-> "idle", event |-> "none", decision |-> "none", rec |-> <<>>, sinks |-> FALSE]

GovInit ==
  /\ engine = [policy |-> 1, federation |-> 1, profile |-> "intranet",
               federated |-> {}, verifier |-> FALSE]
  /\ audit = <<>> /\ calls = [t \in Threads |-> Idle]
  /\ sink = [attached |-> FALSE, records |-> <<>>] /\ attachedAt = 0

\* A call that goes on to emit_audit_event.
Emits(t, event, decision) ==
  calls' = [calls EXCEPT ![t] = [Idle EXCEPT !.pc = "emit", !.event = event,
                                             !.decision = decision]]

-----------------------------------------------------------------------------
(* Settings *)

Configure(e) == engine' = e /\ engine' # engine /\ UNCHANGED <<audit, calls, sink, attachedAt>>

SetTrustBoundaryProfile(p) == Configure([engine EXCEPT !.profile = p])
AddFederatedDomain(d) == Configure([engine EXCEPT !.federated = @ \cup {d}])
RemoveFederatedDomain(d) == Configure([engine EXCEPT !.federated = @ \ {d}])
SetAttestationVerifier == Configure([engine EXCEPT !.verifier = TRUE])

AddAuditSink ==
  /\ ~sink.attached
  /\ sink' = [sink EXCEPT !.attached = TRUE] /\ attachedAt' = Len(audit)
  /\ UNCHANGED <<engine, audit, calls>>

\* Mutant of UpdatePolicyRevision: any revision is taken.
MutantUpdatePolicyRevision(t, revision) ==
  /\ calls[t].pc = "idle"
  /\ engine' = [engine EXCEPT !.policy = revision]
  /\ Emits(t, "policy_updated", "allow")
  /\ UNCHANGED <<audit, sink, attachedAt>>

\* A revision that is not newer is refused, without a record.
UpdatePolicyRevision(t, revision) ==
  /\ calls[t].pc = "idle" /\ revision > engine.policy
  /\ engine' = [engine EXCEPT !.policy = revision]
  /\ Emits(t, "policy_updated", "allow")
  /\ UNCHANGED <<audit, sink, attachedAt>>

UpdateFederationRevision(t, revision) ==
  /\ calls[t].pc = "idle" /\ revision > engine.federation
  /\ engine' = [engine EXCEPT !.federation = revision]
  /\ Emits(t, "policy_updated", "allow")
  /\ UNCHANGED <<audit, sink, attachedAt>>

-----------------------------------------------------------------------------
(* Admission *)

LevelFor == [intranet |-> 1, gateway |-> 2, federated |-> 3, zero_trust |-> 4]

\* evidence: what the caller shows, "good" where the verifier would accept it.
Attested(e, evidence) == e.verifier /\ evidence = "good"

\* The event of an admission decided with the settings e.
Admission(e, domain, level, evidence) ==
  LET local == domain = 1
      attest == e.profile = "zero_trust" \/ (~local /\ e.profile = "federated")
  IN IF level < LevelFor[e.profile] THEN "federation_denied"
     ELSE IF ~local /\ (e.profile = "intranet" \/ domain \notin e.federated) THEN "federation_denied"
     ELSE IF attest /\ ~Attested(e, evidence) THEN "attestation_failed"
     ELSE "federation_admitted"

\* The settings are copied under the lock, the rest needs none of it.
EvaluateFederationAdmission(t, domain, level, evidence) ==
  /\ calls[t].pc = "idle"
  /\ LET event == Admission(engine, domain, level, evidence) IN
     Emits(t, event, IF event = "federation_admitted" THEN "allow" ELSE "deny")
  /\ UNCHANGED <<engine, audit, sink, attachedAt>>

-----------------------------------------------------------------------------
(* emit_audit_event *)

\* Under the lock: the revisions of now, the next number, the digest of the record
\* before (which is identified by its number).
MakeRecord(t) ==
  /\ calls[t].pc = "emit" /\ Len(audit) < MaxRecords
  /\ LET rec == [seq |-> Len(audit) + 1, prev |-> Len(audit),
                 event |-> calls[t].event, decision |-> calls[t].decision,
                 policy |-> engine.policy, federation |-> engine.federation]
     IN /\ audit' = Append(audit, rec)
        /\ calls' = [calls EXCEPT ![t].pc = "sink", ![t].rec = rec, ![t].sinks = sink.attached]
  /\ UNCHANGED <<engine, sink, attachedAt>>

\* Without the lock: the record reaches the sinks there were, and the call returns.
RecordInSinks(t) ==
  /\ calls[t].pc = "sink"
  /\ sink' = IF calls[t].sinks THEN [sink EXCEPT !.records = Append(@, calls[t].rec)] ELSE sink
  /\ calls' = [calls EXCEPT ![t] = Idle]
  /\ UNCHANGED <<engine, audit, attachedAt>>

GovNext ==
  \/ \E p \in Profiles : SetTrustBoundaryProfile(p)
  \/ \E d \in Domains \ {1} : AddFederatedDomain(d) \/ RemoveFederatedDomain(d)
  \/ SetAttestationVerifier \/ AddAuditSink
  \/ \E t \in Threads, r \in 1..MaxRevision :
       UpdatePolicyRevision(t, r) \/ UpdateFederationRevision(t, r)
  \/ \E t \in Threads, d \in Domains, level \in {1, 4}, evidence \in {"none", "good", "bad"} :
       EvaluateFederationAdmission(t, d, level, evidence)
  \/ \E t \in Threads : MakeRecord(t) \/ RecordInSinks(t)

GovSpec == GovInit /\ [][GovNext]_govVars

-----------------------------------------------------------------------------
(* Properties *)

AtRest == \A t \in Threads : calls[t].pc # "sink"

Reached == {sink.records[i] : i \in DOMAIN sink.records}

\* The trail can be put together from a sink: when no record is on its way, it holds, each
\* once and in whatever order they arrived, exactly the records that were made since it was
\* added (also of decisions taken before), each linked to one it holds; and in the order
\* of their numbers no revision goes back, although the revision changes in one critical
\* section and the record that shows it is made in another (update_policy_revision,
\* emit_audit_event).
AuditTrail ==
  /\ \A i, j \in DOMAIN audit :
       i < j => audit[i].policy <= audit[j].policy /\ audit[i].federation <= audit[j].federation
  /\ AtRest => /\ Reached = {audit[i] : i \in (attachedAt + 1)..Len(audit)} \/ ~sink.attached
               /\ \A i, j \in DOMAIN sink.records : sink.records[i] = sink.records[j] => i = j
  /\ AtRest => \A rec \in Reached :
       rec.prev = attachedAt \/ \E before \in Reached : rec.prev = before.seq
=============================================================================
