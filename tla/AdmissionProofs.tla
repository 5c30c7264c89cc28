--------------------------- MODULE AdmissionProofs ---------------------------
(***************************************************************************)
(* What the governance engine and the secure group keep, for any number of *)
(* threads, domains, endpoints and members: the audit trail can be put     *)
(* together from a sink, and the members of a group hear each other and    *)
(* nobody else.                                                            *)
(***************************************************************************)
EXTENDS GroupSecurity, Governance, Authorization, FiniteSetTheorems,
        WellFoundedInduction, TLAPS

-----------------------------------------------------------------------------
(* Governance: types *)

AuditEvents ==
  {"none", "policy_updated", "federation_denied", "attestation_failed", "federation_admitted"}
Decisions == {"none", "allow", "deny"}

AuditRecords ==
  [seq : Nat, prev : Nat, event : AuditEvents, decision : Decisions,
   policy : Nat, federation : Nat]

EngineRecords ==
  [policy : Nat, federation : Nat, profile : Profiles, federated : SUBSET Domains,
   verifier : BOOLEAN]

CallRecords ==
  [pc : {"idle", "emit", "sink"}, event : AuditEvents, decision : Decisions,
   rec : AuditRecords \cup {<<>>}, sinks : BOOLEAN]

GovTypes ==
  /\ engine \in EngineRecords
  /\ audit \in Seq(AuditRecords)
  /\ calls \in [Threads -> CallRecords]
  /\ sink \in [attached : BOOLEAN, records : Seq(AuditRecords)]
  /\ attachedAt \in Nat

(* The trail: what the records say, who holds one, what has reached the sink. *)

\* The records are numbered and linked, none shows a revision the engine has yet to reach,
\* and no revision goes back.
Numbered ==
  /\ \A i \in DOMAIN audit :
       /\ audit[i].seq = i /\ audit[i].prev = i - 1
       /\ audit[i].policy <= engine.policy /\ audit[i].federation <= engine.federation
  /\ \A i, j \in DOMAIN audit : i < j =>
       audit[i].policy <= audit[j].policy /\ audit[i].federation <= audit[j].federation

\* The record r was made after the sink was added.
Due(r) ==
  r.seq \in DOMAIN audit /\ r = audit[r.seq] /\ sink.attached /\ r.seq > attachedAt

Holds(t, n) == calls[t].pc = "sink" /\ calls[t].rec.seq = n

\* A record on its way is held by one thread, which knows whether the sink waits for it.
Held ==
  /\ \A t \in Threads : calls[t].pc = "sink" =>
       /\ calls[t].rec \in AuditRecords
       /\ calls[t].rec.seq \in DOMAIN audit /\ calls[t].rec = audit[calls[t].rec.seq]
       /\ calls[t].sinks <=> Due(calls[t].rec)
  /\ \A t, u \in Threads :
       calls[t].pc = "sink" /\ calls[u].pc = "sink" /\ calls[t].rec.seq = calls[u].rec.seq
         => t = u

\* The sink has each due record that no thread holds, once.
Sunk ==
  /\ attachedAt <= Len(audit)
  /\ \A i \in DOMAIN sink.records :
       /\ Due(sink.records[i])
       /\ \A t \in Threads : ~Holds(t, sink.records[i].seq)
  /\ \A i, j \in DOMAIN sink.records : sink.records[i].seq = sink.records[j].seq => i = j
  /\ sink.attached => \A n \in (attachedAt + 1)..Len(audit) :
       \/ \E i \in DOMAIN sink.records : sink.records[i].seq = n
       \/ \E t \in Threads : Holds(t, n)

GovInv == GovTypes /\ Numbered /\ Held /\ Sunk

LEMMA GovInitInv == GovInit => GovInv
<1> SUFFICES ASSUME GovInit PROVE GovInv
  OBVIOUS
<1> USE DEF GovInit
<1>1. Idle \in CallRecords
  BY DEF Idle, CallRecords, AuditEvents, Decisions
<1>2. engine \in EngineRecords
  <2> DEFINE no == FALSE
  <2>1. no \in BOOLEAN /\ engine.verifier = no
    OBVIOUS
  <2> QED BY <2>1 DEF EngineRecords, Profiles
<1>3. GovTypes
  BY <1>1, <1>2 DEF GovTypes
<1>4. \A t \in Threads : calls[t].pc = "idle"
  BY DEF Idle
<1> QED BY <1>3, <1>4 DEF GovInv, Numbered, Held, Sunk, Due, Holds

LEMMA RecordFields ==
  ASSUME GovTypes
  PROVE  /\ \A i \in DOMAIN audit :
              /\ audit[i] \in AuditRecords
              /\ audit[i].policy \in Nat /\ audit[i].federation \in Nat
         /\ \A i \in DOMAIN sink.records :
              sink.records[i] \in AuditRecords /\ sink.records[i].seq \in Nat
<1>1. /\ \A i \in DOMAIN audit : audit[i] \in AuditRecords
      /\ \A i \in DOMAIN sink.records : sink.records[i] \in AuditRecords
  BY DEF GovTypes
<1>2. \A x \in AuditRecords : x.seq \in Nat /\ x.policy \in Nat /\ x.federation \in Nat
  BY DEF AuditRecords
<1> QED BY <1>1, <1>2

\* Settings, revisions and admissions leave the trail as it is: the thread has no record.
LEMMA SettingsKeep ==
  ASSUME GovInv, engine' \in EngineRecords,
         engine.policy <= engine'.policy, engine.federation <= engine'.federation,
         calls' \in [Threads -> CallRecords],
         \A t \in Threads : \/ calls'[t] = calls[t]
                            \/ calls[t].pc # "sink" /\ calls'[t].pc # "sink",
         UNCHANGED <<audit, sink, attachedAt>>
  PROVE  GovInv'
<1> USE DEF GovInv
<1>1. GovTypes'
  BY DEF GovTypes
<1>2. Numbered'
  <2>1. /\ engine.policy \in Nat /\ engine.federation \in Nat
        /\ engine'.policy \in Nat /\ engine'.federation \in Nat
    BY DEF GovTypes, EngineRecords
  <2>2. \A i \in DOMAIN audit : audit[i].policy \in Nat /\ audit[i].federation \in Nat
    BY RecordFields
  <2> QED BY <2>1, <2>2 DEF Numbered
<1>3. \A t \in Threads : calls'[t].pc = "sink" => calls'[t] = calls[t]
  OBVIOUS
<1>4. \A t \in Threads : calls[t].pc = "sink" => calls'[t] = calls[t]
  OBVIOUS
<1>5. Held'
  BY <1>3 DEF Held, Due
<1>6. Sunk'
  <2>1. \A t \in Threads, n \in Nat : Holds(t, n)' <=> Holds(t, n)
    BY <1>3, <1>4 DEF Holds
  <2>2. \A i \in DOMAIN sink.records : sink.records[i].seq \in Nat
    BY RecordFields
  <2>3. (attachedAt + 1)..Len(audit) \subseteq Nat
    BY DEF GovTypes
  <2> HIDE DEF Holds
  <2> QED BY <2>1, <2>2, <2>3 DEF Sunk, Due
<1> QED BY <1>1, <1>2, <1>5, <1>6

LEMMA ConfigureKeeps ==
  ASSUME GovInv,
         \/ \E p \in Profiles : SetTrustBoundaryProfile(p)
         \/ \E d \in Domains \ {1} : AddFederatedDomain(d) \/ RemoveFederatedDomain(d)
         \/ SetAttestationVerifier
  PROVE  GovInv'
<1> USE DEF GovInv, GovTypes
<1>1. PICK e : /\ Configure(e) /\ e \in EngineRecords
               /\ e.policy = engine.policy /\ e.federation = engine.federation
  <2>1. ASSUME NEW p \in Profiles
        PROVE  /\ [engine EXCEPT !.profile = p] \in EngineRecords
               /\ [engine EXCEPT !.profile = p].policy = engine.policy
               /\ [engine EXCEPT !.profile = p].federation = engine.federation
    BY DEF EngineRecords
  <2>2. ASSUME NEW d \in Domains \ {1}
        PROVE  /\ [engine EXCEPT !.federated = engine.federated \cup {d}] \in EngineRecords
               /\ [engine EXCEPT !.federated = engine.federated \ {d}] \in EngineRecords
               /\ [engine EXCEPT !.federated = engine.federated \cup {d}].policy = engine.policy
               /\ [engine EXCEPT !.federated = engine.federated \ {d}].policy = engine.policy
               /\ [engine EXCEPT !.federated = engine.federated \cup {d}].federation
                    = engine.federation
               /\ [engine EXCEPT !.federated = engine.federated \ {d}].federation
                    = engine.federation
    BY DEF EngineRecords
  <2>3. /\ [engine EXCEPT !.verifier = TRUE] \in EngineRecords
        /\ [engine EXCEPT !.verifier = TRUE].policy = engine.policy
        /\ [engine EXCEPT !.verifier = TRUE].federation = engine.federation
    <3> DEFINE yes == TRUE
    <3>1. yes \in BOOLEAN
      OBVIOUS
    <3> HIDE DEF yes
    <3>2. /\ [engine EXCEPT !.verifier = yes] \in EngineRecords
          /\ [engine EXCEPT !.verifier = yes].policy = engine.policy
          /\ [engine EXCEPT !.verifier = yes].federation = engine.federation
      BY <3>1 DEF EngineRecords
    <3> QED BY <3>2 DEF yes
  <2>4. CASE \E p \in Profiles : SetTrustBoundaryProfile(p)
    BY <2>1, <2>4, Zenon DEF SetTrustBoundaryProfile
  <2>5. CASE \E d \in Domains \ {1} : AddFederatedDomain(d) \/ RemoveFederatedDomain(d)
    BY <2>2, <2>5, Zenon DEF AddFederatedDomain, RemoveFederatedDomain
  <2>6. CASE SetAttestationVerifier
    BY <2>3, <2>6, Zenon DEF SetAttestationVerifier
  <2> QED BY <2>4, <2>5, <2>6
<1>2. /\ engine' = e /\ UNCHANGED <<audit, calls, sink, attachedAt>>
      /\ engine.policy <= engine'.policy /\ engine.federation <= engine'.federation
  BY <1>1 DEF Configure, EngineRecords
<1> QED BY <1>1, <1>2, SettingsKeep

\* A call that changes a revision or decides an admission goes on to emit its event.
LEMMA BeginsKeep ==
  ASSUME GovInv, NEW t \in Threads,
         \/ \E r \in 1..MaxRevision : UpdatePolicyRevision(t, r) \/ UpdateFederationRevision(t, r)
         \/ \E d \in Domains, level \in {1, 4}, evidence \in {"none", "good", "bad"} :
              EvaluateFederationAdmission(t, d, level, evidence)
  PROVE  GovInv'
<1> USE DEF GovInv, GovTypes
<1>1. ASSUME NEW event \in AuditEvents, NEW decision \in Decisions, Emits(t, event, decision),
             calls[t].pc = "idle", engine' \in EngineRecords,
             engine.policy <= engine'.policy, engine.federation <= engine'.federation,
             UNCHANGED <<audit, sink, attachedAt>>
      PROVE  GovInv'
  <2> DEFINE c == [Idle EXCEPT !.pc = "emit", !.event = event, !.decision = decision]
  <2>1. c \in CallRecords /\ c.pc = "emit"
    BY DEF Idle, CallRecords, AuditEvents, Decisions
  <2>2. calls' = [calls EXCEPT ![t] = c]
    BY <1>1 DEF Emits
  <2> HIDE DEF c
  <2>3. /\ calls' \in [Threads -> CallRecords]
        /\ \A u \in Threads : \/ calls'[u] = calls[u]
                              \/ calls[u].pc # "sink" /\ calls'[u].pc # "sink"
    BY <1>1, <2>1, <2>2
  <2> QED BY <1>1, <2>3, SettingsKeep
<1>2. ASSUME NEW r \in 1..MaxRevision,
             UpdatePolicyRevision(t, r) \/ UpdateFederationRevision(t, r)
      PROVE  GovInv'
  <2>1. r \in Nat
    OBVIOUS
  <2>2. /\ engine' \in EngineRecords /\ Emits(t, "policy_updated", "allow")
        /\ engine.policy <= engine'.policy /\ engine.federation <= engine'.federation
    <3>1. CASE UpdatePolicyRevision(t, r)
      <4>1. /\ Emits(t, "policy_updated", "allow") /\ r > engine.policy
            /\ engine' = [engine EXCEPT !.policy = r]
        BY <3>1, Zenon DEF UpdatePolicyRevision
      <4> QED BY <4>1, <2>1 DEF EngineRecords
    <3>2. CASE UpdateFederationRevision(t, r)
      <4>1. /\ Emits(t, "policy_updated", "allow") /\ r > engine.federation
            /\ engine' = [engine EXCEPT !.federation = r]
        BY <3>2, Zenon DEF UpdateFederationRevision
      <4> QED BY <4>1, <2>1, SMTT(30) DEF EngineRecords
    <3> QED BY <1>2, <3>1, <3>2
  <2>3. calls[t].pc = "idle" /\ UNCHANGED <<audit, sink, attachedAt>>
    BY <1>2 DEF UpdatePolicyRevision, UpdateFederationRevision
  <2>4. "policy_updated" \in AuditEvents /\ "allow" \in Decisions
    BY DEF AuditEvents, Decisions
  <2> QED BY <2>2, <2>3, <2>4, <1>1
<1>3. ASSUME NEW d \in Domains, NEW level \in {1, 4}, NEW evidence \in {"none", "good", "bad"},
             EvaluateFederationAdmission(t, d, level, evidence)
      PROVE  GovInv'
  <2> DEFINE event == Admission(engine, d, level, evidence)
             decision == IF event = "federation_admitted" THEN "allow" ELSE "deny"
  <2>1. event \in AuditEvents
    BY DEF Admission, AuditEvents
  <2>2. decision \in Decisions
    BY DEF Decisions
  <2>3. /\ Emits(t, event, decision) /\ calls[t].pc = "idle"
        /\ UNCHANGED <<engine, audit, sink, attachedAt>>
    BY <1>3 DEF EvaluateFederationAdmission
  <2>4. engine.policy <= engine'.policy /\ engine.federation <= engine'.federation
    BY <2>3 DEF EngineRecords
  <2> HIDE DEF event, decision
  <2> QED BY <2>1, <2>2, <2>3, <2>4, <1>1
<1> QED BY <1>2, <1>3

\* No record is due to a sink that is just added.
LEMMA SinkAddedKeeps ==
  ASSUME GovInv, AddAuditSink
  PROVE  GovInv'
<1> USE DEF GovInv
<1>1. /\ sink.attached = FALSE /\ sink' = [sink EXCEPT !.attached = TRUE]
      /\ attachedAt' = Len(audit) /\ UNCHANGED <<engine, audit, calls>>
  BY DEF AddAuditSink, GovTypes
<1>2. sink' \in [attached : BOOLEAN, records : Seq(AuditRecords)] /\ sink'.records = sink.records
  <2> DEFINE yes == TRUE
  <2>1. yes \in BOOLEAN /\ sink' = [sink EXCEPT !.attached = yes]
    BY <1>1
  <2> HIDE DEF yes
  <2> QED BY <2>1 DEF GovTypes
<1>3. GovTypes'
  BY <1>1, <1>2 DEF GovTypes
<1>4. DOMAIN sink.records = {}
  BY <1>1 DEF Sunk, Due
<1>5. Numbered'
  BY <1>1 DEF Numbered
<1>6. \A r \in AuditRecords : ~Due(r) /\ ~Due(r)'
  <2>1. Len(audit) \in Nat /\ DOMAIN audit = 1..Len(audit)
    BY DEF GovTypes
  <2> QED BY <1>1, <2>1 DEF Due
<1>7. Held'
  BY <1>1, <1>6 DEF Held
<1>8. Sunk'
  <2>1. Len(audit) \in Nat /\ (attachedAt' + 1)..Len(audit') = {}
    BY <1>1 DEF GovTypes
  <2> QED BY <1>1, <1>2, <1>4, <2>1 DEF Sunk
<1> QED BY <1>3, <1>5, <1>7, <1>8

\* emit_audit_event under its lock: the thread now holds the newest record.
LEMMA MakeRecordKeeps ==
  ASSUME GovInv, NEW t \in Threads, MakeRecord(t)
  PROVE  GovInv'
<1> USE DEF GovInv
<1>0. PICK n, rec :
        /\ n = Len(audit) + 1
        /\ rec = [seq |-> n, prev |-> Len(audit),
                  event |-> calls[t].event, decision |-> calls[t].decision,
                  policy |-> engine.policy, federation |-> engine.federation]
  OBVIOUS
<1>1. /\ calls[t].pc = "emit" /\ audit' = Append(audit, rec)
      /\ calls' = [calls EXCEPT ![t].pc = "sink", ![t].rec = rec, ![t].sinks = sink.attached]
      /\ UNCHANGED <<engine, sink, attachedAt>>
  BY <1>0 DEF MakeRecord
<1>2. /\ Len(audit) \in Nat /\ DOMAIN audit = 1..Len(audit)
      /\ engine.policy \in Nat /\ engine.federation \in Nat
      /\ calls[t] \in CallRecords /\ attachedAt \in Nat /\ sink.attached \in BOOLEAN
      /\ n = Len(audit) + 1
  BY <1>0 DEF GovTypes, EngineRecords
<1>3. rec \in AuditRecords
  BY <1>0, <1>2 DEF AuditRecords, CallRecords
<1>4. rec.seq = n /\ rec.prev = n - 1
      /\ rec.policy = engine.policy /\ rec.federation = engine.federation
  BY <1>0, <1>2
<1>5. /\ audit' \in Seq(AuditRecords) /\ DOMAIN audit' = 1..n /\ Len(audit') = n
      /\ audit'[n] = rec /\ \A i \in DOMAIN audit : audit'[i] = audit[i]
  BY <1>1, <1>2, <1>3 DEF GovTypes
<1>6. /\ calls' \in [Threads -> CallRecords]
      /\ calls'[t].pc = "sink" /\ calls'[t].rec = rec /\ calls'[t].sinks = sink.attached
      /\ \A u \in Threads \ {t} : calls'[u] = calls[u]
  <2> DEFINE c == [calls[t] EXCEPT !.pc = "sink", !.rec = rec, !.sinks = sink.attached]
  <2>1. c \in CallRecords /\ c.pc = "sink" /\ c.rec = rec /\ c.sinks = sink.attached
    BY <1>2, <1>3 DEF CallRecords
  <2>2. calls' = [calls EXCEPT ![t] = c]
    BY <1>1 DEF GovTypes
  <2> HIDE DEF c
  <2> QED BY <2>1, <2>2 DEF GovTypes
<1>7. GovTypes'
  BY <1>1, <1>5, <1>6 DEF GovTypes
<1>8. Numbered'
  <2>1. \A i \in DOMAIN audit' : i = n \/ (i \in DOMAIN audit /\ audit'[i] = audit[i])
    BY <1>2, <1>5
  <2>2. \A i \in DOMAIN audit' :
          /\ audit'[i].seq = i /\ audit'[i].prev = i - 1
          /\ audit'[i].policy <= engine.policy /\ audit'[i].federation <= engine.federation
    BY <1>2, <1>4, <1>5, <2>1 DEF Numbered
  <2>3. ASSUME NEW i \in DOMAIN audit', NEW j \in DOMAIN audit', i < j
        PROVE  audit'[i].policy <= audit'[j].policy /\ audit'[i].federation <= audit'[j].federation
    <3>1. i \in DOMAIN audit
      BY <1>2, <1>5, <2>3
    <3>2. CASE j = n
      BY <3>1, <3>2, <2>2, <1>4, <1>5
    <3>3. CASE j \in DOMAIN audit
      BY <3>1, <3>3, <2>3, <1>5 DEF Numbered
    <3> QED BY <3>2, <3>3, <2>1
  <2> QED BY <2>2, <2>3, <1>1 DEF Numbered
<1>9. \A r \in AuditRecords : r.seq \in DOMAIN audit => (Due(r)' <=> Due(r))
  BY <1>1, <1>2, <1>5 DEF Due
<1>10. Due(rec)' <=> sink.attached
  <2>1. attachedAt <= Len(audit)
    BY DEF Sunk
  <2> QED BY <1>1, <1>2, <1>4, <1>5, <2>1 DEF Due
<1>11. Held'
  <2>1. ASSUME NEW u \in Threads, calls'[u].pc = "sink"
        PROVE  /\ calls'[u].rec \in AuditRecords /\ calls'[u].rec.seq \in DOMAIN audit'
               /\ calls'[u].rec = audit'[calls'[u].rec.seq]
               /\ calls'[u].sinks <=> Due(calls[u].rec)'
               /\ u # t => calls'[u].rec.seq \in DOMAIN audit
    <3>1. CASE u = t
      <4>1. calls'[u].rec = rec /\ (Due(calls[u].rec)' <=> Due(rec)')
        BY <3>1, <1>6 DEF Due
      <4> QED BY <3>1, <4>1, <1>2, <1>3, <1>4, <1>5, <1>6, <1>10
    <3>2. CASE u # t
      <4>1. calls'[u] = calls[u] /\ (Due(calls[u].rec)' <=> Due(calls[u].rec))
        BY <3>2, <2>1, <1>1, <1>2, <1>5, <1>6, <1>9 DEF Held, Due
      <4> QED BY <3>2, <4>1, <2>1, <1>2, <1>5 DEF Held
    <3> QED BY <3>1, <3>2
  <2>2. ASSUME NEW u \in Threads, NEW v \in Threads, calls'[u].pc = "sink",
               calls'[v].pc = "sink", calls'[u].rec.seq = calls'[v].rec.seq
        PROVE  u = v
    <3>1. n \notin DOMAIN audit
      BY <1>2
    <3>2. CASE u # t /\ v # t
      BY <3>2, <2>2, <1>6 DEF Held
    <3>3. CASE u = t \/ v = t
      BY <3>1, <3>3, <2>1, <2>2, <1>4, <1>6
    <3> QED BY <3>2, <3>3
  <2> QED BY <2>1, <2>2, <1>5 DEF Held, Due
<1>12. Sunk'
  <2>1. \A i \in DOMAIN sink.records : /\ sink.records[i] \in AuditRecords
                                     /\ sink.records[i].seq \in DOMAIN audit
    BY RecordFields DEF Sunk, Due
  <2>2. ASSUME NEW i \in DOMAIN sink.records
        PROVE  /\ Due(sink.records[i])'
               /\ \A u \in Threads : ~Holds(u, sink.records[i].seq)'
    <3>1. Due(sink.records[i])'
      BY <2>1, <1>1, <1>9 DEF Sunk
    <3>2. sink.records[i].seq # n
      BY <2>1, <1>2
    <3>3. \A u \in Threads : ~Holds(u, sink.records[i].seq)
      BY DEF Sunk
    <3>4. \A u \in Threads : ~Holds(u, sink.records[i].seq)'
      BY <1>1, <3>2, <3>3, <1>4, <1>6 DEF Holds
    <3> QED BY <3>1, <3>4
  <2>3. ASSUME sink.attached, NEW k \in (attachedAt + 1)..n
        PROVE  \/ \E i \in DOMAIN sink.records : sink.records[i].seq = k
               \/ \E u \in Threads : Holds(u, k)'
    <3>1. CASE k = n
      BY <3>1, <1>4, <1>6 DEF Holds
    <3>2. CASE k # n /\ \E i \in DOMAIN sink.records : sink.records[i].seq = k
      BY <3>2
    <3>3. CASE k # n /\ \E u \in Threads : Holds(u, k)
      BY <3>3, <1>1, <1>6 DEF Holds
    <3>4. k # n => k \in (attachedAt + 1)..Len(audit)
      BY <1>2
    <3> QED BY <3>1, <3>2, <3>3, <3>4, <2>3 DEF Sunk
  <2>4. attachedAt' <= Len(audit')
    BY <1>1, <1>2, <1>5 DEF Sunk
  <2> QED BY <2>2, <2>3, <2>4, <1>1, <1>5 DEF Sunk
<1> QED BY <1>7, <1>8, <1>11, <1>12

\* A record that reaches the sink leaves its thread.
LEMMA RecordSunkKeeps ==
  ASSUME GovInv, NEW t \in Threads, RecordInSinks(t)
  PROVE  GovInv'
<1> USE DEF GovInv
<1>0. PICK rec : rec = calls[t].rec
  OBVIOUS
<1>1. /\ calls[t].pc = "sink" /\ calls' = [calls EXCEPT ![t] = Idle]
      /\ sink' = IF calls[t].sinks THEN [sink EXCEPT !.records = Append(sink.records, rec)] ELSE sink
      /\ UNCHANGED <<engine, audit, attachedAt>>
  BY <1>0 DEF RecordInSinks
<1>2. /\ rec \in AuditRecords /\ rec.seq \in DOMAIN audit /\ rec = audit[rec.seq]
      /\ calls[t].sinks <=> Due(rec)
  BY <1>0, <1>1 DEF Held
<1>3. /\ calls' \in [Threads -> CallRecords] /\ calls'[t].pc = "idle"
      /\ \A u \in Threads \ {t} : calls'[u] = calls[u]
  <2>1. Idle \in CallRecords /\ Idle.pc = "idle"
    BY DEF Idle, CallRecords, AuditEvents, Decisions
  <2> QED BY <1>1, <2>1 DEF GovTypes
<1>4. /\ sink'.attached = sink.attached
      /\ sink' \in [attached : BOOLEAN, records : Seq(AuditRecords)]
      /\ \/ sink' = sink /\ ~Due(rec)
         \/ sink'.records = Append(sink.records, rec) /\ Due(rec)
  <2>1. CASE Due(rec)
    <3>0. sink.records \in Seq(AuditRecords)
      BY DEF GovTypes
    <3>1. PICK records : records = Append(sink.records, rec) /\ records \in Seq(AuditRecords)
      <4>1. Append(sink.records, rec) \in Seq(AuditRecords)
        BY <1>2, <3>0
      <4> QED BY <4>1
    <3>2. sink' = [sink EXCEPT !.records = records]
      BY <1>1, <1>2, <2>1, <3>1
    <3>3. sink' \in [attached : BOOLEAN, records : Seq(AuditRecords)] /\ sink'.records = records
          /\ sink'.attached = sink.attached
      BY <3>1, <3>2 DEF GovTypes
    <3> QED BY <2>1, <3>1, <3>3
  <2>2. CASE ~Due(rec)
    <3>1. sink' = sink
      BY <1>1, <1>2, <2>2
    <3> QED BY <2>2, <3>1 DEF GovTypes
  <2> QED BY <2>1, <2>2
<1>5. GovTypes'
  BY <1>1, <1>3, <1>4 DEF GovTypes
<1>6. Numbered'
  BY <1>1 DEF Numbered
<1>7. \A r : Due(r)' <=> Due(r)
  BY <1>1, <1>4 DEF Due
<1>8. ASSUME NEW u \in Threads, calls'[u].pc = "sink"
      PROVE  u # t /\ calls'[u] = calls[u] /\ calls[u].rec.seq # rec.seq
  <2>1. u # t /\ calls'[u] = calls[u]
    BY <1>3, <1>8
  <2> QED BY <2>1, <1>0, <1>1, <1>8 DEF Held
<1>9. Held'
  BY <1>1, <1>4, <1>8 DEF Held, Due
<1>10. \A u \in Threads, n \in Nat : Holds(u, n)' <=> Holds(u, n) /\ n # rec.seq
  BY <1>0, <1>1, <1>3, <1>8 DEF Holds, Held
<1>11. rec.seq \in Nat
  BY <1>2 DEF AuditRecords
<1>12. \A i \in DOMAIN sink.records :
         sink.records[i].seq \in Nat /\ sink.records[i].seq # rec.seq
  BY <1>0, <1>1, RecordFields DEF Sunk, Holds
<1>13. CASE sink' = sink /\ ~Due(rec)
  <2>1. sink.attached => \A n \in (attachedAt + 1)..Len(audit) : n # rec.seq /\ n \in Nat
    BY <1>2, <1>13 DEF Due, GovTypes
  <2>2. Sunk'
    <3>1. \A i \in DOMAIN sink.records : \A u \in Threads : ~Holds(u, sink.records[i].seq)'
      BY <1>10, <1>12, <1>13 DEF Sunk
    <3>2. ASSUME sink.attached, NEW n \in (attachedAt + 1)..Len(audit)
          PROVE  \/ \E i \in DOMAIN sink.records : sink.records[i].seq = n
                 \/ \E u \in Threads : Holds(u, n)'
      <4>1. n # rec.seq /\ n \in Nat
        BY <2>1, <3>2
      <4>2. CASE \E u \in Threads : Holds(u, n)
        BY <4>1, <4>2, <1>10
      <4> QED BY <4>2, <3>2 DEF Sunk
    <3> QED BY <3>1, <3>2, <1>1, <1>7, <1>13 DEF Sunk
  <2> QED BY <2>2, <1>5, <1>6, <1>9
<1>14. CASE sink'.records = Append(sink.records, rec) /\ Due(rec)
  <2> DEFINE old == sink.records
  <2>1. PICK m \in Nat : m = Len(old) /\ DOMAIN old = 1..m
    BY DEF GovTypes
  <2>2. /\ DOMAIN sink'.records = 1..(m + 1) /\ sink'.records[m + 1] = rec
        /\ \A i \in 1..m : sink'.records[i] = old[i]
    BY <1>2, <1>14, <2>1 DEF GovTypes
  <2>3. \A i \in DOMAIN sink'.records :
          \/ i = m + 1 /\ sink'.records[i] = rec
          \/ i \in DOMAIN old /\ sink'.records[i] = old[i]
    BY <2>1, <2>2
  <2>4. ASSUME NEW i \in DOMAIN sink'.records
        PROVE  /\ Due(sink.records[i])'
               /\ \A u \in Threads : ~Holds(u, sink.records[i].seq)'
    <3>1. Due(sink'.records[i])
      BY <1>14, <2>3 DEF Sunk
    <3>2. Due(sink.records[i])'
      BY <3>1, <1>1, <1>4 DEF Due
    <3>3. \A u \in Threads : ~Holds(u, sink'.records[i].seq) \/ sink'.records[i].seq = rec.seq
      BY <2>3 DEF Sunk
    <3>4. ASSUME NEW u \in Threads, Holds(u, sink.records[i].seq)' PROVE FALSE
      <4>1. calls[u].pc = "sink" /\ calls[u].rec.seq = sink'.records[i].seq
            /\ calls[u].rec.seq # rec.seq
        BY <1>8, <3>4 DEF Holds
      <4> QED BY <4>1, <3>3 DEF Holds
    <3> QED BY <3>2, <3>4
  <2>5. ASSUME NEW i \in DOMAIN sink'.records, NEW j \in DOMAIN sink'.records,
               sink'.records[i].seq = sink'.records[j].seq
        PROVE  i = j
    <3>1. ASSUME NEW k \in DOMAIN sink'.records PROVE k = m + 1 <=> sink'.records[k].seq = rec.seq
      BY <2>1, <2>3, <1>12
    <3>2. CASE i # m + 1 /\ j # m + 1
      BY <2>3, <2>5, <3>2 DEF Sunk
    <3> QED BY <2>5, <3>1, <3>2
  <2>6. ASSUME sink.attached, NEW n \in (attachedAt + 1)..Len(audit)
        PROVE  \/ \E i \in DOMAIN sink'.records : sink'.records[i].seq = n
               \/ \E u \in Threads : Holds(u, n)'
    <3>1. n \in Nat
      BY DEF GovTypes
    <3>2. CASE n = rec.seq
      BY <3>2, <2>1, <2>2
    <3>3. CASE n # rec.seq /\ \E i \in DOMAIN old : old[i].seq = n
      <4>1. \A i \in DOMAIN old : i \in DOMAIN sink'.records /\ sink'.records[i] = old[i]
        BY <2>1, <2>2
      <4> QED BY <3>3, <4>1
    <3>4. CASE n # rec.seq /\ \E u \in Threads : Holds(u, n)
      BY <3>1, <3>4, <1>10
    <3> QED BY <2>6, <3>2, <3>3, <3>4 DEF Sunk
  <2>7. Sunk'
    BY <2>4, <2>5, <2>6, <1>1, <1>4 DEF Sunk
  <2> QED BY <2>7, <1>5, <1>6, <1>9
<1> QED BY <1>4, <1>13, <1>14

LEMMA GovStep == GovInv /\ [GovNext]_govVars => GovInv'
<1> SUFFICES ASSUME GovInv, [GovNext]_govVars PROVE GovInv'
  OBVIOUS
<1>1. CASE UNCHANGED govVars
  <2>1. calls' \in [Threads -> CallRecords] /\ engine' \in EngineRecords
    BY <1>1 DEF govVars, GovInv, GovTypes
  <2> QED BY <1>1, <2>1, SettingsKeep DEF govVars, GovInv, GovTypes, EngineRecords
<1> QED
  BY <1>1, ConfigureKeeps, BeginsKeep, SinkAddedKeeps, MakeRecordKeeps, RecordSunkKeeps
     DEF GovNext

\* Records, their holders and the sink stay in step under any interleaving of the threads
\* (emit_audit_event).
THEOREM GovInvariant == GovSpec => []GovInv
<1> QED BY GovInitInv, GovStep, PTL DEF GovSpec

\* For any threads, domains and revisions: when no record is on its way, a sink holds each
\* record made since it was added exactly once, in some order, with their links, and the
\* records' revisions never go back with their numbers (update_policy_revision,
\* emit_audit_event).
THEOREM TrailIsWhole == GovSpec => []AuditTrail
<1>1. ASSUME GovInv PROVE AuditTrail
  <2> USE DEF GovInv
  <2>1. \A i, j \in DOMAIN audit : i < j =>
          audit[i].policy <= audit[j].policy /\ audit[i].federation <= audit[j].federation
    BY <1>1 DEF Numbered
  <2>2. ASSUME AtRest, sink.attached PROVE Reached = {audit[i] : i \in (attachedAt + 1)..Len(audit)}
    <3>1. \A t \in Threads : \A n : ~Holds(t, n)
      BY <2>2 DEF AtRest, Holds
    <3>2. DOMAIN audit = 1..Len(audit) /\ Len(audit) \in Nat /\ attachedAt \in Nat
      BY <1>1 DEF GovTypes
    <3>3. ASSUME NEW i \in DOMAIN sink.records
          PROVE  sink.records[i] \in {audit[k] : k \in (attachedAt + 1)..Len(audit)}
      <4>1. Due(sink.records[i])
        BY <1>1 DEF Sunk
      <4> QED BY <3>2, <4>1 DEF Due
    <3>4. ASSUME NEW k \in (attachedAt + 1)..Len(audit) PROVE audit[k] \in Reached
      <4>1. PICK i \in DOMAIN sink.records : sink.records[i].seq = k
        BY <1>1, <2>2, <3>1 DEF Sunk
      <4>2. sink.records[i] = audit[k]
        BY <1>1, <4>1 DEF Sunk, Due
      <4> QED BY <4>2 DEF Reached
    <3> QED BY <3>3, <3>4 DEF Reached
  <2>3. \A i, j \in DOMAIN sink.records : sink.records[i] = sink.records[j] => i = j
    BY <1>1 DEF Sunk
  <2>4. ASSUME AtRest, NEW rec \in Reached
        PROVE  rec.prev = attachedAt \/ \E before \in Reached : rec.prev = before.seq
    <3>1. Due(rec)
      BY <1>1 DEF Sunk, Reached
    <3>2. DOMAIN audit = 1..Len(audit) /\ Len(audit) \in Nat /\ attachedAt \in Nat
      BY <1>1 DEF GovTypes
    <3>3. PICK k \in DOMAIN audit : k = rec.seq /\ rec = audit[k] /\ k > attachedAt
      BY <3>1 DEF Due
    <3>4. rec.prev = k - 1
      BY <1>1, <3>3 DEF Numbered
    <3>5. CASE k - 1 = attachedAt
      BY <3>4, <3>5
    <3>6. CASE k - 1 # attachedAt
      <4>1. k - 1 \in (attachedAt + 1)..Len(audit) /\ k - 1 \in DOMAIN audit
        BY <3>2, <3>3, <3>6
      <4>2. audit[k - 1] \in Reached
        BY <2>2, <2>4, <3>1, <4>1 DEF Due
      <4>3. audit[k - 1].seq = k - 1
        BY <1>1, <4>1 DEF Numbered
      <4> QED BY <3>4, <4>2, <4>3
    <3> QED BY <3>5, <3>6
  <2> QED BY <2>1, <2>2, <2>3, <2>4 DEF AuditTrail
<1> QED BY <1>1, GovInvariant, PTL

-----------------------------------------------------------------------------
(* Groups: types *)

Entries == [endpoint : Endpoints, status : {"active", "removed"}, role : Roles \cup {"coordinator"}]

Groups(leafs, ratchets) ==
  [st : {"none", "active", "closed"}, epoch : 0..LastGroupEpoch, members : Seq(Entries),
   leafs : {leafs}, ratchets : {ratchets}]

Messages ==
  [epoch : Nat, sender : Endpoints, seq : Nat, mode : Modes \cup {"unknown"},
   body : [text : Nat, veiled : BOOLEAN], generation : Nat, class : Classes]

GroupTypes == group \in Groups(group.leafs, group.ratchets)

\* An endpoint has one active entry at most.
Unique == \A e \in Endpoints : \A a, b \in ActiveEntries(e) : a = b

\* A live group has a leaf and a ratchet for each active member.
Secrets ==
  /\ DOMAIN group.leafs = IF group.st = "active" THEN ActiveMembers ELSE {}
  /\ DOMAIN group.ratchets = DOMAIN group.leafs
  /\ \A e \in DOMAIN group.leafs :
       /\ group.leafs[e].owner = e
       /\ group.leafs[e].made \in Nat /\ group.leafs[e].made <= group.epoch
       /\ group.ratchets[e] \in Nat

\* A message has the tag of its content; one of this epoch is under its sender's leaf of now.
PostedOK ==
  /\ group.st = "none" => posted = {}
  /\ \A p \in posted :
       /\ p = [msg |-> p.msg, tag |-> p.tag] /\ p.msg \in Messages /\ p.msg.seq # 0
       /\ p.msg.epoch <= group.epoch
       /\ Veil(p.msg.mode, p.msg.body) = Plain
       /\ \E leaf : p.tag = TagOf(leaf, p.msg, p.msg.class)
       /\ p.msg.epoch = group.epoch /\ p.msg.sender \in DOMAIN group.leafs
            => p.tag = TagOf(group.leafs[p.msg.sender], p.msg, p.msg.class)

SameButMode(m, p) == p \in Messages /\ m = [p EXCEPT !.mode = m.mode] /\ [m EXCEPT !.mode = p.mode] = p

\* What was accepted is in the replay windows, and nothing else is.
AcceptedOK ==
  /\ \A a \in accepted :
       /\ a.msg \in Messages
       /\ a.class = a.msg.class /\ a.member /\ a.epoch = a.msg.epoch
       /\ a.read = Veil(a.msg.mode, a.msg.body)
       /\ \E p \in posted : SameButMode(a.msg, p.msg)
       /\ Number(a.msg) \in opened
  /\ \A a, b \in accepted : Number(a.msg) = Number(b.msg) => a = b
  /\ \A k \in opened : \E a \in accepted : k = Number(a.msg)

GroupInv == GroupTypes /\ Unique /\ Secrets /\ PostedOK /\ AcceptedOK

LEMMA GroupFields ==
  ASSUME GroupTypes
  PROVE  /\ group.st \in {"none", "active", "closed"} /\ group.epoch \in 0..LastGroupEpoch
         /\ group.members \in Seq(Entries)
         /\ group = [st |-> group.st, epoch |-> group.epoch, members |-> group.members,
                     leafs |-> group.leafs, ratchets |-> group.ratchets]
  BY DEF GroupTypes, Groups

LEMMA GroupUpdate ==
  ASSUME NEW st \in {"none", "active", "closed"}, NEW n \in 0..LastGroupEpoch,
         NEW members \in Seq(Entries), NEW leafs, NEW ratchets,
         group' = [st |-> st, epoch |-> n, members |-> members, leafs |-> leafs,
                   ratchets |-> ratchets]
  PROVE  /\ GroupTypes' /\ group'.epoch = n /\ group'.st = st
         /\ group'.members = members /\ group'.leafs = leafs /\ group'.ratchets = ratchets
  BY DEF GroupTypes, Groups

LEMMA GroupInitInv == GroupInit => GroupInv
<1> SUFFICES ASSUME GroupInit PROVE GroupInv
  OBVIOUS
<1> USE GroupAssumption DEF GroupInit, NoGroup
<1>1. GroupTypes
  BY DEF GroupTypes, Groups
<1>2. \A e \in Endpoints : ActiveEntries(e) = {}
  BY DEF ActiveEntries
<1>3. Unique /\ Secrets
  BY <1>2 DEF Unique, Secrets
<1>4. PostedOK /\ AcceptedOK
  BY DEF PostedOK, AcceptedOK
<1> QED BY <1>1, <1>3, <1>4 DEF GroupInv

\* Membership changes keep the messages: those of former epochs stay what they are.
LEMMA MembershipKeeps ==
  ASSUME GroupInv, GroupTypes', Unique', Secrets', UNCHANGED <<posted, opened, accepted>>,
         group'.st # "none" \/ posted = {}, group.epoch <= group'.epoch,
         group'.epoch = group.epoch => \A e \in DOMAIN group'.leafs :
           e \in DOMAIN group.leafs /\ group'.leafs[e] = group.leafs[e]
  PROVE  GroupInv'
<1> USE DEF GroupInv
<1>1. group.epoch \in Nat /\ group'.epoch \in Nat
  BY GroupAssumption DEF GroupTypes, Groups
<1>2. \A p \in posted : p.msg.epoch \in Nat
  BY DEF PostedOK, Messages
<1>3. PostedOK'
  BY <1>1, <1>2 DEF PostedOK
<1>4. AcceptedOK'
  BY DEF AcceptedOK, Number
<1> QED BY <1>3, <1>4

LEMMA CreateKeeps ==
  ASSUME GroupInv, NEW e \in Endpoints, CreateGroup(e)
  PROVE  GroupInv'
<1> USE GroupAssumption
<1>1. /\ group.st = "none" /\ group'.st = "active" /\ group'.epoch = 1
      /\ group'.members = <<Entry(e, "coordinator")>>
      /\ group'.leafs = With(<<>>, e, Leaf(e, 1)) /\ group'.ratchets = With(<<>>, e, 0)
      /\ group' = [st |-> group'.st, epoch |-> group'.epoch, members |-> group'.members,
                   leafs |-> group'.leafs, ratchets |-> group'.ratchets]
      /\ UNCHANGED <<posted, opened, accepted>>
  BY DEF CreateGroup
<1>2. Entry(e, "coordinator") \in Entries /\ Entry(e, "coordinator").status = "active"
      /\ Entry(e, "coordinator").endpoint = e
  BY DEF Entry, Entries
<1>3. GroupTypes'
  BY <1>1, <1>2 DEF GroupTypes, Groups
<1>4. \A d \in Endpoints : ActiveEntries(d)' = IF d = e THEN {1} ELSE {}
  BY <1>1, <1>2 DEF ActiveEntries
<1>5. Unique'
  BY <1>4 DEF Unique
<1>6. DOMAIN group'.leafs = {e} /\ DOMAIN group'.ratchets = {e}
      /\ group'.leafs[e] = Leaf(e, 1) /\ group'.ratchets[e] = 0
  BY <1>1 DEF With
<1>7. Secrets'
  <2>1. ActiveMembers' = {e}
    BY <1>4 DEF ActiveMembers
  <2>2. /\ group'.leafs[e].owner = e /\ group'.leafs[e].made = 1
        /\ group'.ratchets[e] \in Nat
    BY <1>6 DEF Leaf
  <2> QED BY <1>1, <1>6, <2>1, <2>2 DEF Secrets
<1>8. posted = {}
  BY <1>1 DEF GroupInv, PostedOK
<1>9. PostedOK'
  BY <1>1, <1>8 DEF PostedOK
<1>10. AcceptedOK'
  BY <1>1 DEF GroupInv, AcceptedOK, Number
<1> QED BY <1>3, <1>5, <1>7, <1>9, <1>10 DEF GroupInv

LEMMA AddKeeps ==
  ASSUME GroupInv, NEW e \in Endpoints, NEW role \in Roles, AddMember(e, role)
  PROVE  GroupInv'
<1> USE GroupAssumption DEF GroupInv
<1>0. PICK n, members, leafs, ratchets :
        /\ n = group.epoch + 1 /\ members = Append(group.members, Entry(e, role))
        /\ leafs = With(group.leafs, e, Leaf(e, n)) /\ ratchets = With(group.ratchets, e, 0)
  OBVIOUS
<1>1. /\ group.st = "active" /\ ActiveEntries(e) = {} /\ n \in 0..LastGroupEpoch
      /\ group' = [group EXCEPT !.members = members, !.epoch = n, !.leafs = leafs,
                                !.ratchets = ratchets]
      /\ UNCHANGED <<posted, opened, accepted>>
  BY <1>0 DEF AddMember, GroupTypes, Groups
<1>2. Entry(e, role) \in Entries /\ Entry(e, role).status = "active"
      /\ Entry(e, role).endpoint = e
  BY DEF Entry, Entries
<1>3. PICK m \in Nat : /\ m = Len(group.members) /\ DOMAIN group.members = 1..m
  BY GroupFields
<1>4. /\ members \in Seq(Entries) /\ DOMAIN members = 1..(m + 1)
      /\ members[m + 1] = Entry(e, role) /\ \A i \in 1..m : members[i] = group.members[i]
  BY <1>0, <1>2, <1>3, GroupFields
<1>5. GroupTypes' /\ group'.epoch = n /\ group'.st = "active"
      /\ group'.members = members /\ group'.leafs = leafs /\ group'.ratchets = ratchets
  <2>1. group' = [st |-> "active", epoch |-> n, members |-> members, leafs |-> leafs,
                  ratchets |-> ratchets]
    BY <1>1, GroupFields
  <2> QED BY <1>1, <1>4, <2>1, GroupUpdate
<1>6. \A d \in Endpoints : ActiveEntries(d)' = IF d = e THEN {m + 1} ELSE ActiveEntries(d)
  BY <1>1, <1>2, <1>3, <1>4, <1>5 DEF ActiveEntries
<1>7. Unique'
  BY <1>6 DEF Unique
<1>8. /\ DOMAIN leafs = DOMAIN group.leafs \cup {e} /\ leafs[e] = Leaf(e, n)
      /\ DOMAIN ratchets = DOMAIN group.leafs \cup {e} /\ ratchets[e] = 0
      /\ \A d \in DOMAIN group.leafs \ {e} :
           leafs[d] = group.leafs[d] /\ ratchets[d] = group.ratchets[d]
  BY <1>0 DEF With, Secrets
<1>9. Secrets'
  <2>1. ActiveMembers' = ActiveMembers \cup {e}
    BY <1>6 DEF ActiveMembers
  <2>2. Leaf(e, n).owner = e /\ Leaf(e, n).made = n
    BY DEF Leaf
  <2>3. group.epoch \in Nat /\ n \in Nat /\ group.epoch < n
    BY <1>0, <1>1 DEF GroupTypes, Groups
  <2> QED BY <1>1, <1>5, <1>8, <2>1, <2>2, <2>3 DEF Secrets
<1>10. group.epoch <= group'.epoch /\ group'.epoch # group.epoch
  BY <1>0, <1>1, <1>5 DEF GroupTypes, Groups
<1> QED BY <1>1, <1>5, <1>7, <1>9, <1>10, MembershipKeeps

LEMMA RemoveKeeps ==
  ASSUME GroupInv, NEW e \in Endpoints, RemoveMember(e)
  PROVE  GroupInv'
<1> USE GroupAssumption DEF GroupInv
<1>0. PICK n, members, leafs, ratchets :
        /\ n = group.epoch + 1
        /\ members = [i \in DOMAIN group.members |->
                        IF i \in ActiveEntries(e)
                        THEN [group.members[i] EXCEPT !.status = "removed"] ELSE group.members[i]]
        /\ leafs = Without(group.leafs, e) /\ ratchets = Without(group.ratchets, e)
  OBVIOUS
<1>1. /\ group.st = "active" /\ n \in 0..LastGroupEpoch
      /\ group' = [group EXCEPT !.members = members, !.leafs = leafs,
                                !.ratchets = ratchets, !.epoch = n]
      /\ UNCHANGED <<posted, opened, accepted>>
  BY <1>0 DEF RemoveMember, GroupTypes, Groups
<1>2. PICK m \in Nat : /\ m = Len(group.members) /\ DOMAIN group.members = 1..m
  BY GroupFields
<1>3. \A i \in 1..m : group.members[i] \in Entries
  BY <1>2, GroupFields
<1>4. \A i \in 1..m :
        /\ members[i] \in Entries /\ members[i].endpoint = group.members[i].endpoint
        /\ members[i].status = IF i \in ActiveEntries(e) THEN "removed" ELSE group.members[i].status
  BY <1>0, <1>2, <1>3 DEF Entries
<1>5. members \in Seq(Entries) /\ DOMAIN members = 1..m
  BY <1>0, <1>2, <1>4, SMTT(30)
<1>6. GroupTypes' /\ group'.epoch = n /\ group'.st = "active"
      /\ group'.members = members /\ group'.leafs = leafs /\ group'.ratchets = ratchets
  <2>1. group' = [st |-> "active", epoch |-> n, members |-> members, leafs |-> leafs,
                  ratchets |-> ratchets]
    BY <1>1, GroupFields
  <2> QED BY <1>1, <1>5, <2>1, GroupUpdate
<1>7. \A d \in Endpoints : ActiveEntries(d)' = IF d = e THEN {} ELSE ActiveEntries(d)
  BY <1>2, <1>4, <1>5, <1>6 DEF ActiveEntries
<1>8. Unique'
  BY <1>7 DEF Unique
<1>9. /\ DOMAIN leafs = DOMAIN group.leafs \ {e} /\ DOMAIN ratchets = DOMAIN group.leafs \ {e}
      /\ \A d \in DOMAIN group.leafs \ {e} :
           leafs[d] = group.leafs[d] /\ ratchets[d] = group.ratchets[d]
  BY <1>0 DEF Without, Secrets
<1>10. Secrets'
  <2>1. ActiveMembers' = ActiveMembers \ {e}
    BY <1>7 DEF ActiveMembers
  <2>2. group.epoch \in Nat /\ n \in Nat /\ group.epoch < n
    BY <1>0, <1>1 DEF GroupTypes, Groups
  <2> QED BY <1>1, <1>6, <1>9, <2>1, <2>2 DEF Secrets
<1>11. group.epoch <= group'.epoch /\ group'.epoch # group.epoch
  BY <1>0, <1>1, <1>6 DEF GroupTypes, Groups
<1> QED BY <1>1, <1>6, <1>8, <1>10, <1>11, MembershipKeeps

LEMMA RoleKeeps ==
  ASSUME GroupInv, NEW e \in Endpoints, NEW role \in Roles, UpdateMemberRole(e, role)
  PROVE  GroupInv'
<1> USE GroupAssumption DEF GroupInv
<1>0. PICK members :
        members = [i \in DOMAIN group.members |->
                    IF i \in ActiveEntries(e)
                    THEN [group.members[i] EXCEPT !.role = role] ELSE group.members[i]]
  OBVIOUS
<1>1. /\ group.st = "active" /\ group' = [group EXCEPT !.members = members]
      /\ UNCHANGED <<posted, opened, accepted>>
  BY <1>0 DEF UpdateMemberRole
<1>2. PICK m \in Nat : /\ m = Len(group.members) /\ DOMAIN group.members = 1..m
  BY GroupFields
<1>3. \A i \in 1..m : group.members[i] \in Entries
  BY <1>2, GroupFields
<1>4. \A i \in 1..m :
        /\ members[i] \in Entries /\ members[i].endpoint = group.members[i].endpoint
        /\ members[i].status = group.members[i].status
  BY <1>0, <1>2, <1>3 DEF Entries
<1>5. members \in Seq(Entries) /\ DOMAIN members = 1..m
  <2>1. members = [i \in 1..m |-> members[i]]
    BY <1>0, <1>2
  <2> QED BY <1>4, <2>1
<1>6. /\ GroupTypes' /\ group'.epoch = group.epoch /\ group'.st = group.st
      /\ group'.members = members /\ group'.leafs = group.leafs
      /\ group'.ratchets = group.ratchets
  <2>1. group' = [st |-> group.st, epoch |-> group.epoch, members |-> members,
                  leafs |-> group.leafs, ratchets |-> group.ratchets]
    BY <1>1, GroupFields
  <2> QED BY <1>5, <2>1, GroupFields, GroupUpdate
<1>7. \A d \in Endpoints : ActiveEntries(d)' = ActiveEntries(d)
  BY <1>2, <1>4, <1>5, <1>6 DEF ActiveEntries
<1>8. Unique'
  BY <1>7 DEF Unique
<1>9. ActiveMembers' = ActiveMembers
  BY <1>7 DEF ActiveMembers
<1>10. Secrets'
  BY <1>6, <1>9 DEF Secrets
<1>11. group.epoch \in Nat
  BY DEF GroupTypes, Groups
<1> QED BY <1>1, <1>6, <1>8, <1>10, <1>11, MembershipKeeps

LEMMA RekeyKeeps ==
  ASSUME GroupInv, NEW e \in Endpoints, RekeyGroup(e)
  PROVE  GroupInv'
<1> USE GroupAssumption DEF GroupInv
<1>0. PICK n, leafs : n = group.epoch + 1 /\ leafs = [group.leafs EXCEPT ![e] = Leaf(e, n)]
  OBVIOUS
<1>1. /\ group.st = "active" /\ n \in 0..LastGroupEpoch
      /\ group' = [group EXCEPT !.leafs = leafs, !.epoch = n]
      /\ UNCHANGED <<posted, opened, accepted>>
  BY <1>0 DEF RekeyGroup, GroupTypes, Groups
<1>2. /\ GroupTypes' /\ group'.epoch = n /\ group'.st = group.st
      /\ group'.members = group.members /\ group'.leafs = leafs
      /\ group'.ratchets = group.ratchets
  <2>1. group' = [st |-> group.st, epoch |-> n, members |-> group.members,
                  leafs |-> leafs, ratchets |-> group.ratchets]
    BY <1>1, GroupFields
  <2> QED BY <1>1, <2>1, GroupFields, GroupUpdate
<1>3. \A d \in Endpoints : ActiveEntries(d)' = ActiveEntries(d)
  BY <1>2 DEF ActiveEntries
<1>4. Unique' /\ ActiveMembers' = ActiveMembers
  BY <1>3 DEF Unique, ActiveMembers
<1>5. n \in Nat /\ group.epoch \in Nat /\ group.epoch < n
  BY <1>0, <1>1 DEF GroupTypes, Groups
<1>6. /\ DOMAIN leafs = DOMAIN group.leafs
      /\ \A d \in DOMAIN leafs : leafs[d] = IF d = e THEN Leaf(e, n) ELSE group.leafs[d]
  BY <1>0
<1>7. Leaf(e, n).owner = e /\ Leaf(e, n).made = n
  BY DEF Leaf
<1>8. Secrets'
  BY <1>2, <1>4, <1>5, <1>6, <1>7 DEF Secrets
<1> QED BY <1>1, <1>2, <1>4, <1>5, <1>8, MembershipKeeps

LEMMA CloseKeeps ==
  ASSUME GroupInv, CloseGroup
  PROVE  GroupInv'
<1> USE GroupAssumption DEF GroupInv
<1>1. /\ group' = [group EXCEPT !.st = "closed", !.leafs = <<>>, !.ratchets = <<>>]
      /\ UNCHANGED <<posted, opened, accepted>>
  BY DEF CloseGroup
<1>2. /\ GroupTypes' /\ group'.epoch = group.epoch /\ group'.st = "closed"
      /\ group'.members = group.members /\ group'.leafs = <<>> /\ group'.ratchets = <<>>
  BY <1>1 DEF GroupTypes, Groups
<1>3. \A d \in Endpoints : ActiveEntries(d)' = ActiveEntries(d)
  BY <1>2 DEF ActiveEntries
<1>4. Unique'
  BY <1>3 DEF Unique
<1>5. Secrets'
  BY <1>2 DEF Secrets
<1>6. group.epoch \in Nat
  BY DEF GroupTypes, Groups
<1> QED BY <1>1, <1>2, <1>4, <1>5, <1>6, MembershipKeeps

\* protect() signs with the sender's leaf of now; a ratchet is no secret of its own.
LEMMA ProtectKeeps ==
  ASSUME GroupInv, NEW e \in Endpoints, NEW mode \in Modes,
         NEW class \in Classes \cup {"unknown"}, NEW seq \in Nat \ {0}, Protect(e, mode, class, seq)
  PROVE  GroupInv'
<1> USE GroupAssumption DEF GroupInv
<1>0. PICK ratchets, body, m :
        /\ ratchets = [group.ratchets EXCEPT ![e] = group.ratchets[e] + 1]
        /\ body = Veil(mode, Plain)
        /\ m = [epoch |-> group.epoch, sender |-> e, seq |-> seq, mode |-> mode, body |-> body,
                generation |-> group.ratchets[e] + 1, class |-> class]
  OBVIOUS
<1>1. /\ group.st = "active" /\ ActiveEntries(e) # {}
      /\ group' = [group EXCEPT !.ratchets = ratchets]
      /\ posted' = IF class \in Classes
                   THEN posted \cup {[msg |-> m, tag |-> TagOf(group.leafs[e], m, class)]}
                   ELSE posted
      /\ UNCHANGED <<opened, accepted>>
  BY <1>0 DEF Protect, IsMemberActive
<1>2. /\ GroupTypes' /\ group'.epoch = group.epoch /\ group'.st = group.st
      /\ group'.members = group.members /\ group'.leafs = group.leafs
      /\ group'.ratchets = ratchets
  <2>1. group' = [st |-> group.st, epoch |-> group.epoch, members |-> group.members,
                  leafs |-> group.leafs, ratchets |-> ratchets]
    BY <1>1, GroupFields
  <2> QED BY <2>1, GroupFields, GroupUpdate
<1>3. \A d \in Endpoints : ActiveEntries(d)' = ActiveEntries(d)
  BY <1>2 DEF ActiveEntries
<1>4. Unique' /\ ActiveMembers' = ActiveMembers
  BY <1>3 DEF Unique, ActiveMembers
<1>5. e \in DOMAIN group.leafs /\ group.ratchets[e] \in Nat
  BY <1>1 DEF Secrets, ActiveMembers
<1>6. Secrets'
  BY <1>0, <1>2, <1>4, <1>5 DEF Secrets
<1>7. group.epoch \in Nat /\ (class \in Classes => m \in Messages)
  <2>1. body \in [text : Nat, veiled : BOOLEAN]
    BY <1>0 DEF Veil, Plain, Body
  <2>2. group.epoch \in Nat
    BY DEF GroupTypes, Groups
  <2>3. group.ratchets[e] + 1 \in Nat /\ mode \in Modes \cup {"unknown"}
    BY <1>5
  <2> QED BY ONLY <1>0, <2>1, <2>2, <2>3, e \in Endpoints, seq \in Nat \ {0} DEF Messages
<1>8. /\ m.epoch = group.epoch /\ m.sender = e /\ m.class = class /\ m.seq # 0
      /\ Veil(m.mode, m.body) = Plain
  BY <1>0 DEF Veil, Plain, Body
<1>9. PostedOK'
  <2>1. CASE class \in Classes
    <3>1. PICK p : p = [msg |-> m, tag |-> TagOf(group.leafs[e], m, class)]
      OBVIOUS
    <3>2. /\ p = [msg |-> p.msg, tag |-> p.tag] /\ p.msg \in Messages /\ p.msg.seq # 0
          /\ p.msg.epoch <= group'.epoch
          /\ Veil(p.msg.mode, p.msg.body) = Plain
          /\ \E leaf : p.tag = TagOf(leaf, p.msg, p.msg.class)
          /\ p.tag = TagOf(group'.leafs[p.msg.sender], p.msg, p.msg.class)
      <4>1. p.msg = m /\ p.tag = TagOf(group.leafs[e], m, class)
        BY <3>1
      <4>2. p = [msg |-> p.msg, tag |-> p.tag]
        BY <3>1
      <4>3. m.epoch <= group'.epoch /\ group'.leafs = group.leafs
        BY <1>2, <1>7, <1>8
      <4> QED BY <2>1, <4>1, <4>2, <4>3, <1>7, <1>8
    <3>3. posted' = posted \cup {p}
      BY <2>1, <3>1, <1>1
    <3> QED BY <3>2, <3>3, <1>1, <1>2 DEF PostedOK
  <2>2. CASE class \notin Classes
    BY <2>2, <1>1, <1>2 DEF PostedOK
  <2> QED BY <2>1, <2>2
<1>10. AcceptedOK'
  <2>1. posted \subseteq posted'
    BY <1>1
  <2> QED BY <2>1, <1>1 DEF AcceptedOK, Number
<1> QED BY <1>2, <1>4, <1>6, <1>9, <1>10

LEMMA AlteredFields ==
  ASSUME PostedOK, NEW p \in posted, NEW q \in Altered(p), NEW m,
         \/ m = q.msg
         \/ m = [q.msg EXCEPT !.generation = q.msg.seq, !.mode = "authenticated_only"]
  PROVE  q.tag = p.tag /\ m \in Messages /\ m.class = p.msg.class
<1>1. p = [msg |-> p.msg, tag |-> p.tag] /\ p.msg \in Messages
  BY DEF PostedOK
<1>2. q.tag = p.tag /\ q.msg \in Messages /\ q.msg.class = p.msg.class
  <2>1. ASSUME NEW b \in [text : Nat, veiled : BOOLEAN], q = [p EXCEPT !.msg.body = b]
        PROVE  q.tag = p.tag /\ q.msg \in Messages /\ q.msg.class = p.msg.class
    BY <1>1, <2>1 DEF Messages
  <2>2. ASSUME NEW b \in Nat, q = [p EXCEPT !.msg.seq = b]
        PROVE  q.tag = p.tag /\ q.msg \in Messages /\ q.msg.class = p.msg.class
    BY <1>1, <2>2 DEF Messages
  <2>3. ASSUME NEW b \in Endpoints, q = [p EXCEPT !.msg.sender = b]
        PROVE  q.tag = p.tag /\ q.msg \in Messages /\ q.msg.class = p.msg.class
    BY <1>1, <2>3 DEF Messages
  <2>4. ASSUME NEW b \in 1..LastGroupEpoch, q = [p EXCEPT !.msg.epoch = b]
        PROVE  q.tag = p.tag /\ q.msg \in Messages /\ q.msg.class = p.msg.class
    BY <1>1, <2>4 DEF Messages
  <2>5. ASSUME NEW b \in Modes \cup {"unknown"}, q = [p EXCEPT !.msg.mode = b]
        PROVE  q.tag = p.tag /\ q.msg \in Messages /\ q.msg.class = p.msg.class
    BY <1>1, <2>5 DEF Messages
  <2>6. {Body(1, ~p.msg.body.veiled), Body(2, FALSE)} \subseteq [text : Nat, veiled : BOOLEAN]
    BY <1>1 DEF Body, Messages
  <2>7. {0} \cup {send[3] : send \in Sends} \subseteq Nat
    BY SendsAssumption
  <2> QED BY <1>1, <2>1, <2>2, <2>3, <2>4, <2>5, <2>6, <2>7 DEF Altered
<1>3. CASE m = q.msg
  BY <1>2, <1>3
<1>4. CASE m = [q.msg EXCEPT !.generation = q.msg.seq, !.mode = "authenticated_only"]
  BY <1>2, <1>4 DEF Messages, Modes
<1> QED BY <1>3, <1>4

LEMMA UnprotectOk ==
  ASSUME NEW m, NEW tag, NEW class
  PROVE  Unprotect(m, tag, class) = "ok" <=>
           /\ group.st = "active" /\ ~(m.epoch < group.epoch) /\ ~(m.epoch > group.epoch)
           /\ \E n \in DOMAIN group.members : group.members[n].endpoint = m.sender
           /\ group.members[FirstEntry(m.sender)].status = "active"
           /\ m.sender \in DOMAIN group.leafs /\ InWindow(m)
           /\ tag = TagOf(group.leafs[m.sender], m, class)
  BY DEF Unprotect

\* What unprotect() accepts is what its sender protected: the tag shows every field but
\* the mode.
LEMMA OpenedIsPosted ==
  ASSUME GroupInv, NEW p \in posted, NEW q \in Altered(p), NEW class \in Classes, NEW m,
         \/ m = q.msg
         \/ m = [q.msg EXCEPT !.generation = q.msg.seq, !.mode = "authenticated_only"],
         Unprotect(m, q.tag, class) = "ok"
  PROVE  SameButMode(m, p.msg) /\ class = p.msg.class /\ m.class = class /\ m \in Messages
<1>1. q.tag = p.tag /\ m \in Messages /\ m.class = p.msg.class /\ p.msg \in Messages
  BY AlteredFields DEF GroupInv, PostedOK
<1>2. p.tag = TagOf(group.leafs[m.sender], m, class)
  BY <1>1, UnprotectOk
<1>3. PICK leaf : p.tag = TagOf(leaf, p.msg, p.msg.class)
  BY DEF GroupInv, PostedOK
<1>4. /\ m.epoch = p.msg.epoch /\ m.sender = p.msg.sender /\ m.seq = p.msg.seq
      /\ m.body = p.msg.body /\ m.generation = p.msg.generation /\ class = p.msg.class
  BY <1>2, <1>3 DEF TagOf
<1> QED BY <1>1, <1>4 DEF Messages, SameButMode

LEMMA OpensKeeps ==
  ASSUME GroupInv, NEW p \in posted, NEW q \in Altered(p), NEW class \in Classes, NEW m,
         \/ m = q.msg
         \/ m = [q.msg EXCEPT !.generation = q.msg.seq, !.mode = "authenticated_only"],
         Opens(m, q.tag, class)
  PROVE  GroupInv'
<1> USE GroupAssumption DEF GroupInv
<1>0. PICK receipt : receipt =
        [msg |-> m, class |-> class, epoch |-> group.epoch, member |-> IsMemberActive(m.sender),
         read |-> Veil(m.mode, m.body),
         nth |-> 1 + Cardinality({a \in accepted : Number(a.msg) = Number(m)})]
  OBVIOUS
<1>1. /\ opened' = opened \cup {Number(m)} /\ accepted' = accepted \cup {receipt}
      /\ UNCHANGED <<group, posted>> /\ Unprotect(m, q.tag, class) = "ok"
  BY <1>0 DEF Opens
<1>2. SameButMode(m, p.msg) /\ m.class = class /\ m \in Messages
  BY <1>1, OpenedIsPosted
<1>3. /\ m.epoch = group.epoch /\ m.sender \in DOMAIN group.leafs /\ group.st = "active"
      /\ Number(m) \notin opened
  <2>1. group.epoch \in Nat /\ m.epoch \in Nat
    BY <1>2 DEF Messages, GroupTypes, Groups
  <2> QED BY <1>1, <2>1, UnprotectOk DEF InWindow
<1>4. IsMemberActive(m.sender) = TRUE
  BY <1>3 DEF IsMemberActive, Secrets, ActiveMembers
<1>5. /\ receipt.msg = m /\ receipt.class = m.class /\ receipt.member
      /\ receipt.epoch = m.epoch /\ receipt.read = Veil(m.mode, m.body)
  BY <1>0, <1>2, <1>3, <1>4
<1>6. AcceptedOK'
  <2>1. \A a \in accepted' :
          /\ a.msg \in Messages
          /\ a.class = a.msg.class /\ a.member /\ a.epoch = a.msg.epoch
          /\ a.read = Veil(a.msg.mode, a.msg.body)
          /\ \E r \in posted' : SameButMode(a.msg, r.msg)
          /\ Number(a.msg) \in opened'
    BY <1>1, <1>2, <1>5 DEF AcceptedOK
  <2>2. \A a \in accepted : Number(a.msg) # Number(m)
    BY <1>3 DEF AcceptedOK
  <2>3. \A a, b \in accepted' : Number(a.msg) = Number(b.msg) => a = b
    BY <1>1, <1>5, <2>2 DEF AcceptedOK
  <2>4. \A k \in opened' : \E a \in accepted' : k = Number(a.msg)
    BY <1>1, <1>5 DEF AcceptedOK
  <2> QED BY <2>1, <2>3, <2>4 DEF AcceptedOK, Number
<1>7. GroupTypes' /\ Unique' /\ Secrets' /\ PostedOK'
  <2>1. \A e \in Endpoints : ActiveEntries(e)' = ActiveEntries(e)
    BY <1>1 DEF ActiveEntries
  <2>2. Unique' /\ ActiveMembers' = ActiveMembers
    BY <2>1 DEF Unique, ActiveMembers
  <2>3. Secrets'
    BY <1>1, <2>2 DEF Secrets
  <2>4. GroupTypes' /\ PostedOK'
    BY <1>1 DEF GroupTypes, Groups, PostedOK
  <2> QED BY <2>2, <2>3, <2>4
<1> QED BY <1>6, <1>7

LEMMA GroupStep == GroupInv /\ [GroupNext]_groupVars => GroupInv'
<1> SUFFICES ASSUME GroupInv, [GroupNext]_groupVars PROVE GroupInv'
  OBVIOUS
<1>1. CASE UNCHANGED groupVars
  <2>1. UNCHANGED <<group, posted, opened, accepted>>
    BY <1>1 DEF groupVars
  <2>2. \A e \in Endpoints : ActiveEntries(e)' = ActiveEntries(e)
    BY <2>1 DEF ActiveEntries
  <2>3. Unique' /\ ActiveMembers' = ActiveMembers
    BY <2>2 DEF Unique, ActiveMembers, GroupInv
  <2>4. Secrets' /\ GroupTypes' /\ PostedOK' /\ AcceptedOK'
    BY <2>1, <2>3 DEF GroupInv, Secrets, GroupTypes, Groups, PostedOK, AcceptedOK, Number
  <2> QED BY <2>3, <2>4 DEF GroupInv
<1>2. ASSUME NEW p \in posted, NEW q \in Altered(p), NEW class \in Classes,
             UnprotectGroupMessage(q, class) \/ VerifyGroupMessage(q, class)
      PROVE  GroupInv'
  BY <1>2, OpensKeeps DEF UnprotectGroupMessage, VerifyGroupMessage
<1>3. ASSUME NEW e \in Endpoints, NEW send \in Sends, Protect(e, send[1], send[2], send[3])
      PROVE  GroupInv'
  <2>1. send[1] \in Modes /\ send[2] \in Classes \cup {"unknown"} /\ send[3] \in Nat \ {0}
    BY SendsAssumption
  <2> QED BY <1>3, <2>1, ProtectKeeps
<1> QED
  BY <1>1, <1>2, <1>3, CreateKeeps, AddKeeps, RemoveKeeps, RoleKeeps, RekeyKeeps, CloseKeeps
     DEF GroupNext

\* Members, secrets, messages and replay windows stay in step, whatever arrives
\* (group_security.cpp).
THEOREM GroupInvariant == GroupSpec => []GroupInv
<1> QED BY GroupInitInv, GroupStep, PTL DEF GroupSpec

\* The entries of an endpoint that joined once are one entry.
LEMMA JoinedOnce ==
  ASSUME GroupTypes, NEW e \in Endpoints, Joined(e) = 1, NEW n \in ActiveEntries(e)
  PROVE  FirstEntry(e) = n
<1> DEFINE J == {k \in DOMAIN group.members : group.members[k].endpoint = e}
<1>1. Len(group.members) \in Nat /\ DOMAIN group.members = 1..Len(group.members)
  BY GroupFields
<1>2. IsFiniteSet(J)
  <2>1. IsFiniteSet(1..Len(group.members)) /\ J \in SUBSET (1..Len(group.members))
    BY <1>1, FS_Interval
  <2> QED BY <2>1, FS_Subset
<1>3. PICK x : J = {x}
  BY <1>2, FS_Singleton DEF Joined
<1>4. n \in J
  BY DEF ActiveEntries
<1>5. J = {n}
  BY <1>3, <1>4
<1> DEFINE First(k) == /\ k \in DOMAIN group.members /\ group.members[k].endpoint = e
                       /\ \A i \in 1..(k - 1) : group.members[i].endpoint # e
<1>6. \A k : First(k) => k = n
  BY <1>5
<1>7. First(n)
  <2>1. ASSUME NEW i \in 1..(n - 1), group.members[i].endpoint = e PROVE FALSE
    <3>1. i \in DOMAIN group.members /\ i # n
      BY <1>1, <1>4
    <3>2. i \in J
      BY <2>1, <3>1
    <3> QED BY <1>5, <3>1, <3>2
  <2> QED BY <1>4, <2>1
<1>8. FirstEntry(e) = CHOOSE k \in DOMAIN group.members :
        /\ group.members[k].endpoint = e
        /\ \A i \in 1..(k - 1) : group.members[i].endpoint # e
  BY DEF FirstEntry
<1> QED BY <1>6, <1>7, <1>8

\* For any endpoints, roles, numbers and window: what is accepted was protected by a member
\* of the present epoch and is as it was but for its mode, no number of a sender twice in an
\* epoch; and what a member that never left protects opens until its number, or one the
\* window's width ahead of it, was opened (unprotect, verify_group_message, remove_member,
\* sliding_replay_window).
THEOREM GroupIsHeard == GroupSpec => []MembersAreHeard
<1>1. ASSUME GroupInv PROVE SecretsOfMembers
  <2> USE <1>1 DEF GroupInv
  <2>1. ASSUME NEW e \in Endpoints PROVE Cardinality(ActiveEntries(e)) <= 1
    <3>1. CASE ActiveEntries(e) = {}
      BY <3>1, FS_EmptySet
    <3>2. CASE ActiveEntries(e) # {}
      <4>1. PICK x : ActiveEntries(e) = {x}
        BY <3>2 DEF Unique
      <4> QED BY <4>1, FS_Singleton, SMTT(30)
    <3> QED BY <3>1, <3>2
  <2> QED BY <2>1, GroupFields DEF Secrets, SecretsOfMembers
<1>2. ASSUME GroupInv PROVE AcceptedFromMember
  <2> USE <1>2 DEF GroupInv
  <2>1. ASSUME NEW a \in accepted
        PROVE  \E p \in posted :
                 /\ [a.msg EXCEPT !.mode = p.msg.mode] = p.msg
                 /\ a.read = Plain <=> (Veils(a.msg.mode) <=> Veils(p.msg.mode))
    <3>1. PICK p \in posted : SameButMode(a.msg, p.msg)
      BY DEF AcceptedOK
    <3>2. /\ p.msg \in Messages /\ a.msg.body = p.msg.body
          /\ Veil(p.msg.mode, p.msg.body) = Plain
      BY <3>1 DEF PostedOK, SameButMode, Messages
    <3>3. p.msg.body = Body(p.msg.body.text, p.msg.body.veiled) /\ p.msg.body.veiled \in BOOLEAN
      BY <3>2 DEF Messages, Body
    <3>4. a.read = Veil(a.msg.mode, p.msg.body)
      BY <3>2 DEF AcceptedOK
    <3>5. Veil(a.msg.mode, p.msg.body) = Veil(p.msg.mode, p.msg.body)
            <=> (Veils(a.msg.mode) <=> Veils(p.msg.mode))
      BY <3>3 DEF Veil, Plain, Body
    <3> QED BY <3>1, <3>2, <3>4, <3>5 DEF SameButMode
  <2> QED BY <2>1 DEF AcceptedOK, AcceptedFromMember
<1>3. ASSUME GroupInv PROVE FirstMembersAreHeard
  <2> USE <1>3 DEF GroupInv
  <2> SUFFICES ASSUME NEW p \in posted, p.msg.epoch = group.epoch,
                      IsMemberActive(p.msg.sender), Joined(p.msg.sender) = 1
               PROVE  Unprotect(p.msg, p.tag, p.msg.class) =
                        IF \E n \in Heard(p.msg) : n = p.msg.seq \/ n >= p.msg.seq + GroupWindow
                        THEN "replay_rejected" ELSE "ok"
    BY DEF FirstMembersAreHeard
  <2>1. p.msg \in Messages /\ p.msg.sender \in Endpoints /\ group.epoch \in Nat
    BY DEF PostedOK, Messages, GroupTypes, Groups
  <2>2. PICK n : n \in ActiveEntries(p.msg.sender)
    BY DEF IsMemberActive
  <2>3. FirstEntry(p.msg.sender) = n
    BY <2>1, <2>2, JoinedOnce
  <2>4. /\ n \in DOMAIN group.members /\ group.members[n].endpoint = p.msg.sender
        /\ group.members[n].status = "active" /\ group.st = "active"
    BY <2>2 DEF ActiveEntries, IsMemberActive
  <2>5. p.msg.sender \in DOMAIN group.leafs
    BY <2>1, <2>2, <2>4 DEF Secrets, ActiveMembers
  <2>6. p.tag = TagOf(group.leafs[p.msg.sender], p.msg, p.msg.class)
    BY <2>5 DEF PostedOK
  <2>7. InWindow(p.msg) <=>
          ~ \E k \in Heard(p.msg) : k = p.msg.seq \/ k >= p.msg.seq + GroupWindow
    <3> DEFINE At(k) == [epoch |-> p.msg.epoch, sender |-> p.msg.sender, seq |-> k]
    <3>1. p.msg.seq \in Nat \ {0}
      BY DEF PostedOK, Messages
    <3>2. \A k \in Nat : k \in Heard(p.msg) <=> At(k) \in opened
      <4>1. \A a \in accepted : a.msg \in Messages /\ Number(a.msg) \in opened
        BY DEF AcceptedOK
      <4>2. \A k \in Nat : k \in Heard(p.msg) => At(k) \in opened
        BY <4>1 DEF Heard, Number
      <4>3. ASSUME NEW k \in Nat, At(k) \in opened
            PROVE  k \in Heard(p.msg)
        <5>1. PICK a \in accepted : At(k) = Number(a.msg)
          BY <4>3 DEF AcceptedOK
        <5> QED BY <5>1 DEF Heard, Number
      <4> QED BY <4>2, <4>3
    <3>3. /\ \A k \in opened : k = [epoch |-> k.epoch, sender |-> k.sender, seq |-> k.seq] /\ k.seq \in Nat
          /\ \A k \in Heard(p.msg) : k \in Nat
      <4>1. \A a \in accepted : a.msg \in Messages /\ a.msg.seq \in Nat
        BY DEF AcceptedOK, Messages
      <4>2. \A k \in opened : \E a \in accepted : k = Number(a.msg)
        BY DEF AcceptedOK
      <4> QED BY <4>1, <4>2 DEF Number, Heard
    <3>4. InWindow(p.msg) <=>
            \A k \in Nat : At(k) \in opened
               => k # p.msg.seq /\ k - p.msg.seq < GroupWindow
      <4>1. \A k \in opened : k.epoch = p.msg.epoch /\ k.sender = p.msg.sender =>
              k = At(k.seq) /\ k.seq \in Nat
        BY <3>3
      <4> QED BY <3>1, <4>1 DEF InWindow, Number
    <3>5. \A k \in Nat : ~(k # p.msg.seq /\ k - p.msg.seq < GroupWindow)
                          <=> k = p.msg.seq \/ k >= p.msg.seq + GroupWindow
      BY <3>1, WindowAssumption
    <3>6. InWindow(p.msg) <=>
            \A k \in Heard(p.msg) : ~(k = p.msg.seq \/ k >= p.msg.seq + GroupWindow)
      <4> HIDE DEF At
      <4> QED BY ONLY <3>2, <3>3, <3>4, <3>5
    <3> QED BY ONLY <3>6
  <2>8. CASE InWindow(p.msg)
    BY <2>1, <2>3, <2>4, <2>5, <2>6, <2>7, <2>8, UnprotectOk
  <2>9. CASE ~InWindow(p.msg)
    BY <2>1, <2>3, <2>4, <2>5, <2>7, <2>9 DEF Unprotect
  <2> QED BY <2>8, <2>9
<1> QED BY <1>1, <1>2, <1>3, GroupInvariant, PTL DEF MembersAreHeard

(***************************************************************************)
(* Authorization: which policies are kept                                  *)
(***************************************************************************)

\* Every policy is kept under its own domain and name (add_subject_policy,
\* add_role_policy).
Filed(f, g) ==
  /\ \A k \in DOMAIN f : f[k] \in SubjectPolicies /\ k = <<f[k].domain, f[k].subject>>
  /\ \A k \in DOMAIN g : g[k] \in RolePolicies /\ k = <<g[k].domain, g[k].role>>

PoliciesFiled ==
  /\ policies = [subjects |-> policies.subjects, roles |-> policies.roles]
  /\ Filed(policies.subjects, policies.roles)

LEMMA AuthStep == PoliciesFiled /\ [AuthNext]_policies => PoliciesFiled'
<1> SUFFICES ASSUME PoliciesFiled, [AuthNext]_policies PROVE PoliciesFiled'
  OBVIOUS
<1>0. PICK f, g : f = policies.subjects /\ g = policies.roles
  OBVIOUS
<1>1. policies = [subjects |-> f, roles |-> g] /\ Filed(f, g)
  BY <1>0 DEF PoliciesFiled
<1>2. ASSUME NEW f2, NEW g2, policies' = [subjects |-> f2, roles |-> g2], Filed(f2, g2)
      PROVE  PoliciesFiled'
  BY <1>2 DEF PoliciesFiled
<1>3. ASSUME NEW p \in SubjectPolicies, AddSubjectPolicy(p) PROVE PoliciesFiled'
  <2>1. PICK key, f2 : key = <<p.domain, p.subject>> /\ f2 = Keyed(f, key, p)
    OBVIOUS
  <2>2. policies' = [subjects |-> f2, roles |-> g]
    BY <1>0, <1>1, <1>3, <2>1 DEF AddSubjectPolicy
  <2>3. /\ DOMAIN f2 = DOMAIN f \cup {key} /\ f2[key] = p
        /\ \A k \in DOMAIN f : k # key => f2[k] = f[k]
    <3>1. f2 = [k \in DOMAIN f \cup {key} |-> IF k = key THEN p ELSE f[k]]
      BY <2>1, Zenon DEF Keyed
    <3> QED BY <3>1
  <2>4. Filed(f2, g)
    BY <1>1, <2>1, <2>3 DEF Filed
  <2> QED BY <1>2, <2>2, <2>4
<1>4. ASSUME NEW p \in RolePolicies, AddRolePolicy(p) PROVE PoliciesFiled'
  <2>1. PICK key, g2 : key = <<p.domain, p.role>> /\ g2 = Keyed(g, key, p)
    OBVIOUS
  <2>2. policies' = [subjects |-> f, roles |-> g2]
    BY <1>0, <1>1, <1>4, <2>1 DEF AddRolePolicy
  <2>3. /\ DOMAIN g2 = DOMAIN g \cup {key} /\ g2[key] = p
        /\ \A k \in DOMAIN g : k # key => g2[k] = g[k]
    <3>1. g2 = [k \in DOMAIN g \cup {key} |-> IF k = key THEN p ELSE g[k]]
      BY <2>1, Zenon DEF Keyed
    <3> QED BY <3>1
  <2>4. Filed(f, g2)
    BY <1>1, <2>1, <2>3 DEF Filed
  <2> QED BY <1>2, <2>2, <2>4
<1>5. CASE ClearPolicies
  <2>1. PICK none : none = <<>> /\ DOMAIN none = {}
    OBVIOUS
  <2>2. policies' = [subjects |-> none, roles |-> none] /\ Filed(none, none)
    BY <1>5, <2>1 DEF ClearPolicies, Filed
  <2> QED BY <1>2, <2>2
<1>6. CASE UNCHANGED policies
  BY <1>1, <1>2, <1>6
<1> QED BY <1>3, <1>4, <1>5, <1>6 DEF AuthNext

LEMMA PoliciesStayFiled == AuthSpec => []PoliciesFiled
<1>1. AuthInit => PoliciesFiled
  <2>1. PICK none : none = <<>> /\ DOMAIN none = {}
    OBVIOUS
  <2> QED BY <2>1 DEF AuthInit, PoliciesFiled, Filed
<1> QED BY <1>1, AuthStep, PTL DEF AuthSpec

(***************************************************************************)
(* Authorization: the roles in their order                                 *)
(***************************************************************************)

NatLess == {p \in Nat \X Nat : p[1] < p[2]}

LEMMA LeastNat ==
  ASSUME NEW T \in SUBSET Nat, T # {}
  PROVE  \E n \in T : \A m \in T : n <= m
<1>1. IsWellFoundedOn(NatLess, Nat)
  BY NatLessThanWellFounded DEF NatLess, OpToRel
<1>2. \E n \in T : \A m \in T : ~(<<m, n>> \in NatLess)
  BY <1>1, WFMin
<1>3. \A m \in T, n \in T : <<m, n>> \in NatLess <=> m < n
  BY DEF NatLess
<1>4. PICK n \in T : \A m \in T : ~(<<m, n>> \in NatLess)
  BY <1>2
<1>5. \A m \in T : n <= m
  <2> TAKE m \in T
  <2>1. ~(m < n)
    BY <1>3, <1>4
  <2> QED BY <2>1
<1> QED BY <1>5

\* Induction, with the set of the numbers that have a property for the property.
LEMMA EveryNat ==
  ASSUME NEW P \in SUBSET Nat, 0 \in P, \A n \in P : n + 1 \in P
  PROVE  P = Nat
<1> SUFFICES ASSUME Nat \ P # {} PROVE FALSE
  OBVIOUS
<1>1. PICK n \in Nat \ P : \A m \in Nat \ P : n <= m
  BY LeastNat
<1>2. n # 0 /\ n - 1 \in Nat
  BY <1>1
<1>3. n - 1 \in P
  BY <1>1, <1>2
<1>4. (n - 1) + 1 \in P /\ (n - 1) + 1 = n
  BY <1>2, <1>3
<1> QED BY <1>4, <1>1

LEMMA MaxFacts ==
  ASSUME NEW n \in Nat, NEW T \in SUBSET (1..n), T # {}
  PROVE  Max(T) \in T
<1>1. PICK U : U = {n - x : x \in T}
  OBVIOUS
<1>1a. U \in SUBSET Nat
  BY <1>1
<1>2. U # {}
  BY <1>1
<1>3. PICK u \in U : \A m \in U : u <= m
  BY <1>1a, <1>2, LeastNat
<1>4. PICK x \in T : u = n - x
  BY <1>1, <1>3
<1>5. \A y \in T : x >= y
  <2> TAKE y \in T
  <2>1. n - y \in U /\ x \in 1..n /\ y \in 1..n
    BY <1>1
  <2> QED BY <1>3, <1>4, <2>1
<1> QED BY <1>5 DEF Max

\* What is left of authorize() when the roles are listed: `so[k]' is what the subject's
\* policy and those of the first k roles give together.
InTurn(req, so) ==
  /\ so[0] = FromSubject(req)
  /\ \A k \in 1..Len(req.roles) : so[k] = WithRole(req, so[k - 1], req.roles[k])

LEMMA RolesInTurn ==
  ASSUME NEW req \in Requests
  PROVE  \E so : InTurn(req, so) /\ Effective(req) = so[Len(req.roles)]
<1>1. PICK n, q, S, base :
        n \in Nat /\ q = req.roles /\ n = Len(q) /\ S = 1..n /\ DOMAIN q = S
        /\ base = FromSubject(req)
  BY PolicyAssumption
<1>2. IsFiniteSet(S)
  BY <1>1, FS_Interval
<1>3. \A T \in SUBSET S : IsFiniteSet(T) /\ Cardinality(T) \in Nat
  BY <1>2, FS_Subset, FS_CardinalityType
<1> DEFINE Small(m) == {T \in SUBSET S : Cardinality(T) <= m}
           Value(it, T) == IF T = {} THEN base
                           ELSE WithRole(req, it[T \ {Max(T)}], q[Max(T)])
           Has(m) == \E it : it = [T \in Small(m) |-> Value(it, T)]
<1>4. PICK P \in SUBSET Nat : P = {m \in Nat : Has(m)}
  OBVIOUS
<1>5. 0 \in P
  <2>1. \A T \in Small(0) : T = {}
    BY <1>3, FS_EmptySet
  <2>2. PICK it : it = [T \in Small(0) |-> base]
    OBVIOUS
  <2>3. it = [T \in Small(0) |-> Value(it, T)]
    BY <2>1, <2>2
  <2>4. Has(0)
    BY <2>3
  <2> QED BY <1>4, <2>4
<1>6. ASSUME NEW m \in P PROVE m + 1 \in P
  <2>1. m \in Nat /\ Has(m)
    BY <1>4
  <2>2. PICK it : it = [T \in Small(m) |-> Value(it, T)]
    BY <2>1
  <2>3. PICK u : u = [T \in Small(m + 1) |-> Value(it, T)]
    OBVIOUS
  <2>4. \A T \in Small(m + 1) : T # {} => T \ {Max(T)} \in Small(m)
    <3> SUFFICES ASSUME NEW T \in Small(m + 1), T # {} PROVE T \ {Max(T)} \in Small(m)
      OBVIOUS
    <3>1. Max(T) \in T
      BY <1>1, MaxFacts
    <3>2. Cardinality(T \ {Max(T)}) = Cardinality(T) - 1
      BY <1>3, <3>1, FS_RemoveElement
    <3> QED BY <1>3, <2>1, <3>1, <3>2
  <2>5. Small(m) \subseteq Small(m + 1)
    BY <1>3, <2>1
  <2>6. \A T \in Small(m) : u[T] = it[T]
    BY <2>2, <2>3, <2>5
  <2>7. \A T \in Small(m + 1) : Value(it, T) = Value(u, T)
    BY <2>4, <2>6
  <2>8. u = [T \in Small(m + 1) |-> Value(u, T)]
    BY <2>3, <2>7
  <2>9. Has(m + 1)
    BY <2>8, Zenon
  <2>10. m + 1 \in Nat
    BY <2>1
  <2> HIDE DEF Has
  <2> QED BY <1>4, <2>9, <2>10
<1>7. P = Nat
  BY <1>5, <1>6, EveryNat
<1>8. PICK m \in Nat : m = Cardinality(S) /\ Has(m)
  BY <1>2, <1>4, <1>7, FS_CardinalityType
<1>9. Small(m) = SUBSET S
  BY <1>2, <1>8, FS_Subset
<1> DEFINE Sums(it) ==
      it = [T \in SUBSET DOMAIN q |->
              IF T = {} THEN base ELSE WithRole(req, it[T \ {Max(T)}], q[Max(T)])]
<1>10. \E it : Sums(it)
  <2>1. PICK it : it = [T \in Small(m) |-> Value(it, T)]
    BY <1>8
  <2>2. DOMAIN q = S
    BY <1>1
  <2>3. Sums(it)
    BY <1>9, <2>1, <2>2
  <2> QED BY <2>3
<1>11. PICK it : it = CHOOSE g : Sums(g)
  OBVIOUS
<1>12. Sums(it)
  BY <1>10, <1>11
<1>13. Effective(req) = it[DOMAIN q]
  BY <1>1, <1>11, Zenon DEF Effective, FoldLeft, MapThenFoldSet
<1>14. PICK so : so = [k \in 0..n |-> it[1..k]]
  OBVIOUS
<1>15. so[0] = base
  <2>1. 1..0 = {} /\ 0 \in 0..n
    BY <1>1
  <2>2. it[{}] = base
    BY <1>12
  <2> QED BY <1>14, <2>1, <2>2
<1>16. ASSUME NEW k \in 1..n PROVE so[k] = WithRole(req, so[k - 1], q[k])
  <2>1. /\ k \in Nat /\ k - 1 \in 0..n /\ k \in 0..n
        /\ 1..k \in SUBSET DOMAIN q /\ 1..k # {}
    <3>1. k \in 1..k /\ 1..k \subseteq 1..n /\ DOMAIN q = 1..n
      BY <1>1
    <3>2. k \in Nat /\ k - 1 \in 0..n /\ k \in 0..n
      BY <1>1
    <3>3. 1..k \in SUBSET DOMAIN q /\ 1..k # {}
      BY <3>1
    <3> QED BY <3>2, <3>3
  <2>2. Max(1..k) = k
    <3>1. \A x \in 1..k : (\A y \in 1..k : x >= y) <=> x = k
      BY <2>1
    <3> QED BY <2>1, <3>1 DEF Max
  <2>3. (1..k) \ {k} = 1..(k - 1)
    BY <2>1
  <2>4. it[1..k] = WithRole(req, it[1..(k - 1)], q[k])
    BY <1>12, <2>1, <2>2, <2>3
  <2> QED BY <1>14, <2>1, <2>4
<1>17. so[n] = it[DOMAIN q]
  BY <1>1, <1>14
<1> QED BY <1>1, <1>13, <1>15, <1>16, <1>17 DEF InTurn

(***************************************************************************)
(* Authorization: no role lifts a limit                                    *)
(***************************************************************************)

IsPolicy(p) ==
  /\ p.tokens \in Nat /\ p.temperature \in Int
  /\ p.noStreaming \in BOOLEAN /\ p.noReasoning \in BOOLEAN

\* What policies give together: limits are numbers, and 0 is none.
Constrained(acc) ==
  /\ acc.tokens \in Nat /\ acc.temperature \in Nat
  /\ acc.noStreaming \in BOOLEAN /\ acc.noReasoning \in BOOLEAN

Bounds(acc, p) ==
  /\ p.tokens > 0 => acc.tokens > 0 /\ acc.tokens <= p.tokens
  /\ p.temperature > 0 => acc.temperature > 0 /\ acc.temperature <= p.temperature
  /\ p.noStreaming => acc.noStreaming
  /\ p.noReasoning => acc.noReasoning

AllCaps(req) == UNION {p.caps : p \in Applying(req)}
AllResources(req) == UNION {p.resources : p \in Applying(req)}

LEMMA TighterFacts ==
  ASSUME NEW a \in Nat, NEW b \in Int
  PROVE  /\ Tighter(a, b) \in Nat
         /\ b > 0 => Tighter(a, b) > 0 /\ Tighter(a, b) <= b
         /\ a > 0 => Tighter(a, b) > 0 /\ Tighter(a, b) <= a
BY DEF Tighter

LEMMA CombinedFacts ==
  ASSUME NEW acc, Constrained(acc), NEW p, IsPolicy(p)
  PROVE  /\ Constrained(Combined(acc, p)) /\ Bounds(Combined(acc, p), p)
         /\ \A o : IsPolicy(o) /\ Bounds(acc, o) => Bounds(Combined(acc, p), o)
<1>1. PICK c, m, t :
        c = Combined(acc, p) /\ m = Tighter(acc.tokens, p.tokens)
        /\ t = Tighter(acc.temperature, p.temperature)
  OBVIOUS
<1>2. /\ c.tokens = m /\ c.temperature = t
      /\ c.noStreaming = (acc.noStreaming \/ p.noStreaming)
      /\ c.noReasoning = (acc.noReasoning \/ p.noReasoning)
  BY <1>1 DEF Combined
<1>3. /\ acc.tokens \in Nat /\ acc.temperature \in Nat /\ p.tokens \in Nat
      /\ p.temperature \in Int
  BY DEF Constrained, IsPolicy
<1>4. /\ m \in Nat /\ (p.tokens > 0 => m > 0 /\ m <= p.tokens)
      /\ (acc.tokens > 0 => m > 0 /\ m <= acc.tokens)
  <2>1. PICK a \in Nat, b \in Int : a = acc.tokens /\ b = p.tokens /\ m = Tighter(a, b)
    BY <1>1, <1>3
  <2> QED BY <1>3, <2>1, TighterFacts
<1>5. /\ t \in Nat /\ (p.temperature > 0 => t > 0 /\ t <= p.temperature)
      /\ (acc.temperature > 0 => t > 0 /\ t <= acc.temperature)
  <2>1. PICK a \in Nat, b \in Int :
          a = acc.temperature /\ b = p.temperature /\ t = Tighter(a, b)
    BY <1>1, <1>3
  <2> QED BY <1>3, <2>1, TighterFacts
<1>6. Constrained(c)
  BY <1>2, <1>4, <1>5 DEF Constrained
<1>7. Bounds(c, p)
  BY <1>2, <1>4, <1>5 DEF Bounds
<1>8. ASSUME NEW o, IsPolicy(o), Bounds(acc, o) PROVE Bounds(c, o)
  BY <1>2, <1>3, <1>4, <1>5, <1>8 DEF Bounds, IsPolicy
<1> QED BY <1>1, <1>6, <1>7, <1>8

LEMMA ApplyingFacts ==
  ASSUME PoliciesFiled, NEW req \in Requests
  PROVE  /\ \A p \in Applying(req) : IsPolicy(p)
         /\ <<req.domain, req.subject>> \in DOMAIN policies.subjects =>
              policies.subjects[<<req.domain, req.subject>>] \in Applying(req) \cap SubjectPolicies
         /\ \A n \in 1..Len(req.roles) :
              <<req.domain, req.roles[n]>> \in DOMAIN policies.roles =>
                policies.roles[<<req.domain, req.roles[n]>>] \in Applying(req)
         /\ \A p \in Applying(req) :
              \/ /\ <<req.domain, req.subject>> \in DOMAIN policies.subjects
                 /\ p = policies.subjects[<<req.domain, req.subject>>]
              \/ \E n \in 1..Len(req.roles) :
                   /\ <<req.domain, req.roles[n]>> \in DOMAIN policies.roles
                   /\ p = policies.roles[<<req.domain, req.roles[n]>>]
<1>1. PICK f, g, a, q, d, u :
        f = policies.subjects /\ g = policies.roles /\ a = Applying(req) /\ q = req.roles
        /\ d = req.domain /\ u = req.subject
  OBVIOUS
<1>2. Filed(f, g) /\ DOMAIN q = 1..Len(q)
  BY <1>1, PolicyAssumption DEF PoliciesFiled
<1>3. \A p : p \in a <=>
        \/ (\E k \in DOMAIN f : p = f[k]) /\ p.domain = d /\ p.subject = u
        \/ (\E k \in DOMAIN g : p = g[k]) /\ p.domain = d /\ \E n \in DOMAIN q : q[n] = p.role
  BY <1>1 DEF Applying
<1>4. \A p \in a : IsPolicy(p)
  <2> TAKE p \in a
  <2>1. p \in SubjectPolicies \cup RolePolicies
    BY <1>2, <1>3 DEF Filed
  <2> QED BY <2>1, PolicyAssumption DEF IsPolicy
<1>5. ASSUME <<d, u>> \in DOMAIN f PROVE f[<<d, u>>] \in a /\ f[<<d, u>>] \in SubjectPolicies
  <2>1. PICK p : p = f[<<d, u>>] /\ p \in SubjectPolicies /\ <<d, u>> = <<p.domain, p.subject>>
    BY <1>2, <1>5 DEF Filed
  <2>2. p.domain = d /\ p.subject = u
    BY <2>1
  <2> QED BY <1>3, <1>5, <2>1, <2>2
<1>6. ASSUME NEW n \in DOMAIN q, <<d, q[n]>> \in DOMAIN g PROVE g[<<d, q[n]>>] \in a
  <2>1. PICK p : p = g[<<d, q[n]>>] /\ <<d, q[n]>> = <<p.domain, p.role>>
    BY <1>2, <1>6 DEF Filed
  <2>2. p.domain = d /\ p.role = q[n]
    BY <2>1
  <2> QED BY <1>3, <1>6, <2>1, <2>2
<1>7. ASSUME NEW p \in a
      PROVE  \/ <<d, u>> \in DOMAIN f /\ p = f[<<d, u>>]
             \/ \E n \in DOMAIN q : <<d, q[n]>> \in DOMAIN g /\ p = g[<<d, q[n]>>]
  <2>1. CASE (\E k \in DOMAIN f : p = f[k]) /\ p.domain = d /\ p.subject = u
    <3>1. PICK k \in DOMAIN f : p = f[k]
      BY <2>1
    <3>2. k = <<p.domain, p.subject>>
      BY <1>2, <3>1 DEF Filed
    <3>3. k = <<d, u>>
      BY <2>1, <3>2
    <3> QED BY <3>1, <3>3
  <2>2. CASE (\E k \in DOMAIN g : p = g[k]) /\ p.domain = d /\ \E n \in DOMAIN q : q[n] = p.role
    <3>1. PICK k \in DOMAIN g, n \in DOMAIN q : p = g[k] /\ q[n] = p.role
      BY <2>2
    <3>2. k = <<p.domain, p.role>>
      BY <1>2, <3>1 DEF Filed
    <3>3. k = <<d, q[n]>>
      BY <2>2, <3>1, <3>2
    <3> QED BY <3>1, <3>3
  <2> QED BY <1>3, <2>1, <2>2
<1>8. \A p \in Applying(req) : IsPolicy(p)
  BY <1>1, <1>4, Zenon
<1>9. <<req.domain, req.subject>> \in DOMAIN policies.subjects =>
        policies.subjects[<<req.domain, req.subject>>] \in Applying(req) \cap SubjectPolicies
  BY <1>1, <1>5, Zenon
<1>10. \A n \in 1..Len(req.roles) :
         <<req.domain, req.roles[n]>> \in DOMAIN policies.roles =>
           policies.roles[<<req.domain, req.roles[n]>>] \in Applying(req)
  BY <1>1, <1>2, <1>6, Zenon
<1>11. \A p \in Applying(req) :
         \/ /\ <<req.domain, req.subject>> \in DOMAIN policies.subjects
            /\ p = policies.subjects[<<req.domain, req.subject>>]
         \/ \E n \in 1..Len(req.roles) :
              /\ <<req.domain, req.roles[n]>> \in DOMAIN policies.roles
              /\ p = policies.roles[<<req.domain, req.roles[n]>>]
  <2> SUFFICES ASSUME NEW p \in a
               PROVE  \/ <<d, u>> \in DOMAIN f /\ p = f[<<d, u>>]
                      \/ \E n \in 1..Len(q) : <<d, q[n]>> \in DOMAIN g /\ p = g[<<d, q[n]>>]
    BY <1>1, ZenonT(30)
  <2> QED BY <1>2, <1>7, Zenon
<1> QED BY <1>8, <1>9, <1>10, <1>11, Zenon

\* The subject's policy and those of the first k roles bind `acc', and nothing is
\* granted that no policy grants.
Within(req, acc, k) ==
  /\ Constrained(acc)
  /\ acc.caps \subseteq AllCaps(req) /\ acc.resources \subseteq AllResources(req)
  /\ <<req.domain, req.subject>> \in DOMAIN policies.subjects =>
       Bounds(acc, policies.subjects[<<req.domain, req.subject>>])
  /\ \A n \in 1..k : <<req.domain, req.roles[n]>> \in DOMAIN policies.roles =>
       Bounds(acc, policies.roles[<<req.domain, req.roles[n]>>])

LEMMA SubjectWithin ==
  ASSUME PoliciesFiled, NEW req \in Requests
  PROVE  Within(req, FromSubject(req), 0)
<1>1. PICK key, acc : key = <<req.domain, req.subject>> /\ acc = FromSubject(req)
  OBVIOUS
<1>2. CASE key \notin DOMAIN policies.subjects
  <2>1. acc = NoPolicies
    BY <1>1, <1>2 DEF FromSubject
  <2>2. Constrained(acc) /\ acc.caps = {} /\ acc.resources = {}
    BY <2>1 DEF Constrained, NoPolicies
  <2> QED BY <1>1, <1>2, <2>2 DEF Within
<1>3. CASE key \in DOMAIN policies.subjects
  <2>1. PICK p : p = policies.subjects[key] /\ p \in Applying(req) /\ p \in SubjectPolicies
    BY <1>1, <1>3, ApplyingFacts
  <2>2. /\ acc.caps = p.caps /\ acc.resources = p.resources /\ acc.tokens = p.tokens
        /\ acc.temperature = p.temperature /\ acc.noStreaming = p.noStreaming
        /\ acc.noReasoning = p.noReasoning
    BY <1>1, <1>3, <2>1 DEF FromSubject
  <2>3. IsPolicy(p) /\ p.temperature >= 0
    BY <2>1, PolicyAssumption DEF IsPolicy
  <2>4. Constrained(acc) /\ Bounds(acc, p)
    BY <2>2, <2>3 DEF Constrained, Bounds, IsPolicy
  <2>5. acc.caps \subseteq AllCaps(req) /\ acc.resources \subseteq AllResources(req)
    BY <2>1, <2>2 DEF AllCaps, AllResources
  <2> QED BY <1>1, <2>1, <2>4, <2>5 DEF Within
<1> QED BY <1>2, <1>3

LEMMA RoleWithin ==
  ASSUME PoliciesFiled, NEW req \in Requests, NEW k \in 1..Len(req.roles), NEW acc,
         Within(req, acc, k - 1)
  PROVE  Within(req, WithRole(req, acc, req.roles[k]), k)
<1>1. PICK key, next :
        key = <<req.domain, req.roles[k]>> /\ next = WithRole(req, acc, req.roles[k])
  OBVIOUS
<1>2. \A n \in 1..k : n \in 1..(k - 1) \/ n = k
  OBVIOUS
<1>3. CASE key \notin DOMAIN policies.roles
  <2>1. next = acc
    BY <1>1, <1>3 DEF WithRole
  <2> QED BY <1>1, <1>2, <1>3, <2>1 DEF Within
<1>4. CASE key \in DOMAIN policies.roles
  <2>1. PICK p : p = policies.roles[key] /\ p \in Applying(req) /\ IsPolicy(p)
    BY <1>1, <1>4, ApplyingFacts
  <2>2. next = Combined(acc, p)
    BY <1>1, <1>4, <2>1 DEF WithRole
  <2>3. Constrained(acc)
    BY DEF Within
  <2>4. /\ Constrained(next) /\ Bounds(next, p)
        /\ \A o : IsPolicy(o) /\ Bounds(acc, o) => Bounds(next, o)
    BY <2>1, <2>2, <2>3, CombinedFacts
  <2>5. next.caps = acc.caps \cup p.caps /\ next.resources = acc.resources \cup p.resources
    BY <2>2 DEF Combined
  <2>6. p.caps \subseteq AllCaps(req) /\ p.resources \subseteq AllResources(req)
    BY <2>1 DEF AllCaps, AllResources
  <2>7. next.caps \subseteq AllCaps(req) /\ next.resources \subseteq AllResources(req)
    BY <2>5, <2>6 DEF Within
  <2>8. ASSUME <<req.domain, req.subject>> \in DOMAIN policies.subjects
        PROVE  Bounds(next, policies.subjects[<<req.domain, req.subject>>])
    <3>1. PICK o : o = policies.subjects[<<req.domain, req.subject>>] /\ IsPolicy(o)
      BY <2>8, ApplyingFacts
    <3>2. Bounds(acc, o)
      BY <2>8, <3>1 DEF Within
    <3> QED BY <2>4, <3>1, <3>2
  <2>9. ASSUME NEW n \in 1..k, <<req.domain, req.roles[n]>> \in DOMAIN policies.roles
        PROVE  Bounds(next, policies.roles[<<req.domain, req.roles[n]>>])
    <3>1. CASE n = k
      BY <1>1, <2>1, <2>4, <3>1
    <3>2. CASE n \in 1..(k - 1)
      <4>1. n \in 1..Len(req.roles)
        BY <3>2, PolicyAssumption
      <4>2. PICK o : o = policies.roles[<<req.domain, req.roles[n]>>] /\ IsPolicy(o)
        BY <2>9, <4>1, ApplyingFacts
      <4>3. Bounds(acc, o)
        BY <2>9, <3>2, <4>2 DEF Within
      <4> QED BY <2>4, <4>2, <4>3
    <3> QED BY <1>2, <3>1, <3>2
  <2> QED BY <1>1, <2>4, <2>7, <2>8, <2>9 DEF Within
<1> QED BY <1>3, <1>4

LEMMA EffectiveWithin ==
  ASSUME PoliciesFiled, NEW req \in Requests
  PROVE  Within(req, Effective(req), Len(req.roles))
<1>1. PICK so : InTurn(req, so) /\ Effective(req) = so[Len(req.roles)]
  BY RolesInTurn
<1>2. PICK n \in Nat : n = Len(req.roles)
  BY PolicyAssumption
<1> DEFINE Fine(k) == k <= n => Within(req, so[k], k)
<1>3. PICK P \in SUBSET Nat : P = {k \in Nat : Fine(k)}
  OBVIOUS
<1>4. 0 \in P
  BY <1>1, <1>3, SubjectWithin DEF InTurn
<1>5. ASSUME NEW k \in P PROVE k + 1 \in P
  <2>1. k \in Nat /\ Fine(k)
    BY <1>3
  <2>2. ASSUME k + 1 <= n PROVE Within(req, so[k + 1], k + 1)
    <3>1. PICK j \in 1..n : j = k + 1 /\ j - 1 = k
      BY <2>1, <2>2
    <3>2. Within(req, so[j - 1], j - 1)
      BY <2>1, <2>2, <3>1
    <3>3. so[j] = WithRole(req, so[j - 1], req.roles[j])
      BY <1>1, <1>2, <3>1 DEF InTurn
    <3>4. Within(req, so[j], j)
      BY <1>2, <3>2, <3>3, RoleWithin
    <3> QED BY <3>1, <3>4
  <2>3. k + 1 \in Nat
    BY <2>1
  <2> QED BY <1>3, <2>2, <2>3
<1>6. P = Nat
  BY <1>4, <1>5, EveryNat
<1>7. n \in P /\ n <= n
  BY <1>6
<1> QED BY <1>1, <1>2, <1>3, <1>7

LEMMA AllowedFacts ==
  ASSUME NEW req \in Requests, ValidateAgainstAdvertised(req) = "ok"
  PROVE  /\ RequiredCapabilities(req) \subseteq Effective(req).caps
         /\ \E r \in Effective(req).resources : ResourceMatches(r, req.resource)
         /\ ~(Effective(req).tokens > 0 /\ req.tokens > Effective(req).tokens)
         /\ ~(Effective(req).temperature > 0 /\ req.temperature > Effective(req).temperature)
         /\ ~(Effective(req).noStreaming /\ req.streaming)
         /\ ~(Effective(req).noReasoning /\ req.reasoning)
<1>1. Authorize(req) = "ok"
  BY DEF ValidateAgainstAdvertised
<1> QED BY <1>1 DEF Authorize

\* A request that is allowed keeps within every policy that applies to it, for any
\* policies in any order and any roles, and has all it needs from them (authorize,
\* validate_against_advertised_capabilities).
THEOREM NoRoleLifts == AuthSpec => []NoRoleLoosens
<1>1. ASSUME PoliciesFiled PROVE NoRoleLoosens
  <2> SUFFICES ASSUME NEW req \in Requests, ValidateAgainstAdvertised(req) = "ok"
               PROVE  /\ \A p \in Applying(req) :
                           /\ p.tokens = 0 \/ req.tokens <= p.tokens
                           /\ p.temperature <= 0 \/ req.temperature <= p.temperature
                           /\ ~(p.noStreaming /\ req.streaming)
                           /\ ~(p.noReasoning /\ req.reasoning)
                      /\ RequiredCapabilities(req) \subseteq AllCaps(req)
                      /\ \E p \in Applying(req) :
                           \E r \in p.resources : ResourceMatches(r, req.resource)
    BY DEF NoRoleLoosens, AllCaps
  <2>1. PICK e : e = Effective(req) /\ Within(req, e, Len(req.roles))
    BY <1>1, EffectiveWithin
  <2>2. /\ RequiredCapabilities(req) \subseteq e.caps
        /\ \E r \in e.resources : ResourceMatches(r, req.resource)
        /\ ~(e.tokens > 0 /\ req.tokens > e.tokens)
        /\ ~(e.temperature > 0 /\ req.temperature > e.temperature)
        /\ ~(e.noStreaming /\ req.streaming) /\ ~(e.noReasoning /\ req.reasoning)
    BY <2>1, AllowedFacts
  <2>3. ASSUME NEW p \in Applying(req) PROVE Bounds(e, p) /\ IsPolicy(p)
    BY <1>1, <2>1, <2>3, ApplyingFacts DEF Within
  <2>4. ASSUME NEW p \in Applying(req)
        PROVE  /\ p.tokens = 0 \/ req.tokens <= p.tokens
               /\ p.temperature <= 0 \/ req.temperature <= p.temperature
               /\ ~(p.noStreaming /\ req.streaming) /\ ~(p.noReasoning /\ req.reasoning)
    <3>1. Bounds(e, p) /\ IsPolicy(p) /\ Constrained(e)
      BY <2>1, <2>3, <2>4 DEF Within
    <3>2. req.tokens \in Nat /\ req.temperature \in Int
      BY PolicyAssumption
    <3>3. p.tokens = 0 \/ req.tokens <= p.tokens
      BY <2>2, <3>1, <3>2 DEF Bounds, IsPolicy, Constrained
    <3>4. p.temperature <= 0 \/ req.temperature <= p.temperature
      BY <2>2, <3>1, <3>2 DEF Bounds, IsPolicy, Constrained
    <3>5. ~(p.noStreaming /\ req.streaming) /\ ~(p.noReasoning /\ req.reasoning)
      BY <2>2, <3>1 DEF Bounds
    <3> QED BY <3>3, <3>4, <3>5
  <2>5. RequiredCapabilities(req) \subseteq AllCaps(req)
    BY <2>1, <2>2 DEF Within
  <2>6. \E p \in Applying(req) : \E r \in p.resources : ResourceMatches(r, req.resource)
    <3>1. PICK r \in e.resources : ResourceMatches(r, req.resource)
      BY <2>2
    <3>2. r \in AllResources(req)
      BY <2>1 DEF Within
    <3> QED BY <3>1, <3>2 DEF AllResources
  <2> QED BY <2>4, <2>5, <2>6
<1> QED BY <1>1, PoliciesStayFiled, PTL
=============================================================================
