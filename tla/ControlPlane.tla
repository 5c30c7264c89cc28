---------------------------- MODULE ControlPlane ----------------------------
(***************************************************************************)
(* The scheduler side of the LiNeP V0.2 UDP control plane:                 *)
(* control_plane_router (LiNeP/src/v0_2/control_plane.cpp).  Every public  *)
(* method runs under the router's mutex, so each is one action.  Inbound   *)
(* datagrams are arbitrary members of Datagram: replays, reordering, loss  *)
(* and traffic of older incarnations are all among the inputs.             *)
(*                                                                         *)
(* Abstractions.  Time is kept as the age of the last accepted datagram,   *)
(* the only thing the sweep looks at.  tcp_trunk_ready and tcp_port > 0    *)
(* are always tested together: `trunk' is their conjunction.  A capability *)
(* revision and digest are one value of Caps.  load_pct and queue_depth,   *)
(* read by select_best_candidate only, are left out.  Lease tokens are     *)
(* numbered in the order lease_issuer hands them out.                      *)
(***************************************************************************)
EXTENDS Naturals, Sequences

CONSTANTS
  Nodes,           \* identities (node_id, runtime_id, endpoint_id), node_id # 0
  Epochs,          \* control_epoch values datagrams carry
  Seqs,            \* control_seq values datagrams carry
  Caps,            \* capability (revision, digest) pairs
  Reports,         \* the (availability, health) pairs nodes report
  StaleTimeout,    \* sweep_stale_nodes: age beyond which a node cools down
  OfflineTimeout,  \* sweep_stale_nodes: age beyond which a node is offline
  MaxLeases,       \* bound on the leases issued
  MaxOutbound      \* bound on last_outbound_seq

Availability == {"unknown", "unavailable", "available", "degraded"}
Health       == {"unknown", "healthy", "degraded", "unhealthy"}
Report       == [avail : Availability, health : Health]
Lifecycle    == {"unknown", "seen", "invited", "active", "degraded",
                 "cooling", "offline"}

ASSUME BoundsAreNatural ==
  /\ Epochs \subseteq Nat
  /\ Seqs \subseteq Nat
  /\ StaleTimeout \in Nat /\ OfflineTimeout \in Nat
  /\ MaxLeases \in Nat /\ MaxOutbound \in Nat

ASSUME ReportsArePairs ==
  Reports # {} /\ Reports \subseteq Report

ASSUME NoCapIsACap == Caps # {}

VARIABLES
  nodes,   \* nodes_: identity -> state; state "unknown" means not in the map
  cache,   \* capability_cache_: identity -> set of at most one Caps value
  grants   \* history: the identity and epoch each lease token was issued for

vars == <<nodes, cache, grants>>

(***************************************************************************)
(* Datagrams.  A field the code never reads for a type is fixed.           *)
(***************************************************************************)
AnyCap == CHOOSE c \in Caps : TRUE

AnyReport == CHOOSE r \in Reports : TRUE

Datagram(types, tokens, reports, caps, trunks) ==
  [type : types, node : Nodes, epoch : Epochs, seq : Seqs, token : tokens,
   report : reports, cap : caps, trunk : trunks]

Inbound ==
       Datagram({"node_hello", "status"}, {0}, Reports, Caps, BOOLEAN)
  \cup Datagram({"heartbeat"}, {0}, Reports, {AnyCap}, {FALSE})
  \cup Datagram({"lease_ack"}, 0..MaxLeases, Reports, {AnyCap}, BOOLEAN)
  \cup Datagram({"pong", "invite", "ping"}, {0}, {AnyReport}, {AnyCap}, {FALSE})

NodeState ==
  [state : Lifecycle, epoch : Nat, inSeq : Nat, outSeq : Nat, token : Nat,
   report : Report, cap : Caps,
   trunk : BOOLEAN, age : Nat]

NoNode ==
  [state |-> "unknown", epoch |-> 0, inSeq |-> 0, outSeq |-> 0, token |-> 0,
   report |-> [avail |-> "unknown", health |-> "unknown"], cap |-> AnyCap,
   trunk |-> FALSE, age |-> 0]

Init ==
  /\ nodes  = [n \in Nodes |-> NoNode]
  /\ cache  = [n \in Nodes |-> {}]
  /\ grants = <<>>

(***************************************************************************)
(* What a datagram must satisfy before its type is looked at.              *)
(***************************************************************************)
Known(n) == nodes[n].state # "unknown"

NewIncarnation(d) == Known(d.node) /\ d.epoch > nodes[d.node].epoch

\* Mutant of InSequence: the last datagram is accepted again.
MutantReplayInSequence(d) ==
  /\ Known(d.node)
  /\ d.epoch = nodes[d.node].epoch
  /\ d.seq >= nodes[d.node].inSeq

\* Same epoch and a sequence number not seen yet; anything else is stale.
InSequence(d) ==
  /\ Known(d.node)
  /\ d.epoch = nodes[d.node].epoch
  /\ d.seq > nodes[d.node].inSeq

IsDegraded(r) == r.avail = "degraded" \/ r.health = "degraded"
IsDown(r)     == r.avail = "unavailable" \/ r.health = "unhealthy"

\* Lifecycle after a heartbeat or status report r, from state s.
StateAfterReport(s, r, token, trunk) ==
  CASE IsDown(r)                     -> "cooling"
    [] ~IsDown(r) /\ IsDegraded(r)   -> "degraded"
    [] ~IsDown(r) /\ ~IsDegraded(r) /\ token # 0 /\ trunk -> "active"
    [] OTHER                         -> s

\* Mutant of Reporting: reports count before a lease was acknowledged.
MutantReportingSeen(n) ==
  nodes[n].state \in {"seen", "active", "degraded", "cooling"}

Reporting(n) == nodes[n].state \in {"active", "degraded", "cooling"}

(***************************************************************************)
(* ingest_datagram, one action per accepted message type.                  *)
(***************************************************************************)
\* A first NODE_HELLO registers the identity as SEEN, never as ACTIVE.
Registered(d) ==
  [NoNode EXCEPT !.state = "seen", !.epoch = d.epoch, !.inSeq = d.seq,
                 !.report = d.report, !.cap = d.cap, !.trunk = d.trunk]

Register(d) ==
  /\ d.type = "node_hello"
  /\ ~Known(d.node)
  /\ nodes' = [nodes EXCEPT ![d.node] = Registered(d)]
  /\ UNCHANGED <<cache, grants>>

\* Mutant of AfterHello: a restarted node goes on in the state it was in.
MutantHelloKeepsState(s, d) ==
  [s EXCEPT !.state = IF d.epoch > s.epoch THEN s.state ELSE "seen",
            !.epoch = d.epoch,
            !.token = IF d.epoch > s.epoch THEN 0 ELSE s.token,
            !.report = d.report, !.cap = d.cap, !.trunk = d.trunk,
            !.inSeq = d.seq, !.age = 0]

\* A higher epoch starts without a lease; within an epoch the token of a node
\* that was cooling stays in its record.
AfterHello(s, d) ==
  [s EXCEPT !.state = "seen", !.epoch = d.epoch,
            !.token = IF d.epoch > s.epoch THEN 0 ELSE s.token,
            !.report = d.report, !.cap = d.cap, !.trunk = d.trunk,
            !.inSeq = d.seq, !.age = 0]

HelloNewIncarnation(d) ==
  /\ d.type = "node_hello"
  /\ NewIncarnation(d)
  /\ nodes' = [nodes EXCEPT ![d.node] = AfterHello(nodes[d.node], d)]
  /\ cache' = [cache EXCEPT ![d.node] = {}]
  /\ UNCHANGED grants

HelloSameIncarnation(d) ==
  /\ d.type = "node_hello"
  /\ InSequence(d)
  /\ nodes[d.node].state \in {"seen", "cooling", "offline"}
  /\ nodes' = [nodes EXCEPT ![d.node] = AfterHello(nodes[d.node], d)]
  /\ UNCHANGED <<cache, grants>>

\* Mutant of AfterAck: the reported availability is stored as the state.
MutantAckStoresReport(s, d) ==
  [s EXCEPT !.state = d.report.avail,
            !.report = d.report, !.trunk = TRUE, !.inSeq = d.seq, !.age = 0]

AfterAck(s, d) ==
  [s EXCEPT !.state = IF IsDegraded(d.report) THEN "degraded" ELSE "active",
            !.report = d.report, !.trunk = TRUE, !.inSeq = d.seq, !.age = 0]

LeaseAck(d) ==
  /\ d.type = "lease_ack"
  /\ InSequence(d)
  /\ nodes[d.node].state = "invited"
  /\ d.token # 0 /\ d.token = nodes[d.node].token
  /\ d.trunk
  /\ nodes' = [nodes EXCEPT ![d.node] = AfterAck(nodes[d.node], d)]
  /\ UNCHANGED <<cache, grants>>

\* A heartbeat cannot change the capability digest, the trunk or the lease.
AfterHeartbeat(s, d) ==
  [s EXCEPT !.state = StateAfterReport(s.state, d.report, s.token, s.trunk),
            !.report = d.report, !.inSeq = d.seq, !.age = 0]

Heartbeat(d) ==
  /\ d.type = "heartbeat"
  /\ InSequence(d)
  /\ Reporting(d.node)
  /\ nodes' = [nodes EXCEPT ![d.node] = AfterHeartbeat(nodes[d.node], d)]
  /\ UNCHANGED <<cache, grants>>

AfterStatus(s, d) ==
  [s EXCEPT !.state = StateAfterReport(s.state, d.report, s.token, d.trunk),
            !.report = d.report, !.cap = d.cap, !.trunk = d.trunk,
            !.inSeq = d.seq, !.age = 0]

Status(d) ==
  /\ d.type = "status"
  /\ InSequence(d)
  /\ Reporting(d.node)
  /\ nodes' = [nodes EXCEPT ![d.node] = AfterStatus(nodes[d.node], d)]
  /\ cache' = IF nodes[d.node].cap = d.cap
                THEN cache ELSE [cache EXCEPT ![d.node] = {}]
  /\ UNCHANGED grants

AfterPong(s, d) == [s EXCEPT !.inSeq = d.seq, !.age = 0]

Pong(d) ==
  /\ d.type = "pong"
  /\ InSequence(d)
  /\ nodes' = [nodes EXCEPT ![d.node] = AfterPong(nodes[d.node], d)]
  /\ UNCHANGED <<cache, grants>>

\* The datagrams ingest_datagram acts on; it drops every other one unchanged.
Accepts(d) ==
  \/ d.type = "node_hello" /\ (~Known(d.node) \/ NewIncarnation(d))
  \/ /\ InSequence(d)
     /\ \/ /\ d.type = "node_hello"
           /\ nodes[d.node].state \in {"seen", "cooling", "offline"}
        \/ /\ d.type = "lease_ack"
           /\ nodes[d.node].state = "invited"
           /\ d.token # 0 /\ d.token = nodes[d.node].token
           /\ d.trunk
        \/ d.type \in {"heartbeat", "status"} /\ Reporting(d.node)
        \/ d.type = "pong"

IgnoreDatagram(d) == ~Accepts(d) /\ UNCHANGED vars

IngestDatagram(d) ==
  \/ Register(d)
  \/ HelloNewIncarnation(d)
  \/ HelloSameIncarnation(d)
  \/ LeaseAck(d)
  \/ Heartbeat(d)
  \/ Status(d)
  \/ Pong(d)
  \/ IgnoreDatagram(d)

(***************************************************************************)
(* issue_invite and reissue_invite: the scheduler offers a lease.          *)
(***************************************************************************)
NextToken == Len(grants) + 1

CanIssue(n) == nodes[n].state = "seen"

CanReissue(n, e) ==
  nodes[n].state = "invited" /\ nodes[n].token # 0 /\ nodes[n].epoch = e

AfterInvite(s, t) ==
  [s EXCEPT !.state = "invited", !.token = t, !.outSeq = s.outSeq + 1]

IssueInvite(n) ==
  /\ CanIssue(n)
  /\ NextToken <= MaxLeases /\ nodes[n].outSeq < MaxOutbound
  /\ nodes' = [nodes EXCEPT ![n] = AfterInvite(nodes[n], NextToken)]
  /\ grants' = Append(grants, [node |-> n, epoch |-> nodes[n].epoch])
  /\ UNCHANGED cache

\* The same lease again: only the outbound sequence number advances.
ReissueInvite(n, e) ==
  /\ CanReissue(n, e)
  /\ nodes[n].outSeq < MaxOutbound
  /\ nodes' = [nodes EXCEPT ![n] = AfterInvite(nodes[n], nodes[n].token)]
  /\ UNCHANGED <<cache, grants>>

(***************************************************************************)
(* sweep_stale_nodes, and the passing of time it reacts to.                *)
(***************************************************************************)
Aged(s) ==
  IF s.state # "unknown" /\ s.age <= OfflineTimeout
    THEN [s EXCEPT !.age = s.age + 1] ELSE s

Tick ==
  /\ nodes' = [n \in Nodes |-> Aged(nodes[n])]
  /\ UNCHANGED <<cache, grants>>

\* Silent beyond OfflineTimeout: offline, lease gone.  Silent beyond
\* StaleTimeout: an active or degraded node cools down and keeps its lease.
Swept(s) ==
  IF s.state \in {"unknown", "offline"} THEN s
  ELSE IF s.age > OfflineTimeout THEN [s EXCEPT !.state = "offline", !.token = 0]
  ELSE IF s.age > StaleTimeout /\ s.state \in {"active", "degraded"}
    THEN [s EXCEPT !.state = "cooling"]
  ELSE s

SweepStaleNodes ==
  /\ nodes' = [n \in Nodes |-> Swept(nodes[n])]
  /\ UNCHANGED <<cache, grants>>

(***************************************************************************)
(* The capability cache, filled by the caller after a capabilities query.  *)
(***************************************************************************)
SetCachedCapabilityValid(n, c) ==
  /\ cache' = [cache EXCEPT ![n] = {c}]
  /\ UNCHANGED <<nodes, grants>>

InvalidateCapabilityCache(n) ==
  /\ cache' = [cache EXCEPT ![n] = {}]
  /\ UNCHANGED <<nodes, grants>>

Next ==
  \/ \E d \in Inbound : IngestDatagram(d)
  \/ \E n \in Nodes : IssueInvite(n)
  \/ \E n \in Nodes, e \in Epochs : ReissueInvite(n, e)
  \/ Tick
  \/ SweepStaleNodes
  \/ \E n \in Nodes, c \in Caps : SetCachedCapabilityValid(n, c)
  \/ \E n \in Nodes : InvalidateCapabilityCache(n)

Spec == Init /\ [][Next]_vars

(***************************************************************************)
(* What the rest of the system asks the router.                            *)
(***************************************************************************)
IsRoutable(n) ==
  /\ nodes[n].state \in {"active", "degraded"}
  /\ nodes[n].report.avail \in {"available", "degraded"}
  /\ nodes[n].report.health \in {"healthy", "degraded"}
  /\ nodes[n].trunk
  /\ nodes[n].token # 0

ValidateTcpSessionBinding(n, e, t) ==
  /\ nodes[n].state \in {"active", "degraded"}
  /\ nodes[n].epoch = e
  /\ nodes[n].token = t
  /\ t # 0
  /\ nodes[n].trunk

(***************************************************************************)
(* Properties.                                                             *)
(***************************************************************************)

\* The router's state has its type (control_plane_node_state).
TypeOK ==
  /\ nodes \in [Nodes -> NodeState]
  /\ cache \in [Nodes -> SUBSET Caps]
  /\ grants \in Seq([node : Nodes, epoch : Nat])

Leased(n) == nodes[n].state \in {"invited", "active", "degraded", "cooling"}

\* A node that holds or is offered a lease holds the token issued to that very
\* identity in its present control epoch: neither a restart of the node, nor a
\* replayed acknowledgement, nor a revival from COOLING carries a lease over to
\* another identity or incarnation (ingest_datagram, issue_invite).
LeaseBoundToIncarnation ==
  \A n \in Nodes : Leased(n) =>
    /\ nodes[n].token \in DOMAIN grants
    /\ grants[nodes[n].token] = [node |-> n, epoch |-> nodes[n].epoch]

\* A binding the trunk accepts (validate_tcp_session_binding) names a lease
\* that was issued to this identity for exactly the epoch it presents, and no
\* two identities can bind with one token.
BindingIsGranted ==
  \A n \in Nodes, e \in Epochs, t \in 1..MaxLeases :
    ValidateTcpSessionBinding(n, e, t) =>
      /\ t <= Len(grants) /\ grants[t] = [node |-> n, epoch |-> e]
      /\ \A m \in Nodes \ {n}, f \in Epochs : ~ValidateTcpSessionBinding(m, f, t)

\* Only a datagram never accepted before keeps a node alive: whenever the age
\* of a node is reset, its (control_epoch, control_seq) strictly advances, and
\* it never goes back.  A replay cannot hold off the sweep.
AdvancesOnlyByFreshTraffic ==
  [][\A n \in Nodes : Known(n) =>
       LET old == nodes[n]  new == nodes'[n] IN
       \/ new.epoch > old.epoch
       \/ new.epoch = old.epoch /\ new.inSeq > old.inSeq
       \/ /\ new.epoch = old.epoch /\ new.inSeq = old.inSeq
          /\ new.age >= old.age]_vars

\* The lease of each node, as the contract sees it.
LeasePhase(n) ==
  CASE nodes[n].state = "invited" -> "offered"
    [] nodes[n].state \in {"active", "degraded", "cooling"} -> "granted"
    [] OTHER -> "free"

Contract == INSTANCE LeaseContract WITH
  epoch  <- [n \in Nodes |-> IF Known(n) THEN nodes[n].epoch + 1 ELSE 0],
  phase  <- [n \in Nodes |-> LeasePhase(n)],
  token  <- [n \in Nodes |-> IF Leased(n) THEN nodes[n].token ELSE 0],
  issued <- Len(grants)

\* The router keeps the lease contract: fresh tokens, grants only after offers,
\* and no lease comes back once it was dropped.
LeaseContractHolds == Contract!Spec

\* Every lease in use is one the issuer granted, to whoever uses it: in the router's
\* table (ingest_datagram, issue_invite) and for a trunk that binds with it
\* (validate_tcp_session_binding).
LeasesAreGranted == LeaseBoundToIncarnation /\ BindingIsGranted
=============================================================================
