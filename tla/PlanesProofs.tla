---------------------------- MODULE PlanesProofs ----------------------------
(***************************************************************************)
(* Proofs about the two ends of a node's planes: the control plane router, *)
(* for any set of identities, any inbound traffic and any timeouts; and    *)
(* the send scheduler of a trunk, for any streams, limits and programs.    *)
(***************************************************************************)
EXTENDS ControlPlane, SendScheduler, FiniteSetTheorems, SequenceTheorems,
        WellFoundedInduction, TLAPS

(***************************************************************************)
(* Type correctness.                                                       *)
(***************************************************************************)

\* The placeholder of an identity that is not in nodes_ is a node state.
LEMMA NoNodeType == NoNode \in NodeState
<1>1. AnyCap \in Caps
  BY NoCapIsACap DEF AnyCap
<1>2. QED
  BY <1>1 DEF NoNode, NodeState, Lifecycle, Report, Availability, Health

\* The fields of a control datagram, whatever its type.
Fields(d) ==
  /\ d.node \in Nodes /\ d.epoch \in Nat /\ d.seq \in Nat
  /\ d.token \in Nat /\ d.cap \in Caps /\ d.trunk \in BOOLEAN
  /\ d.report \in Report

\* Datagrams built from well-typed parts have well-typed fields.
LEMMA DatagramFields ==
  ASSUME NEW types, NEW tokens \in SUBSET Nat, NEW reports \in SUBSET Report,
         NEW caps \in SUBSET Caps, NEW trunks \in SUBSET BOOLEAN,
         NEW d \in Datagram(types, tokens, reports, caps, trunks)
  PROVE  Fields(d)
<1>1. d.node \in Nodes /\ d.epoch \in Epochs /\ d.seq \in Seqs /\ d.token \in tokens
  BY DEF Datagram
<1>2. d.report \in reports /\ d.cap \in caps
  BY DEF Datagram
<1>3. d.trunk \in trunks
  BY DEF Datagram
<1>4. d.epoch \in Nat /\ d.seq \in Nat
  BY <1>1, BoundsAreNatural
<1>5. d.token \in Nat
  BY <1>1
<1>6. d.trunk \in BOOLEAN
  BY <1>3
<1>7. QED
  BY <1>1, <1>2, <1>4, <1>5, <1>6 DEF Fields

\* Every datagram the router may receive has well-typed fields.
LEMMA InboundType ==
  ASSUME NEW d \in Inbound
  PROVE  Fields(d)
<1>1. {AnyCap} \in SUBSET Caps /\ {AnyReport} \in SUBSET Report
  BY NoCapIsACap, ReportsArePairs DEF AnyCap, AnyReport
<1>2. 0..MaxLeases \in SUBSET Nat /\ {0} \in SUBSET Nat
  BY BoundsAreNatural
<1>3. Reports \in SUBSET Report /\ Caps \in SUBSET Caps
  BY ReportsArePairs
<1>4. {FALSE} \in SUBSET BOOLEAN /\ BOOLEAN \in SUBSET BOOLEAN
  OBVIOUS
<1>5. CASE d \in Datagram({"node_hello", "status"}, {0}, Reports, Caps, BOOLEAN)
  BY <1>2, <1>3, <1>4, <1>5, DatagramFields
<1>6. CASE d \in Datagram({"heartbeat"}, {0}, Reports, {AnyCap}, {FALSE})
  BY <1>1, <1>2, <1>3, <1>4, <1>6, DatagramFields
<1>7. CASE d \in Datagram({"lease_ack"}, 0..MaxLeases, Reports, {AnyCap}, BOOLEAN)
  BY <1>1, <1>2, <1>3, <1>4, <1>7, DatagramFields
<1>8. CASE d \in Datagram({"pong", "invite", "ping"}, {0}, {AnyReport},
                          {AnyCap}, {FALSE})
  BY <1>1, <1>2, <1>4, <1>8, DatagramFields
<1>9. QED
  BY <1>5, <1>6, <1>7, <1>8 DEF Inbound

(***************************************************************************)
(* What each operation does to the record of one node.                     *)
(***************************************************************************)
\* A heartbeat or status keeps a reporting node reporting.
LEMMA ReportKeepsReporting ==
  ASSUME NEW s \in {"active", "degraded", "cooling"}, NEW r, NEW t, NEW tr
  PROVE  StateAfterReport(s, r, t, tr) \in {"active", "degraded", "cooling"}
BY DEF StateAfterReport

\* Registration puts the identity in SEEN with the epoch of the datagram.
LEMMA RegisteredNode ==
  ASSUME NEW d, Fields(d)
  PROVE  /\ Registered(d) \in NodeState
         /\ Registered(d).state = "seen"
         /\ Registered(d).epoch = d.epoch
BY NoNodeType DEF Fields, Registered, NodeState, Lifecycle, NoNode

\* A hello puts the node in SEEN.
LEMMA GreetedNode ==
  ASSUME NEW d, Fields(d), NEW s \in NodeState
  PROVE  /\ AfterHello(s, d) \in NodeState
         /\ AfterHello(s, d).state = "seen"
         /\ AfterHello(s, d).epoch = d.epoch
         /\ AfterHello(s, d).inSeq = d.seq
<1>1. d.epoch \in Nat /\ d.seq \in Nat /\ d.report \in Report /\ d.cap \in Caps
      /\ d.trunk \in BOOLEAN
  BY DEF Fields
<1> DEFINE t == IF d.epoch > s.epoch THEN 0 ELSE s.token
<1>2. t \in Nat
  BY DEF NodeState
<1> HIDE DEF t
<1> DEFINE u == [s EXCEPT !.state = "seen", !.epoch = d.epoch,
            !.token = t, !.report = d.report, !.cap = d.cap, !.trunk = d.trunk,
            !.inSeq = d.seq, !.age = 0]
<1>3. u \in NodeState
  BY <1>1, <1>2 DEF NodeState, Lifecycle
<1>4. /\ u.state = "seen"
      /\ u.epoch = d.epoch
      /\ u.inSeq = d.seq
  BY <1>2 DEF NodeState
<1>5. AfterHello(s, d) = u
  BY DEF AfterHello, t
<1> HIDE DEF u
<1>6. QED
  BY <1>3, <1>4, <1>5

\* An accepted LEASE_ACK keeps token and epoch and makes the node active or degraded.
LEMMA AcknowledgedNode ==
  ASSUME NEW d, Fields(d), NEW s \in NodeState
  PROVE  /\ AfterAck(s, d) \in NodeState
         /\ AfterAck(s, d).state \in {"active", "degraded"}
         /\ AfterAck(s, d).epoch = s.epoch /\ AfterAck(s, d).token = s.token
         /\ AfterAck(s, d).inSeq = d.seq
<1>1. d.seq \in Nat /\ d.report \in Report
  BY DEF Fields
<1> DEFINE l == IF IsDegraded(d.report) THEN "degraded" ELSE "active"
<1>2. l \in {"active", "degraded"}
  OBVIOUS
<1> HIDE DEF l
<1> DEFINE u == [s EXCEPT !.state = l, !.report = d.report, !.trunk = TRUE,
                                 !.inSeq = d.seq, !.age = 0]
<1>3. u \in NodeState
  BY <1>1, <1>2 DEF NodeState, Lifecycle
<1>4. /\ u.state \in {"active", "degraded"}
      /\ u.epoch = s.epoch /\ u.token = s.token
      /\ u.inSeq = d.seq
  BY <1>2 DEF NodeState
<1>5. AfterAck(s, d) = u
  BY DEF AfterAck, l
<1> HIDE DEF u
<1>6. QED
  BY <1>3, <1>4, <1>5

\* A heartbeat keeps token and epoch, and a reporting node reporting.
LEMMA HeartbeatNode ==
  ASSUME NEW d, Fields(d), NEW s \in NodeState,
         s.state \in {"active", "degraded", "cooling"}
  PROVE  /\ AfterHeartbeat(s, d) \in NodeState
         /\ AfterHeartbeat(s, d).state \in {"active", "degraded", "cooling"}
         /\ AfterHeartbeat(s, d).epoch = s.epoch
         /\ AfterHeartbeat(s, d).token = s.token
         /\ AfterHeartbeat(s, d).inSeq = d.seq
<1>1. d.seq \in Nat /\ d.report \in Report
  BY DEF Fields
<1> DEFINE l == StateAfterReport(s.state, d.report, s.token, s.trunk)
<1>2. l \in {"active", "degraded", "cooling"}
  BY ReportKeepsReporting
<1> HIDE DEF l
<1> DEFINE u == [s EXCEPT !.state = l, !.report = d.report,
                                       !.inSeq = d.seq, !.age = 0]
<1>3. u \in NodeState
  BY <1>1, <1>2 DEF NodeState, Lifecycle
<1>4. /\ u.state \in {"active", "degraded", "cooling"}
      /\ u.epoch = s.epoch
      /\ u.token = s.token
      /\ u.inSeq = d.seq
  BY <1>2 DEF NodeState
<1>5. AfterHeartbeat(s, d) = u
  BY DEF AfterHeartbeat, l
<1> HIDE DEF u
<1>6. QED
  BY <1>3, <1>4, <1>5

\* So does a status report.
LEMMA StatusNode ==
  ASSUME NEW d, Fields(d), NEW s \in NodeState,
         s.state \in {"active", "degraded", "cooling"}
  PROVE  /\ AfterStatus(s, d) \in NodeState
         /\ AfterStatus(s, d).state \in {"active", "degraded", "cooling"}
         /\ AfterStatus(s, d).epoch = s.epoch
         /\ AfterStatus(s, d).token = s.token
         /\ AfterStatus(s, d).inSeq = d.seq
<1>1. d.seq \in Nat /\ d.report \in Report /\ d.cap \in Caps /\ d.trunk \in BOOLEAN
  BY DEF Fields
<1> DEFINE l == StateAfterReport(s.state, d.report, s.token, d.trunk)
<1>2. l \in {"active", "degraded", "cooling"}
  BY ReportKeepsReporting
<1> HIDE DEF l
<1> DEFINE u == [s EXCEPT !.state = l, !.report = d.report, !.cap = d.cap,
                              !.trunk = d.trunk, !.inSeq = d.seq, !.age = 0]
<1>3. u \in NodeState
  BY <1>1, <1>2 DEF NodeState, Lifecycle
<1>4. /\ u.state \in {"active", "degraded", "cooling"}
      /\ u.epoch = s.epoch
      /\ u.token = s.token
      /\ u.inSeq = d.seq
  BY <1>2 DEF NodeState
<1>5. AfterStatus(s, d) = u
  BY DEF AfterStatus, l
<1> HIDE DEF u
<1>6. QED
  BY <1>3, <1>4, <1>5

\* A pong refreshes the node and changes nothing else.
LEMMA PongedNode ==
  ASSUME NEW d, Fields(d), NEW s \in NodeState
  PROVE  /\ AfterPong(s, d) \in NodeState
         /\ AfterPong(s, d).state = s.state
         /\ AfterPong(s, d).epoch = s.epoch
         /\ AfterPong(s, d).token = s.token
         /\ AfterPong(s, d).inSeq = d.seq
<1>1. d.seq \in Nat
  BY DEF Fields
<1>2. AfterPong(s, d) \in NodeState
  BY <1>1 DEF AfterPong, NodeState
<1>3. QED
  BY <1>2 DEF AfterPong, NodeState

\* An invite sets state and token and keeps the rest of the lease.
LEMMA InvitedNode ==
  ASSUME NEW s \in NodeState, NEW t \in Nat
  PROVE  /\ AfterInvite(s, t) \in NodeState
         /\ AfterInvite(s, t).state = "invited"
         /\ AfterInvite(s, t).epoch = s.epoch
         /\ AfterInvite(s, t).token = t
         /\ AfterInvite(s, t).inSeq = s.inSeq
         /\ AfterInvite(s, t).age = s.age
<1> DEFINE q == s.outSeq + 1
<1>1. q \in Nat
  BY DEF NodeState
<1> HIDE DEF q
<1>2. [s EXCEPT !.state = "invited", !.token = t, !.outSeq = q] \in NodeState
  BY <1>1 DEF NodeState, Lifecycle
<1>3. AfterInvite(s, t) \in NodeState
  BY <1>2 DEF AfterInvite, q
<1>4. QED
  BY <1>3 DEF AfterInvite, NodeState

\* Time only ages a node.
LEMMA AgedNode ==
  ASSUME NEW s \in NodeState
  PROVE  /\ Aged(s) \in NodeState
         /\ Aged(s).state = s.state
         /\ Aged(s).epoch = s.epoch
         /\ Aged(s).token = s.token
         /\ Aged(s).inSeq = s.inSeq
         /\ Aged(s).age >= s.age
BY BoundsAreNatural DEF Aged, NodeState

\* The sweep leaves a node alone, puts it offline, or lets a leased one cool.
LEMMA SweptNode ==
  ASSUME NEW s \in NodeState
  PROVE  /\ Swept(s) \in NodeState
         /\ Swept(s).epoch = s.epoch
         /\ Swept(s).inSeq = s.inSeq
         /\ Swept(s).age = s.age
         /\ \/ Swept(s) = s
            \/ s.state # "unknown" /\ Swept(s).state = "offline"
            \/ /\ s.state \in {"active", "degraded"}
               /\ Swept(s).state = "cooling"
               /\ Swept(s).token = s.token
<1>1. [s EXCEPT !.state = "offline", !.token = 0] \in NodeState
  BY DEF NodeState, Lifecycle
<1>2. [s EXCEPT !.state = "cooling"] \in NodeState
  BY DEF NodeState, Lifecycle
<1>3. QED
  BY <1>1, <1>2 DEF Swept, NodeState

(***************************************************************************)
(* Type correctness.  Each action replaces the record of one node, or maps *)
(* every record, by one of the updates above.                              *)
(***************************************************************************)

\* Replacing the record of one node keeps the table well typed.
LEMMA TableUpdate ==
  ASSUME TypeOK, NEW n \in Nodes, NEW s \in NodeState,
         nodes' = [nodes EXCEPT ![n] = s]
  PROVE  /\ nodes' \in [Nodes -> NodeState]
         /\ nodes'[n] = s
         /\ \A m \in Nodes \ {n} : nodes'[m] = nodes[m]
BY DEF TypeOK

\* The router's state keeps its type in every step.
LEMMA TypeStep == TypeOK /\ [Next]_vars => TypeOK'
<1> SUFFICES ASSUME TypeOK, [Next]_vars PROVE TypeOK'
  OBVIOUS
<1>0. \A n \in Nodes : nodes[n] \in NodeState
  BY DEF TypeOK
<1>1. ASSUME NEW d \in Inbound, Register(d) PROVE TypeOK'
  <2>1. Fields(d) /\ d.node \in Nodes
    BY InboundType DEF Fields
  <2>2. QED
    BY <1>1, <2>1, RegisteredNode, TableUpdate DEF Register, TypeOK
<1>2. ASSUME NEW d \in Inbound, HelloNewIncarnation(d) PROVE TypeOK'
  <2>1. Fields(d) /\ d.node \in Nodes
    BY InboundType DEF Fields
  <2>2. AfterHello(nodes[d.node], d) \in NodeState
    BY <1>0, <2>1, GreetedNode
  <2>3. QED
    BY <1>2, <2>1, <2>2, TableUpdate DEF HelloNewIncarnation, TypeOK
<1>3. ASSUME NEW d \in Inbound, HelloSameIncarnation(d) PROVE TypeOK'
  <2>1. Fields(d) /\ d.node \in Nodes
    BY InboundType DEF Fields
  <2>2. AfterHello(nodes[d.node], d) \in NodeState
    BY <1>0, <2>1, GreetedNode
  <2>3. QED
    BY <1>3, <2>1, <2>2, TableUpdate DEF HelloSameIncarnation, TypeOK
<1>4. ASSUME NEW d \in Inbound, LeaseAck(d) PROVE TypeOK'
  <2>1. Fields(d) /\ d.node \in Nodes
    BY InboundType DEF Fields
  <2>2. AfterAck(nodes[d.node], d) \in NodeState
    BY <1>0, <2>1, AcknowledgedNode
  <2>3. QED
    BY <1>4, <2>1, <2>2, TableUpdate DEF LeaseAck, TypeOK
<1>5. ASSUME NEW d \in Inbound, Heartbeat(d) PROVE TypeOK'
  <2>1. Fields(d) /\ d.node \in Nodes
    BY InboundType DEF Fields
  <2>2. AfterHeartbeat(nodes[d.node], d) \in NodeState
    BY <1>0, <1>5, <2>1, HeartbeatNode DEF Heartbeat, Reporting
  <2>3. QED
    BY <1>5, <2>1, <2>2, TableUpdate DEF Heartbeat, TypeOK
<1>6. ASSUME NEW d \in Inbound, Status(d) PROVE TypeOK'
  <2>1. Fields(d) /\ d.node \in Nodes
    BY InboundType DEF Fields
  <2>2. AfterStatus(nodes[d.node], d) \in NodeState
    BY <1>0, <1>6, <2>1, StatusNode DEF Status, Reporting
  <2>3. QED
    BY <1>6, <2>1, <2>2, TableUpdate DEF Status, TypeOK
<1>7. ASSUME NEW d \in Inbound, Pong(d) PROVE TypeOK'
  <2>1. Fields(d) /\ d.node \in Nodes
    BY InboundType DEF Fields
  <2>2. AfterPong(nodes[d.node], d) \in NodeState
    BY <1>0, <2>1, PongedNode
  <2>3. QED
    BY <1>7, <2>1, <2>2, TableUpdate DEF Pong, TypeOK
<1>8. ASSUME NEW n \in Nodes, IssueInvite(n) PROVE TypeOK'
  <2>1. NextToken \in Nat
    BY DEF TypeOK, NextToken
  <2>2. AfterInvite(nodes[n], NextToken) \in NodeState
    BY <1>0, <2>1, InvitedNode
  <2>3. [node |-> n, epoch |-> nodes[n].epoch] \in [node : Nodes, epoch : Nat]
    BY <1>0 DEF NodeState
  <2>4. grants' \in Seq([node : Nodes, epoch : Nat])
    BY <1>8, <2>3 DEF IssueInvite, TypeOK
  <2>5. QED
    BY <1>8, <2>2, <2>4, TableUpdate DEF IssueInvite, TypeOK
<1>9. ASSUME NEW n \in Nodes, NEW e \in Epochs, ReissueInvite(n, e) PROVE TypeOK'
  <2>1. nodes[n].token \in Nat
    BY <1>0 DEF NodeState
  <2>2. AfterInvite(nodes[n], nodes[n].token) \in NodeState
    BY <1>0, <2>1, InvitedNode
  <2>3. QED
    BY <1>9, <2>2, TableUpdate DEF ReissueInvite, TypeOK
<1>10. ASSUME Tick PROVE TypeOK'
  BY <1>0, <1>10, AgedNode DEF Tick, TypeOK
<1>11. ASSUME SweepStaleNodes PROVE TypeOK'
  BY <1>0, <1>11, SweptNode DEF SweepStaleNodes, TypeOK
<1>12. ASSUME NEW n \in Nodes, NEW c \in Caps, SetCachedCapabilityValid(n, c)
       PROVE TypeOK'
  BY <1>12 DEF SetCachedCapabilityValid, TypeOK
<1>13. ASSUME NEW n \in Nodes, InvalidateCapabilityCache(n) PROVE TypeOK'
  BY <1>13 DEF InvalidateCapabilityCache, TypeOK
<1>14. ASSUME UNCHANGED vars PROVE TypeOK'
  BY <1>14 DEF vars, TypeOK
<1>15. QED
  BY <1>1, <1>2, <1>3, <1>4, <1>5, <1>6, <1>7, <1>8, <1>9, <1>10, <1>11,
     <1>12, <1>13, <1>14 DEF Next, IngestDatagram, IgnoreDatagram

\* The router's state always has its type (control_plane_node_state).
THEOREM TypeCorrect == Spec => []TypeOK
<1>1. Init => TypeOK
  BY NoNodeType DEF Init, TypeOK
<1>2. QED
  BY <1>1, TypeStep, PTL DEF Spec

(***************************************************************************)
(* What a step does to the lease of one node: the cases all further proofs *)
(* distinguish.                                                            *)
(***************************************************************************)
OthersKept(n) == \A m \in Nodes \ {n} : nodes'[m] = nodes[m]

FreshSeq(n) == nodes'[n].epoch = nodes[n].epoch /\ nodes'[n].inSeq > nodes[n].inSeq

SameLease(n) == nodes'[n].epoch = nodes[n].epoch /\ nodes'[n].token = nodes[n].token

Greets(n) ==
  /\ nodes'[n].state = "seen" /\ grants' = grants
  /\ \/ ~Known(n)
     \/ Known(n) /\ nodes'[n].epoch > nodes[n].epoch
     \/ nodes[n].state \in {"seen", "cooling", "offline"} /\ FreshSeq(n)

Accepted(n) ==
  /\ nodes[n].state = "invited" /\ nodes'[n].state \in {"active", "degraded"}
  /\ SameLease(n) /\ FreshSeq(n) /\ grants' = grants

KeepsReporting(n) ==
  /\ nodes[n].state \in {"active", "degraded", "cooling"}
  /\ nodes'[n].state \in {"active", "degraded", "cooling"}
  /\ SameLease(n) /\ FreshSeq(n) /\ grants' = grants

Touched(n) ==
  /\ nodes'[n].state = nodes[n].state
  /\ SameLease(n) /\ grants' = grants
  /\ \/ FreshSeq(n)
     \/ nodes'[n].inSeq = nodes[n].inSeq /\ nodes'[n].age = nodes[n].age

Offered(n) ==
  /\ nodes[n].state = "seen" /\ nodes'[n].state = "invited"
  /\ nodes'[n].token = Len(grants) + 1
  /\ nodes'[n].epoch = nodes[n].epoch
  /\ nodes'[n].inSeq = nodes[n].inSeq /\ nodes'[n].age = nodes[n].age
  /\ grants' = Append(grants, [node |-> n, epoch |-> nodes[n].epoch])

OneNode(n) ==
  Greets(n) \/ Accepted(n) \/ KeepsReporting(n) \/ Touched(n) \/ Offered(n)

TimePasses ==
  /\ grants' = grants
  /\ \A n \in Nodes :
       /\ nodes'[n].epoch = nodes[n].epoch
       /\ nodes'[n].inSeq = nodes[n].inSeq
       /\ nodes'[n].age >= nodes[n].age
       /\ \/ nodes'[n].state = nodes[n].state /\ nodes'[n].token = nodes[n].token
          \/ Known(n) /\ nodes'[n].state = "offline"
          \/ /\ nodes[n].state \in {"active", "degraded"}
             /\ nodes'[n].state = "cooling"
             /\ nodes'[n].token = nodes[n].token

\* Every step is one of these.
LEMMA StepShape ==
  ASSUME TypeOK, [Next]_vars
  PROVE  \/ \E n \in Nodes : OthersKept(n) /\ OneNode(n)
         \/ TimePasses
         \/ nodes' = nodes /\ grants' = grants
<1> DEFINE Goal == \/ \E n \in Nodes : OthersKept(n) /\ OneNode(n)
                   \/ TimePasses
                   \/ nodes' = nodes /\ grants' = grants
<1>0. \A n \in Nodes : nodes[n] \in NodeState
  BY DEF TypeOK
<1>1. ASSUME NEW d \in Inbound, Register(d) PROVE Goal
  <2>1. Fields(d) /\ d.node \in Nodes
    BY InboundType DEF Fields
  <2>2. nodes'[d.node] = Registered(d) /\ OthersKept(d.node)
    BY <1>1, <2>1, RegisteredNode, TableUpdate DEF Register, OthersKept
  <2>3. Greets(d.node)
    BY <1>1, <2>1, <2>2, RegisteredNode DEF Register, Greets
  <2>4. QED
    BY <2>1, <2>2, <2>3 DEF OneNode
<1>2. ASSUME NEW d \in Inbound, HelloNewIncarnation(d) PROVE Goal
  <2>1. Fields(d) /\ d.node \in Nodes
    BY InboundType DEF Fields
  <2>2. nodes'[d.node] = AfterHello(nodes[d.node], d) /\ OthersKept(d.node)
    BY <1>0, <1>2, <2>1, GreetedNode, TableUpdate DEF HelloNewIncarnation, OthersKept
  <2>3. Greets(d.node)
    BY <1>0, <1>2, <2>1, <2>2, GreetedNode
       DEF HelloNewIncarnation, NewIncarnation, Greets
  <2>4. QED
    BY <2>1, <2>2, <2>3 DEF OneNode
<1>3. ASSUME NEW d \in Inbound, HelloSameIncarnation(d) PROVE Goal
  <2>1. Fields(d) /\ d.node \in Nodes
    BY InboundType DEF Fields
  <2>2. nodes'[d.node] = AfterHello(nodes[d.node], d) /\ OthersKept(d.node)
    BY <1>0, <1>3, <2>1, GreetedNode, TableUpdate DEF HelloSameIncarnation, OthersKept
  <2>3. Greets(d.node)
    BY <1>0, <1>3, <2>1, <2>2, GreetedNode
       DEF HelloSameIncarnation, InSequence, Greets, FreshSeq
  <2>4. QED
    BY <2>1, <2>2, <2>3 DEF OneNode
<1>4. ASSUME NEW d \in Inbound, LeaseAck(d) PROVE Goal
  <2>1. Fields(d) /\ d.node \in Nodes
    BY InboundType DEF Fields
  <2>2. nodes'[d.node] = AfterAck(nodes[d.node], d) /\ OthersKept(d.node)
    BY <1>0, <1>4, <2>1, AcknowledgedNode, TableUpdate DEF LeaseAck, OthersKept
  <2>3. Accepted(d.node)
    BY <1>0, <1>4, <2>1, <2>2, AcknowledgedNode
       DEF LeaseAck, InSequence, Accepted, FreshSeq, SameLease
  <2>4. QED
    BY <2>1, <2>2, <2>3 DEF OneNode
<1>5. ASSUME NEW d \in Inbound, Heartbeat(d) PROVE Goal
  <2>1. Fields(d) /\ d.node \in Nodes
    BY InboundType DEF Fields
  <2>2. nodes[d.node].state \in {"active", "degraded", "cooling"}
    BY <1>5 DEF Heartbeat, Reporting
  <2>3. nodes'[d.node] = AfterHeartbeat(nodes[d.node], d) /\ OthersKept(d.node)
    BY <1>0, <1>5, <2>1, <2>2, HeartbeatNode, TableUpdate DEF Heartbeat, OthersKept
  <2>4. KeepsReporting(d.node)
    BY <1>0, <1>5, <2>1, <2>2, <2>3, HeartbeatNode
       DEF Heartbeat, InSequence, KeepsReporting, FreshSeq, SameLease
  <2>5. QED
    BY <2>1, <2>3, <2>4 DEF OneNode
<1>6. ASSUME NEW d \in Inbound, Status(d) PROVE Goal
  <2>1. Fields(d) /\ d.node \in Nodes
    BY InboundType DEF Fields
  <2>2. nodes[d.node].state \in {"active", "degraded", "cooling"}
    BY <1>6 DEF Status, Reporting
  <2>3. nodes'[d.node] = AfterStatus(nodes[d.node], d) /\ OthersKept(d.node)
    BY <1>0, <1>6, <2>1, <2>2, StatusNode, TableUpdate DEF Status, OthersKept
  <2>4. KeepsReporting(d.node)
    BY <1>0, <1>6, <2>1, <2>2, <2>3, StatusNode
       DEF Status, InSequence, KeepsReporting, FreshSeq, SameLease
  <2>5. QED
    BY <2>1, <2>3, <2>4 DEF OneNode
<1>7. ASSUME NEW d \in Inbound, Pong(d) PROVE Goal
  <2>1. Fields(d) /\ d.node \in Nodes
    BY InboundType DEF Fields
  <2>2. nodes'[d.node] = AfterPong(nodes[d.node], d) /\ OthersKept(d.node)
    BY <1>0, <1>7, <2>1, PongedNode, TableUpdate DEF Pong, OthersKept
  <2>3. Touched(d.node)
    BY <1>0, <1>7, <2>1, <2>2, PongedNode
       DEF Pong, InSequence, Touched, FreshSeq, SameLease
  <2>4. QED
    BY <2>1, <2>2, <2>3 DEF OneNode
<1>8. ASSUME NEW n \in Nodes, IssueInvite(n) PROVE Goal
  <2>1. NextToken \in Nat
    BY DEF TypeOK, NextToken
  <2>2. nodes'[n] = AfterInvite(nodes[n], NextToken) /\ OthersKept(n)
    BY <1>0, <1>8, <2>1, InvitedNode, TableUpdate DEF IssueInvite, OthersKept
  <2>3. Offered(n)
    BY <1>0, <1>8, <2>1, <2>2, InvitedNode DEF IssueInvite, CanIssue, NextToken, Offered
  <2>4. QED
    BY <2>2, <2>3 DEF OneNode
<1>9. ASSUME NEW n \in Nodes, NEW e \in Epochs, ReissueInvite(n, e) PROVE Goal
  <2>1. nodes[n].token \in Nat
    BY <1>0 DEF NodeState
  <2>2. nodes'[n] = AfterInvite(nodes[n], nodes[n].token) /\ OthersKept(n)
    BY <1>0, <1>9, <2>1, InvitedNode, TableUpdate DEF ReissueInvite, OthersKept
  <2>3. Touched(n)
    BY <1>0, <1>9, <2>1, <2>2, InvitedNode
       DEF ReissueInvite, CanReissue, Touched, SameLease
  <2>4. QED
    BY <2>2, <2>3 DEF OneNode
<1>10. ASSUME Tick PROVE Goal
  <2>1. \A n \in Nodes : nodes'[n] = Aged(nodes[n])
    BY <1>10 DEF Tick
  <2>2. TimePasses
    BY <1>0, <1>10, <2>1, AgedNode DEF Tick, TimePasses
  <2>3. QED
    BY <2>2
<1>11. ASSUME SweepStaleNodes PROVE Goal
  <2>1. \A n \in Nodes : nodes'[n] = Swept(nodes[n])
    BY <1>11 DEF SweepStaleNodes
  <2>2. \A n \in Nodes : nodes[n].age \in Nat
    BY <1>0 DEF NodeState
  <2>3. TimePasses
    BY <1>0, <1>11, <2>1, <2>2, SweptNode DEF SweepStaleNodes, TimePasses, Known
  <2>4. QED
    BY <2>3
<1>12. ASSUME nodes' = nodes, grants' = grants PROVE Goal
  BY <1>12
<1>13. QED
  BY <1>1, <1>2, <1>3, <1>4, <1>5, <1>6, <1>7, <1>8, <1>9, <1>10, <1>11, <1>12
     DEF Next, IngestDatagram, IgnoreDatagram, SetCachedCapabilityValid,
         InvalidateCapabilityCache, vars

(***************************************************************************)
(* Leases belong to one identity and one incarnation.                      *)
(***************************************************************************)

\* LeaseBoundToIncarnation is inductive once types are known.
LEMMA LeaseStep ==
  TypeOK /\ LeaseBoundToIncarnation /\ [Next]_vars => LeaseBoundToIncarnation'
<1> SUFFICES ASSUME TypeOK, LeaseBoundToIncarnation, [Next]_vars,
                    NEW m \in Nodes, Leased(m)'
             PROVE  /\ nodes'[m].token \in DOMAIN grants'
                    /\ grants'[nodes'[m].token]
                         = [node |-> m, epoch |-> nodes'[m].epoch]
  BY DEF LeaseBoundToIncarnation
<1> USE DEF Leased
<1>1. ASSUME Leased(m), SameLease(m), grants' = grants
      PROVE  /\ nodes'[m].token \in DOMAIN grants'
             /\ grants'[nodes'[m].token] = [node |-> m, epoch |-> nodes'[m].epoch]
  BY <1>1 DEF LeaseBoundToIncarnation, SameLease
<1>2. ASSUME NEW n \in Nodes, OthersKept(n), Greets(n) \/ Accepted(n)
                 \/ KeepsReporting(n) \/ Touched(n)
      PROVE  Leased(m) /\ SameLease(m) /\ grants' = grants
  BY <1>2 DEF OthersKept, Greets, Accepted, KeepsReporting, Touched, SameLease
<1>3. ASSUME NEW n \in Nodes, OthersKept(n), Offered(n)
      PROVE  /\ nodes'[m].token \in DOMAIN grants'
             /\ grants'[nodes'[m].token] = [node |-> m, epoch |-> nodes'[m].epoch]
  <2>1. /\ grants \in Seq([node : Nodes, epoch : Nat])
        /\ [node |-> n, epoch |-> nodes[n].epoch] \in [node : Nodes, epoch : Nat]
    BY DEF TypeOK, NodeState
  <2>2. /\ DOMAIN grants = 1..Len(grants) /\ Len(grants) \in Nat
        /\ DOMAIN grants' = 1..Len(grants) + 1
        /\ \A t \in DOMAIN grants : grants'[t] = grants[t]
        /\ grants'[Len(grants) + 1] = [node |-> n, epoch |-> nodes[n].epoch]
    BY <1>3, <2>1 DEF Offered
  <2>3. CASE m = n
    BY <1>3, <2>2, <2>3 DEF Offered
  <2>4. CASE m # n
    BY <1>3, <2>2, <2>4 DEF OthersKept, LeaseBoundToIncarnation
  <2>5. QED
    BY <2>3, <2>4
<1>4. ASSUME TimePasses PROVE Leased(m) /\ SameLease(m) /\ grants' = grants
  BY <1>4 DEF TimePasses, SameLease
<1>5. ASSUME nodes' = nodes, grants' = grants
      PROVE  Leased(m) /\ SameLease(m) /\ grants' = grants
  BY <1>5 DEF SameLease
<1>6. QED
  BY <1>1, <1>2, <1>3, <1>4, <1>5, StepShape DEF OneNode

\* A leased node always holds the token issued to it in its present epoch
\* (control_plane_router::ingest_datagram, issue_invite, sweep_stale_nodes).
THEOREM LeaseBound == Spec => []LeaseBoundToIncarnation
<1>1. Init => LeaseBoundToIncarnation
  BY DEF Init, LeaseBoundToIncarnation, Leased, NoNode
<1>2. QED
  BY <1>1, LeaseStep, TypeCorrect, PTL DEF Spec

\* The trunk never accepts a binding whose lease was not issued for exactly
\* that identity and epoch, nor one token for two identities
\* (validate_tcp_session_binding).
THEOREM BindingGranted == Spec => []BindingIsGranted
<1>1. TypeOK /\ LeaseBoundToIncarnation => BindingIsGranted
  <2> SUFFICES ASSUME TypeOK, LeaseBoundToIncarnation,
                      NEW n \in Nodes, NEW e \in Epochs, NEW t \in 1..MaxLeases,
                      ValidateTcpSessionBinding(n, e, t)
               PROVE  /\ t <= Len(grants) /\ grants[t] = [node |-> n, epoch |-> e]
                      /\ \A m \in Nodes \ {n}, f \in Epochs :
                            ~ValidateTcpSessionBinding(m, f, t)
    BY DEF BindingIsGranted
  <2>1. t \in DOMAIN grants /\ grants[t] = [node |-> n, epoch |-> e]
    BY DEF LeaseBoundToIncarnation, ValidateTcpSessionBinding, Leased
  <2>2. t <= Len(grants)
    BY <2>1 DEF TypeOK
  <2>3. ASSUME NEW m \in Nodes \ {n}, NEW f \in Epochs,
               ValidateTcpSessionBinding(m, f, t)
        PROVE  FALSE
    <3>1. grants[t] = [node |-> m, epoch |-> f]
      BY <2>3 DEF LeaseBoundToIncarnation, ValidateTcpSessionBinding, Leased
    <3>2. [node |-> m, epoch |-> f].node = [node |-> n, epoch |-> e].node
      BY <2>1, <3>1
    <3>3. QED
      BY <3>2
  <2>4. QED
    BY <2>1, <2>2, <2>3
<1>2. QED
  BY <1>1, LeaseBound, TypeCorrect, PTL

\* No node goes back in (epoch, sequence), and only fresh traffic resets its age.
THEOREM FreshTraffic == Spec => AdvancesOnlyByFreshTraffic
<1> DEFINE Step(n) ==
      Known(n) =>
        LET old == nodes[n]  new == nodes'[n] IN
        \/ new.epoch > old.epoch
        \/ new.epoch = old.epoch /\ new.inSeq > old.inSeq
        \/ /\ new.epoch = old.epoch /\ new.inSeq = old.inSeq
           /\ new.age >= old.age
<1>1. ASSUME TypeOK, [Next]_vars, NEW m \in Nodes PROVE Step(m)
  <2>1. nodes[m].age \in Nat
    BY <1>1 DEF TypeOK, NodeState
  <2>2. ASSUME NEW n \in Nodes, OthersKept(n), OneNode(n) PROVE Step(m)
    <3>1. CASE m # n
      BY <2>1, <2>2, <3>1 DEF OthersKept
    <3>2. CASE m = n /\ Greets(n)
      BY <3>2 DEF Greets, FreshSeq
    <3>3. CASE m = n /\ (Accepted(n) \/ KeepsReporting(n))
      BY <3>3 DEF Accepted, KeepsReporting, FreshSeq
    <3>4. CASE m = n /\ (Touched(n) \/ Offered(n))
      BY <2>1, <3>4 DEF Touched, Offered, FreshSeq, SameLease
    <3>5. QED
      BY <2>2, <3>1, <3>2, <3>3, <3>4 DEF OneNode
  <2>3. ASSUME TimePasses PROVE Step(m)
    BY <2>3 DEF TimePasses
  <2>4. ASSUME nodes' = nodes PROVE Step(m)
    BY <2>1, <2>4
  <2>5. QED
    BY <1>1, <2>2, <2>3, <2>4, StepShape
<1>2. TypeOK /\ [Next]_vars => [\A n \in Nodes : Step(n)]_vars
  BY <1>1
<1>3. QED
  BY <1>2, TypeCorrect, PTL DEF Spec, AdvancesOnlyByFreshTraffic

(***************************************************************************)
(* Refinement: the router implements LeaseContract.                        *)
(***************************************************************************)
AbsEpoch == [n \in Nodes |-> IF Known(n) THEN nodes[n].epoch + 1 ELSE 0]
AbsPhase == [n \in Nodes |-> LeasePhase(n)]
AbsToken == [n \in Nodes |-> IF Leased(n) THEN nodes[n].token ELSE 0]

\* Every step of the router is a step of the contract or leaves it unchanged.
LEMMA ContractStep ==
  TypeOK /\ TypeOK' /\ [Next]_vars => [Contract!Next]_(Contract!vars)
<1> SUFFICES ASSUME TypeOK, TypeOK', [Next]_vars
             PROVE  Contract!Next \/ UNCHANGED Contract!vars
  OBVIOUS
<1> USE DEF AbsEpoch, AbsPhase, AbsToken
<1>0. /\ \A n \in Nodes : nodes[n].epoch \in Nat /\ nodes'[n].epoch \in Nat
      /\ \A n \in Nodes : nodes[n].state \in Lifecycle /\ nodes'[n].state \in Lifecycle
      /\ Len(grants) \in Nat
  BY DEF TypeOK, NodeState
<1>1. ASSUME NEW n \in Nodes, OthersKept(n)
      PROVE  \A m \in Nodes \ {n} : /\ AbsEpoch'[m] = AbsEpoch[m]
                                    /\ AbsPhase'[m] = AbsPhase[m]
                                    /\ AbsToken'[m] = AbsToken[m]
  BY <1>1 DEF OthersKept, Known, LeasePhase, Leased
<1>2. ASSUME NEW n \in Nodes, OthersKept(n), Greets(n)
      PROVE  Contract!Next \/ UNCHANGED Contract!vars
  <2>1. AbsPhase'[n] = "free" /\ AbsToken'[n] = 0 /\ Len(grants)' = Len(grants)
    BY <1>2 DEF Greets, LeasePhase, Leased
  <2>2. CASE AbsEpoch'[n] > AbsEpoch[n]
    <3>1. AbsEpoch'[n] \in Nat
      BY <1>0 DEF Known
    <3>2. /\ AbsEpoch' = [AbsEpoch EXCEPT ![n] = AbsEpoch'[n]]
          /\ AbsPhase' = [AbsPhase EXCEPT ![n] = "free"]
          /\ AbsToken' = [AbsToken EXCEPT ![n] = 0]
      BY <1>1, <1>2, <2>1
    <3>3. Contract!Incarnate(n)
      BY <2>1, <2>2, <3>1, <3>2 DEF Contract!Incarnate
    <3>4. QED
      BY <3>3 DEF Contract!Next
  <2>3. CASE ~(AbsEpoch'[n] > AbsEpoch[n])
    <3>1. AbsEpoch'[n] = AbsEpoch[n]
      BY <1>0, <1>2, <2>3 DEF Greets, FreshSeq, Known
    <3>2. /\ AbsEpoch' = AbsEpoch
          /\ AbsPhase' = [m \in Nodes |-> IF m \in {n} THEN "free" ELSE AbsPhase[m]]
          /\ AbsToken' = [m \in Nodes |-> IF m \in {n} THEN 0 ELSE AbsToken[m]]
      BY <1>1, <1>2, <2>1, <3>1
    <3>3. Contract!Drop
      BY <2>1, <3>2, ZenonT(60) DEF Contract!Drop
    <3>4. QED
      BY <3>3 DEF Contract!Next
  <2>4. QED
    BY <2>2, <2>3
<1>3. ASSUME NEW n \in Nodes, OthersKept(n), Accepted(n)
      PROVE  Contract!Next
  <2>1. /\ AbsPhase[n] = "offered" /\ AbsPhase'[n] = "granted"
        /\ AbsToken'[n] = AbsToken[n] /\ AbsEpoch'[n] = AbsEpoch[n]
        /\ Len(grants)' = Len(grants)
    BY <1>3 DEF Accepted, SameLease, LeasePhase, Leased, Known
  <2>2. Contract!Grant(n)
    BY <1>1, <1>3, <2>1 DEF Contract!Grant
  <2>3. QED
    BY <2>2 DEF Contract!Next
<1>4. ASSUME NEW n \in Nodes, OthersKept(n), KeepsReporting(n) \/ Touched(n)
      PROVE  UNCHANGED Contract!vars
  <2>1. /\ AbsPhase'[n] = AbsPhase[n] /\ AbsToken'[n] = AbsToken[n]
        /\ AbsEpoch'[n] = AbsEpoch[n] /\ Len(grants)' = Len(grants)
    BY <1>4 DEF KeepsReporting, Touched, SameLease, LeasePhase, Leased, Known
  <2>2. QED
    BY <1>1, <1>4, <2>1 DEF Contract!vars
<1>5. ASSUME NEW n \in Nodes, OthersKept(n), Offered(n)
      PROVE  Contract!Next
  <2>1. /\ AbsPhase[n] = "free" /\ AbsPhase'[n] = "offered"
        /\ AbsToken'[n] = Len(grants) + 1 /\ AbsEpoch'[n] = AbsEpoch[n]
    BY <1>5 DEF Offered, LeasePhase, Leased, Known
  <2>2. Len(grants)' = Len(grants) + 1
    BY <1>5 DEF Offered, TypeOK
  <2>3. Contract!Offer(n)
    BY <1>1, <1>5, <2>1, <2>2 DEF Contract!Offer
  <2>4. QED
    BY <2>3 DEF Contract!Next
<1>6. ASSUME TimePasses PROVE Contract!Next
  <2> DEFINE gone == {n \in Nodes : nodes'[n].state = "offline"}
  <2>1. AbsPhase' = [n \in Nodes |-> IF n \in gone THEN "free" ELSE AbsPhase[n]]
    BY <1>6 DEF TimePasses, LeasePhase
  <2>2. AbsToken' = [n \in Nodes |-> IF n \in gone THEN 0 ELSE AbsToken[n]]
    BY <1>6 DEF TimePasses, Leased
  <2>3. AbsEpoch' = AbsEpoch /\ Len(grants)' = Len(grants)
    BY <1>6 DEF TimePasses, Known
  <2>4. gone \in SUBSET Nodes
    OBVIOUS
  <2>5. Contract!Drop
    BY <2>1, <2>2, <2>3, <2>4 DEF Contract!Drop
  <2>6. QED
    BY <2>5 DEF Contract!Next
<1>7. ASSUME nodes' = nodes, grants' = grants PROVE UNCHANGED Contract!vars
  BY <1>7 DEF Contract!vars, Known, LeasePhase, Leased
<1>8. QED
  BY <1>2, <1>3, <1>4, <1>5, <1>6, <1>7, StepShape DEF OneNode

\* The router implements LeaseContract: fresh tokens, grants only after offers,
\* no lease comes back once dropped, no lease survives a new incarnation.
THEOREM RouterKeepsContract == Spec => LeaseContractHolds
<1>1. Init => Contract!Init
  BY DEF Init, Contract!Init, NoNode, Known, LeasePhase, Leased
<1>2. QED
  BY <1>1, ContractStep, TypeCorrect, PTL DEF Spec, LeaseContractHolds, Contract!Spec

\* Every lease in use was granted to its user (issue_invite, lease_ack,
\* validate_tcp_session_binding).
THEOREM LeasesGranted == Spec => []LeasesAreGranted
<1>1. LeaseBoundToIncarnation /\ BindingIsGranted => LeasesAreGranted
  BY DEF LeasesAreGranted
<1> QED BY <1>1, LeaseBound, BindingGranted, PTL

(***************************************************************************)
(* The send scheduler: the rotation.                                       *)
(***************************************************************************)

Queues == [Streams -> Seq(Frames)]

\* What a consumer may hold, and may have in its hand.
Held == [stream : Streams, frame : Frames]
Hands == [Consumers -> {<<>>} \cup {<<h>> : h \in Held}]

SendTypes ==
  /\ program \in Programs
  /\ queue \in Queues
  /\ \A s \in Streams : Len(queue[s]) <= MaxFrames
  /\ order \in Seq(Streams) /\ cursor \in Nat
  /\ hand \in Hands
  /\ number \in [Streams -> 0..(NumModulus - 1)]
  /\ expect \in [Streams -> 0..(NumModulus - 1)]

\* Rotation, cursor and queues as RotationMatchesQueues has them, for any three values.
Rotation(q, o, k) ==
  /\ \A i, j \in 1..Len(o) : o[i] = o[j] => i = j
  /\ \A i \in 1..Len(o) : q[o[i]] # <<>>
  /\ \A s \in Streams : q[s] # <<>> => \E i \in 1..Len(o) : o[i] = s
  /\ k < Len(o) \/ k = 0

LEMMA RemoveAtFacts ==
  ASSUME NEW o \in Seq(Streams), NEW i \in 1..Len(o)
  PROVE  /\ RemoveAt(o, i) \in Seq(Streams) /\ Len(RemoveAt(o, i)) = Len(o) - 1
         /\ \A j \in 1..(Len(o) - 1) :
              RemoveAt(o, i)[j] = IF j < i THEN o[j] ELSE o[j + 1]
<1>1. PICK n \in Nat : n = Len(o)
  OBVIOUS
<1>2. PICK p, r : p = SubSeq(o, 1, i - 1) /\ r = SubSeq(o, i + 1, n)
  OBVIOUS
<1>3. p \in Seq(Streams) /\ Len(p) = i - 1 /\ \A j \in 1..(i - 1) : p[j] = o[j]
  BY <1>1, <1>2
<1>4. r \in Seq(Streams) /\ Len(r) = n - i /\ \A j \in 1..(n - i) : r[j] = o[i + j]
  BY <1>1, <1>2
<1>5. RemoveAt(o, i) = p \o r
  BY <1>1, <1>2 DEF RemoveAt
<1>6. p \o r \in Seq(Streams) /\ Len(p \o r) = n - 1
  BY <1>1, <1>3, <1>4
<1>7. \A j \in 1..(n - 1) : (p \o r)[j] = IF j < i THEN o[j] ELSE o[j + 1]
  <2> TAKE j \in 1..(n - 1)
  <2>1. CASE j < i
    BY <1>1, <1>3, <1>4, <2>1
  <2>2. CASE ~(j < i)
    <3>1. (p \o r)[j] = r[j - (i - 1)]
      BY <1>1, <1>3, <1>4, <2>2
    <3>2. r[j - (i - 1)] = o[i + (j - (i - 1))] /\ i + (j - (i - 1)) = j + 1
      BY <1>1, <1>4, <2>2
    <3> QED BY <2>2, <3>1, <3>2
  <2> QED BY <2>1, <2>2
<1> QED BY <1>1, <1>5, <1>6, <1>7

\* Taking the one place of a stream out of the rotation leaves the others.
LEMMA Leaves ==
  ASSUME NEW q \in Queues, NEW o \in Seq(Streams), NEW k \in Nat, Rotation(q, o, k),
         NEW i \in 1..Len(o), NEW k2 \in Nat, k2 < Len(o) - 1 \/ k2 = 0
  PROVE  Rotation([q EXCEPT ![o[i]] = <<>>], RemoveAt(o, i), k2)
<1>1. PICK n \in Nat, o2 \in Seq(Streams) : n = Len(o) /\ o2 = RemoveAt(o, i)
  BY RemoveAtFacts
<1>2. /\ Len(o2) = n - 1 /\ n >= 1
      /\ \A j \in 1..(n - 1) : o2[j] = IF j < i THEN o[j] ELSE o[j + 1]
  <2>1. /\ Len(RemoveAt(o, i)) = Len(o) - 1
        /\ \A j \in 1..(Len(o) - 1) :
             RemoveAt(o, i)[j] = IF j < i THEN o[j] ELSE o[j + 1]
    BY RemoveAtFacts
  <2>2. n >= 1
    BY <1>1
  <2> QED BY <1>1, <2>1, <2>2
<1>3. PICK q2 : q2 = [q EXCEPT ![o[i]] = <<>>]
  OBVIOUS
<1>4. /\ \A a, b \in 1..n : o[a] = o[b] => a = b
      /\ \A a \in 1..n : q[o[a]] # <<>> /\ o[a] \in Streams
      /\ \A s \in Streams : q[s] # <<>> => \E a \in 1..n : o[a] = s
  BY <1>1 DEF Rotation
<1>5. /\ q2[o[i]] = <<>>
      /\ \A s \in Streams : s # o[i] => q2[s] = q[s]
  BY <1>1, <1>3, <1>4 DEF Queues
<1>6. \A j \in 1..(n - 1) : \E a \in 1..n : o2[j] = o[a] /\ a # i /\ a = IF j < i THEN j ELSE j + 1
  BY <1>1, <1>2
<1>7. \A a, b \in 1..(n - 1) : o2[a] = o2[b] => a = b
  BY <1>1, <1>2, <1>4
<1>8. \A a \in 1..(n - 1) : q2[o2[a]] # <<>>
  BY <1>1, <1>4, <1>5, <1>6
<1>9. ASSUME NEW s \in Streams, q2[s] # <<>> PROVE \E a \in 1..(n - 1) : o2[a] = s
  <2>1. s # o[i] /\ q[s] # <<>>
    BY <1>5, <1>9
  <2>2. PICK a \in 1..n : o[a] = s /\ a # i
    BY <1>4, <2>1
  <2>3. CASE a < i
    BY <1>1, <1>2, <2>2, <2>3
  <2>4. CASE a > i
    <3>1. a - 1 \in 1..(n - 1) /\ o2[a - 1] = o[a]
      BY <1>1, <1>2, <2>2, <2>4
    <3> QED BY <2>2, <3>1
  <2> QED BY <2>2, <2>3, <2>4, <1>1
<1> QED BY <1>1, <1>2, <1>3, <1>7, <1>8, <1>9 DEF Rotation

\* A stream with frames has one place in the rotation, and drop_stream takes that.
LEMMA RemoveFirstFacts ==
  ASSUME NEW o \in Seq(Streams), NEW i \in 1..Len(o),
         \A a, b \in 1..Len(o) : o[a] = o[b] => a = b
  PROVE  RemoveFirst(o, o[i]) = RemoveAt(o, i)
<1>1. {j \in 1..Len(o) : o[j] = o[i]} = {i}
  OBVIOUS
<1>2. Min({i}) = i
  BY DEF Min
<1>3. SelectInSeq(o, LAMBDA v : v = o[i]) = i
  BY <1>1, <1>2 DEF SelectInSeq
<1> QED BY <1>3 DEF RemoveFirst

(***************************************************************************)
(* Frames are numbered modulo NumModulus.                                  *)
(***************************************************************************)

LEMMA ModDiff ==
  ASSUME NEW M \in Nat \ {0}, NEW a \in 0..(M - 1), NEW b \in 0..(M - 1)
  PROVE  (a - b) % M = IF a >= b THEN a - b ELSE a - b + M
<1>1. CASE a >= b
  <2>1. PICK d \in 0..(M - 1) : d = a - b
    BY <1>1
  <2>2. d % M = d
    OBVIOUS
  <2> QED BY <1>1, <2>1, <2>2
<1>2. CASE a < b
  <2>1. PICK d \in (0 - M)..(0 - 1) : d = a - b
    BY <1>2
  <2>2. d % M = d + M
    OBVIOUS
  <2> QED BY <1>2, <2>1, <2>2
<1> QED BY <1>1, <1>2

LEMMA ModSum ==
  ASSUME NEW M \in Nat \ {0}, NEW a \in 0..(M - 1), NEW b \in 0..(M - 1)
  PROVE  (a + b) % M = IF a + b < M THEN a + b ELSE a + b - M
<1>1. CASE a + b < M
  <2>1. PICK d \in 0..(M - 1) : d = a + b
    BY <1>1
  <2>2. d % M = d
    OBVIOUS
  <2> QED BY <1>1, <2>1, <2>2
<1>2. CASE a + b >= M
  <2>1. PICK d \in M..(2 * M - 1) : d = a + b
    BY <1>2
  <2>2. d % M = d - M
    OBVIOUS
  <2> QED BY <1>2, <2>1, <2>2
<1> QED BY <1>1, <1>2

Nums == 0..(NumModulus - 1)

\* The frames q are those from number e up to, and without, number n.
InOrder(q, n, e) ==
  /\ Len(q) = (n - e) % NumModulus
  /\ \A i \in 1..Len(q) : q[i].num = (e + i - 1) % NumModulus

LEMMA NothingLeft ==
  ASSUME NEW n \in Nums
  PROVE  InOrder(<<>>, n, n)
<1>1. (n - n) % NumModulus = 0
  BY SchedulerConstants DEF Nums
<1> QED BY <1>1 DEF InOrder

LEMMA OneMore ==
  ASSUME NEW q \in Seq(Frames), NEW n \in Nums, NEW e \in Nums, NEW f \in Frames, f.num = n,
         InOrder(q, n, e), Len(q) < MaxFrames
  PROVE  InOrder(Append(q, f), (n + 1) % NumModulus, e)
<1>1. PICK M \in Nat \ {0} : M = NumModulus /\ M > MaxFrames + 1
  BY SchedulerConstants
<1>2. PICK k \in Nat : k = Len(q) /\ k + 1 < M
  BY <1>1, SchedulerConstants
<1>3. n \in 0..(M - 1) /\ e \in 0..(M - 1) /\ k = (n - e) % M
  BY <1>1, <1>2 DEF InOrder, Nums
<1>4. k = IF n >= e THEN n - e ELSE n - e + M
  BY <1>3, ModDiff
<1>5. PICK n2 \in 0..(M - 1) : n2 = (n + 1) % M /\ n2 = IF n + 1 < M THEN n + 1 ELSE n + 1 - M
  <2>1. 1 \in 0..(M - 1)
    BY <1>2
  <2>2. (n + 1) % M = IF n + 1 < M THEN n + 1 ELSE n + 1 - M
    BY <1>3, <2>1, ModSum
  <2> QED BY <1>3, <2>2
<1>6. (n2 - e) % M = k + 1
  <2>1. (n2 - e) % M = IF n2 >= e THEN n2 - e ELSE n2 - e + M
    BY <1>3, <1>5, ModDiff
  <2> QED BY <1>2, <1>3, <1>4, <1>5, <2>1
<1>7. (e + k) % M = n
  <2>1. (e + k) % M = IF e + k < M THEN e + k ELSE e + k - M
    <3>1. k \in 0..(M - 1)
      BY <1>2
    <3> QED BY <1>3, <3>1, ModSum
  <2> QED BY <1>3, <1>4, <2>1
<1>8. PICK q2 : q2 = Append(q, f)
  OBVIOUS
<1>9. Len(q2) = k + 1 /\ q2[k + 1] = f /\ \A i \in 1..k : q2[i] = q[i]
  BY <1>2, <1>8
<1>10. \A i \in 1..(k + 1) : q2[i].num = (e + i - 1) % M
  <2> TAKE i \in 1..(k + 1)
  <2>1. CASE i = k + 1
    <3>1. e + i - 1 = e + k
      BY <2>1, <1>3
    <3> QED BY <2>1, <3>1, <1>7, <1>9
  <2>2. CASE i \in 1..k
    BY <1>1, <1>2, <1>9, <2>2 DEF InOrder
  <2> QED BY <2>1, <2>2, <1>2
<1> QED BY <1>1, <1>5, <1>6, <1>8, <1>9, <1>10 DEF InOrder

LEMMA OneLess ==
  ASSUME NEW q \in Seq(Frames), NEW n \in Nums, NEW e \in Nums,
         InOrder(q, n, e), q # <<>>
  PROVE  /\ Head(q).num = e
         /\ InOrder(Tail(q), n, (e + 1) % NumModulus)
<1>1. PICK M \in Nat \ {0} : M = NumModulus
  BY SchedulerConstants
<1>2. PICK k \in Nat : k = Len(q) /\ k >= 1
  BY EmptySeq
<1>3. n \in 0..(M - 1) /\ e \in 0..(M - 1) /\ k = (n - e) % M
  BY <1>1, <1>2 DEF InOrder, Nums
<1>4. k = IF n >= e THEN n - e ELSE n - e + M
  BY <1>3, ModDiff
<1>5. PICK e2 \in 0..(M - 1) : e2 = (e + 1) % M /\ e2 = IF e + 1 < M THEN e + 1 ELSE e + 1 - M
  <2>1. M > 1
    BY <1>1, SchedulerConstants
  <2>2. 1 \in 0..(M - 1)
    BY <2>1
  <2>3. (e + 1) % M = IF e + 1 < M THEN e + 1 ELSE e + 1 - M
    BY <1>3, <2>2, ModSum
  <2> QED BY <1>3, <2>3
<1>6. (n - e2) % M = k - 1
  <2>1. (n - e2) % M = IF n >= e2 THEN n - e2 ELSE n - e2 + M
    BY <1>3, <1>5, ModDiff
  <2> QED BY <1>2, <1>3, <1>4, <1>5, <2>1
<1>7. Head(q) = q[1] /\ Len(Tail(q)) = k - 1 /\ \A i \in 1..(k - 1) : Tail(q)[i] = q[i + 1]
  BY <1>2, HeadTailProperties
<1>8. \A i \in 1..k : q[i].num = (e + i - 1) % M
  BY <1>1, <1>2 DEF InOrder
<1>9. Head(q).num = e
  <2>1. q[1].num = (e + 1 - 1) % M
    BY <1>2, <1>8
  <2>2. e + 1 - 1 = e /\ e % M = e
    BY <1>3
  <2> QED BY <1>7, <2>1, <2>2
<1>10. \A i \in 1..(k - 1) : Tail(q)[i].num = (e2 + i - 1) % M
  <2> TAKE i \in 1..(k - 1)
  <2>1. Tail(q)[i].num = (e + i) % M
    <3>1. q[i + 1].num = (e + (i + 1) - 1) % M
      BY <1>2, <1>8
    <3>2. e + (i + 1) - 1 = e + i
      BY <1>3
    <3> QED BY <1>7, <3>1, <3>2
  <2>2. i \in 0..(M - 1) /\ i - 1 \in 0..(M - 1)
    BY <1>2, <1>3, <1>4
  <2>3. (e + i) % M = IF e + i < M THEN e + i ELSE e + i - M
    BY <1>3, <2>2, ModSum
  <2>4. (e2 + (i - 1)) % M = IF e2 + (i - 1) < M THEN e2 + (i - 1) ELSE e2 + (i - 1) - M
    BY <1>5, <2>2, ModSum
  <2>5. e2 + i - 1 = e2 + (i - 1)
    BY <1>5
  <2>6. (e + i) % M = (e2 + (i - 1)) % M
    <3>1. CASE e + 1 < M
      <4>1. e + i = e2 + (i - 1)
        BY <1>3, <1>5, <3>1
      <4> QED BY <4>1
    <3>2. CASE e + 1 >= M
      <4>1. e2 = 0 /\ e = M - 1
        BY <1>3, <1>5, <3>2
      <4>2. (e + i) % M = i - 1
        BY ONLY <2>2, <2>3, <4>1, M \in Nat
      <4>3. (e2 + (i - 1)) % M = i - 1
        BY ONLY <2>2, <2>4, <4>1, M \in Nat
      <4> QED BY <4>2, <4>3
    <3> QED BY <1>3, <3>1, <3>2
  <2> QED BY <2>1, <2>5, <2>6
<1> QED BY <1>1, <1>5, <1>6, <1>7, <1>9, <1>10 DEF InOrder

(***************************************************************************)
(* Types and rotation, for every program.                                  *)
(***************************************************************************)

Rotates == SendTypes /\ Rotation(queue, order, cursor)

LEMMA AtCursor ==
  ASSUME Rotates, order # <<>>
  PROVE  /\ Wrapped = cursor /\ cursor + 1 \in 1..Len(order) /\ Len(order) \in Nat
         /\ order[cursor + 1] \in Streams
         /\ queue[order[cursor + 1]] \in Seq(Frames) /\ queue[order[cursor + 1]] # <<>>
<1>1. order \in Seq(Streams) /\ cursor \in Nat /\ queue \in Queues
  BY DEF Rotates, SendTypes
<1>2. Len(order) \in Nat /\ Len(order) > 0
  BY <1>1, EmptySeq
<1>3. cursor < Len(order)
  BY <1>2 DEF Rotates, Rotation
<1>4. Wrapped = cursor /\ cursor + 1 \in 1..Len(order)
  BY <1>1, <1>2, <1>3 DEF Wrapped
<1>5. order[cursor + 1] \in Streams
  BY <1>1, <1>4
<1> QED BY <1>1, <1>2, <1>4, <1>5 DEF Rotates, Rotation, Queues

LEMMA EnqueueRotates ==
  ASSUME Rotates, NEW s \in Streams, NEW size \in Sizes, Enqueue(s, size), program' = program
  PROVE  Rotates'
<1>1. /\ queue \in Queues /\ order \in Seq(Streams) /\ cursor \in Nat /\ number[s] \in Nums
      /\ Len(queue[s]) < MaxFrames /\ queue[s] \in Seq(Frames) /\ Len(queue[s]) \in Nat
      /\ MaxFrames \in Nat /\ NumModulus \in Nat /\ NumModulus > 1
  BY SchedulerConstants, SMTT(30) DEF Rotates, SendTypes, Queues, Enqueue, HasRoom, Nums
<1>2. PICK q \in Seq(Frames) : q = Append(queue[s], [num |-> number[s], size |-> size])
  <2>1. [num |-> number[s], size |-> size] \in Frames
    BY <1>1 DEF Frames, Nums
  <2> QED BY <1>1, <2>1, AppendProperties
<1>3. Len(q) = Len(queue[s]) + 1 /\ q # <<>>
  BY <1>1, <1>2
<1>4. queue' = [queue EXCEPT ![s] = q]
  BY <1>2 DEF Enqueue
<1>5. queue' \in Queues /\ queue'[s] = q /\ \A t \in Streams : t # s => queue'[t] = queue[t]
  BY <1>1, <1>4 DEF Queues
<1>6. \A t \in Streams : Len(queue'[t]) <= MaxFrames
  <2>1. Len(q) <= MaxFrames
    BY <1>1, <1>3
  <2>2. \A t \in Streams : Len(queue[t]) <= MaxFrames
    BY DEF Rotates, SendTypes
  <2> QED BY <1>5, <2>1, <2>2
<1>7. number' \in [Streams -> 0..(NumModulus - 1)]
  <2>1. Following(number[s]) \in 0..(NumModulus - 1)
    BY <1>1 DEF Following, Nums
  <2>2. number' = [number EXCEPT ![s] = Following(number[s])]
    BY DEF Enqueue
  <2> QED BY <2>1, <2>2 DEF Rotates, SendTypes
<1>8. order' \in Seq(Streams) /\ Rotation(queue', order', cursor)
  <2>1. /\ \A i, j \in 1..Len(order) : order[i] = order[j] => i = j
        /\ \A i \in 1..Len(order) : queue[order[i]] # <<>> /\ order[i] \in Streams
        /\ \A t \in Streams : queue[t] # <<>> => \E i \in 1..Len(order) : order[i] = t
        /\ cursor < Len(order) \/ cursor = 0
    BY <1>1, SMTT(30) DEF Rotates, Rotation
  <2>2. CASE queue[s] # <<>>
    <3>1. order' = order
      BY <2>2 DEF Enqueue
    <3> QED BY <1>1, <1>3, <1>5, <2>1, <2>2, <3>1 DEF Rotation
  <2>3. CASE queue[s] = <<>>
    <3>1. order' = Append(order, s)
      BY <2>3 DEF Enqueue
    <3>2. PICK n \in Nat, o \in Seq(Streams) : n = Len(order) /\ o = order'
      <4>1. Append(order, s) \in Seq(Streams)
        BY <1>1, AppendProperties
      <4>2. Len(order) \in Nat
        BY <1>1
      <4> QED BY <3>1, <4>1, <4>2
    <3>3. Len(o) = n + 1 /\ o[n + 1] = s /\ \A i \in 1..n : o[i] = order[i]
      BY <1>1, <3>1, <3>2
    <3>4. \A i \in 1..n : order[i] # s
      BY <2>1, <2>3, <3>2
    <3>5. \A i, j \in 1..(n + 1) : o[i] = o[j] => i = j
      BY <2>1, <3>2, <3>3, <3>4
    <3>6. \A i \in 1..(n + 1) : queue'[o[i]] # <<>>
      BY <1>3, <1>5, <2>1, <3>2, <3>3
    <3>7. \A t \in Streams : queue'[t] # <<>> => \E i \in 1..(n + 1) : o[i] = t
      <4> SUFFICES ASSUME NEW t \in Streams, queue'[t] # <<>>
                   PROVE  \E i \in 1..(n + 1) : o[i] = t
        OBVIOUS
      <4>1. CASE t = s
        BY <3>3, <4>1
      <4>2. CASE t # s
        BY <1>5, <2>1, <3>2, <3>3, <4>2
      <4> QED BY <4>1, <4>2
    <3>8. cursor < n + 1 \/ cursor = 0
      BY <1>1, <2>1, <3>2
    <3> QED BY <3>2, <3>3, <3>5, <3>6, <3>7, <3>8 DEF Rotation
  <2> QED BY <2>2, <2>3
<1>9. cursor' = cursor /\ UNCHANGED <<hand, expect, program>>
  BY DEF Enqueue
<1> QED BY <1>5, <1>6, <1>7, <1>8, <1>9 DEF Rotates, SendTypes

\* commit_next_scheduled takes the frame at the cursor.
LEMMA CommitRotates ==
  ASSUME Rotates, Commit
  PROVE  /\ queue' \in Queues /\ \A s \in Streams : Len(queue'[s]) <= MaxFrames
         /\ order' \in Seq(Streams) /\ cursor' \in Nat
         /\ Rotation(queue', order', cursor')
         /\ IF order = <<>> THEN queue' = queue
            ELSE queue' = [queue EXCEPT ![order[cursor + 1]] = Tail(@)]
<1>1. /\ queue \in Queues /\ order \in Seq(Streams) /\ cursor \in Nat /\ MaxFrames \in Nat
      /\ \A s \in Streams : Len(queue[s]) <= MaxFrames
  BY SchedulerConstants DEF Rotates, SendTypes
<1>2. CASE order = <<>>
  BY <1>1, <1>2 DEF Commit, Rotates
<1>3. CASE order # <<>>
  <2>1. PICK n \in Nat, i \in Nat, s \in Streams :
          i \in 1..n /\ n = Len(order) /\ i = cursor + 1 /\ s = order[i] /\ Wrapped = cursor
    BY <1>3, AtCursor
  <2>2. PICK q \in Seq(Frames) : q = Tail(queue[s]) /\ Len(q) = Len(queue[s]) - 1
    BY <1>3, <2>1, AtCursor, HeadTailProperties
  <2>3. /\ queue' = [queue EXCEPT ![s] = q]
        /\ order' = IF q = <<>> THEN RemoveAt(order, i) ELSE order
        /\ cursor' = CursorAfterCommit(q)
    BY <1>3, <2>1, <2>2 DEF Commit
  <2>4. queue' \in Queues /\ queue'[s] = q /\ \A t \in Streams : t # s => queue'[t] = queue[t]
    BY <1>1, <2>3 DEF Queues
  <2>5. \A t \in Streams : Len(queue'[t]) <= MaxFrames
    <3>1. Len(queue[s]) \in Nat
      BY <1>1, <2>1 DEF Queues
    <3>2. Len(q) <= MaxFrames
      BY <1>1, <2>1, <2>2, <3>1
    <3> QED BY <1>1, <2>4, <3>2
  <2>6. CASE q = <<>>
    <3>1. PICK k \in Nat : k = cursor' /\ (k < n - 1 \/ k = 0)
      BY <1>1, <2>1, <2>3, <2>6 DEF CursorAfterCommit
    <3>2. Rotation([queue EXCEPT ![order[i]] = <<>>], RemoveAt(order, i), k)
      BY <1>1, <2>1, <3>1, Leaves DEF Rotates
    <3>3. RemoveAt(order, i) \in Seq(Streams)
      BY <1>1, <2>1, RemoveAtFacts
    <3> QED BY <1>3, <2>1, <2>2, <2>3, <2>4, <2>5, <2>6, <3>1, <3>2, <3>3
  <2>7. CASE q # <<>>
    <3>1. PICK k \in Nat : k = cursor' /\ k < n
      BY <1>1, <2>1, <2>3, <2>7 DEF CursorAfterCommit
    <3>2. Rotation(queue', order, k)
      <4>1. Rotation(queue, order, cursor)
        BY DEF Rotates
      <4>2. \A t \in Streams : queue'[t] # <<>> <=> queue[t] # <<>>
        BY <1>3, <2>1, <2>4, <2>7, AtCursor
      <4>3. \A a \in 1..Len(order) : order[a] \in Streams
        BY <1>1
      <4> QED BY <2>1, <3>1, <4>1, <4>2, <4>3 DEF Rotation
    <3> QED BY <1>1, <1>3, <2>1, <2>2, <2>3, <2>4, <2>5, <2>7, <3>1, <3>2
  <2> QED BY <2>6, <2>7
<1> QED BY <1>2, <1>3

LEMMA DropRotates ==
  ASSUME Rotates, NEW s \in Streams, DropStream(s), program' = program
  PROVE  Rotates'
<1>1. /\ queue \in Queues /\ order \in Seq(Streams) /\ cursor \in Nat /\ MaxFrames \in Nat
      /\ \A t \in Streams : Len(queue[t]) <= MaxFrames
      /\ number \in [Streams -> Nums] /\ expect \in [Streams -> Nums]
  BY SchedulerConstants DEF Rotates, SendTypes, Nums
<1>2. PICK n \in Nat, i \in Nat : i \in 1..n /\ n = Len(order) /\ order[i] = s
  BY <1>1 DEF DropStream, Rotates, Rotation
<1>3. PICK o \in Seq(Streams) : o = RemoveAt(order, i) /\ Len(o) = n - 1
  BY <1>1, <1>2, RemoveAtFacts
<1>4. order' = o
  <2>1. RemoveFirst(order, s) = RemoveAt(order, i)
    BY <1>1, <1>2, RemoveFirstFacts DEF Rotates, Rotation
  <2> QED BY <1>3, <2>1 DEF DropStream
<1>5. PICK k \in Nat : k = cursor' /\ (k < n - 1 \/ k = 0)
  <2>1. cursor' = IF cursor >= n - 1 THEN 0 ELSE cursor
    BY <1>3, <1>4 DEF DropStream
  <2> QED BY <1>1, <1>2, <2>1
<1>6. queue' = [queue EXCEPT ![s] = <<>>]
  BY DEF DropStream
<1>7. Rotation(queue', o, k)
  BY <1>1, <1>2, <1>3, <1>5, <1>6, Leaves DEF Rotates
<1>8. queue' \in Queues /\ \A t \in Streams : Len(queue'[t]) <= MaxFrames
  BY <1>1, <1>6 DEF Queues
<1>9. expect' \in [Streams -> Nums]
  BY <1>1 DEF DropStream
<1>10. UNCHANGED <<hand, number, program>>
  BY DEF DropStream
<1> QED BY <1>1, <1>4, <1>5, <1>7, <1>8, <1>9, <1>10 DEF Rotates, SendTypes, Nums

LEMMA HandFacts ==
  ASSUME NEW h \in Hands, NEW c \in Consumers, h[c] # <<>>
  PROVE  h[c][1] \in Held /\ h[c] = <<h[c][1]>>
<1>1. PICK x \in Held : h[c] = <<x>>
  BY DEF Hands
<1> QED BY <1>1

LEMMA ReceivedTyped ==
  ASSUME Rotates, NEW x \in Held
  PROVE  Received(x.stream, x.frame) \in [Streams -> 0..(NumModulus - 1)]
<1>1. x.stream \in Streams /\ expect \in [Streams -> Nums]
  BY DEF Held, Rotates, SendTypes, Nums
<1>2. Following(expect[x.stream]) \in Nums /\ expect[x.stream] \in Nums
  BY <1>1, SchedulerConstants DEF Following, Nums
<1> QED BY <1>1, <1>2 DEF Received, Nums

LEMMA PeekRotates ==
  ASSUME Rotates, NEW c \in Consumers, Peek(c), program' = program
  PROVE  Rotates'
<1>1. /\ Wrapped = cursor /\ order[cursor + 1] \in Streams
      /\ queue[order[cursor + 1]] \in Seq(Frames) /\ queue[order[cursor + 1]] # <<>>
  BY AtCursor DEF Peek
<1>2. PICK s \in Streams, f \in Frames : s = order[cursor + 1] /\ f = Head(queue[s])
  BY <1>1
<1>3. hand' = [hand EXCEPT ![c] = <<[stream |-> s, frame |-> f]>>] /\ cursor' = cursor
  BY <1>1, <1>2 DEF Peek
<1>4. hand' \in Hands
  <2>1. [stream |-> s, frame |-> f] \in Held
    BY DEF Held
  <2> QED BY <1>3, <2>1 DEF Rotates, SendTypes, Hands
<1>5. UNCHANGED <<queue, order, number, expect, program>>
  BY DEF Peek
<1> QED BY <1>3, <1>4, <1>5 DEF Rotates, SendTypes, Hands

\* Each step of the scheduler with the state it leaves alone.
LEMMA NextRotates ==
  ASSUME Rotates, [SendNext]_sendVars
  PROVE  Rotates'
<1>1. CASE UNCHANGED sendVars
  BY <1>1 DEF sendVars, Rotates, SendTypes
<1>2. CASE SendNext
  <2>1. program' = program
    BY <1>2 DEF SendNext
  <2>2. ASSUME NEW s \in Streams, NEW size \in Sizes, Enqueue(s, size) PROVE Rotates'
    BY <2>1, <2>2, EnqueueRotates
  <2>3. ASSUME NEW c \in Consumers, Peek(c) PROVE Rotates'
    BY <2>1, <2>3, PeekRotates
  <2>4. CASE Transmit
    <3>1. hand["flush"][1] \in Held
      BY <2>4, HandFacts DEF Transmit, Rotates, SendTypes, Consumers
    <3>2. expect' \in [Streams -> 0..(NumModulus - 1)]
      BY <2>4, <3>1, ReceivedTyped DEF Transmit
    <3>3. UNCHANGED <<queue, order, cursor, hand, number>>
      BY <2>4 DEF Transmit
    <3> QED BY <2>1, <3>2, <3>3 DEF Rotates, SendTypes
  <2>5. CASE SendFails
    <3>1. hand' \in Hands
      BY <2>5 DEF SendFails, Rotates, SendTypes, Hands, Consumers
    <3>2. UNCHANGED <<queue, order, cursor, number, expect>>
      BY <2>5 DEF SendFails
    <3> QED BY <2>1, <3>1, <3>2 DEF Rotates, SendTypes
  <2>6. CASE FlushCommit
    <3>1. hand' \in Hands
      BY <2>6 DEF FlushCommit, Rotates, SendTypes, Hands, Consumers
    <3>2. Commit /\ UNCHANGED <<number, expect>>
      BY <2>6 DEF FlushCommit
    <3> QED BY <2>1, <3>1, <3>2, CommitRotates DEF Rotates, SendTypes
  <2>7. CASE PullCommit
    <3>1. hand' \in Hands
      BY <2>7 DEF PullCommit, Rotates, SendTypes, Hands, Consumers
    <3>2. Commit /\ UNCHANGED number
      BY <2>7 DEF PullCommit
    <3>3. expect' \in [Streams -> 0..(NumModulus - 1)]
      <4>1. hand["pull"][1] \in Held
        BY <2>7, HandFacts DEF PullCommit, Rotates, SendTypes, Consumers
      <4> QED BY <2>7, <4>1, ReceivedTyped DEF PullCommit
    <3> QED BY <2>1, <3>1, <3>2, <3>3, CommitRotates DEF Rotates, SendTypes
  <2>8. ASSUME NEW s \in Streams, DropStream(s) PROVE Rotates'
    BY <2>1, <2>8, DropRotates
  <2>9. "flush" \in Consumers /\ "pull" \in Consumers
    BY DEF Consumers
  <2> QED
    <3>1. \/ \E s \in Streams, size \in Sizes : Enqueue(s, size)
          \/ Peek("flush") \/ Transmit \/ SendFails \/ FlushCommit
          \/ Peek("pull") \/ PullCommit
          \/ \E s \in Streams : DropStream(s)
      BY <1>2 DEF SendNext, Flush, Pull
    <3> QED BY <3>1, <2>2, <2>3, <2>4, <2>5, <2>6, <2>7, <2>8, <2>9
<1> QED BY <1>1, <1>2

LEMMA InitRotates ==
  ASSUME SendInit
  PROVE  Rotates
<1>1. /\ queue \in Queues /\ order = <<>> /\ order \in Seq(Streams) /\ cursor = 0
      /\ \A s \in Streams : queue[s] = <<>>
  BY DEF SendInit, Queues
<1>2. hand \in Hands
  BY DEF SendInit, Hands
<1>3. number \in [Streams -> 0..(NumModulus - 1)] /\ expect \in [Streams -> 0..(NumModulus - 1)]
  BY SchedulerConstants DEF SendInit
<1>4. program \in Programs /\ \A s \in Streams : Len(queue[s]) <= MaxFrames
  BY <1>1, SchedulerConstants DEF SendInit
<1>5. Rotation(queue, order, cursor)
  BY <1>1 DEF Rotation
<1> QED BY <1>1, <1>2, <1>3, <1>4, <1>5 DEF Rotates, SendTypes

(***************************************************************************)
(* Consumers that take turns.                                              *)
(***************************************************************************)

\* What is at the cursor.
AtFront == [stream |-> order[cursor + 1], frame |-> Head(queue[order[cursor + 1]])]

\* At most one consumer is between its peek and its commit, with the frame at the cursor.
Turns ==
  /\ \A c, d \in Consumers : hand[c] # <<>> /\ hand[d] # <<>> => c = d
  /\ \A c \in Consumers : hand[c] # <<>> => order # <<>> /\ hand[c] = <<AtFront>>

LEMMA NextTurns ==
  ASSUME Rotates, Turns, program.exclusive, SendNext, sent => hand["flush"] # <<>>
  PROVE  Turns'
<1>1. /\ queue \in Queues /\ order \in Seq(Streams) /\ cursor \in Nat /\ hand \in Hands
  BY DEF Rotates, SendTypes
<1>2. ASSUME hand' = hand, order' = order, cursor' = cursor, queue' = queue PROVE Turns'
  BY <1>2 DEF Turns, AtFront
<1>3. ASSUME \A c \in Consumers : hand'[c] = <<>> PROVE Turns'
  BY <1>3 DEF Turns
<1>4. ASSUME NEW d \in Consumers, hand[d] # <<>>, hand' = [hand EXCEPT ![d] = <<>>] PROVE Turns'
  <2>1. \A c \in Consumers : c # d => hand[c] = <<>>
    BY <1>4 DEF Turns
  <2>2. \A c \in Consumers : hand'[c] = <<>>
    BY <1>1, <1>4, <2>1 DEF Hands
  <2> QED BY <2>2, <1>3
<1>5. ASSUME NEW s \in Streams, NEW size \in Sizes, Enqueue(s, size) PROVE Turns'
  <2>1. hand' = hand /\ cursor' = cursor
    BY <1>5 DEF Enqueue
  <2>2. ASSUME order # <<>> PROVE order' # <<>> /\ AtFront' = AtFront
    <3>1. PICK t \in Streams : /\ t = order[cursor + 1] /\ queue[t] # <<>>
                               /\ queue[t] \in Seq(Frames) /\ cursor + 1 \in 1..Len(order)
      BY <2>2, AtCursor
    <3>2. order' # <<>> /\ order'[cursor + 1] = t
      <4>1. CASE queue[s] = <<>>
        <5>1. order' = Append(order, s)
          BY <1>5, <4>1 DEF Enqueue
        <5> QED BY <1>1, <3>1, <5>1
      <4>2. CASE queue[s] # <<>>
        <5>1. order' = order
          BY <1>5, <4>2 DEF Enqueue
        <5> QED BY <2>2, <3>1, <5>1
      <4> QED BY <4>1, <4>2
    <3>3. Head(queue'[t]) = Head(queue[t])
      <4>1. PICK f : queue' = [queue EXCEPT ![s] = Append(@, f)]
        BY <1>5 DEF Enqueue
      <4>2. CASE t # s
        BY <1>1, <4>1, <4>2 DEF Queues
      <4>3. CASE t = s
        <5>1. queue'[t] = Append(queue[t], f)
          BY <1>1, <4>1, <4>3 DEF Queues
        <5>2. Len(queue[t]) >= 1
          BY <3>1, EmptySeq
        <5> QED BY <3>1, <5>1, <5>2
      <4> QED BY <4>2, <4>3
    <3> QED BY <2>1, <3>1, <3>2, <3>3 DEF AtFront
  <2> QED BY <2>1, <2>2 DEF Turns
<1>6. ASSUME NEW c \in Consumers, Peek(c) PROVE Turns'
  <2>1. Wrapped = cursor /\ order # <<>>
    BY <1>6, AtCursor DEF Peek
  <2>2. hand' = [hand EXCEPT ![c] = <<AtFront>>] /\ cursor' = cursor /\ order' = order /\ queue' = queue
    BY <1>6, <2>1 DEF Peek, AtFront
  <2>3. \A d \in Consumers : hand[d] = <<>>
    BY <1>6 DEF Peek, Idle
  <2>4. hand'[c] = <<AtFront>> /\ \A d \in Consumers : d # c => hand'[d] = <<>>
    BY <1>1, <2>2, <2>3 DEF Hands
  <2>5. AtFront' = AtFront
    BY <2>2 DEF AtFront
  <2> QED BY <2>1, <2>2, <2>4, <2>5 DEF Turns
<1>7. CASE Transmit
  BY <1>2, <1>7, Zenon DEF Transmit
<1>8. "flush" \in Consumers /\ "pull" \in Consumers
  BY DEF Consumers
<1>9. CASE SendFails
  BY <1>4, <1>8, <1>9, Zenon DEF SendFails
<1>10. CASE FlushCommit
  BY <1>4, <1>8, <1>10, Zenon DEF FlushCommit
<1>11. CASE PullCommit
  BY <1>4, <1>8, <1>11, Zenon DEF PullCommit
<1>12. ASSUME NEW s \in Streams, DropStream(s) PROVE Turns'
  <2>1. \A d \in Consumers : hand[d] = <<>>
    BY <1>12 DEF DropStream, Idle
  <2>2. hand' = hand
    BY <1>12 DEF DropStream
  <2> QED BY <2>1, <2>2, <1>3
<1>13. \/ \E s \in Streams, size \in Sizes : Enqueue(s, size)
       \/ Peek("flush") \/ Transmit \/ SendFails \/ FlushCommit
       \/ Peek("pull") \/ PullCommit
       \/ \E s \in Streams : DropStream(s)
  BY DEF SendNext, Flush, Pull
<1> QED BY <1>5, <1>6, <1>7, <1>8, <1>9, <1>10, <1>11, <1>12, <1>13

(***************************************************************************)
(* No frame is lost.                                                       *)
(***************************************************************************)

\* The frames of every stream that are not with the receiver are the numbers it waits for.
InOrderNow == \A s \in Streams : InOrder(Unsent(s), number[s], expect[s])

LEMMA RestIsTail ==
  ASSUME NEW q \in Seq(Frames), q # <<>>
  PROVE  SubSeq(q, 2, Len(q)) = Tail(q) /\ Tail(q) \in Seq(Frames) /\ Len(Tail(q)) = Len(q) - 1
<1>1. PICK n \in Nat : n = Len(q) /\ n >= 1
  BY EmptySeq
<1>2. PICK r : r = SubSeq(q, 2, n)
  OBVIOUS
<1>3. r \in Seq(Frames) /\ Len(r) = n - 1 /\ \A i \in 1..(n - 1) : r[i] = q[i + 1]
  BY <1>1, <1>2
<1>4. PICK t : t = Tail(q)
  OBVIOUS
<1>5. t \in Seq(Frames) /\ Len(t) = n - 1 /\ \A i \in 1..(n - 1) : t[i] = q[i + 1]
  BY <1>1, <1>4, HeadTailProperties
<1>6. r = t
  BY <1>1, <1>3, <1>5, SeqEqual
<1> QED BY <1>1, <1>2, <1>4, <1>5, <1>6

LEMMA TailOfAppend ==
  ASSUME NEW q \in Seq(Frames), q # <<>>, NEW f \in Frames
  PROVE  Tail(Append(q, f)) = Append(Tail(q), f)
<1>1. PICK n \in Nat : n = Len(q) /\ n >= 1
  BY EmptySeq
<1>2. PICK a : a = Append(q, f)
  OBVIOUS
<1>3. /\ a \in Seq(Frames) /\ Len(a) = n + 1 /\ a[n + 1] = f /\ a # <<>>
      /\ \A i \in 1..n : a[i] = q[i]
  BY <1>1, <1>2
<1>4. PICK t, r, u : t = Tail(a) /\ r = Tail(q) /\ u = Append(r, f)
  OBVIOUS
<1>4a. t \in Seq(Frames) /\ Len(t) = n /\ \A i \in 1..n : t[i] = a[i + 1]
  BY <1>1, <1>3, <1>4, HeadTailProperties
<1>5. r \in Seq(Frames) /\ Len(r) = n - 1 /\ \A i \in 1..(n - 1) : r[i] = q[i + 1]
  BY <1>1, <1>4, HeadTailProperties
<1>6. u \in Seq(Frames) /\ Len(u) = n /\ u[n] = f /\ \A i \in 1..(n - 1) : u[i] = r[i]
  BY <1>1, <1>4, <1>5
<1>7. \A i \in 1..n : t[i] = u[i]
  <2> TAKE i \in 1..n
  <2>1. CASE i = n
    BY <1>1, <1>3, <1>4a, <1>6, <2>1
  <2>2. CASE i \in 1..(n - 1)
    <3>1. t[i] = a[i + 1] /\ u[i] = q[i + 1]
      BY <1>4a, <1>5, <1>6, <2>2
    <3>2. i + 1 \in 1..n
      BY <2>2
    <3> QED BY <1>3, <3>1, <3>2
  <2> QED BY <1>1, <2>1, <2>2
<1>8. t = u
  BY <1>4a, <1>6, <1>7, SeqEqual
<1> QED BY <1>2, <1>4, <1>8

\* The frame in the flusher's hand is the first of its stream's queue.
LEMMA InHand ==
  ASSUME Rotates, Turns, NEW c \in Consumers, hand[c] # <<>>
  PROVE  /\ order # <<>> /\ hand[c][1].stream = order[cursor + 1]
         /\ hand[c][1].stream \in Streams
         /\ queue[hand[c][1].stream] \in Seq(Frames) /\ queue[hand[c][1].stream] # <<>>
         /\ hand[c][1].frame = Head(queue[hand[c][1].stream])
<1>1. order # <<>> /\ hand[c] = <<AtFront>>
  BY DEF Turns
<1>2. hand[c][1] = AtFront
  BY <1>1
<1>3. hand[c][1].stream = order[cursor + 1]
      /\ hand[c][1].frame = Head(queue[order[cursor + 1]])
  BY <1>2 DEF AtFront
<1> QED BY <1>1, <1>3, AtCursor

LEMMA UnsentFacts ==
  ASSUME Rotates, Turns, sent => hand["flush"] # <<>>, NEW s \in Streams
  PROVE  /\ queue[s] \in Seq(Frames) /\ Len(queue[s]) \in Nat
         /\ ~sent => Unsent(s) = queue[s]
         /\ sent /\ hand["flush"][1].stream # s => Unsent(s) = queue[s]
         /\ sent /\ hand["flush"][1].stream = s =>
              queue[s] # <<>> /\ Unsent(s) = Tail(queue[s])
<1>1. queue[s] \in Seq(Frames)
  BY DEF Rotates, SendTypes, Queues
<1>2. ASSUME sent, hand["flush"][1].stream = s
      PROVE  queue[s] # <<>> /\ Unsent(s) = Tail(queue[s])
  <2>1. queue[s] # <<>>
    BY <1>2, InHand DEF Consumers
  <2>2. Unsent(s) = SubSeq(queue[s], 2, Len(queue[s]))
    BY <1>2 DEF Unsent
  <2> QED BY <1>1, <2>1, <2>2, RestIsTail
<1>3. ~sent => Unsent(s) = queue[s]
  BY Zenon DEF Unsent
<1>4. hand["flush"][1].stream # s => Unsent(s) = queue[s]
  BY Zenon DEF Unsent
<1> QED BY <1>1, <1>2, <1>3, <1>4

LEMMA StaysInOrder ==
  ASSUME InOrderNow,
         \A s \in Streams : /\ Unsent(s)' = Unsent(s) /\ number'[s] = number[s]
                            /\ expect'[s] = expect[s]
  PROVE  InOrderNow'
BY DEF InOrderNow

LEMMA EnqueueInOrder ==
  ASSUME Rotates, Turns, sent => hand["flush"] # <<>>, InOrderNow, program.tracked,
         NEW s \in Streams, NEW size \in Sizes, Enqueue(s, size)
  PROVE  InOrderNow'
<1>1. /\ queue \in Queues /\ number \in [Streams -> Nums] /\ expect \in [Streams -> Nums]
      /\ Len(queue[s]) < MaxFrames /\ queue[s] \in Seq(Frames) /\ Len(queue[s]) \in Nat
      /\ MaxFrames \in Nat
  BY SchedulerConstants, SMTT(30) DEF Rotates, SendTypes, Queues, Enqueue, HasRoom, Nums
<1>2. PICK f \in Frames : f = [num |-> number[s], size |-> size] /\ f.num = number[s]
  <2>1. [num |-> number[s], size |-> size] \in Frames
    BY <1>1 DEF Frames, Nums
  <2> QED BY <2>1
<1>3. queue' = [queue EXCEPT ![s] = Append(@, f)] /\ expect' = expect
  BY <1>2 DEF Enqueue
<1>4. sent' = sent /\ hand' = hand
  BY DEF Enqueue
<1>5. number' = [number EXCEPT ![s] = (number[s] + 1) % NumModulus]
  BY DEF Enqueue, Following
<1>6. ASSUME NEW t \in Streams, t # s
      PROVE  InOrder(Unsent(t)', number'[t], expect'[t])
  <2>1. queue'[t] = queue[t] /\ number'[t] = number[t]
    BY <1>1, <1>3, <1>5, <1>6 DEF Queues
  <2>2. Unsent(t)' = Unsent(t)
    BY <1>4, <2>1 DEF Unsent
  <2> QED BY <1>3, <2>1, <2>2 DEF InOrderNow
<1>7. Unsent(s)' = Append(Unsent(s), f) /\ Unsent(s) \in Seq(Frames)
      /\ Len(Unsent(s)) < MaxFrames
  <2>1. queue'[s] = Append(queue[s], f)
    BY <1>1, <1>3 DEF Queues
  <2>2. CASE sent /\ hand["flush"][1].stream = s
    <3>1. queue[s] # <<>> /\ Unsent(s) = Tail(queue[s])
      BY <2>2, UnsentFacts
    <3>2. Unsent(s)' = SubSeq(queue'[s], 2, Len(queue'[s]))
      BY <1>4, <2>2 DEF Unsent
    <3>3. queue'[s] \in Seq(Frames) /\ queue'[s] # <<>>
      BY <1>1, <2>1, AppendProperties
    <3>4. Unsent(s)' = Tail(queue'[s])
      BY <3>2, <3>3, RestIsTail
    <3>5. Tail(queue[s]) \in Seq(Frames) /\ Len(Tail(queue[s])) < MaxFrames
      BY <1>1, <3>1, RestIsTail
    <3> QED BY <1>1, <2>1, <3>1, <3>4, <3>5, TailOfAppend
  <2>3. CASE ~(sent /\ hand["flush"][1].stream = s)
    <3>1. Unsent(s) = queue[s]
      BY <2>3 DEF Unsent
    <3>2. Unsent(s)' = queue'[s]
      BY <1>4, <2>3 DEF Unsent
    <3> QED BY <1>1, <2>1, <3>1, <3>2
  <2> QED BY <2>2, <2>3
<1>8. InOrder(Unsent(s)', number'[s], expect'[s])
  <2>1. InOrder(Unsent(s), number[s], expect[s])
    BY DEF InOrderNow
  <2>2. number[s] \in Nums /\ expect[s] \in Nums
    BY <1>1
  <2>3. InOrder(Append(Unsent(s), f), (number[s] + 1) % NumModulus, expect[s])
    BY <1>2, <1>7, <2>1, <2>2, OneMore
  <2>4. number'[s] = (number[s] + 1) % NumModulus
    BY <1>1, <1>5
  <2> QED BY <1>3, <1>7, <2>3, <2>4
<1> QED BY <1>6, <1>8 DEF InOrderNow

\* The receiver takes a frame it waits for.
LEMMA ReceivedNext ==
  ASSUME Rotates, InOrderNow, program.tracked, NEW x \in Held,
         queue[x.stream] # <<>>, Unsent(x.stream) = queue[x.stream],
         x.frame = Head(queue[x.stream])
  PROVE  /\ x.stream \in Streams /\ queue[x.stream] \in Seq(Frames)
         /\ x.frame.num = expect[x.stream]
         /\ InOrder(Tail(queue[x.stream]), number[x.stream],
                    Received(x.stream, x.frame)[x.stream])
         /\ \A t \in Streams : t # x.stream => Received(x.stream, x.frame)[t] = expect[t]
<1>1. PICK s \in Streams : s = x.stream
  BY DEF Held
<1>2. /\ queue[s] \in Seq(Frames) /\ number[s] \in Nums /\ expect[s] \in Nums
      /\ expect \in [Streams -> Nums]
  BY DEF Rotates, SendTypes, Queues, Nums
<1>3. InOrder(queue[s], number[s], expect[s])
  BY <1>1 DEF InOrderNow
<1>4. /\ Head(queue[s]).num = expect[s]
      /\ InOrder(Tail(queue[s]), number[s], (expect[s] + 1) % NumModulus)
  BY <1>1, <1>2, <1>3, OneLess
<1>5. Received(s, x.frame) = [expect EXCEPT ![s] = (expect[s] + 1) % NumModulus]
  BY <1>1, <1>2, <1>4 DEF Received, Following
<1> QED BY <1>1, <1>2, <1>4, <1>5

\* What Commit does while a consumer holds the frame at the cursor.
LEMMA CommitTakes ==
  ASSUME Rotates, Turns, Commit, NEW c \in Consumers, hand[c] # <<>>
  PROVE  /\ queue'[hand[c][1].stream] = Tail(queue[hand[c][1].stream])
         /\ \A t \in Streams : t # hand[c][1].stream => queue'[t] = queue[t]
<1>1. PICK s \in Streams : s = hand[c][1].stream /\ s = order[cursor + 1] /\ order # <<>>
  BY InHand
<1>2. queue' = [queue EXCEPT ![s] = Tail(@)]
  BY <1>1, CommitRotates
<1>3. queue \in Queues
  BY DEF Rotates, SendTypes
<1> QED BY <1>1, <1>2, <1>3 DEF Queues

LEMMA TransmitInOrder ==
  ASSUME Rotates, Turns, InOrderNow, program.tracked, Transmit
  PROVE  InOrderNow'
<1>1. /\ hand["flush"] # <<>> /\ ~sent /\ sent'
      /\ queue' = queue /\ hand' = hand /\ number' = number
      /\ expect' = Received(hand["flush"][1].stream, hand["flush"][1].frame)
  BY Zenon DEF Transmit
<1>2. PICK x \in Held, s \in Streams : x = hand["flush"][1] /\ s = x.stream
  <2>1. hand["flush"][1] \in Held
    BY <1>1, HandFacts DEF Rotates, SendTypes, Consumers
  <2> QED BY <2>1 DEF Held
<1>3. queue[s] \in Seq(Frames) /\ queue[s] # <<>> /\ x.frame = Head(queue[s])
  BY <1>1, <1>2, InHand DEF Consumers
<1>4. \A t \in Streams : Unsent(t) = queue[t]
  BY <1>1, Zenon DEF Unsent
<1>5. /\ InOrder(Tail(queue[s]), number[s], expect'[s])
      /\ \A t \in Streams : t # s => expect'[t] = expect[t]
  BY <1>1, <1>2, <1>3, <1>4, ReceivedNext
<1>6. Unsent(s)' = Tail(queue[s])
  <2>1. Unsent(s)' = SubSeq(queue'[s], 2, Len(queue'[s]))
    BY <1>1, <1>2, Zenon DEF Unsent
  <2> QED BY <1>1, <1>3, <2>1, RestIsTail
<1>7. \A t \in Streams : t # s => Unsent(t)' = Unsent(t)
  <2> TAKE t \in Streams
  <2> HAVE t # s
  <2>1. Unsent(t)' = queue'[t]
    BY <1>1, <1>2, Zenon DEF Unsent
  <2> QED BY <1>1, <1>4, <2>1
<1>8. ASSUME NEW t \in Streams PROVE InOrder(Unsent(t)', number'[t], expect'[t])
  <2>1. CASE t = s
    BY <1>1, <1>5, <1>6, <2>1, Zenon
  <2>2. CASE t # s
    <3>1. InOrder(Unsent(t), number[t], expect[t])
      BY DEF InOrderNow
    <3> QED BY <1>1, <1>5, <1>7, <2>2, <3>1, Zenon
  <2> QED BY <2>1, <2>2
<1> QED BY <1>8, Zenon DEF InOrderNow

LEMMA FlushCommitInOrder ==
  ASSUME Rotates, Turns, sent => hand["flush"] # <<>>, InOrderNow, FlushCommit
  PROVE  InOrderNow'
<1>1. sent /\ Commit /\ ~sent' /\ number' = number /\ expect' = expect
  BY Zenon DEF FlushCommit
<1>2. hand["flush"] # <<>>
  BY <1>1
<1>3. PICK s \in Streams : s = hand["flush"][1].stream
  BY <1>2, InHand DEF Consumers
<1>4. queue'[s] = Tail(queue[s]) /\ \A t \in Streams : t # s => queue'[t] = queue[t]
  BY <1>1, <1>2, <1>3, CommitTakes DEF Consumers
<1>5. Unsent(s) = Tail(queue[s]) /\ \A t \in Streams : t # s => Unsent(t) = queue[t]
  BY <1>1, <1>2, <1>3, UnsentFacts
<1>6. \A t \in Streams : Unsent(t)' = queue'[t]
  BY <1>1, Zenon DEF Unsent
<1>7. \A t \in Streams : Unsent(t)' = Unsent(t)
  BY <1>4, <1>5, <1>6
<1> QED BY <1>1, <1>7, StaysInOrder

LEMMA PullCommitInOrder ==
  ASSUME Rotates, Turns, sent => hand["flush"] # <<>>, InOrderNow, program.tracked, PullCommit
  PROVE  InOrderNow'
<1>1. /\ hand["pull"] # <<>> /\ Commit /\ sent' = sent /\ number' = number
      /\ expect' = Received(hand["pull"][1].stream, hand["pull"][1].frame)
  BY Zenon DEF PullCommit
<1>2. ~sent
  BY <1>1 DEF Turns, Consumers
<1>3. PICK x \in Held, s \in Streams : x = hand["pull"][1] /\ s = x.stream
  <2>1. hand["pull"][1] \in Held
    BY <1>1, HandFacts DEF Rotates, SendTypes, Consumers
  <2> QED BY <2>1 DEF Held
<1>4. queue[s] \in Seq(Frames) /\ queue[s] # <<>> /\ x.frame = Head(queue[s])
  BY <1>1, <1>3, InHand DEF Consumers
<1>5. \A t \in Streams : Unsent(t) = queue[t] /\ Unsent(t)' = queue'[t]
  BY <1>1, <1>2, Zenon DEF Unsent
<1>6. /\ InOrder(Tail(queue[s]), number[s], expect'[s])
      /\ \A t \in Streams : t # s => expect'[t] = expect[t]
  BY <1>1, <1>3, <1>4, <1>5, ReceivedNext
<1>7. queue'[s] = Tail(queue[s]) /\ \A t \in Streams : t # s => queue'[t] = queue[t]
  BY <1>1, <1>3, CommitTakes DEF Consumers
<1>8. ASSUME NEW t \in Streams PROVE InOrder(Unsent(t)', number'[t], expect'[t])
  <2>1. CASE t = s
    BY <1>1, <1>5, <1>6, <1>7, <2>1
  <2>2. CASE t # s
    <3>1. InOrder(Unsent(t), number[t], expect[t])
      BY DEF InOrderNow
    <3> QED BY <1>1, <1>5, <1>6, <1>7, <2>2, <3>1
  <2> QED BY <2>1, <2>2
<1> QED BY <1>8, Zenon DEF InOrderNow

LEMMA DropInOrder ==
  ASSUME Rotates, sent => hand["flush"] # <<>>, InOrderNow, program.exclusive,
         NEW s \in Streams, DropStream(s)
  PROVE  InOrderNow'
<1>1. /\ queue' = [queue EXCEPT ![s] = <<>>] /\ expect' = [expect EXCEPT ![s] = number[s]]
      /\ number' = number /\ sent' = sent
  BY DEF DropStream
<1>2. ~sent
  BY DEF DropStream, Idle, Consumers
<1>3. \A t \in Streams : Unsent(t) = queue[t] /\ Unsent(t)' = queue'[t]
  BY <1>1, <1>2, Zenon DEF Unsent
<1>4. queue \in Queues /\ expect \in [Streams -> Nums] /\ number[s] \in Nums
  BY DEF Rotates, SendTypes, Nums
<1>5. InOrder(<<>>, number[s], number[s])
  BY <1>4, NothingLeft
<1>6. ASSUME NEW t \in Streams PROVE InOrder(Unsent(t)', number'[t], expect'[t])
  <2>1. CASE t = s
    BY <1>1, <1>3, <1>4, <1>5, <2>1 DEF Queues
  <2>2. CASE t # s
    <3>1. InOrder(Unsent(t), number[t], expect[t])
      BY DEF InOrderNow
    <3> QED BY <1>1, <1>3, <1>4, <2>2, <3>1 DEF Queues
  <2> QED BY <2>1, <2>2
<1> QED BY <1>6, Zenon DEF InOrderNow

LEMMA QuietInOrder ==
  ASSUME InOrderNow, ~sent, ~sent', UNCHANGED <<queue, number, expect>>
  PROVE  InOrderNow'
<1>1. \A t \in Streams : Unsent(t) = queue[t] /\ Unsent(t)' = queue'[t]
  BY Zenon DEF Unsent
<1> QED BY <1>1, StaysInOrder

LEMMA NextInOrder ==
  ASSUME Rotates, Turns, sent => hand["flush"] # <<>>, InOrderNow,
         program.exclusive, program.tracked, SendNext
  PROVE  InOrderNow'
<1>1. ASSUME NEW c \in Consumers, Peek(c) PROVE InOrderNow'
  <2>1. ~sent
    BY <1>1 DEF Peek, Idle, Consumers
  <2>2. ~sent' /\ UNCHANGED <<queue, number, expect>>
    BY <1>1, <2>1 DEF Peek
  <2> QED BY <2>1, <2>2, QuietInOrder
<1>2. CASE SendFails
  BY <1>2, QuietInOrder DEF SendFails
<1>3. \/ \E s \in Streams, size \in Sizes : Enqueue(s, size)
      \/ Peek("flush") \/ Transmit \/ SendFails \/ FlushCommit
      \/ Peek("pull") \/ PullCommit
      \/ \E s \in Streams : DropStream(s)
  BY DEF SendNext, Flush, Pull
<1>4. "flush" \in Consumers /\ "pull" \in Consumers
  BY DEF Consumers
<1> QED BY <1>1, <1>2, <1>3, <1>4, EnqueueInOrder, TransmitInOrder, FlushCommitInOrder,
           PullCommitInOrder, DropInOrder

(***************************************************************************)
(* The invariant of the scheduler.                                         *)
(***************************************************************************)

\* The inductive invariant of FramesArriveInOrder.
SendInv ==
  /\ Rotates
  /\ sent \in BOOLEAN /\ (sent => hand["flush"] # <<>>)
  /\ program.exclusive => Turns
  /\ program.tracked => InOrderNow

\* Programs whose frames are followed keep drops and other consumers out of the gaps of a
\* consumer (nothing in transport.cpp does it for them).
TakeTurns == \A p \in Programs : p.tracked => p.exclusive

LEMMA SendInvInit ==
  ASSUME SendInit
  PROVE  SendInv
<1>1. Rotates
  BY InitRotates
<1>2. hand["flush"] = <<>> /\ \A c \in Consumers : hand[c] = <<>>
  BY DEF SendInit, Consumers
<1>3. Turns
  BY <1>2 DEF Turns
<1>4. sent \in BOOLEAN /\ ~sent
  BY DEF SendInit
<1>5. InOrderNow
  <2> SUFFICES ASSUME NEW s \in Streams PROVE InOrder(Unsent(s), number[s], expect[s])
    BY DEF InOrderNow
  <2>1. Unsent(s) = <<>> /\ number[s] = 0 /\ expect[s] = 0
    BY <1>4 DEF SendInit, Unsent
  <2>2. 0 \in Nums
    BY SchedulerConstants DEF Nums
  <2> QED BY <2>1, <2>2, NothingLeft
<1> QED BY <1>1, <1>3, <1>4, <1>5 DEF SendInv

LEMMA SentHasFrame ==
  ASSUME Rotates, sent \in BOOLEAN, sent => hand["flush"] # <<>>, SendNext
  PROVE  sent' \in BOOLEAN /\ (sent' => hand'["flush"] # <<>>)
<1>1. hand \in Hands /\ "flush" \in Consumers /\ "pull" \in Consumers /\ "pull" # "flush"
  BY DEF Rotates, SendTypes, Consumers
<1>2. ASSUME NEW s \in Streams, NEW size \in Sizes, Enqueue(s, size)
      PROVE  sent' = sent /\ hand' = hand
  BY <1>2 DEF Enqueue
<1>3. ASSUME NEW c \in Consumers, Peek(c)
      PROVE  sent' = sent /\ (hand["flush"] # <<>> => hand'["flush"] # <<>>)
  <2>1. PICK x : hand' = [hand EXCEPT ![c] = <<x>>] /\ sent' = sent
    BY <1>3 DEF Peek
  <2>2. hand'["flush"] = hand["flush"] \/ hand'["flush"] = <<x>>
    BY <1>1, <2>1 DEF Hands
  <2> QED BY <2>1, <2>2
<1>4. ASSUME Transmit PROVE sent' = TRUE /\ hand' = hand /\ hand["flush"] # <<>>
  BY <1>4, Zenon DEF Transmit
<1>5. ASSUME SendFails PROVE sent' = sent /\ ~sent
  BY <1>5 DEF SendFails
<1>6. ASSUME FlushCommit PROVE sent' = FALSE
  BY <1>6, Zenon DEF FlushCommit
<1>7. ASSUME PullCommit PROVE sent' = sent /\ hand'["flush"] = hand["flush"]
  BY <1>1, <1>7 DEF PullCommit, Hands
<1>8. ASSUME NEW s \in Streams, DropStream(s) PROVE sent' = sent /\ hand' = hand
  BY <1>8 DEF DropStream
<1>9. \/ \E s \in Streams, size \in Sizes : Enqueue(s, size)
      \/ Peek("flush") \/ Transmit \/ SendFails \/ FlushCommit
      \/ Peek("pull") \/ PullCommit
      \/ \E s \in Streams : DropStream(s)
  BY DEF SendNext, Flush, Pull
<1>10. CASE Transmit
  BY <1>4, <1>10, Zenon
<1>11. CASE FlushCommit
  BY <1>6, <1>11, Zenon
<1>12. CASE ~Transmit /\ ~FlushCommit
  BY <1>1, <1>2, <1>3, <1>5, <1>7, <1>8, <1>9, <1>12
<1> QED BY <1>10, <1>11, <1>12

LEMMA SendInvNext ==
  ASSUME TakeTurns, SendInv, [SendNext]_sendVars
  PROVE  SendInv'
<1>1. Rotates'
  BY NextRotates DEF SendInv
<1>2. CASE UNCHANGED sendVars
  <2>1. /\ Turns' = Turns /\ InOrderNow' = InOrderNow /\ program' = program
        /\ sent' = sent /\ hand' = hand
    BY <1>2 DEF sendVars, Turns, AtFront, InOrderNow, Unsent
  <2> QED BY <1>1, <2>1 DEF SendInv
<1>3. CASE SendNext
  <2>1. program' = program
    BY <1>3 DEF SendNext
  <2>2. sent' \in BOOLEAN /\ (sent' => hand'["flush"] # <<>>)
    BY <1>3, SentHasFrame DEF SendInv
  <2>3. program.exclusive => Turns'
    BY <1>3, NextTurns DEF SendInv
  <2>4. program.tracked => program.exclusive
    BY DEF TakeTurns, SendInv, Rotates, SendTypes
  <2>5. program.tracked => InOrderNow'
    BY <1>3, <2>4, NextInOrder DEF SendInv
  <2> QED BY <1>1, <2>1, <2>2, <2>3, <2>5 DEF SendInv
<1> QED BY <1>2, <1>3

\* What a consumer holds is the frame at the cursor and nobody else is in its gap, and the
\* frames that are left are those the receiver waits for, for any streams, limits and modulus
\* (enqueue_raw, flush_scheduled, pull_next_scheduled, drop_stream).
THEOREM SendInvariant ==
  ASSUME TakeTurns
  PROVE  SendSpec => []SendInv
<1>1. SendInit => SendInv
  BY SendInvInit
<1>2. SendInv /\ [SendNext]_sendVars => SendInv'
  BY SendInvNext
<1> QED BY <1>1, <1>2, PTL DEF SendSpec

\* "Zero Silent Loss" for programs that take turns: frames go out once, in order, and none is
\* lost, whichever consumer takes them (flush_scheduled, pull_next_scheduled).
THEOREM NoFrameIsLost ==
  ASSUME TakeTurns
  PROVE  SendSpec => []FramesArriveInOrder
<1>1. ASSUME SendInv PROVE ZeroSilentLoss
  <2> SUFFICES ASSUME program.tracked, NEW s \in Streams
               PROVE  /\ Len(Unsent(s)) = (number[s] - expect[s]) % NumModulus
                      /\ \A i \in DOMAIN Unsent(s) :
                           Unsent(s)[i].num = (expect[s] + i - 1) % NumModulus
    BY DEF ZeroSilentLoss
  <2>1. Rotates /\ Turns /\ (sent => hand["flush"] # <<>>) /\ InOrderNow
    BY <1>1 DEF SendInv, TakeTurns, Rotates, SendTypes
  <2>2. InOrder(Unsent(s), number[s], expect[s])
    BY <2>1 DEF InOrderNow
  <2>3. Unsent(s) \in Seq(Frames)
    BY <2>1, UnsentFacts, RestIsTail
  <2>4. DOMAIN Unsent(s) = 1..Len(Unsent(s))
    BY <2>3
  <2> QED BY <2>2, <2>4 DEF InOrder
<1>2. ASSUME SendInv PROVE HandIsNext
  <2> SUFFICES ASSUME NEW c \in Consumers, program.tracked, hand[c] # <<>>,
                      ~(c = "flush" /\ sent)
               PROVE  hand[c][1].frame.num = expect[hand[c][1].stream]
    BY DEF HandIsNext
  <2>1. Rotates /\ Turns /\ (sent => hand["flush"] # <<>>) /\ InOrderNow
    BY <1>2 DEF SendInv, TakeTurns, Rotates, SendTypes
  <2>2. ~sent
    BY <2>1 DEF Turns, Consumers
  <2>3. PICK x \in Held, s \in Streams : x = hand[c][1] /\ s = x.stream
    <3>1. hand[c][1] \in Held
      BY <2>1, HandFacts DEF Rotates, SendTypes
    <3> QED BY <3>1 DEF Held
  <2>4. queue[s] # <<>> /\ x.frame = Head(queue[s])
    BY <2>1, <2>3, InHand
  <2>5. Unsent(s) = queue[s]
    BY <2>2, Zenon DEF Unsent
  <2> QED BY <2>1, <2>3, <2>4, <2>5, ReceivedNext
<1>3. SendInv => FramesArriveInOrder
  BY <1>1, <1>2 DEF FramesArriveInOrder
<1> QED BY <1>3, SendInvariant, PTL

(***************************************************************************)
(* Sums over a finite set, by induction on its size.                       *)
(***************************************************************************)

NatLess == {p \in Nat \X Nat : p[1] < p[2]}

LEMMA LeastNat ==
  ASSUME NEW T \in SUBSET Nat, T # {}
  PROVE  \E n \in T : \A m \in T : n <= m
<1>1. IsWellFoundedOn(NatLess, Nat)
  BY NatLessThanWellFounded DEF NatLess, OpToRel
<1>2. \E n \in T : \A m \in T : ~(<<m, n>> \in NatLess)
  BY <1>1, WFMin
<1>3. \A m \in T, n \in T : <<m, n>> \in NatLess <=> m < n
  BY DEF NatLess
<1>4. PICK n \in T : \A m \in T : ~(<<m, n>> \in NatLess)
  BY <1>2
<1>5. \A m \in T : n <= m
  <2> TAKE m \in T
  <2>1. ~(m < n)
    BY <1>3, <1>4
  <2> QED BY <2>1
<1> QED BY <1>5

\* Induction, with the set of the numbers that have a property for the property.
LEMMA EveryNat ==
  ASSUME NEW P \in SUBSET Nat, 0 \in P, \A n \in P : n + 1 \in P
  PROVE  P = Nat
<1> SUFFICES ASSUME Nat \ P # {} PROVE FALSE
  OBVIOUS
<1>1. PICK n \in Nat \ P : \A m \in Nat \ P : n <= m
  BY LeastNat
<1>2. n # 0 /\ n - 1 \in Nat
  BY <1>1
<1>3. n - 1 \in P
  BY <1>1, <1>2
<1>4. (n - 1) + 1 \in P /\ (n - 1) + 1 = n
  BY <1>2, <1>3
<1> QED BY <1>4, <1>1

LEMMA MaxFacts ==
  ASSUME NEW n \in Nat, NEW T \in SUBSET (1..n), T # {}
  PROVE  Max(T) \in T
<1>1. PICK U : U = {n - x : x \in T}
  OBVIOUS
<1>1a. U \in SUBSET Nat
  BY <1>1
<1>2. U # {}
  BY <1>1
<1>3. PICK u \in U : \A m \in U : u <= m
  BY <1>1a, <1>2, LeastNat
<1>4. PICK x \in T : u = n - x
  BY <1>1, <1>3
<1>5. \A y \in T : x >= y
  <2> TAKE y \in T
  <2>1. n - y \in U /\ x \in 1..n /\ y \in 1..n
    BY <1>1
  <2> QED BY <1>3, <1>4, <2>1
<1> QED BY <1>5 DEF Max

\* `it' sums the values of f over the subsets of S, taking away ch[T] from T first.
SumsBy(it, S, f, ch) ==
  /\ it[{}] = 0
  /\ \A T \in SUBSET S : T # {} /\ it[T \ {ch[T]}] \in Nat =>
       it[T] = f[ch[T]] + it[T \ {ch[T]}]

\* `it' does not depend on which element is taken away first.
Additive(it, S, f) ==
  \A T \in SUBSET S : it[T] \in Nat /\ \A x \in T : it[T] = f[x] + it[T \ {x}]

CanSum(S, f, ch) ==
  \E it \in [SUBSET S -> Nat] : \A T \in SUBSET S :
    it[T] = IF T = {} THEN 0 ELSE f[ch[T]] + it[T \ {ch[T]}]

Picks(ch, S) == \A T \in SUBSET S : T # {} => ch[T] \in T

LEMMA SumFacts ==
  ASSUME NEW S, IsFiniteSet(S), NEW f \in [S -> Nat], NEW ch, Picks(ch, S),
         NEW it, SumsBy(it, S, f, ch)
  PROVE  Additive(it, S, f)
<1> DEFINE Fine(T) == it[T] \in Nat /\ \A x \in T : it[T] = f[x] + it[T \ {x}]
<1>1. PICK P \in SUBSET Nat :
        P = {n \in Nat : \A T \in SUBSET S : Cardinality(T) <= n => Fine(T)}
  OBVIOUS
<1>2. \A T \in SUBSET S : IsFiniteSet(T) /\ Cardinality(T) \in Nat
  BY FS_Subset, FS_CardinalityType
<1>3. 0 \in P
  <2>1. ASSUME NEW T \in SUBSET S, Cardinality(T) <= 0 PROVE Fine(T)
    <3>1. T = {}
      BY <1>2, <2>1, FS_EmptySet
    <3> QED BY <3>1 DEF SumsBy
  <2> QED BY <1>1, <2>1
<1>4. ASSUME NEW n \in P PROVE n + 1 \in P
  <2>1. ASSUME NEW T \in SUBSET S, Cardinality(T) = n + 1 PROVE Fine(T)
    <3>1. T # {} /\ n \in Nat
      BY <1>2, <2>1, <1>1, FS_EmptySet
    <3>2. \A x \in T : T \ {x} \in SUBSET S /\ Cardinality(T \ {x}) <= n
      BY <1>2, <2>1, <3>1, FS_RemoveElement
    <3>3. \A x \in T : Fine(T \ {x})
      BY <1>1, <1>4, <3>2
    <3>4. PICK y \in T : y = ch[T]
      BY <3>1 DEF Picks
    <3>5. it[T] = f[y] + it[T \ {y}] /\ it[T \ {y}] \in Nat
      BY <3>1, <3>3, <3>4 DEF SumsBy
    <3>6. it[T] \in Nat
      <4>1. f[y] \in Nat
        BY <3>4
      <4> QED BY <3>5, <4>1
    <3>7. ASSUME NEW x \in T, x # y PROVE it[T] = f[x] + it[T \ {x}]
      <4>1. (T \ {y}) \ {x} = (T \ {x}) \ {y}
        OBVIOUS
      <4>2. it[T \ {y}] = f[x] + it[(T \ {y}) \ {x}]
        BY <3>3, <3>4, <3>7
      <4>3. it[T \ {x}] = f[y] + it[(T \ {x}) \ {y}]
        BY <3>3, <3>4, <3>7
      <4>4. PICK z : z = it[(T \ {y}) \ {x}]
        OBVIOUS
      <4>5. (T \ {y}) \ {x} \in SUBSET S /\ Cardinality((T \ {y}) \ {x}) <= n
        <5>1. Cardinality((T \ {y}) \ {x}) <= Cardinality(T \ {y})
          BY <1>2, <3>4, FS_Subset
        <5>2. (T \ {y}) \ {x} \in SUBSET S
          OBVIOUS
        <5> QED BY <1>2, <3>1, <3>2, <3>4, <5>1, <5>2
      <4>6. z \in Nat
        BY <1>1, <1>4, <4>4, <4>5
      <4>7. f[x] \in Nat /\ f[y] \in Nat
        BY <3>4, <3>7
      <4> QED BY <3>5, <4>1, <4>2, <4>3, <4>4, <4>6, <4>7
    <3> QED BY <3>5, <3>6, <3>7
  <2>2. \A T \in SUBSET S : Cardinality(T) <= n + 1 => Fine(T)
    <3> SUFFICES ASSUME NEW T \in SUBSET S, Cardinality(T) <= n + 1 PROVE Fine(T)
      OBVIOUS
    <3>1. CASE Cardinality(T) = n + 1
      BY <2>1, <3>1
    <3>2. CASE Cardinality(T) <= n
      BY <1>1, <1>4, <3>2
    <3>3. n \in Nat
      BY <1>1
    <3> QED BY <1>2, <3>1, <3>2, <3>3
  <2> QED BY <1>1, <2>2
<1>5. P = Nat
  BY <1>3, <1>4, EveryNat
<1>6. \A T \in SUBSET S : Fine(T)
  <2> TAKE T \in SUBSET S
  <2>1. Cardinality(T) \in P /\ Cardinality(T) <= Cardinality(T)
    BY <1>2, <1>5
  <2> QED BY <1>1, <2>1
<1> QED BY <1>6 DEF Additive

LEMMA SumExists ==
  ASSUME NEW S, IsFiniteSet(S), NEW f \in [S -> Nat], NEW ch, Picks(ch, S)
  PROVE  CanSum(S, f, ch)
<1> DEFINE Small(n) == {T \in SUBSET S : Cardinality(T) <= n}
           Value(g, T) == IF T = {} THEN 0 ELSE f[ch[T]] + g[T \ {ch[T]}]
           Has(n) == \E g \in [Small(n) -> Nat] : \A T \in Small(n) : g[T] = Value(g, T)
<1>1. PICK P \in SUBSET Nat : P = {n \in Nat : Has(n)}
  OBVIOUS
<1>2. \A T \in SUBSET S : IsFiniteSet(T) /\ Cardinality(T) \in Nat
  BY FS_Subset, FS_CardinalityType
<1>3. 0 \in P
  <2>1. \A T \in Small(0) : T = {}
    BY <1>2, FS_EmptySet
  <2>2. PICK g : g = [T \in Small(0) |-> 0]
    OBVIOUS
  <2>3. g \in [Small(0) -> Nat] /\ \A T \in Small(0) : g[T] = Value(g, T)
    BY <2>1, <2>2
  <2>4. Has(0)
    BY <2>3
  <2> QED BY <1>1, <2>4
<1>4. ASSUME NEW n \in P PROVE n + 1 \in P
  <2>1. n \in Nat /\ Has(n)
    BY <1>1
  <2>2. PICK g \in [Small(n) -> Nat] : \A T \in Small(n) : g[T] = Value(g, T)
    BY <2>1
  <2>3. PICK h : h = [T \in Small(n + 1) |-> IF T \in Small(n) THEN g[T] ELSE Value(g, T)]
    OBVIOUS
  <2>4. \A T \in Small(n + 1) : T # {} => T \ {ch[T]} \in Small(n) /\ ch[T] \in S
    <3> SUFFICES ASSUME NEW T \in Small(n + 1), T # {}
                 PROVE  T \ {ch[T]} \in Small(n) /\ ch[T] \in S
      OBVIOUS
    <3>1. ch[T] \in T
      BY DEF Picks
    <3>2. Cardinality(T \ {ch[T]}) = Cardinality(T) - 1
      BY <1>2, <3>1, FS_RemoveElement
    <3> QED BY <1>2, <2>1, <3>1, <3>2
  <2>5. Small(n) \subseteq Small(n + 1)
    BY <1>2, <2>1
  <2>6. h \in [Small(n + 1) -> Nat]
    <3>1. \A T \in Small(n + 1) : Value(g, T) \in Nat
      BY <2>4
    <3> QED BY <2>3, <3>1
  <2>7. \A T \in Small(n + 1) : h[T] = Value(h, T)
    <3> SUFFICES ASSUME NEW T \in Small(n + 1) PROVE h[T] = Value(h, T)
      OBVIOUS
    <3>1. h[T] = Value(g, T)
      BY <2>2, <2>3
    <3>2. Value(g, T) = Value(h, T)
      <4>1. CASE T = {}
        BY <4>1
      <4>2. CASE T # {}
        <5>1. T \ {ch[T]} \in Small(n)
          BY <2>4, <4>2
        <5>2. h[T \ {ch[T]}] = g[T \ {ch[T]}]
          BY <2>3, <2>5, <5>1
        <5> QED BY <4>2, <5>2
      <4> QED BY <4>1, <4>2
    <3> QED BY <3>1, <3>2
  <2>8. Has(n + 1)
    BY <2>6, <2>7
  <2>9. n + 1 \in Nat
    BY <2>1
  <2> HIDE DEF Has
  <2> QED BY <1>1, <2>8, <2>9
<1>5. P = Nat
  BY <1>3, <1>4, EveryNat
<1>6. PICK n \in Nat : n = Cardinality(S) /\ Has(n)
  BY <1>1, <1>5, FS_CardinalityType
<1>7. Small(n) = SUBSET S
  BY <1>6, FS_Subset
<1> QED BY <1>6, <1>7 DEF CanSum

(***************************************************************************)
(* The byte counters are the bytes queued.                                 *)
(***************************************************************************)

Total(b) == MapThenSumSet(LAMBDA s : b[s], Streams)

\* One of the functions that sum b over the sets of streams.
LEMMA TotalSums ==
  ASSUME NEW b \in [Streams -> Nat], IsFiniteSet(Streams)
  PROVE  \E it : /\ SumsBy(it, Streams, b, [T \in SUBSET Streams |-> CHOOSE x \in T : TRUE])
                 /\ Total(b) = it[Streams]
<1>1. PICK ch : ch = [T \in SUBSET Streams |-> CHOOSE x \in T : TRUE]
  OBVIOUS
<1>2. \A T \in SUBSET Streams : T # {} => ch[T] \in T
  BY <1>1
<1>3. \E it \in [SUBSET Streams -> Nat] : \A T \in SUBSET Streams :
        it[T] = IF T = {} THEN 0 ELSE b[ch[T]] + it[T \ {ch[T]}]
  <2>1. Picks(ch, Streams)
    BY <1>2, Zenon DEF Picks
  <2>2. b \in [Streams -> Nat] /\ IsFiniteSet(Streams)
    OBVIOUS
  <2>3. CanSum(Streams, b, ch)
    BY <2>1, <2>2, SumExists
  <2> QED BY <2>3 DEF CanSum
<1> DEFINE Sums(it) ==
      it = [T \in SUBSET Streams |->
              IF T = {} THEN 0
              ELSE b[CHOOSE x \in T : TRUE] + it[T \ {CHOOSE x \in T : TRUE}]]
<1>4. \E it : Sums(it)
  <2>1. PICK it \in [SUBSET Streams -> Nat] : \A T \in SUBSET Streams :
          it[T] = IF T = {} THEN 0 ELSE b[ch[T]] + it[T \ {ch[T]}]
    BY <1>3
  <2>2. Sums(it)
    BY <1>1, <2>1
  <2> QED BY <2>2
<1>5. PICK it : it = CHOOSE g : Sums(g)
  OBVIOUS
<1>6. Sums(it)
  BY <1>4, <1>5
<1>7. Total(b) = it[Streams]
  BY <1>5, Zenon DEF Total, MapThenSumSet, MapThenFoldSet
<1>8. \A T \in SUBSET Streams :
        it[T] = IF T = {} THEN 0 ELSE b[ch[T]] + it[T \ {ch[T]}]
  BY <1>1, <1>6
<1>9. SumsBy(it, Streams, b, ch)
  BY <1>8 DEF SumsBy
<1> QED BY <1>1, <1>7, <1>9

LEMMA TotalFacts ==
  ASSUME NEW b \in [Streams -> Nat], IsFiniteSet(Streams), NEW s \in Streams, NEW v \in Nat
  PROVE  /\ Total(b) \in Nat /\ Total(b) >= b[s]
         /\ Total([b EXCEPT ![s] = v]) = Total(b) - b[s] + v
<1>1. PICK ch : ch = [T \in SUBSET Streams |-> CHOOSE x \in T : TRUE]
  OBVIOUS
<1>2. Picks(ch, Streams)
  BY <1>1 DEF Picks
<1>3. PICK b2 \in [Streams -> Nat] : b2 = [b EXCEPT ![s] = v]
  OBVIOUS
<1>4. PICK it : SumsBy(it, Streams, b, ch) /\ Total(b) = it[Streams]
  BY <1>1, TotalSums
<1>5. PICK g : SumsBy(g, Streams, b2, ch) /\ Total(b2) = g[Streams]
  BY <1>1, TotalSums
<1>6a. \A T \in SUBSET Streams : it[T] \in Nat /\ \A x \in T : it[T] = b[x] + it[T \ {x}]
  <2>1. Additive(it, Streams, b)
    BY <1>2, <1>4, SumFacts
  <2> QED BY <2>1 DEF Additive
<1>6b. \A T \in SUBSET Streams : g[T] \in Nat /\ \A x \in T : g[T] = b2[x] + g[T \ {x}]
  <2>1. Additive(g, Streams, b2)
    BY <1>2, <1>5, SumFacts
  <2> QED BY <2>1 DEF Additive
<1>6. /\ \A T \in SUBSET Streams : it[T] \in Nat /\ \A x \in T : it[T] = b[x] + it[T \ {x}]
      /\ \A T \in SUBSET Streams : g[T] \in Nat /\ \A x \in T : g[T] = b2[x] + g[T \ {x}]
  BY <1>6a, <1>6b, Zenon
<1>7. \A T \in SUBSET Streams : IsFiniteSet(T) /\ Cardinality(T) \in Nat
  BY FS_Subset, FS_CardinalityType
<1> DEFINE Same(n) ==
      \A T \in SUBSET Streams : Cardinality(T) <= n /\ s \notin T => it[T] = g[T]
<1>8. PICK P \in SUBSET Nat : P = {n \in Nat : Same(n)}
  OBVIOUS
<1>9. 0 \in P
  <2>1. Same(0)
    <3> SUFFICES ASSUME NEW T \in SUBSET Streams, Cardinality(T) <= 0 PROVE it[T] = g[T]
      OBVIOUS
    <3>1. T = {}
      BY <1>7, FS_EmptySet
    <3> QED BY <1>4, <1>5, <3>1 DEF SumsBy
  <2> QED BY <1>8, <2>1
<1>10. ASSUME NEW n \in P PROVE n + 1 \in P
  <2>1. n \in Nat /\ Same(n)
    BY <1>8
  <2>2. Same(n + 1)
    <3> SUFFICES ASSUME NEW T \in SUBSET Streams, Cardinality(T) <= n + 1, s \notin T
                 PROVE  it[T] = g[T]
      OBVIOUS
    <3>1. CASE T = {}
      BY <1>4, <1>5, <3>1 DEF SumsBy
    <3>2. CASE T # {}
      <4>1. PICK x \in T : x \in Streams /\ x # s
        BY <3>2
      <4>2. Cardinality(T \ {x}) <= n /\ T \ {x} \in SUBSET Streams /\ s \notin T \ {x}
        BY <1>7, <2>1, <4>1, FS_RemoveElement
      <4>3. it[T \ {x}] = g[T \ {x}]
        BY <2>1, <4>2
      <4>4. b2[x] = b[x]
        BY <1>3, <4>1
      <4>5. it[T] = b[x] + it[T \ {x}] /\ g[T] = b2[x] + g[T \ {x}]
        BY <1>6, <4>1
      <4> QED BY <4>3, <4>4, <4>5
    <3> QED BY <3>1, <3>2
  <2>3. n + 1 \in Nat
    BY <2>1
  <2> HIDE DEF Same
  <2> QED BY <1>8, <2>2, <2>3
<1>11. P = Nat
  BY <1>9, <1>10, EveryNat
<1>12. it[Streams \ {s}] = g[Streams \ {s}]
  <2>1. Streams \ {s} \in SUBSET Streams /\ s \notin Streams \ {s}
    OBVIOUS
  <2>2. PICK n \in Nat : n = Cardinality(Streams \ {s})
    BY <1>7, <2>1
  <2>3. Same(n)
    BY <1>8, <1>11
  <2>4. Cardinality(Streams \ {s}) <= n
    BY <2>2
  <2> QED BY <2>1, <2>3, <2>4, Zenon
<1>13. /\ it[Streams] = b[s] + it[Streams \ {s}] /\ it[Streams \ {s}] \in Nat
       /\ g[Streams] = b2[s] + g[Streams \ {s}]
  <2>1. Streams \in SUBSET Streams /\ Streams \ {s} \in SUBSET Streams
    OBVIOUS
  <2> QED BY <1>6, <2>1
<1>14. b2[s] = v /\ b[s] \in Nat
  BY <1>3
<1> QED BY <1>3, <1>4, <1>5, <1>12, <1>13, <1>14

LEMMA TotalOfNothing ==
  ASSUME IsFiniteSet(Streams)
  PROVE  Total([s \in Streams |-> 0]) = 0
<1>1. PICK b \in [Streams -> Nat] : b = [s \in Streams |-> 0]
  OBVIOUS
<1>2. PICK ch : ch = [T \in SUBSET Streams |-> CHOOSE x \in T : TRUE]
  OBVIOUS
<1>3. Picks(ch, Streams)
  BY <1>2 DEF Picks
<1>4. PICK it : SumsBy(it, Streams, b, ch) /\ Total(b) = it[Streams]
  BY <1>2, TotalSums
<1>5. \A T \in SUBSET Streams : it[T] \in Nat /\ \A x \in T : it[T] = b[x] + it[T \ {x}]
  <2>1. Additive(it, Streams, b)
    BY <1>3, <1>4, SumFacts
  <2> QED BY <2>1 DEF Additive
<1>6. \A T \in SUBSET Streams : IsFiniteSet(T) /\ Cardinality(T) \in Nat
  BY FS_Subset, FS_CardinalityType
<1> DEFINE None(n) == \A T \in SUBSET Streams : Cardinality(T) <= n => it[T] = 0
<1>7. PICK P \in SUBSET Nat : P = {n \in Nat : None(n)}
  OBVIOUS
<1>8. it[{}] = 0
  BY <1>4 DEF SumsBy
<1>9. 0 \in P
  <2>1. None(0)
    BY <1>6, <1>8, FS_EmptySet
  <2> QED BY <1>7, <2>1
<1>10. ASSUME NEW n \in P PROVE n + 1 \in P
  <2>1. n \in Nat /\ None(n)
    BY <1>7
  <2>2. None(n + 1)
    <3> SUFFICES ASSUME NEW T \in SUBSET Streams, Cardinality(T) <= n + 1 PROVE it[T] = 0
      OBVIOUS
    <3>1. CASE T = {}
      BY <1>8, <3>1
    <3>2. CASE T # {}
      <4>1. PICK x \in T : x \in Streams
        BY <3>2
      <4>2. Cardinality(T \ {x}) <= n /\ T \ {x} \in SUBSET Streams
        BY <1>6, <2>1, <4>1, FS_RemoveElement
      <4>3. it[T \ {x}] = 0 /\ b[x] = 0
        BY <1>1, <2>1, <4>1, <4>2
      <4> QED BY <1>5, <4>1, <4>3
    <3> QED BY <3>1, <3>2
  <2>3. n + 1 \in Nat
    BY <2>1
  <2> HIDE DEF None
  <2> QED BY <1>7, <2>2, <2>3
<1>11. P = Nat
  BY <1>9, <1>10, EveryNat
<1>12. PICK n \in Nat : n = Cardinality(Streams)
  BY FS_CardinalityType
<1>13. None(n)
  BY <1>7, <1>11
<1> QED BY <1>1, <1>4, <1>12, <1>13

BytesOf(q) == FoldLeft(LAMBDA n, f : n + f.size, 0, q)

\* p counts the bytes of the first frames of q.
Counts(p, q) ==
  /\ p \in [0..Len(q) -> Nat] /\ p[0] = 0
  /\ \A k \in 1..Len(q) : p[k] = p[k - 1] + q[k].size

LEMMA FrameSize ==
  ASSUME NEW f \in Frames
  PROVE  f.size \in Nat
BY SchedulerConstants DEF Frames

LEMMA BytesCount ==
  ASSUME NEW q \in Seq(Frames)
  PROVE  \E p : Counts(p, q) /\ BytesOf(q) = p[Len(q)]
<1>1. PICK n, S : n \in Nat /\ n = Len(q) /\ S = 1..n /\ DOMAIN q = S
  OBVIOUS
<1>2. PICK ch, f : ch = [T \in SUBSET S |-> Max(T)] /\ f = [i \in S |-> q[i].size]
  OBVIOUS
<1>3. IsFiniteSet(S)
  BY <1>1, FS_Interval
<1>4. f \in [S -> Nat]
  BY <1>1, <1>2, FrameSize
<1>5. Picks(ch, S)
  BY <1>1, <1>2, MaxFacts DEF Picks
<1> DEFINE Sums(it) ==
      it = [T \in SUBSET DOMAIN q |->
              IF T = {} THEN 0 ELSE it[T \ {Max(T)}] + q[Max(T)].size]
<1>6. \E it : Sums(it)
  <2>1. CanSum(S, f, ch)
    BY <1>3, <1>4, <1>5, SumExists
  <2>2. PICK it \in [SUBSET S -> Nat] : \A T \in SUBSET S :
          it[T] = IF T = {} THEN 0 ELSE f[ch[T]] + it[T \ {ch[T]}]
    BY <2>1 DEF CanSum
  <2>3. ASSUME NEW T \in SUBSET S, T # {}
        PROVE  it[T] = it[T \ {Max(T)}] + q[Max(T)].size
    <3>1. ch[T] = Max(T) /\ ch[T] \in S /\ T \ {ch[T]} \in SUBSET S
      BY <1>2, <1>5, <2>3 DEF Picks
    <3>2. f[ch[T]] = q[ch[T]].size /\ f[ch[T]] \in Nat
      BY <1>2, <1>4, <3>1
    <3>3. it[T \ {ch[T]}] \in Nat
      BY <3>1
    <3> QED BY <2>2, <2>3, <3>1, <3>2, <3>3
  <2>4. \A T \in SUBSET S :
          it[T] = IF T = {} THEN 0 ELSE it[T \ {Max(T)}] + q[Max(T)].size
    BY <2>2, <2>3
  <2>5. Sums(it)
    BY <1>1, <2>4
  <2> QED BY <2>5
<1>7. PICK it : it = CHOOSE g : Sums(g)
  OBVIOUS
<1>8. Sums(it)
  BY <1>6, <1>7
<1>9. BytesOf(q) = it[DOMAIN q]
  BY <1>7, Zenon DEF BytesOf, FoldLeft, MapThenFoldSet
<1>10. SumsBy(it, S, f, ch)
  <2>1. \A T \in SUBSET S :
          it[T] = IF T = {} THEN 0 ELSE it[T \ {Max(T)}] + q[Max(T)].size
    BY <1>1, <1>8
  <2>2. it[{}] = 0
    BY <2>1
  <2>3. ASSUME NEW T \in SUBSET S, T # {}, it[T \ {ch[T]}] \in Nat
        PROVE  it[T] = f[ch[T]] + it[T \ {ch[T]}]
    <3>1. ch[T] = Max(T) /\ ch[T] \in S
      BY <1>2, <1>5, <2>3 DEF Picks
    <3>2. f[ch[T]] = q[ch[T]].size /\ f[ch[T]] \in Nat
      BY <1>2, <1>4, <3>1
    <3> QED BY <2>1, <2>3, <3>1, <3>2
  <2> QED BY <2>2, <2>3 DEF SumsBy
<1>11. \A T \in SUBSET S : it[T] \in Nat /\ \A x \in T : it[T] = f[x] + it[T \ {x}]
  <2>1. Additive(it, S, f)
    BY <1>3, <1>4, <1>5, <1>10, SumFacts
  <2> QED BY <2>1 DEF Additive
<1>12. PICK p : p = [k \in 0..n |-> it[1..k]]
  OBVIOUS
<1>13. \A k \in 0..n : 1..k \in SUBSET S
  BY <1>1
<1>14. p \in [0..n -> Nat]
  BY <1>11, <1>12, <1>13
<1>15. p[0] = 0
  <2>1. 1..0 = {}
    OBVIOUS
  <2>2. p[0] = it[1..0]
    BY <1>1, <1>12
  <2>3. it[{}] = 0
    BY <1>10 DEF SumsBy
  <2> QED BY <2>1, <2>2, <2>3, Zenon
<1>16. ASSUME NEW k \in 1..n PROVE p[k] = p[k - 1] + q[k].size
  <2>1. (1..k) \ {k} = 1..(k - 1) /\ k \in 1..k /\ k - 1 \in 0..n /\ k \in 0..n
    BY <1>1
  <2>2. it[1..k] = f[k] + it[(1..k) \ {k}]
    BY <1>11, <1>13, <2>1
  <2>3. f[k] = q[k].size /\ f[k] \in Nat
    BY <1>1, <1>2, <1>4
  <2>4. p[k] = it[1..k] /\ p[k - 1] = it[1..(k - 1)] /\ p[k - 1] \in Nat
    BY <1>12, <1>14, <2>1
  <2>5. p[k] = q[k].size + p[k - 1]
    BY <2>1, <2>2, <2>3, <2>4, Zenon
  <2>6. q[k].size \in Nat
    BY <2>3
  <2> QED BY <2>4, <2>5, <2>6
<1>17. Counts(p, q)
  BY <1>1, <1>14, <1>15, <1>16 DEF Counts
<1>18. p[n] = it[S]
  BY <1>1, <1>12
<1> QED BY <1>1, <1>9, <1>17, <1>18

\* A counter is determined by the frames; j frames of q are before those of r and p counted
\* d bytes of them.
Follows(q, r, m, j) ==
  m <= Len(r) /\ j + m <= Len(q) /\ \A k \in 1..m : r[k] = q[j + k]

LEMMA CountsAgree ==
  ASSUME NEW q \in Seq(Frames), NEW p, Counts(p, q), NEW r \in Seq(Frames), NEW u, Counts(u, r),
         NEW m \in Nat, NEW d \in Nat, NEW j \in Nat,
         Follows(q, r, m, j), p[j] = d
  PROVE  p[j + m] = d + u[m]
<1>1. /\ p \in [0..Len(q) -> Nat] /\ Len(q) \in Nat
      /\ \A k \in 1..Len(q) : p[k] = p[k - 1] + q[k].size
      /\ u \in [0..Len(r) -> Nat] /\ Len(r) \in Nat /\ u[0] = 0
      /\ \A k \in 1..Len(r) : u[k] = u[k - 1] + r[k].size
  BY DEF Counts
<1>1a. m <= Len(r) /\ j + m <= Len(q) /\ \A k \in 1..m : r[k] = q[j + k]
  BY DEF Follows
<1> DEFINE Agree(k) == k <= m => p[j + k] = d + u[k]
<1>2. PICK P \in SUBSET Nat : P = {k \in Nat : Agree(k)}
  OBVIOUS
<1>3. 0 \in P
  BY <1>1, <1>2
<1>4. ASSUME NEW k \in P PROVE k + 1 \in P
  <2>1. k \in Nat /\ Agree(k)
    BY <1>2
  <2>2. Agree(k + 1)
    <3> SUFFICES ASSUME k + 1 <= m PROVE p[j + (k + 1)] = d + u[k + 1]
      OBVIOUS
    <3>1. p[j + k] = d + u[k]
      BY <2>1
    <3>2. PICK i \in 1..Len(q) : i = j + (k + 1) /\ i - 1 = j + k
      BY <1>1, <1>1a, <2>1
    <3>3. p[i] = p[i - 1] + q[i].size
      BY <1>1, <3>2
    <3>4. PICK l \in 1..Len(r) : l = k + 1 /\ l - 1 = k /\ l \in 1..m
      BY <1>1, <1>1a, <2>1
    <3>5. u[l] = u[l - 1] + r[l].size
      BY <1>1, <3>4
    <3>6. r[l] = q[i] /\ q[i] \in Frames
      BY <1>1a, <3>2, <3>4
    <3>7. q[i].size \in Nat
      BY <3>6, FrameSize
    <3>8. u[k] \in Nat
      <4>1. k \in 0..Len(r)
        BY <1>1, <1>1a, <2>1
      <4> QED BY <1>1, <4>1
    <3> QED BY <3>1, <3>2, <3>3, <3>4, <3>5, <3>6, <3>7, <3>8, SMTT(30)
  <2>3. k + 1 \in Nat
    BY <2>1
  <2> HIDE DEF Agree
  <2> QED BY <1>2, <2>2, <2>3
<1>5. P = Nat
  BY <1>3, <1>4, EveryNat
<1>6. Agree(m)
  BY <1>2, <1>5
<1> QED BY <1>6

LEMMA BytesFacts ==
  /\ BytesOf(<<>>) = 0
  /\ \A q \in Seq(Frames) : BytesOf(q) \in Nat
  /\ \A q \in Seq(Frames), f \in Frames : BytesOf(Append(q, f)) = BytesOf(q) + f.size
  /\ \A q \in Seq(Frames) : q # <<>> => BytesOf(q) = Head(q).size + BytesOf(Tail(q))
<1>1. ASSUME NEW q \in Seq(Frames) PROVE BytesOf(q) \in Nat
  <2>1. PICK p : Counts(p, q) /\ BytesOf(q) = p[Len(q)]
    BY BytesCount
  <2>2. Len(q) \in 0..Len(q)
    OBVIOUS
  <2> QED BY <2>1, <2>2 DEF Counts
<1>2. BytesOf(<<>>) = 0
  <2>1. PICK q : q = <<>> /\ q \in Seq(Frames) /\ Len(q) = 0
    <3>1. <<>> \in Seq(Frames) /\ Len(<<>>) = 0
      OBVIOUS
    <3> QED BY <3>1, Zenon
  <2>2. PICK p : Counts(p, q) /\ BytesOf(q) = p[Len(q)]
    BY <2>1, BytesCount
  <2> QED BY <2>1, <2>2 DEF Counts
<1>3. ASSUME NEW q \in Seq(Frames), NEW f \in Frames
      PROVE  BytesOf(Append(q, f)) = BytesOf(q) + f.size
  <2>1. PICK a \in Seq(Frames), n \in Nat : a = Append(q, f) /\ n = Len(q)
    <3>1. Append(q, f) \in Seq(Frames)
      BY AppendProperties
    <3>2. Len(q) \in Nat
      OBVIOUS
    <3> QED BY <3>1, <3>2
  <2>2. Len(a) = n + 1 /\ a[n + 1] = f /\ \A k \in 1..n : a[k] = q[k]
    BY <2>1
  <2>3. PICK p : Counts(p, a) /\ BytesOf(a) = p[n + 1]
    BY <2>2, BytesCount
  <2>4. PICK u : Counts(u, q) /\ BytesOf(q) = u[n]
    BY <2>1, BytesCount
  <2>5. \A k \in 1..n : q[k] = a[0 + k]
    BY <2>1, <2>2
  <2>6. p[0] = 0 /\ n <= Len(q) /\ 0 + n <= Len(a)
    BY <2>1, <2>2, <2>3 DEF Counts
  <2>6a. Follows(a, q, n, 0)
    BY <2>5, <2>6 DEF Follows
  <2>7. p[0 + n] = 0 + u[n]
    <3>1. PICK z \in Nat : z = 0
      OBVIOUS
    <3>2. p[z] = z /\ Follows(a, q, n, z)
      BY <2>6, <2>6a, <3>1
    <3>3. p[z + n] = z + u[n]
      BY <2>3, <2>4, <3>2, CountsAgree
    <3> QED BY <3>1, <3>3
  <2>8. u[n] \in Nat
    BY <1>1, <2>4
  <2>9. p[n + 1] = p[(n + 1) - 1] + a[n + 1].size
    BY <2>1, <2>2, <2>3 DEF Counts
  <2>10. 0 + n = n /\ (n + 1) - 1 = n /\ f.size \in Nat
    BY <2>1, FrameSize
  <2> QED BY <2>1, <2>2, <2>3, <2>4, <2>7, <2>8, <2>9, <2>10
<1>4. ASSUME NEW q \in Seq(Frames), q # <<>>
      PROVE  BytesOf(q) = Head(q).size + BytesOf(Tail(q))
  <2>1. PICK t \in Seq(Frames), n \in Nat : t = Tail(q) /\ n = Len(t) /\ Len(q) = n + 1
    <3>1. Tail(q) \in Seq(Frames) /\ Len(Tail(q)) = Len(q) - 1 /\ Len(q) \in Nat
      BY <1>4, HeadTailProperties
    <3>2. Len(Tail(q)) \in Nat /\ Len(q) = Len(Tail(q)) + 1
      BY <3>1
    <3> QED BY <3>1, <3>2, Zenon
  <2>2. Head(q) = q[1] /\ q[1] \in Frames /\ \A k \in 1..n : t[k] = q[1 + k]
    BY <1>4, <2>1, HeadTailProperties
  <2>3. PICK p : Counts(p, q) /\ BytesOf(q) = p[n + 1]
    BY <2>1, BytesCount
  <2>4. PICK u : Counts(u, t) /\ BytesOf(t) = u[n]
    BY <2>1, BytesCount
  <2>5. PICK d \in Nat : d = q[1].size
    BY <2>2, FrameSize
  <2>6. p[1] = d
    <3>1. 1 \in 1..Len(q) /\ 1 - 1 = 0
      BY <2>1
    <3>2. p[1] = p[1 - 1] + q[1].size /\ p[0] = 0
      BY <2>3, <3>1 DEF Counts
    <3> QED BY <2>5, <3>1, <3>2
  <2>6a. Follows(q, t, n, 1)
    BY <2>1, <2>2 DEF Follows
  <2>7. p[1 + n] = d + u[n]
    BY <2>3, <2>4, <2>6, <2>6a, CountsAgree
  <2>8. 1 + n = n + 1
    OBVIOUS
  <2> QED BY <2>1, <2>2, <2>3, <2>4, <2>5, <2>7, <2>8
<1> QED BY <1>1, <1>2, <1>3, <1>4

\* The counters are the bytes queued, as BytesAreExact has it.
Counters(qs, b, t) ==
  /\ b \in [Streams -> Nat]
  /\ \A s \in Streams : b[s] = BytesOf(qs[s]) /\ b[s] <= MaxStreamBytes
  /\ t = Total(b) /\ t <= MaxTotalBytes

CountersOK == Counters(queue, bytes, total)

\* The counter of one stream goes to v, its queue to q, and the total by the difference.
LEMMA CounterMoves ==
  ASSUME Rotates, CountersOK, NEW s \in Streams, NEW q \in Seq(Frames), NEW v \in Nat,
         queue' = [queue EXCEPT ![s] = q], bytes' = [bytes EXCEPT ![s] = v],
         v = BytesOf(q), v <= MaxStreamBytes,
         total' = total - bytes[s] + v, total' <= MaxTotalBytes
  PROVE  CountersOK'
<1>1. queue \in Queues /\ bytes \in [Streams -> Nat]
  BY DEF Rotates, SendTypes, CountersOK, Counters
<1>2. bytes' \in [Streams -> Nat] /\ bytes'[s] = v /\ queue'[s] = q
      /\ \A t \in Streams : t # s => bytes'[t] = bytes[t] /\ queue'[t] = queue[t]
  BY <1>1 DEF Queues
<1>3. \A t \in Streams : bytes'[t] = BytesOf(queue'[t]) /\ bytes'[t] <= MaxStreamBytes
  BY <1>2 DEF CountersOK, Counters
<1>4. Total(bytes') = Total(bytes) - bytes[s] + v
  BY <1>1, SchedulerConstants, TotalFacts
<1>5. total' = Total(bytes')
  BY <1>4 DEF CountersOK, Counters
<1>6. PICK qs, b, t : qs = queue' /\ b = bytes' /\ t = total'
  OBVIOUS
<1>7. Counters(qs, b, t)
  BY <1>2, <1>3, <1>5, <1>6 DEF Counters
<1> QED BY <1>6, <1>7 DEF CountersOK

LEMMA CounterTypes ==
  ASSUME Rotates, CountersOK, NEW s \in Streams
  PROVE  /\ bytes[s] \in Nat /\ total \in Nat /\ total >= bytes[s]
         /\ queue[s] \in Seq(Frames) /\ bytes[s] = BytesOf(queue[s])
         /\ MaxStreamBytes \in Nat /\ MaxTotalBytes \in Nat
         /\ bytes[s] <= MaxStreamBytes /\ total <= MaxTotalBytes
<1>1. bytes \in [Streams -> Nat] /\ queue \in Queues /\ total = Total(bytes)
  BY DEF Rotates, SendTypes, CountersOK, Counters
<1>2. Total(bytes) \in Nat /\ Total(bytes) >= bytes[s]
  <2>1. PICK z \in Nat : z = 0
    OBVIOUS
  <2> QED BY <1>1, <2>1, SchedulerConstants, TotalFacts
<1> QED BY <1>1, <1>2, SchedulerConstants DEF CountersOK, Counters, Queues

LEMMA EnqueueCounts ==
  ASSUME Rotates, CountersOK, NEW s \in Streams, NEW size \in Sizes, Enqueue(s, size)
  PROVE  CountersOK'
<1>1. PICK f \in Frames : f = [num |-> number[s], size |-> size] /\ f.size = size
  <2>1. [num |-> number[s], size |-> size] \in Frames
    BY DEF Frames, Rotates, SendTypes
  <2> QED BY <2>1
<1>2. PICK q \in Seq(Frames) : q = Append(queue[s], f)
  BY CounterTypes, AppendProperties
<1>3. PICK v : v = bytes[s] + size
  OBVIOUS
<1>4. v \in Nat /\ size \in Nat /\ v <= MaxStreamBytes /\ total + size <= MaxTotalBytes
  BY <1>3, CounterTypes, SchedulerConstants, SMTT(30) DEF Enqueue, HasRoom
<1>5. v = BytesOf(q)
  BY <1>1, <1>2, <1>3, CounterTypes, BytesFacts
<1>6. /\ queue' = [queue EXCEPT ![s] = q] /\ bytes' = [bytes EXCEPT ![s] = v]
      /\ total' = total + size
  BY <1>1, <1>2, <1>3 DEF Enqueue
<1>7. total' = total - bytes[s] + v /\ total' <= MaxTotalBytes
  BY <1>3, <1>4, <1>6, CounterTypes
<1> QED BY <1>4, <1>5, <1>6, <1>7, CounterMoves

LEMMA CommitCounts ==
  ASSUME Rotates, CountersOK, Commit
  PROVE  CountersOK'
<1>1. CASE order = <<>>
  <2>1. queue' = queue /\ bytes' = bytes /\ total' = total
    BY <1>1 DEF Commit
  <2> QED BY <2>1 DEF CountersOK
<1>2. CASE order # <<>>
  <2>1. PICK s \in Streams : s = order[cursor + 1] /\ Wrapped = cursor /\ queue[s] # <<>>
    BY <1>2, AtCursor
  <2>2. PICK q \in Seq(Frames), f \in Frames : q = Tail(queue[s]) /\ f = Head(queue[s])
    BY <2>1, CounterTypes, HeadTailProperties
  <2>3. PICK v \in Nat, z \in Nat : v = BytesOf(q) /\ z = f.size
    BY <2>2, BytesFacts, FrameSize
  <2>4. bytes[s] = z + v
    BY <2>1, <2>2, <2>3, CounterTypes, BytesFacts
  <2>5. /\ queue' = [queue EXCEPT ![s] = q]
        /\ bytes' = [bytes EXCEPT ![s] = IF q = <<>> THEN 0 ELSE Less(@, z)]
        /\ total' = Less(total, z)
    BY <1>2, <2>1, <2>2, <2>3 DEF Commit
  <2>6. v = IF q = <<>> THEN 0 ELSE Less(bytes[s], z)
    <3>1. q = <<>> => v = 0
      BY <2>3, BytesFacts
    <3>2. Less(bytes[s], z) = v
      BY <2>3, <2>4 DEF Less
    <3> QED BY <3>1, <3>2
  <2>7. bytes' = [bytes EXCEPT ![s] = v]
    BY <2>5, <2>6
  <2>8. total' = total - bytes[s] + v /\ total' <= MaxTotalBytes /\ v <= MaxStreamBytes
    <3>1. /\ bytes[s] \in Nat /\ total \in Nat /\ total >= bytes[s] /\ total <= MaxTotalBytes
          /\ bytes[s] <= MaxStreamBytes /\ MaxTotalBytes \in Nat /\ MaxStreamBytes \in Nat
      BY CounterTypes
    <3> QED BY <2>4, <2>5, <3>1 DEF Less
  <2> QED BY <2>3, <2>5, <2>7, <2>8, CounterMoves
<1> QED BY <1>1, <1>2

LEMMA DropCounts ==
  ASSUME Rotates, CountersOK, NEW s \in Streams, DropStream(s)
  PROVE  CountersOK'
<1>1. PICK q \in Seq(Frames), v \in Nat : q = <<>> /\ v = 0
  <2>1. <<>> \in Seq(Frames)
    OBVIOUS
  <2> QED BY <2>1
<1>2. v = BytesOf(q)
  BY <1>1, BytesFacts
<1>3. /\ queue' = [queue EXCEPT ![s] = q] /\ bytes' = [bytes EXCEPT ![s] = v]
      /\ total' = Less(total, bytes[s])
  BY <1>1 DEF DropStream, WithoutBytes
<1>4. /\ bytes[s] \in Nat /\ total \in Nat /\ total >= bytes[s] /\ total <= MaxTotalBytes
      /\ MaxTotalBytes \in Nat /\ MaxStreamBytes \in Nat
  BY CounterTypes
<1>5. total' = total - bytes[s] + v /\ total' <= MaxTotalBytes /\ v <= MaxStreamBytes
  BY <1>1, <1>3, <1>4 DEF Less
<1> QED BY <1>2, <1>3, <1>5, CounterMoves

\* The inductive invariant of QueuesAreConsistent.
QueueInv ==
  /\ Rotates
  /\ sent \in BOOLEAN /\ (sent => hand["flush"] # <<>>)
  /\ open \in BOOLEAN
  /\ CountersOK

LEMMA QueueInvInit ==
  ASSUME SendInit
  PROVE  QueueInv
<1>1. Rotates /\ sent \in BOOLEAN /\ (sent => hand["flush"] # <<>>)
  BY SendInvInit DEF SendInv
<1>2. open \in BOOLEAN
  BY DEF SendInit
<1>3. bytes = [s \in Streams |-> 0] /\ total = 0 /\ \A s \in Streams : queue[s] = <<>>
  BY DEF SendInit
<1>4. total = Total(bytes)
  BY <1>3, SchedulerConstants, TotalOfNothing
<1>5. CountersOK
  BY <1>3, <1>4, BytesFacts, SchedulerConstants DEF CountersOK, Counters
<1> QED BY <1>1, <1>2, <1>5 DEF QueueInv

LEMMA QueueInvNext ==
  ASSUME QueueInv, [SendNext]_sendVars
  PROVE  QueueInv'
<1>1. Rotates'
  BY NextRotates DEF QueueInv
<1>2. CASE UNCHANGED sendVars
  <2>1. /\ CountersOK' = CountersOK /\ sent' = sent /\ hand' = hand /\ open' = open
    BY <1>2 DEF sendVars, CountersOK
  <2> QED BY <1>1, <2>1 DEF QueueInv
<1>3. CASE SendNext
  <2>1. sent' \in BOOLEAN /\ (sent' => hand'["flush"] # <<>>)
    BY <1>3, SentHasFrame DEF QueueInv
  <2>2. /\ Rotates /\ CountersOK /\ open \in BOOLEAN
    BY DEF QueueInv
  <2>3. \/ \E s \in Streams, size \in Sizes : Enqueue(s, size)
        \/ Peek("flush") \/ Transmit \/ SendFails \/ FlushCommit
        \/ Peek("pull") \/ PullCommit
        \/ \E s \in Streams : DropStream(s)
    BY <1>3 DEF SendNext, Flush, Pull
  <2>4. ASSUME UNCHANGED <<queue, bytes, total>> PROVE CountersOK'
    BY <2>2, <2>4 DEF CountersOK
  <2>5. CountersOK'
    <3>1. ASSUME NEW c \in Consumers, Peek(c) PROVE CountersOK'
      BY <3>1, <2>4 DEF Peek
    <3>2. CASE Transmit
      BY <3>2, <2>4, Zenon DEF Transmit
    <3>3. CASE SendFails
      BY <3>3, <2>4, Zenon DEF SendFails
    <3>4. CASE FlushCommit \/ PullCommit
      BY <2>2, <3>4, CommitCounts, Zenon DEF FlushCommit, PullCommit
    <3>5. "flush" \in Consumers /\ "pull" \in Consumers
      BY DEF Consumers
    <3> QED BY <2>2, <2>3, <3>1, <3>2, <3>3, <3>4, <3>5, EnqueueCounts, DropCounts
  <2>6. open' \in BOOLEAN
    <3>1. open' = open \/ open' = FALSE
      BY <2>3, Zenon DEF Enqueue, Peek, Transmit, SendFails, FlushCommit, PullCommit, DropStream
    <3> QED BY <2>2, <3>1, Zenon
  <2> QED BY <1>1, <2>1, <2>5, <2>6 DEF QueueInv
<1> QED BY <1>2, <1>3

\* The rotation is no longer than there are streams.
LEMMA RotationFits ==
  ASSUME Rotates
  PROVE  /\ Cardinality(Streams) \in Nat /\ Len(order) <= Cardinality(Streams)
         /\ Len(order) \in Nat /\ cursor \in Nat /\ (cursor < Len(order) \/ cursor = 0)
<1>1. PICK n \in Nat : n = Len(order) /\ order \in [1..n -> Streams]
  <2>1. order \in Seq(Streams)
    BY DEF Rotates, SendTypes
  <2>2. Len(order) \in Nat /\ order \in [1..Len(order) -> Streams]
    BY <2>1
  <2> QED BY <2>2
<1>2. order \in Injection(1..n, Streams)
  <2>1. DOMAIN order = 1..n /\ \A i, j \in 1..n : order[i] = order[j] => i = j
    BY <1>1 DEF Rotates, Rotation
  <2> QED BY <1>1, <2>1 DEF Injection, IsInjective
<1>3. IsFiniteSet(Streams)
  BY SchedulerConstants
<1>4. Cardinality(1..n) <= Cardinality(Streams)
  BY <1>2, <1>3, FS_Injection
<1>5. Cardinality(1..n) = n
  <2>1. Cardinality(1..n) = IF 1 > n THEN 0 ELSE n - 1 + 1
    BY FS_Interval
  <2> QED BY <2>1
<1>6. Cardinality(Streams) \in Nat
  BY <1>3, FS_CardinalityType
<1>7. cursor \in Nat /\ (cursor < Len(order) \/ cursor = 0)
  BY DEF Rotates, SendTypes, Rotation
<1> QED BY <1>1, <1>4, <1>5, <1>6, <1>7

LEMMA SendTyped ==
  ASSUME QueueInv
  PROVE  SendTypeOK
<1>1. Rotates /\ sent \in BOOLEAN /\ open \in BOOLEAN
  BY DEF QueueInv
<1>2. bytes \in [Streams -> Nat]
  BY DEF QueueInv, CountersOK, Counters
<1>3. total \in Nat
  <2>1. total = Total(bytes)
    BY DEF QueueInv, CountersOK, Counters
  <2>2. PICK b \in [Streams -> Nat] : b = bytes
    BY <1>2
  <2>3. PICK ch : ch = [T \in SUBSET Streams |-> CHOOSE x \in T : TRUE]
    OBVIOUS
  <2>4. Picks(ch, Streams)
    BY <2>3 DEF Picks
  <2>5. PICK it : SumsBy(it, Streams, b, ch) /\ Total(b) = it[Streams]
    BY <2>3, SchedulerConstants, TotalSums
  <2>6. Additive(it, Streams, b)
    BY <2>4, <2>5, SchedulerConstants, SumFacts
  <2>7. it[Streams] \in Nat
    BY <2>6 DEF Additive
  <2> QED BY <2>1, <2>2, <2>5, <2>7
<1>4. \A s \in Streams : Len(queue[s]) <= MaxFrames /\ ToSet(queue[s]) \subseteq Frames
  <2> TAKE s \in Streams
  <2>1. queue[s] \in Seq(Frames) /\ Len(queue[s]) <= MaxFrames
    BY <1>1 DEF Rotates, SendTypes, Queues
  <2> QED BY <2>1 DEF ToSet
<1>5. ToSet(order) \subseteq Streams
  <2>1. order \in Seq(Streams)
    BY <1>1 DEF Rotates, SendTypes
  <2> QED BY <2>1 DEF ToSet
<1>6. cursor \in 0..Cardinality(Streams)
  BY <1>1, RotationFits
<1>7. \A c \in Consumers : Len(hand[c]) <= 1
  <2> TAKE c \in Consumers
  <2>1. hand[c] \in {<<>>} \cup {<<h>> : h \in Held}
    BY <1>1 DEF Rotates, SendTypes, Hands
  <2>2. CASE hand[c] = <<>>
    BY <2>2
  <2>3. CASE hand[c] # <<>>
    <3>1. PICK h \in Held : hand[c] = <<h>>
      BY <2>1, <2>3
    <3> QED BY <3>1
  <2> QED BY <2>2, <2>3
<1>8. /\ program \in Programs
      /\ number \in [Streams -> 0..(NumModulus - 1)]
      /\ expect \in [Streams -> 0..(NumModulus - 1)]
  BY <1>1 DEF Rotates, SendTypes
<1> QED BY <1>1, <1>2, <1>3, <1>4, <1>5, <1>6, <1>7, <1>8 DEF SendTypeOK

\* Rotation, queues and byte counters agree in every gap that flush_scheduled and
\* pull_next_scheduled leave between peek and commit, whatever enqueue_raw and drop_stream
\* do there, for every number of streams and every limit: the saturating subtractions of
\* commit_next_scheduled and drop_stream never saturate.
THEOREM QueuesConsistent == SendSpec => []QueuesAreConsistent
<1>1. ASSUME QueueInv PROVE RotationMatchesQueues
  <2>1. Rotates
    BY <1>1 DEF QueueInv
  <2>2. PICK n \in Nat : n = Len(order) /\ DOMAIN order = 1..n
    BY <2>1 DEF Rotates, SendTypes
  <2>3. IsInjective(order)
    BY <2>1, <2>2 DEF Rotates, Rotation, IsInjective
  <2>4. \A i \in 1..n : order[i] \in Streams /\ queue[order[i]] # <<>>
    BY <2>1, <2>2 DEF Rotates, SendTypes, Rotation
  <2>5. \A s \in Streams : queue[s] # <<>> => \E i \in 1..n : order[i] = s
    BY <2>1, <2>2 DEF Rotates, Rotation
  <2>6. ToSet(order) = {s \in Streams : queue[s] # <<>>}
    BY <2>2, <2>4, <2>5 DEF ToSet
  <2> QED BY <2>1, <2>3, <2>6, RotationFits DEF RotationMatchesQueues
<1>2. ASSUME QueueInv PROVE BytesAreExact
  BY <1>2 DEF QueueInv, CountersOK, Counters, BytesAreExact, BytesOf, Total
<1>3. QueueInv => QueuesAreConsistent
  BY <1>1, <1>2, SendTyped DEF QueuesAreConsistent
<1>4. SendInit => QueueInv
  BY QueueInvInit
<1>5. QueueInv /\ [SendNext]_sendVars => QueueInv'
  BY QueueInvNext
<1> QED BY <1>3, <1>4, <1>5, PTL DEF SendSpec
=============================================================================
