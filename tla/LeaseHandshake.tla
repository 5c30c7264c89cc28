--------------------------- MODULE LeaseHandshake ---------------------------
(***************************************************************************)
(* The dual-plane handshake NODE_HELLO -> INVITE -> LEASE_ACK: one         *)
(* lease_client per identity, the serve_loop of lease_issuer around the    *)
(* router of ControlPlane (LiNeP/src/v0_2/lease.cpp), and UDP in between.  *)
(*                                                                         *)
(* The client holds its mutex during a whole call, so a call is a sequence *)
(* of steps with pc # "idle" and calls never overlap.  UDP reorders all    *)
(* datagrams; it may lose some, deliver some twice, and delay some beyond  *)
(* the window a client waits for an answer.  Each kind of fault has a      *)
(* budget; without one, calls could fail for ever.                         *)
(* Nothing in the repository calls sweep_stale_nodes on the issuer's       *)
(* router, so time is left out.                                            *)
(***************************************************************************)
EXTENDS Naturals, Sequences

CONSTANTS
  Nodes,        \* identities of the clients
  MaxAttempts,  \* config.max_attempts
  Probes,       \* config.confirm_ms # 0
  MaxLost,      \* bound on lost datagrams
  MaxRepeated,  \* bound on deliveries of a datagram that will be delivered again
  MaxLate,      \* bound on windows that close with datagrams still on the way
  MaxFaults,    \* bound on all these together; a late window, which is a datagram
                \* missing now and there later, counts as two
  MaxEpoch,     \* bound on control epochs
  MaxSeq,       \* bound on control_seq at the start of a call (+ 2 for a heartbeat)
  MaxLeases,    \* bound on leases issued
  MaxInvites    \* bound on the INVITEs sent to one node

ASSUME HandshakeBounds ==
  /\ MaxAttempts \in Nat \ {0} /\ MaxLost \in Nat /\ MaxRepeated \in Nat
  /\ MaxLate \in Nat /\ MaxFaults \in Nat /\ Probes \in BOOLEAN
  /\ MaxEpoch \in Nat \ {0} /\ MaxSeq \in Nat /\ MaxLeases \in Nat /\ MaxInvites \in Nat

VARIABLES
  nodes, cache, grants,  \* the issuer's router (ControlPlane)
  client,                \* lease_client of each identity
  up,                    \* datagrams on their way to the issuer
  down,                  \* INVITEs on their way to the clients
  faults                 \* faults so far, of each kind

vars == <<nodes, cache, grants, client, up, down, faults>>
routerVars == <<nodes, cache, grants>>

\* What every lease_client reports of itself.
Healthy == [avail |-> "available", health |-> "healthy"]

LastSeq == MaxSeq + 3 * MaxAttempts

Router == INSTANCE ControlPlane WITH
  Epochs <- 1..MaxEpoch, Seqs <- 1..LastSeq, Caps <- {0}, Reports <- {Healthy},
  StaleTimeout <- 0, OfflineTimeout <- 0, MaxOutbound <- MaxInvites

NewClient(e) ==
  [pc |-> "idle", full |-> FALSE, epoch |-> e, seq |-> 1, token |-> 0,
   active |-> FALSE, attempt |-> 0]

Init ==
  /\ Router!Init
  /\ client = [n \in Nodes |-> NewClient(1)]
  /\ up = {} /\ down = {}
  /\ faults = [lost |-> 0, repeated |-> 0, late |-> 0]

(***************************************************************************)
(* lease_client.  make_datagram_locked numbers the datagrams.              *)
(***************************************************************************)
Datagram(n, c, type, token) ==
  [type |-> type, node |-> n, epoch |-> c.epoch, seq |-> c.seq, token |-> token,
   report |-> Healthy, cap |-> 0, trunk |-> TRUE]

Sent(c) == [c EXCEPT !.seq = c.seq + 1]

\* The call returns; its locals are gone.
Returned(c) == [c EXCEPT !.pc = "idle", !.full = FALSE, !.attempt = 0]

\* The client in state c sends NODE_HELLO.
SayHello(n, c) ==
  /\ client' = [client EXCEPT ![n] = Sent(c)]
  /\ up' = up \cup {Datagram(n, c, "node_hello", 0)}

\* One attempt of ack_lease_locked: LEASE_ACK, and a NODE_HELLO as probe.
SendAck(n, c) ==
  IF Probes
    THEN /\ client' = [client EXCEPT ![n] = [Sent(Sent(c)) EXCEPT !.pc = "probing"]]
         /\ up' = up \cup {Datagram(n, c, "lease_ack", c.token),
                           Datagram(n, Sent(c), "node_hello", 0)}
    ELSE /\ client' = [client EXCEPT ![n] = [Returned(Sent(c)) EXCEPT !.active = TRUE]]
         /\ up' = up \cup {Datagram(n, c, "lease_ack", c.token)}

\* request_invite_locked as called by acquire, renew (full) or request_invite.
RequestInvite(n, e, full) ==
  /\ client[n].pc = "idle" /\ client[n].seq <= MaxSeq
  /\ SayHello(n, [client[n] EXCEPT !.pc = "inviting", !.full = full, !.epoch = e,
                    !.token = 0, !.active = FALSE, !.attempt = 1])
  /\ UNCHANGED <<routerVars, down, faults>>

Acquire(n)     == RequestInvite(n, client[n].epoch, TRUE)
OnlyInvite(n)  == RequestInvite(n, client[n].epoch, FALSE)
Renew(n)       == client[n].epoch < MaxEpoch /\ RequestInvite(n, client[n].epoch + 1, TRUE)

AckLease(n) ==
  /\ client[n].pc = "idle" /\ client[n].seq <= MaxSeq
  /\ client[n].token # 0
  /\ SendAck(n, [client[n] EXCEPT !.attempt = 1])
  /\ UNCHANGED <<routerVars, down, faults>>

\* The retry loops of request_invite_locked and ack_lease_locked.
MayRetry(c) == c.attempt < MaxAttempts

\* wait_invite_locked returned an INVITE m of the client's present epoch.
AfterInvite(n, m) ==
  LET c == client[n] IN
  IF c.pc = "inviting"
    THEN LET d == [c EXCEPT !.token = m.token, !.attempt = 1] IN
         IF c.full THEN SendAck(n, d)
         ELSE client' = [client EXCEPT ![n] = Returned(d)] /\ up' = up
  ELSE IF m.token = c.token /\ MayRetry(c)
    THEN SendAck(n, [c EXCEPT !.attempt = c.attempt + 1])
  ELSE /\ client' = [client EXCEPT ![n] =
            [Returned(c) EXCEPT !.token = IF m.token = c.token THEN c.token ELSE 0]]
       /\ up' = up

\* Mutant of ForClient: INVITEs of an earlier incarnation count.
MutantAnyInvite(n, m) == m.node = n

ForClient(n, m) == m.node = n /\ m.epoch = client[n].epoch

FaultsLeft == MaxFaults - (faults.lost + faults.repeated + 2 * faults.late)
MayFail == FaultsLeft >= 1
MayBeLate == FaultsLeft >= 2 /\ faults.late < MaxLate

\* A datagram of the set `flying' is delivered, and stays there if it is to come
\* again.
Deliver(flying, remaining, d) ==
  \/ remaining = flying \ {d} /\ faults' = faults
  \/ /\ MayFail /\ faults.repeated < MaxRepeated
     /\ faults' = [faults EXCEPT !.repeated = faults.repeated + 1]
     /\ remaining = flying

\* wait_invite_locked takes any datagram off the socket; INVITEs of other epochs
\* are dropped.
ReceiveInvite(n, m) ==
  /\ client[n].pc # "idle" /\ m.node = n
  /\ Deliver(down, down', m)
  /\ IF ForClient(n, m)
       THEN AfterInvite(n, m)
       ELSE UNCHANGED <<client, up>>
  /\ UNCHANGED routerVars

Quiet(n) == \A d \in up \cup down : d.node # n

\* Mutant of WaitOver: the wait for an INVITE has no deadline.
MutantWaitsForever(n) ==
  client[n].pc = "probing" /\ (Quiet(n) \/ MayBeLate)

WaitOver(n) == client[n].pc # "idle" /\ (Quiet(n) \/ MayBeLate)

\* No INVITE within the window: NODE_HELLO again while attempts are left; after
\* a LEASE_ACK the silence is taken for success.
Timeout(n) ==
  LET c == client[n] IN
  /\ WaitOver(n)
  /\ IF c.pc = "inviting" /\ MayRetry(c)
       THEN SayHello(n, [c EXCEPT !.attempt = c.attempt + 1])
     ELSE /\ client' = [client EXCEPT ![n] =
               [Returned(c) EXCEPT !.active = c.active \/ c.pc = "probing"]]
          /\ up' = up
  /\ faults' = IF Quiet(n) THEN faults ELSE [faults EXCEPT !.late = faults.late + 1]
  /\ UNCHANGED <<routerVars, down>>

SendHeartbeat(n) ==
  /\ client[n].pc = "idle" /\ client[n].active /\ client[n].seq <= MaxSeq + 2
  /\ client' = [client EXCEPT ![n] = Sent(client[n])]
  /\ up' = up \cup {Datagram(n, client[n], "heartbeat", 0)}
  /\ UNCHANGED <<routerVars, down, faults>>

\* A new client process of the same identity: a higher wall-clock epoch, and
\* sequence numbers from 1 again.
RestartClient(n) ==
  /\ client[n].epoch < MaxEpoch
  /\ client' = [client EXCEPT ![n] = NewClient(client[n].epoch + 1)]
  /\ UNCHANGED <<routerVars, up, down, faults>>

(***************************************************************************)
(* lease_issuer::serve_loop: ingest_datagram, then for a NODE_HELLO a      *)
(* fresh lease if the node is SEEN, the same lease if it is INVITED.       *)
(***************************************************************************)
Ingested(d) ==
  LET s == nodes[d.node] IN
  IF ~Router!Known(d.node) THEN Router!Registered(d)
  ELSE IF \/ Router!NewIncarnation(d)
          \/ Router!InSequence(d) /\ s.state \in {"seen", "cooling", "offline"}
    THEN Router!AfterHello(s, d)
  ELSE s

\* Mutant of StillOffered: a lease is offered once.
MutantOfferedOnce(s, d) == FALSE

\* reissue_invite: the INVITE or the LEASE_ACK got lost.
StillOffered(s, d) == s.state = "invited" /\ s.token # 0 /\ s.epoch = d.epoch

Invite(n, s) == [node |-> n, epoch |-> s.epoch, token |-> s.token, seq |-> s.outSeq]

ServeHello(d) ==
  LET s == Ingested(d)
      again == StillOffered(s, d)
      new == Router!AfterInvite(s, IF s.state = "seen" THEN Router!NextToken ELSE s.token)
  IN
  /\ s.state = "seen" => Router!NextToken <= MaxLeases
  /\ s.state = "seen" \/ again => s.outSeq < MaxInvites
  /\ cache' = IF Router!NewIncarnation(d) THEN [cache EXCEPT ![d.node] = {}] ELSE cache
  /\ grants' = IF s.state = "seen"
                 THEN Append(grants, [node |-> d.node, epoch |-> s.epoch]) ELSE grants
  /\ IF s.state = "seen" \/ again
       THEN /\ nodes' = [nodes EXCEPT ![d.node] = new]
            /\ down' = down \cup {Invite(d.node, new)}
       ELSE /\ nodes' = [nodes EXCEPT ![d.node] = s]
            /\ down' = down

Serve(d) ==
  /\ Deliver(up, up', d)
  /\ IF d.type = "node_hello"
       THEN ServeHello(d)
       ELSE Router!IngestDatagram(d) /\ down' = down
  /\ UNCHANGED client

Lose ==
  /\ MayFail /\ faults.lost < MaxLost
  /\ faults' = [faults EXCEPT !.lost = faults.lost + 1]
  /\ \/ \E d \in up : up' = up \ {d} /\ down' = down
     \/ \E m \in down : down' = down \ {m} /\ up' = up
  /\ UNCHANGED <<routerVars, client>>

Next ==
  \/ \E n \in Nodes :
       \/ Acquire(n) \/ OnlyInvite(n) \/ Renew(n) \/ AckLease(n)
       \/ Timeout(n) \/ SendHeartbeat(n) \/ RestartClient(n)
  \/ \E n \in Nodes, m \in down : ReceiveInvite(n, m)
  \/ \E d \in up : Serve(d)
  \/ Lose

Spec == Init /\ [][Next]_vars

\* The wait loops of the client run on a clock and the issuer's thread keeps
\* receiving, so what is in flight and not lost is received.  No call is ever
\* made by fairness.
Fairness ==
  /\ \A n \in Nodes :
       /\ WF_vars(Timeout(n))
       /\ WF_vars(\E m \in down : ReceiveInvite(n, m))
  /\ WF_vars(\E d \in up : Serve(d))

FairSpec == Spec /\ Fairness

(***************************************************************************)
(* Properties.                                                             *)
(***************************************************************************)

\* The clients and the network have their types; so has the router.
TypeOK ==
  /\ Router!TypeOK
  /\ client \in [Nodes ->
       [pc : {"idle", "inviting", "probing"}, full : BOOLEAN, epoch : 1..MaxEpoch,
        seq : 1..(LastSeq + 1), token : 0..MaxLeases, active : BOOLEAN,
        attempt : 0..MaxAttempts]]
  /\ \A d \in up : d.node \in Nodes /\ d.seq \in 1..LastSeq
  /\ \A m \in down : m.node \in Nodes /\ m.token \in 1..MaxLeases
  /\ faults \in [lost : 0..MaxLost, repeated : 0..MaxRepeated, late : 0..MaxLate]

\* Client and issuer never disagree about the lease of an incarnation: if the
\* issuer knows the client's present epoch and the client has a token, it is
\* the issuer's; so the client's "issuer changed the lease" error cannot happen,
\* and a SESSION_BIND of a client whose lease the issuer counts as ACTIVE is
\* accepted.  Lost, late and duplicate datagrams, renewals and restarts included.
LeaseAgreement ==
  /\ TypeOK
  /\ \A n \in Nodes :
      LET c == client[n] IN
      /\ nodes[n].epoch <= c.epoch
      /\ c.token # 0 =>
           /\ nodes[n].epoch = c.epoch /\ nodes[n].token = c.token
           /\ nodes[n].state \in {"invited", "active"}
           /\ nodes[n].state = "active" =>
                Router!ValidateTcpSessionBinding(n, c.epoch, c.token)

\* "silence means the lease is active": a client that took its lease for
\* active can bind with it (lease.hpp, ack_lease_locked).
SilenceMeansActive ==
  \A n \in Nodes : client[n].active =>
    Router!ValidateTcpSessionBinding(n, client[n].epoch, client[n].token)

\* Every call of a client returns: no order of losses, late INVITEs and
\* retransmissions keeps it waiting (acquire, renew, request_invite, ack_lease).
CallsReturn ==
  \A n \in Nodes : client[n].pc # "idle" ~> client[n].pc = "idle"

\* The first acquire or renew of an incarnation leads to a lease the issuer
\* counts as active, though a datagram was lost and another came twice, unless
\* the client restarts or a window closes too early: a lost LEASE_ACK and a late
\* INVITE together look like success (see SilenceMeansActive).  The call itself
\* may report failure (every probe overtakes its LEASE_ACK).
AcquireSucceeds ==
  \A n \in Nodes, e \in 1..MaxEpoch :
    /\ client[n].pc = "inviting" /\ client[n].full
    /\ client[n].epoch = e /\ nodes[n].epoch < e /\ client[n].attempt = 1
    ~> \/ client[n].epoch > e \/ faults.late > 0
       \/ \E k \in 1..MaxLeases : Router!ValidateTcpSessionBinding(n, e, k)
=============================================================================
