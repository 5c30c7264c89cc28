------------------------ MODULE LeaseHandshakeProofs ------------------------
(***************************************************************************)
(* Client and issuer agree about the lease of an incarnation, for any      *)
(* identities, attempts and epochs, whatever UDP loses, repeats, reorders  *)
(* or delays, and whatever call, renewal or restart comes in between.      *)
(*                                                                         *)
(* The argument: no datagram, and no record of the router, is ahead of the *)
(* epoch of its client; the router gives an identity one token per epoch;  *)
(* so an INVITE of the client's epoch is of the router's epoch, and names  *)
(* the router's token.                                                     *)
(***************************************************************************)
EXTENDS LeaseHandshake, TLAPS

-----------------------------------------------------------------------------
(* The inductive invariant *)

Clients ==
  [pc : {"idle", "inviting", "probing"}, full : BOOLEAN, epoch : 1..MaxEpoch,
   seq : Nat \ {0}, token : 0..MaxLeases, active : BOOLEAN, attempt : 0..MaxAttempts]

\* How far the numbers of a call have come: a NODE_HELLO per attempt, then a LEASE_ACK
\* and a probe per attempt.
SeqOK(c) ==
  /\ c.pc = "idle" => c.seq <= LastSeq
  /\ c.pc = "inviting" => c.attempt >= 1 /\ c.seq <= MaxSeq + c.attempt
  /\ c.pc = "probing" => c.attempt >= 1 /\ c.seq <= MaxSeq + MaxAttempts + 2 * c.attempt

ClientsOK ==
  /\ client \in [Nodes -> Clients]
  /\ \A n \in Nodes : SeqOK(client[n])

\* No datagram is ahead of its client's epoch.
UpOK(d) ==
  /\ d.type \in {"node_hello", "lease_ack", "heartbeat"} /\ d.node \in Nodes
  /\ d.epoch \in 1..MaxEpoch /\ d.seq \in 1..LastSeq /\ d.token \in 0..MaxLeases
  /\ d.report = Healthy /\ d.cap = 0 /\ d.trunk = TRUE

Behind == \A d \in up : UpOK(d) /\ d.epoch <= client[d.node].epoch

Types ==
  /\ nodes \in [Nodes -> Router!NodeState] /\ cache \in [Nodes -> SUBSET {0}]
  /\ grants \in Seq([node : Nodes, epoch : Nat]) /\ Len(grants) <= MaxLeases
  /\ faults \in [lost : 0..MaxLost, repeated : 0..MaxRepeated, late : 0..MaxLate]

\* The router's record of an identity: none, or a lease of an epoch it has reached.
Recorded(s) ==
  \/ s.state = "unknown" /\ s.epoch = 0
  \/ /\ s.state \in {"invited", "active"} /\ s.trunk = TRUE
     /\ s.epoch >= 1 /\ s.token \in 1..Len(grants)

RouterOK == \A n \in Nodes : Recorded(nodes[n]) /\ nodes[n].epoch <= client[n].epoch

\* One token per identity and epoch, in every INVITE and at the client.
OneToken ==
  /\ \A m \in down :
       /\ m.node \in Nodes /\ m.epoch \in Nat \ {0} /\ m.token \in 1..MaxLeases
       /\ m.epoch <= nodes[m.node].epoch
       /\ m.epoch = nodes[m.node].epoch => m.token = nodes[m.node].token
  /\ \A n \in Nodes : client[n].token # 0 =>
       nodes[n].epoch = client[n].epoch /\ nodes[n].token = client[n].token

HandshakeInv == Types /\ ClientsOK /\ Behind /\ RouterOK /\ OneToken

-----------------------------------------------------------------------------
(* The client's steps *)

LEMMA ClientFields ==
  ASSUME NEW c \in Clients
  PROVE  /\ c.pc \in {"idle", "inviting", "probing"} /\ c.full \in BOOLEAN
         /\ c.epoch \in 1..MaxEpoch /\ c.seq \in Nat \ {0} /\ c.token \in 0..MaxLeases
         /\ c.active \in BOOLEAN /\ c.attempt \in 0..MaxAttempts
         /\ c = [pc |-> c.pc, full |-> c.full, epoch |-> c.epoch, seq |-> c.seq,
                 token |-> c.token, active |-> c.active, attempt |-> c.attempt]
  BY DEF Clients

LEMMA ClientRecord ==
  ASSUME NEW pc \in {"idle", "inviting", "probing"}, NEW full \in BOOLEAN,
         NEW e \in 1..MaxEpoch, NEW q \in Nat \ {0}, NEW t \in 0..MaxLeases,
         NEW active \in BOOLEAN, NEW a \in 0..MaxAttempts, NEW d,
         d = [pc |-> pc, full |-> full, epoch |-> e, seq |-> q, token |-> t,
              active |-> active, attempt |-> a]
  PROVE  /\ d \in Clients /\ d.pc = pc /\ d.epoch = e /\ d.seq = q /\ d.token = t
         /\ d.attempt = a /\ d.full = full /\ d.active = active
  BY DEF Clients

LEMMA DatagramIsOK ==
  ASSUME NEW n \in Nodes, NEW c \in Clients, c.seq <= LastSeq,
         NEW type \in {"node_hello", "lease_ack", "heartbeat"}, NEW t \in 0..MaxLeases
  PROVE  UpOK(Datagram(n, c, type, t)) /\ Datagram(n, c, type, t).node = n
         /\ Datagram(n, c, type, t).epoch = c.epoch
<1> DEFINE yes == TRUE
<1>1. Datagram(n, c, type, t) =
        [type |-> type, node |-> n, epoch |-> c.epoch, seq |-> c.seq, token |-> t,
         report |-> Healthy, cap |-> 0, trunk |-> yes]
  BY DEF Datagram
<1>2. yes = TRUE
  OBVIOUS
<1> HIDE DEF yes
<1>3. c.epoch \in 1..MaxEpoch /\ c.seq \in Nat \ {0} /\ LastSeq \in Nat
  BY HandshakeBounds DEF Clients, LastSeq
<1>4. c.seq \in 1..LastSeq
  BY <1>3
<1> QED BY <1>1, <1>2, <1>3, <1>4 DEF UpOK

\* What a step of one client may do, and what then stays.
LEMMA ClientKeeps ==
  ASSUME HandshakeInv, UNCHANGED routerVars, NEW n \in Nodes, NEW d \in Clients,
         client' = [client EXCEPT ![n] = d], SeqOK(d), client[n].epoch <= d.epoch,
         \/ d.token = 0
         \/ nodes[n].epoch = d.epoch /\ nodes[n].token = d.token,
         \A x \in up' : x \in up \/ (UpOK(x) /\ x.node = n /\ x.epoch <= d.epoch),
         down' \subseteq down,
         faults' \in [lost : 0..MaxLost, repeated : 0..MaxRepeated, late : 0..MaxLate]
  PROVE  HandshakeInv'
<1> USE DEF HandshakeInv, routerVars
<1>0. /\ client \in [Nodes -> Clients] /\ client' \in [Nodes -> Clients]
      /\ client'[n] = d /\ \A k \in Nodes : k # n => client'[k] = client[k]
  BY DEF ClientsOK
<1>1. Types'
  BY DEF Types
<1>2. ClientsOK'
  BY <1>0 DEF ClientsOK, SeqOK
<1>3. \A k \in Nodes : client[k].epoch \in Nat /\ client'[k].epoch \in Nat
                       /\ nodes[k].epoch \in Nat /\ client[k].epoch <= client'[k].epoch
  <2>1. \A k \in Nodes : client[k].epoch \in 1..MaxEpoch /\ client'[k].epoch \in 1..MaxEpoch
    BY <1>0 DEF Clients
  <2>2. \A k \in Nodes : nodes[k].epoch \in Nat
    BY DEF Types, Router!NodeState
  <2> QED BY <1>0, <2>1, <2>2
<1>4. Behind'
  BY <1>0, <1>3 DEF Behind, UpOK
<1>5. RouterOK'
  BY <1>3 DEF RouterOK, Recorded
<1>6. OneToken'
  BY <1>0 DEF OneToken
<1> QED BY <1>1, <1>2, <1>4, <1>5, <1>6
LEMMA LastSeqFacts ==
  /\ LastSeq = MaxSeq + 3 * MaxAttempts /\ LastSeq \in Nat
  /\ MaxSeq \in Nat /\ MaxAttempts \in Nat /\ MaxAttempts >= 1
  BY HandshakeBounds DEF LastSeq

LEMMA SentFacts ==
  ASSUME NEW c \in Clients
  PROVE  /\ Sent(c) \in Clients /\ Sent(c).seq = c.seq + 1 /\ Sent(c).epoch = c.epoch
         /\ Sent(c).token = c.token /\ Sent(c).attempt = c.attempt /\ Sent(c).pc = c.pc
         /\ Sent(c).full = c.full /\ Sent(c).active = c.active
<1>1. c.seq + 1 \in Nat \ {0}
  BY DEF Clients
<1>2. Sent(c) = [pc |-> c.pc, full |-> c.full, epoch |-> c.epoch, seq |-> c.seq + 1,
                 token |-> c.token, active |-> c.active, attempt |-> c.attempt]
  BY DEF Sent, Clients
<1> QED BY <1>1, <1>2, ClientFields, ClientRecord

LEMMA ReturnedFacts ==
  ASSUME NEW c \in Clients
  PROVE  /\ Returned(c) \in Clients /\ Returned(c).seq = c.seq /\ Returned(c).pc = "idle"
         /\ Returned(c).epoch = c.epoch /\ Returned(c).token = c.token
         /\ Returned(c).attempt = 0 /\ Returned(c).active = c.active
<1> DEFINE no == FALSE
<1>1. Returned(c) = [c EXCEPT !.pc = "idle", !.full = no, !.attempt = 0] /\ no \in BOOLEAN
  BY DEF Returned
<1> HIDE DEF no
<1>2. Returned(c) = [pc |-> "idle", full |-> no, epoch |-> c.epoch, seq |-> c.seq,
                     token |-> c.token, active |-> c.active, attempt |-> 0]
  BY <1>1 DEF Clients
<1>3. 0 \in 0..MaxAttempts /\ no \in BOOLEAN
  BY <1>1, LastSeqFacts
<1> QED BY <1>2, <1>3, ClientFields, ClientRecord

LEMMA Activated ==
  ASSUME NEW c \in Clients, NEW a \in BOOLEAN, NEW d, d = [c EXCEPT !.active = a]
  PROVE  /\ d \in Clients /\ d.seq = c.seq /\ d.pc = c.pc /\ d.epoch = c.epoch
         /\ d.token = c.token /\ d.attempt = c.attempt
<1>1. d = [pc |-> c.pc, full |-> c.full, epoch |-> c.epoch, seq |-> c.seq,
           token |-> c.token, active |-> a, attempt |-> c.attempt]
  BY DEF Clients
<1> QED BY <1>1, ClientFields, ClientRecord

\* A change of pc, token or attempt alone.
Alike(d, c) ==
  d \in Clients /\ d.seq = c.seq /\ d.epoch = c.epoch

LEMMA ClientChanges ==
  ASSUME NEW c \in Clients
  PROVE  /\ /\ Alike([c EXCEPT !.pc = "probing"], c)
            /\ [c EXCEPT !.pc = "probing"].pc = "probing"
            /\ [c EXCEPT !.pc = "probing"].token = c.token
            /\ [c EXCEPT !.pc = "probing"].attempt = c.attempt
         /\ \A k \in 0..MaxAttempts : /\ Alike([c EXCEPT !.attempt = k], c)
                                      /\ [c EXCEPT !.attempt = k].pc = c.pc
                                      /\ [c EXCEPT !.attempt = k].token = c.token
                                      /\ [c EXCEPT !.attempt = k].attempt = k
         /\ \A t \in 0..MaxLeases : /\ Alike([c EXCEPT !.token = t], c)
                                    /\ [c EXCEPT !.token = t].pc = c.pc
                                    /\ [c EXCEPT !.token = t].token = t
                                    /\ [c EXCEPT !.token = t].attempt = c.attempt
<1> USE DEF Alike
<1>1. PICK d : d = [c EXCEPT !.pc = "probing"]
  OBVIOUS
<1>2. Alike(d, c) /\ d.pc = "probing" /\ d.token = c.token /\ d.attempt = c.attempt
  <2>1. d = [pc |-> "probing", full |-> c.full, epoch |-> c.epoch, seq |-> c.seq,
             token |-> c.token, active |-> c.active, attempt |-> c.attempt]
    BY <1>1 DEF Clients
  <2> QED BY <2>1, ClientFields, ClientRecord
<1>3. ASSUME NEW k \in 0..MaxAttempts, NEW e, e = [c EXCEPT !.attempt = k]
      PROVE  Alike(e, c) /\ e.pc = c.pc /\ e.token = c.token /\ e.attempt = k
  <2>1. e = [pc |-> c.pc, full |-> c.full, epoch |-> c.epoch, seq |-> c.seq,
             token |-> c.token, active |-> c.active, attempt |-> k]
    BY <1>3 DEF Clients
  <2> QED BY <2>1, ClientFields, ClientRecord
<1>4. ASSUME NEW t \in 0..MaxLeases, NEW e, e = [c EXCEPT !.token = t]
      PROVE  Alike(e, c) /\ e.pc = c.pc /\ e.token = t /\ e.attempt = c.attempt
  <2>1. e = [pc |-> c.pc, full |-> c.full, epoch |-> c.epoch, seq |-> c.seq,
             token |-> t, active |-> c.active, attempt |-> c.attempt]
    BY <1>4 DEF Clients
  <2> QED BY <2>1, ClientFields, ClientRecord
<1> HIDE DEF Alike
<1> QED BY <1>1, <1>2, <1>3, <1>4

LEMMA SendAckFacts ==
  ASSUME NEW n \in Nodes, NEW c \in Clients, c.attempt >= 1,
         c.seq <= MaxSeq + MaxAttempts + 2 * (c.attempt - 1), SendAck(n, c)
  PROVE  /\ \E d \in Clients : /\ client' = [client EXCEPT ![n] = d] /\ SeqOK(d)
                               /\ d.epoch = c.epoch /\ d.token = c.token
         /\ \A x \in up' : x \in up \/ (UpOK(x) /\ x.node = n /\ x.epoch = c.epoch)
<1>1. /\ Sent(c) \in Clients /\ Sent(c).seq = c.seq + 1 /\ Sent(c).epoch = c.epoch
      /\ Sent(c).token = c.token /\ Sent(c).attempt = c.attempt
  BY SentFacts
<1>2. /\ Sent(Sent(c)) \in Clients /\ Sent(Sent(c)).seq = c.seq + 2
      /\ Sent(Sent(c)).epoch = c.epoch /\ Sent(Sent(c)).token = c.token
      /\ Sent(Sent(c)).attempt = c.attempt
  <2>1. Sent(Sent(c)).seq = (c.seq + 1) + 1
    BY <1>1, SentFacts
  <2>2. c.seq \in Nat
    BY ClientFields
  <2> QED BY <1>1, <2>1, <2>2, SentFacts
<1>3. c.seq \in Nat /\ c.attempt \in 0..MaxAttempts /\ c.token \in 0..MaxLeases
  BY ClientFields
<1>4. c.seq + 2 <= LastSeq /\ c.seq + 2 <= MaxSeq + MaxAttempts + 2 * c.attempt
  BY <1>3, LastSeqFacts
<1>5. c.seq <= LastSeq /\ Sent(c).seq <= LastSeq
  BY <1>1, <1>3, <1>4, LastSeqFacts
<1>6. 0 \in 0..MaxLeases
  BY HandshakeBounds
<1>7. /\ UpOK(Datagram(n, c, "lease_ack", c.token))
      /\ Datagram(n, c, "lease_ack", c.token).node = n
      /\ Datagram(n, c, "lease_ack", c.token).epoch = c.epoch
  BY <1>3, <1>5, DatagramIsOK
<1>8. /\ UpOK(Datagram(n, Sent(c), "node_hello", 0))
      /\ Datagram(n, Sent(c), "node_hello", 0).node = n
      /\ Datagram(n, Sent(c), "node_hello", 0).epoch = c.epoch
  BY <1>1, <1>5, <1>6, DatagramIsOK
<1>9. \A x \in up' : x \in up \/ (UpOK(x) /\ x.node = n /\ x.epoch = c.epoch)
  BY <1>7, <1>8 DEF SendAck
<1>10. CASE Probes
  <2>1. PICK d : d = [Sent(Sent(c)) EXCEPT !.pc = "probing"]
    OBVIOUS
  <2>2. /\ d \in Clients /\ d.seq = c.seq + 2 /\ d.pc = "probing" /\ d.epoch = c.epoch
        /\ d.token = c.token /\ d.attempt = c.attempt
    BY <1>2, <2>1, ClientChanges DEF Alike
  <2>3. SeqOK(d)
    BY <1>4, <2>2 DEF SeqOK
  <2>4. client' = [client EXCEPT ![n] = d]
    BY <1>10, <2>1, Zenon DEF SendAck
  <2> QED BY <1>9, <2>2, <2>3, <2>4
<1>11. CASE ~Probes
  <2>2. PICK yes \in BOOLEAN : yes = TRUE
    OBVIOUS
  <2>1. PICK d : d = [Returned(Sent(c)) EXCEPT !.active = yes]
    OBVIOUS
  <2>3. /\ Returned(Sent(c)) \in Clients /\ Returned(Sent(c)).seq = c.seq + 1
        /\ Returned(Sent(c)).pc = "idle" /\ Returned(Sent(c)).epoch = c.epoch
        /\ Returned(Sent(c)).token = c.token
    BY <1>1, ReturnedFacts
  <2>4. PICK r \in Clients : r = Returned(Sent(c))
    BY <2>3
  <2>5. /\ d \in Clients /\ d.seq = c.seq + 1 /\ d.pc = "idle" /\ d.epoch = c.epoch
        /\ d.token = c.token
    <3>1. d = [r EXCEPT !.active = yes]
      BY <2>1, <2>4, Zenon
    <3> QED BY <2>3, <2>4, <3>1, Activated
  <2>6. SeqOK(d)
    BY <1>3, <1>4, <2>5, LastSeqFacts DEF SeqOK
  <2>7. client' = [client EXCEPT ![n] = d]
    <3>1. client' = [client EXCEPT ![n] = [Returned(Sent(c)) EXCEPT !.active = TRUE]]
      BY <1>11, Zenon DEF SendAck
    <3> QED BY <2>1, <2>2, <3>1, Zenon
  <2> QED BY <1>9, <2>5, <2>6, <2>7
<1> QED BY <1>10, <1>11
LEMMA InvTypes ==
  ASSUME HandshakeInv, NEW n \in Nodes
  PROVE  /\ client[n] \in Clients /\ SeqOK(client[n])
         /\ nodes[n] \in Router!NodeState /\ nodes[n].epoch \in Nat
         /\ nodes[n].epoch <= client[n].epoch
         /\ client[n].token # 0 =>
              nodes[n].epoch = client[n].epoch /\ nodes[n].token = client[n].token
         /\ faults \in [lost : 0..MaxLost, repeated : 0..MaxRepeated, late : 0..MaxLate]
  BY DEF HandshakeInv, ClientsOK, Types, RouterOK, OneToken, Router!NodeState

\* A NODE_HELLO of the client in state c.
LEMMA HelloKeeps ==
  ASSUME HandshakeInv, NEW n \in Nodes, NEW c \in Clients, SayHello(n, c),
         c.pc = "inviting", c.attempt >= 1, c.seq < MaxSeq + c.attempt,
         c.epoch >= client[n].epoch,
         c.token = 0 \/ (nodes[n].epoch = c.epoch /\ nodes[n].token = c.token),
         UNCHANGED <<routerVars, down>>,
         faults' \in [lost : 0..MaxLost, repeated : 0..MaxRepeated, late : 0..MaxLate]
  PROVE  HandshakeInv'
<1>1. PICK d : d = Sent(c)
  OBVIOUS
<1>2. /\ d \in Clients /\ d.seq = c.seq + 1 /\ d.epoch = c.epoch /\ d.token = c.token
      /\ d.attempt = c.attempt /\ d.pc = "inviting"
  BY <1>1, SentFacts
<1>3. c.seq \in Nat /\ c.attempt \in 0..MaxAttempts /\ c.epoch \in 1..MaxEpoch
  BY ClientFields
<1>4. SeqOK(d) /\ c.seq <= LastSeq
  BY <1>2, <1>3, LastSeqFacts DEF SeqOK
<1>5. 0 \in 0..MaxLeases
  BY HandshakeBounds
<1>6. /\ UpOK(Datagram(n, c, "node_hello", 0)) /\ Datagram(n, c, "node_hello", 0).node = n
      /\ Datagram(n, c, "node_hello", 0).epoch = c.epoch
  BY <1>4, <1>5, DatagramIsOK
<1>7. /\ client' = [client EXCEPT ![n] = d] /\ down' \subseteq down
      /\ \A x \in up' : x \in up \/ (UpOK(x) /\ x.node = n /\ x.epoch <= d.epoch)
  BY <1>1, <1>2, <1>3, <1>6 DEF SayHello
<1>8. client[n].epoch <= d.epoch /\ UNCHANGED routerVars
  BY <1>2, <1>3
<1>9. d.token = 0 \/ (nodes[n].epoch = d.epoch /\ nodes[n].token = d.token)
  BY <1>2
<1> QED BY <1>2, <1>4, <1>7, <1>8, <1>9, ClientKeeps

LEMMA RequestKeeps ==
  ASSUME HandshakeInv, NEW n \in Nodes, NEW full \in BOOLEAN, NEW e \in 1..MaxEpoch,
         client[n].epoch <= e, RequestInvite(n, e, full)
  PROVE  HandshakeInv'
<1> PICK no \in BOOLEAN : no = FALSE
  OBVIOUS
<1>1. PICK c : c = [client[n] EXCEPT !.pc = "inviting", !.full = full, !.epoch = e,
                                     !.token = 0, !.active = no, !.attempt = 1]
  OBVIOUS
<1>2. /\ client[n].seq <= MaxSeq /\ SayHello(n, c) /\ UNCHANGED <<routerVars, down, faults>>
  BY <1>1, Zenon DEF RequestInvite
<1>3. client[n] \in Clients
  BY InvTypes
<1>4. c = [pc |-> "inviting", full |-> full, epoch |-> e, seq |-> client[n].seq,
           token |-> 0, active |-> no, attempt |-> 1]
  BY <1>1, <1>3 DEF Clients
<1>5. 0 \in 0..MaxLeases /\ 1 \in 0..MaxAttempts /\ client[n].seq \in Nat \ {0}
  BY <1>3, HandshakeBounds, LastSeqFacts, ClientFields
<1>6. /\ c \in Clients /\ c.pc = "inviting" /\ c.epoch = e /\ c.token = 0
      /\ c.attempt = 1 /\ c.seq = client[n].seq
  BY <1>4, <1>5, ClientRecord
<1>7. c.seq < MaxSeq + c.attempt /\ c.attempt >= 1 /\ c.epoch >= client[n].epoch
  BY <1>2, <1>3, <1>5, <1>6, LastSeqFacts, ClientFields
<1>8. faults' \in [lost : 0..MaxLost, repeated : 0..MaxRepeated, late : 0..MaxLate]
  BY <1>2, InvTypes
<1> QED BY <1>2, <1>6, <1>7, <1>8, HelloKeeps

LEMMA CallsKeep ==
  ASSUME HandshakeInv, NEW n \in Nodes, Acquire(n) \/ OnlyInvite(n) \/ Renew(n)
  PROVE  HandshakeInv'
<1>1. client[n].epoch \in 1..MaxEpoch /\ MaxEpoch \in Nat
  BY InvTypes, ClientFields, HandshakeBounds
<1>2. PICK full \in BOOLEAN, e \in {client[n].epoch, client[n].epoch + 1} :
        RequestInvite(n, e, full) /\ (e > client[n].epoch => client[n].epoch < MaxEpoch)
  <2>2. CASE Acquire(n)
    <3>1. RequestInvite(n, client[n].epoch, TRUE)
      BY <2>2, Zenon DEF Acquire
    <3>2. ~(client[n].epoch > client[n].epoch)
      BY <1>1
    <3> QED BY <3>1, <3>2, Zenon
  <2>3. CASE OnlyInvite(n)
    <3>1. RequestInvite(n, client[n].epoch, FALSE)
      BY <2>3, Zenon DEF OnlyInvite
    <3>2. ~(client[n].epoch > client[n].epoch)
      BY <1>1
    <3> QED BY <3>1, <3>2, Zenon
  <2>4. CASE Renew(n)
    <3>1. RequestInvite(n, client[n].epoch + 1, TRUE) /\ client[n].epoch < MaxEpoch
      BY <1>1, <2>4 DEF Renew
    <3> QED BY <3>1, Zenon
  <2> QED BY <2>2, <2>3, <2>4
<1>3. e \in 1..MaxEpoch /\ client[n].epoch <= e
  BY <1>1, <1>2
<1> QED BY <1>2, <1>3, RequestKeeps

\* A LEASE_ACK of the client in state c, which names the router's token.
LEMMA AckKeeps ==
  ASSUME HandshakeInv, NEW n \in Nodes, NEW c \in Clients, SendAck(n, c),
         c.attempt >= 1, c.seq <= MaxSeq + MaxAttempts + 2 * (c.attempt - 1),
         c.epoch = client[n].epoch,
         nodes[n].epoch = c.epoch /\ nodes[n].token = c.token,
         UNCHANGED routerVars, down' \subseteq down,
         faults' \in [lost : 0..MaxLost, repeated : 0..MaxRepeated, late : 0..MaxLate]
  PROVE  HandshakeInv'
<1>1. PICK d \in Clients : /\ client' = [client EXCEPT ![n] = d] /\ SeqOK(d)
                           /\ d.epoch = c.epoch /\ d.token = c.token
  BY SendAckFacts
<1>2. \A x \in up' : x \in up \/ (UpOK(x) /\ x.node = n /\ x.epoch = c.epoch)
  BY SendAckFacts
<1>3. c.epoch \in Nat
  BY ClientFields
<1>4. client[n].epoch <= d.epoch
  BY <1>1, <1>3
<1>5. \A x \in up' : x \in up \/ (UpOK(x) /\ x.node = n /\ x.epoch <= d.epoch)
  BY <1>1, <1>2, <1>3
<1>6. nodes[n].epoch = d.epoch /\ nodes[n].token = d.token
  BY <1>1
<1> QED BY <1>1, <1>4, <1>5, <1>6, ClientKeeps

LEMMA AckLeaseKeeps ==
  ASSUME HandshakeInv, NEW n \in Nodes, AckLease(n)
  PROVE  HandshakeInv'
<1>1. PICK c : c = [client[n] EXCEPT !.attempt = 1]
  OBVIOUS
<1>2. /\ client[n].seq <= MaxSeq /\ client[n].token # 0 /\ SendAck(n, c)
      /\ UNCHANGED <<routerVars, down, faults>>
  BY <1>1, Zenon DEF AckLease
<1>3. client[n] \in Clients /\ client[n].seq \in Nat /\ 1 \in 0..MaxAttempts
  BY InvTypes, ClientFields, LastSeqFacts
<1>4. /\ c \in Clients /\ c.seq = client[n].seq /\ c.epoch = client[n].epoch
      /\ c.token = client[n].token /\ c.attempt = 1
  BY <1>1, <1>3, ClientChanges DEF Alike
<1>5. c.seq <= MaxSeq + MaxAttempts + 2 * (c.attempt - 1) /\ c.attempt >= 1
  BY <1>2, <1>3, <1>4, LastSeqFacts
<1>6. nodes[n].epoch = c.epoch /\ nodes[n].token = c.token
  BY <1>2, <1>4, InvTypes
<1>7. faults' \in [lost : 0..MaxLost, repeated : 0..MaxRepeated, late : 0..MaxLate]
  BY <1>2, InvTypes
<1>8. UNCHANGED routerVars /\ down' \subseteq down
  BY <1>2
<1> QED BY <1>2, <1>4, <1>5, <1>6, <1>7, <1>8, AckKeeps
\* An INVITE of the client's epoch names the router's token.
LEMMA InviteFacts ==
  ASSUME HandshakeInv, NEW n \in Nodes, NEW m \in down, ForClient(n, m)
  PROVE  /\ m.epoch = nodes[n].epoch /\ nodes[n].epoch = client[n].epoch
         /\ m.token = nodes[n].token /\ m.token \in 1..MaxLeases
<1>1. m.node = n /\ m.epoch = client[n].epoch /\ m.epoch <= nodes[n].epoch /\ m.epoch \in Nat
  BY DEF HandshakeInv, OneToken, ForClient
<1>2. nodes[n].epoch \in Nat /\ nodes[n].epoch <= client[n].epoch
  BY InvTypes
<1>3. m.epoch = nodes[n].epoch
  BY <1>1, <1>2
<1> QED BY <1>1, <1>3 DEF HandshakeInv, OneToken

\* A call that returns: what it knows of the lease stays, or is forgotten.
LEMMA EndKeeps ==
  ASSUME HandshakeInv, NEW n \in Nodes, NEW d \in Clients,
         client' = [client EXCEPT ![n] = d], d.pc = "idle", d.seq <= LastSeq,
         d.epoch = client[n].epoch,
         d.token = 0 \/ (nodes[n].epoch = d.epoch /\ nodes[n].token = d.token),
         UNCHANGED <<routerVars, up>>, down' \subseteq down,
         faults' \in [lost : 0..MaxLost, repeated : 0..MaxRepeated, late : 0..MaxLate]
  PROVE  HandshakeInv'
<1>1. SeqOK(d)
  BY DEF SeqOK
<1>2. client[n].epoch <= d.epoch
  BY InvTypes, ClientFields
<1>3. \A x \in up' : x \in up \/ (UpOK(x) /\ x.node = n /\ x.epoch <= d.epoch)
  OBVIOUS
<1> QED BY <1>1, <1>2, <1>3, ClientKeeps

LEMMA AfterInviteKeeps ==
  ASSUME HandshakeInv, NEW n \in Nodes, NEW m \in down, ForClient(n, m),
         client[n].pc # "idle", AfterInvite(n, m), UNCHANGED routerVars, down' \subseteq down,
         faults' \in [lost : 0..MaxLost, repeated : 0..MaxRepeated, late : 0..MaxLate]
  PROVE  HandshakeInv'
<1>1. PICK c \in Clients : c = client[n]
  BY InvTypes
<1>2. /\ m.epoch = nodes[n].epoch /\ nodes[n].epoch = c.epoch
      /\ m.token = nodes[n].token /\ m.token \in 1..MaxLeases
  BY <1>1, InviteFacts
<1>3. /\ c.pc \in {"inviting", "probing"} /\ c.seq \in Nat /\ c.attempt \in 0..MaxAttempts
      /\ c.token \in 0..MaxLeases
  BY <1>1, ClientFields
<1>4. SeqOK(c) /\ (c.token # 0 => nodes[n].epoch = c.epoch /\ nodes[n].token = c.token)
  BY <1>1, InvTypes
<1>5. c.attempt >= 1 /\ c.seq <= LastSeq
  BY <1>3, <1>4, LastSeqFacts DEF SeqOK
<1>6. CASE c.pc = "inviting"
  <2>1. PICK d : d = [c EXCEPT !.token = m.token, !.attempt = 1]
    OBVIOUS
  <2>2. /\ d \in Clients /\ d.seq = c.seq /\ d.epoch = c.epoch /\ d.token = m.token
        /\ d.attempt = 1
    <3>0. PICK t : t = m.token
      OBVIOUS
    <3>1. PICK e : e = [c EXCEPT !.token = t]
      OBVIOUS
    <3>5. t \in 0..MaxLeases
      BY <1>2, <3>0
    <3>2. e \in Clients /\ e.seq = c.seq /\ e.epoch = c.epoch /\ e.token = m.token
      BY ONLY <3>0, <3>1, <3>5, ClientChanges DEF Alike
    <3>3. d = [e EXCEPT !.attempt = 1]
      BY <2>1, <3>0, <3>1 DEF Clients
    <3>4. 1 \in 0..MaxAttempts
      BY LastSeqFacts
    <3> QED BY <3>2, <3>3, <3>4, ClientChanges DEF Alike
  <2>3. d.seq <= MaxSeq + MaxAttempts + 2 * (d.attempt - 1) /\ d.attempt >= 1
    BY <1>3, <1>4, <1>6, <2>2, LastSeqFacts DEF SeqOK
  <2>4. CASE c.full
    <3>1. SendAck(n, d)
      BY <1>1, <1>6, <2>1, <2>4, Zenon DEF AfterInvite
    <3> QED BY <1>1, <1>2, <2>2, <2>3, <3>1, AckKeeps
  <2>5. CASE ~c.full
    <3>1. client' = [client EXCEPT ![n] = Returned(d)] /\ up' = up
      BY <1>1, <1>6, <2>1, <2>5, Zenon DEF AfterInvite
    <3>2. PICK r : r = Returned(d)
      OBVIOUS
    <3>3. /\ r \in Clients /\ r.seq = c.seq /\ r.pc = "idle" /\ r.epoch = c.epoch
          /\ r.token = m.token
      BY <2>2, <3>2, ReturnedFacts
    <3> QED BY <1>1, <1>2, <1>5, <3>1, <3>2, <3>3, EndKeeps
  <2> QED BY <2>4, <2>5
<1>7. CASE c.pc # "inviting" /\ m.token = c.token /\ MayRetry(c)
  <2>1. PICK d : d = [c EXCEPT !.attempt = c.attempt + 1]
    OBVIOUS
  <2>2. c.attempt + 1 \in 0..MaxAttempts
    BY <1>3, <1>7, LastSeqFacts DEF MayRetry
  <2>3. /\ d \in Clients /\ d.seq = c.seq /\ d.epoch = c.epoch /\ d.token = c.token
        /\ d.attempt = c.attempt + 1
    BY <2>1, <2>2, ClientChanges, ZenonT(60) DEF Alike
  <2>4. d.seq <= MaxSeq + MaxAttempts + 2 * (d.attempt - 1) /\ d.attempt >= 1
    BY <1>3, <1>4, <1>5, <1>7, <2>3, LastSeqFacts DEF SeqOK
  <2>5. SendAck(n, d)
    BY <1>1, <1>7, <2>1, Zenon DEF AfterInvite
  <2> QED BY <1>1, <1>2, <1>7, <2>3, <2>4, <2>5, AckKeeps
<1>8. CASE c.pc # "inviting" /\ ~(m.token = c.token /\ MayRetry(c))
  <2>1. PICK t : t = IF m.token = c.token THEN c.token ELSE 0
    OBVIOUS
  <2>2. t \in 0..MaxLeases /\ (t = 0 \/ t = nodes[n].token)
    BY <1>2, <1>3, <2>1, HandshakeBounds
  <2>3. PICK r \in Clients : r = Returned(c)
    BY ReturnedFacts
  <2>4. r.seq = c.seq /\ r.pc = "idle" /\ r.epoch = c.epoch
    BY <2>3, ReturnedFacts
  <2>5. PICK d : d = [r EXCEPT !.token = t]
    OBVIOUS
  <2>6. d \in Clients /\ d.seq = c.seq /\ d.pc = "idle" /\ d.epoch = c.epoch /\ d.token = t
    BY <2>2, <2>4, <2>5, ClientChanges, ZenonT(60) DEF Alike
  <2>7. client' = [client EXCEPT ![n] = d] /\ up' = up
    <3>1. /\ client' = [client EXCEPT ![n] =
                [Returned(c) EXCEPT !.token = IF m.token = c.token THEN c.token ELSE 0]]
          /\ up' = up
      BY <1>1, <1>8, Zenon DEF AfterInvite
    <3> QED BY <2>1, <2>3, <2>5, <3>1, Zenon
  <2> QED BY <1>1, <1>2, <1>5, <2>2, <2>6, <2>7, EndKeeps
<1> QED BY <1>6, <1>7, <1>8

LEMMA ReceiveInviteKeeps ==
  ASSUME HandshakeInv, NEW n \in Nodes, NEW m \in down, ReceiveInvite(n, m)
  PROVE  HandshakeInv'
<1>1. /\ client[n].pc # "idle" /\ UNCHANGED routerVars
      /\ IF ForClient(n, m) THEN AfterInvite(n, m) ELSE UNCHANGED <<client, up>>
      /\ Deliver(down, down', m)
  BY Zenon DEF ReceiveInvite
<1>2. /\ down' \subseteq down
      /\ faults' \in [lost : 0..MaxLost, repeated : 0..MaxRepeated, late : 0..MaxLate]
  <2>1. faults \in [lost : 0..MaxLost, repeated : 0..MaxRepeated, late : 0..MaxLate]
    BY DEF HandshakeInv, Types
  <2>2. Deliver(down, down', m)
    BY <1>1, Zenon
  <2>3. \/ down' = down \ {m} /\ faults' = faults
        \/ /\ down' = down /\ faults.repeated < MaxRepeated
           /\ faults' = [faults EXCEPT !.repeated = faults.repeated + 1]
    BY <2>2, Zenon DEF Deliver
  <2> QED BY ONLY <2>1, <2>3, HandshakeBounds
<1>3. CASE ForClient(n, m)
  BY <1>1, <1>2, <1>3, AfterInviteKeeps
<1>4. CASE ~ForClient(n, m)
  <2>1. UNCHANGED <<client, up>>
    BY <1>1, <1>4
  <2> QED BY <1>1, <1>2, <2>1
      DEF HandshakeInv, Types, ClientsOK, SeqOK, Behind, RouterOK, Recorded, OneToken, routerVars
<1> QED BY <1>3, <1>4

\* No INVITE in the window: another NODE_HELLO, or the end of the call.
LEMMA TimeoutKeeps ==
  ASSUME HandshakeInv, NEW n \in Nodes, Timeout(n)
  PROVE  HandshakeInv'
<1>1. PICK c \in Clients : c = client[n]
  BY InvTypes
<1>2. /\ c.pc # "idle" /\ UNCHANGED <<routerVars, down>> /\ (Quiet(n) \/ MayBeLate)
      /\ faults' = IF Quiet(n) THEN faults ELSE [faults EXCEPT !.late = faults.late + 1]
  BY <1>1 DEF Timeout, WaitOver
<1>3. faults' \in [lost : 0..MaxLost, repeated : 0..MaxRepeated, late : 0..MaxLate]
  BY <1>2, HandshakeBounds, InvTypes DEF MayBeLate
<1>4. /\ c.pc \in {"inviting", "probing"} /\ c.seq \in Nat /\ c.attempt \in 0..MaxAttempts
      /\ c.token \in 0..MaxLeases /\ c.active \in BOOLEAN
  BY <1>2, ClientFields
<1>5. SeqOK(c) /\ (c.token # 0 => nodes[n].epoch = c.epoch /\ nodes[n].token = c.token)
  BY <1>1, InvTypes
<1>6. c.attempt >= 1 /\ c.seq <= LastSeq
  BY <1>4, <1>5, LastSeqFacts DEF SeqOK
<1>7. CASE c.pc = "inviting" /\ MayRetry(c)
  <2>1. PICK d : d = [c EXCEPT !.attempt = c.attempt + 1]
    OBVIOUS
  <2>2. c.attempt + 1 \in 0..MaxAttempts
    BY <1>4, <1>7, LastSeqFacts DEF MayRetry
  <2>3. /\ d \in Clients /\ d.seq = c.seq /\ d.epoch = c.epoch /\ d.token = c.token
        /\ d.attempt = c.attempt + 1 /\ d.pc = "inviting"
    BY <1>7, <2>1, <2>2, ClientChanges DEF Alike
  <2>4. SayHello(n, d)
    BY <1>1, <1>7, <2>1, Zenon DEF Timeout
  <2>5. d.seq < MaxSeq + d.attempt /\ d.attempt >= 1
    BY <1>4, <1>5, <1>6, <1>7, <2>3, LastSeqFacts DEF SeqOK
  <2>6. d.epoch >= client[n].epoch
    BY <1>1, <2>3, ClientFields
  <2>7. d.token = 0 \/ (nodes[n].epoch = d.epoch /\ nodes[n].token = d.token)
    BY <1>5, <2>3
  <2> QED BY <1>2, <1>3, <2>3, <2>4, <2>5, <2>6, <2>7, HelloKeeps
<1>8. CASE ~(c.pc = "inviting" /\ MayRetry(c))
  <2>1. PICK a \in BOOLEAN : a = (c.active \/ c.pc = "probing")
    OBVIOUS
  <2>2. PICK r \in Clients : r = Returned(c)
    BY ReturnedFacts
  <2>3. r.seq = c.seq /\ r.pc = "idle" /\ r.epoch = c.epoch /\ r.token = c.token
    BY <2>2, ReturnedFacts
  <2>4. PICK d : d = [r EXCEPT !.active = a]
    OBVIOUS
  <2>5. d \in Clients /\ d.seq = c.seq /\ d.pc = "idle" /\ d.epoch = c.epoch /\ d.token = c.token
    BY <2>3, <2>4, Activated
  <2>6. client' = [client EXCEPT ![n] = d] /\ up' = up
    <3>1. /\ client' = [client EXCEPT ![n] =
                [Returned(c) EXCEPT !.active = c.active \/ c.pc = "probing"]]
          /\ up' = up
      BY <1>1, <1>8, Zenon DEF Timeout
    <3> QED BY <2>1, <2>2, <2>4, <3>1, Zenon
  <2> QED BY <1>1, <1>2, <1>3, <1>5, <1>6, <2>5, <2>6, EndKeeps
<1> QED BY <1>7, <1>8
LEMMA HeartbeatKeeps ==
  ASSUME HandshakeInv, NEW n \in Nodes, SendHeartbeat(n)
  PROVE  HandshakeInv'
<1>1. PICK c \in Clients : c = client[n]
  BY InvTypes
<1>2. /\ c.pc = "idle" /\ c.seq <= MaxSeq + 2 /\ client' = [client EXCEPT ![n] = Sent(c)]
      /\ up' = up \cup {Datagram(n, c, "heartbeat", 0)}
      /\ UNCHANGED <<routerVars, down, faults>>
  BY <1>1, Zenon DEF SendHeartbeat
<1>3. /\ c.seq \in Nat /\ c.epoch \in 1..MaxEpoch /\ 0 \in 0..MaxLeases
      /\ c.token # 0 => nodes[n].epoch = c.epoch /\ nodes[n].token = c.token
  BY <1>1, ClientFields, InvTypes, HandshakeBounds
<1>4. PICK d : d = Sent(c)
  OBVIOUS
<1>5. /\ d \in Clients /\ d.seq = c.seq + 1 /\ d.epoch = c.epoch /\ d.token = c.token
      /\ d.pc = "idle"
  BY <1>2, <1>4, SentFacts
<1>6. SeqOK(d) /\ c.seq <= LastSeq
  BY <1>2, <1>3, <1>5, LastSeqFacts DEF SeqOK
<1>7. /\ UpOK(Datagram(n, c, "heartbeat", 0)) /\ Datagram(n, c, "heartbeat", 0).node = n
      /\ Datagram(n, c, "heartbeat", 0).epoch = c.epoch
  BY <1>3, <1>6, DatagramIsOK
<1>8. /\ \A x \in up' : x \in up \/ (UpOK(x) /\ x.node = n /\ x.epoch <= d.epoch)
      /\ client' = [client EXCEPT ![n] = d]
  BY <1>2, <1>3, <1>4, <1>5, <1>7
<1>9. /\ client[n].epoch <= d.epoch /\ UNCHANGED routerVars /\ down' \subseteq down
      /\ d.token = 0 \/ (nodes[n].epoch = d.epoch /\ nodes[n].token = d.token)
      /\ faults' \in [lost : 0..MaxLost, repeated : 0..MaxRepeated, late : 0..MaxLate]
  BY <1>1, <1>2, <1>3, <1>5, InvTypes
<1> QED BY <1>5, <1>6, <1>8, <1>9, ClientKeeps

LEMMA NewClientFacts ==
  ASSUME NEW e \in 1..MaxEpoch
  PROVE  /\ NewClient(e) \in Clients /\ NewClient(e).epoch = e /\ NewClient(e).token = 0
         /\ NewClient(e).pc = "idle" /\ NewClient(e).seq = 1 /\ SeqOK(NewClient(e))
<1> PICK no \in BOOLEAN : no = FALSE
  OBVIOUS
<1>1. PICK d : d = NewClient(e)
  OBVIOUS
<1>2. d = [pc |-> "idle", full |-> no, epoch |-> e, seq |-> 1, token |-> 0,
           active |-> no, attempt |-> 0]
  BY <1>1, Zenon DEF NewClient
<1>3. 0 \in 0..MaxLeases /\ 0 \in 0..MaxAttempts /\ 1 \in Nat \ {0}
  BY HandshakeBounds, LastSeqFacts
<1>4. /\ d \in Clients /\ d.epoch = e /\ d.token = 0 /\ d.pc = "idle" /\ d.seq = 1
  BY <1>2, <1>3, ClientRecord
<1>5. SeqOK(d)
  BY <1>4, LastSeqFacts DEF SeqOK
<1> QED BY <1>1, <1>4, <1>5

LEMMA RestartKeeps ==
  ASSUME HandshakeInv, NEW n \in Nodes, RestartClient(n)
  PROVE  HandshakeInv'
<1>1. client[n].epoch \in 1..MaxEpoch /\ MaxEpoch \in Nat
  BY InvTypes, ClientFields, HandshakeBounds
<1>2. PICK e \in 1..MaxEpoch : e = client[n].epoch + 1
  BY <1>1 DEF RestartClient
<1>3. PICK d \in Clients : d = NewClient(e)
  BY NewClientFacts
<1>4. d.epoch = e /\ d.token = 0 /\ SeqOK(d)
  BY <1>3, NewClientFacts
<1>5. client' = [client EXCEPT ![n] = d] /\ UNCHANGED <<routerVars, up, down, faults>>
  BY <1>2, <1>3 DEF RestartClient
<1>6. /\ client[n].epoch <= d.epoch /\ down' \subseteq down
      /\ \A x \in up' : x \in up \/ (UpOK(x) /\ x.node = n /\ x.epoch <= d.epoch)
      /\ faults' \in [lost : 0..MaxLost, repeated : 0..MaxRepeated, late : 0..MaxLate]
  BY <1>1, <1>2, <1>4, <1>5, InvTypes
<1> QED BY <1>4, <1>5, <1>6, ClientKeeps
-----------------------------------------------------------------------------
(* The issuer's steps *)

LEMMA NodeFields ==
  ASSUME NEW s \in Router!NodeState
  PROVE  /\ s.state \in Router!Lifecycle /\ s.epoch \in Nat /\ s.inSeq \in Nat
         /\ s.outSeq \in Nat /\ s.token \in Nat /\ s.report \in Router!Report
         /\ s.cap \in {0} /\ s.trunk \in BOOLEAN /\ s.age \in Nat
         /\ s = [state |-> s.state, epoch |-> s.epoch, inSeq |-> s.inSeq,
                 outSeq |-> s.outSeq, token |-> s.token, report |-> s.report,
                 cap |-> s.cap, trunk |-> s.trunk, age |-> s.age]
  BY DEF Router!NodeState

LEMMA NodeRecord ==
  ASSUME NEW st \in Router!Lifecycle, NEW e \in Nat, NEW i \in Nat, NEW o \in Nat,
         NEW t \in Nat, NEW r \in Router!Report, NEW trunk \in BOOLEAN, NEW age \in Nat,
         NEW s, s = [state |-> st, epoch |-> e, inSeq |-> i, outSeq |-> o, token |-> t,
                     report |-> r, cap |-> 0, trunk |-> trunk, age |-> age]
  PROVE  /\ s \in Router!NodeState /\ s.state = st /\ s.epoch = e /\ s.outSeq = o
         /\ s.token = t /\ s.trunk = trunk /\ s.inSeq = i
  BY DEF Router!NodeState

LEMMA HealthyReport == Healthy \in Router!Report /\ Router!AnyCap = 0
  BY DEF Healthy, Router!Report, Router!Availability, Router!Health, Router!AnyCap

LEMMA UpFields ==
  ASSUME HandshakeInv, NEW d \in up
  PROVE  /\ d.type \in {"node_hello", "lease_ack", "heartbeat"} /\ d.node \in Nodes
         /\ d.epoch \in Nat \ {0} /\ d.seq \in Nat /\ d.report = Healthy /\ d.cap = 0
         /\ d.trunk = TRUE /\ d.epoch <= client[d.node].epoch
<1>1. UpOK(d) /\ d.epoch <= client[d.node].epoch
  BY DEF HandshakeInv, Behind
<1>2. d.epoch \in 1..MaxEpoch /\ d.seq \in 1..LastSeq
  BY <1>1 DEF UpOK
<1>3. d.epoch \in Nat \ {0} /\ d.seq \in Nat
  BY <1>2
<1>4. /\ d.type \in {"node_hello", "lease_ack", "heartbeat"} /\ d.node \in Nodes
      /\ d.report = Healthy /\ d.cap = 0
  BY <1>1 DEF UpOK
<1>5. d.trunk = TRUE
  BY <1>1, Zenon DEF UpOK
<1> QED BY <1>1, <1>3, <1>4, <1>5

\* What a step of the issuer may do to one record, and what then stays.
LEMMA IssuerKeeps ==
  ASSUME HandshakeInv, UNCHANGED client, NEW n \in Nodes, NEW s \in Router!NodeState,
         nodes' = [nodes EXCEPT ![n] = s], Recorded(s)', s.epoch <= client[n].epoch,
         \/ s.epoch = nodes[n].epoch /\ s.token = nodes[n].token
         \/ s.epoch > nodes[n].epoch,
         cache' \in [Nodes -> SUBSET {0}],
         grants' \in Seq([node : Nodes, epoch : Nat]),
         Len(grants) <= Len(grants'), Len(grants') <= MaxLeases, up' \subseteq up,
         \A m \in down' : \/ m \in down
                          \/ /\ m.node = n /\ m.epoch = s.epoch /\ m.token = s.token
                             /\ m.epoch \in Nat \ {0} /\ m.token \in 1..MaxLeases,
         faults' \in [lost : 0..MaxLost, repeated : 0..MaxRepeated, late : 0..MaxLate]
  PROVE  HandshakeInv'
<1>1. Types'
  BY DEF HandshakeInv, Types
<1>2. ClientsOK'
  BY DEF HandshakeInv, ClientsOK, SeqOK
<1>3. Behind'
  BY DEF HandshakeInv, Behind, UpOK
<1>4. /\ nodes'[n] = s /\ \A k \in Nodes : k # n => nodes'[k] = nodes[k]
      /\ \A k \in Nodes : nodes[k].epoch \in Nat /\ client[k].epoch \in Nat
      /\ s.epoch \in Nat
  <2>1. \A k \in Nodes : nodes[k].epoch \in Nat /\ client[k] \in Clients
    BY InvTypes
  <2>2. \A k \in Nodes : client[k].epoch \in Nat
    BY <2>1, ClientFields, SMTT(30)
  <2>3. nodes \in [Nodes -> Router!NodeState]
    BY DEF HandshakeInv, Types
  <2> QED BY <2>1, <2>2, <2>3, NodeFields
<1>5. Len(grants) \in Nat /\ Len(grants') \in Nat
  BY DEF HandshakeInv, Types
<1>6. RouterOK'
  <2>1. ASSUME NEW k \in Nodes PROVE Recorded(nodes[k])' /\ nodes'[k].epoch <= client'[k].epoch
    <3>1. Recorded(nodes[k]) /\ nodes[k].epoch <= client[k].epoch
      BY DEF HandshakeInv, RouterOK
    <3>2. CASE k = n
      BY <1>4, <3>2 DEF Recorded
    <3>3. CASE k # n
      BY <1>4, <1>5, <3>1, <3>3, SMTT(30) DEF Recorded
    <3> QED BY <3>2, <3>3
  <2> QED BY <2>1 DEF RouterOK
<1>7. OneToken'
  <2>1. ASSUME NEW m \in down'
        PROVE  /\ m.node \in Nodes /\ m.epoch \in Nat \ {0} /\ m.token \in 1..MaxLeases
               /\ m.epoch <= nodes'[m.node].epoch
               /\ m.epoch = nodes'[m.node].epoch => m.token = nodes'[m.node].token
    <3>1. CASE m \in down
      <4>1. /\ m.node \in Nodes /\ m.epoch \in Nat \ {0} /\ m.token \in 1..MaxLeases
            /\ m.epoch <= nodes[m.node].epoch
            /\ m.epoch = nodes[m.node].epoch => m.token = nodes[m.node].token
        BY <3>1 DEF HandshakeInv, OneToken
      <4> QED BY <1>4, <4>1
    <3>2. CASE m \notin down
      BY <1>4, <3>2
    <3> QED BY <3>1, <3>2
  <2>2. ASSUME NEW k \in Nodes, client'[k].token # 0
        PROVE  nodes'[k].epoch = client'[k].epoch /\ nodes'[k].token = client'[k].token
    <3>1. nodes[k].epoch = client[k].epoch /\ nodes[k].token = client[k].token
      BY <2>2 DEF HandshakeInv, OneToken
    <3> QED BY <1>4, <3>1
  <2> QED BY <2>1, <2>2 DEF OneToken
<1> QED BY <1>1, <1>2, <1>3, <1>6, <1>7 DEF HandshakeInv
\* An INVITE offers a token and leaves epoch, numbers and trunk alone.
LEMMA InvitedFacts ==
  ASSUME NEW s \in Router!NodeState, NEW t \in Nat
  PROVE  /\ Router!AfterInvite(s, t) \in Router!NodeState
         /\ Router!AfterInvite(s, t).state = "invited"
         /\ Router!AfterInvite(s, t).epoch = s.epoch
         /\ Router!AfterInvite(s, t).token = t
         /\ Router!AfterInvite(s, t).trunk = s.trunk
<1>0. PICK new : new = Router!AfterInvite(s, t)
  OBVIOUS
<1>1. new = [state |-> "invited", epoch |-> s.epoch, inSeq |-> s.inSeq,
             outSeq |-> s.outSeq + 1, token |-> t, report |-> s.report,
             cap |-> 0, trunk |-> s.trunk, age |-> s.age]
  BY <1>0 DEF Router!AfterInvite, Router!NodeState
<1>2. "invited" \in Router!Lifecycle
  BY DEF Router!Lifecycle
<1>3. /\ s.epoch \in Nat /\ s.inSeq \in Nat /\ s.outSeq + 1 \in Nat
      /\ s.report \in Router!Report /\ s.age \in Nat
  BY NodeFields
<1>4. PICK b \in BOOLEAN : b = s.trunk
  BY NodeFields
<1>5. new = [state |-> "invited", epoch |-> s.epoch, inSeq |-> s.inSeq,
             outSeq |-> s.outSeq + 1, token |-> t, report |-> s.report,
             cap |-> 0, trunk |-> b, age |-> s.age]
  BY <1>1, <1>4, Zenon
<1>6. /\ new \in Router!NodeState /\ new.state = "invited" /\ new.epoch = s.epoch
      /\ new.token = t /\ new.trunk = b
  BY <1>2, <1>3, <1>5 DEF Router!NodeState
<1> QED BY <1>0, <1>4, <1>6, Zenon

\* A NODE_HELLO that counts leaves the node SEEN in the epoch of the datagram.
LEMMA GreetedFacts ==
  ASSUME HandshakeInv, NEW d \in up, NEW s,
         \/ s = Router!Registered(d)
         \/ s = Router!AfterHello(nodes[d.node], d)
  PROVE  /\ s \in Router!NodeState /\ s.state = "seen" /\ s.epoch = d.epoch
         /\ s.trunk = TRUE
<1>1. /\ d.node \in Nodes /\ d.epoch \in Nat \ {0} /\ d.seq \in Nat /\ d.report = Healthy
      /\ d.cap = 0
  BY UpFields
<1>2. d.trunk = TRUE
  BY UpFields
<1>3. PICK yes \in BOOLEAN : yes = d.trunk
  BY <1>2
<1>4. nodes[d.node] \in Router!NodeState
  BY <1>1, InvTypes
<1>5. "seen" \in Router!Lifecycle /\ Healthy \in Router!Report
  BY HealthyReport DEF Router!Lifecycle
<1>6. CASE s = Router!Registered(d)
  <2>1. PICK no, r : /\ no = FALSE /\ r = [avail |-> "unknown", health |-> "unknown"]
    OBVIOUS
  <2>2. Router!NoNode =
          [state |-> "unknown", epoch |-> 0, inSeq |-> 0, outSeq |-> 0, token |-> 0,
           report |-> r, cap |-> Router!AnyCap, trunk |-> no, age |-> 0]
    BY <2>1, Zenon DEF Router!NoNode
  <2>3. s = [Router!NoNode EXCEPT !.state = "seen", !.epoch = d.epoch, !.inSeq = d.seq,
                    !.report = d.report, !.cap = d.cap, !.trunk = yes]
    BY <1>3, <1>6, Zenon DEF Router!Registered
  <2>4. s = [state |-> "seen", epoch |-> d.epoch, inSeq |-> d.seq, outSeq |-> 0,
             token |-> 0, report |-> d.report, cap |-> 0, trunk |-> yes, age |-> 0]
    BY ONLY <1>1, <2>2, <2>3
  <2>5. /\ s \in Router!NodeState /\ s.state = "seen" /\ s.epoch = d.epoch /\ s.trunk = yes
    BY ONLY <1>1, <1>3, <1>5, <2>4, NodeRecord
  <2> QED BY <1>2, <1>3, <2>5, Zenon
<1>7. CASE s = Router!AfterHello(nodes[d.node], d)
  <2>1. PICK o \in Router!NodeState : o = nodes[d.node]
    BY <1>4
  <2>2. PICK t : t = IF d.epoch > o.epoch THEN 0 ELSE o.token
    OBVIOUS
  <2>3. s = [o EXCEPT !.state = "seen", !.epoch = d.epoch, !.token = t,
                      !.report = d.report, !.cap = d.cap, !.trunk = yes,
                      !.inSeq = d.seq, !.age = 0]
    BY <1>3, <1>7, <2>1, <2>2, Zenon DEF Router!AfterHello
  <2>4. s = [state |-> "seen", epoch |-> d.epoch, inSeq |-> d.seq, outSeq |-> o.outSeq,
             token |-> t, report |-> d.report, cap |-> 0, trunk |-> yes, age |-> 0]
    BY ONLY <1>1, <2>1, <2>3 DEF Router!NodeState
  <2>5. t \in Nat /\ o.outSeq \in Nat
    <3>1. o.token \in Nat /\ o.outSeq \in Nat
      BY NodeFields
    <3> QED BY ONLY <2>2, <3>1
  <2>6. /\ s \in Router!NodeState /\ s.state = "seen" /\ s.epoch = d.epoch /\ s.trunk = yes
    BY <1>1, <1>5, <2>4, <2>5 DEF Router!NodeState
  <2> QED BY <1>2, <1>3, <2>6, Zenon
<1> QED BY <1>6, <1>7
LEMMA RouterFacts ==
  ASSUME HandshakeInv, NEW d \in up
  PROVE  /\ nodes[d.node] \in Router!NodeState /\ Recorded(nodes[d.node])
         /\ nodes[d.node].epoch \in Nat /\ nodes[d.node].epoch <= client[d.node].epoch
         /\ client[d.node].epoch \in Nat
         /\ cache \in [Nodes -> SUBSET {0}]
         /\ grants \in Seq([node : Nodes, epoch : Nat])
         /\ Len(grants) \in Nat /\ Len(grants) <= MaxLeases /\ MaxLeases \in Nat
<1>1. d.node \in Nodes
  BY UpFields
<1>2. client[d.node].epoch \in Nat
  BY <1>1, InvTypes, ClientFields
<1> QED BY <1>1, <1>2, InvTypes, HandshakeBounds DEF HandshakeInv, Types, RouterOK

\* A first NODE_HELLO of an identity or epoch gets a fresh token, one of a node still
\* INVITED the same again; any other changes nothing.
LEMMA ServeHelloKeeps ==
  ASSUME HandshakeInv, NEW d \in up, ServeHello(d), up' \subseteq up, UNCHANGED client,
         faults' \in [lost : 0..MaxLost, repeated : 0..MaxRepeated, late : 0..MaxLate]
  PROVE  HandshakeInv'
<1>1. PICK n, o, s, k :
        /\ n \in Nodes /\ n = d.node /\ o = nodes[n] /\ s = Ingested(d)
        /\ k = IF s.state = "seen" THEN Router!NextToken ELSE s.token
  BY UpFields
<1>2. PICK new : new = Router!AfterInvite(s, k)
  OBVIOUS
<1>3. /\ s.state = "seen" => Router!NextToken <= MaxLeases
      /\ cache' = IF Router!NewIncarnation(d) THEN [cache EXCEPT ![n] = {}] ELSE cache
      /\ grants' = IF s.state = "seen"
                     THEN Append(grants, [node |-> n, epoch |-> s.epoch]) ELSE grants
      /\ IF s.state = "seen" \/ StillOffered(s, d)
           THEN /\ nodes' = [nodes EXCEPT ![n] = new]
                /\ down' = down \cup {Invite(n, new)}
           ELSE /\ nodes' = [nodes EXCEPT ![n] = s]
                /\ down' = down
  BY <1>1, <1>2, Zenon DEF ServeHello
<1>4. /\ o \in Router!NodeState /\ Recorded(o) /\ o.epoch \in Nat
      /\ o.epoch <= client[n].epoch /\ client[n].epoch \in Nat
      /\ Len(grants) \in Nat /\ Len(grants) <= MaxLeases /\ MaxLeases \in Nat
      /\ grants \in Seq([node : Nodes, epoch : Nat])
  BY <1>1, RouterFacts
<1>5. d.epoch \in Nat \ {0} /\ d.epoch <= client[n].epoch /\ n \in Nodes
  BY <1>1, UpFields
<1>6. cache' \in [Nodes -> SUBSET {0}]
  BY <1>3, RouterFacts
<1>7. nodes \in [Nodes -> Router!NodeState]
  BY DEF HandshakeInv, Types
<1>8. CASE ~Router!Known(n) \/ Router!NewIncarnation(d)
  <2>1. s = Router!Registered(d) \/ s = Router!AfterHello(o, d)
    BY <1>1, <1>8, Zenon DEF Ingested
  <2>2. s \in Router!NodeState /\ s.state = "seen" /\ s.epoch = d.epoch
    BY <1>1, <2>1, GreetedFacts
  <2>t. s.trunk = TRUE
    BY <1>1, <2>1, GreetedFacts
  <2>3. k = Len(grants) + 1 /\ k \in 1..MaxLeases /\ k \in Nat
    BY <1>1, <1>3, <1>4, <2>2 DEF Router!NextToken
  <2>4. /\ new \in Router!NodeState /\ new.state = "invited" /\ new.epoch = d.epoch
        /\ new.token = k
    BY <1>2, <2>2, <2>3, InvitedFacts, Zenon
  <2>5. new.trunk = s.trunk
    BY <1>2, <2>2, <2>3, InvitedFacts
  <2>6. new.trunk = TRUE
    BY <2>5, <2>t, Zenon
  <2>7. /\ nodes' = [nodes EXCEPT ![n] = new] /\ down' = down \cup {Invite(n, new)}
        /\ grants' = Append(grants, [node |-> n, epoch |-> d.epoch])
    BY <1>3, <2>2, Zenon
  <2>8. /\ grants' \in Seq([node : Nodes, epoch : Nat]) /\ Len(grants') = Len(grants) + 1
    <3>1. [node |-> n, epoch |-> d.epoch] \in [node : Nodes, epoch : Nat]
      BY <1>5
    <3> QED BY <1>4, <2>7, <3>1
  <2>9. d.epoch > o.epoch
    <3>1. CASE ~Router!Known(n)
      <4>1. o.epoch = 0
        BY <1>1, <1>4, <3>1 DEF Recorded, Router!Known
      <4> QED BY <1>5, <4>1
    <3>2. CASE Router!NewIncarnation(d)
      BY <1>1, <3>2 DEF Router!NewIncarnation
    <3> QED BY <1>8, <3>1, <3>2
  <2>10. Recorded(new)'
    <3>1. k \in 1..Len(grants')
      BY <1>4, <2>3, <2>8
    <3>2. new.epoch >= 1
      BY <1>5, <2>4
    <3> QED BY <2>4, <2>6, <3>1, <3>2 DEF Recorded
  <2>11. \A m \in down' : \/ m \in down
                          \/ /\ m.node = n /\ m.epoch = new.epoch /\ m.token = new.token
                             /\ m.epoch \in Nat \ {0} /\ m.token \in 1..MaxLeases
    BY <1>5, <2>3, <2>4, <2>7 DEF Invite
  <2>12. /\ new.epoch <= client[n].epoch /\ new.epoch > nodes[n].epoch
         /\ Len(grants) <= Len(grants') /\ Len(grants') <= MaxLeases
    BY <1>1, <1>4, <1>5, <2>3, <2>4, <2>8, <2>9
  <2> QED BY <1>5, <1>6, <2>4, <2>7, <2>8, <2>10, <2>11, <2>12, IssuerKeeps
<1>9. CASE Router!Known(n) /\ ~Router!NewIncarnation(d)
  <2>1. s = o /\ o.state \in {"invited", "active"}
    <3>1. o.state \in {"invited", "active"}
      BY <1>1, <1>4, <1>9 DEF Recorded, Router!Known
    <3>2. o.state \notin {"seen", "cooling", "offline"}
      BY <3>1
    <3> QED BY <1>1, <1>9, <3>1, <3>2, Zenon DEF Ingested
  <2>2. k = o.token /\ o.token \in 1..Len(grants) /\ o.epoch >= 1 /\ o.token \in Nat
    <3>1. o.token \in 1..Len(grants) /\ o.epoch >= 1
      BY <2>1, <1>4 DEF Recorded
    <3>2. k = o.token
      BY <1>1, <2>1
    <3> QED BY <1>4, <3>1, <3>2
  <2>3. o.trunk = TRUE
    <3>1. o.state # "unknown"
      BY <2>1
    <3> QED BY <1>4, <3>1, Zenon DEF Recorded
  <2>n. new = Router!AfterInvite(o, o.token) /\ o \in Router!NodeState /\ o.token \in Nat
    <3>1. new = Router!AfterInvite(o, o.token)
      BY <1>2, <2>1, <2>2, Zenon
    <3> QED BY <1>4, <2>2, <3>1
  <2>4. /\ new \in Router!NodeState /\ new.state = "invited" /\ new.epoch = o.epoch
        /\ new.token = o.token
    BY <2>n, InvitedFacts, Zenon
  <2>5. new.trunk = o.trunk
    BY <2>n, InvitedFacts, Zenon
  <2>6. new.trunk = TRUE
    BY <2>3, <2>5, Zenon
  <2>7. grants' = grants
    BY <1>3, <2>1
  <2>g. /\ grants' \in Seq([node : Nodes, epoch : Nat])
        /\ Len(grants) <= Len(grants') /\ Len(grants') <= MaxLeases
    BY <1>4, <2>7
  <2>8. CASE StillOffered(s, d)
    <3>1. nodes' = [nodes EXCEPT ![n] = new] /\ down' = down \cup {Invite(n, new)}
      BY <1>3, <2>8, Zenon
    <3>2. Recorded(new)'
      BY <2>2, <2>4, <2>6, <2>7 DEF Recorded
    <3>3. \A m \in down' : \/ m \in down
                           \/ /\ m.node = n /\ m.epoch = new.epoch /\ m.token = new.token
                              /\ m.epoch \in Nat \ {0} /\ m.token \in 1..MaxLeases
      BY <1>4, <2>2, <2>4, <3>1 DEF Invite
    <3>4. new.epoch <= client[n].epoch /\ new.epoch = nodes[n].epoch /\ new.token = nodes[n].token
      BY <1>1, <1>4, <2>4
    <3> QED BY <1>5, <1>6, <2>4, <2>g, <3>1, <3>2, <3>3, <3>4, IssuerKeeps
  <2>9. CASE ~StillOffered(s, d)
    <3>1. nodes' = [nodes EXCEPT ![n] = o] /\ down' = down
      BY <1>3, <2>1, <2>9
    <3>2. Recorded(o)'
      BY <1>4, <2>7 DEF Recorded
    <3>3. o.epoch <= client[n].epoch /\ o.epoch = nodes[n].epoch /\ o.token = nodes[n].token
      BY <1>1, <1>4
    <3>4. \A m \in down' : m \in down
      BY <3>1
    <3> QED BY <1>4, <1>5, <1>6, <2>g, <3>1, <3>2, <3>3, <3>4, IssuerKeeps
  <2> QED BY <2>8, <2>9
<1> QED BY <1>8, <1>9

\* A LEASE_ACK or heartbeat of the present epoch makes or keeps the node ACTIVE, with
\* the token it has.
LEMMA IngestKeeps ==
  ASSUME HandshakeInv, NEW d \in up, Router!IngestDatagram(d), d.type # "node_hello",
         up' \subseteq up, UNCHANGED <<client, down>>,
         faults' \in [lost : 0..MaxLost, repeated : 0..MaxRepeated, late : 0..MaxLate]
  PROVE  HandshakeInv'
<1>1. PICK n, o : n \in Nodes /\ n = d.node /\ o = nodes[n]
  BY UpFields
<1>2. /\ o \in Router!NodeState /\ Recorded(o) /\ o.epoch \in Nat
      /\ o.epoch <= client[n].epoch
      /\ Len(grants) \in Nat /\ Len(grants) <= MaxLeases
      /\ grants \in Seq([node : Nodes, epoch : Nat]) /\ cache \in [Nodes -> SUBSET {0}]
  BY <1>1, RouterFacts
<1>3. d.type \in {"lease_ack", "heartbeat"} /\ d.report = Healthy /\ d.seq \in Nat
  BY UpFields
<1>4. ~Router!IsDegraded(d.report) /\ ~Router!IsDown(d.report)
  BY <1>3 DEF Healthy, Router!IsDegraded, Router!IsDown
<1>5. \A m \in down' : m \in down
  OBVIOUS
<1>6. nodes \in [Nodes -> Router!NodeState]
  BY DEF HandshakeInv, Types
\* What is stored has the epoch and token of before, and the state "active".
<1>7. ASSUME NEW s \in Router!NodeState, s.state = "active", s.epoch = o.epoch,
             s.token = o.token, s.trunk = TRUE, o.state # "unknown",
             nodes' = [nodes EXCEPT ![n] = s], UNCHANGED <<cache, grants>>
      PROVE  HandshakeInv'
  <2>1. Recorded(s)'
    <3>1. o.epoch >= 1 /\ o.token \in 1..Len(grants)
      BY <1>2, <1>7 DEF Recorded
    <3> QED BY <1>7, <3>1 DEF Recorded
  <2>2. /\ s.epoch <= client[n].epoch /\ s.epoch = nodes[n].epoch
        /\ s.token = nodes[n].token
    BY <1>1, <1>2, <1>7
  <2>3. /\ cache' \in [Nodes -> SUBSET {0}]
        /\ grants' \in Seq([node : Nodes, epoch : Nat])
        /\ Len(grants) <= Len(grants') /\ Len(grants') <= MaxLeases
    BY <1>2, <1>7
  <2> QED BY <1>1, <1>5, <1>7, <2>1, <2>2, <2>3, IssuerKeeps
<1>8. o.state # "unknown" => o.trunk = TRUE
  BY <1>2, Zenon DEF Recorded
<1>9. CASE Router!LeaseAck(d)
  <2>1. /\ o.state # "unknown" /\ UNCHANGED <<cache, grants>>
        /\ nodes' = [nodes EXCEPT ![n] = Router!AfterAck(o, d)]
    BY <1>1, <1>9 DEF Router!LeaseAck
  <2> PICK yes \in BOOLEAN : yes = TRUE
    OBVIOUS
  <2>2. PICK s : s = Router!AfterAck(o, d)
    OBVIOUS
  <2>3. Router!AfterAck(o, d) =
          [o EXCEPT !.state = "active", !.report = d.report, !.trunk = yes,
                    !.inSeq = d.seq, !.age = 0]
    BY <1>4, Zenon DEF Router!AfterAck
  <2>4. /\ s \in Router!NodeState /\ s.state = "active" /\ s.epoch = o.epoch
        /\ s.token = o.token /\ s.trunk = yes
    <3>1. PICK r \in Router!Report : r = d.report
      BY <1>3, HealthyReport
    <3>2. s = [o EXCEPT !.state = "active", !.report = r, !.trunk = yes,
                        !.inSeq = d.seq, !.age = 0]
      BY <2>2, <2>3, <3>1, Zenon
    <3>3. s = [state |-> "active", epoch |-> o.epoch, inSeq |-> d.seq,
               outSeq |-> o.outSeq, token |-> o.token, report |-> r,
               cap |-> o.cap, trunk |-> yes, age |-> 0]
      <4>1. o \in Router!NodeState
        BY <1>2
      <4> QED BY ONLY <4>1, <3>2 DEF Router!NodeState
    <3>4. o.cap = 0 /\ o.epoch \in Nat /\ o.outSeq \in Nat /\ o.token \in Nat
      BY <1>2, NodeFields
    <3>5. "active" \in Router!Lifecycle /\ d.seq \in Nat /\ 0 \in Nat
      BY <1>3 DEF Router!Lifecycle
    <3>6. o.inSeq \in Nat
      BY <1>2, NodeFields
    <3>7. s = [state |-> "active", epoch |-> o.epoch, inSeq |-> d.seq,
               outSeq |-> o.outSeq, token |-> o.token, report |-> r,
               cap |-> 0, trunk |-> yes, age |-> 0]
      BY <3>3, <3>4, Zenon
    <3> QED BY ONLY <3>1, <3>4, <3>5, <3>7 DEF Router!NodeState
  <2>5. s.trunk = TRUE
    BY <2>4, Zenon
  <2> QED BY <1>7, <2>1, <2>2, <2>4, <2>5
<1>10. CASE Router!Heartbeat(d)
  <2>1. /\ o.state = "active" /\ UNCHANGED <<cache, grants>>
        /\ nodes' = [nodes EXCEPT ![n] = Router!AfterHeartbeat(o, d)]
    BY <1>1, <1>2, <1>10 DEF Router!Heartbeat, Router!Reporting, Recorded
  <2>2. PICK s : s = Router!AfterHeartbeat(o, d)
    OBVIOUS
  <2>3. Router!StateAfterReport(o.state, d.report, o.token, o.trunk) = "active"
    BY <1>4, <2>1, Zenon DEF Router!StateAfterReport
  <2>4. s = [o EXCEPT !.state = "active", !.report = d.report, !.inSeq = d.seq, !.age = 0]
    BY <2>2, <2>3, Zenon DEF Router!AfterHeartbeat
  <2>5. /\ s \in Router!NodeState /\ s.state = "active" /\ s.epoch = o.epoch
        /\ s.token = o.token /\ s.trunk = o.trunk
    BY <1>2, <1>3, <2>4, HealthyReport DEF Router!NodeState, Router!Lifecycle
  <2>6. s.trunk = TRUE
    BY <1>8, <2>1, <2>5
  <2> QED BY <1>7, <2>1, <2>2, <2>5, <2>6
<1>11. CASE Router!IgnoreDatagram(d)
  <2>1. UNCHANGED <<nodes, cache, grants>>
    BY <1>11 DEF Router!IgnoreDatagram, Router!vars
  <2> QED BY <2>1 DEF HandshakeInv, Types, ClientsOK, SeqOK, Behind, RouterOK, Recorded,
                      OneToken
<1>12. ~Router!Register(d) /\ ~Router!HelloNewIncarnation(d)
       /\ ~Router!HelloSameIncarnation(d) /\ ~Router!Status(d) /\ ~Router!Pong(d)
  BY <1>3 DEF Router!Register, Router!HelloNewIncarnation, Router!HelloSameIncarnation,
              Router!Status, Router!Pong
<1> QED BY <1>9, <1>10, <1>11, <1>12, Zenon DEF Router!IngestDatagram

LEMMA ServeKeeps ==
  ASSUME HandshakeInv, NEW d \in up, Serve(d)
  PROVE  HandshakeInv'
<1>1. /\ Deliver(up, up', d) /\ UNCHANGED client
      /\ IF d.type = "node_hello" THEN ServeHello(d)
         ELSE Router!IngestDatagram(d) /\ down' = down
  BY Zenon DEF Serve
<1>2. /\ up' \subseteq up
      /\ faults' \in [lost : 0..MaxLost, repeated : 0..MaxRepeated, late : 0..MaxLate]
  <2>1. faults \in [lost : 0..MaxLost, repeated : 0..MaxRepeated, late : 0..MaxLate]
    BY DEF HandshakeInv, Types
  <2>2. Deliver(up, up', d)
    BY <1>1, Zenon
  <2>3. \/ up' = up \ {d} /\ faults' = faults
        \/ /\ up' = up /\ faults.repeated < MaxRepeated
           /\ faults' = [faults EXCEPT !.repeated = faults.repeated + 1]
    BY <2>2, Zenon DEF Deliver
  <2> QED BY ONLY <2>1, <2>3, HandshakeBounds
<1>3. CASE d.type = "node_hello"
  BY <1>1, <1>2, <1>3, ServeHelloKeeps
<1>4. CASE d.type # "node_hello"
  BY <1>1, <1>2, <1>4, IngestKeeps
<1> QED BY <1>3, <1>4

\* The network may lose what it likes.
LEMMA LoseKeeps ==
  ASSUME HandshakeInv, Lose
  PROVE  HandshakeInv'
<1>1. UNCHANGED <<nodes, cache, grants, client>> /\ up' \subseteq up /\ down' \subseteq down
  BY DEF Lose, routerVars
<1>2. /\ faults' = [faults EXCEPT !.lost = faults.lost + 1] /\ faults.lost < MaxLost
      /\ faults \in [lost : 0..MaxLost, repeated : 0..MaxRepeated, late : 0..MaxLate]
  BY Zenon DEF Lose, HandshakeInv, Types
<1>3. faults' \in [lost : 0..MaxLost, repeated : 0..MaxRepeated, late : 0..MaxLate]
  BY <1>2, HandshakeBounds
<1> QED BY <1>1, <1>3 DEF HandshakeInv, Types, ClientsOK, SeqOK, Behind, RouterOK, Recorded,
                         OneToken

-----------------------------------------------------------------------------
(* The theorems *)

LEMMA HandshakeInitInv ==
  ASSUME Init
  PROVE  HandshakeInv
<1>1. /\ nodes = [n \in Nodes |-> Router!NoNode] /\ cache = [n \in Nodes |-> {}]
      /\ grants = <<>> /\ client = [n \in Nodes |-> NewClient(1)] /\ up = {} /\ down = {}
      /\ faults = [lost |-> 0, repeated |-> 0, late |-> 0]
  BY Zenon DEF Init, Router!Init
<1>2. PICK no \in BOOLEAN : no = FALSE
  OBVIOUS
<1>3. PICK s : s = Router!NoNode
  OBVIOUS
<1>4. s = [state |-> "unknown", epoch |-> 0, inSeq |-> 0, outSeq |-> 0, token |-> 0,
           report |-> [avail |-> "unknown", health |-> "unknown"], cap |-> 0,
           trunk |-> no, age |-> 0]
  BY <1>2, <1>3, HealthyReport, Zenon DEF Router!NoNode
<1>5. /\ "unknown" \in Router!Lifecycle
      /\ [avail |-> "unknown", health |-> "unknown"] \in Router!Report
  BY DEF Router!Lifecycle, Router!Report, Router!Availability, Router!Health
<1>6. s \in Router!NodeState /\ s.state = "unknown" /\ s.epoch = 0
  <2>1. 0 \in Nat
    OBVIOUS
  <2> QED BY ONLY <1>2, <1>4, <1>5, <2>1, NodeRecord
<1>7. nodes = [n \in Nodes |-> s]
  BY <1>1, <1>3, Zenon
<1>8. PICK c : c = NewClient(1)
  OBVIOUS
<1>9. c \in Clients /\ c.epoch = 1 /\ c.token = 0 /\ SeqOK(c)
  <2>1. 1 \in 1..MaxEpoch
    BY HandshakeBounds
  <2> QED BY <1>8, <2>1, NewClientFacts
<1>10. client = [n \in Nodes |-> c]
  BY <1>1, <1>8, Zenon
<1>11. Types
  BY <1>1, <1>6, <1>7, HandshakeBounds DEF Types
<1>12. ClientsOK
  BY <1>9, <1>10 DEF ClientsOK
<1>13. Behind
  BY <1>1 DEF Behind
<1>14. RouterOK
  <2>1. Recorded(s)
    BY <1>6, Zenon DEF Recorded
  <2>2. ASSUME NEW n \in Nodes
        PROVE  Recorded(nodes[n]) /\ nodes[n].epoch <= client[n].epoch
    <3>1. nodes[n] = s /\ client[n] = c
      BY <1>7, <1>10
    <3> QED BY <1>6, <1>9, <2>1, <3>1
  <2> QED BY <2>2 DEF RouterOK
<1>15. OneToken
  BY <1>1, <1>9, <1>10 DEF OneToken
<1> QED BY <1>11, <1>12, <1>13, <1>14, <1>15 DEF HandshakeInv

LEMMA HandshakeNextInv ==
  ASSUME HandshakeInv, [Next]_vars
  PROVE  HandshakeInv'
<1>1. ASSUME NEW n \in Nodes,
             \/ Acquire(n) \/ OnlyInvite(n) \/ Renew(n) \/ AckLease(n)
             \/ Timeout(n) \/ SendHeartbeat(n) \/ RestartClient(n)
      PROVE  HandshakeInv'
  BY <1>1, CallsKeep, AckLeaseKeeps, TimeoutKeeps, HeartbeatKeeps, RestartKeeps
<1>2. ASSUME NEW n \in Nodes, NEW m \in down, ReceiveInvite(n, m)
      PROVE  HandshakeInv'
  BY <1>2, ReceiveInviteKeeps
<1>3. ASSUME NEW d \in up, Serve(d)
      PROVE  HandshakeInv'
  BY <1>3, ServeKeeps
<1>4. CASE Lose
  BY <1>4, LoseKeeps
<1>5. CASE UNCHANGED vars
  BY <1>5 DEF vars, HandshakeInv, Types, ClientsOK, SeqOK, Behind, RouterOK, Recorded,
              OneToken
<1> QED BY <1>1, <1>2, <1>3, <1>4, <1>5, Zenon DEF Next

\* The numbers of a call stay within what lease_client can send, and the epochs and tokens
\* of clients, router and datagrams in flight fit together, in every reachable state of the
\* handshake (lease_client's calls, lease_issuer::serve_loop, UDP).
THEOREM HandshakeInvariant == Spec => []HandshakeInv
  BY HandshakeInitInv, HandshakeNextInv, PTL DEF Spec

LEMMA InvGivesTypes ==
  ASSUME HandshakeInv
  PROVE  TypeOK
<1>1. Router!TypeOK
  BY DEF HandshakeInv, Types, Router!TypeOK
<1>2. client \in [Nodes ->
        [pc : {"idle", "inviting", "probing"}, full : BOOLEAN, epoch : 1..MaxEpoch,
         seq : 1..(LastSeq + 1), token : 0..MaxLeases, active : BOOLEAN,
         attempt : 0..MaxAttempts]]
  <2>1. ASSUME NEW n \in Nodes
        PROVE  client[n].seq \in 1..(LastSeq + 1)
    <3>1. PICK c \in Clients : c = client[n]
      BY InvTypes
    <3>2. SeqOK(c)
      BY <3>1, InvTypes
    <3>3. /\ c.pc \in {"idle", "inviting", "probing"} /\ c.seq \in Nat /\ c.seq >= 1
          /\ c.attempt \in Nat /\ c.attempt <= MaxAttempts
      BY ClientFields, LastSeqFacts
    <3>4. c.seq <= LastSeq
      BY <3>2, <3>3, LastSeqFacts DEF SeqOK
    <3> QED BY <3>1, <3>3, <3>4, LastSeqFacts
  <2> QED BY <2>1 DEF HandshakeInv, ClientsOK, Clients
<1>3. \A d \in up : d.node \in Nodes /\ d.seq \in 1..LastSeq
  BY DEF HandshakeInv, Behind, UpOK
<1>4. \A m \in down : m.node \in Nodes /\ m.token \in 1..MaxLeases
  BY DEF HandshakeInv, OneToken
<1>5. faults \in [lost : 0..MaxLost, repeated : 0..MaxRepeated, late : 0..MaxLate]
  BY DEF HandshakeInv, Types
<1> QED BY <1>1, <1>2, <1>3, <1>4, <1>5 DEF TypeOK

\* Client and issuer never disagree about the lease of an incarnation: the token a client
\* holds is the one the issuer's router has for its epoch, and once the router counts the
\* lease as ACTIVE a SESSION_BIND with it is accepted (request_invite_locked,
\* ack_lease_locked, issue_invite, validate_tcp_session_binding).
THEOREM LeaseAgrees == Spec => []LeaseAgreement
<1>1. ASSUME HandshakeInv
      PROVE  LeaseAgreement
  <2>1. TypeOK
    BY <1>1, InvGivesTypes
  <2>2. ASSUME NEW n \in Nodes, client[n].token # 0
        PROVE  /\ nodes[n].epoch = client[n].epoch /\ nodes[n].token = client[n].token
               /\ nodes[n].state \in {"invited", "active"}
               /\ nodes[n].state = "active" =>
                    Router!ValidateTcpSessionBinding(n, client[n].epoch, client[n].token)
    <3>1. nodes[n].epoch = client[n].epoch /\ nodes[n].token = client[n].token
      BY <1>1, <2>2, InvTypes
    <3>2. client[n].epoch >= 1
      <4>1. client[n].epoch \in 1..MaxEpoch
        BY <1>1, InvTypes, ClientFields
      <4> QED BY <4>1, HandshakeBounds
    <3>3. Recorded(nodes[n])
      BY <1>1 DEF HandshakeInv, RouterOK
    <3>4. nodes[n].epoch # 0
      BY <3>1, <3>2
    <3>5. nodes[n].state \in {"invited", "active"} /\ nodes[n].trunk = TRUE
      BY <3>3, <3>4, Zenon DEF Recorded
    <3>6. nodes[n].state = "active" =>
            Router!ValidateTcpSessionBinding(n, client[n].epoch, client[n].token)
      BY <2>2, <3>1, <3>5, Zenon DEF Router!ValidateTcpSessionBinding
    <3> QED BY <3>1, <3>5, <3>6, Zenon
  <2>3. \A n \in Nodes : nodes[n].epoch <= client[n].epoch
    BY <1>1, InvTypes
  <2> QED BY <2>1, <2>2, <2>3, Zenon DEF LeaseAgreement
<1> QED BY <1>1, HandshakeInvariant, PTL
=============================================================================
