-------------------------- MODULE SecureHandshake --------------------------
(***************************************************************************)
(* The SL2 handshake of LiNeP-SL V0.2 (sl2_handshake.cpp) with the level   *)
(* and suite negotiation inside it (negotiation.cpp) and the session       *)
(* registries of the hosts (session.cpp).                                  *)
(*                                                                         *)
(* A handshake object serves one run: an initiator says ClientHello, a     *)
(* responder answers ServerHello, both prove with their Finished that they *)
(* hold the same transcript.  Any frame that was sent may arrive at any    *)
(* object, late, again, or garbled by the network, and owners call the     *)
(* methods in any order.  Every error aborts the object for good.          *)
(*                                                                         *)
(* Cryptography is symbolic: a signature or a MAC is what it was computed  *)
(* over, an ephemeral key is the object that generated it, a hash is what  *)
(* was hashed.  The identity verifier is an interface: its verdict, and    *)
(* whether the credential it found covers the session, is a choice.        *)
(***************************************************************************)
EXTENDS Integers, Sequences, FiniteSets

CONSTANTS
  Initiators, Responders,  \* handshake objects
  OfferOf,      \* object -> the negotiation_offer its owner passes
  PolicyOf,     \* responder -> negotiation_policy
  Garbled,      \* offers a garbled hello may show
  SessionIdOf,  \* <<initiator's node, responder's node>> -> session id
  Nodes,
  Expiry,       \* the end of every session in the time of `now' (5000000000 us)
  Rotating,     \* bound: the nodes whose owners rotate
  MaxEpoch      \* bound: security epochs

VARIABLES
  hs,        \* object -> [st, hello, reply, keys]
  sent,      \* the frames sent so far
  registry,  \* node -> session id -> session_record
  now        \* the time the owners pass

hsVars == <<hs, sent, registry, now>>

Objects == Initiators \cup Responders

Minimum(a, b) == IF a < b THEN a ELSE b
Maximum(a, b) == IF a > b THEN a ELSE b

-----------------------------------------------------------------------------
(* Negotiation *)

Levels == 0..4
Suites == {"hmac", "aes", "chacha"}

\* negotiation_offer::is_structurally_valid.
StructurallyValid(o) ==
  /\ {o.min, o.max} \subseteq Levels /\ o.min <= o.max
  /\ o.suites # {} /\ o.suites \subseteq Suites
  /\ o.node # "none" /\ o.lease # "none" /\ o.nonce # "none"

\* An object has one role, and the registry of its owner's node takes its sessions.
ASSUME HandshakeAssumption ==
  /\ Initiators \cap Responders = {}
  /\ \A x \in Objects : StructurallyValid(OfferOf[x]) => OfferOf[x].node \in Nodes
  /\ Expiry \in Nat \ {0} /\ MaxEpoch \in Nat \ {0}

ValidPolicy(p) ==
  /\ p.required \in Levels /\ p.preferred # <<>>
  /\ \A i, j \in DOMAIN p.preferred :
       p.preferred[i] \in Suites /\ (p.preferred[i] = p.preferred[j] => i = j)

SuiteSupports(suite, level) ==
  IF suite = "hmac" THEN level = 1 ELSE suite \in Suites /\ level \in 2..4

Refused(status) == [status |-> status, required |-> -1, level |-> -1, suite |-> "none"]

CommonMax(i, r) == Minimum(i.max, r.max)
PeerMin(i, r) == Maximum(i.min, r.min)

\* The preferences that both peers support at the common level.
Usable(i, r, p) ==
  {n \in DOMAIN p.preferred : /\ p.preferred[n] \in i.suites \cap r.suites
                              /\ SuiteSupports(p.preferred[n], CommonMax(i, r))}

\* negotiate(): the highest common level and the policy's first usable suite.
Negotiate(i, r, p) ==
  LET usable == Usable(i, r, p) IN
  IF ~StructurallyValid(i) \/ ~StructurallyValid(r) THEN Refused("invalid_offer")
  ELSE IF ~ValidPolicy(p) THEN Refused("invalid_policy")
  ELSE IF i.version # "0.2" \/ r.version # "0.2" THEN Refused("version_mismatch")
  ELSE IF CommonMax(i, r) < PeerMin(i, r) THEN Refused("no_common_level")
  ELSE IF CommonMax(i, r) < p.required THEN Refused("downgrade_rejected")
  ELSE IF usable = {} THEN Refused("no_common_suite")
  ELSE [status |-> "accepted",
        required |-> Maximum(PeerMin(i, r), p.required),
        level |-> CommonMax(i, r),
        suite |-> p.preferred[CHOOSE n \in usable : \A k \in usable : n <= k]]

Accepted(result) == result.status = "accepted"

\* What encode_negotiation_transcript insists on.
ValidTranscript(i, r, result) ==
  /\ StructurallyValid(i) /\ StructurallyValid(r)
  /\ i.version = "0.2" /\ r.version = "0.2" /\ Accepted(result)
  /\ result.required \in PeerMin(i, r)..result.level
  /\ result.level = CommonMax(i, r)
  /\ result.suite \in i.suites \cap r.suites
  /\ SuiteSupports(result.suite, result.level)

-----------------------------------------------------------------------------
(* Frames *)

ClientHello(x) ==
  [type |-> "client_hello", offer |-> OfferOf[x], eph |-> x,
   signed |-> <<OfferOf[x], x>>]

ServerHello(x, hello, result) ==
  [type |-> "server_hello", offer |-> OfferOf[x], eph |-> x, result |-> result,
   signed |-> <<hello, OfferOf[x], x, result>>]

Finished(type, keys, hello, reply) ==
  [type |-> type, mac |-> <<type, keys, hello, reply>>]

\* A frame as it may arrive.
Arrivals(f) ==
  {f} \cup (IF f.type \in {"client_hello", "server_hello"}
            THEN {[f EXCEPT !.offer = o] : o \in Garbled}
            ELSE {[f EXCEPT !.mac = <<>>]})

\* unwrap_handshake_frame and the decoder of a hello.
DecodesHello(f, type) == f.type = type /\ StructurallyValid(f.offer)

\* The signature covers what the frame shows (and, in a reply, the hello it answers).
ClientSigned(f) == f.signed = <<f.offer, f.eph>>
ServerSigned(f, hello) == f.signed = <<hello, f.offer, f.eph, f.result>>

\* derive_keys: X25519 with the peer's ephemeral key, salted with the transcript.
DeriveKeys(x, peer, hello, reply) ==
  <<[shared |-> {x, peer}, hello |-> hello, reply |-> reply]>>

\* wipe()
NoKeys == <<>>

-----------------------------------------------------------------------------
(* Registries *)

IsActive(rec) == rec.st = "active" /\ now \in 1..(rec.expires - 1)

\* establish() from a transcript; the policy is the one its result names.
MayEstablish(node, id, hello, reply) ==
  /\ id \notin DOMAIN registry[node]
  /\ reply.result = Negotiate(hello.offer, reply.offer,
                      [required |-> reply.result.required,
                       preferred |-> <<reply.result.suite>>])

Record(hello, reply) ==
  [st |-> "active", epoch |-> 1, key |-> 1, expires |-> Expiry,
   initiator |-> hello.offer, responder |-> reply.offer, result |-> reply.result]

Recorded(node, id, rec) ==
  [registry EXCEPT ![node] = [k \in DOMAIN @ \cup {id} |-> IF k = id THEN rec ELSE @[k]]]

SessionId(hello, reply) == SessionIdOf[<<hello.offer.node, reply.offer.node>>]

-----------------------------------------------------------------------------
(* The handshake objects *)

NewHandshake == [st |-> "uninitialized", hello |-> <<>>, reply |-> <<>>, keys |-> NoKeys]

HsInit ==
  /\ hs = [x \in Objects |-> NewHandshake]
  /\ sent = {} /\ registry = [n \in Nodes |-> <<>>] /\ now = 1

\* abort(): the object is finished and its secrets are wiped.
Abort(x) ==
  /\ hs' = [hs EXCEPT ![x].st = "failed", ![x].keys = NoKeys]
  /\ UNCHANGED <<sent, registry, now>>

\* A call of the other role or out of turn, or the end of the object.
WrongCall(x) == hs[x].st # "failed" /\ Abort(x)

\* The step of an object that accepts a frame and sends one.
Goes(x, st, hello, reply, keys, frame) ==
  /\ hs' = [hs EXCEPT ![x] = [st |-> st, hello |-> hello, reply |-> reply, keys |-> keys]]
  /\ sent' = sent \cup {frame}

InitiatorStart(x) ==
  /\ x \in Initiators /\ hs[x].st = "uninitialized"
  /\ IF StructurallyValid(OfferOf[x])
     THEN /\ Goes(x, "client_hello_sent", ClientHello(x), <<>>, NoKeys, ClientHello(x))
          /\ UNCHANGED <<registry, now>>
     ELSE Abort(x)

InitiatorProcessServerHello(x, f, trusted) ==
  /\ x \in Initiators /\ hs[x].st = "client_hello_sent"
  /\ LET hello == hs[x].hello
         keys == DeriveKeys(x, f.eph, hello, f)
     IN IF /\ DecodesHello(f, "server_hello") /\ Accepted(f.result)
           /\ ServerSigned(f, hello)
           /\ ValidTranscript(hello.offer, f.offer, f.result)
           /\ trusted
        THEN /\ Goes(x, "client_finished_sent", hello, f, keys,
                     Finished("client_finished", keys, hello, f))
             /\ UNCHANGED <<registry, now>>
        ELSE Abort(x)

\* Mutant of MacMatches: the frame is decoded but not compared.
MutantMacMatches(f, type, keys, hello, reply) == f.type = type

MacMatches(f, type, keys, hello, reply) == f = Finished(type, keys, hello, reply)

\* The object takes the session into its node's registry, or aborts.
Established(x, hello, reply, frames) ==
  LET node == OfferOf[x].node
      id == SessionId(hello, reply)
  IN IF MayEstablish(node, id, hello, reply)
     THEN /\ hs' = [hs EXCEPT ![x].st = "active"]
          /\ registry' = Recorded(node, id, Record(hello, reply))
          /\ sent' = sent \cup frames
          /\ UNCHANGED now
     ELSE Abort(x)

InitiatorProcessServerFinished(x, f) ==
  /\ x \in Initiators /\ hs[x].st = "client_finished_sent"
  /\ LET h == hs[x] IN
     IF MacMatches(f, "server_finished", h.keys, h.hello, h.reply)
     THEN Established(x, h.hello, h.reply, {})
     ELSE Abort(x)

ResponderProcessClientHello(x, f, trusted) ==
  /\ x \in Responders /\ hs[x].st = "uninitialized"
  /\ LET result == Negotiate(f.offer, OfferOf[x], PolicyOf[x])
         reply == ServerHello(x, f, result)
     IN IF /\ ValidPolicy(PolicyOf[x]) /\ StructurallyValid(OfferOf[x])
           /\ DecodesHello(f, "client_hello") /\ Accepted(result) /\ ClientSigned(f)
           /\ ValidTranscript(f.offer, OfferOf[x], result) /\ trusted
        THEN /\ Goes(x, "server_hello_sent", f, reply, DeriveKeys(x, f.eph, f, reply), reply)
             /\ UNCHANGED <<registry, now>>
        ELSE Abort(x)

ResponderProcessClientFinished(x, f) ==
  /\ x \in Responders /\ hs[x].st = "server_hello_sent"
  /\ LET h == hs[x] IN
     IF MacMatches(f, "client_finished", h.keys, h.hello, h.reply)
     THEN Established(x, h.hello, h.reply,
            {Finished("server_finished", h.keys, h.hello, h.reply)})
     ELSE Abort(x)

\* A frame of the kind the object waits for; any other aborts it (WrongCall).
Receive(x, f) ==
  \/ /\ f.type \in {"client_hello", "server_hello"}
     /\ \E trusted \in BOOLEAN :
          \/ f.type = "server_hello" /\ InitiatorProcessServerHello(x, f, trusted)
          \/ f.type = "client_hello" /\ ResponderProcessClientHello(x, f, trusted)
  \/ InitiatorProcessServerFinished(x, f)
  \/ ResponderProcessClientFinished(x, f)

-----------------------------------------------------------------------------
(* The life of a session *)

Becomes(n, id, rec) ==
  /\ registry' = [registry EXCEPT ![n][id] = rec]
  /\ UNCHANGED <<hs, sent, now>>

\* rotate() to a newer epoch, another key and an end within the credentials.
Rotate(n, id) ==
  /\ n \in Rotating /\ IsActive(registry[n][id]) /\ registry[n][id].epoch < MaxEpoch
  /\ \E key \in {1, 2} \ {registry[n][id].key}, end \in (now + 1)..Expiry :
       Becomes(n, id, [registry[n][id] EXCEPT !.epoch = @ + 1, !.key = key,
                                              !.expires = end])

Revoke(n, id) ==
  /\ registry[n][id].st = "active"
  /\ Becomes(n, id, [registry[n][id] EXCEPT !.st = "revoked"])

CloseSession(n, id) ==
  /\ registry[n][id].st # "closed"
  /\ Becomes(n, id, [registry[n][id] EXCEPT !.st = "closed"])

\* Mutant of Expire: sessions that still run are not told from the ended ones.
MutantExpire(n) ==
  /\ registry' = [registry EXCEPT ![n] = [id \in DOMAIN @ |->
                    [@[id] EXCEPT !.st = IF IsActive(registry[n][id]) THEN "active"
                                         ELSE "expired"]]]
  /\ registry' # registry
  /\ UNCHANGED <<hs, sent, now>>

Expire(n) ==
  /\ registry' = [registry EXCEPT ![n] = [id \in DOMAIN @ |->
                    IF @[id].st = "active" /\ ~IsActive(@[id])
                    THEN [@[id] EXCEPT !.st = "expired"] ELSE @[id]]]
  /\ registry' # registry
  /\ UNCHANGED <<hs, sent, now>>

Clock == now < Expiry /\ now' = now + 1 /\ UNCHANGED <<hs, sent, registry>>

HsNext ==
  \/ \E x \in Objects : InitiatorStart(x) \/ WrongCall(x)
  \/ \E x \in Objects, f \in sent : \E g \in Arrivals(f) : Receive(x, g)
  \/ \E n \in Nodes : \/ Expire(n)
                      \/ \E id \in DOMAIN registry[n] :
                           Rotate(n, id) \/ Revoke(n, id) \/ CloseSession(n, id)
  \/ Clock

HsSpec == HsInit /\ [][HsNext]_hsVars

-----------------------------------------------------------------------------
(* Properties *)

\* The tables keep their types, and secrets exist in no object before its key
\* derivation and in none that failed.
HsTypeOK ==
  /\ \A x \in Objects :
       /\ hs[x].st \in {"uninitialized", "client_hello_sent", "client_finished_sent",
                       "server_hello_sent", "active", "failed"}
       /\ (hs[x].keys # NoKeys) =
            (hs[x].st \in {"client_finished_sent", "server_hello_sent", "active"})
  /\ \A n \in Nodes : \A id \in DOMAIN registry[n] :
       /\ registry[n][id].st \in {"active", "expired", "revoked", "closed"}
       /\ registry[n][id].epoch \in 1..MaxEpoch /\ registry[n][id].expires <= Expiry

SameRun(x, y) == hs[x].hello = hs[y].hello /\ hs[x].reply = hs[y].reply

\* An active initiator has exactly one active or ended responder of the same
\* transcript, and an active responder an initiator that confirmed it; the two hold
\* the same keys and nobody else does, whatever frames of other runs, repeated or
\* garbled, they were given; and when the initiator's node has a session, the
\* responder's node has or had the same one under the same id (sl2_handshake.cpp, the
\* Finished exchange, where establish comes before ServerFinished).
Agreement ==
  /\ \A i \in Initiators : hs[i].st = "active" =>
       Cardinality({r \in Responders : SameRun(i, r)}) = 1
  /\ \A r \in Responders : hs[r].st = "active" =>
       \E i \in Initiators : SameRun(i, r) /\
         Finished("client_finished", hs[r].keys, hs[r].hello, hs[r].reply) \in sent
  /\ \A x, y \in Objects :
       hs[x].keys # NoKeys /\ hs[y].keys # NoKeys /\ {hs[x].st, hs[y].st} = {"active"} =>
         (hs[x].keys = hs[y].keys) = SameRun(x, y)
  /\ \A n \in Nodes : \A id \in DOMAIN registry[n] :
       LET rec == registry[n][id] peer == registry[rec.responder.node] IN
       rec.initiator.node = n =>
         /\ id \in DOMAIN peer
         /\ <<peer[id].initiator, peer[id].responder, peer[id].result>>
              = <<rec.initiator, rec.responder, rec.result>>

\* What a session runs at is what the two owners offered: the highest common level,
\* not below either minimum or the responder's policy, with a suite of both, also
\* when the offers were garbled on the way (negotiate, validated again by establish).
NoDowngrade ==
  \A n \in Nodes : \A id \in DOMAIN registry[n] :
    LET rec == registry[n][id] IN
    \E i \in Initiators, r \in Responders :
      /\ rec.initiator = OfferOf[i] /\ rec.responder = OfferOf[r]
      /\ rec.result.level = Minimum(OfferOf[i].max, OfferOf[r].max)
      /\ rec.result.level >= Maximum(OfferOf[i].min, OfferOf[r].min)
      /\ rec.result.required >= PolicyOf[r].required
      /\ rec.result.suite \in OfferOf[i].suites \cap OfferOf[r].suites

\* Two nodes that hold a session hold the same one, at the level both asked for, and only
\* the objects of a run that goes on hold its secrets.
SessionsAreSound == HsTypeOK /\ Agreement /\ NoDowngrade

LifeOrder == [active |-> 0, expired |-> 1, revoked |-> 1, closed |-> 2]

\* A session never comes back: its id keeps its transcript, its epoch only grows, an
\* ended session stays ended and no rotation follows (session_registry).
SessionsOnlyEnd ==
  [][\A n \in Nodes : \A id \in DOMAIN registry[n] :
       /\ id \in DOMAIN registry'[n]
       /\ LET old == registry[n][id] new == registry'[n][id] IN
          /\ new # old => LifeOrder[old.st] < LifeOrder[new.st] \/ new.epoch > old.epoch
          /\ new.epoch >= old.epoch /\ (new.epoch > old.epoch => old.st = "active")
          /\ <<new.initiator, new.responder, new.result>>
               = <<old.initiator, old.responder, old.result>>]_hsVars

\* SL2_WIRE_CONTRACT.md 6.D: a reconnect runs "a fresh handshake" and receives "a new
\* session_id": a run that both peers confirmed finds its session id unused.
ReconnectEstablishes ==
  \A r \in Responders :
    LET h == hs[r] IN
    h.st = "server_hello_sent"
      /\ Finished("client_finished", h.keys, h.hello, h.reply) \in sent
    => MayEstablish(OfferOf[r].node, SessionId(h.hello, h.reply), h.hello, h.reply)
=============================================================================
