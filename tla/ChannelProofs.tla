---------------------------- MODULE ChannelProofs ----------------------------
(***************************************************************************)
(* Proofs about the two ends of a secure channel.                          *)
(*                                                                         *)
(* What the replay window, the stream tracker and the authenticator keep,  *)
(* for any width of a word and any bounds.  The window's proof rests on    *)
(* one lemma about Update: the two words are, bit by bit, the set of the   *)
(* accepted numbers as far back as they reach.                             *)
(*                                                                         *)
(* What a handshake establishes, for any objects, offers, policies and     *)
(* garbled frames.  The invariant ties every object, frame and session     *)
(* record to a run of one initiator with one responder.                    *)
(*                                                                         *)
(* What a bind with SL1 establishes on a trunk, for any leases and any     *)
(* number of frames: the frames under way in either direction are a chain  *)
(* that ends in what their sender sends next, across every bind.           *)
(***************************************************************************)
EXTENDS PlaneGuard, SecureHandshake, SecureTrunk, FiniteSetTheorems, TLAPS

-----------------------------------------------------------------------------
(* sliding_replay_window as a set of numbers *)

Reach == 2 * WordBits

Windows == [max : Nat, low : SUBSET Bits, high : SUBSET Bits]

\* The window w stands for the set S of the numbers accepted so far.
Represents(w, S) ==
  /\ w \in Windows
  /\ \A s \in S : s \in Nat /\ 1 <= s /\ s <= w.max
  /\ w.max # 0 => w.max \in S
  /\ \A a \in 0..(Reach - 1) : w.max # 0 => (IsSet(w, a) <=> w.max - a \in S)

\* Shifted by n, a bit of age a is the bit that had age a - n (replay_window.cpp, update).
LEMMA AdvancedIsSet ==
  ASSUME NEW w, w.low \subseteq Bits, w.high \subseteq Bits,
         NEW n \in Nat \ {0}, NEW a \in 0..(Reach - 1)
  PROVE  IsSet(Advanced(w, n), a) <=> a = 0 \/ (a >= n /\ IsSet(w, a - n))
<1> USE GuardAssumption DEF Bits, Reach
<1>1. CASE n >= Reach
  BY <1>1 DEF Advanced, IsSet
<1>2. CASE n >= WordBits /\ n < Reach
  <2>1. Advanced(w, n) = [low |-> {0}, high |-> Shl(w.low, n - WordBits)]
    BY <1>2 DEF Advanced
  <2>2. CASE a < WordBits
    BY <1>2, <2>1, <2>2 DEF IsSet
  <2>3. CASE a >= WordBits
    <3>1. IsSet(Advanced(w, n), a) <=> a - WordBits \in Shl(w.low, n - WordBits)
      BY <2>1, <2>3 DEF IsSet
    <3>2. a - WordBits \in Shl(w.low, n - WordBits) <=> a - n \in w.low
      <4>1. a - WordBits \in Bits /\ (a - WordBits) - (n - WordBits) = a - n
        BY <2>3
      <4> QED BY <4>1 DEF Shl
    <3>3. a - n \in w.low <=> a >= n /\ IsSet(w, a - n)
      BY <1>2, <2>3 DEF IsSet
    <3> QED BY <3>1, <3>2, <3>3, <2>3
  <2> QED BY <2>2, <2>3
<1>3. CASE n < WordBits
  <2>1. Advanced(w, n) = [low |-> Shl(w.low, n) \cup {0},
                          high |-> Shl(w.high, n) \cup Shr(w.low, WordBits - n)]
    BY <1>3 DEF Advanced
  <2>2. CASE a < WordBits
    <3>1. IsSet(Advanced(w, n), a) <=> a = 0 \/ a - n \in w.low
      BY <2>1, <2>2 DEF IsSet, Shl
    <3>2. a - n \in w.low <=> a >= n /\ IsSet(w, a - n)
      BY <2>2 DEF IsSet
    <3> QED BY <3>1, <3>2
  <2>3. CASE a >= WordBits
    <3>1. IsSet(Advanced(w, n), a) <=>
            \/ (a - WordBits) - n \in w.high
            \/ (a - WordBits) + (WordBits - n) \in w.low
      BY <2>1, <2>3 DEF IsSet, Shl, Shr
    <3>2. /\ (a - WordBits) + (WordBits - n) = a - n
          /\ (a - WordBits) - n = (a - n) - WordBits
      OBVIOUS
    <3>3. (a - n) - WordBits \in w.high \/ a - n \in w.low <=> IsSet(w, a - n)
      BY <2>3, <1>3 DEF IsSet
    <3> QED BY <3>1, <3>2, <3>3, <2>3, <1>3
  <2> QED BY <2>2, <2>3
<1> QED BY <1>1, <1>2, <1>3

LEMMA CheckAccepts ==
  ASSUME NEW w \in Windows, NEW q \in Nat
  PROVE  Check(w, q) = "accepted" <=>
           /\ q # 0
           /\ q > w.max \/ w.max = 0 \/ (w.max - q < Reach /\ ~IsSet(w, w.max - q))
<1> w.max \in Nat /\ WordBits \in Nat
  BY GuardAssumption DEF Windows
<1> QED BY DEF Check, Reach

\* Accepting a number adds it to the set, and nothing else.
LEMMA UpdateRepresents ==
  ASSUME NEW w, NEW S, NEW q \in Nat, Represents(w, S), Check(w, q) = "accepted"
  PROVE  Represents(Update(w, q), S \cup {q})
<1> USE GuardAssumption DEF Represents, Reach, Windows
<1> DEFINE v == Update(w, q)
<1> SUFFICES Represents(v, S \cup {q})
  OBVIOUS
<1>0. w \in Windows /\ q # 0
  BY CheckAccepts
<1>1. CASE w.max = 0
  <2>1. v = [max |-> q, low |-> {0}, high |-> {}] /\ S = {}
    BY <1>1 DEF Update
  <2>2. \A a \in 0..(Reach - 1) : IsSet(v, a) <=> a = 0
    BY <2>1 DEF IsSet
  <2>3. \A a \in 0..(Reach - 1) : q - a \in S \cup {q} <=> a = 0
    BY <2>1
  <2>4. v \in Windows /\ v.max = q
    BY <2>1 DEF Bits
  <2>5. \A s \in S \cup {q} : s \in Nat /\ 1 <= s /\ s <= q
    BY <1>0, <2>1
  <2> HIDE DEF v
  <2> QED BY <2>2, <2>3, <2>4, <2>5
<1>2. CASE w.max # 0 /\ q > w.max
  <2> DEFINE n == q - w.max
  <2>1. /\ v = [max |-> q, low |-> Advanced(w, n).low, high |-> Advanced(w, n).high]
        /\ n \in Nat \ {0}
    BY <1>2 DEF Update
  <2>2. v.low \subseteq Bits /\ v.high \subseteq Bits
    BY <2>1 DEF Advanced, Shl, Shr, Bits
  <2>3. ASSUME NEW a \in 0..(Reach - 1)
        PROVE  IsSet(v, a) <=> q - a \in S \cup {q}
    <3>1. IsSet(v, a) <=> IsSet(Advanced(w, n), a)
      BY <2>1 DEF IsSet
    <3>2. IsSet(v, a) <=> a = 0 \/ (a >= n /\ IsSet(w, a - n))
      <4>1. n \in Nat \ {0} /\ w.low \subseteq Bits /\ w.high \subseteq Bits
        BY <1>0, <2>1
      <4> HIDE DEF v, n
      <4> QED BY <3>1, <4>1, AdvancedIsSet
    <3>3. a >= n => (IsSet(w, a - n) <=> w.max - (a - n) \in S)
      BY <1>2, <2>1
    <3>4. w.max - (a - n) = q - a
      BY <1>2
    <3>5. ~(a >= n) /\ a # 0 => q - a \notin S \cup {q}
      BY <1>2
    <3>6. a = 0 => q - a = q
      OBVIOUS
    <3> HIDE DEF v, n
    <3> QED BY <3>2, <3>3, <3>4, <3>5, <3>6
  <2>4. v \in Windows /\ v.max = q
    BY <2>1, <2>2
  <2>5. \A s \in S \cup {q} : s \in Nat /\ 1 <= s /\ s <= q
    BY <1>0, <1>2
  <2> HIDE DEF v
  <2> QED BY <2>3, <2>4, <2>5
<1>3. CASE w.max # 0 /\ q <= w.max
  <2> DEFINE age == w.max - q
  <2>1. age \in 0..(Reach - 1)
    BY <1>3, <1>0, CheckAccepts
  <2>2. v = IF age < WordBits
            THEN [w EXCEPT !.low = w.low \cup {age}]
            ELSE [w EXCEPT !.high = w.high \cup {age - WordBits}]
    BY <1>3 DEF Update
  <2>3. v \in Windows /\ v.max = w.max
    BY <1>0, <2>1, <2>2 DEF Bits
  <2>4. ASSUME NEW a \in 0..(Reach - 1)
        PROVE  IsSet(v, a) <=> a = age \/ IsSet(w, a)
    BY <1>0, <2>1, <2>2 DEF IsSet
  <2>5. ASSUME NEW a \in 0..(Reach - 1)
        PROVE  IsSet(v, a) <=> v.max - a \in S \cup {q}
    <3>1. a = age <=> w.max - a = q
      BY <1>0
    <3>2. IsSet(w, a) <=> w.max - a \in S
      BY <1>3
    <3>3. v.max = w.max
      BY <2>3
    <3> HIDE DEF v, age
    <3> QED BY <3>3, <2>4, <3>1, <3>2
  <2>6. \A s \in S \cup {q} : s \in Nat /\ 1 <= s /\ s <= w.max
    BY <1>0, <1>3
  <2> HIDE DEF v
  <2> QED BY <1>3, <2>3, <2>5, <2>6
<1> QED BY <1>1, <1>2, <1>3

-----------------------------------------------------------------------------
(* The inductive invariant *)

\* A frame as its sender signed it: the tag shows the content.
Genuine(f) ==
  /\ f = [kind |-> f.kind, body |-> f.body, tag |-> Tag(f.kind, f.tag.epoch, f.body)]
  /\ f.tag.epoch \in Nat /\ f.body \in Bodies(f.kind)
  /\ f.kind = "datagram" => f.body # 0

RecordsOK ==
  /\ sender \in [epoch : Nat, seq : Nat, event : Nat, fragment : Nat]
  /\ receiver \in [epoch : Nat, active : BOOLEAN]
  /\ \A f \in wire : Genuine(f)

SeenOK ==
  /\ seen \subseteq wire
  /\ \A f \in seen : f.tag.epoch <= receiver.epoch

WindowOK == Represents(window, SeenSeqs)

\* The tracker t stands at the event b, or beyond it.
Reached(t, b) ==
  b.event < t.event \/ (b.event = t.event /\ b.fragment <= t.fragment)

StreamOK ==
  /\ tracker \in [started : BOOLEAN, event : 0..MaxEvents, fragment : Nat]
  /\ delivered \in Seq(wire)
  /\ \A i \in DOMAIN delivered :
       tracker.started /\ delivered[i].kind = "event" /\ Reached(tracker, delivered[i].body)
  /\ \A i, j \in DOMAIN delivered : i < j =>
       LET a == delivered[i].body b == delivered[j].body IN
       a.event < b.event \/ (a.event = b.event /\ a.fragment < b.fragment)

GuardInv == RecordsOK /\ SeenOK /\ WindowOK /\ StreamOK

\* A tag that verifies tells that the body is the signed one (verify_control_datagram).
LEMMA VerifiedIsSigned ==
  ASSUME NEW g \in wire, Genuine(g), NEW f \in Variants(g), TagMatches(f)
  PROVE  f = g /\ f.tag.epoch = receiver.epoch
<1>1. PICK b \in Bodies(g.kind) : f = [g EXCEPT !.body = b]
  BY DEF Variants
<1>2. g = [kind |-> g.kind, body |-> g.body, tag |-> g.tag]
  BY DEF Genuine
<1>3. f = [kind |-> g.kind, body |-> b, tag |-> g.tag]
  BY <1>1, <1>2
<1>4. g.tag = [kind |-> g.kind, epoch |-> g.tag.epoch, body |-> g.body]
  BY DEF Genuine, Tag
<1>5. g.tag = [kind |-> g.kind, epoch |-> receiver.epoch, body |-> b]
  BY <1>3 DEF TagMatches, Tag
<1>6. g.body = b /\ g.tag.epoch = receiver.epoch
  BY <1>4, <1>5
<1> QED BY <1>2, <1>3, <1>6

LEMMA VariantBody ==
  ASSUME NEW g \in wire, Genuine(g), NEW f \in Variants(g)
  PROVE  f.kind = g.kind /\ f.body \in Bodies(f.kind)
  BY DEF Variants, Genuine

\* Signing adds a genuine frame; what the receiver holds stays.
LEMMA SignedKeeps ==
  ASSUME GuardInv, NEW kind, NEW body, Signed(kind, body), body \in Bodies(kind),
         kind = "datagram" => body # 0,
         sender' \in [epoch : Nat, seq : Nat, event : Nat, fragment : Nat],
         UNCHANGED <<receiver, window, tracker, seen, delivered>>
  PROVE  GuardInv'
<1> USE DEF GuardInv
<1>1. wire \subseteq wire'
  BY DEF Signed
<1>2. RecordsOK'
  BY DEF RecordsOK, Signed, Genuine, Tag
<1>3. SeenOK'
  BY <1>1 DEF SeenOK
<1>4. WindowOK'
  BY DEF WindowOK, Represents, SeenSeqs, Windows, IsSet
<1>5. StreamOK'
  <2>1. delivered \in Seq(wire')
    BY <1>1 DEF StreamOK
  <2> QED BY <2>1 DEF StreamOK, Reached
<1> QED BY <1>2, <1>3, <1>4, <1>5

\* What a frame that is no datagram leaves as it is.
LEMMA CallKeeps ==
  ASSUME GuardInv, NEW f \in wire, f.kind # "datagram", f.tag.epoch = receiver.epoch,
         seen' = seen \cup {f},
         UNCHANGED <<sender, receiver, wire, window, tracker, delivered>>
  PROVE  GuardInv'
<1> USE DEF GuardInv
<1>1. SeenSeqs' = SeenSeqs
  BY DEF SeenSeqs
<1>2. WindowOK'
  BY <1>1 DEF WindowOK, Represents, Windows, IsSet
<1>3. SeenOK'
  BY DEF SeenOK, RecordsOK
<1>4. RecordsOK' /\ StreamOK'
  BY DEF RecordsOK, StreamOK, Reached, Genuine
<1> QED BY <1>2, <1>3, <1>4

LEMMA DatagramKeeps ==
  ASSUME GuardInv, NEW g \in wire, NEW f \in Variants(g), VerifyControlDatagram(f)
  PROVE  GuardInv'
<1> USE DEF GuardInv
<1>1. f = g /\ f.tag.epoch = receiver.epoch /\ f.kind = "datagram"
  BY VerifiedIsSigned DEF VerifyControlDatagram, RecordsOK
<1>2. f.body \in Nat
  BY <1>1, GuardAssumption DEF RecordsOK, Genuine, Bodies
<1>3. Represents(Update(window, f.body), SeenSeqs \cup {f.body})
  BY <1>2, UpdateRepresents DEF VerifyControlDatagram, WindowOK
<1>4. SeenSeqs' = SeenSeqs \cup {f.body}
  BY <1>1 DEF SeenSeqs, VerifyControlDatagram
<1>5. WindowOK'
  BY <1>3, <1>4 DEF WindowOK, VerifyControlDatagram
<1>6. SeenOK'
  BY <1>1 DEF SeenOK, RecordsOK, VerifyControlDatagram
<1>7. RecordsOK' /\ StreamOK'
  BY DEF RecordsOK, StreamOK, Reached, Genuine, VerifyControlDatagram
<1> QED BY <1>5, <1>6, <1>7

LEMMA EventKeeps ==
  ASSUME GuardInv, NEW g \in wire, NEW f \in Variants(g), VerifyEvent(f)
  PROVE  GuardInv'
<1> USE DEF GuardInv
<1>1. f.kind = "event" /\ f.body \in Bodies("event")
  BY VariantBody DEF VerifyEvent, RecordsOK
<1>2. f.body.event \in 0..MaxEvents /\ f.body.fragment \in Nat
  BY <1>1, GuardAssumption DEF Bodies
<1>3. tracker' = [started |-> TRUE, event |-> f.body.event, fragment |-> f.body.fragment]
  BY DEF VerifyEvent, Follows
<1>4. tracker'.started /\ tracker'.event = f.body.event /\ tracker'.fragment = f.body.fragment
  BY <1>3
<1>5. ASSUME NEW i \in DOMAIN delivered
      PROVE  /\ delivered[i].body.event \in Nat /\ delivered[i].body.fragment \in Nat
             /\ \/ delivered[i].body.event < f.body.event
                \/ /\ delivered[i].body.event = f.body.event
                   /\ delivered[i].body.fragment < f.body.fragment
  <2>1. delivered[i] \in wire /\ delivered[i].kind = "event"
    BY DEF StreamOK
  <2>2. delivered[i].body \in Bodies("event")
    BY <2>1 DEF RecordsOK, Genuine
  <2>3. delivered[i].body.event \in Nat /\ delivered[i].body.fragment \in Nat
    BY <2>2, GuardAssumption DEF Bodies
  <2>4. tracker.started /\ Reached(tracker, delivered[i].body)
    BY DEF StreamOK
  <2>5. /\ tracker.event \in Nat /\ tracker.fragment \in Nat
        /\ \/ f.body.event > tracker.event
           \/ f.body.event = tracker.event /\ f.body.fragment > tracker.fragment
    BY <2>4, GuardAssumption DEF VerifyEvent, MayFollow, StreamOK
  <2> QED BY <1>2, <2>3, <2>4, <2>5 DEF Reached
<1>6. ASSUME NEW i \in DOMAIN delivered
      PROVE  Reached(tracker', delivered[i].body)
  <2>1. tracker'.fragment \in Nat /\ tracker'.event \in Nat
    BY <1>4, <1>2, GuardAssumption
  <2> QED BY <1>4, <2>1, <1>5 DEF Reached
<1>7. StreamOK'
  <2>1. tracker' \in [started : BOOLEAN, event : 0..MaxEvents, fragment : Nat]
    BY <1>2, <1>3
  <2>2. CASE TagMatches(f)
    <3>1. f \in wire
      BY <2>2, VerifiedIsSigned DEF RecordsOK
    <3>2. delivered' = Append(delivered, f) /\ wire' = wire /\ delivered \in Seq(wire)
      BY <2>2 DEF VerifyEvent, StreamOK
    <3>3. delivered' \in Seq(wire')
      BY <3>1, <3>2
    <3>4. \A i \in DOMAIN delivered' :
            \/ i \in DOMAIN delivered /\ delivered'[i] = delivered[i] /\ i <= Len(delivered)
            \/ i = Len(delivered) + 1 /\ delivered'[i] = f
      BY <3>1, <3>2
    <3>5. \A i \in DOMAIN delivered' :
            /\ tracker'.started /\ delivered'[i].kind = "event"
            /\ Reached(tracker', delivered'[i].body)
      <4> TAKE i \in DOMAIN delivered'
      <4>1. CASE i \in DOMAIN delivered /\ delivered'[i] = delivered[i]
        <5>1. tracker'.started /\ delivered[i].kind = "event"
          BY <4>1, <1>3 DEF StreamOK
        <5>2. Reached(tracker', delivered[i].body)
          BY <4>1, <1>6
        <5> QED BY <4>1, <5>1, <5>2
      <4>2. CASE delivered'[i] = f
        BY <4>2, <1>1, <1>2, <1>3 DEF Reached
      <4> QED BY <4>1, <4>2, <3>4
    <3>6. ASSUME NEW i \in DOMAIN delivered', NEW j \in DOMAIN delivered', i < j
          PROVE  \/ delivered'[i].body.event < delivered'[j].body.event
                 \/ /\ delivered'[i].body.event = delivered'[j].body.event
                    /\ delivered'[i].body.fragment < delivered'[j].body.fragment
      <4>1. i \in DOMAIN delivered /\ delivered'[i] = delivered[i]
        BY <3>2, <3>4, <3>6
      <4>2. CASE j \in DOMAIN delivered /\ delivered'[j] = delivered[j]
        BY <3>6, <4>1, <4>2 DEF StreamOK
      <4>3. CASE delivered'[j] = f
        BY <4>1, <4>3, <1>5
      <4> QED BY <4>2, <4>3, <3>4
    <3> QED BY <2>1, <3>3, <3>5, <3>6 DEF StreamOK
  <2>3. CASE ~TagMatches(f)
    <3>1. delivered' = delivered /\ wire' = wire
      BY <2>3 DEF VerifyEvent
    <3> QED BY <2>1, <3>1, <1>6, <1>4 DEF StreamOK
  <2> QED BY <2>2, <2>3
<1>8. RecordsOK' /\ SeenOK'
  BY DEF RecordsOK, SeenOK, Genuine, VerifyEvent
<1>9. WindowOK'
  BY DEF WindowOK, Represents, SeenSeqs, Windows, IsSet, VerifyEvent
<1> QED BY <1>7, <1>8, <1>9

-----------------------------------------------------------------------------
(* The theorems *)

LEMMA GuardInitInv == GuardInit => GuardInv
<1> SUFFICES ASSUME GuardInit PROVE GuardInv
  OBVIOUS
<1> USE DEF GuardInit
<1>1. RecordsOK /\ SeenOK
  BY DEF RecordsOK, SeenOK
<1>2. SeenSeqs = {}
  BY DEF SeenSeqs
<1>3. WindowOK
  BY <1>2 DEF WindowOK, Represents, Windows
<1>4. StreamOK
  BY GuardAssumption DEF StreamOK
<1> QED BY <1>1, <1>3, <1>4 DEF GuardInv

LEMMA GuardStep == GuardInv /\ [GuardNext]_guardVars => GuardInv'
<1> SUFFICES ASSUME GuardInv, [GuardNext]_guardVars PROVE GuardInv'
  OBVIOUS
<1> USE GuardAssumption
<1>1. CASE SignControlDatagram
  <2>1. sender.seq + 1 \in Bodies("datagram") /\ sender.seq + 1 # 0
    BY <1>1 DEF SignControlDatagram, Bodies, GuardInv, RecordsOK
  <2>2. sender' \in [epoch : Nat, seq : Nat, event : Nat, fragment : Nat]
    BY <1>1 DEF SignControlDatagram, GuardInv, RecordsOK
  <2> QED BY <1>1, <2>1, <2>2, SignedKeeps DEF SignControlDatagram
<1>2. CASE SignEvent
  <2>1. PICK e \in Bodies("event") :
          /\ sender' = [sender EXCEPT !.event = e.event,
                                      !.fragment = IF e.fragmented THEN e.fragment + 1 ELSE 0]
          /\ Signed("event", e)
    <3> HIDE DEF Signed
    <3> QED BY <1>2, Zenon DEF SignEvent
  <2>2. e.event \in 0..MaxEvents /\ e.fragment \in 0..(MaxFragments - 1)
    BY DEF Bodies
  <2>3. sender' \in [epoch : Nat, seq : Nat, event : Nat, fragment : Nat]
    <3> DEFINE n == IF e.fragmented THEN e.fragment + 1 ELSE 0
    <3>1. n \in Nat /\ e.event \in Nat
      BY <2>2
    <3>2. sender' = [sender EXCEPT !.event = e.event, !.fragment = n]
      BY <2>1
    <3> HIDE DEF n
    <3> QED BY <2>2, <3>1, <3>2 DEF GuardInv, RecordsOK
  <2> QED BY <1>2, <2>1, <2>3, SignedKeeps DEF SignEvent
<1>3. CASE SignRequest
  BY <1>3, SignedKeeps DEF SignRequest, Bodies, GuardInv, RecordsOK
<1>4. CASE SignControl
  BY <1>4, SignedKeeps DEF SignControl, Bodies, GuardInv, RecordsOK
<1>5. ASSUME NEW g \in wire, NEW f \in Variants(g), VerifyRequest(f) \/ VerifyControl(f)
      PROVE  GuardInv'
  <2>1. f = g /\ f.tag.epoch = receiver.epoch /\ f.kind # "datagram"
    BY <1>5, VerifiedIsSigned DEF VerifyRequest, VerifyControl, GuardInv, RecordsOK
  <2> QED BY <1>5, <2>1, CallKeeps DEF VerifyRequest, VerifyControl
<1>6. CASE RecordNext \/ UNCHANGED guardVars
  <2>1. /\ sender' \in [epoch : Nat, seq : Nat, event : Nat, fragment : Nat]
        /\ receiver' \in [epoch : Nat, active : BOOLEAN]
        /\ receiver.epoch <= receiver'.epoch
        /\ UNCHANGED <<wire, window, tracker, seen, delivered>>
    <3> USE DEF GuardInv, RecordsOK
    <3>1. CASE RotateSender
      BY <3>1 DEF RotateSender
    <3>2. CASE RotateReceiver
      BY <3>2 DEF RotateReceiver
    <3>3. CASE EndSession
      <4> DEFINE no == FALSE
      <4>1. no \in BOOLEAN /\ receiver' = [receiver EXCEPT !.active = no]
        BY <3>3 DEF EndSession
      <4> HIDE DEF no
      <4>2. receiver' \in [epoch : Nat, active : BOOLEAN] /\ receiver'.epoch = receiver.epoch
        BY <4>1
      <4> QED BY <3>3, <4>2 DEF EndSession
    <3>4. CASE UNCHANGED guardVars
      BY <3>4 DEF guardVars
    <3> QED BY <1>6, <3>1, <3>2, <3>3, <3>4 DEF RecordNext
  <2>2. RecordsOK'
    BY <2>1 DEF GuardInv, RecordsOK, Genuine
  <2>3. SeenOK'
    BY <2>1 DEF GuardInv, RecordsOK, SeenOK, Genuine
  <2>4. WindowOK' /\ StreamOK'
    BY <2>1 DEF GuardInv, WindowOK, StreamOK, Represents, SeenSeqs, Windows, IsSet, Reached
  <2> QED BY <2>2, <2>3, <2>4 DEF GuardInv
<1> QED
  BY <1>1, <1>2, <1>3, <1>4, <1>5, <1>6, DatagramKeeps, EventKeeps
     DEF GuardNext, DatagramNext, EventNext, CallNext

\* The window, the tracker and the histories stay in step, whatever arrives
\* (verify_control_datagram, verify_event).
THEOREM GuardInvariant == GuardSpec => []GuardInv
<1> QED BY GuardInitInv, GuardStep, PTL DEF GuardSpec

LEMMA GuardInvTypes ==
  ASSUME GuardInv PROVE GuardTypeOK
  BY DEF GuardInv, WindowOK, StreamOK, Represents, Windows, GuardTypeOK

\* For any width of the bitmap's words: the number of an accepted datagram is never
\* accepted again (sliding_replay_window::check and update).
THEOREM ReplayRefused == GuardSpec => []NoReplay
<1>1. ASSUME GuardInv PROVE NoReplay
  <2>1. GuardTypeOK
    BY <1>1, GuardInvTypes
  <2>2. ASSUME NEW s \in SeenSeqs PROVE Check(window, s) # "accepted"
    <3>1. window \in Windows /\ s \in Nat /\ 1 <= s /\ s <= window.max
      BY <1>1 DEF GuardInv, WindowOK, Represents
    <3>2. window.max # 0 /\ ~(s > window.max) /\ window.max - s \in Nat
      BY <3>1 DEF Windows
    <3>3. window.max - s < Reach => IsSet(window, window.max - s)
      <4>1. window.max - (window.max - s) = s
        BY <3>1 DEF Windows
      <4> QED BY <1>1, <3>2, <4>1, GuardAssumption DEF GuardInv, WindowOK, Represents, Reach
    <3> QED BY <3>1, <3>2, <3>3, CheckAccepts
  <2> QED BY <2>1, <2>2 DEF NoReplay
<1> QED BY <1>1, GuardInvariant, PTL

\* For any width of the bitmap's words: a genuine datagram within the window that has
\* not been accepted yet passes (verify_control_datagram).
THEOREM GenuinePasses == GuardSpec => []GenuineIsAccepted
<1>1. ASSUME GuardInv PROVE GenuineIsAccepted
  <2> SUFFICES ASSUME NEW f \in wire, f.kind = "datagram", f.body \notin SeenSeqs,
                      window.max - f.body < 2 * WordBits
               PROVE  Check(window, f.body) = "accepted"
    BY DEF GenuineIsAccepted
  <2>1. f.body \in Nat /\ f.body # 0
    BY <1>1, GuardAssumption DEF GuardInv, RecordsOK, Genuine, Bodies
  <2>2. window \in Windows /\ window.max \in Nat
    BY <1>1 DEF GuardInv, WindowOK, Represents, Windows
  <2>3. CASE f.body > window.max \/ window.max = 0
    BY <2>1, <2>2, <2>3, CheckAccepts
  <2>4. CASE f.body <= window.max /\ window.max # 0
    <3>1. window.max - f.body \in 0..(Reach - 1)
      BY <2>1, <2>2, <2>4, GuardAssumption DEF Reach
    <3>2. window.max - (window.max - f.body) = f.body
      BY <2>1, <2>2
    <3>3. ~IsSet(window, window.max - f.body)
      BY <1>1, <2>4, <3>1, <3>2 DEF GuardInv, WindowOK, Represents
    <3> QED BY <2>1, <2>2, <3>1, <3>3, CheckAccepts DEF Reach
  <2> QED BY <2>1, <2>2, <2>3, <2>4
<1> QED BY <1>1, GuardInvariant, PTL

\* What is accepted was signed so by the peer, under an epoch the receiver has reached,
\* and events are delivered in the order of their signing (verify_event,
\* monotonic_stream_tracker::check_and_advance).
THEOREM DeliveryIsSigned == GuardSpec => []DeliveredAsSigned
<1>1. ASSUME GuardInv PROVE DeliveredAsSigned
  <2>1. \A i \in DOMAIN delivered : delivered[i] \in wire
    BY <1>1 DEF GuardInv, StreamOK
  <2> QED BY <1>1, <2>1 DEF GuardInv, SeenOK, StreamOK, DeliveredAsSigned
<1> QED BY <1>1, GuardInvariant, PTL

(***************************************************************************)
(* A run of the handshake is an initiator with a responder.                *)
(***************************************************************************)

\* What the responder negotiates, and the frames and keys of the run.
Neg(i, r) == Negotiate(OfferOf[i], OfferOf[r], PolicyOf[r])
Reply(i, r) == ServerHello(r, ClientHello(i), Neg(i, r))
RunKeys(i, r) == DeriveKeys(i, r, ClientHello(i), Reply(i, r))
ClientFin(i, r) == Finished("client_finished", RunKeys(i, r), ClientHello(i), Reply(i, r))
ServerFin(i, r) == Finished("server_finished", RunKeys(i, r), ClientHello(i), Reply(i, r))
IdOf(i, r) == SessionIdOf[<<OfferOf[i].node, OfferOf[r].node>>]

\* A run whose transcript the responder has found valid.
Agreed(i, r) ==
  /\ i \in Initiators /\ r \in Responders
  /\ StructurallyValid(OfferOf[i]) /\ StructurallyValid(OfferOf[r])
  /\ ValidPolicy(PolicyOf[r]) /\ Accepted(Neg(i, r))
  /\ ValidTranscript(OfferOf[i], OfferOf[r], Neg(i, r))

\* The negotiated level is the highest common one and no less than anybody asked for.
LEMMA NegFacts ==
  ASSUME NEW i, NEW r, Agreed(i, r)
  PROVE  /\ Neg(i, r).level = Minimum(OfferOf[i].max, OfferOf[r].max)
         /\ Neg(i, r).level >= Maximum(OfferOf[i].min, OfferOf[r].min)
         /\ Neg(i, r).required >= PolicyOf[r].required
         /\ Neg(i, r).suite \in OfferOf[i].suites \cap OfferOf[r].suites
<1>1. PICK a, b, p, res : a = OfferOf[i] /\ b = OfferOf[r] /\ p = PolicyOf[r] /\ res = Neg(i, r)
  OBVIOUS
<1>2. /\ a.min \in Int /\ a.max \in Int /\ b.min \in Int /\ b.max \in Int /\ p.required \in Int
  BY <1>1 DEF Agreed, StructurallyValid, ValidPolicy, Levels
<1>3. /\ res.level = CommonMax(a, b) /\ res.required \in PeerMin(a, b)..res.level
      /\ res.suite \in a.suites \cap b.suites
  BY <1>1 DEF Agreed, ValidTranscript
<1>4. res.status = "accepted"
  BY <1>1 DEF Agreed, Accepted
<1>5. res.required = Maximum(PeerMin(a, b), p.required)
  <2>1. res = Negotiate(a, b, p)
    BY <1>1 DEF Neg
  <2>2. \A s : s # "accepted" => res # Refused(s)
    BY <1>4 DEF Refused
  <2>3. \E u : res = [status |-> "accepted", required |-> Maximum(PeerMin(a, b), p.required),
                      level |-> CommonMax(a, b), suite |-> u]
    BY <2>1, <2>2, Zenon DEF Negotiate
  <2> QED BY <2>3
<1>6. PeerMin(a, b) \in Int /\ CommonMax(a, b) \in Int
  BY <1>2 DEF PeerMin, CommonMax, Maximum, Minimum
<1>7. res.level >= PeerMin(a, b)
  BY <1>3, <1>6
<1>8. res.required >= p.required
  BY <1>2, <1>5, <1>6 DEF Maximum
<1> QED BY <1>1, <1>3, <1>7, <1>8 DEF CommonMax, PeerMin

\* The frames of different runs differ, and none is the empty place of a handshake.
LEMMA HelloFacts ==
  ASSUME NEW i, NEW j
  PROVE  /\ ClientHello(i) # <<>> /\ (ClientHello(i) = ClientHello(j) => i = j)
         /\ ClientHello(i).type = "client_hello" /\ ClientHello(i).offer = OfferOf[i]
         /\ ClientHello(i).eph = i /\ ClientHello(i).signed = <<OfferOf[i], i>>
<1>1. ClientHello(i).eph = i /\ ClientHello(j).eph = j
  BY DEF ClientHello
<1>2. DOMAIN ClientHello(i) # {}
  BY DEF ClientHello
<1>3. DOMAIN <<>> = {}
  OBVIOUS
<1> QED BY <1>1, <1>2, <1>3 DEF ClientHello

LEMMA ReplyFacts ==
  ASSUME NEW i, NEW r, NEW j, NEW s
  PROVE  /\ Reply(i, r) # <<>> /\ (Reply(i, r) = Reply(j, s) => i = j /\ r = s)
         /\ Reply(i, r).type = "server_hello" /\ Reply(i, r).offer = OfferOf[r]
         /\ Reply(i, r).eph = r /\ Reply(i, r).result = Neg(i, r)
         /\ Reply(i, r).signed = <<ClientHello(i), OfferOf[r], r, Neg(i, r)>>
<1>1. Reply(i, r) = [type |-> "server_hello", offer |-> OfferOf[r], eph |-> r,
                     result |-> Neg(i, r),
                     signed |-> <<ClientHello(i), OfferOf[r], r, Neg(i, r)>>]
  BY DEF Reply, ServerHello
<1>2. Reply(j, s) = [type |-> "server_hello", offer |-> OfferOf[s], eph |-> s,
                     result |-> Neg(j, s),
                     signed |-> <<ClientHello(j), OfferOf[s], s, Neg(j, s)>>]
  BY DEF Reply, ServerHello
<1>3. DOMAIN Reply(i, r) # {} /\ DOMAIN <<>> = {}
  BY <1>1
<1>4. ASSUME Reply(i, r) = Reply(j, s) PROVE i = j /\ r = s
  <2>1. Reply(i, r).signed[1] = Reply(j, s).signed[1] /\ Reply(i, r).eph = Reply(j, s).eph
    BY <1>4
  <2>2. ClientHello(i) = ClientHello(j) /\ r = s
    BY <1>1, <1>2, <2>1
  <2> QED BY <2>2, HelloFacts
<1> QED BY <1>1, <1>3, <1>4

LEMMA FinFacts ==
  ASSUME NEW i, NEW r, NEW j, NEW s
  PROVE  /\ RunKeys(i, r) # NoKeys
         /\ RunKeys(i, r) = RunKeys(j, s) => i = j /\ r = s
         /\ ClientFin(i, r).type = "client_finished" /\ ServerFin(i, r).type = "server_finished"
         /\ ClientFin(i, r).mac # <<>> /\ ServerFin(i, r).mac # <<>>
         /\ ClientFin(i, r) = ClientFin(j, s) => i = j /\ r = s
         /\ ServerFin(i, r) = ServerFin(j, s) => i = j /\ r = s
<1>1. RunKeys(i, r)[1].reply = Reply(i, r) /\ RunKeys(j, s)[1].reply = Reply(j, s)
  BY DEF RunKeys, DeriveKeys
<1>2. RunKeys(i, r) # <<>>
  BY DEF RunKeys, DeriveKeys
<1>3. /\ ClientFin(i, r).mac = <<"client_finished", RunKeys(i, r), ClientHello(i), Reply(i, r)>>
      /\ ClientFin(j, s).mac = <<"client_finished", RunKeys(j, s), ClientHello(j), Reply(j, s)>>
      /\ ServerFin(i, r).mac = <<"server_finished", RunKeys(i, r), ClientHello(i), Reply(i, r)>>
      /\ ServerFin(j, s).mac = <<"server_finished", RunKeys(j, s), ClientHello(j), Reply(j, s)>>
      /\ ClientFin(i, r).type = "client_finished" /\ ServerFin(i, r).type = "server_finished"
  BY DEF ClientFin, ServerFin, Finished
<1>4. Reply(i, r) = Reply(j, s) => i = j /\ r = s
  BY ReplyFacts
<1>5. ClientFin(i, r).mac # <<>> /\ ServerFin(i, r).mac # <<>>
  BY <1>3
<1>6. ClientFin(i, r) = ClientFin(j, s) => Reply(i, r) = Reply(j, s)
  BY <1>3
<1>7. ServerFin(i, r) = ServerFin(j, s) => Reply(i, r) = Reply(j, s)
  BY <1>3
<1>8. RunKeys(i, r) = RunKeys(j, s) => Reply(i, r) = Reply(j, s)
  BY <1>1
<1> QED BY <1>2, <1>3, <1>4, <1>5, <1>6, <1>7, <1>8 DEF NoKeys

(***************************************************************************)
(* The invariant: handshake objects, frames sent and registries name runs. *)
(***************************************************************************)

HsStates == {"uninitialized", "client_hello_sent", "client_finished_sent",
             "server_hello_sent", "active", "failed"}
Hellos == {<<>>} \cup {ClientHello(i) : i \in Initiators}
Replies == {<<>>} \cup {Reply(i, r) : i \in Initiators, r \in Responders}
KeySets == {NoKeys} \cup {RunKeys(i, r) : i \in Initiators, r \in Responders}
HsRows == [st : HsStates, hello : Hellos, reply : Replies, keys : KeySets]

\* The object has nothing yet; it has sent its hello; it is in a run, with its keys.
Blank(h) == h.hello = <<>> /\ h.reply = <<>> /\ h.keys = NoKeys
Greeted(h, i) == h.hello = ClientHello(i) /\ h.reply = <<>> /\ h.keys = NoKeys
InRun(h, i, r) == h.hello = ClientHello(i) /\ h.reply = Reply(i, r)

InitiatorRow(i, h) ==
  \/ h.st \in {"uninitialized", "failed"} /\ Blank(h)
  \/ h.st \in {"client_hello_sent", "failed"} /\ Greeted(h, i)
  \/ \E r \in Responders :
       /\ Agreed(i, r) /\ InRun(h, i, r)
       /\ \/ h.st = "failed" /\ h.keys = NoKeys
          \/ h.st \in {"client_finished_sent", "active"} /\ h.keys = RunKeys(i, r)

ResponderRow(r, h) ==
  \/ h.st \in {"uninitialized", "failed"} /\ Blank(h)
  \/ \E i \in Initiators :
       /\ Agreed(i, r) /\ InRun(h, i, r)
       /\ \/ h.st = "failed" /\ h.keys = NoKeys
          \/ h.st \in {"server_hello_sent", "active"} /\ h.keys = RunKeys(i, r)

\* A session record of the run.
OfRun(rec, i, r) ==
  rec.initiator = OfferOf[i] /\ rec.responder = OfferOf[r] /\ rec.result = Neg(i, r)

\* The responder's node has, or had, the session of the run.
Kept(reg, i, r) ==
  /\ IdOf(i, r) \in DOMAIN reg[OfferOf[r].node]
  /\ OfRun(reg[OfferOf[r].node][IdOf(i, r)], i, r)

\* A frame that was sent, and what its sender has in memory since.
SentOK(f, h, reg) ==
  \/ \E i \in Initiators : f = ClientHello(i)
  \/ \E i \in Initiators, r \in Responders :
       /\ Agreed(i, r)
       /\ \/ f = Reply(i, r) /\ InRun(h[r], i, r)
          \/ f = ClientFin(i, r) /\ InRun(h[i], i, r)
          \/ f = ServerFin(i, r) /\ Kept(reg, i, r)

LifeStates == {"active", "expired", "revoked", "closed"}
Ids == {IdOf(i, r) : i \in Initiators, r \in Responders}
Offers == {OfferOf[x] : x \in Objects}
Results == {Neg(i, r) : i \in Initiators, r \in Responders}
Epochs == 1..MaxEpoch
Ends == 0..Expiry
Records ==
  [st : LifeStates, epoch : Epochs, key : {1, 2}, expires : Ends,
   initiator : Offers, responder : Offers, result : Results]
Tables == UNION {[D -> Records] : D \in SUBSET Ids}

RecordOK(reg, id, rec) ==
  \E i \in Initiators, r \in Responders :
    Agreed(i, r) /\ id = IdOf(i, r) /\ OfRun(rec, i, r) /\ Kept(reg, i, r)

HsTypes ==
  /\ hs \in [Objects -> HsRows]
  /\ registry \in [Nodes -> Tables]
  /\ now \in Nat

RowsOK(h) ==
  /\ \A i \in Initiators : InitiatorRow(i, h[i])
  /\ \A r \in Responders : ResponderRow(r, h[r])

\* Who is in a run has a partner in it; an active responder was confirmed.
LinksOK(h, fs) ==
  /\ \A i \in Initiators, r \in Responders : InRun(h[i], i, r) => InRun(h[r], i, r)
  /\ \A i \in Initiators, r \in Responders :
       h[r].st = "active" /\ InRun(h[r], i, r) => ClientFin(i, r) \in fs /\ InRun(h[i], i, r)

TablesOK(reg) ==
  \A n \in Nodes : \A id \in DOMAIN reg[n] : RecordOK(reg, id, reg[n][id])

HsInv ==
  /\ HsTypes /\ RowsOK(hs) /\ LinksOK(hs, sent) /\ TablesOK(registry)
  /\ \A f \in sent : SentOK(f, hs, registry)

LEMMA ObjectRoles ==
  ASSUME NEW x \in Objects
  PROVE  /\ x \in Initiators <=> x \notin Responders
BY HandshakeAssumption DEF Objects

LEMMA HsInvInit ==
  ASSUME HsInit
  PROVE  HsInv
<1>1. \A x \in Objects : hs[x] = NewHandshake
  BY DEF HsInit
<1>2. NewHandshake \in HsRows /\ NewHandshake.st = "uninitialized" /\ Blank(NewHandshake)
  BY DEF NewHandshake, HsRows, HsStates, Hellos, Replies, KeySets, NoKeys, Blank
<1>3. hs \in [Objects -> HsRows]
  BY <1>2 DEF HsInit
<1>4. <<>> \in Tables /\ DOMAIN <<>> = {}
  <2>1. <<>> \in [{} -> Records]
    OBVIOUS
  <2> QED BY <2>1 DEF Tables
<1>5. registry \in [Nodes -> Tables] /\ now \in Nat /\ \A n \in Nodes : DOMAIN registry[n] = {}
  BY <1>4 DEF HsInit
<1>6. RowsOK(hs)
  BY <1>1, <1>2 DEF RowsOK, InitiatorRow, ResponderRow, Objects
<1>7. LinksOK(hs, sent)
  <2>1. \A x \in Objects : hs[x].st = "uninitialized" /\ hs[x].hello = <<>>
    BY <1>1, <1>2 DEF Blank
  <2>2. \A x \in Objects : \A i, r : ~InRun(hs[x], i, r)
    BY <2>1, HelloFacts DEF InRun
  <2> QED BY <2>1, <2>2 DEF LinksOK, Objects
<1> QED BY <1>3, <1>5, <1>6, <1>7 DEF HsInv, HsTypes, TablesOK, HsInit

(***************************************************************************)
(* What an object accepts was sent as it arrives.                          *)
(***************************************************************************)

LEMMA ArrivalFacts ==
  ASSUME NEW f, NEW g \in Arrivals(f)
  PROVE  \/ g = f
         \/ f.type \in {"client_hello", "server_hello"} /\ \E o : g = [f EXCEPT !.offer = o]
         \/ f.type \notin {"client_hello", "server_hello"} /\ g = [f EXCEPT !.mac = <<>>]
BY Zenon DEF Arrivals

LEMMA TakenHello ==
  ASSUME HsInv, NEW f \in sent, NEW g \in Arrivals(f), g.type = "client_hello", ClientSigned(g)
  PROVE  \E i \in Initiators : g = ClientHello(i)
<1>1. SentOK(f, hs, registry)
  BY DEF HsInv
<1>2. CASE \E i \in Initiators : f = ClientHello(i)
  <2>1. PICK i \in Initiators : f = ClientHello(i)
    BY <1>2
  <2>2. f = [type |-> "client_hello", offer |-> OfferOf[i], eph |-> i, signed |-> <<OfferOf[i], i>>]
    BY <2>1 DEF ClientHello
  <2>3. CASE g = f
    BY <2>1, <2>3
  <2>4. CASE \E o : g = [f EXCEPT !.offer = o]
    <3>1. PICK o : g = [f EXCEPT !.offer = o]
      BY <2>4
    <3>2. g.offer = o /\ g.eph = i /\ g.signed = <<OfferOf[i], i>>
      BY <2>2, <3>1
    <3>3. <<OfferOf[i], i>> = <<o, i>>
      BY <3>2 DEF ClientSigned
    <3>4. o = OfferOf[i]
      BY <3>3
    <3>5. g = f
      BY <2>2, <3>1, <3>4
    <3> QED BY <2>1, <3>5
  <2>5. f.type = "client_hello"
    BY <2>2
  <2> QED BY <2>3, <2>4, <2>5, ArrivalFacts
<1>3. ASSUME NEW i \in Initiators, NEW r \in Responders,
             f = Reply(i, r) \/ f = ClientFin(i, r) \/ f = ServerFin(i, r)
      PROVE  FALSE
  <2>1. f.type # "client_hello"
    BY <1>3, ReplyFacts, FinFacts
  <2>2. g.type = f.type
    <3>1. ASSUME NEW o, g = [f EXCEPT !.offer = o] PROVE g.type = f.type
      BY <1>3, <3>1 DEF Reply, ServerHello, ClientFin, ServerFin, Finished
    <3>2. CASE g = [f EXCEPT !.mac = <<>>]
      BY <1>3, <3>2 DEF Reply, ServerHello, ClientFin, ServerFin, Finished
    <3> QED BY <3>1, <3>2, ArrivalFacts
  <2> QED BY <2>1, <2>2
<1> QED BY <1>1, <1>2, <1>3, Zenon DEF SentOK

LEMMA TakenReply ==
  ASSUME HsInv, NEW f \in sent, NEW g \in Arrivals(f), g.type = "server_hello",
         NEW x \in Initiators, ServerSigned(g, ClientHello(x))
  PROVE  \E r \in Responders : g = Reply(x, r) /\ Agreed(x, r) /\ InRun(hs[r], x, r)
<1>1. SentOK(f, hs, registry)
  BY DEF HsInv
<1>2. ASSUME NEW i \in Initiators, NEW r \in Responders, f = Reply(i, r), Agreed(i, r),
             InRun(hs[r], i, r)
      PROVE  g = Reply(x, r) /\ Agreed(x, r) /\ InRun(hs[r], x, r)
  <2>1. f = [type |-> "server_hello", offer |-> OfferOf[r], eph |-> r, result |-> Neg(i, r),
             signed |-> <<ClientHello(i), OfferOf[r], r, Neg(i, r)>>]
    BY <1>2 DEF Reply, ServerHello
  <2>2. PICK o : g = [f EXCEPT !.offer = o]
    <3>1. f = [f EXCEPT !.offer = OfferOf[r]]
      BY <2>1
    <3>2. f.type = "server_hello"
      BY <2>1
    <3> QED BY <3>1, <3>2, ArrivalFacts
  <2>3. /\ g.offer = o /\ g.eph = r /\ g.result = Neg(i, r)
        /\ g.signed = <<ClientHello(i), OfferOf[r], r, Neg(i, r)>>
    BY <2>1, <2>2
  <2>4. <<ClientHello(i), OfferOf[r], r, Neg(i, r)>> = <<ClientHello(x), o, r, Neg(i, r)>>
    BY <2>3 DEF ServerSigned
  <2>5. ClientHello(i) = ClientHello(x) /\ o = OfferOf[r]
    BY <2>4
  <2>6. i = x /\ g = f
    BY <2>1, <2>2, <2>5, HelloFacts
  <2> QED BY <1>2, <2>6
<1>3. ASSUME NEW i \in Initiators, NEW r \in Responders,
             f = ClientHello(i) \/ f = ClientFin(i, r) \/ f = ServerFin(i, r)
      PROVE  FALSE
  <2>1. f.type # "server_hello"
    BY <1>3, HelloFacts, FinFacts
  <2>2. g.type = f.type
    <3>1. ASSUME NEW o, g = [f EXCEPT !.offer = o] PROVE g.type = f.type
      BY <1>3, <3>1 DEF ClientHello, ClientFin, ServerFin, Finished
    <3>2. CASE g = [f EXCEPT !.mac = <<>>]
      BY <1>3, <3>2 DEF ClientHello, ClientFin, ServerFin, Finished
    <3> QED BY <3>1, <3>2, ArrivalFacts
  <2> QED BY <2>1, <2>2
<1>4. ASSUME NEW i \in Initiators, f = ClientHello(i) PROVE FALSE
  <2>1. f.type # "server_hello"
    BY <1>4, HelloFacts
  <2>2. \A o : g = [f EXCEPT !.offer = o] => g.type = f.type
    BY <1>4 DEF ClientHello
  <2>3. f.type = "client_hello"
    BY <1>4, HelloFacts
  <2> QED BY <2>1, <2>2, <2>3, ArrivalFacts
<1> QED BY <1>1, <1>2, <1>3, <1>4, Zenon DEF SentOK

LEMMA TakenFin ==
  ASSUME HsInv, NEW f \in sent, NEW g \in Arrivals(f),
         NEW i \in Initiators, NEW r \in Responders
  PROVE  /\ g = ClientFin(i, r) => g \in sent /\ InRun(hs[i], i, r)
         /\ g = ServerFin(i, r) => g \in sent /\ Kept(registry, i, r)
<1> SUFFICES ASSUME g = ClientFin(i, r) \/ g = ServerFin(i, r)
             PROVE  /\ g = ClientFin(i, r) => g \in sent /\ InRun(hs[i], i, r)
                    /\ g = ServerFin(i, r) => g \in sent /\ Kept(registry, i, r)
  OBVIOUS
<1>1. SentOK(f, hs, registry)
  BY DEF HsInv
<1>2. g.type \in {"client_finished", "server_finished"} /\ g.mac # <<>>
  BY FinFacts
<1>3. ASSUME NEW j \in Initiators, NEW s \in Responders, f = ClientHello(j) \/ f = Reply(j, s)
      PROVE  FALSE
  <2>1. f.type \in {"client_hello", "server_hello"}
    BY <1>3, HelloFacts, ReplyFacts
  <2>2. \A o : g = [f EXCEPT !.offer = o] => g.type = f.type
    BY <1>3 DEF ClientHello, Reply, ServerHello
  <2> QED BY <1>2, <2>1, <2>2, ArrivalFacts
<1>4. ASSUME NEW j \in Initiators, NEW s \in Responders, f = ClientFin(j, s) \/ f = ServerFin(j, s)
      PROVE  g = f
  <2>1. f.type \notin {"client_hello", "server_hello"}
    BY <1>4, FinFacts, SMTT(30)
  <2>2. g = [f EXCEPT !.mac = <<>>] => g.mac = <<>>
    BY <1>4 DEF ClientFin, ServerFin, Finished
  <2> QED BY <1>2, <2>1, <2>2, ArrivalFacts
<1>5. ASSUME NEW j \in Initiators, NEW s \in Responders
      PROVE  /\ ClientFin(j, s) # ServerFin(i, r) /\ ServerFin(j, s) # ClientFin(i, r)
             /\ ClientFin(j, s) = ClientFin(i, r) => j = i /\ s = r
             /\ ServerFin(j, s) = ServerFin(i, r) => j = i /\ s = r
  BY FinFacts
<1>6. ASSUME NEW j \in Initiators, f = ClientHello(j) PROVE FALSE
  BY <1>3, <1>6
<1>7. PICK j \in Initiators, s \in Responders :
        \/ f = ClientFin(j, s) /\ InRun(hs[j], j, s)
        \/ f = ServerFin(j, s) /\ Kept(registry, j, s)
  BY <1>1, <1>3, <1>6, Zenon DEF SentOK
<1>8. g = f
  BY <1>4, <1>7
<1> QED BY <1>5, <1>7, <1>8

(***************************************************************************)
(* The kinds of steps.                                                     *)
(***************************************************************************)

\* i says hello.
Starts(i) ==
  /\ hs[i].st = "uninitialized"
  /\ Goes(i, "client_hello_sent", ClientHello(i), <<>>, NoKeys, ClientHello(i))
  /\ UNCHANGED <<registry, now>>

\* r answers i's hello.
Answers(i, r) ==
  /\ Agreed(i, r) /\ hs[r].st = "uninitialized"
  /\ Goes(r, "server_hello_sent", ClientHello(i), Reply(i, r), RunKeys(i, r), Reply(i, r))
  /\ UNCHANGED <<registry, now>>

\* i takes r's answer and proves that it has the transcript.
Proves(i, r) ==
  /\ Agreed(i, r) /\ hs[i].st = "client_hello_sent" /\ InRun(hs[r], i, r)
  /\ Goes(i, "client_finished_sent", ClientHello(i), Reply(i, r), RunKeys(i, r),
          ClientFin(i, r))
  /\ UNCHANGED <<registry, now>>

\* The session of the run enters the registry of node n, where it was not.
Enters(n, i, r) ==
  /\ IdOf(i, r) \notin DOMAIN registry[n]
  /\ registry' = Recorded(n, IdOf(i, r), Record(ClientHello(i), Reply(i, r)))
  /\ UNCHANGED now

\* r establishes the session that i has confirmed.
ResponderJoins(i, r) ==
  /\ Agreed(i, r) /\ hs[r].st = "server_hello_sent" /\ InRun(hs[r], i, r)
  /\ ClientFin(i, r) \in sent /\ InRun(hs[i], i, r)
  /\ hs' = [hs EXCEPT ![r].st = "active"]
  /\ sent' = sent \cup {ServerFin(i, r)}
  /\ Enters(OfferOf[r].node, i, r)

\* i establishes the session that r has.
InitiatorJoins(i, r) ==
  /\ Agreed(i, r) /\ hs[i].st = "client_finished_sent" /\ InRun(hs[i], i, r)
  /\ Kept(registry, i, r)
  /\ hs' = [hs EXCEPT ![i].st = "active"]
  /\ sent' = sent
  /\ Enters(OfferOf[i].node, i, r)

\* A session record that lives on: as SessionsOnlyEnd has it.
Ages(old, new) ==
  /\ new # old => LifeOrder[old.st] < LifeOrder[new.st] \/ new.epoch > old.epoch
  /\ new.epoch >= old.epoch /\ (new.epoch > old.epoch => old.st = "active")
  /\ <<new.initiator, new.responder, new.result>> = <<old.initiator, old.responder, old.result>>

\* The sessions of one node age.
Lives(n) ==
  /\ UNCHANGED <<hs, sent, now>>
  /\ \E t \in Tables :
       /\ registry' = [registry EXCEPT ![n] = t]
       /\ DOMAIN t = DOMAIN registry[n]
       /\ \A id \in DOMAIN t : Ages(registry[n][id], t[id])

LEMMA RowFacts ==
  ASSUME HsInv, NEW x \in Objects
  PROVE  /\ hs[x] \in HsRows
         /\ x \in Initiators => InitiatorRow(x, hs[x])
         /\ x \in Responders => ResponderRow(x, hs[x])
BY DEF HsInv, HsTypes, RowsOK

\* The frames an object accepts.
LEMMA HelloKinds ==
  ASSUME HsInv, NEW x \in Objects, NEW f \in sent, NEW g \in Arrivals(f), NEW trusted \in BOOLEAN,
         g.type = "client_hello", ResponderProcessClientHello(x, g, trusted)
  PROVE  Abort(x) \/ \E i \in Initiators : x \in Responders /\ Answers(i, x)
<1>1. PICK res, reply : res = Negotiate(g.offer, OfferOf[x], PolicyOf[x]) /\ reply = ServerHello(x, g, res)
  OBVIOUS
<1>2. x \in Responders /\ hs[x].st = "uninitialized"
  BY DEF ResponderProcessClientHello
<1>3. \/ Abort(x)
      \/ /\ ValidPolicy(PolicyOf[x]) /\ StructurallyValid(OfferOf[x])
         /\ DecodesHello(g, "client_hello") /\ Accepted(res) /\ ClientSigned(g)
         /\ ValidTranscript(g.offer, OfferOf[x], res)
         /\ Goes(x, "server_hello_sent", g, reply, DeriveKeys(x, g.eph, g, reply), reply)
         /\ UNCHANGED <<registry, now>>
  BY <1>1, Zenon DEF ResponderProcessClientHello
<1>4. CASE ~Abort(x)
  <2>1. PICK i \in Initiators : g = ClientHello(i)
    BY <1>3, <1>4, TakenHello
  <2>2. g.offer = OfferOf[i] /\ g.eph = i
    BY <2>1, HelloFacts
  <2>3. res = Neg(i, x) /\ reply = Reply(i, x)
    BY <1>1, <2>1, <2>2 DEF Neg, Reply
  <2>4. Agreed(i, x)
    BY <1>2, <1>3, <1>4, <2>2, <2>3 DEF Agreed, DecodesHello
  <2>5. DeriveKeys(x, g.eph, g, reply) = RunKeys(i, x)
    <3>1. {x, i} = {i, x}
      OBVIOUS
    <3> QED BY <2>1, <2>2, <2>3, <3>1 DEF RunKeys, DeriveKeys
  <2>6. Answers(i, x)
    BY <1>2, <1>3, <1>4, <2>1, <2>3, <2>4, <2>5 DEF Answers
  <2> QED BY <1>2, <2>6
<1> QED BY <1>4

LEMMA ReplyKinds ==
  ASSUME HsInv, NEW x \in Objects, NEW f \in sent, NEW g \in Arrivals(f), NEW trusted \in BOOLEAN,
         g.type = "server_hello", InitiatorProcessServerHello(x, g, trusted)
  PROVE  Abort(x) \/ \E r \in Responders : x \in Initiators /\ Proves(x, r)
<1>1. x \in Initiators /\ hs[x].st = "client_hello_sent"
  BY DEF InitiatorProcessServerHello
<1>2. PICK hello : hello = hs[x].hello
  OBVIOUS
<1>3. hello = ClientHello(x)
  BY <1>1, <1>2, RowFacts DEF InitiatorRow, Blank, Greeted
<1>4. \/ Abort(x)
      \/ /\ ServerSigned(g, hello)
         /\ Goes(x, "client_finished_sent", hello, g, DeriveKeys(x, g.eph, hello, g),
                 Finished("client_finished", DeriveKeys(x, g.eph, hello, g), hello, g))
         /\ UNCHANGED <<registry, now>>
  BY <1>2, Zenon DEF InitiatorProcessServerHello
<1>5. CASE ~Abort(x)
  <2>1. ServerSigned(g, ClientHello(x))
    BY <1>3, <1>4, <1>5
  <2>2. PICK r \in Responders : g = Reply(x, r) /\ Agreed(x, r) /\ InRun(hs[r], x, r)
    BY <1>1, <2>1, TakenReply
  <2>3. g.eph = r
    BY <2>2, ReplyFacts
  <2>4. DeriveKeys(x, g.eph, hello, g) = RunKeys(x, r)
    BY <1>3, <2>2, <2>3 DEF RunKeys
  <2>5. Proves(x, r)
    BY <1>1, <1>3, <1>4, <1>5, <2>2, <2>4 DEF Proves, ClientFin
  <2> QED BY <1>1, <2>5
<1> QED BY <1>5

LEMMA SessionIds ==
  ASSUME NEW i, NEW r
  PROVE  SessionId(ClientHello(i), Reply(i, r)) = IdOf(i, r)
BY HelloFacts, ReplyFacts DEF SessionId, IdOf

LEMMA ServerFinishedKinds ==
  ASSUME HsInv, NEW x \in Objects, NEW f \in sent, NEW g \in Arrivals(f),
         InitiatorProcessServerFinished(x, g)
  PROVE  Abort(x) \/ \E r \in Responders : x \in Initiators /\ InitiatorJoins(x, r)
<1>1. x \in Initiators /\ hs[x].st = "client_finished_sent"
  BY DEF InitiatorProcessServerFinished
<1>2. PICK r \in Responders : Agreed(x, r) /\ InRun(hs[x], x, r) /\ hs[x].keys = RunKeys(x, r)
  BY <1>1, RowFacts DEF InitiatorRow
<1>3. hs[x].hello = ClientHello(x) /\ hs[x].reply = Reply(x, r)
  BY <1>2 DEF InRun
<1>4. \/ Abort(x)
      \/ /\ MacMatches(g, "server_finished", RunKeys(x, r), ClientHello(x), Reply(x, r))
         /\ Established(x, ClientHello(x), Reply(x, r), {})
  BY <1>2, <1>3 DEF InitiatorProcessServerFinished
<1>5. CASE ~Abort(x)
  <2>1. g = ServerFin(x, r)
    BY <1>4, <1>5 DEF MacMatches, ServerFin
  <2>2. Kept(registry, x, r)
    BY <1>1, <2>1, TakenFin
  <2>3. Established(x, ClientHello(x), Reply(x, r), {})
    BY <1>4, <1>5
  <2>4. /\ IdOf(x, r) \notin DOMAIN registry[OfferOf[x].node]
        /\ hs' = [hs EXCEPT ![x].st = "active"]
        /\ registry' = Recorded(OfferOf[x].node, IdOf(x, r), Record(ClientHello(x), Reply(x, r)))
        /\ sent' = sent \cup {} /\ UNCHANGED now
    BY <1>5, <2>3, SessionIds DEF Established, MayEstablish
  <2>5. InitiatorJoins(x, r)
    BY <1>1, <1>2, <2>2, <2>4 DEF InitiatorJoins, Enters
  <2> QED BY <1>1, <2>5
<1> QED BY <1>5

LEMMA ClientFinishedKinds ==
  ASSUME HsInv, NEW x \in Objects, NEW f \in sent, NEW g \in Arrivals(f),
         ResponderProcessClientFinished(x, g)
  PROVE  Abort(x) \/ \E i \in Initiators : x \in Responders /\ ResponderJoins(i, x)
<1>1. x \in Responders /\ hs[x].st = "server_hello_sent"
  BY DEF ResponderProcessClientFinished
<1>2. PICK i \in Initiators : Agreed(i, x) /\ InRun(hs[x], i, x) /\ hs[x].keys = RunKeys(i, x)
  BY <1>1, RowFacts DEF ResponderRow
<1>3. hs[x].hello = ClientHello(i) /\ hs[x].reply = Reply(i, x)
  BY <1>2 DEF InRun
<1>4. \/ Abort(x)
      \/ /\ MacMatches(g, "client_finished", RunKeys(i, x), ClientHello(i), Reply(i, x))
         /\ Established(x, ClientHello(i), Reply(i, x), {ServerFin(i, x)})
  BY <1>2, <1>3 DEF ResponderProcessClientFinished, ServerFin
<1>5. CASE ~Abort(x)
  <2>1. g = ClientFin(i, x)
    BY <1>4, <1>5 DEF MacMatches, ClientFin
  <2>2. ClientFin(i, x) \in sent /\ InRun(hs[i], i, x)
    BY <1>1, <2>1, TakenFin
  <2>3. Established(x, ClientHello(i), Reply(i, x), {ServerFin(i, x)})
    BY <1>4, <1>5
  <2>4. /\ IdOf(i, x) \notin DOMAIN registry[OfferOf[x].node]
        /\ hs' = [hs EXCEPT ![x].st = "active"]
        /\ registry' = Recorded(OfferOf[x].node, IdOf(i, x), Record(ClientHello(i), Reply(i, x)))
        /\ sent' = sent \cup {ServerFin(i, x)} /\ UNCHANGED now
    BY <1>5, <2>3, SessionIds DEF Established, MayEstablish
  <2>5. ResponderJoins(i, x)
    BY <1>1, <1>2, <2>2, <2>4 DEF ResponderJoins, Enters
  <2> QED BY <1>1, <2>5
<1> QED BY <1>5

LEMMA LifeOrders ==
  /\ LifeOrder["active"] = 0 /\ LifeOrder["expired"] = 1
  /\ LifeOrder["revoked"] = 1 /\ LifeOrder["closed"] = 2
BY DEF LifeOrder

LEMMA RecordFacts ==
  ASSUME NEW rec \in Records
  PROVE  /\ rec.st \in LifeStates /\ rec.epoch \in Nat /\ rec.epoch >= 1 /\ rec.epoch <= MaxEpoch
         /\ Ages(rec, rec)
BY HandshakeAssumption DEF Records, Ages, Epochs

\* One record of a node's table becomes another that it may become.
LEMMA OneAges ==
  ASSUME HsInv, NEW n \in Nodes, NEW id \in DOMAIN registry[n], NEW rec \in Records,
         Ages(registry[n][id], rec), Becomes(n, id, rec)
  PROVE  Lives(n)
<1>1. PICK D \in SUBSET Ids : registry[n] \in [D -> Records]
  BY DEF HsInv, HsTypes, Tables
<1>2. PICK t \in [D -> Records] : t = [registry[n] EXCEPT ![id] = rec]
  BY <1>1
<1>3. t \in Tables /\ DOMAIN t = D /\ DOMAIN registry[n] = D
  BY <1>1, <1>2 DEF Tables
<1>4. registry' = [registry EXCEPT ![n] = t] /\ UNCHANGED <<hs, sent, now>>
  BY <1>2 DEF Becomes, HsInv, HsTypes
<1>5. \A k \in D : Ages(registry[n][k], t[k])
  <2> TAKE k \in D
  <2>1. CASE k = id
    BY <1>1, <1>2, <1>3, <2>1
  <2>2. CASE k # id
    <3>1. t[k] = registry[n][k] /\ registry[n][k] \in Records
      BY <1>1, <1>2, <2>2
    <3> QED BY <3>1, RecordFacts
  <2> QED BY <2>1, <2>2
<1> QED BY <1>3, <1>4, <1>5 DEF Lives

LEMMA LifeKinds ==
  ASSUME HsInv, NEW n \in Nodes,
         \/ Expire(n)
         \/ \E id \in DOMAIN registry[n] : Rotate(n, id) \/ Revoke(n, id) \/ CloseSession(n, id)
  PROVE  Lives(n)
<1>1. PICK D \in SUBSET Ids : registry[n] \in [D -> Records]
  BY DEF HsInv, HsTypes, Tables
<1>2. DOMAIN registry[n] = D /\ now \in Nat /\ Expiry \in Nat /\ MaxEpoch \in Nat
  BY <1>1, HandshakeAssumption DEF HsInv, HsTypes
<1>3. ASSUME NEW id \in D, Rotate(n, id) PROVE Lives(n)
  <2>1. PICK old \in Records : old = registry[n][id]
    BY <1>1
  <2>2. PICK key \in {1, 2}, end \in (now + 1)..Expiry :
          Becomes(n, id, [old EXCEPT !.epoch = @ + 1, !.key = key, !.expires = end])
    BY <1>3, <2>1 DEF Rotate
  <2>3. old.st = "active" /\ old.epoch < MaxEpoch
    BY <1>3, <2>1 DEF Rotate, IsActive
  <2>4. PICK rec : rec = [old EXCEPT !.epoch = @ + 1, !.key = key, !.expires = end]
    OBVIOUS
  <2>5. old.epoch + 1 \in 1..MaxEpoch /\ end \in 0..Expiry /\ old.epoch \in Nat
    BY <1>2, <2>1, <2>3, RecordFacts
  <2>6. rec \in Records
    <3>1. PICK e \in Epochs, d \in Ends : e = old.epoch + 1 /\ d = end
      BY <2>5 DEF Epochs, Ends
    <3>2. rec = [old EXCEPT !.epoch = e, !.key = key, !.expires = d]
      BY <2>4, <3>1
    <3> QED BY <3>2 DEF Records
  <2>7. /\ rec.epoch = old.epoch + 1 /\ rec.initiator = old.initiator
        /\ rec.responder = old.responder /\ rec.result = old.result
    BY <2>4 DEF Records
  <2>8. Ages(old, rec)
    BY <2>3, <2>5, <2>7 DEF Ages
  <2> QED BY <1>2, <2>1, <2>2, <2>4, <2>6, <2>8, OneAges
<1>4. ASSUME NEW id \in D, Revoke(n, id) \/ CloseSession(n, id) PROVE Lives(n)
  <2>1. PICK old \in Records : old = registry[n][id]
    BY <1>1
  <2>2. PICK st \in {"revoked", "closed"} :
          /\ Becomes(n, id, [old EXCEPT !.st = st])
          /\ st = "revoked" => old.st = "active"
          /\ st = "closed" => old.st # "closed"
    BY <1>4, <2>1 DEF Revoke, CloseSession
  <2>3. PICK rec : rec = [old EXCEPT !.st = st]
    OBVIOUS
  <2>4. rec \in Records
    BY <2>3 DEF Records, LifeStates
  <2>5. /\ rec.st = st /\ rec.epoch = old.epoch /\ rec.initiator = old.initiator
        /\ rec.responder = old.responder /\ rec.result = old.result
    BY <2>3 DEF Records
  <2>6. LifeOrder[old.st] < LifeOrder[rec.st]
    BY <2>2, <2>5, RecordFacts, LifeOrders DEF LifeStates
  <2>7. Ages(old, rec)
    BY <2>5, <2>6, RecordFacts DEF Ages
  <2> QED BY <1>2, <2>1, <2>2, <2>3, <2>4, <2>7, OneAges
<1>5. CASE Expire(n)
  <2>1. PICK t : t = [id \in D |-> IF registry[n][id].st = "active" /\ ~IsActive(registry[n][id])
                                   THEN [registry[n][id] EXCEPT !.st = "expired"]
                                   ELSE registry[n][id]]
    OBVIOUS
  <2>2. registry' = [registry EXCEPT ![n] = t] /\ UNCHANGED <<hs, sent, now>>
    BY <1>2, <1>5, <2>1 DEF Expire
  <2>3. ASSUME NEW id \in D PROVE t[id] \in Records /\ Ages(registry[n][id], t[id])
    <3>1. PICK old \in Records : old = registry[n][id]
      BY <1>1
    <3>2. CASE t[id] = old
      BY <3>1, <3>2, RecordFacts
    <3>3. CASE t[id] = [old EXCEPT !.st = "expired"] /\ old.st = "active"
      <4>1. PICK rec : rec = t[id]
        OBVIOUS
      <4>2. rec \in Records
        BY <3>3, <4>1 DEF Records, LifeStates
      <4>3. /\ rec.st = "expired" /\ rec.epoch = old.epoch /\ rec.initiator = old.initiator
            /\ rec.responder = old.responder /\ rec.result = old.result
        BY <3>3, <4>1 DEF Records
      <4>4. Ages(old, rec)
        BY <3>3, <4>3, RecordFacts, LifeOrders DEF Ages
      <4> QED BY <3>1, <4>1, <4>2, <4>4
    <3> QED BY <2>1, <3>1, <3>2, <3>3
  <2>4. t \in Tables /\ DOMAIN t = D
    <3>1. t \in [D -> Records] /\ DOMAIN t = D
      BY <2>1, <2>3
    <3> QED BY <3>1 DEF Tables
  <2> QED BY <1>2, <2>2, <2>3, <2>4 DEF Lives
<1> QED BY <1>2, <1>3, <1>4, <1>5

\* Every step is of one kind.
LEMMA StepKinds ==
  ASSUME HsInv, HsNext
  PROVE  \/ \E x \in Objects : Abort(x)
         \/ \E i \in Initiators : Starts(i)
         \/ \E i \in Initiators, r \in Responders :
              Answers(i, r) \/ Proves(i, r) \/ ResponderJoins(i, r) \/ InitiatorJoins(i, r)
         \/ \E n \in Nodes : Lives(n)
         \/ Clock
<1>1. ASSUME NEW x \in Objects, InitiatorStart(x)
      PROVE  Abort(x) \/ (x \in Initiators /\ Starts(x))
  BY <1>1, Zenon DEF InitiatorStart, Starts
<1>2. ASSUME NEW x \in Objects, WrongCall(x) PROVE Abort(x)
  BY <1>2 DEF WrongCall
<1>3. ASSUME NEW x \in Objects, NEW f \in sent, NEW g \in Arrivals(f), Receive(x, g)
      PROVE  \/ Abort(x)
             \/ \E i \in Initiators, r \in Responders :
                  Answers(i, r) \/ Proves(i, r) \/ ResponderJoins(i, r) \/ InitiatorJoins(i, r)
  <2>1. ASSUME NEW trusted \in BOOLEAN, g.type = "server_hello",
               InitiatorProcessServerHello(x, g, trusted)
        PROVE  Abort(x) \/ \E r \in Responders : x \in Initiators /\ Proves(x, r)
    BY <2>1, ReplyKinds
  <2>2. ASSUME NEW trusted \in BOOLEAN, g.type = "client_hello",
               ResponderProcessClientHello(x, g, trusted)
        PROVE  Abort(x) \/ \E i \in Initiators : x \in Responders /\ Answers(i, x)
    BY <2>2, HelloKinds
  <2>3. CASE InitiatorProcessServerFinished(x, g)
    BY <2>3, ServerFinishedKinds
  <2>4. CASE ResponderProcessClientFinished(x, g)
    BY <2>4, ClientFinishedKinds
  <2> QED BY <1>3, <2>1, <2>2, <2>3, <2>4, Zenon DEF Receive
<1>4. \/ \E x \in Objects : InitiatorStart(x) \/ WrongCall(x)
      \/ \E x \in Objects, f \in sent : \E g \in Arrivals(f) : Receive(x, g)
      \/ \E n \in Nodes : \/ Expire(n)
                          \/ \E id \in DOMAIN registry[n] :
                               Rotate(n, id) \/ Revoke(n, id) \/ CloseSession(n, id)
      \/ Clock
  BY DEF HsNext
<1>5. ASSUME NEW n \in Nodes,
             \/ Expire(n)
             \/ \E id \in DOMAIN registry[n] : Rotate(n, id) \/ Revoke(n, id) \/ CloseSession(n, id)
      PROVE  Lives(n)
  BY <1>5, LifeKinds
<1> QED BY <1>1, <1>2, <1>3, <1>4, <1>5, Zenon

(***************************************************************************)
(* What every step keeps.                                                  *)
(***************************************************************************)

\* Runs go on, the responder's sessions stay, nothing that was sent is forgotten.
Stays ==
  /\ \A x \in Objects : \A i \in Initiators, r \in Responders :
       InRun(hs[x], i, r) => InRun(hs'[x], i, r)
  /\ \A i \in Initiators, r \in Responders :
       Agreed(i, r) /\ Kept(registry, i, r) => Kept(registry', i, r)
  /\ sent \subseteq sent'

LEMMA SentStays ==
  ASSUME HsInv, Stays, NEW f \in sent
  PROVE  SentOK(f, hs', registry')
<1>1. SentOK(f, hs, registry)
  BY DEF HsInv
<1>2. CASE \E i \in Initiators : f = ClientHello(i)
  BY <1>2 DEF SentOK
<1>3. ASSUME NEW i \in Initiators, NEW r \in Responders, Agreed(i, r),
             \/ f = Reply(i, r) /\ InRun(hs[r], i, r)
             \/ f = ClientFin(i, r) /\ InRun(hs[i], i, r)
             \/ f = ServerFin(i, r) /\ Kept(registry, i, r)
      PROVE  SentOK(f, hs', registry')
  <2>1. /\ InRun(hs[r], i, r) => InRun(hs'[r], i, r)
        /\ InRun(hs[i], i, r) => InRun(hs'[i], i, r)
        /\ Kept(registry, i, r) => Kept(registry', i, r)
    BY <1>3 DEF Stays, Objects
  <2> QED BY <1>3, <2>1, Zenon DEF SentOK
<1> QED BY <1>1, <1>2, <1>3, Zenon DEF SentOK

LEMMA RunIsOne ==
  ASSUME NEW h, NEW i, NEW r, NEW j, NEW s, InRun(h, i, r), InRun(h, j, s)
  PROVE  i = j /\ r = s
<1>1. Reply(i, r) = Reply(j, s)
  BY DEF InRun
<1> QED BY <1>1, ReplyFacts

LEMMA LinksStay ==
  ASSUME HsInv, Stays,
         \A i \in Initiators, r \in Responders :
           InRun(hs'[i], i, r) => InRun(hs[i], i, r) \/ InRun(hs[r], i, r),
         \A i \in Initiators, r \in Responders :
           hs'[r].st = "active" /\ InRun(hs'[r], i, r) =>
             \/ hs[r].st = "active" /\ InRun(hs[r], i, r)
             \/ ClientFin(i, r) \in sent /\ InRun(hs[i], i, r)
  PROVE  LinksOK(hs', sent')
<1>1. LinksOK(hs, sent)
  BY DEF HsInv
<1>2. ASSUME NEW i \in Initiators, NEW r \in Responders, InRun(hs'[i], i, r)
      PROVE  InRun(hs'[r], i, r)
  <2>1. InRun(hs[r], i, r)
    BY <1>1, <1>2 DEF LinksOK
  <2> QED BY <2>1 DEF Stays, Objects
<1>3. ASSUME NEW i \in Initiators, NEW r \in Responders, hs'[r].st = "active", InRun(hs'[r], i, r)
      PROVE  ClientFin(i, r) \in sent' /\ InRun(hs'[i], i, r)
  <2>1. ClientFin(i, r) \in sent /\ InRun(hs[i], i, r)
    BY <1>1, <1>3 DEF LinksOK
  <2> QED BY <2>1 DEF Stays, Objects
<1> QED BY <1>2, <1>3 DEF LinksOK

\* A row of an initiator or a responder is a row of its role.
LEMMA OneRow ==
  ASSUME HsInv, NEW x \in Objects, \A y \in Objects : y # x => hs'[y] = hs[y],
         x \in Initiators => InitiatorRow(x, hs'[x]),
         x \in Responders => ResponderRow(x, hs'[x])
  PROVE  RowsOK(hs')
<1>1. RowsOK(hs)
  BY DEF HsInv
<1>2. ASSUME NEW i \in Initiators PROVE InitiatorRow(i, hs'[i])
  <2>1. CASE i = x
    BY <1>2, <2>1
  <2>2. CASE i # x
    <3>1. hs'[i] = hs[i]
      BY <1>2, <2>2 DEF Objects
    <3> QED BY <1>1, <1>2, <3>1 DEF RowsOK
  <2> QED BY <2>1, <2>2
<1>3. ASSUME NEW r \in Responders PROVE ResponderRow(r, hs'[r])
  <2>1. CASE r = x
    BY <1>3, <2>1
  <2>2. CASE r # x
    <3>1. hs'[r] = hs[r]
      BY <1>3, <2>2 DEF Objects
    <3> QED BY <1>1, <1>3, <3>1 DEF RowsOK
  <2> QED BY <2>1, <2>2
<1> QED BY <1>2, <1>3 DEF RowsOK

LEMMA Assemble ==
  ASSUME HsInv, Stays, hs' \in [Objects -> HsRows], registry' \in [Nodes -> Tables], now' \in Nat,
         RowsOK(hs'), LinksOK(hs', sent'), TablesOK(registry'),
         \A f \in sent' : f \in sent \/ SentOK(f, hs', registry')
  PROVE  HsInv'
<1>1. \A f \in sent' : SentOK(f, hs', registry')
  BY SentStays
<1>2. PICK h, fs, reg, t : h = hs' /\ fs = sent' /\ reg = registry' /\ t = now'
  OBVIOUS
<1>3. /\ h \in [Objects -> HsRows] /\ reg \in [Nodes -> Tables] /\ t \in Nat
      /\ RowsOK(h) /\ LinksOK(h, fs) /\ TablesOK(reg) /\ \A f \in fs : SentOK(f, h, reg)
  BY <1>1, <1>2
<1> QED BY <1>2, <1>3 DEF HsInv, HsTypes

\* The registries do not change in most steps of the objects.
LEMMA SameRegistry ==
  ASSUME HsInv, UNCHANGED <<registry, now>>
  PROVE  registry' \in [Nodes -> Tables] /\ now' \in Nat /\ TablesOK(registry')
BY DEF HsInv, HsTypes

LEMMA GoesFacts ==
  ASSUME HsInv, NEW x \in Objects, NEW st, NEW hello, NEW reply, NEW keys, NEW frame,
         Goes(x, st, hello, reply, keys, frame)
  PROVE  /\ hs'[x].st = st /\ hs'[x].hello = hello /\ hs'[x].reply = reply /\ hs'[x].keys = keys
         /\ hs'[x] = [st |-> st, hello |-> hello, reply |-> reply, keys |-> keys]
         /\ \A y \in Objects : y # x => hs'[y] = hs[y]
         /\ hs'[x] \in HsRows => hs' \in [Objects -> HsRows]
         /\ sent' = sent \cup {frame}
<1>1. hs \in [Objects -> HsRows]
  BY DEF HsInv, HsTypes
<1>2. PICK row : row = [st |-> st, hello |-> hello, reply |-> reply, keys |-> keys]
  OBVIOUS
<1>3. hs' = [hs EXCEPT ![x] = row] /\ sent' = sent \cup {frame}
  BY <1>2 DEF Goes
<1>4. hs'[x] = row /\ \A y \in Objects : y # x => hs'[y] = hs[y]
  BY <1>1, <1>3
<1>5. row \in HsRows => hs' \in [Objects -> HsRows]
  BY <1>1, <1>3
<1> QED BY <1>2, <1>3, <1>4, <1>5

LEMMA AbortKeeps ==
  ASSUME HsInv, NEW x \in Objects, Abort(x)
  PROVE  HsInv'
<1>1. hs \in [Objects -> HsRows] /\ hs[x] \in HsRows
  BY DEF HsInv, HsTypes
<1>2. PICK old \in HsRows : old = hs[x]
  BY <1>1
<1>3. PICK row : row = [old EXCEPT !.st = "failed", !.keys = NoKeys]
  OBVIOUS
<1>4. /\ row \in HsRows /\ row.st = "failed" /\ row.keys = NoKeys
      /\ row.hello = old.hello /\ row.reply = old.reply
  <2>1. "failed" \in HsStates /\ NoKeys \in KeySets
    BY DEF HsStates, KeySets
  <2> QED BY <1>3, <2>1 DEF HsRows
<1>5. hs' = [hs EXCEPT ![x] = row] /\ UNCHANGED <<sent, registry, now>>
  BY <1>1, <1>2, <1>3 DEF Abort, HsRows
<1>6. /\ hs' \in [Objects -> HsRows] /\ hs'[x] = row
      /\ \A y \in Objects : y # x => hs'[y] = hs[y]
  BY <1>1, <1>4, <1>5
<1>7. \A y \in Objects : \A i, r : InRun(hs'[y], i, r) <=> InRun(hs[y], i, r)
  BY <1>2, <1>4, <1>6 DEF InRun
<1>8. Stays
  BY <1>5, <1>7 DEF Stays
<1>9. ASSUME x \in Initiators PROVE InitiatorRow(x, row)
  <2>1. InitiatorRow(x, old)
    BY <1>2, <1>9, RowFacts
  <2>2. CASE Blank(old) \/ Greeted(old, x)
    BY <1>4, <2>2 DEF InitiatorRow, Blank, Greeted
  <2>3. ASSUME NEW r \in Responders, Agreed(x, r), InRun(old, x, r) PROVE InitiatorRow(x, row)
    <3>1. InRun(row, x, r)
      BY <1>4, <2>3 DEF InRun
    <3> QED BY <1>4, <2>3, <3>1, Zenon DEF InitiatorRow
  <2> QED BY <2>1, <2>2, <2>3, Zenon DEF InitiatorRow
<1>10. ASSUME x \in Responders PROVE ResponderRow(x, row)
  <2>1. ResponderRow(x, old)
    BY <1>2, <1>10, RowFacts
  <2>2. CASE Blank(old)
    BY <1>4, <2>2 DEF ResponderRow, Blank
  <2>3. ASSUME NEW i \in Initiators, Agreed(i, x), InRun(old, i, x) PROVE ResponderRow(x, row)
    <3>1. InRun(row, i, x)
      BY <1>4, <2>3 DEF InRun
    <3> QED BY <1>4, <2>3, <3>1, Zenon DEF ResponderRow
  <2> QED BY <2>1, <2>2, <2>3, Zenon DEF ResponderRow
<1>11. RowsOK(hs')
  BY <1>6, <1>9, <1>10, OneRow
<1>12. LinksOK(hs', sent')
  <2>1. \A y \in Objects : hs'[y].st = "active" => hs[y].st = "active"
    BY <1>4, <1>6
  <2>2. \A y \in Initiators \cup Responders : y \in Objects
    BY DEF Objects
  <2> QED BY <1>7, <1>8, <2>1, <2>2, LinksStay
<1> QED BY <1>5, <1>6, <1>8, <1>11, <1>12, SameRegistry, Assemble

\* An object that goes on was in no run before.
LEMMA GoesStays ==
  ASSUME HsInv, NEW x \in Objects, NEW st, NEW hello, NEW reply, NEW keys, NEW frame,
         Goes(x, st, hello, reply, keys, frame), UNCHANGED registry,
         hs[x].reply = <<>>
  PROVE  Stays
<1>1. ASSUME NEW y \in Objects, NEW i \in Initiators, NEW r \in Responders, InRun(hs[y], i, r)
      PROVE  InRun(hs'[y], i, r)
  <2>1. y # x
    BY <1>1, ReplyFacts DEF InRun
  <2>2. hs'[y] = hs[y]
    BY <2>1, GoesFacts
  <2> QED BY <1>1, <2>2
<1>2. sent \subseteq sent'
  BY DEF Goes
<1> QED BY <1>1, <1>2 DEF Stays

LEMMA NoReplyYet ==
  ASSUME HsInv, NEW x \in Objects, hs[x].st \in {"uninitialized", "client_hello_sent"}
  PROVE  hs[x].reply = <<>>
<1>1. CASE x \in Initiators
  BY <1>1, RowFacts DEF InitiatorRow, Blank, Greeted
<1>2. CASE x \in Responders
  BY <1>2, RowFacts DEF ResponderRow, Blank
<1> QED BY <1>1, <1>2 DEF Objects

LEMMA StartsKeeps ==
  ASSUME HsInv, NEW x \in Initiators, Starts(x)
  PROVE  HsInv'
<1>1. x \in Objects /\ x \notin Responders
  BY ObjectRoles DEF Objects
<1>2. /\ hs'[x].st = "client_hello_sent" /\ Greeted(hs'[x], x)
      /\ \A y \in Objects : y # x => hs'[y] = hs[y]
      /\ sent' = sent \cup {ClientHello(x)}
  BY <1>1, GoesFacts DEF Starts, Greeted
<1>3. hs' \in [Objects -> HsRows]
  <2>1. /\ "client_hello_sent" \in HsStates /\ ClientHello(x) \in Hellos
        /\ <<>> \in Replies /\ NoKeys \in KeySets
    BY DEF HsStates, Hellos, Replies, KeySets
  <2>2. hs'[x] \in HsRows
    <3>1. hs'[x] = [st |-> "client_hello_sent", hello |-> ClientHello(x), reply |-> <<>>,
                    keys |-> NoKeys]
      BY <1>1, GoesFacts DEF Starts
    <3> QED BY <2>1, <3>1 DEF HsRows
  <2> QED BY <1>1, <2>2, GoesFacts DEF Starts
<1>4. Stays
  BY <1>1, GoesStays, NoReplyYet DEF Starts
<1>5. RowsOK(hs')
  <2>1. InitiatorRow(x, hs'[x])
    BY <1>2 DEF InitiatorRow
  <2> QED BY <1>1, <1>2, <2>1, OneRow
<1>6. LinksOK(hs', sent')
  <2>1. ASSUME NEW i \in Initiators, NEW r \in Responders, InRun(hs'[i], i, r)
        PROVE  InRun(hs[i], i, r)
    <3>1. i # x
      BY <1>2, <2>1, ReplyFacts DEF InRun, Greeted
    <3> QED BY <1>2, <2>1, <3>1 DEF Objects
  <2>2. \A r \in Responders : hs'[r] = hs[r]
    BY <1>1, <1>2 DEF Objects
  <2> QED BY <1>4, <2>1, <2>2, LinksStay
<1>7. SentOK(ClientHello(x), hs', registry')
  BY DEF SentOK
<1> QED BY <1>2, <1>3, <1>4, <1>5, <1>6, <1>7, SameRegistry, Assemble DEF Starts

LEMMA AnswersKeeps ==
  ASSUME HsInv, NEW i \in Initiators, NEW x \in Responders, Answers(i, x)
  PROVE  HsInv'
<1>1. x \in Objects /\ x \notin Initiators /\ Agreed(i, x)
  BY ObjectRoles DEF Objects, Answers
<1>2. /\ hs'[x].st = "server_hello_sent" /\ InRun(hs'[x], i, x) /\ hs'[x].keys = RunKeys(i, x)
      /\ \A y \in Objects : y # x => hs'[y] = hs[y]
      /\ sent' = sent \cup {Reply(i, x)}
  BY <1>1, GoesFacts DEF Answers, InRun
<1>3. hs' \in [Objects -> HsRows]
  <2>1. /\ "server_hello_sent" \in HsStates /\ ClientHello(i) \in Hellos
        /\ Reply(i, x) \in Replies /\ RunKeys(i, x) \in KeySets
    BY DEF HsStates, Hellos, Replies, KeySets
  <2>2. hs'[x] \in HsRows
    <3>1. hs'[x] = [st |-> "server_hello_sent", hello |-> ClientHello(i), reply |-> Reply(i, x),
                    keys |-> RunKeys(i, x)]
      BY <1>1, GoesFacts DEF Answers
    <3> QED BY <2>1, <3>1 DEF HsRows
  <2> QED BY <1>1, <2>2, GoesFacts DEF Answers
<1>4. Stays
  BY <1>1, GoesStays, NoReplyYet DEF Answers
<1>5. RowsOK(hs')
  <2>1. ResponderRow(x, hs'[x])
    BY <1>1, <1>2, Zenon DEF ResponderRow
  <2> QED BY <1>1, <1>2, <2>1, OneRow
<1>6. LinksOK(hs', sent')
  <2>1. \A j \in Initiators : hs'[j] = hs[j]
    BY <1>1, <1>2 DEF Objects
  <2>2. \A r \in Responders : hs'[r].st = "active" => hs'[r] = hs[r]
    BY <1>2 DEF Objects
  <2> QED BY <1>4, <2>1, <2>2, LinksStay
<1>7. SentOK(Reply(i, x), hs', registry')
  BY <1>1, <1>2, Zenon DEF SentOK
<1> QED BY <1>2, <1>3, <1>4, <1>5, <1>6, <1>7, SameRegistry, Assemble DEF Answers

LEMMA ProvesKeeps ==
  ASSUME HsInv, NEW x \in Initiators, NEW r \in Responders, Proves(x, r)
  PROVE  HsInv'
<1>1. x \in Objects /\ x \notin Responders /\ Agreed(x, r) /\ InRun(hs[r], x, r)
  BY ObjectRoles DEF Objects, Proves
<1>2. /\ hs'[x].st = "client_finished_sent" /\ InRun(hs'[x], x, r)
      /\ hs'[x].keys = RunKeys(x, r)
      /\ \A y \in Objects : y # x => hs'[y] = hs[y]
      /\ sent' = sent \cup {ClientFin(x, r)}
  <2>1. Goes(x, "client_finished_sent", ClientHello(x), Reply(x, r), RunKeys(x, r),
             ClientFin(x, r))
    BY DEF Proves
  <2>2. /\ hs'[x].st = "client_finished_sent" /\ hs'[x].hello = ClientHello(x)
        /\ hs'[x].reply = Reply(x, r) /\ hs'[x].keys = RunKeys(x, r)
        /\ \A y \in Objects : y # x => hs'[y] = hs[y]
        /\ sent' = sent \cup {ClientFin(x, r)}
    <3>1. PICK hello, reply, keys, frame :
            /\ hello = ClientHello(x) /\ reply = Reply(x, r) /\ keys = RunKeys(x, r)
            /\ frame = ClientFin(x, r)
      OBVIOUS
    <3>2. Goes(x, "client_finished_sent", hello, reply, keys, frame)
      BY <2>1, <3>1
    <3>3. /\ hs'[x].st = "client_finished_sent" /\ hs'[x].hello = hello
          /\ hs'[x].reply = reply /\ hs'[x].keys = keys
          /\ \A y \in Objects : y # x => hs'[y] = hs[y]
          /\ sent' = sent \cup {frame}
      BY <1>1, <3>2, GoesFacts
    <3> QED BY <3>1, <3>3
  <2> QED BY <2>2 DEF InRun
<1>3. hs' \in [Objects -> HsRows]
  <2>1. /\ "client_finished_sent" \in HsStates /\ ClientHello(x) \in Hellos
        /\ Reply(x, r) \in Replies /\ RunKeys(x, r) \in KeySets
    BY DEF HsStates, Hellos, Replies, KeySets
  <2>2. hs'[x] \in HsRows
    <3>1. hs'[x] = [st |-> "client_finished_sent", hello |-> ClientHello(x), reply |-> Reply(x, r),
                    keys |-> RunKeys(x, r)]
      BY <1>1, GoesFacts DEF Proves
    <3> QED BY <2>1, <3>1 DEF HsRows
  <2> QED BY <1>1, <2>2, GoesFacts DEF Proves
<1>4. Stays
  BY <1>1, GoesStays, NoReplyYet DEF Proves
<1>5. RowsOK(hs')
  <2>1. InitiatorRow(x, hs'[x])
    BY <1>1, <1>2, Zenon DEF InitiatorRow
  <2> QED BY <1>1, <1>2, <2>1, OneRow
<1>6. LinksOK(hs', sent')
  <2>1. ASSUME NEW i \in Initiators, NEW s \in Responders, InRun(hs'[i], i, s)
        PROVE  InRun(hs[i], i, s) \/ InRun(hs[s], i, s)
    <3>1. CASE i = x
      <4>1. s = r
        BY <1>2, <2>1, <3>1, RunIsOne
      <4> QED BY <1>1, <3>1, <4>1
    <3>2. CASE i # x
      BY <1>2, <2>1, <3>2 DEF Objects
    <3> QED BY <3>1, <3>2
  <2>2. \A s \in Responders : hs'[s] = hs[s]
    BY <1>1, <1>2 DEF Objects
  <2> QED BY <1>4, <2>1, <2>2, LinksStay
<1>7. SentOK(ClientFin(x, r), hs', registry')
  BY <1>1, <1>2, Zenon DEF SentOK
<1> QED BY <1>2, <1>3, <1>4, <1>5, <1>6, <1>7, SameRegistry, Assemble DEF Proves

\* The record of a run.
LEMMA NewRecord ==
  ASSUME NEW i \in Initiators, NEW r \in Responders
  PROVE  /\ Record(ClientHello(i), Reply(i, r)) \in Records
         /\ OfRun(Record(ClientHello(i), Reply(i, r)), i, r)
<1>1. PICK rec : rec = Record(ClientHello(i), Reply(i, r))
  OBVIOUS
<1>2. rec = [st |-> "active", epoch |-> 1, key |-> 1, expires |-> Expiry,
             initiator |-> OfferOf[i], responder |-> OfferOf[r], result |-> Neg(i, r)]
  BY <1>1, HelloFacts, ReplyFacts DEF Record
<1>3. /\ "active" \in LifeStates /\ 1 \in Epochs /\ Expiry \in Ends
      /\ OfferOf[i] \in Offers /\ OfferOf[r] \in Offers /\ Neg(i, r) \in Results
  BY HandshakeAssumption DEF LifeStates, Epochs, Ends, Offers, Results, Objects
<1>4. rec \in Records
  BY <1>2, <1>3 DEF Records
<1>5. OfRun(rec, i, r)
  BY <1>2 DEF OfRun
<1> QED BY <1>1, <1>4, <1>5

LEMMA EntersFacts ==
  ASSUME HsInv, NEW i \in Initiators, NEW r \in Responders, Agreed(i, r),
         NEW n \in {OfferOf[i].node, OfferOf[r].node}, Enters(n, i, r),
         n = OfferOf[r].node \/ Kept(registry, i, r)
  PROVE  /\ registry' \in [Nodes -> Tables] /\ now' \in Nat /\ TablesOK(registry')
         /\ Kept(registry', i, r)
         /\ \A j \in Initiators, s \in Responders :
              Agreed(j, s) /\ Kept(registry, j, s) => Kept(registry', j, s)
<1>1. n \in Nodes /\ registry \in [Nodes -> Tables] /\ now \in Nat
  BY HandshakeAssumption DEF Agreed, Objects, HsInv, HsTypes
<1>2. PICK D \in SUBSET Ids : registry[n] \in [D -> Records] /\ DOMAIN registry[n] = D
  BY <1>1 DEF Tables
<1>3. PICK rec \in Records, id \in Ids :
        rec = Record(ClientHello(i), Reply(i, r)) /\ id = IdOf(i, r) /\ OfRun(rec, i, r)
  BY NewRecord DEF Ids
<1>4. PICK t : t = [k \in D \cup {id} |-> IF k = id THEN rec ELSE registry[n][k]]
  OBVIOUS
<1>5. id \notin D /\ registry' = [registry EXCEPT ![n] = t] /\ now' = now
  BY <1>2, <1>3, <1>4 DEF Enters, Recorded
<1>6. /\ t \in [D \cup {id} -> Records] /\ t[id] = rec /\ DOMAIN t = D \cup {id}
      /\ \A k \in D : t[k] = registry[n][k]
  BY <1>2, <1>3, <1>4, <1>5
<1>7. t \in Tables
  <2>1. D \cup {id} \in SUBSET Ids
    OBVIOUS
  <2> QED BY <1>6, <2>1 DEF Tables
<1>8. PICK reg \in [Nodes -> Tables] : reg = registry'
  BY <1>1, <1>5, <1>7
<1>9. reg[n] = t /\ \A m \in Nodes : m # n => reg[m] = registry[m]
  BY <1>1, <1>5, <1>8
<1>10. ASSUME NEW j \in Initiators, NEW s \in Responders, Agreed(j, s), Kept(registry, j, s)
       PROVE  Kept(reg, j, s)
  <2>1. OfferOf[s].node \in Nodes
    BY <1>10, HandshakeAssumption DEF Agreed, Objects
  <2>2. CASE OfferOf[s].node = n
    <3>1. IdOf(j, s) \in D /\ OfRun(registry[n][IdOf(j, s)], j, s)
      BY <1>2, <1>10, <2>2 DEF Kept
    <3> QED BY <1>6, <1>9, <2>2, <3>1 DEF Kept
  <2>3. CASE OfferOf[s].node # n
    <3>1. reg[OfferOf[s].node] = registry[OfferOf[s].node]
      BY <1>9, <2>1, <2>3
    <3> QED BY <1>10, <3>1 DEF Kept
  <2> QED BY <2>2, <2>3
<1>11. Kept(reg, i, r)
  <2>1. CASE n = OfferOf[r].node
    BY <1>3, <1>6, <1>9, <2>1 DEF Kept
  <2>2. CASE Kept(registry, i, r)
    BY <1>10, <2>2
  <2> QED BY <2>1, <2>2
<1>12. ASSUME NEW m \in Nodes, NEW k \in DOMAIN reg[m] PROVE RecordOK(reg, k, reg[m][k])
  <2>1. CASE m = n /\ k = id
    <3>1. reg[m][k] = rec
      BY <1>6, <1>9, <2>1
    <3> QED BY <1>3, <1>11, <2>1, <3>1, Zenon DEF RecordOK
  <2>2. CASE ~(m = n /\ k = id)
    <3>1. k \in DOMAIN registry[m] /\ reg[m][k] = registry[m][k]
      BY <1>2, <1>6, <1>9, <1>12, <2>2
    <3>2. RecordOK(registry, k, registry[m][k])
      BY <1>12, <3>1 DEF HsInv, TablesOK
    <3>3. PICK j \in Initiators, s \in Responders :
            /\ Agreed(j, s) /\ k = IdOf(j, s) /\ OfRun(registry[m][k], j, s)
            /\ Kept(registry, j, s)
      BY <3>2 DEF RecordOK
    <3>4. Kept(reg, j, s)
      BY <1>10, <3>3
    <3> QED BY <3>1, <3>3, <3>4, Zenon DEF RecordOK
  <2> QED BY <2>1, <2>2
<1>13. TablesOK(reg)
  BY <1>12 DEF TablesOK
<1> QED BY <1>1, <1>5, <1>8, <1>10, <1>11, <1>13

\* An object that becomes active has the row of an active one.
LEMMA ActiveFacts ==
  ASSUME HsInv, NEW x \in Objects, hs' = [hs EXCEPT ![x].st = "active"]
  PROVE  /\ hs' \in [Objects -> HsRows]
         /\ hs'[x].st = "active" /\ hs'[x].hello = hs[x].hello
         /\ hs'[x].reply = hs[x].reply /\ hs'[x].keys = hs[x].keys
         /\ \A y \in Objects : y # x => hs'[y] = hs[y]
         /\ \A y \in Objects : \A i, r : InRun(hs'[y], i, r) <=> InRun(hs[y], i, r)
<1>1. hs \in [Objects -> HsRows]
  BY DEF HsInv, HsTypes
<1>2. PICK old \in HsRows : old = hs[x]
  BY <1>1
<1>3. PICK row : row = [old EXCEPT !.st = "active"]
  OBVIOUS
<1>4. /\ row \in HsRows /\ row.st = "active" /\ row.keys = old.keys
      /\ row.hello = old.hello /\ row.reply = old.reply
  <2>1. "active" \in HsStates
    BY DEF HsStates
  <2> QED BY <1>3, <2>1 DEF HsRows
<1>5. hs' = [hs EXCEPT ![x] = row]
  BY <1>1, <1>2, <1>3
<1>6. hs' \in [Objects -> HsRows] /\ hs'[x] = row /\ \A y \in Objects : y # x => hs'[y] = hs[y]
  BY <1>1, <1>4, <1>5
<1>7. \A y \in Objects : \A i, r : InRun(hs'[y], i, r) <=> InRun(hs[y], i, r)
  BY <1>2, <1>4, <1>6 DEF InRun
<1> QED BY <1>2, <1>4, <1>6, <1>7

LEMMA ResponderJoinsKeeps ==
  ASSUME HsInv, NEW i \in Initiators, NEW x \in Responders, ResponderJoins(i, x)
  PROVE  HsInv'
<1>1. /\ x \in Objects /\ x \notin Initiators /\ Agreed(i, x)
      /\ InRun(hs[x], i, x) /\ InRun(hs[i], i, x) /\ ClientFin(i, x) \in sent
      /\ hs[x].st = "server_hello_sent" /\ sent' = sent \cup {ServerFin(i, x)}
      /\ hs' = [hs EXCEPT ![x].st = "active"] /\ Enters(OfferOf[x].node, i, x)
  BY ObjectRoles DEF Objects, ResponderJoins
<1>2. /\ hs' \in [Objects -> HsRows]
      /\ hs'[x].st = "active" /\ hs'[x].keys = hs[x].keys
      /\ \A y \in Objects : y # x => hs'[y] = hs[y]
      /\ \A y \in Objects : \A j, s : InRun(hs'[y], j, s) <=> InRun(hs[y], j, s)
  BY <1>1, ActiveFacts
<1>3. /\ registry' \in [Nodes -> Tables] /\ now' \in Nat /\ TablesOK(registry')
      /\ Kept(registry', i, x)
      /\ \A j \in Initiators, s \in Responders :
           Agreed(j, s) /\ Kept(registry, j, s) => Kept(registry', j, s)
  BY <1>1, EntersFacts
<1>4. Stays
  BY <1>1, <1>2, <1>3 DEF Stays
<1>5. hs[x].keys = RunKeys(i, x)
  <2>1. PICK j \in Initiators : InRun(hs[x], j, x) /\ hs[x].keys = RunKeys(j, x)
    BY <1>1, RowFacts DEF ResponderRow
  <2> QED BY <1>1, <2>1, RunIsOne
<1>6. RowsOK(hs')
  <2>1. InRun(hs'[x], i, x)
    BY <1>1, <1>2
  <2>2. ResponderRow(x, hs'[x])
    BY <1>1, <1>2, <1>5, <2>1, Zenon DEF ResponderRow
  <2> QED BY <1>1, <1>2, <2>2, OneRow
<1>7. LinksOK(hs', sent')
  <2>1. ASSUME NEW j \in Initiators, NEW s \in Responders, hs'[s].st = "active",
               InRun(hs'[s], j, s)
        PROVE  \/ hs[s].st = "active" /\ InRun(hs[s], j, s)
               \/ ClientFin(j, s) \in sent /\ InRun(hs[j], j, s)
    <3>1. s \in Objects /\ InRun(hs[s], j, s)
      BY <1>2, <2>1 DEF Objects
    <3>2. CASE s = x
      <4>1. j = i
        BY <1>1, <3>1, <3>2, RunIsOne
      <4> QED BY <1>1, <3>2, <4>1
    <3>3. CASE s # x
      BY <1>2, <2>1, <3>1, <3>3
    <3> QED BY <3>2, <3>3
  <2>2. \A j \in Initiators, s \in Responders : InRun(hs'[j], j, s) => InRun(hs[j], j, s)
    BY <1>2 DEF Objects
  <2> QED BY <1>4, <2>1, <2>2, LinksStay
<1>8. SentOK(ServerFin(i, x), hs', registry')
  BY <1>1, <1>3, Zenon DEF SentOK
<1> QED BY <1>1, <1>2, <1>3, <1>4, <1>6, <1>7, <1>8, Assemble

LEMMA InitiatorJoinsKeeps ==
  ASSUME HsInv, NEW x \in Initiators, NEW r \in Responders, InitiatorJoins(x, r)
  PROVE  HsInv'
<1>1. /\ x \in Objects /\ x \notin Responders /\ Agreed(x, r)
      /\ InRun(hs[x], x, r) /\ Kept(registry, x, r)
      /\ hs[x].st = "client_finished_sent" /\ sent' = sent
      /\ hs' = [hs EXCEPT ![x].st = "active"] /\ Enters(OfferOf[x].node, x, r)
  BY ObjectRoles DEF Objects, InitiatorJoins
<1>2. /\ hs' \in [Objects -> HsRows]
      /\ hs'[x].st = "active" /\ hs'[x].keys = hs[x].keys
      /\ \A y \in Objects : y # x => hs'[y] = hs[y]
      /\ \A y \in Objects : \A j, s : InRun(hs'[y], j, s) <=> InRun(hs[y], j, s)
  BY <1>1, ActiveFacts
<1>3. /\ registry' \in [Nodes -> Tables] /\ now' \in Nat /\ TablesOK(registry')
      /\ \A j \in Initiators, s \in Responders :
           Agreed(j, s) /\ Kept(registry, j, s) => Kept(registry', j, s)
  BY <1>1, EntersFacts
<1>4. Stays
  BY <1>1, <1>2, <1>3 DEF Stays
<1>5. hs[x].keys = RunKeys(x, r)
  <2>1. PICK s \in Responders : InRun(hs[x], x, s) /\ hs[x].keys = RunKeys(x, s)
    BY <1>1, RowFacts DEF InitiatorRow
  <2> QED BY <1>1, <2>1, RunIsOne
<1>6. RowsOK(hs')
  <2>1. InRun(hs'[x], x, r)
    BY <1>1, <1>2
  <2>2. InitiatorRow(x, hs'[x])
    BY <1>1, <1>2, <1>5, <2>1, Zenon DEF InitiatorRow
  <2> QED BY <1>1, <1>2, <2>2, OneRow
<1>7. LinksOK(hs', sent')
  <2>1. \A j \in Initiators, s \in Responders : InRun(hs'[j], j, s) => InRun(hs[j], j, s)
    BY <1>2 DEF Objects
  <2>2. \A s \in Responders : hs'[s] = hs[s]
    BY <1>1, <1>2 DEF Objects
  <2> QED BY <1>4, <2>1, <2>2, LinksStay
<1> QED BY <1>1, <1>2, <1>3, <1>4, <1>6, <1>7, Assemble

LEMMA LivesKeeps ==
  ASSUME HsInv, NEW n \in Nodes, Lives(n)
  PROVE  HsInv'
<1>1. registry \in [Nodes -> Tables] /\ UNCHANGED <<hs, sent, now>>
  BY DEF HsInv, HsTypes, Lives
<1>2. PICK t \in Tables :
        /\ registry' = [registry EXCEPT ![n] = t] /\ DOMAIN t = DOMAIN registry[n]
        /\ \A id \in DOMAIN t : Ages(registry[n][id], t[id])
  BY DEF Lives
<1>3. PICK reg \in [Nodes -> Tables] : reg = registry'
  BY <1>1, <1>2
<1>4. reg[n] = t /\ \A m \in Nodes : m # n => reg[m] = registry[m]
  BY <1>1, <1>2, <1>3
<1>5. ASSUME NEW m \in Nodes, NEW id \in DOMAIN reg[m]
      PROVE  /\ id \in DOMAIN registry[m]
             /\ \A i, r : OfRun(registry[m][id], i, r) => OfRun(reg[m][id], i, r)
  <2>1. CASE m # n
    BY <1>4, <1>5, <2>1
  <2>2. CASE m = n
    <3>1. id \in DOMAIN t /\ reg[m][id] = t[id] /\ DOMAIN t = DOMAIN registry[m]
      BY <1>2, <1>4, <1>5, <2>2
    <3>2. /\ t[id].initiator = registry[n][id].initiator
          /\ t[id].responder = registry[n][id].responder
          /\ t[id].result = registry[n][id].result
      BY <1>2, <3>1 DEF Ages
    <3> QED BY <2>2, <3>1, <3>2 DEF OfRun
  <2> QED BY <2>1, <2>2
<1>6. ASSUME NEW i \in Initiators, NEW r \in Responders, Agreed(i, r), Kept(registry, i, r)
      PROVE  Kept(reg, i, r)
  <2>1. OfferOf[r].node \in Nodes
    BY <1>6, HandshakeAssumption DEF Agreed, Objects
  <2>2. DOMAIN reg[OfferOf[r].node] = DOMAIN registry[OfferOf[r].node]
    BY <1>2, <1>4, <2>1
  <2> QED BY <1>5, <1>6, <2>1, <2>2 DEF Kept
<1>7. Stays
  BY <1>1, <1>3, <1>6 DEF Stays
<1>8. ASSUME NEW m \in Nodes, NEW id \in DOMAIN reg[m] PROVE RecordOK(reg, id, reg[m][id])
  <2>1. RecordOK(registry, id, registry[m][id])
    BY <1>5, <1>8 DEF HsInv, TablesOK
  <2>2. PICK i \in Initiators, r \in Responders :
          /\ Agreed(i, r) /\ id = IdOf(i, r) /\ OfRun(registry[m][id], i, r)
          /\ Kept(registry, i, r)
    BY <2>1 DEF RecordOK
  <2>3. OfRun(reg[m][id], i, r) /\ Kept(reg, i, r)
    BY <1>5, <1>6, <1>8, <2>2
  <2> QED BY <2>2, <2>3, Zenon DEF RecordOK
<1>9. TablesOK(registry')
  BY <1>3, <1>8 DEF TablesOK
<1>10. hs' \in [Objects -> HsRows] /\ RowsOK(hs') /\ LinksOK(hs', sent') /\ now' \in Nat
  BY <1>1 DEF HsInv, HsTypes
<1> QED BY <1>1, <1>3, <1>7, <1>9, <1>10, Assemble

LEMMA HsInvNext ==
  ASSUME HsInv, [HsNext]_hsVars
  PROVE  HsInv'
<1>1. CASE UNCHANGED <<hs, sent, registry>> /\ now' \in Nat
  <2>1. Stays
    BY <1>1 DEF Stays
  <2>2. /\ hs' \in [Objects -> HsRows] /\ registry' \in [Nodes -> Tables]
        /\ RowsOK(hs') /\ LinksOK(hs', sent') /\ TablesOK(registry')
    BY <1>1 DEF HsInv, HsTypes
  <2> QED BY <1>1, <2>1, <2>2, Assemble
<1>2. now \in Nat
  BY DEF HsInv, HsTypes
<1>3. CASE UNCHANGED hsVars
  BY <1>1, <1>2, <1>3 DEF hsVars
<1>4. CASE Clock
  BY <1>1, <1>2, <1>4 DEF Clock
<1>5. ASSUME HsNext, ~Clock PROVE HsInv'
  BY <1>5, StepKinds, AbortKeeps, StartsKeeps, AnswersKeeps, ProvesKeeps, ResponderJoinsKeeps,
     InitiatorJoinsKeeps, LivesKeeps, Zenon
<1> QED BY <1>3, <1>4, <1>5

(***************************************************************************)
(* The theorems.                                                           *)
(***************************************************************************)

\* Every handshake object, every frame sent and every session record belongs to a run of one
\* initiator with one responder that negotiated it, whatever frames arrive, late, again or
\* garbled, and whatever the owners call (sl2_handshake.cpp, session.cpp).
THEOREM HandshakeRuns == HsSpec => []HsInv
<1>1. HsInit => HsInv
  BY HsInvInit
<1>2. HsInv /\ [HsNext]_hsVars => HsInv'
  BY HsInvNext
<1> QED BY <1>1, <1>2, PTL DEF HsSpec

\* The run of an object that holds secrets.
LEMMA RunOf ==
  ASSUME HsInv, NEW x \in Objects, hs[x].keys # NoKeys
  PROVE  \E i \in Initiators, r \in Responders :
           /\ Agreed(i, r) /\ InRun(hs[x], i, r) /\ hs[x].keys = RunKeys(i, r)
           /\ x \in {i, r}
<1>1. CASE x \in Initiators
  <2>1. PICK r \in Responders : Agreed(x, r) /\ InRun(hs[x], x, r) /\ hs[x].keys = RunKeys(x, r)
    BY <1>1, RowFacts DEF InitiatorRow, Blank, Greeted
  <2> QED BY <1>1, <2>1
<1>2. CASE x \in Responders
  <2>1. PICK i \in Initiators : Agreed(i, x) /\ InRun(hs[x], i, x) /\ hs[x].keys = RunKeys(i, x)
    BY <1>2, RowFacts DEF ResponderRow, Blank
  <2> QED BY <1>2, <2>1
<1> QED BY <1>1, <1>2 DEF Objects

LEMMA KeyStates ==
  ASSUME HsInv, NEW x \in Objects
  PROVE  /\ hs[x].st \in HsStates
         /\ (hs[x].keys # NoKeys) =
              (hs[x].st \in {"client_finished_sent", "server_hello_sent", "active"})
<1>1. hs[x].st \in HsStates
  BY RowFacts DEF HsRows
<1>2. \A i, r : RunKeys(i, r) # NoKeys
  BY FinFacts
<1>3. CASE x \in Initiators
  <2>1. CASE Blank(hs[x]) \/ Greeted(hs[x], x)
    <3>1. \A r : ~InRun(hs[x], x, r)
      BY <2>1, ReplyFacts DEF Blank, Greeted, InRun
    <3>2. hs[x].st \in {"uninitialized", "client_hello_sent", "failed"} /\ hs[x].keys = NoKeys
      BY <1>3, <2>1, <3>1, RowFacts DEF InitiatorRow, Blank, Greeted
    <3> QED BY <1>1, <3>2
  <2>2. ASSUME NEW r, InRun(hs[x], x, r),
               \/ hs[x].st = "failed" /\ hs[x].keys = NoKeys
               \/ hs[x].st \in {"client_finished_sent", "active"} /\ hs[x].keys = RunKeys(x, r)
        PROVE  (hs[x].keys # NoKeys) =
                 (hs[x].st \in {"client_finished_sent", "server_hello_sent", "active"})
    BY <1>2, <2>2
  <2>3. InitiatorRow(x, hs[x])
    BY <1>3, RowFacts
  <2> QED BY <1>1, <2>1, <2>2, <2>3 DEF InitiatorRow
<1>4. CASE x \in Responders
  <2>1. CASE Blank(hs[x])
    <3>1. \A i : ~InRun(hs[x], i, x)
      BY <2>1, ReplyFacts DEF Blank, InRun
    <3>2. hs[x].st \in {"uninitialized", "failed"} /\ hs[x].keys = NoKeys
      BY <1>4, <2>1, <3>1, RowFacts DEF ResponderRow, Blank
    <3> QED BY <1>1, <3>2
  <2>2. ASSUME NEW i, InRun(hs[x], i, x),
               \/ hs[x].st = "failed" /\ hs[x].keys = NoKeys
               \/ hs[x].st \in {"server_hello_sent", "active"} /\ hs[x].keys = RunKeys(i, x)
        PROVE  (hs[x].keys # NoKeys) =
                 (hs[x].st \in {"client_finished_sent", "server_hello_sent", "active"})
    BY <1>2, <2>2
  <2>3. ResponderRow(x, hs[x])
    BY <1>4, RowFacts
  <2> QED BY <1>1, <2>1, <2>2, <2>3 DEF ResponderRow
<1> QED BY <1>1, <1>3, <1>4 DEF Objects

LEMMA HsTyped ==
  ASSUME HsInv
  PROVE  HsTypeOK
<1>1. ASSUME NEW n \in Nodes, NEW id \in DOMAIN registry[n]
      PROVE  /\ registry[n][id].st \in {"active", "expired", "revoked", "closed"}
             /\ registry[n][id].epoch \in 1..MaxEpoch /\ registry[n][id].expires <= Expiry
  <2>1. registry[n][id] \in Records
    BY <1>1 DEF HsInv, HsTypes, Tables
  <2> QED BY <2>1, HandshakeAssumption DEF Records, LifeStates, Epochs, Ends
<1> QED BY <1>1, KeyStates DEF HsTypeOK, HsStates

\* A responder in the run of an initiator is the one that answered it.
LEMMA OneResponder ==
  ASSUME HsInv, NEW i \in Initiators, hs[i].st = "active"
  PROVE  Cardinality({r \in Responders : SameRun(i, r)}) = 1
<1>1. i \in Objects
  BY DEF Objects
<1>2. hs[i].keys # NoKeys /\ i \notin Responders
  BY <1>1, KeyStates, ObjectRoles
<1>3. PICK r \in Responders : Agreed(i, r) /\ InRun(hs[i], i, r)
  BY <1>1, <1>2, RunOf
<1>4. InRun(hs[r], i, r)
  BY <1>3 DEF HsInv, LinksOK
<1>5. SameRun(i, r)
  BY <1>3, <1>4 DEF SameRun, InRun
<1>6. ASSUME NEW s \in Responders, SameRun(i, s) PROVE s = r
  <2>1. InRun(hs[s], i, r)
    BY <1>3, <1>6 DEF SameRun, InRun
  <2>2. ResponderRow(s, hs[s])
    BY RowFacts DEF Objects
  <2>3. ~Blank(hs[s])
    BY <2>1, ReplyFacts DEF Blank, InRun
  <2>4. PICK j \in Initiators : InRun(hs[s], j, s)
    BY <2>2, <2>3 DEF ResponderRow
  <2> QED BY <2>1, <2>4, RunIsOne
<1>7. {s \in Responders : SameRun(i, s)} = {r}
  BY <1>5, <1>6
<1> QED BY <1>7, FS_Singleton

LEMMA ResponderIsConfirmed ==
  ASSUME HsInv, NEW r \in Responders, hs[r].st = "active"
  PROVE  \E i \in Initiators : SameRun(i, r) /\
           Finished("client_finished", hs[r].keys, hs[r].hello, hs[r].reply) \in sent
<1>1. r \in Objects /\ r \notin Initiators
  BY ObjectRoles DEF Objects
<1>2. hs[r].keys # NoKeys
  BY <1>1, KeyStates
<1>3. PICK i \in Initiators : InRun(hs[r], i, r) /\ hs[r].keys = RunKeys(i, r)
  BY <1>1, <1>2, RunOf
<1>4. ClientFin(i, r) \in sent /\ InRun(hs[i], i, r)
  BY <1>3 DEF HsInv, LinksOK
<1>5. SameRun(i, r)
  BY <1>3, <1>4 DEF SameRun, InRun
<1>6. Finished("client_finished", hs[r].keys, hs[r].hello, hs[r].reply) = ClientFin(i, r)
  BY <1>3 DEF ClientFin, InRun
<1> QED BY <1>4, <1>5, <1>6

LEMMA KeysAreOfRuns ==
  ASSUME HsInv, NEW x \in Objects, NEW y \in Objects, hs[x].keys # NoKeys, hs[y].keys # NoKeys
  PROVE  (hs[x].keys = hs[y].keys) = SameRun(x, y)
<1>1. PICK i \in Initiators, r \in Responders : InRun(hs[x], i, r) /\ hs[x].keys = RunKeys(i, r)
  BY RunOf
<1>2. PICK j \in Initiators, s \in Responders : InRun(hs[y], j, s) /\ hs[y].keys = RunKeys(j, s)
  BY RunOf
<1>3. hs[x].keys = hs[y].keys => i = j /\ r = s
  <2>1. hs[x].keys = hs[y].keys => RunKeys(i, r) = RunKeys(j, s)
    BY <1>1, <1>2
  <2> QED BY <2>1, FinFacts
<1>4. SameRun(x, y) => i = j /\ r = s
  <2>1. SameRun(x, y) => Reply(i, r) = Reply(j, s)
    BY <1>1, <1>2 DEF SameRun, InRun
  <2> QED BY <2>1, ReplyFacts
<1>5. i = j /\ r = s => SameRun(x, y) /\ hs[x].keys = hs[y].keys
  BY <1>1, <1>2 DEF SameRun, InRun
<1> QED BY <1>3, <1>4, <1>5 DEF SameRun

\* The run of a session record, as the invariant has it.
LEMMA RunOfRecord ==
  ASSUME HsInv, NEW n \in Nodes, NEW id \in DOMAIN registry[n]
  PROVE  \E i \in Initiators, r \in Responders :
           /\ Agreed(i, r) /\ id = IdOf(i, r) /\ OfRun(registry[n][id], i, r)
           /\ Kept(registry, i, r)
BY DEF HsInv, TablesOK, RecordOK

LEMMA RunsAgree ==
  ASSUME HsInv
  PROVE  Agreement
<1>1. ASSUME NEW n \in Nodes, NEW id \in DOMAIN registry[n]
      PROVE  LET rec == registry[n][id] peer == registry[rec.responder.node] IN
             rec.initiator.node = n =>
               /\ id \in DOMAIN peer
               /\ <<peer[id].initiator, peer[id].responder, peer[id].result>>
                    = <<rec.initiator, rec.responder, rec.result>>
  <2>1. PICK i \in Initiators, r \in Responders :
          /\ Agreed(i, r) /\ id = IdOf(i, r) /\ OfRun(registry[n][id], i, r)
          /\ Kept(registry, i, r)
    BY <1>1, RunOfRecord
  <2> QED BY <2>1 DEF OfRun, Kept
<1>2. \A x, y \in Objects :
        hs[x].keys # NoKeys /\ hs[y].keys # NoKeys /\ {hs[x].st, hs[y].st} = {"active"} =>
          (hs[x].keys = hs[y].keys) = SameRun(x, y)
  BY KeysAreOfRuns
<1> QED BY <1>1, <1>2, OneResponder, ResponderIsConfirmed DEF Agreement

LEMMA NobodyDowngrades ==
  ASSUME HsInv
  PROVE  NoDowngrade
<1> SUFFICES ASSUME NEW n \in Nodes, NEW id \in DOMAIN registry[n]
             PROVE  LET rec == registry[n][id] IN
                    \E i \in Initiators, r \in Responders :
                      /\ rec.initiator = OfferOf[i] /\ rec.responder = OfferOf[r]
                      /\ rec.result.level = Minimum(OfferOf[i].max, OfferOf[r].max)
                      /\ rec.result.level >= Maximum(OfferOf[i].min, OfferOf[r].min)
                      /\ rec.result.required >= PolicyOf[r].required
                      /\ rec.result.suite \in OfferOf[i].suites \cap OfferOf[r].suites
  BY DEF NoDowngrade
<1>1. PICK i \in Initiators, r \in Responders : Agreed(i, r) /\ OfRun(registry[n][id], i, r)
  BY RunOfRecord
<1>2. registry[n][id].result = Neg(i, r)
  BY <1>1 DEF OfRun
<1> QED BY <1>1, <1>2, NegFacts DEF OfRun

\* Two nodes that hold a session hold the same one, with the keys of one run and at the level
\* and suite their owners' offers and the responder's policy allow, for any objects, offers,
\* policies and garbled frames (sl2_handshake.cpp, negotiate, session_registry::establish).
THEOREM SessionsSound == HsSpec => []SessionsAreSound
<1>1. HsInv => SessionsAreSound
  BY HsTyped, RunsAgree, NobodyDowngrades DEF SessionsAreSound
<1> QED BY <1>1, HandshakeRuns, PTL

\* Registries in one step: ids stay, and their records age.
LEMMA RecordsAge ==
  ASSUME HsInv, [HsNext]_hsVars, NEW n \in Nodes, NEW id \in DOMAIN registry[n]
  PROVE  id \in DOMAIN registry'[n] /\ Ages(registry[n][id], registry'[n][id])
<1>1. registry \in [Nodes -> Tables] /\ registry[n][id] \in Records
  <2>1. registry \in [Nodes -> Tables]
    BY DEF HsInv, HsTypes
  <2>2. PICK D \in SUBSET Ids : registry[n] \in [D -> Records]
    BY <2>1 DEF Tables
  <2> QED BY <2>1, <2>2
<1>2. Ages(registry[n][id], registry[n][id])
  BY <1>1, RecordFacts
<1>3. CASE UNCHANGED registry
  BY <1>2, <1>3
<1>4. ASSUME NEW i \in Initiators, NEW r \in Responders, NEW m \in Nodes, Enters(m, i, r)
      PROVE  id \in DOMAIN registry'[n] /\ Ages(registry[n][id], registry'[n][id])
  <2>1. PICK rec, k : rec = Record(ClientHello(i), Reply(i, r)) /\ k = IdOf(i, r)
    OBVIOUS
  <2>2. PICK t : t = [j \in DOMAIN registry[m] \cup {k} |-> IF j = k THEN rec ELSE registry[m][j]]
    OBVIOUS
  <2>3. k \notin DOMAIN registry[m] /\ registry' = [registry EXCEPT ![m] = t]
    BY <1>4, <2>1, <2>2 DEF Enters, Recorded
  <2>4. CASE m = n
    <3>1. registry'[n] = t /\ id # k
      BY <1>1, <2>3, <2>4
    <3>2. id \in DOMAIN t /\ t[id] = registry[n][id]
      BY <2>2, <2>4, <3>1
    <3> QED BY <1>2, <3>1, <3>2
  <2>5. CASE m # n
    BY <1>1, <1>2, <2>3, <2>5
  <2> QED BY <2>4, <2>5
<1>5. ASSUME NEW m \in Nodes, Lives(m)
      PROVE  id \in DOMAIN registry'[n] /\ Ages(registry[n][id], registry'[n][id])
  <2>1. PICK t \in Tables :
          /\ registry' = [registry EXCEPT ![m] = t] /\ DOMAIN t = DOMAIN registry[m]
          /\ \A k \in DOMAIN t : Ages(registry[m][k], t[k])
    BY <1>5 DEF Lives
  <2>2. CASE m = n
    BY <1>1, <2>1, <2>2
  <2>3. CASE m # n
    BY <1>1, <1>2, <2>1, <2>3
  <2> QED BY <2>2, <2>3
<1>6. ASSUME HsNext, ~UNCHANGED registry
      PROVE  \/ \E i \in Initiators, r \in Responders, m \in Nodes : Enters(m, i, r)
             \/ \E m \in Nodes : Lives(m)
  <2>1. ASSUME NEW i \in Initiators, NEW r \in Responders,
               ResponderJoins(i, r) \/ InitiatorJoins(i, r)
        PROVE  \E m \in Nodes : Enters(m, i, r)
    <3>1. OfferOf[i].node \in Nodes /\ OfferOf[r].node \in Nodes
      BY <2>1, HandshakeAssumption DEF ResponderJoins, InitiatorJoins, Agreed, Objects
    <3> QED BY <2>1, <3>1 DEF ResponderJoins, InitiatorJoins
  <2>2. \A x : Abort(x) \/ Starts(x) \/ Clock => UNCHANGED registry
    BY DEF Abort, Starts, Clock
  <2>3. \A i, r : Answers(i, r) \/ Proves(i, r) => UNCHANGED registry
    BY DEF Answers, Proves
  <2> QED BY <1>6, <2>1, <2>2, <2>3, StepKinds, Zenon
<1>7. CASE UNCHANGED hsVars
  BY <1>3, <1>7 DEF hsVars
<1> QED BY <1>3, <1>4, <1>5, <1>6, <1>7, Zenon

\* A session never comes back, whatever expire, rotate, revoke and close do and whichever
\* handshakes end meanwhile (session_registry).
THEOREM SessionsEnd == HsSpec => SessionsOnlyEnd
<1>1. ASSUME HsInv, [HsNext]_hsVars
      PROVE  \A n \in Nodes : \A id \in DOMAIN registry[n] :
               /\ id \in DOMAIN registry'[n]
               /\ LET old == registry[n][id] new == registry'[n][id] IN
                  /\ new # old => LifeOrder[old.st] < LifeOrder[new.st] \/ new.epoch > old.epoch
                  /\ new.epoch >= old.epoch /\ (new.epoch > old.epoch => old.st = "active")
                  /\ <<new.initiator, new.responder, new.result>>
                       = <<old.initiator, old.responder, old.result>>
  BY <1>1, RecordsAge DEF Ages
<1> QED BY <1>1, HandshakeRuns, PTL DEF SessionsOnlyEnd, HsSpec

-----------------------------------------------------------------------------
(* SecureTrunk: both ends of a trunk across a bind *)

\* The leases of a behaviour, each with its own SL1 settings or with those of another time;
\* what a frame or a connection can be bound to.
Leases ==
  {leases[i] : i \in DOMAIN leases} \cup
  {[id |-> leases[i].id, epoch |-> leases[i].epoch, token |-> leases[i].token, sl1 |-> s] :
     i \in DOMAIN leases, s \in BOOLEAN}
Binds == Leases \cup {NoBind}

\* Frames and the state of an end of the connection (transport.cpp).
FrameKinds == {"bind", "request", "event", "failed"}

TrunkFrames ==
  [kind : FrameKinds, bind : Binds,
   under : Binds, seq : 0..(LastSeq - 1)]

EndStates == [active : BOOLEAN, bind : Binds, next : 1..LastSeq, confirmed : BOOLEAN]

\* Every variable has its type; an end signs exactly when it has a bind.
TrunkTyped ==
  /\ leases \in LeaseRows
  /\ held \in 1..Len(leases)
  /\ caller \in [pc : {"idle", "keyed", "awaiting"},
                 told : {"nothing", "sent", "refused", "bound"}]
  /\ near \in EndStates /\ far \in EndStates
  /\ up \in Seq(TrunkFrames) /\ down \in Seq(TrunkFrames)
  /\ reader \in {"loop", "bound", "keyed", "ended"}
  /\ sAuth \in [active : BOOLEAN, out : 1..2, in : 1..LastSeq]
  /\ tried \subseteq Leases /\ overlapped \in BOOLEAN /\ hears \in Nat
  /\ \A end \in {near, far} : end.active <=> end.bind # NoBind

\* The runtime has not processed b, and nothing signed under b is on its way back.
Fresh(b) ==
  /\ b \notin sBound /\ far.bind # b
  /\ \A j \in DOMAIN down : down[j].under # b

\* A lease is bound at most once: its SESSION_BIND on the way up is the only one,
\* and until it is processed the runtime knows nothing of it.
BindsOnce ==
  /\ \A i, j \in DOMAIN up :
       up[i].kind = "bind" /\ up[j].kind = "bind" /\ up[i].bind = up[j].bind => i = j
  /\ \A i \in DOMAIN up :
       up[i].kind = "bind" =>
         /\ up[i].bind \in tried /\ Fresh(up[i].bind)
         /\ caller.pc = "keyed" => up[i].bind # near.bind
  /\ \A b \in Leases : b \notin tried => Fresh(b) /\ near.bind # b

\* The session has one bind or none, and expects signed frames exactly under a lease
\* with SL1; between process_session_bind and set_sl1_auth it is ahead of its connection.
BindingSound ==
  /\ sBinding = "unbound" <=> sBound = {}
  /\ sBound # {} => \E b \in Leases : sBound = {b} /\ (sAuth.active <=> b.sl1)
  /\ sBound = {} => ~sAuth.active
  /\ sAuth.active => far.confirmed
  /\ reader = "bound" => \E b \in Leases : sBound = {b} /\ b.sl1 /\ far.bind # b
                           /\ \A j \in DOMAIN down : down[j].under # b
  /\ reader = "keyed" => sBound = {far.bind}

\* Where bind() stands and what the client's connection signs with; only between its two
\* steps is the number 1 still to be used, unless another thread has used it (overlapped).
CallSound ==
  /\ caller.pc = "keyed" => near.bind \in Leases /\ near.bind.sl1 /\ Fresh(near.bind)
                            /\ (~overlapped => near.next = 1)
  /\ caller.pc = "awaiting" => near.bind \in Leases
  /\ caller.told = "bound" => caller.pc = "idle"
  /\ Open /\ near.active /\ near.next = 1 => caller.pc = "keyed"

\* A frame numbered seq under this bind may follow f.
Precedes(f, under, seq) == f.seq = 0 \/ (f.under = under /\ f.seq + 1 = seq)

\* On the way up: each signed request follows the frame before it, what is sent next
\* follows the last, the first is what the session expects, and a bind has number 1.
InOrder ==
  /\ \A i \in DOMAIN up :
       i > 1 /\ up[i].kind = "request" /\ up[i].seq # 0 =>
         Precedes(up[i - 1], up[i].under, up[i].seq)
  /\ near.active /\ near.next # 1 =>
       IF up = <<>> THEN sAuth.active => near.next = sAuth.in /\ near.bind \in sBound
                    ELSE Precedes(up[Len(up)], near.bind, near.next)
  /\ up # <<>> /\ sAuth.active /\ up[1].kind = "request" /\ up[1].seq # 0 =>
       up[1].seq = sAuth.in /\ up[1].under \in sBound
  /\ \A i \in DOMAIN up :
       up[i].kind = "bind" /\ up[i].bind.sl1 => up[i].seq = 1 /\ up[i].under = up[i].bind

\* The runtime closes for a number or a MAC only after an overlap.
HonestSound == closed = "auth" => overlapped
InOrderSound == ~overlapped /\ Open => InOrder

\* The bind frame of b and nothing but the requests sent after it, the last numbered n - 1.
PendingIn(q, n, b) ==
  \E j \in DOMAIN q :
    /\ q[j].kind = "bind" /\ q[j].bind = b /\ b.sl1
    /\ \A i \in DOMAIN q :
         i >= j => q[i].under = b /\ q[i].seq = n - Len(q) - 1 + i
                   /\ (i > j => q[i].kind = "request")

\* Requests under b, numbered in, in + 1, ..., n - 1.
ServedIn(q, n, in, b) ==
  /\ n = in + Len(q)
  /\ \A i \in DOMAIN q :
       q[i].kind = "request" /\ q[i].under = b /\ q[i].seq = in + i - 1

\* Frames under other binds, then frames under b numbered 1, 2, ...
RestartsIn(q, bind, next, b) ==
  \E k \in 0..Len(q) :
    /\ \A i \in DOMAIN q :
         IF i <= k THEN q[i].under # b ELSE q[i].under = b /\ q[i].seq = i - k
    /\ IF bind = b THEN next = Len(q) - k + 1 ELSE k = Len(q)

\* Frames under b, numbered n, n + 1, ..., next - 1.
GoesOnIn(q, next, n, b) ==
  /\ next = n + Len(q)
  /\ \A i \in DOMAIN q : q[i].under = b /\ q[i].seq = n + i - 1

\* While bind() waits: its frame is on its way, or the runtime serves it, or never will;
\* what comes down restarts at 1 under it.  After it has returned true: both directions
\* are unbroken chains under its bind.
AgreeSound ==
  /\ caller.pc = "awaiting" =>
       /\ \/ PendingIn(up, near.next, near.bind)
          \/ /\ sBound = {near.bind} /\ sAuth.active
             /\ ServedIn(up, near.next, sAuth.in, near.bind)
          \/ ~Open /\ Fresh(near.bind)
       /\ RestartsIn(down, far.bind, far.next, near.bind)
  /\ caller.told = "bound" =>
       /\ near.active /\ sBound = {near.bind} /\ sAuth.active
       /\ ServedIn(up, near.next, sAuth.in, near.bind)
       /\ far.bind = near.bind /\ GoesOnIn(down, far.next, hears, near.bind)

\* The inductive invariant, as long as no lease is bound twice.
TrunkInv ==
  /\ TrunkTyped /\ BindsOnce /\ BindingSound /\ CallSound
  /\ HonestSound /\ InOrderSound /\ AgreeSound

\* r is q with f at its end; r is q without its head.
Grows(q, r, f) ==
  Len(r) = Len(q) + 1 /\ r[Len(q) + 1] = f /\ \A i \in 1..Len(q) : r[i] = q[i]

Drops(q, r) ==
  q # <<>> /\ Len(q) = Len(r) + 1 /\ \A i \in 1..Len(r) : r[i] = q[i + 1]

\* Append and Tail in these terms.
LEMMA AppendGrows ==
  ASSUME NEW S, NEW q \in Seq(S), NEW f \in S, NEW r, r = Append(q, f)
  PROVE  r \in Seq(S) /\ Grows(q, r, f)
BY DEF Grows

LEMMA TailDrops ==
  ASSUME NEW S, NEW q \in Seq(S), q # <<>>, NEW r, r = Tail(q)
  PROVE  r \in Seq(S) /\ Drops(q, r) /\ Head(q) = q[1] /\ 1 \in DOMAIN q /\ q[1] \in S
BY DEF Drops

\* What Frame and Numbered make (send_*).
LEMMA FramesTyped ==
  ASSUME NEW end \in EndStates, CanSign(end), end.active <=> end.bind # NoBind,
         NEW kind \in FrameKinds, NEW b \in Binds
  PROVE  /\ Frame(kind, b, end) \in TrunkFrames
         /\ Frame(kind, b, end).under = end.bind
         /\ Frame(kind, b, end).kind = kind /\ Frame(kind, b, end).bind = b
         /\ Frame(kind, b, end).seq = IF end.active THEN end.next ELSE 0
         /\ Numbered(end) \in EndStates
         /\ Numbered(end).active = end.active /\ Numbered(end).bind = end.bind
         /\ Numbered(end).confirmed = end.confirmed
         /\ end.active => Numbered(end).next = end.next + 1
BY TrunkAssumption DEF Frame, CanSign, Numbered, EndStates, TrunkFrames

\* What WithAuth makes (set_sl1_auth) ...
LEMMA EndsTyped ==
  ASSUME NEW end \in EndStates, NEW b \in Leases, NEW e, e = WithAuth(end, b)
  PROVE  /\ e \in EndStates /\ e.active /\ e.bind = b /\ e.next = 1
         /\ e.confirmed = end.confirmed
<1>1. e = [end EXCEPT !.active = TRUE, !.bind = b, !.next = 1]
  BY DEF WithAuth
<1>2. 1 \in 1..LastSeq
  BY TrunkAssumption
<1>3. b \in Binds
  BY DEF Binds
<1> QED BY <1>1, <1>2, <1>3 DEF EndStates

\* ... what Heard makes (receive_envelope_raw) ...
LEMMA HeardTyped ==
  ASSUME NEW end \in EndStates, NEW f \in TrunkFrames, NEW e, e = Heard(end, f)
  PROVE  /\ e \in EndStates /\ e.active = end.active /\ e.bind = end.bind /\ e.next = end.next
         /\ e.confirmed <=> end.confirmed \/ (f.kind = "bind" /\ f.seq # 0)
<1>1. e = [end EXCEPT !.confirmed = end.confirmed \/ (f.kind = "bind" /\ f.seq # 0)]
  BY DEF Heard
<1>2. end.confirmed \/ (f.kind = "bind" /\ f.seq # 0) \in BOOLEAN
  BY DEF EndStates, TrunkFrames
<1> QED BY <1>1, <1>2 DEF EndStates

\* ... and a confirmed end.
LEMMA ConfirmedTyped ==
  ASSUME NEW end \in EndStates, NEW e, e = [end EXCEPT !.confirmed = TRUE]
  PROVE  /\ e \in EndStates /\ e.active = end.active /\ e.bind = end.bind /\ e.next = end.next
         /\ e.confirmed
BY DEF EndStates

\* The lease at hand is one of the leases, so is what bind() reads, and none is NoBind.
LEMMA LeaseTyped ==
  ASSUME TrunkTyped
  PROVE  /\ Lease \in Leases
         /\ ReadBinds \subseteq Leases
         /\ \A b \in Leases : b # NoBind /\ b.sl1 \in BOOLEAN
         /\ Len(leases) \in Nat
<1>1. Len(leases) \in Nat /\ DOMAIN leases = 1..Len(leases)
  BY TrunkAssumption DEF TrunkTyped
<1>2. \A i \in DOMAIN leases : leases[i].id # NoBind.id /\ leases[i].sl1 \in BOOLEAN
  BY TrunkAssumption DEF TrunkTyped
<1>3. held \in DOMAIN leases /\ 1..held \subseteq DOMAIN leases
  BY <1>1 DEF TrunkTyped
<1>4. \A b \in Leases : b # NoBind /\ b.sl1 \in BOOLEAN
  <2>1. ASSUME NEW b \in Leases PROVE b.id # NoBind.id /\ b.sl1 \in BOOLEAN
    BY <1>2 DEF Leases
  <2> QED BY <2>1
<1>5. Lease.sl1 \in BOOLEAN
  BY <1>2, <1>3 DEF Lease
<1> QED BY <1>1, <1>3, <1>4, <1>5 DEF Lease, Leases, ReadBinds

\* bind() under a lease that wants SL1 re-keys the connection, ...
LEMMA BindKeys ==
  ASSUME TrunkTyped, BindSetsAuth
  PROVE  \E b \in Leases :
           /\ b.sl1 /\ near' = WithAuth(near, b) /\ tried' = tried \cup {b}
           /\ ~Repeats => b \notin tried
           /\ caller.pc = "idle" /\ caller' = [pc |-> "keyed", told |-> "nothing"]
           /\ UNCHANGED <<leases, held, far, up, down, reader, sAuth, sBound, overlapped, hears>>
BY LeaseTyped DEF BindSetsAuth, MayBind, Calls, sessionVars

\* ... and without SL1 puts the unsigned bind on its way.
LEMMA BindsPlainly ==
  ASSUME TrunkTyped, BindWithoutSl1
  PROVE  \E f \in TrunkFrames :
           /\ f.kind = "bind" /\ f.bind \in Leases /\ ~f.bind.sl1
           /\ f.under = NoBind /\ f.seq = 0
           /\ up' = Append(up, f) /\ tried' = tried \cup {f.bind}
           /\ ~Repeats => f.bind \notin tried
           /\ caller.pc = "idle" /\ caller' = [pc |-> "idle", told |-> "sent"] /\ Open
           /\ UNCHANGED <<leases, held, near, far, down, reader, sAuth, sBound, overlapped, hears>>
<1>1. PICK b \in Leases :
        /\ ~b.sl1 /\ MayBind(b) /\ tried' = tried \cup {b} /\ Calls("idle", "sent")
        /\ up' = Append(up, [kind |-> "bind", bind |-> b, under |-> NoBind, seq |-> 0])
        /\ UNCHANGED <<leases, held, near, far, down, reader, sAuth, sBound, overlapped, hears>>
  BY LeaseTyped DEF BindWithoutSl1, sessionVars
<1>2. PICK f : f = [kind |-> "bind", bind |-> b, under |-> NoBind, seq |-> 0]
  OBVIOUS
<1>3. f \in TrunkFrames
  BY <1>2, TrunkAssumption DEF TrunkFrames, FrameKinds, Binds
<1> QED BY <1>1, <1>2, <1>3 DEF MayBind, Calls

\* send_*: a frame appended and the numbering advanced.
Sends(q, r, e, d, kind, b) ==
  CanSign(e) /\ r = Append(q, Frame(kind, b, e)) /\ d = Numbered(e)

\* A frame sent is typed, numbered and signed with what the sender has at the time.
LEMMA SentTyped ==
  ASSUME NEW end \in EndStates, CanSign(end), end.active <=> end.bind # NoBind,
         NEW kind \in FrameKinds, NEW b \in Binds,
         NEW q \in Seq(TrunkFrames), NEW r, NEW e, Sends(q, r, end, e, kind, b)
  PROVE  /\ r \in Seq(TrunkFrames)
         /\ e \in EndStates /\ e.active = end.active /\ e.bind = end.bind
         /\ e.confirmed = end.confirmed
         /\ end.active => e.next = end.next + 1
         /\ \E f \in TrunkFrames : /\ Grows(q, r, f)
                                   /\ f.kind = kind /\ f.bind = b /\ f.under = end.bind
                                   /\ f.seq = IF end.active THEN end.next ELSE 0
<1>1. PICK f : f = Frame(kind, b, end)
  OBVIOUS
<1>2. f \in TrunkFrames /\ f.kind = kind /\ f.bind = b /\ f.under = end.bind
      /\ f.seq = IF end.active THEN end.next ELSE 0
  BY <1>1, FramesTyped
<1>3. r = Append(q, f) /\ e = Numbered(end)
  BY <1>1 DEF Sends
<1>4. r \in Seq(TrunkFrames) /\ Grows(q, r, f)
  BY <1>2, <1>3, AppendGrows
<1>5. e \in EndStates /\ e.active = end.active /\ e.bind = end.bind
      /\ e.confirmed = end.confirmed /\ (end.active => e.next = end.next + 1)
  BY <1>3, FramesTyped
<1> QED BY <1>2, <1>4, <1>5

\* The leases of a behaviour are fixed, and the sets built from them with them.
LEMMA LeasesStay ==
  ASSUME SecureNext \/ UNCHANGED secureVars
  PROVE  leases' = leases /\ Leases' = Leases /\ TrunkFrames' = TrunkFrames
         /\ EndStates' = EndStates
<1>1. leases' = leases
  <2> USE DEF secureVars
  <2> QED BY DEF SecureNext, Renew, BindWithoutSl1, BindSetsAuth, BindSends, BindReturns,
          ClientHears, ClientSendsRequest, ReceiveUnsigned, ReceiveBind, ServerSetsAuth,
          ServerConfirms, ReceiveRequest, WorkerSends
<1> QED BY <1>1 DEF Leases, Binds, TrunkFrames, EndStates

\* A frame is taken from the head of its queue.
LEMMA TakenTyped ==
  ASSUME NEW q \in Seq(TrunkFrames), q # <<>>, NEW r, r = Tail(q)
  PROVE  /\ r \in Seq(TrunkFrames) /\ Drops(q, r)
         /\ Head(q) = q[1] /\ q[1] \in TrunkFrames /\ 1 \in DOMAIN q
BY TailDrops

\* An end, typed as in TrunkTyped.
EndTyped(end) == end \in EndStates /\ (end.active <=> end.bind # NoBind)

\* What Close does.
LEMMA CloseMoves ==
  ASSUME TrunkTyped, NEW why, Close(why)
  PROVE  /\ closed' = why /\ reader' = "ended"
         /\ \/ down' = down /\ far' = far
            \/ Sends(down, down', far, far', "failed", NoBind)
         /\ down' \in Seq(TrunkFrames) /\ EndTyped(far')
         /\ far'.confirmed = far.confirmed /\ far'.bind = far.bind
<1>1. (down' = down /\ far' = far) \/ Sends(down, down', far, far', "failed", NoBind)
  BY DEF Close, Sends
<1>2. CASE down' = down /\ far' = far
  BY <1>2 DEF Close, TrunkTyped, EndTyped
<1>3. CASE Sends(down, down', far, far', "failed", NoBind)
  <2>1. CanSign(far) /\ far \in EndStates /\ down \in Seq(TrunkFrames) /\ (far.active <=> far.bind # NoBind)
    BY <1>3 DEF Sends, TrunkTyped
  <2>2. NoBind \in Binds /\ "failed" \in FrameKinds
    BY DEF FrameKinds, Binds
  <2>3. /\ down' \in Seq(TrunkFrames)
        /\ far' \in EndStates /\ far'.active = far.active /\ far'.bind = far.bind
        /\ far'.confirmed = far.confirmed
    BY <1>3, <2>1, <2>2, SentTyped
  <2> QED BY <1>1, <2>1, <2>3 DEF EndTyped, Close
<1> QED BY <1>1, <1>2, <1>3

\* The numbers and ends TrunkTyped speaks of, one by one.
LEMMA NumbersTyped ==
  ASSUME TrunkTyped
  PROVE  /\ LastSeq \in Nat /\ near \in EndStates /\ far \in EndStates /\ hears \in Nat
         /\ near.next \in Nat /\ near.next <= LastSeq /\ near.bind \in Binds
         /\ far.next \in Nat /\ sAuth.in \in Nat /\ sAuth.in # 0
         /\ (near.active <=> near.bind # NoBind) /\ (far.active <=> far.bind # NoBind)
<1>1. LastSeq \in Nat
  BY TrunkAssumption
<1>2. near \in EndStates /\ far \in EndStates /\ hears \in Nat
      /\ (near.active <=> near.bind # NoBind) /\ (far.active <=> far.bind # NoBind)
  BY DEF TrunkTyped
<1>3. near.next \in 1..LastSeq /\ far.next \in 1..LastSeq /\ near.bind \in Binds
  BY <1>2 DEF EndStates
<1>4. sAuth.in \in 1..LastSeq
  BY DEF TrunkTyped
<1> QED BY <1>1, <1>2, <1>3, <1>4

\* The bind the session has, once it has one.
LEMMA BoundTyped ==
  ASSUME TrunkTyped, NEW b \in Leases, sBound = {b}
  PROVE  TheBind = b
BY DEF TheBind

\* The session after a bind it accepts, and after a frame it verifies.
LEMMA BindMoves ==
  ASSUME TrunkTyped, NEW b \in Leases, Table!ProcessSessionBind(b)
  PROVE  /\ sBound' = {b} /\ sBinding' = "bound_current"
         /\ sAuth' \in [active : BOOLEAN, out : 1..2, in : 1..LastSeq]
         /\ sAuth'.active <=> b.sl1
         /\ b.sl1 => sAuth'.in = 2
<1>1. sBound' = {b} /\ sBinding' = "bound_current" /\ sAuth' = Table!AuthAfterBind(b)
  BY DEF Table!ProcessSessionBind
<1>2. b.sl1 \in BOOLEAN
  BY LeaseTyped
<1>3. 2 \in 1..LastSeq
  BY TrunkAssumption
<1>4. CASE b.sl1
  <2>1. sAuth' = [active |-> TRUE, out |-> 1, in |-> 2]
    BY <1>1, <1>4 DEF Table!AuthAfterBind
  <2> QED BY <1>1, <1>3, <1>4, <2>1
<1>5. CASE ~b.sl1
  <2>1. sAuth' = [sAuth EXCEPT !.active = FALSE]
    BY <1>1, <1>5 DEF Table!AuthAfterBind
  <2> QED BY <1>1, <1>5, <2>1 DEF TrunkTyped
<1> QED BY <1>2, <1>4, <1>5

\* ... and after a frame it verifies (verify_inbound_frame).
LEMMA CountMoves ==
  ASSUME TrunkTyped, sAuth' = CountsFrame
  PROVE  /\ sAuth' \in [active : BOOLEAN, out : 1..2, in : 1..LastSeq]
         /\ sAuth'.active = sAuth.active
         /\ sAuth.active => sAuth'.in = IF sAuth.in < LastSeq THEN sAuth.in + 1 ELSE sAuth.in
<1>1. sAuth \in [active : BOOLEAN, out : 1..2, in : 1..LastSeq] /\ LastSeq \in Nat
  BY TrunkAssumption DEF TrunkTyped
<1> QED BY <1>1 DEF CountsFrame

\* ReceiveBind: the frame is accepted, or the connection closes.
Accepts(f) == BindVerifies(f) /\ f.bind = Lease /\ Table!AcceptsBind(f.bind)

\* ReceiveBind, accepted or closed with a reason.
LEMMA ReceivesBind ==
  ASSUME TrunkInv, ReceiveBind, NEW f, f = up[1]
  PROVE  /\ reader = "loop" /\ Open /\ up # <<>> /\ f.kind = "bind"
         /\ f \in TrunkFrames /\ 1 \in DOMAIN up /\ f.bind \in Leases
         /\ ~Refuses(far, f)
         /\ up' \in Seq(TrunkFrames) /\ Drops(up, up')
         /\ UNCHANGED <<leases, held, caller, near, tally, historyVars>>
         /\ \/ /\ Accepts(f) /\ Table!ProcessSessionBind(f.bind)
               /\ far' = Heard(far, f)
               /\ reader' = IF f.bind.sl1 THEN "bound" ELSE "loop"
               /\ UNCHANGED <<down, closed>>
            \/ /\ ~Accepts(f) /\ Close(IF BindVerifies(f) THEN "lease" ELSE "auth")
               /\ UNCHANGED sessionVars
<1>1. up \in Seq(TrunkFrames) /\ up # <<>> /\ up' = Tail(up)
  BY DEF TrunkInv, TrunkTyped, ReceiveBind, Takes
<1>2. up' \in Seq(TrunkFrames) /\ Drops(up, up') /\ Head(up) = f /\ f \in TrunkFrames
      /\ 1 \in DOMAIN up
  BY <1>1, TakenTyped
<1>3. reader = "loop" /\ Open /\ f.kind = "bind" /\ ~Refuses(far, f)
      /\ UNCHANGED <<leases, held, caller, near, tally, historyVars>>
  BY <1>2 DEF ReceiveBind, Takes
<1>4. f.bind \in Leases /\ f.bind \notin sBound
  BY <1>2, <1>3 DEF TrunkInv, TrunkTyped, BindsOnce, Fresh
<1>5. ~Table!IsCurrentBind(f.bind)
  BY <1>4 DEF Table!IsCurrentBind
<1>6. CASE Accepts(f)
  <2>1. /\ \/ Table!ProcessSessionBind(f.bind)
           \/ Table!IsCurrentBind(f.bind) /\ UNCHANGED sessionVars
        /\ far' = Heard(far, f)
        /\ reader' = IF f.bind.sl1 THEN "bound" ELSE "loop"
        /\ UNCHANGED <<down, closed>>
    BY <1>2, <1>6 DEF ReceiveBind, Accepts
  <2> QED BY <1>1, <1>2, <1>3, <1>4, <1>5, <1>6, <2>1
<1>7. CASE ~Accepts(f)
  <2>1. Close(IF BindVerifies(f) THEN "lease" ELSE "auth") /\ UNCHANGED sessionVars
    BY <1>2, <1>7 DEF ReceiveBind, Accepts
  <2> QED BY <1>1, <1>2, <1>3, <1>4, <1>7, <2>1
<1> QED BY <1>6, <1>7

\* ReceiveRequest: the connection closes, or the frame counts.
LEMMA ReceivesRequest ==
  ASSUME TrunkInv, ReceiveRequest, NEW f, f = up[1]
  PROVE  /\ reader = "loop" /\ Open /\ up # <<>> /\ f.kind = "request"
         /\ f \in TrunkFrames /\ 1 \in DOMAIN up /\ ~Refuses(far, f)
         /\ up' \in Seq(TrunkFrames) /\ Drops(up, up')
         /\ UNCHANGED <<leases, held, caller, near, historyVars>>
         /\ \/ ~Verifies(f) /\ Close("auth") /\ UNCHANGED <<sessionVars>>
            \/ sBinding = "unbound" /\ Close("unbound") /\ UNCHANGED <<sessionVars>>
            \/ /\ Verifies(f) /\ sBinding # "unbound" /\ sAuth' = CountsFrame
               /\ sBinding' \in {sBinding, "bound_stale"}
               /\ \/ down' = down /\ far' = far
                  \/ Sends(down, down', far, far', "failed", NoBind)
               /\ UNCHANGED <<sBound, closed, reader>>
<1>1. up \in Seq(TrunkFrames) /\ up # <<>> /\ up' = Tail(up)
  BY DEF TrunkInv, TrunkTyped, ReceiveRequest, Takes
<1>2. up' \in Seq(TrunkFrames) /\ Drops(up, up') /\ Head(up) = f /\ f \in TrunkFrames
      /\ 1 \in DOMAIN up
  BY <1>1, TakenTyped
<1>3. reader = "loop" /\ Open /\ f.kind = "request" /\ ~Refuses(far, f)
      /\ UNCHANGED <<leases, held, caller, near, historyVars>>
  BY <1>2 DEF ReceiveRequest, Takes
<1>4. CASE ~Verifies(f)
  <2>1. Close("auth") /\ UNCHANGED <<sessionVars>>
    BY <1>2, <1>4 DEF ReceiveRequest
  <2> QED BY <1>1, <1>2, <1>3, <1>4, <2>1
<1>5. CASE Verifies(f) /\ sBinding = "unbound"
  <2>1. Close("unbound") /\ UNCHANGED <<sessionVars>>
    BY <1>2, <1>5 DEF ReceiveRequest
  <2> QED BY <1>1, <1>2, <1>3, <1>5, <2>1
<1>6. CASE Verifies(f) /\ sBinding # "unbound"
  <2>1. /\ sAuth' = CountsFrame
        /\ sBinding' \in {sBinding, "bound_stale"}
        /\ \/ down' = down /\ far' = far
           \/ Sends(down, down', far, far', "failed", NoBind)
        /\ UNCHANGED <<sBound, closed, reader>>
    BY <1>2, <1>6 DEF ReceiveRequest, Sends
  <2> QED BY <1>1, <1>2, <1>3, <1>6, <2>1
<1> QED BY <1>4, <1>5, <1>6

\* Two states of an end that sign alike.
SameKeys(d, e) == d.active = e.active /\ d.bind = e.bind /\ d.next = e.next

\* The client takes a frame, in bind() or elsewhere.
Hears ==
  /\ down # <<>> /\ Drops(down, down') /\ down' \in Seq(TrunkFrames)
  /\ near' = Heard(near, down[1]) /\ EndTyped(near') /\ SameKeys(near', near)
  /\ closed' \in {closed, "unsigned"} /\ (~Open => closed' = closed)

\* Taking a frame changes what is confirmed, never what is signed with.
LEMMA HearsOne ==
  ASSUME TrunkTyped, down # <<>>, down' = Tail(down), near' = Heard(near, Head(down)),
         closed' = IF Open /\ Refuses(near, Head(down)) THEN "unsigned" ELSE closed
  PROVE  Hears /\ Head(down) = down[1]
<1>1. down \in Seq(TrunkFrames) /\ near \in EndStates /\ (near.active <=> near.bind # NoBind)
  BY DEF TrunkTyped
<1>2. down' \in Seq(TrunkFrames) /\ Drops(down, down') /\ Head(down) = down[1]
      /\ down[1] \in TrunkFrames
  BY <1>1, TakenTyped
<1>3. near' \in EndStates /\ near'.active = near.active /\ near'.bind = near.bind
      /\ near'.next = near.next
  BY <1>1, <1>2, HeardTyped
<1> QED BY <1>1, <1>2, <1>3 DEF Hears, EndTyped, SameKeys

\* The end of bind(): refused, or bound with a confirmation taken.
LEMMA ReturnsFromBind ==
  ASSUME TrunkInv, BindReturns
  PROVE  /\ caller.pc = "awaiting" /\ hears' = 2
         /\ UNCHANGED <<leases, held, far, up, reader, sessionVars, tally, tried, overlapped>>
         /\ \/ /\ down = <<>> /\ ~Open /\ caller' = [pc |-> "idle", told |-> "refused"]
               /\ UNCHANGED <<near, down, closed>>
            \/ /\ Hears
               /\ \/ caller' = [pc |-> "idle", told |-> "refused"]
                  \/ caller' = [pc |-> "idle", told |-> "bound"] /\ Confirms(down[1])
<1>1. TrunkTyped
  BY DEF TrunkInv
<1>2. caller.pc = "awaiting" /\ hears' = 2
      /\ UNCHANGED <<leases, held, far, up, reader, sessionVars, tally, tried, overlapped>>
  BY DEF BindReturns
<1>3. CASE down = <<>>
  <2>1. ~Open /\ Calls("idle", "refused") /\ UNCHANGED <<near, down, closed>>
    BY <1>3 DEF BindReturns
  <2> QED BY <1>2, <1>3, <2>1 DEF Calls
<1>4. CASE down # <<>>
  <2> DEFINE f == Head(down)
  <2>1. /\ down' = Tail(down)
        /\ near' = Heard(near, f)
        /\ Calls("idle", IF Confirms(f) /\ ~Refuses(near, f) THEN "bound" ELSE "refused")
        /\ closed' = IF Open /\ Refuses(near, f) THEN "unsigned" ELSE closed
    BY <1>4 DEF BindReturns
  <2>2. Hears /\ f = down[1]
    BY <1>1, <1>4, <2>1, HearsOne
  <2>3. \/ caller' = [pc |-> "idle", told |-> "refused"]
        \/ caller' = [pc |-> "idle", told |-> "bound"] /\ Confirms(f)
    BY <2>1 DEF Calls
  <2> QED BY <1>2, <2>2, <2>3
<1> QED BY <1>3, <1>4

\* Another thread that reads.
LEMMA HearsOutside ==
  ASSUME TrunkInv, ClientHears
  PROVE  /\ caller.pc # "awaiting" /\ hears' = hears + 1 /\ Hears
         /\ UNCHANGED <<leases, held, caller, far, up, reader, sessionVars, tally, tried, overlapped>>
<1>1. TrunkTyped
  BY DEF TrunkInv
<1>2. Hears
  BY <1>1, HearsOne DEF ClientHears
<1> QED BY <1>2 DEF ClientHears

\* What bind() can be at.
Callers == [pc : {"idle", "keyed", "awaiting"}, told : {"nothing", "sent", "refused", "bound"}]

\* The client's own steps that do not hear.
ClientTyped ==
  /\ held' \in 1..Len(leases) /\ caller' \in Callers
  /\ EndTyped(near') /\ up' \in Seq(TrunkFrames)
  /\ tried' \subseteq Leases /\ overlapped' \in BOOLEAN

\* The runtime's part of TrunkTyped, of the next state.
RuntimeTyped ==
  /\ EndTyped(far') /\ down' \in Seq(TrunkFrames)
  /\ reader' \in {"loop", "bound", "keyed", "ended"}
  /\ sAuth' \in [active : BOOLEAN, out : 1..2, in : 1..LastSeq]

\* Steps of one side leave the other typed.
LEMMA ClientStays ==
  ASSUME TrunkTyped
  PROVE  /\ UNCHANGED <<held, caller, near, tried, overlapped>> /\ up' \in Seq(TrunkFrames) => ClientTyped
         /\ UNCHANGED <<far, reader, sAuth>> /\ down' \in Seq(TrunkFrames) => RuntimeTyped
         /\ up \in Seq(TrunkFrames) /\ down \in Seq(TrunkFrames) /\ EndTyped(near) /\ EndTyped(far)
         /\ hears \in Nat
BY DEF TrunkTyped, ClientTyped, RuntimeTyped, EndTyped, Callers

\* The client's steps keep the types ...
LEMMA ClientSteps ==
  ASSUME TrunkInv,
         Renew \/ BindWithoutSl1 \/ BindSetsAuth \/ BindSends \/ BindReturns
         \/ ClientHears \/ ClientSendsRequest
  PROVE  ClientTyped /\ RuntimeTyped /\ hears' \in Nat
<1> USE DEF TrunkInv, sessionVars, historyVars
<1>0. TrunkTyped /\ Lease \in Leases /\ (\A b \in Leases : b # NoBind /\ b.sl1 \in BOOLEAN)
  BY LeaseTyped
<1>1. CASE Renew
  <2>1. held' \in 1..Len(leases)
    BY <1>0, <1>1, LeaseTyped DEF Renew, TrunkTyped
  <2>2. UNCHANGED <<caller, near, up, tried, overlapped, far, down, reader, sAuth, hears>>
    BY <1>1 DEF Renew
  <2> QED BY <1>0, <2>1, <2>2, ClientStays DEF ClientTyped, TrunkTyped, EndTyped, Callers
<1>2. CASE BindWithoutSl1
  <2>1. PICK f \in TrunkFrames :
          /\ f.bind \in Leases /\ up' = Append(up, f) /\ tried' = tried \cup {f.bind}
          /\ caller' = [pc |-> "idle", told |-> "sent"]
          /\ UNCHANGED <<held, near, overlapped, far, down, reader, sAuth, hears>>
    BY <1>0, <1>2, BindsPlainly
  <2>2. up' \in Seq(TrunkFrames) /\ tried' \subseteq Leases /\ caller' \in Callers
    BY <1>0, <2>1, AppendGrows DEF Callers, TrunkTyped
  <2> QED BY <1>0, <2>1, <2>2, ClientStays DEF ClientTyped, TrunkTyped, EndTyped
<1>3. CASE BindSetsAuth
  <2>1. PICK b \in Leases :
          /\ near' = WithAuth(near, b) /\ tried' = tried \cup {b}
          /\ caller' = [pc |-> "keyed", told |-> "nothing"]
          /\ UNCHANGED <<held, up, overlapped, far, down, reader, sAuth, hears>>
    BY <1>0, <1>3, BindKeys
  <2>2. EndTyped(near')
    BY <1>0, <2>1, EndsTyped DEF TrunkTyped, EndTyped
  <2>3. tried' \subseteq Leases /\ caller' \in Callers
    BY <1>0, <2>1 DEF Callers, TrunkTyped
  <2> QED BY <1>0, <2>1, <2>2, <2>3, ClientStays DEF ClientTyped, TrunkTyped
<1>4. CASE BindSends
  <2>1. UNCHANGED <<held, tried, overlapped, far, down, reader, sAuth, hears>>
        /\ caller' \in Callers
    BY <1>4 DEF BindSends, Calls, Callers
  <2>2. CASE Open /\ CanSign(near)
    <3>1. Sends(up, up', near, near', "bind", near.bind)
      BY <1>4, <2>2 DEF BindSends, Sends
    <3>2. up' \in Seq(TrunkFrames) /\ near' \in EndStates /\ near'.active = near.active
          /\ near'.bind = near.bind
      <4>1. EndTyped(near) /\ up \in Seq(TrunkFrames)
        BY <1>0, ClientStays
      <4>2. "bind" \in FrameKinds /\ near.bind \in Binds
        BY <4>1 DEF EndTyped, EndStates, FrameKinds
      <4> QED BY <2>2, <3>1, <4>1, <4>2, SentTyped DEF EndTyped
    <3> QED BY <1>0, <2>1, <3>2, ClientStays DEF ClientTyped, TrunkTyped, EndTyped
  <2>3. CASE ~(Open /\ CanSign(near))
    <3>1. UNCHANGED <<up, near>>
      BY <1>4, <2>3 DEF BindSends
    <3> QED BY <1>0, <2>1, <3>1, ClientStays DEF ClientTyped, TrunkTyped
  <2> QED BY <2>2, <2>3
<1>5. CASE BindReturns
  <2>1. /\ hears' = 2 /\ UNCHANGED <<held, far, up, reader, sAuth, tried, overlapped>>
        /\ EndTyped(near') /\ down' \in Seq(TrunkFrames) /\ caller' \in Callers
    BY <1>0, <1>5, ReturnsFromBind, ClientStays DEF Hears, Callers
  <2> QED BY <1>0, <2>1, ClientStays DEF ClientTyped, TrunkTyped
<1>6. CASE ClientHears
  <2>1. /\ hears' = hears + 1 /\ UNCHANGED <<held, caller, far, up, reader, sAuth, tried, overlapped>>
        /\ EndTyped(near') /\ down' \in Seq(TrunkFrames)
    BY <1>6, HearsOutside DEF Hears
  <2> QED BY <1>0, <2>1, ClientStays DEF ClientTyped, TrunkTyped, Callers
<1>7. CASE ClientSendsRequest
  <2>1. /\ UNCHANGED <<held, caller, tried, far, down, reader, sAuth, hears>> /\ overlapped' \in BOOLEAN
        /\ CanSign(near) /\ Sends(up, up', near, near', "request", NoBind)
    BY <1>0, <1>7 DEF ClientSendsRequest, Sends, TrunkTyped
  <2>2. up' \in Seq(TrunkFrames) /\ near' \in EndStates /\ near'.active = near.active
        /\ near'.bind = near.bind
    <3>1. EndTyped(near) /\ up \in Seq(TrunkFrames)
      BY <1>0, ClientStays
    <3>2. "request" \in FrameKinds /\ NoBind \in Binds
      BY DEF FrameKinds, Binds
    <3> QED BY <2>1, <3>1, <3>2, SentTyped DEF EndTyped
  <2> QED BY <1>0, <2>1, <2>2, ClientStays DEF ClientTyped, TrunkTyped, EndTyped, Callers
<1> QED BY <1>1, <1>2, <1>3, <1>4, <1>5, <1>6, <1>7

\* Between the session's bind and the confirmation the reader's bind is the session's.
LEMMA ReaderBound ==
  ASSUME TrunkInv, reader \in {"bound", "keyed"}
  PROVE  TheBind \in Leases /\ sBound = {TheBind}
<1>1. TrunkTyped /\ BindingSound
  BY DEF TrunkInv
<1>2. sBound # {}
  BY <1>1 DEF BindingSound
<1>3. PICK b \in Leases : sBound = {b}
  BY <1>1, <1>2 DEF BindingSound
<1> QED BY <1>1, <1>3, BoundTyped

\* ServerSetsAuth, and whatever the runtime sends.
LEMMA SetsAuth ==
  ASSUME TrunkInv, ServerSetsAuth
  PROVE  /\ reader = "bound" /\ reader' = "keyed" /\ EndTyped(far')
         /\ far'.active /\ far'.bind = TheBind /\ far'.next = 1 /\ far'.confirmed
         /\ UNCHANGED <<leases, held, caller, near, up, down, closed, sessionVars, tally, historyVars>>
<1>1. TrunkTyped /\ reader = "bound" /\ reader' = "keyed"
      /\ UNCHANGED <<leases, held, caller, near, up, down, closed, sessionVars, tally, historyVars>>
  BY DEF TrunkInv, ServerSetsAuth
<1>2. TheBind \in Leases /\ TheBind # NoBind
  BY <1>1, ReaderBound, LeaseTyped
<1>3. PICK e : e = WithAuth(far, TheBind)
  OBVIOUS
<1>4. e \in EndStates /\ e.active /\ e.bind = TheBind /\ e.next = 1
  BY <1>1, <1>2, <1>3, EndsTyped DEF TrunkTyped
<1>5. far' = [e EXCEPT !.confirmed = TRUE]
  BY <1>3 DEF ServerSetsAuth
<1>6. far' \in EndStates /\ far'.active = e.active /\ far'.bind = e.bind /\ far'.next = e.next
      /\ far'.confirmed
  BY <1>4, <1>5, ConfirmedTyped
<1> QED BY <1>1, <1>2, <1>4, <1>6 DEF EndTyped

\* A frame for the client, or none: b is the bind a confirmation is about.
Says(kind, b) ==
  \/ down' = down /\ far' = far
  \/ Sends(down, down', far, far', kind, b)

\* ... and it is typed, signed under the connection's bind, with its next number.
LEMMA SaysTyped ==
  ASSUME TrunkTyped, NEW kind \in FrameKinds,
         NEW b \in Binds, Says(kind, b)
  PROVE  /\ down' \in Seq(TrunkFrames) /\ EndTyped(far')
         /\ far'.confirmed = far.confirmed /\ far'.bind = far.bind /\ far'.active = far.active
         /\ \/ down' = down /\ far' = far
            \/ \E f \in TrunkFrames :
                 /\ Grows(down, down', f) /\ f.under = far.bind
                 /\ f.seq = IF far.active THEN far.next ELSE 0
                 /\ far.active => far'.next = far.next + 1
<1>1. down \in Seq(TrunkFrames) /\ far \in EndStates /\ (far.active <=> far.bind # NoBind)
  BY DEF TrunkTyped
<1>2. CASE down' = down /\ far' = far
  BY <1>1, <1>2 DEF EndTyped
<1>3. CASE Sends(down, down', far, far', kind, b)
  <2>1. CanSign(far)
    BY <1>3 DEF Sends
  <2>2. PICK r, e : r = down' /\ e = far'
    OBVIOUS
  <2>3. Sends(down, r, far, e, kind, b)
    BY <1>3, <2>2
  <2>4. /\ r \in Seq(TrunkFrames)
        /\ e \in EndStates /\ e.active = far.active /\ e.bind = far.bind
        /\ e.confirmed = far.confirmed
        /\ far.active => e.next = far.next + 1
        /\ \E f \in TrunkFrames : /\ Grows(down, r, f)
                                   /\ f.kind = kind /\ f.bind = b /\ f.under = far.bind
                                   /\ f.seq = IF far.active THEN far.next ELSE 0
    BY <1>1, <2>1, <2>3, SentTyped
  <2> QED BY <1>1, <2>2, <2>4 DEF EndTyped
<1> QED BY <1>2, <1>3 DEF Says

\* Closing sends a last event, if anything (Close).
LEMMA CloseSays ==
  ASSUME NEW why, Close(why)
  PROVE  Says("failed", NoBind) /\ closed' = why /\ reader' = "ended"
BY DEF Close, Says, Sends

\* ... and so do the runtime's.
LEMMA RuntimeSteps ==
  ASSUME TrunkInv,
         ReceiveUnsigned \/ ReceiveBind \/ ServerSetsAuth \/ ServerConfirms
         \/ ReceiveRequest \/ WorkerSends
  PROVE  ClientTyped /\ RuntimeTyped /\ hears' \in Nat
<1> USE DEF sessionVars, historyVars
<1>0. TrunkTyped /\ hears \in Nat
  BY DEF TrunkInv, TrunkTyped
<1>k. "failed" \in FrameKinds /\ "event" \in FrameKinds
      /\ "bind" \in FrameKinds /\ NoBind \in Binds
  BY DEF FrameKinds, Binds
<1>t. "ended" \in {"loop", "bound", "keyed", "ended"}
      /\ "loop" \in {"loop", "bound", "keyed", "ended"}
      /\ "bound" \in {"loop", "bound", "keyed", "ended"} /\ "keyed" \in {"loop", "bound", "keyed", "ended"}
      /\ sAuth \in [active : BOOLEAN, out : 1..2, in : 1..LastSeq]
      /\ reader \in {"loop", "bound", "keyed", "ended"}
  BY <1>0 DEF TrunkTyped
<1>1. CASE ReceiveUnsigned
  <2>1. up' \in Seq(TrunkFrames) /\ reader' = "ended"
        /\ UNCHANGED <<held, caller, near, far, down, sAuth, tried, overlapped, hears>>
    BY <1>0, <1>1, TakenTyped DEF ReceiveUnsigned, TrunkTyped
  <2> QED BY <1>0, <1>t, <2>1, ClientStays DEF RuntimeTyped
<1>2. CASE ReceiveBind
  <2>1. PICK f : f = up[1]
    OBVIOUS
  <2>2. /\ up' \in Seq(TrunkFrames) /\ UNCHANGED <<held, caller, near, tried, overlapped, hears>>
        /\ f \in TrunkFrames /\ f.bind \in Leases
        /\ \/ /\ Accepts(f) /\ Table!ProcessSessionBind(f.bind)
              /\ far' = Heard(far, f)
              /\ reader' = IF f.bind.sl1 THEN "bound" ELSE "loop"
              /\ UNCHANGED <<down, closed>>
           \/ /\ ~Accepts(f) /\ Close(IF BindVerifies(f) THEN "lease" ELSE "auth")
              /\ UNCHANGED sessionVars
    BY <1>2, <2>1, ReceivesBind
  <2>3. CASE /\ Accepts(f) /\ Table!ProcessSessionBind(f.bind)
             /\ far' = Heard(far, f)
             /\ reader' = IF f.bind.sl1 THEN "bound" ELSE "loop"
             /\ UNCHANGED <<down, closed>>
    <3>1. sAuth' \in [active : BOOLEAN, out : 1..2, in : 1..LastSeq]
      BY <1>0, <2>2, <2>3, BindMoves
    <3>2. EndTyped(far')
      <4>1. far \in EndStates /\ (far.active <=> far.bind # NoBind) /\ far' = Heard(far, f)
        BY <1>0, <2>3 DEF TrunkTyped
      <4>2. far' \in EndStates /\ far'.active = far.active /\ far'.bind = far.bind
        BY <2>2, <4>1, HeardTyped
      <4> QED BY <4>1, <4>2 DEF EndTyped
    <3>3. reader' \in {"loop", "bound", "keyed", "ended"} /\ down' = down
      BY <2>3
    <3> QED BY <1>0, <2>2, <3>1, <3>2, <3>3, ClientStays DEF RuntimeTyped
  <2>4. CASE /\ ~Accepts(f) /\ Close(IF BindVerifies(f) THEN "lease" ELSE "auth")
             /\ UNCHANGED sessionVars
    <3>1. Says("failed", NoBind) /\ reader' = "ended" /\ sAuth' = sAuth
      BY <2>4, CloseSays
    <3>2. down' \in Seq(TrunkFrames) /\ EndTyped(far')
      BY <1>0, <1>k, <3>1, SaysTyped
    <3> QED BY <1>0, <1>t, <2>2, <3>1, <3>2, ClientStays DEF RuntimeTyped
  <2> QED BY <2>2, <2>3, <2>4
<1>3. CASE ServerSetsAuth
  <2>1. /\ EndTyped(far') /\ reader' = "keyed"
        /\ UNCHANGED <<held, caller, near, up, down, sAuth, tried, overlapped, hears>>
    BY <1>3, SetsAuth
  <2> QED BY <1>0, <1>t, <2>1, ClientStays DEF RuntimeTyped
<1>4. CASE ServerConfirms
  <2>1. Says("bind", TheBind) /\ reader = "keyed" /\ reader' = "loop"
        /\ UNCHANGED <<held, caller, near, up, sAuth, tried, overlapped, hears>>
    BY <1>4 DEF ServerConfirms, Says, Sends
  <2>2. TheBind \in Binds
    BY <2>1, ReaderBound DEF Binds
  <2>3. down' \in Seq(TrunkFrames) /\ EndTyped(far')
    BY <1>0, <1>k, <2>1, <2>2, SaysTyped
  <2> QED BY <1>0, <1>t, <2>1, <2>3, ClientStays DEF RuntimeTyped
<1>5. CASE ReceiveRequest
  <2>1. PICK f : f = up[1]
    OBVIOUS
  <2>2. /\ up' \in Seq(TrunkFrames) /\ UNCHANGED <<held, caller, near, tried, overlapped, hears>>
        /\ Says("failed", NoBind) /\ reader' \in {reader, "ended"}
        /\ (sAuth' = sAuth \/ sAuth' = CountsFrame)
    BY <1>5, <2>1, ReceivesRequest, CloseSays DEF Says
  <2>3. down' \in Seq(TrunkFrames) /\ EndTyped(far')
    BY <1>0, <1>k, <2>2, SaysTyped
  <2>4. sAuth' \in [active : BOOLEAN, out : 1..2, in : 1..LastSeq]
    BY <1>0, <1>t, <2>2, CountMoves
  <2>5. reader' \in {"loop", "bound", "keyed", "ended"}
    BY <1>t, <2>2
  <2> QED BY <1>0, <2>2, <2>3, <2>4, <2>5, ClientStays DEF RuntimeTyped
<1>6. CASE WorkerSends
  <2>1. Says("event", NoBind)
        /\ UNCHANGED <<held, caller, near, up, reader, sAuth, tried, overlapped, hears>>
    BY <1>6 DEF WorkerSends, Says, Sends
  <2>2. down' \in Seq(TrunkFrames) /\ EndTyped(far')
    BY <1>0, <1>k, <2>1, SaysTyped
  <2> QED BY <1>0, <1>t, <2>1, <2>2, ClientStays DEF RuntimeTyped
<1> QED BY <1>1, <1>2, <1>3, <1>4, <1>5, <1>6

\* Every step keeps the types.
LEMMA TypedStep ==
  ASSUME TrunkInv, SecureNext \/ UNCHANGED secureVars
  PROVE  TrunkTyped'
<1>1. leases' = leases /\ Leases' = Leases /\ TrunkFrames' = TrunkFrames /\ EndStates' = EndStates
  BY LeasesStay
<1>2. ClientTyped /\ RuntimeTyped /\ hears' \in Nat
  <2>1. CASE SecureNext
    BY <2>1, ClientSteps, RuntimeSteps DEF SecureNext
  <2>2. CASE UNCHANGED secureVars
    BY <2>2 DEF TrunkInv, TrunkTyped, ClientTyped, RuntimeTyped, EndTyped, Callers, secureVars
  <2> QED BY <2>1, <2>2
<1>3. leases \in LeaseRows
  BY DEF TrunkInv, TrunkTyped
<1> QED BY <1>1, <1>2, <1>3 DEF TrunkTyped, ClientTyped, RuntimeTyped, EndTyped, Callers

\* What a step does to the frames for the client and the runtime's numbering.
DownStays == down' = down /\ SameKeys(far', far)
DownHeard == (BindReturns \/ ClientHears) /\ Drops(down, down') /\ SameKeys(far', far)
DownSays ==
  \E f \in TrunkFrames :
    /\ Grows(down, down', f) /\ f.under = far.bind
    /\ f.seq = IF far.active THEN far.next ELSE 0
    /\ far'.active = far.active /\ far'.bind = far.bind
    /\ far.active => far'.next = far.next + 1
DownKeyed ==
  /\ reader = "bound" /\ reader' = "keyed" /\ down' = down /\ sBound' = sBound
  /\ far'.active /\ far'.bind = TheBind /\ far'.next = 1

\* A frame said is one of these moves.
LEMMA SaysMoves ==
  ASSUME TrunkTyped, NEW kind \in FrameKinds, NEW b \in Binds, Says(kind, b)
  PROVE  DownStays \/ DownSays
<1>1. /\ far'.confirmed = far.confirmed /\ far'.bind = far.bind /\ far'.active = far.active
      /\ \/ down' = down /\ far' = far
         \/ \E f \in TrunkFrames :
                 /\ Grows(down, down', f) /\ f.under = far.bind
                 /\ f.seq = IF far.active THEN far.next ELSE 0
                 /\ far.active => far'.next = far.next + 1
  BY SaysTyped
<1>2. CASE down' = down /\ far' = far
  BY <1>2 DEF DownStays, SameKeys
<1>3. CASE \E f \in TrunkFrames :
                 /\ Grows(down, down', f) /\ f.under = far.bind
                 /\ f.seq = IF far.active THEN far.next ELSE 0
                 /\ far.active => far'.next = far.next + 1
  BY <1>1, <1>3 DEF DownSays
<1> QED BY <1>1, <1>2, <1>3

\* No step does anything else to what comes down.
LEMMA DownMoves ==
  ASSUME TrunkInv, SecureNext \/ UNCHANGED secureVars
  PROVE  DownStays \/ DownHeard \/ DownSays \/ DownKeyed
<1>0. TrunkTyped
  BY DEF TrunkInv
<1>k. "failed" \in FrameKinds /\ "event" \in FrameKinds /\ "bind" \in FrameKinds
      /\ NoBind \in Binds
  BY DEF FrameKinds, Binds
<1>1. CASE \/ Renew \/ BindWithoutSl1 \/ BindSetsAuth \/ BindSends \/ ClientSendsRequest
           \/ ReceiveUnsigned \/ UNCHANGED secureVars
  BY <1>1 DEF DownStays, SameKeys, Renew, BindWithoutSl1, BindSetsAuth, BindSends,
     ClientSendsRequest, ReceiveUnsigned, secureVars
<1>2. CASE BindReturns
  <2>1. far' = far /\ (down' = down \/ Drops(down, down'))
    BY <1>2, ReturnsFromBind DEF Hears
  <2> QED BY <1>2, <2>1 DEF DownStays, DownHeard, SameKeys
<1>3. CASE ClientHears
  <2>1. far' = far /\ Drops(down, down')
    BY <1>3, HearsOutside DEF Hears
  <2> QED BY <1>3, <2>1 DEF DownHeard, SameKeys
<1>4. CASE ReceiveBind
  <2>1. PICK f : f = up[1]
    OBVIOUS
  <2>2. /\ f \in TrunkFrames
        /\ \/ far' = Heard(far, f) /\ down' = down
           \/ Close(IF BindVerifies(f) THEN "lease" ELSE "auth")
    BY <1>4, <2>1, ReceivesBind
  <2>3. CASE far' = Heard(far, f) /\ down' = down
    <3>1. far'.active = far.active /\ far'.bind = far.bind /\ far'.next = far.next
      BY <1>0, <2>2, <2>3, HeardTyped DEF TrunkTyped
    <3> QED BY <2>3, <3>1 DEF DownStays, SameKeys
  <2>4. CASE Close(IF BindVerifies(f) THEN "lease" ELSE "auth")
    BY <1>0, <1>k, <2>4, CloseSays, SaysMoves
  <2> QED BY <2>2, <2>3, <2>4
<1>5. CASE ServerSetsAuth
  BY <1>5, SetsAuth DEF DownKeyed, sessionVars
<1>6. CASE ServerConfirms
  <2>1. Says("bind", TheBind) /\ reader = "keyed"
    BY <1>6 DEF ServerConfirms, Says, Sends
  <2>2. TheBind \in Binds
    BY <2>1, ReaderBound DEF Binds
  <2> QED BY <1>0, <1>k, <2>1, <2>2, SaysMoves
<1>7. CASE ReceiveRequest
  <2>1. PICK f : f = up[1]
    OBVIOUS
  <2>2. Says("failed", NoBind)
    BY <1>7, <2>1, ReceivesRequest, CloseSays DEF Says
  <2> QED BY <1>0, <1>k, <2>2, SaysMoves
<1>8. CASE WorkerSends
  <2>1. Says("event", NoBind)
    BY <1>8 DEF WorkerSends, Says, Sends
  <2> QED BY <1>0, <1>k, <2>1, SaysMoves
<1> QED BY <1>1, <1>2, <1>3, <1>4, <1>5, <1>6, <1>7, <1>8 DEF SecureNext

\* ... to the frames for the runtime and the client's numbering ...
UpStays == up' = up /\ SameKeys(near', near)
UpKeyed ==
  /\ BindSetsAuth /\ up' = up /\ near'.active /\ near'.bind \in Leases /\ near'.next = 1
  /\ tried' = tried \cup {near'.bind} /\ (~Repeats => near'.bind \notin tried)
UpSays(f) ==
  /\ Open /\ Grows(up, up', f) /\ f \in TrunkFrames
  /\ \/ /\ BindWithoutSl1 /\ near' = near
        /\ f.kind = "bind" /\ f.bind \in Leases /\ ~f.bind.sl1 /\ f.under = NoBind /\ f.seq = 0
        /\ tried' = tried \cup {f.bind} /\ (~Repeats => f.bind \notin tried)
        /\ caller'.pc = "idle"
     \/ /\ near'.active = near.active /\ near'.bind = near.bind
        /\ near.active => near'.next = near.next + 1
        /\ f.under = near.bind /\ f.seq = IF near.active THEN near.next ELSE 0
        /\ \/ ClientSendsRequest /\ f.kind = "request"
           \/ BindSends /\ f.kind = "bind" /\ f.bind = near.bind /\ caller'.pc = "awaiting"
UpTaken ==
  /\ ReceiveUnsigned \/ ReceiveBind \/ ReceiveRequest
  /\ reader = "loop" /\ Open /\ Drops(up, up') /\ near' = near

\* send_session_bind puts one frame, signed with the next number, on its way.
LEMMA BindSent ==
  ASSUME TrunkInv, BindSends, Open, CanSign(near)
  PROVE  \E f : UpSays(f) /\ f.kind = "bind" /\ f.bind = near.bind
<1>0. TrunkTyped /\ up \in Seq(TrunkFrames)
      /\ near \in EndStates /\ (near.active <=> near.bind # NoBind)
  BY DEF TrunkInv, TrunkTyped
<1>k. "bind" \in FrameKinds /\ near.bind \in Binds
  BY <1>0 DEF FrameKinds, EndStates
<1>1. PICK e : e = near'
  OBVIOUS
<1>2. Sends(up, up', near, e, "bind", near.bind) /\ caller'.pc = "awaiting"
  BY <1>1 DEF BindSends, Sends, Calls
<1>3. /\ e.active = near.active /\ e.bind = near.bind
      /\ near.active => e.next = near.next + 1
      /\ \E f \in TrunkFrames : /\ Grows(up, up', f)
                                 /\ f.kind = "bind" /\ f.bind = near.bind /\ f.under = near.bind
                                 /\ f.seq = IF near.active THEN near.next ELSE 0
  BY <1>0, <1>k, <1>2, SentTyped
<1>4. PICK f \in TrunkFrames : /\ Grows(up, up', f)
                               /\ f.kind = "bind" /\ f.bind = near.bind /\ f.under = near.bind
                               /\ f.seq = IF near.active THEN near.next ELSE 0
  BY <1>3
<1>5. UpSays(f)
  BY <1>1, <1>2, <1>3, <1>4 DEF UpSays
<1> QED BY <1>4, <1>5

\* No step does anything else to what goes up.
LEMMA UpMoves ==
  ASSUME TrunkInv, SecureNext \/ UNCHANGED secureVars
  PROVE  UpStays \/ UpKeyed \/ (\E f : UpSays(f)) \/ UpTaken
<1>0. TrunkTyped /\ Lease \in Leases /\ up \in Seq(TrunkFrames)
      /\ near \in EndStates /\ (near.active <=> near.bind # NoBind)
  BY LeaseTyped DEF TrunkInv, TrunkTyped
<1>k. "request" \in FrameKinds /\ "bind" \in FrameKinds /\ NoBind \in Binds /\ Lease \in Binds
  BY <1>0 DEF FrameKinds, Binds
<1>1. CASE \/ Renew \/ ServerSetsAuth \/ ServerConfirms \/ WorkerSends \/ UNCHANGED secureVars
  BY <1>1 DEF UpStays, SameKeys, Renew, ServerSetsAuth, ServerConfirms, WorkerSends, secureVars
<1>2. CASE BindReturns
  <2>1. up' = up /\ SameKeys(near', near)
    BY <1>2, ReturnsFromBind DEF Hears, SameKeys
  <2> QED BY <2>1 DEF UpStays
<1>3. CASE ClientHears
  <2>1. up' = up /\ SameKeys(near', near)
    BY <1>3, HearsOutside DEF Hears
  <2> QED BY <2>1 DEF UpStays
<1>4. CASE BindWithoutSl1
  <2>1. PICK f \in TrunkFrames :
           /\ f.kind = "bind" /\ f.bind \in Leases /\ ~f.bind.sl1
           /\ f.under = NoBind /\ f.seq = 0
           /\ up' = Append(up, f) /\ tried' = tried \cup {f.bind}
           /\ ~Repeats => f.bind \notin tried
           /\ caller'.pc = "idle" /\ Open /\ near' = near
    BY <1>0, <1>4, BindsPlainly
  <2>2. Grows(up, up', f)
    BY <1>0, <2>1, AppendGrows
  <2>3. UpSays(f)
    BY <1>4, <2>1, <2>2 DEF UpSays
  <2> QED BY <2>3
<1>5. CASE BindSetsAuth
  <2>1. PICK b \in Leases :
          /\ near' = WithAuth(near, b) /\ tried' = tried \cup {b} /\ (~Repeats => b \notin tried)
          /\ up' = up
    BY <1>0, <1>5, BindKeys
  <2>2. near'.active /\ near'.bind = b /\ near'.next = 1
    BY <1>0, <2>1, EndsTyped
  <2> QED BY <1>5, <2>1, <2>2 DEF UpKeyed
<1>6. CASE BindSends
  BY <1>6, BindSent DEF BindSends, UpStays, SameKeys
<1>7. CASE ClientSendsRequest
  <2>1. PICK e : e = near'
    OBVIOUS
  <2>2. Sends(up, up', near, e, "request", NoBind) /\ CanSign(near) /\ Open
    BY <1>7, <2>1 DEF ClientSendsRequest, Sends
  <2>3. /\ e.active = near.active /\ e.bind = near.bind
        /\ near.active => e.next = near.next + 1
        /\ \E f \in TrunkFrames : /\ Grows(up, up', f)
                                   /\ f.kind = "request" /\ f.bind = NoBind /\ f.under = near.bind
                                   /\ f.seq = IF near.active THEN near.next ELSE 0
    BY <1>0, <1>k, <2>2, SentTyped
  <2>4. PICK f \in TrunkFrames : /\ Grows(up, up', f)
                                 /\ f.kind = "request" /\ f.bind = NoBind /\ f.under = near.bind
                                 /\ f.seq = IF near.active THEN near.next ELSE 0
    BY <2>3
  <2>5. UpSays(f)
    BY <1>7, <2>1, <2>2, <2>3, <2>4 DEF UpSays
  <2> QED BY <2>5
<1>8. CASE ReceiveUnsigned
  <2>1. reader = "loop" /\ Open /\ up # <<>> /\ up' = Tail(up) /\ near' = near
    BY <1>8 DEF ReceiveUnsigned
  <2> QED BY <1>0, <1>8, <2>1, TakenTyped DEF UpTaken
<1>9. CASE ReceiveBind
  <2>1. reader = "loop" /\ Open /\ Drops(up, up') /\ near' = near
    BY <1>9, ReceivesBind
  <2> QED BY <1>9, <2>1 DEF UpTaken
<1>10. CASE ReceiveRequest
  <2>1. reader = "loop" /\ Open /\ Drops(up, up') /\ near' = near
    BY <1>10, ReceivesRequest
  <2> QED BY <1>10, <2>1 DEF UpTaken
<1> QED BY <1>1, <1>2, <1>3, <1>4, <1>5, <1>6, <1>7, <1>8, <1>9, <1>10 DEF SecureNext

\* ... and to the session: a bind it accepts, a frame it counts, or nothing.
SessionStays == sBound' = sBound /\ sAuth' = sAuth /\ sBinding' = sBinding
SessionBinds(f) ==
  /\ ReceiveBind
  /\ reader = "loop" /\ Open /\ up # <<>> /\ f = up[1] /\ f.kind = "bind" /\ f.bind \in Leases
  /\ BindVerifies(f) /\ f.bind = Lease /\ ~Refuses(far, f)
  /\ sBound' = {f.bind} /\ sBinding' = "bound_current" /\ (sAuth'.active <=> f.bind.sl1)
  /\ f.bind.sl1 => sAuth'.in = 2
  /\ far'.confirmed <=> far.confirmed \/ f.seq # 0
  /\ SameKeys(far', far) /\ down' = down /\ near' = near /\ Drops(up, up') /\ closed' = closed
  /\ reader' = IF f.bind.sl1 THEN "bound" ELSE "loop"
  /\ UNCHANGED <<held, caller, tried, overlapped, hears>>
SessionCounts(f) ==
  /\ ReceiveRequest
  /\ reader = "loop" /\ Open /\ up # <<>> /\ f = up[1] /\ f.kind = "request"
  /\ Verifies(f) /\ ~Refuses(far, f)
  /\ sBound' = sBound /\ sBinding # "unbound" /\ sBinding' \in {sBinding, "bound_stale"}
  /\ sAuth'.active = sAuth.active
  /\ sAuth.active => sAuth'.in = IF sAuth.in < LastSeq THEN sAuth.in + 1 ELSE sAuth.in
  /\ near' = near /\ Drops(up, up') /\ closed' = closed /\ reader' = reader
  /\ UNCHANGED <<held, caller, tried, overlapped, hears>>

\* A bind taken is accepted or ends the connection ...
LEMMA BindServed ==
  ASSUME TrunkInv, ReceiveBind
  PROVE  (SessionStays /\ closed' # "no") \/ (\E f : SessionBinds(f))
<1>0. TrunkTyped
  BY DEF TrunkInv
<1>1. PICK f : f = up[1]
  OBVIOUS
<1>2. /\ reader = "loop" /\ Open /\ up # <<>> /\ f.kind = "bind"
      /\ f \in TrunkFrames /\ f.bind \in Leases /\ ~Refuses(far, f) /\ Drops(up, up')
      /\ UNCHANGED <<leases, held, caller, near, tally, historyVars>>
      /\ \/ /\ Accepts(f) /\ Table!ProcessSessionBind(f.bind)
            /\ far' = Heard(far, f)
            /\ reader' = IF f.bind.sl1 THEN "bound" ELSE "loop"
            /\ UNCHANGED <<down, closed>>
         \/ UNCHANGED sessionVars /\ Close(IF BindVerifies(f) THEN "lease" ELSE "auth")
  BY <1>1, ReceivesBind
<1>3. CASE UNCHANGED sessionVars /\ Close(IF BindVerifies(f) THEN "lease" ELSE "auth")
  BY <1>3, CloseSays DEF SessionStays, sessionVars
<1>4. CASE /\ Accepts(f) /\ Table!ProcessSessionBind(f.bind)
           /\ far' = Heard(far, f)
           /\ reader' = IF f.bind.sl1 THEN "bound" ELSE "loop"
           /\ UNCHANGED <<down, closed>>
  <2>1. /\ sBound' = {f.bind} /\ sBinding' = "bound_current" /\ (sAuth'.active <=> f.bind.sl1)
        /\ f.bind.sl1 => sAuth'.in = 2
    BY <1>0, <1>2, <1>4, BindMoves
  <2>2. /\ far'.active = far.active /\ far'.bind = far.bind /\ far'.next = far.next
        /\ far'.confirmed <=> far.confirmed \/ f.seq # 0
    <3>1. far \in EndStates /\ far' = Heard(far, f)
      BY <1>0, <1>4 DEF TrunkTyped
    <3> QED BY <1>2, <3>1, HeardTyped
  <2>3. SessionBinds(f)
    BY <1>1, <1>2, <1>4, <2>1, <2>2 DEF SessionBinds, Accepts, SameKeys, historyVars
  <2> QED BY <2>3
<1> QED BY <1>2, <1>3, <1>4

\* ... and a request taken is counted or ends it.
LEMMA RequestServed ==
  ASSUME TrunkInv, ReceiveRequest
  PROVE  (SessionStays /\ closed' # "no") \/ (\E f : SessionCounts(f))
<1>0. TrunkTyped
  BY DEF TrunkInv
<1>1. PICK f : f = up[1]
  OBVIOUS
<1>2. /\ reader = "loop" /\ Open /\ up # <<>> /\ f.kind = "request"
      /\ ~Refuses(far, f) /\ Drops(up, up')
      /\ UNCHANGED <<leases, held, caller, near, historyVars>>
      /\ \/ UNCHANGED <<sessionVars>> /\ (Close("auth") \/ Close("unbound"))
         \/ /\ Verifies(f) /\ sBinding # "unbound" /\ sAuth' = CountsFrame
            /\ sBinding' \in {sBinding, "bound_stale"}
            /\ UNCHANGED <<sBound, closed, reader>>
  BY <1>1, ReceivesRequest
<1>3. CASE UNCHANGED <<sessionVars>> /\ (Close("auth") \/ Close("unbound"))
  BY <1>3, CloseSays DEF SessionStays, sessionVars
<1>4. CASE /\ Verifies(f) /\ sBinding # "unbound" /\ sAuth' = CountsFrame
           /\ sBinding' \in {sBinding, "bound_stale"}
           /\ UNCHANGED <<sBound, closed, reader>>
  <2>1. /\ sAuth'.active = sAuth.active
        /\ sAuth.active => sAuth'.in = IF sAuth.in < LastSeq THEN sAuth.in + 1 ELSE sAuth.in
    BY <1>0, <1>4, CountMoves
  <2>2. SessionCounts(f)
    BY <1>1, <1>2, <1>4, <2>1 DEF SessionCounts, historyVars
  <2> QED BY <2>2
<1> QED BY <1>2, <1>3, <1>4

\* No step does anything else to the session.
LEMMA SessionMoves ==
  ASSUME TrunkInv, SecureNext \/ UNCHANGED secureVars
  PROVE  SessionStays \/ (\E f : SessionBinds(f)) \/ (\E f : SessionCounts(f))
<1>1. CASE \/ Renew \/ BindWithoutSl1 \/ BindSetsAuth \/ BindSends \/ BindReturns \/ ClientHears
           \/ ClientSendsRequest \/ ReceiveUnsigned \/ ServerSetsAuth \/ ServerConfirms
           \/ WorkerSends \/ UNCHANGED secureVars
  BY <1>1 DEF SessionStays, sessionVars, secureVars, Renew, BindWithoutSl1, BindSetsAuth,
     BindSends, BindReturns, ClientHears, ClientSendsRequest, ReceiveUnsigned, ServerSetsAuth,
     ServerConfirms, WorkerSends
<1> QED BY <1>1, BindServed, RequestServed DEF SecureNext

\* While the connection stays open every frame the reader takes is processed.
LEMMA TakenIsServed ==
  ASSUME TrunkInv, UpTaken, closed' = "no"
  PROVE  (\E f : SessionBinds(f)) \/ (\E f : SessionCounts(f))
<1>1. ~ReceiveUnsigned
  BY DEF ReceiveUnsigned
<1> QED BY <1>1, BindServed, RequestServed DEF UpTaken

\* bind() goes step by step, and the lease stays for as long as it runs.
LEMMA CallMoves ==
  ASSUME SecureNext \/ UNCHANGED secureVars
  PROVE  /\ \/ caller' = caller /\ ~BindWithoutSl1 /\ ~BindSetsAuth /\ ~BindSends /\ ~BindReturns
            \/ BindWithoutSl1 /\ caller.pc = "idle" /\ caller' = [pc |-> "idle", told |-> "sent"]
            \/ BindSetsAuth /\ caller.pc = "idle" /\ caller' = [pc |-> "keyed", told |-> "nothing"]
            \/ /\ BindSends /\ caller.pc = "keyed"
               /\ \/ Open /\ CanSign(near) /\ caller' = [pc |-> "awaiting", told |-> "nothing"]
                  \/ ~(Open /\ CanSign(near)) /\ caller' = [pc |-> "idle", told |-> "refused"]
            \/ /\ BindReturns /\ caller.pc = "awaiting"
               /\ caller' \in {[pc |-> "idle", told |-> "refused"], [pc |-> "idle", told |-> "bound"]}
         /\ leases' = leases /\ (held' = held \/ (Renew /\ caller.pc = "idle"))
<1>1. leases' = leases
  BY LeasesStay
<1>3. CASE BindWithoutSl1
  BY <1>1, <1>3 DEF BindWithoutSl1, MayBind, Calls
<1>4. CASE BindSetsAuth
  BY <1>1, <1>4 DEF BindSetsAuth, MayBind, Calls
<1>5. CASE BindSends
  BY <1>1, <1>5 DEF BindSends, Calls
<1>6. CASE BindReturns
  <2>1. caller.pc = "awaiting" /\ held' = held
    BY <1>6 DEF BindReturns
  <2>2. caller' \in {[pc |-> "idle", told |-> "refused"], [pc |-> "idle", told |-> "bound"]}
    BY <1>6 DEF BindReturns, Calls
  <2> QED BY <1>1, <1>6, <2>1, <2>2
<1>7. CASE \/ Renew \/ ClientHears \/ ClientSendsRequest \/ ReceiveUnsigned \/ ReceiveBind
           \/ ServerSetsAuth \/ ServerConfirms \/ ReceiveRequest \/ WorkerSends
           \/ UNCHANGED secureVars
  <2>1. caller' = caller /\ (held' = held \/ (Renew /\ caller.pc = "idle"))
    BY <1>7 DEF Renew, ClientHears, ClientSendsRequest, ReceiveUnsigned, ReceiveBind, ServerSetsAuth,
       ServerConfirms, ReceiveRequest, WorkerSends, secureVars
  <2>2. CASE BindWithoutSl1 \/ BindSetsAuth \/ BindSends \/ BindReturns
    BY <1>3, <1>4, <1>5, <1>6, <2>2
  <2> QED BY <1>1, <2>1, <2>2
<1> QED BY <1>3, <1>4, <1>5, <1>6, <1>7 DEF SecureNext

\* The binds the client has tried only grow, and only where it begins one.
LEMMA TriedMoves ==
  ASSUME TrunkTyped, SecureNext \/ UNCHANGED secureVars
  PROVE  tried \subseteq tried' /\ (tried' = tried \/ BindWithoutSl1 \/ BindSetsAuth)
<1>1. CASE BindWithoutSl1
  BY <1>1, BindsPlainly
<1>2. CASE BindSetsAuth
  BY <1>2, BindKeys
<1>3. CASE ~BindWithoutSl1 /\ ~BindSetsAuth
  BY <1>3 DEF SecureNext, secureVars, historyVars, Renew, BindSends, BindReturns,
     ClientHears, ClientSendsRequest, ReceiveUnsigned, ReceiveBind,
     ServerSetsAuth, ServerConfirms, ReceiveRequest, WorkerSends
<1> QED BY <1>1, <1>2, <1>3

\* Fresh, of the next state.
FreshNext(b) ==
  /\ b \notin sBound' /\ far'.bind # b
  /\ \A j \in DOMAIN down' : down'[j].under # b

\* A bind stays new to the runtime until the runtime processes it.
LEMMA FreshStays ==
  ASSUME TrunkInv, SecureNext \/ UNCHANGED secureVars, TrunkTyped',
         NEW b \in Leases, Fresh(b), b \notin sBound'
  PROVE  FreshNext(b)
<1>1. down \in Seq(TrunkFrames) /\ down' \in Seq(TrunkFrames)
  <2>1. TrunkFrames' = TrunkFrames
    BY LeasesStay
  <2> QED BY <2>1 DEF TrunkInv, TrunkTyped
<1>2. DOMAIN down = 1..Len(down) /\ DOMAIN down' = 1..Len(down') /\ Len(down) \in Nat
      /\ Len(down') \in Nat
  BY <1>1
<1>3. CASE DownStays
  BY <1>3 DEF DownStays, SameKeys, Fresh, FreshNext
<1>4. CASE DownHeard
  <2>1. \A j \in DOMAIN down' : j + 1 \in DOMAIN down /\ down'[j] = down[j + 1]
    BY <1>2, <1>4 DEF DownHeard, Drops
  <2> QED BY <1>4, <2>1 DEF DownHeard, SameKeys, Fresh, FreshNext
<1>5. CASE DownSays
  <2>1. \A j \in DOMAIN down' : \/ (j \in DOMAIN down /\ down'[j] = down[j])
                                 \/ down'[j].under = far.bind
    BY <1>2, <1>5 DEF DownSays, Grows
  <2> QED BY <1>5, <2>1 DEF DownSays, Fresh, FreshNext
<1>6. CASE DownKeyed
  <2>1. TheBind \in sBound
    BY <1>6, ReaderBound DEF DownKeyed
  <2> QED BY <1>6, <2>1 DEF DownKeyed, Fresh, FreshNext
<1> QED BY <1>3, <1>4, <1>5, <1>6, DownMoves

\* Both queues are sequences of frames, before and after any step.
LEMMA QueuesTyped ==
  ASSUME TrunkInv, TrunkTyped', SecureNext \/ UNCHANGED secureVars
  PROVE  /\ up \in Seq(TrunkFrames) /\ up' \in Seq(TrunkFrames)
         /\ DOMAIN up = 1..Len(up) /\ DOMAIN up' = 1..Len(up')
         /\ Len(up) \in Nat /\ Len(up') \in Nat
         /\ down \in Seq(TrunkFrames) /\ down' \in Seq(TrunkFrames)
         /\ DOMAIN down = 1..Len(down) /\ DOMAIN down' = 1..Len(down')
         /\ Len(down) \in Nat /\ Len(down') \in Nat
<1>1. TrunkFrames' = TrunkFrames
  BY LeasesStay
<1>2. /\ up \in Seq(TrunkFrames) /\ up' \in Seq(TrunkFrames)
      /\ down \in Seq(TrunkFrames) /\ down' \in Seq(TrunkFrames)
  BY <1>1 DEF TrunkInv, TrunkTyped
<1> QED BY <1>2

\* Every frame of up' was in up, or is the one sent.
LEMMA UpOrigin ==
  ASSUME TrunkInv, TrunkTyped', SecureNext \/ UNCHANGED secureVars, NEW i \in DOMAIN up'
  PROVE  \/ i \in DOMAIN up /\ up'[i] = up[i] /\ ~UpTaken
         \/ UpTaken /\ i + 1 \in DOMAIN up /\ up'[i] = up[i + 1]
         \/ UpSays(up'[i]) /\ i = Len(up) + 1 /\ i = Len(up')
<1> USE QueuesTyped
<1>1. ~UpTaken \/ ~(up' = up)
  <2>1. ASSUME up' = up PROVE ~Drops(up, up')
    BY <2>1 DEF Drops
  <2> QED BY <2>1 DEF UpTaken
<1>2. ASSUME NEW f, UpSays(f) PROVE ~UpTaken
  BY <1>2 DEF UpSays, UpTaken, Grows, Drops
<1>3. CASE UpStays \/ UpKeyed
  BY <1>1, <1>3 DEF UpStays, UpKeyed
<1>4. CASE \E f : UpSays(f)
  <2>1. PICK f : UpSays(f)
    BY <1>4
  <2>2. Len(up') = Len(up) + 1 /\ up'[Len(up) + 1] = f /\ \A j \in 1..Len(up) : up'[j] = up[j]
    BY <2>1 DEF UpSays, Grows
  <2>3. CASE i = Len(up) + 1
    BY <2>1, <2>2, <2>3
  <2>4. CASE i # Len(up) + 1
    <3>1. i \in 1..Len(up)
      BY <2>2, <2>4
    <3> QED BY <1>2, <2>1, <2>2, <3>1
  <2> QED BY <2>3, <2>4
<1>5. CASE UpTaken
  BY <1>5 DEF UpTaken, Drops
<1> QED BY <1>3, <1>4, <1>5, UpMoves

\* A bind frame is sent once per bind.
LEMMA NewBind ==
  ASSUME TrunkInv, ~Repeats, NEW f, UpSays(f), f.kind = "bind"
  PROVE  /\ f.bind \in Leases /\ Fresh(f.bind) /\ caller'.pc # "keyed" /\ f.bind \in tried'
         /\ \A i \in DOMAIN up : up[i].kind = "bind" => up[i].bind # f.bind
<1>0. BindsOnce /\ CallSound /\ TrunkTyped
  BY DEF TrunkInv
<1>1. CASE f.bind \in Leases /\ f.bind \notin tried /\ f.bind \in tried' /\ caller'.pc = "idle"
  BY <1>0, <1>1 DEF BindsOnce
<1>2. CASE BindSends /\ f.bind = near.bind /\ caller'.pc = "awaiting"
  <2>1. caller.pc = "keyed" /\ tried' = tried
    BY <1>2 DEF BindSends, historyVars
  <2>2. near.bind \in Leases /\ Fresh(near.bind)
    BY <1>0, <2>1 DEF CallSound
  <2>3. near.bind \in tried
    BY <1>0, <2>2 DEF BindsOnce
  <2> QED BY <1>0, <1>2, <2>1, <2>2, <2>3 DEF BindsOnce
<1> QED BY <1>1, <1>2 DEF UpSays

\* No lease is bound twice: this is where Repeats would break the argument.
LEMMA BindsOnceStep ==
  ASSUME TrunkInv, ~Repeats, TrunkTyped', SecureNext \/ UNCHANGED secureVars
  PROVE  BindsOnce'
<1> USE QueuesTyped
<1>0. Leases' = Leases /\ TrunkTyped /\ BindsOnce /\ CallSound /\ tried \subseteq tried'
      /\ (\A b \in Leases : b # NoBind)
  BY LeasesStay, TriedMoves, LeaseTyped DEF TrunkInv
<1>1. ASSUME NEW i \in DOMAIN up', NEW j \in DOMAIN up',
             up'[i].kind = "bind", up'[j].kind = "bind", up'[i].bind = up'[j].bind
      PROVE  i = j
  <2>1. CASE UpTaken
    <3>1. i + 1 \in DOMAIN up /\ up'[i] = up[i + 1] /\ j + 1 \in DOMAIN up /\ up'[j] = up[j + 1]
      BY <2>1, UpOrigin DEF UpSays, UpTaken, Grows, Drops
    <3>2. i + 1 = j + 1
      BY <1>0, <1>1, <3>1 DEF BindsOnce
    <3> QED BY <3>2
  <2>2. CASE ~UpTaken
    <3>1. ASSUME i \in DOMAIN up, up'[i] = up[i], UpSays(up'[j]) PROVE FALSE
      BY <1>1, <3>1, NewBind
    <3>2. ASSUME j \in DOMAIN up, up'[j] = up[j], UpSays(up'[i]) PROVE FALSE
      BY <1>1, <3>2, NewBind
    <3>3. CASE i \in DOMAIN up /\ up'[i] = up[i] /\ j \in DOMAIN up /\ up'[j] = up[j]
      BY <1>0, <1>1, <3>3 DEF BindsOnce
    <3> QED BY <2>2, <3>1, <3>2, <3>3, UpOrigin
  <2> QED BY <2>1, <2>2
\* The bind the session takes is at the head, no other frame carries it.
<1>2. ASSUME NEW f, SessionBinds(f)
      PROVE  f.bind \in tried /\ f.bind \in Leases /\ sBound' = {f.bind} /\ UpTaken
             /\ \A i \in DOMAIN up : i # 1 /\ up[i].kind = "bind" => up[i].bind # f.bind
  <2>1. 1 \in DOMAIN up /\ up[1].kind = "bind" /\ up[1].bind = f.bind
        /\ sBound' = {f.bind} /\ UpTaken /\ f.bind \in Leases
    BY <1>2 DEF SessionBinds, UpTaken, Drops
  <2> QED BY <1>0, <2>1 DEF BindsOnce
<1>3. ASSUME NEW b \in Leases, Fresh(b), \A f : SessionBinds(f) => f.bind # b
      PROVE  FreshNext(b)
  <2>1. b \notin sBound'
    <3>1. b \notin sBound
      BY <1>3 DEF Fresh
    <3>2. CASE \E f : SessionBinds(f)
      BY <1>2, <1>3, <3>2
    <3> QED BY <3>1, <3>2, SessionMoves DEF SessionStays, SessionCounts
  <2> QED BY <1>3, <2>1, FreshStays
<1>4. ASSUME NEW i \in DOMAIN up', up'[i].kind = "bind"
      PROVE  /\ up'[i].bind \in tried' /\ FreshNext(up'[i].bind)
             /\ caller'.pc = "keyed" => up'[i].bind # near'.bind
  <2>1. CASE UpSays(up'[i])
    <3>1. /\ up'[i].bind \in Leases /\ Fresh(up'[i].bind) /\ caller'.pc # "keyed"
          /\ up'[i].bind \in tried'
      BY <1>4, <2>1, NewBind
    <3>2. \A f : ~SessionBinds(f)
      BY <1>2, <2>1 DEF UpSays, UpTaken, Grows, Drops
    <3>3. FreshNext(up'[i].bind)
      BY <1>3, <3>1, <3>2
    <3> QED BY <3>1, <3>3
  <2>2. PICK b : b = up'[i].bind
    OBVIOUS
  <2>3. ASSUME NEW k \in DOMAIN up, up'[i] = up[k], UpTaken => k # 1
        PROVE  b \in tried' /\ FreshNext(b) /\ (caller'.pc = "keyed" => b # near'.bind)
    <3>1. b \in tried /\ Fresh(b) /\ (caller.pc = "keyed" => b # near.bind) /\ b \in Leases
      BY <1>0, <1>4, <2>2, <2>3 DEF BindsOnce, TrunkTyped
    <3>2. \A f : SessionBinds(f) => f.bind # b
      BY <1>2, <1>4, <2>2, <2>3
    <3>3. FreshNext(b)
      BY <1>3, <3>1, <3>2
    <3>4. ASSUME caller'.pc = "keyed" PROVE b # near'.bind
      <4>1. CASE caller.pc = "keyed"
        <5>1. near'.bind = near.bind
          BY <1>0, <3>4, <4>1, BindKeys, UpMoves, CallMoves DEF UpStays, UpKeyed, UpSays, UpTaken, SameKeys
        <5> QED BY <3>1, <4>1, <5>1
      <4>2. CASE caller.pc # "keyed"
        <5>1. BindSetsAuth
          BY <1>0, <3>4, <4>2, CallMoves
        <5>2. near'.bind \notin tried
          <6>1. PICK c \in Leases : near' = WithAuth(near, c) /\ c \notin tried
            BY <1>0, <5>1, BindKeys
          <6>2. near \in EndStates
            BY <1>0 DEF TrunkTyped
          <6> QED BY <6>1, <6>2, EndsTyped
        <5> QED BY <3>1, <5>2
      <4> QED BY <4>1, <4>2
    <3> QED BY <1>0, <3>1, <3>3, <3>4
  <2>4. CASE ~UpSays(up'[i])
    <3>1. \/ i \in DOMAIN up /\ up'[i] = up[i] /\ ~UpTaken
          \/ UpTaken /\ i + 1 \in DOMAIN up /\ up'[i] = up[i + 1]
      BY <2>4, UpOrigin
    <3>2. i + 1 # 1
      BY DEF QueuesTyped
    <3>3. b \in tried' /\ FreshNext(b) /\ (caller'.pc = "keyed" => b # near'.bind)
      BY <2>3, <3>1, <3>2
    <3> QED BY <2>2, <3>3
  <2> QED BY <2>1, <2>4
<1>5. ASSUME NEW b \in Leases, b \notin tried'
      PROVE  FreshNext(b) /\ near'.bind # b
  <2>1. b \notin tried /\ Fresh(b) /\ near.bind # b
    BY <1>0, <1>5 DEF BindsOnce
  <2>2. FreshNext(b)
    BY <1>2, <1>3, <2>1
  <2>3. near'.bind # b
    <3>1. CASE UpKeyed
      <4>1. near'.bind \in tried'
        BY <3>1 DEF UpKeyed
      <4> QED BY <1>5, <4>1
    <3> QED BY <2>1, <3>1, UpMoves DEF UpStays, UpSays, UpTaken, SameKeys
  <2> QED BY <2>2, <2>3
<1> QED BY <1>0, <1>1, <1>4, <1>5 DEF BindsOnce, Fresh, FreshNext

\* The reader's place, and that a connection once confirmed stays so.
LEMMA ReaderMoves ==
  ASSUME TrunkInv, SecureNext \/ UNCHANGED secureVars
  PROVE  /\ reader' = "bound" => reader = "bound" \/ (\E f : SessionBinds(f))
         /\ reader' = "keyed" => reader = "keyed" \/ DownKeyed
         /\ far.confirmed => far'.confirmed
<1>0. TrunkTyped
  BY DEF TrunkInv
<1>k. "failed" \in FrameKinds /\ "event" \in FrameKinds /\ "bind" \in FrameKinds
      /\ NoBind \in Binds
  BY DEF FrameKinds, Binds
<1>1. CASE \/ Renew \/ BindWithoutSl1 \/ BindSetsAuth \/ BindSends \/ ClientSendsRequest
           \/ ReceiveUnsigned \/ BindReturns \/ ClientHears \/ UNCHANGED secureVars
  BY <1>1 DEF secureVars, Renew, BindWithoutSl1, BindSetsAuth, BindSends, ClientSendsRequest,
     ReceiveUnsigned, BindReturns, ClientHears
<1>2. CASE ReceiveBind
  <2>1. PICK f : f = up[1]
    OBVIOUS
  <2>2. /\ f \in TrunkFrames
        /\ \/ /\ Accepts(f) /\ Table!ProcessSessionBind(f.bind)
              /\ far' = Heard(far, f)
              /\ reader' = IF f.bind.sl1 THEN "bound" ELSE "loop"
           \/ Close(IF BindVerifies(f) THEN "lease" ELSE "auth")
    BY <1>2, <2>1, ReceivesBind
  <2>3. CASE Close(IF BindVerifies(f) THEN "lease" ELSE "auth")
    <3>1. reader' = "ended" /\ far'.confirmed = far.confirmed
      BY <1>0, <1>k, <2>3, CloseSays, SaysTyped
    <3> QED BY <3>1
  <2>4. CASE /\ Accepts(f) /\ Table!ProcessSessionBind(f.bind)
             /\ far' = Heard(far, f)
             /\ reader' = IF f.bind.sl1 THEN "bound" ELSE "loop"
    <3>1. far'.confirmed <=> far.confirmed \/ (f.kind = "bind" /\ f.seq # 0)
      <4>1. far \in EndStates /\ far' = Heard(far, f)
        BY <1>0, <2>4 DEF TrunkTyped
      <4> QED BY <2>2, <4>1, HeardTyped
    <3>2. sBound' = {f.bind} /\ f.bind \notin sBound
      <4>1. f.bind \in Leases /\ 1 \in DOMAIN up /\ f.kind = "bind"
        BY <1>2, <2>1, ReceivesBind
      <4>2. f.bind \notin sBound
        BY <2>1, <4>1 DEF TrunkInv, BindsOnce, Fresh
      <4> QED BY <1>0, <2>4, <4>1, <4>2, BindMoves
    <3>3. ~SessionStays
      BY <3>2 DEF SessionStays
    <3>4. \A g : ~SessionCounts(g)
      BY <3>2 DEF SessionCounts
    <3> QED BY <2>4, <3>1, <3>3, <3>4, SessionMoves
  <2> QED BY <2>2, <2>3, <2>4
<1>3. CASE ServerSetsAuth
  <2>1. DownKeyed /\ reader' = "keyed" /\ far'.confirmed
    BY <1>3, SetsAuth DEF DownKeyed, sessionVars
  <2> QED BY <2>1
<1>4. CASE ServerConfirms
  <2>1. Says("bind", TheBind) /\ reader = "keyed" /\ reader' = "loop"
    BY <1>4 DEF ServerConfirms, Says, Sends
  <2>2. TheBind \in Binds
    BY <2>1, ReaderBound DEF Binds
  <2>3. far'.confirmed = far.confirmed
    BY <1>0, <1>k, <2>1, <2>2, SaysTyped
  <2> QED BY <2>1, <2>3
<1>5. CASE ReceiveRequest
  <2>1. PICK f : f = up[1]
    OBVIOUS
  <2>2. Says("failed", NoBind) /\ reader' \in {reader, "ended"}
    BY <1>5, <2>1, ReceivesRequest, CloseSays DEF Says
  <2>3. far'.confirmed = far.confirmed
    BY <1>0, <1>k, <2>2, SaysTyped
  <2> QED BY <2>2, <2>3
<1>6. CASE WorkerSends
  <2>1. Says("event", NoBind) /\ reader' = reader
    BY <1>6 DEF WorkerSends, Says, Sends
  <2>2. far'.confirmed = far.confirmed
    BY <1>0, <1>k, <2>1, SaysTyped
  <2> QED BY <2>1, <2>2
<1> QED BY <1>1, <1>2, <1>3, <1>4, <1>5, <1>6 DEF SecureNext

\* BindingSound in two parts: the session's bind, and the reader between its locks.
BoundSound ==
  /\ sBinding = "unbound" <=> sBound = {}
  /\ sBound # {} => \E b \in Leases : sBound = {b} /\ (sAuth.active <=> b.sl1)
  /\ sBound = {} => ~sAuth.active
  /\ sAuth.active => far.confirmed

\* A bind replaces the session's bind as a whole (process_session_bind).
LEMMA BoundStep ==
  ASSUME TrunkInv, SecureNext \/ UNCHANGED secureVars
  PROVE  BoundSound'
<1>0. Leases' = Leases /\ BoundSound /\ (far.confirmed => far'.confirmed)
      /\ (\A b \in Leases : b.sl1 \in BOOLEAN)
  BY LeasesStay, ReaderMoves, LeaseTyped DEF TrunkInv, BindingSound, BoundSound
<1>1. CASE SessionStays
  BY <1>0, <1>1 DEF SessionStays, BoundSound
<1>2. CASE \E f : SessionBinds(f)
  <2>1. PICK f : SessionBinds(f)
    BY <1>2
  <2>2. sBound' = {f.bind} /\ sBinding' = "bound_current" /\ (sAuth'.active <=> f.bind.sl1)
        /\ f.bind \in Leases
    BY <2>1 DEF SessionBinds
  <2>3. sAuth'.active => far'.confirmed
    BY <2>1 DEF SessionBinds, BindVerifies
  <2> QED BY <1>0, <2>2, <2>3 DEF BoundSound
<1>3. CASE \E f : SessionCounts(f)
  BY <1>0, <1>3 DEF SessionCounts, BoundSound
<1> QED BY <1>1, <1>2, <1>3, SessionMoves

\* See BoundSound.
ReaderSound ==
  /\ reader = "bound" => \E b \in Leases : sBound = {b} /\ b.sl1 /\ far.bind # b
                           /\ \A j \in DOMAIN down : down[j].under # b
  /\ reader = "keyed" => sBound = {far.bind}

\* Nobody else binds or re-keys while the reader is between its locks (client_loop).
LEMMA ReaderStep ==
  ASSUME TrunkInv, TrunkTyped', SecureNext \/ UNCHANGED secureVars
  PROVE  ReaderSound'
<1> USE QueuesTyped
<1>0. Leases' = Leases /\ ReaderSound
  BY LeasesStay DEF TrunkInv, BindingSound, ReaderSound
<1>1. ASSUME reader' = "bound"
      PROVE  \E b \in Leases : sBound' = {b} /\ b.sl1 /\ far'.bind # b
               /\ \A j \in DOMAIN down' : down'[j].under # b
  <2>1. CASE \E f : SessionBinds(f)
    <3>1. PICK f : SessionBinds(f)
      BY <2>1
    <3>2. f.bind \in Leases /\ sBound' = {f.bind} /\ f.bind.sl1 /\ down' = down
          /\ far'.bind = far.bind
      BY <1>1, <3>1 DEF SessionBinds, SameKeys
    <3>3. Fresh(f.bind)
      BY <3>1 DEF SessionBinds, TrunkInv, BindsOnce
    <3> QED BY <3>2, <3>3 DEF Fresh
  <2>2. CASE ~(\E f : SessionBinds(f))
    <3>1. reader = "bound" /\ sBound' = sBound
      BY <1>1, <2>2, ReaderMoves, SessionMoves DEF SessionStays, SessionCounts
    <3>2. PICK b \in Leases : sBound = {b} /\ b.sl1 /\ far.bind # b
                           /\ \A j \in DOMAIN down : down[j].under # b
      BY <1>0, <3>1 DEF ReaderSound
    <3>3. CASE DownStays
      BY <3>1, <3>2, <3>3 DEF DownStays, SameKeys
    <3>4. CASE DownHeard
      <4>1. \A j \in DOMAIN down' : j + 1 \in DOMAIN down /\ down'[j] = down[j + 1]
        BY <3>4 DEF DownHeard, Drops
      <4> QED BY <3>1, <3>2, <3>4, <4>1 DEF DownHeard, SameKeys
    <3>5. CASE DownSays
      <4>1. \A j \in DOMAIN down' : \/ (j \in DOMAIN down /\ down'[j] = down[j])
                                    \/ down'[j].under = far.bind
        BY <3>5 DEF DownSays, Grows
      <4>2. far'.bind = far.bind
        BY <3>5 DEF DownSays
      <4> QED BY <3>1, <3>2, <4>1, <4>2
    <3>6. ~DownKeyed
      BY <1>1 DEF DownKeyed
    <3> QED BY <3>3, <3>4, <3>5, <3>6, DownMoves
  <2> QED BY <2>1, <2>2
<1>2. ASSUME reader' = "keyed"
      PROVE  sBound' = {far'.bind}
  <2>1. CASE DownKeyed
    BY <2>1, ReaderBound DEF DownKeyed
  <2>2. CASE ~DownKeyed
    <3>1. reader = "keyed" /\ sBound = {far.bind}
      BY <1>0, <1>2, <2>2, ReaderMoves DEF ReaderSound
    <3>2. far'.bind = far.bind
      BY <2>2, DownMoves DEF DownStays, DownHeard, DownSays, SameKeys
    <3>3. sBound' = sBound
      BY <3>1, SessionMoves DEF SessionStays, SessionBinds, SessionCounts
    <3> QED BY <3>1, <3>2, <3>3
  <2> QED BY <2>1, <2>2
<1> QED BY <1>0, <1>1, <1>2 DEF ReaderSound

\* A connection that is closed stays so.
LEMMA ClosedStays ==
  ASSUME TrunkInv, SecureNext \/ UNCHANGED secureVars, closed # "no"
  PROVE  closed' = closed
<1>1. ~Open
  BY DEF Open
<1>2. CASE BindReturns
  <2>1. closed' = closed
    BY <1>1, <1>2, ReturnsFromBind DEF Hears
  <2> QED BY <2>1
<1>3. CASE ClientHears
  <2>1. closed' = closed
    BY <1>1, <1>3, HearsOutside DEF Hears
  <2> QED BY <2>1
<1> QED BY <1>1, <1>2, <1>3 DEF SecureNext, secureVars, Renew, BindWithoutSl1, BindSetsAuth, MayBind,
     BindSends, ClientSendsRequest, ReceiveUnsigned, ReceiveBind, Takes,
     ServerSetsAuth, ServerConfirms, ReceiveRequest, WorkerSends

\* Only bind() re-keys the client's connection, and only it uses the number 1.
LEMMA CallStep ==
  ASSUME TrunkInv, ~Repeats, TrunkTyped', SecureNext \/ UNCHANGED secureVars
  PROVE  CallSound'
<1>0. TrunkTyped /\ CallSound /\ BindsOnce /\ near \in EndStates /\ Leases' = Leases
  BY LeasesStay DEF TrunkInv, TrunkTyped
<1>s. \A f : UpSays(f) => ~UpTaken
  BY DEF UpSays, UpTaken, Grows, Drops
<1>1. ASSUME caller'.pc = "keyed"
      PROVE  /\ near'.bind \in Leases /\ near'.bind.sl1 /\ FreshNext(near'.bind)
             /\ ~overlapped' => near'.next = 1
  <2>1. CASE BindSetsAuth
    <3>1. PICK b \in Leases : near' = WithAuth(near, b) /\ b.sl1 /\ b \notin tried
          /\ sBound' = sBound /\ far' = far /\ down' = down
      BY <1>0, <2>1, BindKeys
    <3>2. near'.bind = b /\ near'.next = 1
      BY <1>0, <3>1, EndsTyped
    <3>3. FreshNext(b)
      BY <1>0, <3>1 DEF BindsOnce, Fresh, FreshNext
    <3> QED BY <3>1, <3>2, <3>3
  <2>2. CASE ~BindSetsAuth
    <3>1. caller.pc = "keyed" /\ caller' = caller /\ ~BindSends /\ ~BindWithoutSl1
      BY <1>1, <2>2, CallMoves
    <3>2. PICK b \in Leases : b = near.bind
      BY <1>0, <3>1 DEF CallSound
    <3>3. b.sl1 /\ Fresh(b) /\ (~overlapped => near.next = 1)
      BY <1>0, <3>1, <3>2 DEF CallSound
    <3>4. b \notin sBound'
      <4>1. ASSUME NEW f, SessionBinds(f) PROVE f.bind # b
        <5>1. 1 \in DOMAIN up /\ up[1].kind = "bind" /\ up[1] = f
          <6>1. up \in Seq(TrunkFrames)
            BY <1>0 DEF TrunkTyped
          <6> QED BY <4>1, <6>1 DEF SessionBinds
        <5> QED BY <1>0, <3>1, <3>2, <5>1 DEF BindsOnce
      <4>2. b \notin sBound
        BY <3>3 DEF Fresh
      <4> QED BY <4>1, <4>2, SessionMoves DEF SessionStays, SessionBinds, SessionCounts
    <3>5. FreshNext(b)
      BY <1>0, <3>3, <3>4, FreshStays
    <3>6. near'.bind = near.bind
      BY <2>2, <3>1, UpMoves DEF UpStays, UpKeyed, UpSays, UpTaken, SameKeys
    <3>7. ASSUME ~overlapped' PROVE near'.next = 1
      <4>1. ~ClientSendsRequest
        BY <3>1, <3>7 DEF ClientSendsRequest
      <4>2. ~overlapped
        BY <3>7 DEF SecureNext, secureVars, historyVars, Renew, BindWithoutSl1, BindSetsAuth,
           BindSends, BindReturns, ClientHears, ClientSendsRequest, ReceiveUnsigned, ReceiveBind,
           ServerSetsAuth, ServerConfirms, ReceiveRequest, WorkerSends
      <4>3. near'.next = near.next
        BY <2>2, <3>1, <4>1, UpMoves DEF UpStays, UpKeyed, UpSays, UpTaken, SameKeys
      <4> QED BY <3>3, <4>2, <4>3
    <3> QED BY <3>2, <3>3, <3>5, <3>6, <3>7
  <2> QED BY <2>1, <2>2
<1>2. ASSUME caller'.pc = "awaiting" PROVE near'.bind \in Leases
  <2>1. ~BindSetsAuth /\ ~BindWithoutSl1 /\ near.bind \in Leases
    BY <1>0, <1>2, CallMoves, BindKeys, BindsPlainly DEF CallSound
  <2>2. near'.bind = near.bind
    BY <2>1, UpMoves DEF UpStays, UpKeyed, UpSays, UpTaken, SameKeys
  <2> QED BY <2>1, <2>2
<1>3. caller'.told = "bound" => caller'.pc = "idle"
  BY <1>0, CallMoves DEF CallSound
<1>4. ASSUME closed' = "no", near'.active, near'.next = 1 PROVE caller'.pc = "keyed"
  <2>1. Open
    BY <1>4, ClosedStays DEF Open
  <2>2. CASE UpKeyed
    BY <1>0, <2>2, BindKeys DEF UpKeyed
  <2>3. CASE UpStays \/ UpTaken
    <3>1. caller.pc = "keyed" /\ near.next = 1
      BY <1>0, <1>4, <2>1, <2>3 DEF UpStays, UpTaken, SameKeys, CallSound
    <3>2. CanSign(near)
      BY <3>1, TrunkAssumption DEF CanSign
    <3>3. ~(BindSends /\ Open /\ CanSign(near))
      <4>1. ASSUME BindSends, Open, CanSign(near) PROVE FALSE
        <5>1. up' = Append(up, Frame("bind", near.bind, near))
          BY <4>1 DEF BindSends
        <5>2. up \in Seq(TrunkFrames) /\ "bind" \in FrameKinds /\ near.bind \in Binds
              /\ (near.active <=> near.bind # NoBind)
          BY <1>0 DEF TrunkTyped, FrameKinds, EndStates
        <5>3. Frame("bind", near.bind, near) \in TrunkFrames
          BY <1>0, <4>1, <5>2, FramesTyped
        <5>4. Len(up') = Len(up) + 1 /\ Len(up) \in Nat
          BY <5>1, <5>2, <5>3
        <5>5. CASE up' = up
          BY <5>4, <5>5
        <5>6. CASE Drops(up, up')
          BY <5>4, <5>6 DEF Drops
        <5> QED BY <2>3, <5>5, <5>6 DEF UpStays, UpTaken
      <4> QED BY <4>1
    <3> QED BY <2>1, <3>1, <3>2, <3>3, CallMoves
  <2>4. CASE \E f : UpSays(f)
    <3>1. PICK f : UpSays(f)
      BY <2>4
    <3>2. CASE BindWithoutSl1 /\ near' = near
      <4>1. caller.pc = "keyed"
        BY <1>0, <1>4, <2>1, <3>2 DEF CallSound
      <4> QED BY <1>0, <3>2, <4>1, BindsPlainly
    <3>3. CASE near'.active = near.active /\ (near.active => near'.next = near.next + 1)
      <4>1. near.next \in Nat \ {0}
        BY <1>0, TrunkAssumption DEF EndStates
      <4> QED BY <1>4, <3>3, <4>1
    <3> QED BY <3>1, <3>2, <3>3 DEF UpSays
  <2> QED BY <2>2, <2>3, <2>4, UpMoves
<1> QED BY <1>0, <1>1, <1>2, <1>3, <1>4 DEF CallSound, Fresh, FreshNext, Open

\* The first frame of a trunk that keeps its order is served; a bind signs with number 1.
LEMMA HonestStep ==
  ASSUME TrunkInv, SecureNext \/ UNCHANGED secureVars
  PROVE  HonestSound'
<1>0. TrunkTyped /\ HonestSound /\ InOrderSound /\ BindingSound
  BY DEF TrunkInv
<1>1. overlapped \in BOOLEAN /\ (overlapped => overlapped')
  BY <1>0 DEF TrunkTyped, SecureNext, secureVars, historyVars, Renew, BindWithoutSl1, BindSetsAuth,
     BindSends, BindReturns, ClientHears, ClientSendsRequest, ReceiveUnsigned, ReceiveBind,
     ServerSetsAuth, ServerConfirms, ReceiveRequest, WorkerSends
<1>2. CASE closed # "no"
  BY <1>0, <1>1, <1>2, ClosedStays DEF HonestSound
<1>3. CASE closed = "no" /\ ~overlapped
  <2>0. InOrder /\ Open
    BY <1>0, <1>3 DEF InOrderSound, Open
  <2>1. CASE ReceiveBind
    <3>1. PICK f : f = up[1]
      OBVIOUS
    <3>2. /\ f.kind = "bind" /\ 1 \in DOMAIN up
          /\ \/ UNCHANGED closed
             \/ Close(IF BindVerifies(f) THEN "lease" ELSE "auth")
      BY <2>1, <3>1, ReceivesBind
    <3>3. BindVerifies(f)
      BY <2>0, <3>1, <3>2 DEF InOrder, BindVerifies
    <3> QED BY <1>3, <3>2, <3>3, CloseSays DEF HonestSound
  <2>2. CASE ReceiveRequest
    <3>1. PICK f : f = up[1]
      OBVIOUS
    <3>2. /\ f.kind = "request" /\ up # <<>> /\ ~Refuses(far, f)
          /\ \/ ~Verifies(f) /\ Close("auth")
             \/ Close("unbound")
             \/ UNCHANGED closed
      BY <2>2, <3>1, ReceivesRequest
    <3>3. ASSUME sAuth.active PROVE f.seq # 0
      BY <1>0, <3>2, <3>3 DEF BindingSound, Refuses
    <3>4. Verifies(f)
      BY <2>0, <3>1, <3>2, <3>3 DEF InOrder, Verifies
    <3> QED BY <1>3, <3>2, <3>4, CloseSays DEF HonestSound
  <2>3. CASE BindReturns
    <3>1. closed' \in {closed, "unsigned"}
      BY <2>3, ReturnsFromBind DEF Hears
    <3> QED BY <1>3, <3>1 DEF HonestSound
  <2>4. CASE ClientHears
    <3>1. closed' \in {closed, "unsigned"}
      BY <2>4, HearsOutside DEF Hears
    <3> QED BY <1>3, <3>1 DEF HonestSound
  <2>5. CASE ReceiveUnsigned
    BY <2>5 DEF ReceiveUnsigned, HonestSound
  <2>6. CASE \/ Renew \/ BindWithoutSl1 \/ BindSetsAuth \/ BindSends \/ ClientSendsRequest
             \/ ServerSetsAuth \/ ServerConfirms \/ WorkerSends \/ UNCHANGED secureVars
    <3>1. closed' = closed
      BY <2>6 DEF secureVars, Renew, BindWithoutSl1, BindSetsAuth, BindSends, ClientSendsRequest,
         ServerSetsAuth, ServerConfirms, WorkerSends
    <3> QED BY <1>3, <3>1 DEF HonestSound
  <2> QED BY <2>1, <2>2, <2>3, <2>4, <2>5, <2>6 DEF SecureNext
<1>4. CASE overlapped
  BY <1>1, <1>4 DEF HonestSound
<1> QED BY <1>1, <1>2, <1>3, <1>4

\* The third part of InOrder.
HeadInOrder ==
  up # <<>> /\ sAuth.active /\ up[1].kind = "request" /\ up[1].seq # 0 =>
    up[1].seq = sAuth.in /\ up[1].under \in sBound

\* Overlap is recorded when it happens and never forgotten.
LEMMA OverlapMoves ==
  ASSUME TrunkInv, SecureNext \/ UNCHANGED secureVars
  PROVE  /\ overlapped => overlapped'
         /\ ClientSendsRequest /\ caller.pc = "keyed" => overlapped'
<1>1. CASE ClientSendsRequest
  BY <1>1 DEF ClientSendsRequest, TrunkInv, TrunkTyped
<1>2. CASE ~ClientSendsRequest
  <2>1. overlapped' = overlapped
    BY <1>2 DEF SecureNext, secureVars, historyVars, Renew, BindWithoutSl1, BindSetsAuth,
       BindSends, BindReturns, ClientHears, ReceiveUnsigned, ReceiveBind,
       ServerSetsAuth, ServerConfirms, ReceiveRequest, WorkerSends
  <2> QED BY <1>2, <2>1
<1> QED BY <1>1, <1>2

\* Without overlap the chain of frames to the runtime stays in order across a bind.
LEMMA InOrderStep ==
  ASSUME TrunkInv, ~Repeats, TrunkTyped', SecureNext \/ UNCHANGED secureVars,
         ~overlapped', closed' = "no"
  PROVE  InOrder'
<1>0. /\ TrunkTyped /\ CallSound /\ BindingSound /\ InOrder /\ Open /\ ~overlapped
      /\ near \in EndStates /\ LastSeq \in Nat /\ LastSeq > 1
      /\ ~(ClientSendsRequest /\ caller.pc = "keyed")
      /\ sAuth.in \in Nat /\ near.next \in Nat /\ near.next <= LastSeq
  <2>1. TrunkTyped /\ CallSound /\ BindingSound /\ InOrderSound
    BY DEF TrunkInv
  <2>2. Open /\ ~overlapped /\ ~(ClientSendsRequest /\ caller.pc = "keyed")
    BY ClosedStays, OverlapMoves DEF Open
  <2>3. InOrder
    BY <2>1, <2>2 DEF InOrderSound
  <2> QED BY <2>1, <2>2, <2>3, TrunkAssumption, NumbersTyped
<1>q. \A i \in DOMAIN up : i > 1 /\ up[i].kind = "request" /\ up[i].seq # 0 =>
        Precedes(up[i - 1], up[i].under, up[i].seq)
  BY <1>0 DEF InOrder
<1>n. near.active /\ near.next # 1 /\ up # <<>> => Precedes(up[Len(up)], near.bind, near.next)
  BY <1>0 DEF InOrder
<1> USE QueuesTyped
\* The frame at the head that is processed leaves the session expecting what follows it.
<1>1. ASSUME UpTaken
      PROVE  /\ up' # <<>> /\ up'[1].kind = "request" /\ up'[1].seq # 0 /\ sAuth'.active =>
                  up'[1].seq = sAuth'.in /\ up'[1].under \in sBound'
             /\ up' = <<>> /\ near.active /\ near.next # 1 /\ sAuth'.active =>
                  near.next = sAuth'.in /\ near.bind \in sBound'
  <2>1. \A under, seq : Precedes(up[1], under, seq) /\ sAuth'.active =>
           seq = sAuth'.in /\ under \in sBound'
    <3>1. CASE \E f : SessionBinds(f)
      <4>1. PICK f : SessionBinds(f)
        BY <3>1
      <4>2. f = up[1] /\ f.kind = "bind" /\ 1 \in DOMAIN up /\ sBound' = {f.bind}
            /\ (sAuth'.active <=> f.bind.sl1) /\ (f.bind.sl1 => sAuth'.in = 2)
        BY <4>1 DEF SessionBinds
      <4>3. f.bind.sl1 => f.seq = 1 /\ f.under = f.bind
        BY <1>0, <4>2 DEF InOrder
      <4> QED BY <4>2, <4>3 DEF Precedes
    <3>2. CASE \E f : SessionCounts(f)
      <4>1. PICK f : SessionCounts(f)
        BY <3>2
      <4>2. f = up[1] /\ f.kind = "request" /\ Verifies(f) /\ ~Refuses(far, f)
            /\ sBound' = sBound /\ sAuth'.active = sAuth.active /\ f \in TrunkFrames
            /\ (sAuth.active => sAuth'.in = IF sAuth.in < LastSeq THEN sAuth.in + 1 ELSE sAuth.in)
        <5>1. 1 \in DOMAIN up
          BY <4>1 DEF SessionCounts
        <5> QED BY <4>1, <5>1 DEF SessionCounts
      <4>3. ASSUME sAuth.active
            PROVE  f.seq # 0 /\ f.seq = sAuth.in /\ f.under \in sBound /\ sAuth'.in = f.seq + 1
        <5>1. f.seq # 0
          BY <1>0, <4>2, <4>3 DEF BindingSound, Refuses
        <5>2. f.seq = sAuth.in /\ f.under \in sBound
          BY <4>2, <4>3 DEF Verifies
        <5>3. f.seq < LastSeq
          BY <1>0, <4>2 DEF TrunkFrames
        <5> QED BY <1>0, <4>2, <4>3, <5>1, <5>2, <5>3
      <4> QED BY <4>2, <4>3 DEF Precedes
    <3> QED BY <1>1, <3>1, <3>2, TakenIsServed
  <2>2. Len(up) = Len(up') + 1 /\ \A i \in 1..Len(up') : up'[i] = up[i + 1]
    BY <1>1 DEF UpTaken, Drops
  <2>3. ASSUME up' # <<>>, up'[1].kind = "request", up'[1].seq # 0
        PROVE  Precedes(up[1], up'[1].under, up'[1].seq)
    <3>1. up'[1] = up[2] /\ 2 \in DOMAIN up
      <4>1. Len(up') \in Nat /\ Len(up') # 0
        BY <2>3
      <4>2. 1 \in 1..Len(up') /\ 2 \in 1..Len(up)
        BY <2>2, <4>1
      <4>3. up'[1] = up[1 + 1] /\ 1 + 1 = 2
        <5> HIDE QueuesTyped
        <5> QED BY <2>2, <4>2
      <4> QED BY <4>2, <4>3
    <3>2. up[2].kind = "request" /\ up[2].seq # 0
      BY <2>3, <3>1
    <3>3. Precedes(up[2 - 1], up[2].under, up[2].seq)
      BY <1>0, <3>1, <3>2 DEF InOrder
    <3>4. 2 - 1 = 1
      OBVIOUS
    <3> QED BY <3>1, <3>3, <3>4
  <2>4. ASSUME up' = <<>>, near.active, near.next # 1
        PROVE  Precedes(up[1], near.bind, near.next)
    <3>1. Len(up) = 1 /\ up # <<>>
      <4>1. Len(up') = 0
        BY <2>4
      <4>2. Len(up) = 1
        BY <2>2, <4>1
      <4> QED BY <1>1, <4>2 DEF UpTaken, Drops
    <3> QED BY <1>0, <2>4, <3>1 DEF InOrder
  <2> QED BY <2>1, <2>3, <2>4
<1>k. ~UpTaken => SessionStays
  <2>1. \A f : SessionBinds(f) \/ SessionCounts(f) => UpTaken
    BY DEF SessionBinds, SessionCounts, UpTaken
  <2> QED BY <2>1, SessionMoves
\* A request sent now follows the last frame.
<1>l. ASSUME NEW f, UpSays(f), f.kind = "request", f.seq # 0
      PROVE  /\ up # <<>> => Precedes(up[Len(up)], f.under, f.seq)
             /\ up = <<>> /\ sAuth.active => f.seq = sAuth.in /\ f.under \in sBound
  <2>1. ClientSendsRequest /\ near.active /\ f.under = near.bind /\ f.seq = near.next
    BY <1>l DEF UpSays
  <2>2. near.next # 1
    BY <1>0, <2>1 DEF CallSound
  <2> QED BY <1>0, <2>1, <2>2 DEF InOrder
<1>2. ASSUME NEW i \in DOMAIN up', i > 1, up'[i].kind = "request", up'[i].seq # 0
      PROVE  Precedes(up'[i - 1], up'[i].under, up'[i].seq)
  <2>0. i - 1 \in DOMAIN up'
    BY <1>2
  <2>1. CASE i \in DOMAIN up /\ up'[i] = up[i] /\ ~UpTaken
    <3>1. up'[i - 1] = up[i - 1]
      BY <2>0, <2>1, UpOrigin
    <3> QED BY <1>0, <1>2, <2>1, <3>1 DEF InOrder
  <2>2. CASE UpTaken /\ i + 1 \in DOMAIN up /\ up'[i] = up[i + 1]
    <3>1. up'[i - 1] = up[i]
      <4>1. i - 1 \in 1..Len(up') /\ (i - 1) + 1 = i
        BY <2>0
      <4>2. \A k \in 1..Len(up') : up'[k] = up[k + 1]
        BY <2>2 DEF UpTaken, Drops
      <4> QED BY <4>1, <4>2
    <3>2. PICK k \in DOMAIN up : k = i + 1 /\ k > 1 /\ k - 1 = i
      <4>1. i \in Nat /\ i + 1 > 1 /\ (i + 1) - 1 = i
        BY <1>2
      <4>2. PICK k \in DOMAIN up : k = i + 1
        BY <2>2
      <4> QED BY <4>1, <4>2
    <3>3. up[k].kind = "request" /\ up[k].seq # 0 /\ up[k] = up'[i]
      <4>1. up[k] = up'[i]
        BY <2>2, <3>2
      <4>2. up[k].kind = up'[i].kind /\ up[k].seq = up'[i].seq
        BY <4>1
      <4> QED BY <1>2, <4>1, <4>2
    <3>4. Precedes(up[k - 1], up[k].under, up[k].seq)
      BY <1>q, <3>2, <3>3
    <3> QED BY <3>1, <3>2, <3>3, <3>4
  <2>3. CASE UpSays(up'[i]) /\ i = Len(up) + 1
    <3>1. up # <<>> /\ i - 1 = Len(up) /\ i - 1 \in DOMAIN up
      <4>1. i - 1 = Len(up) /\ Len(up) >= 1
        BY <1>2, <2>3
      <4> QED BY <4>1
    <3>2. up'[i - 1] = up[i - 1]
      BY <2>3, <3>1 DEF UpSays, Grows
    <3> QED BY <1>2, <1>l, <2>3, <3>1, <3>2
  <2> QED BY <2>1, <2>2, <2>3, UpOrigin
<1>3. ASSUME near'.active, near'.next # 1
      PROVE  IF up' = <<>> THEN sAuth'.active => near'.next = sAuth'.in /\ near'.bind \in sBound'
                           ELSE Precedes(up'[Len(up')], near'.bind, near'.next)
  <2>1. CASE UpStays
    <3>1. SessionStays
      BY <1>k, <2>1 DEF UpStays, UpTaken, Drops
    <3> QED BY <1>0, <1>3, <2>1, <3>1 DEF UpStays, SameKeys, SessionStays, InOrder
  <2>2. CASE \E f : UpSays(f)
    <3>1. PICK f : UpSays(f)
      BY <2>2
    <3>2. up' # <<>> /\ up'[Len(up')] = f
      BY <3>1 DEF UpSays, Grows
    <3>3. f.seq = 0 \/ (f.under = near'.bind /\ f.seq + 1 = near'.next)
      BY <1>3, <3>1 DEF UpSays
    <3> QED BY <3>2, <3>3 DEF Precedes
  <2>3. CASE UpTaken
    <3>1. near' = near
      BY <2>3 DEF UpTaken
    <3>2. CASE up' = <<>>
      BY <1>1, <1>3, <2>3, <3>1, <3>2
    <3>3. CASE up' # <<>>
      <4>1. Len(up') >= 1
        BY <3>3
      <4>2. up # <<>> /\ up'[Len(up')] = up[Len(up)]
        <5>1. up # <<>> /\ Len(up) = Len(up') + 1 /\ \A k \in 1..Len(up') : up'[k] = up[k + 1]
          BY <2>3 DEF UpTaken, Drops
        <5> QED BY <4>1, <5>1
      <4>3. Precedes(up[Len(up)], near.bind, near.next)
        BY <1>3, <1>n, <3>1, <4>2
      <4> QED BY <3>1, <3>3, <4>2, <4>3
    <3> QED BY <3>2, <3>3
  <2> QED BY <1>3, <2>1, <2>2, <2>3, UpMoves DEF UpKeyed
<1>4. HeadInOrder'
  <2>1. CASE UpStays \/ UpKeyed
    <3>1. SessionStays /\ up' = up
      BY <1>k, <2>1 DEF UpStays, UpKeyed, UpTaken, Drops
    <3> QED BY <1>0, <3>1 DEF SessionStays, InOrder, HeadInOrder
  <2>2. CASE \E f : UpSays(f)
    <3>1. PICK f : UpSays(f)
      BY <2>2
    <3>2. SessionStays
      BY <1>k, <3>1 DEF UpSays, UpTaken, Grows, Drops
    <3>3. CASE up = <<>>
      <4>1. Len(up) = 0
        BY <3>3
      <4>2. up'[1] = f
        BY <3>1, <4>1 DEF UpSays, Grows
      <4> QED BY <1>l, <3>1, <3>2, <3>3, <4>2 DEF SessionStays, HeadInOrder
    <3>4. CASE up # <<>>
      <4>1. Len(up) >= 1
        BY <3>4
      <4>2. up'[1] = up[1]
        BY <3>1, <4>1 DEF UpSays, Grows
      <4> QED BY <1>0, <3>2, <3>4, <4>2 DEF SessionStays, HeadInOrder, InOrder
    <3> QED BY <3>3, <3>4
  <2>3. CASE UpTaken
    BY <1>1, <2>3 DEF HeadInOrder
  <2> QED BY <2>1, <2>2, <2>3, UpMoves
<1>5. ASSUME NEW i \in DOMAIN up', up'[i].kind = "bind", up'[i].bind.sl1
      PROVE  up'[i].seq = 1 /\ up'[i].under = up'[i].bind
  <2>1. CASE \E j \in DOMAIN up : up'[i] = up[j]
    BY <1>0, <1>5, <2>1 DEF InOrder
  <2>2. CASE UpSays(up'[i])
    <3>1. BindSends /\ near.bind = up'[i].bind /\ up'[i].under = near.bind
          /\ caller.pc = "keyed" /\ up'[i].seq = IF near.active THEN near.next ELSE 0
      <4>1. BindSends /\ up'[i].bind = near.bind /\ up'[i].under = near.bind
            /\ up'[i].seq = IF near.active THEN near.next ELSE 0
        BY <1>5, <2>2 DEF UpSays
      <4> QED BY <4>1 DEF BindSends
    <3>2. near.next = 1 /\ near.active
      BY <1>0, <3>1, LeaseTyped DEF CallSound, TrunkTyped
    <3> QED BY <3>1, <3>2
  <2> QED BY <2>1, <2>2, UpOrigin
<1> QED BY <1>2, <1>3, <1>4, <1>5 DEF InOrder, HeadInOrder

-----------------------------------------------------------------------------

\* A request sent after a bind on its way keeps it pending ...
LEMMA PendingGrows ==
  ASSUME NEW S, NEW q \in Seq(S), NEW r \in Seq(S), NEW n \in Nat, NEW b, NEW f,
         PendingIn(q, n, b), Grows(q, r, f), f.kind = "request", f.under = b, f.seq = n
  PROVE  PendingIn(r, n + 1, b)
<1>1. DOMAIN q = 1..Len(q) /\ DOMAIN r = 1..Len(r) /\ Len(q) \in Nat
      /\ Len(r) = Len(q) + 1 /\ r[Len(q) + 1] = f /\ \A i \in 1..Len(q) : r[i] = q[i]
  BY DEF Grows
<1>2. PICK j \in DOMAIN q :
    /\ q[j].kind = "bind" /\ q[j].bind = b /\ b.sl1
    /\ \A i \in DOMAIN q :
         i >= j => q[i].under = b /\ q[i].seq = n - Len(q) - 1 + i
                   /\ (i > j => q[i].kind = "request")
  BY DEF PendingIn
<1>3. j \in DOMAIN r /\ r[j] = q[j]
  BY <1>1
<1>4. ASSUME NEW i \in DOMAIN r, i >= j
      PROVE  r[i].under = b /\ r[i].seq = (n + 1) - Len(r) - 1 + i
             /\ (i > j => r[i].kind = "request")
  <2>1. CASE i \in 1..Len(q)
    <3>1. r[i] = q[i] /\ q[i].under = b /\ q[i].seq = n - Len(q) - 1 + i
          /\ (i > j => q[i].kind = "request")
      BY <1>1, <1>2, <1>4, <2>1
    <3>2. n - Len(q) - 1 + i = (n + 1) - Len(r) - 1 + i
      BY <1>1
    <3> QED BY <3>1, <3>2
  <2>2. CASE i = Len(q) + 1
    BY <1>1, <2>2
  <2> QED BY <1>1, <2>1, <2>2
<1> QED BY <1>2, <1>3, <1>4 DEF PendingIn

\* ... so does the runtime's taking a frame before it ...
LEMMA PendingDrops ==
  ASSUME NEW S, NEW q \in Seq(S), NEW r \in Seq(S), NEW n \in Nat, NEW b,
         PendingIn(q, n, b), Drops(q, r), ~(q[1].kind = "bind" /\ q[1].bind = b)
  PROVE  PendingIn(r, n, b)
<1>1. DOMAIN q = 1..Len(q) /\ DOMAIN r = 1..Len(r) /\ Len(q) \in Nat /\ Len(r) \in Nat
      /\ Len(q) = Len(r) + 1 /\ \A i \in 1..Len(r) : r[i] = q[i + 1]
  BY DEF Drops
<1>2. PICK j \in DOMAIN q :
    /\ q[j].kind = "bind" /\ q[j].bind = b /\ b.sl1
    /\ \A i \in DOMAIN q :
         i >= j => q[i].under = b /\ q[i].seq = n - Len(q) - 1 + i
                   /\ (i > j => q[i].kind = "request")
  BY DEF PendingIn
<1>3. j - 1 \in DOMAIN r /\ r[j - 1] = q[j]
  BY <1>1, <1>2
<1>4. ASSUME NEW i \in DOMAIN r, i >= j - 1
      PROVE  r[i].under = b /\ r[i].seq = n - Len(r) - 1 + i
             /\ (i > j - 1 => r[i].kind = "request")
  <2>1. i + 1 \in DOMAIN q /\ i + 1 >= j /\ r[i] = q[i + 1]
    BY <1>1, <1>4
  <2>2. q[i + 1].under = b /\ q[i + 1].seq = n - Len(q) - 1 + (i + 1)
        /\ (i + 1 > j => q[i + 1].kind = "request")
    BY <1>2, <2>1
  <2> QED BY <1>1, <2>1, <2>2
<1> QED BY <1>2, <1>3, <1>4 DEF PendingIn

\* ... it starts with the bind's being sent ...
LEMMA PendingStarts ==
  ASSUME NEW S, NEW q \in Seq(S), NEW r \in Seq(S), NEW n \in Nat, NEW b, NEW f,
         Grows(q, r, f), f.kind = "bind", f.bind = b, b.sl1, f.under = b, f.seq = n
  PROVE  PendingIn(r, n + 1, b)
<1>1. DOMAIN r = 1..Len(r) /\ Len(q) \in Nat /\ Len(r) = Len(q) + 1 /\ r[Len(q) + 1] = f
  BY DEF Grows
<1>2. Len(r) \in DOMAIN r /\ r[Len(r)] = f
  BY <1>1
<1>3. ASSUME NEW i \in DOMAIN r, i >= Len(r) PROVE i = Len(r)
  BY <1>1, <1>3
<1> QED BY <1>1, <1>2, <1>3 DEF PendingIn

\* ... and once the bind is taken what remains are the numbers from 2 on.
LEMMA PendingIsServed ==
  ASSUME NEW S, NEW q \in Seq(S), NEW r \in Seq(S), NEW n \in Nat, NEW b,
         PendingIn(q, n, b), Drops(q, r), q[1].seq = 1,
         \A j \in DOMAIN q : q[j].kind = "bind" /\ q[j].bind = b => j = 1
  PROVE  ServedIn(r, n, 2, b)
<1>1. DOMAIN q = 1..Len(q) /\ DOMAIN r = 1..Len(r) /\ Len(q) \in Nat /\ Len(r) \in Nat
      /\ Len(q) = Len(r) + 1 /\ \A i \in 1..Len(r) : r[i] = q[i + 1]
  BY DEF Drops
<1>2. PICK j \in DOMAIN q :
    /\ q[j].kind = "bind" /\ q[j].bind = b /\ b.sl1
    /\ \A i \in DOMAIN q :
         i >= j => q[i].under = b /\ q[i].seq = n - Len(q) - 1 + i
                   /\ (i > j => q[i].kind = "request")
  BY DEF PendingIn
<1>3. j = 1
  BY <1>2
<1>4. n = Len(q) + 1
  <2>1. q[1].seq = n - Len(q) - 1 + 1
    BY <1>2, <1>3
  <2> QED BY <1>1, <2>1
<1>5. ASSUME NEW i \in DOMAIN r
      PROVE  r[i].kind = "request" /\ r[i].under = b /\ r[i].seq = 2 + i - 1
  <2>1. i + 1 \in DOMAIN q /\ i + 1 >= j /\ i + 1 > j /\ r[i] = q[i + 1]
    BY <1>1, <1>3
  <2>2. q[i + 1].under = b /\ q[i + 1].seq = n - Len(q) - 1 + (i + 1) /\ q[i + 1].kind = "request"
    BY <1>2, <2>1
  <2> QED BY <1>1, <1>4, <2>1, <2>2
<1> QED BY <1>1, <1>4, <1>5 DEF ServedIn

\* Numbers served in order stay so, sent at one end and taken at the other.
LEMMA ServedMoves ==
  ASSUME NEW S, NEW q \in Seq(S), NEW r \in Seq(S), NEW n \in Nat, NEW in \in Nat, NEW b,
         ServedIn(q, n, in, b)
  PROVE  /\ \A f : Grows(q, r, f) /\ f.kind = "request" /\ f.under = b /\ f.seq = n =>
               ServedIn(r, n + 1, in, b)
         /\ Drops(q, r) => ServedIn(r, n, in + 1, b) /\ q[1].kind = "request" /\ q[1].under = b
                           /\ q[1].seq = in /\ in < n
<1>1. DOMAIN q = 1..Len(q) /\ DOMAIN r = 1..Len(r) /\ Len(q) \in Nat /\ Len(r) \in Nat
  OBVIOUS
<1>2. n = in + Len(q) /\ \A i \in DOMAIN q :
         q[i].kind = "request" /\ q[i].under = b /\ q[i].seq = in + i - 1
  BY DEF ServedIn
<1>3. ASSUME NEW f, Grows(q, r, f), f.kind = "request", f.under = b, f.seq = n
      PROVE  ServedIn(r, n + 1, in, b)
  <2>1. Len(r) = Len(q) + 1 /\ r[Len(q) + 1] = f /\ \A i \in 1..Len(q) : r[i] = q[i]
    BY <1>3 DEF Grows
  <2>2. ASSUME NEW i \in DOMAIN r
        PROVE  r[i].kind = "request" /\ r[i].under = b /\ r[i].seq = in + i - 1
    <3>1. CASE i \in 1..Len(q)
      BY <1>1, <1>2, <2>1, <3>1
    <3>2. CASE i = Len(q) + 1
      BY <1>1, <1>2, <1>3, <2>1, <3>2
    <3> QED BY <1>1, <2>1, <3>1, <3>2
  <2> QED BY <1>1, <1>2, <2>1, <2>2 DEF ServedIn
<1>4. ASSUME Drops(q, r)
      PROVE  ServedIn(r, n, in + 1, b) /\ q[1].kind = "request" /\ q[1].under = b
             /\ q[1].seq = in /\ in < n
  <2>1. Len(q) = Len(r) + 1 /\ \A i \in 1..Len(r) : r[i] = q[i + 1]
    BY <1>4 DEF Drops
  <2>2. ASSUME NEW i \in DOMAIN r
        PROVE  r[i].kind = "request" /\ r[i].under = b /\ r[i].seq = (in + 1) + i - 1
    <3>1. i + 1 \in DOMAIN q /\ r[i] = q[i + 1]
      BY <1>1, <2>1
    <3>2. q[i + 1].kind = "request" /\ q[i + 1].under = b /\ q[i + 1].seq = in + (i + 1) - 1
      BY <1>2, <3>1
    <3> QED BY <3>1, <3>2
  <2>3. n = (in + 1) + Len(r) /\ in < n
    BY <1>1, <1>2, <2>1
  <2>4. 1 \in DOMAIN q
    BY <1>1, <2>1
  <2>5. q[1].kind = "request" /\ q[1].under = b /\ q[1].seq = in + 1 - 1
    BY <1>2, <2>4
  <2>6. ServedIn(r, n, in + 1, b)
    BY <2>2, <2>3 DEF ServedIn
  <2> QED BY <2>3, <2>5, <2>6
<1> QED BY <1>3, <1>4

\* Nothing under the bind yet.
LEMMA RestartsFresh ==
  ASSUME NEW S, NEW q \in Seq(S), NEW bind, NEW next, NEW b,
         \A i \in DOMAIN q : q[i].under # b, bind = b => next = 1
  PROVE  RestartsIn(q, bind, next, b)
<1>1. PICK k \in 0..Len(q) : k = Len(q)
  OBVIOUS
<1>2. \A i \in DOMAIN q : i <= k
  BY <1>1
<1>3. IF bind = b THEN next = Len(q) - k + 1 ELSE k = Len(q)
  BY <1>1
<1> QED BY <1>2, <1>3 DEF RestartsIn

\* One more frame, under whichever bind the runtime signs with.
LEMMA RestartsSays ==
  ASSUME NEW S, NEW q \in Seq(S), NEW r \in Seq(S), NEW bind, NEW next, NEW m, NEW b, NEW f,
         RestartsIn(q, bind, next, b), Grows(q, r, f), f.under = bind,
         bind = b => f.seq = next /\ m = next + 1
  PROVE  RestartsIn(r, bind, m, b)
<1>1. DOMAIN q = 1..Len(q) /\ DOMAIN r = 1..Len(r) /\ Len(q) \in Nat
      /\ Len(r) = Len(q) + 1 /\ r[Len(q) + 1] = f /\ \A i \in 1..Len(q) : r[i] = q[i]
  BY DEF Grows
<1>2. PICK k \in 0..Len(q) :
    /\ \A i \in DOMAIN q :
         IF i <= k THEN q[i].under # b ELSE q[i].under = b /\ q[i].seq = i - k
    /\ IF bind = b THEN next = Len(q) - k + 1 ELSE k = Len(q)
  BY DEF RestartsIn
<1>3. CASE bind = b
  <2>1. k \in 0..Len(r) /\ m = Len(r) - k + 1
    BY <1>1, <1>2, <1>3
  <2>2. ASSUME NEW i \in DOMAIN r
        PROVE  IF i <= k THEN r[i].under # b ELSE r[i].under = b /\ r[i].seq = i - k
    <3>1. CASE i \in 1..Len(q)
      BY <1>1, <1>2, <3>1
    <3>2. CASE i = Len(q) + 1
      BY <1>1, <1>2, <1>3, <3>2
    <3> QED BY <1>1, <3>1, <3>2
  <2> QED BY <1>3, <2>1, <2>2 DEF RestartsIn
<1>4. CASE bind # b
  <2>1. Len(r) \in 0..Len(r)
    BY <1>1
  <2>2. ASSUME NEW i \in DOMAIN r
        PROVE  i <= Len(r) /\ r[i].under # b
    <3>1. CASE i \in 1..Len(q)
      BY <1>1, <1>2, <1>4, <3>1
    <3>2. CASE i = Len(q) + 1
      BY <1>1, <1>2, <1>4, <3>2
    <3> QED BY <1>1, <3>1, <3>2
  <2> QED BY <1>4, <2>1, <2>2 DEF RestartsIn
<1> QED BY <1>3, <1>4

\* The first frame under the bind is number 1: those behind it go on from 2.
LEMMA RestartsGoesOn ==
  ASSUME NEW S, NEW q \in Seq(S), NEW r \in Seq(S), NEW bind, NEW next, NEW b,
         RestartsIn(q, bind, next, b), Drops(q, r), \A i \in DOMAIN q : i = 1 => q[i].under = b
  PROVE  bind = b /\ GoesOnIn(r, next, 2, b)
<1>1. DOMAIN q = 1..Len(q) /\ DOMAIN r = 1..Len(r) /\ Len(q) \in Nat /\ Len(r) \in Nat
      /\ Len(q) = Len(r) + 1 /\ \A i \in 1..Len(r) : r[i] = q[i + 1]
  BY DEF Drops
<1>2. PICK k \in 0..Len(q) :
    /\ \A i \in DOMAIN q :
         IF i <= k THEN q[i].under # b ELSE q[i].under = b /\ q[i].seq = i - k
    /\ IF bind = b THEN next = Len(q) - k + 1 ELSE k = Len(q)
  BY DEF RestartsIn
<1>3. k = 0 /\ bind = b
  <2>1. 1 \in DOMAIN q
    BY <1>1
  <2>2. ~(1 <= k)
    BY <1>2, <2>1
  <2> QED BY <1>1, <1>2, <2>2
<1>4. ASSUME NEW i \in DOMAIN r
      PROVE  r[i].under = b /\ r[i].seq = 2 + i - 1
  <2>1. i + 1 \in DOMAIN q /\ r[i] = q[i + 1] /\ ~(i + 1 <= k)
    BY <1>1, <1>3
  <2>2. q[i + 1].under = b /\ q[i + 1].seq = (i + 1) - k
    BY <1>2, <2>1
  <2> QED BY <1>1, <1>3, <2>1, <2>2
<1>5. next = 2 + Len(r)
  BY <1>1, <1>2, <1>3
<1> QED BY <1>3, <1>4, <1>5 DEF GoesOnIn

\* A chain stays a chain, sent at one end and heard at the other.
LEMMA GoesOnMoves ==
  ASSUME NEW S, NEW q \in Seq(S), NEW r \in Seq(S), NEW next \in Nat, NEW n \in Nat, NEW b,
         GoesOnIn(q, next, n, b)
  PROVE  /\ \A f : Grows(q, r, f) /\ f.under = b /\ f.seq = next => GoesOnIn(r, next + 1, n, b)
         /\ Drops(q, r) => GoesOnIn(r, next, n + 1, b)
<1>1. DOMAIN q = 1..Len(q) /\ DOMAIN r = 1..Len(r) /\ Len(q) \in Nat /\ Len(r) \in Nat
  OBVIOUS
<1>2. next = n + Len(q) /\ \A i \in DOMAIN q : q[i].under = b /\ q[i].seq = n + i - 1
  BY DEF GoesOnIn
<1>3. ASSUME NEW f, Grows(q, r, f), f.under = b, f.seq = next
      PROVE  GoesOnIn(r, next + 1, n, b)
  <2>1. Len(r) = Len(q) + 1 /\ r[Len(q) + 1] = f /\ \A i \in 1..Len(q) : r[i] = q[i]
    BY <1>3 DEF Grows
  <2>2. ASSUME NEW i \in DOMAIN r
        PROVE  r[i].under = b /\ r[i].seq = n + i - 1
    <3>1. CASE i \in 1..Len(q)
      BY <1>1, <1>2, <2>1, <3>1
    <3>2. CASE i = Len(q) + 1
      BY <1>1, <1>2, <1>3, <2>1, <3>2
    <3> QED BY <1>1, <2>1, <3>1, <3>2
  <2> QED BY <1>1, <1>2, <2>1, <2>2 DEF GoesOnIn
<1>4. ASSUME Drops(q, r)
      PROVE  GoesOnIn(r, next, n + 1, b)
  <2>1. Len(q) = Len(r) + 1 /\ \A i \in 1..Len(r) : r[i] = q[i + 1]
    BY <1>4 DEF Drops
  <2>2. ASSUME NEW i \in DOMAIN r
        PROVE  r[i].under = b /\ r[i].seq = (n + 1) + i - 1
    <3>1. i + 1 \in DOMAIN q /\ r[i] = q[i + 1]
      BY <1>1, <2>1
    <3>2. q[i + 1].under = b /\ q[i + 1].seq = n + (i + 1) - 1
      BY <1>2, <3>1
    <3>3. i \in Nat /\ n + (i + 1) - 1 = (n + 1) + i - 1
      BY <1>1
    <3> QED BY <3>1, <3>2, <3>3
  <2>3. next = (n + 1) + Len(r)
    BY <1>1, <1>2, <2>1
  <2> QED BY <2>2, <2>3 DEF GoesOnIn
<1> QED BY <1>3, <1>4

\* The runtime serves b and every frame on its way up, now and in the next state.
Serves(b) == sBound = {b} /\ sAuth.active /\ ServedIn(up, near.next, sAuth.in, b)
ServesNext(b) == sBound' = {b} /\ sAuth'.active /\ ServedIn(up', near'.next, sAuth'.in, b)

\* The other steps of the client leave the keys as they are and send requests only.
LEMMA UpWhileBound ==
  ASSUME TrunkInv, SecureNext \/ UNCHANGED secureVars, caller.pc # "keyed",
         ~BindWithoutSl1, ~BindSetsAuth, near.active
  PROVE  /\ near'.active /\ near'.bind = near.bind
         /\ \/ UpStays /\ SessionStays
            \/ /\ SessionStays /\ near'.next = near.next + 1
               /\ \E f : Grows(up, up', f) /\ f.kind = "request" /\ f.under = near.bind
                         /\ f.seq = near.next
            \/ UpTaken
<1>1. \A f : SessionBinds(f) \/ SessionCounts(f) => UpTaken
  BY DEF SessionBinds, SessionCounts, UpTaken
<1>2. ~UpTaken => SessionStays
  BY <1>1, SessionMoves
<1>3. CASE UpStays
  <2>1. ~UpTaken
    BY <1>3 DEF UpStays, UpTaken, Drops
  <2> QED BY <1>2, <1>3, <2>1 DEF UpStays, SameKeys
<1>4. CASE \E f : UpSays(f)
  <2>1. PICK f : UpSays(f)
    BY <1>4
  <2>2. ~UpTaken
    BY <2>1 DEF UpSays, UpTaken, Grows, Drops
  <2>3. ~BindSends
    BY DEF BindSends
  <2> QED BY <1>2, <2>1, <2>2, <2>3 DEF UpSays
<1>5. CASE UpTaken
  BY <1>5 DEF UpTaken
<1> QED BY <1>3, <1>4, <1>5, UpMoves DEF UpKeyed

\* Once the runtime serves a bind it serves every frame sent under it.
LEMMA ServesStays ==
  ASSUME TrunkInv, TrunkTyped', SecureNext \/ UNCHANGED secureVars, caller.pc # "keyed",
         ~BindWithoutSl1, ~BindSetsAuth, near.active, NEW b, b = near.bind, Serves(b)
  PROVE  ServesNext(b)
<1>0. TrunkTyped /\ BindingSound /\ near.next \in Nat /\ sAuth.in \in Nat /\ near.next <= LastSeq
      /\ LastSeq \in Nat /\ sAuth.in # 0
  BY NumbersTyped DEF TrunkInv
<1> USE QueuesTyped
<1>1. CASE UpStays /\ SessionStays
  BY <1>1 DEF Serves, ServesNext, UpStays, SameKeys, SessionStays
<1>2. CASE /\ SessionStays /\ near'.next = near.next + 1
           /\ \E f : Grows(up, up', f) /\ f.kind = "request" /\ f.under = near.bind
                     /\ f.seq = near.next
  <2>1. PICK f : Grows(up, up', f) /\ f.kind = "request" /\ f.under = near.bind
                 /\ f.seq = near.next
    BY <1>2
  <2>2. ServedIn(up', near.next + 1, sAuth.in, b)
    BY <1>0, <2>1, ServedMoves DEF Serves
  <2> QED BY <1>2, <2>2 DEF Serves, ServesNext, SessionStays
<1>3. CASE UpTaken
  <2>1. PICK f : f = up[1]
    OBVIOUS
  <2>2. /\ ServedIn(up', near.next, sAuth.in + 1, b) /\ f.kind = "request" /\ f.under = b
        /\ f.seq = sAuth.in /\ sAuth.in < near.next
    <3>1. Drops(up, up') /\ ServedIn(up, near.next, sAuth.in, b)
      BY <1>3 DEF Serves, UpTaken
    <3> QED BY <1>0, <2>1, <3>1, ServedMoves
  <2>3. Verifies(f) /\ f.seq # 0 /\ up # <<>> /\ near' = near
    BY <1>0, <1>3, <2>2 DEF Verifies, Serves, UpTaken, Drops
  <2>4. ~ReceiveUnsigned
    <3>1. Head(up) = f
      BY <2>1, <2>3
    <3> QED BY <2>3, <3>1 DEF ReceiveUnsigned, Refuses
  <2>5. ~ReceiveBind
    BY <2>1, <2>2, ReceivesBind
  <2>6. ReceiveRequest
    BY <1>3, <2>4, <2>5 DEF UpTaken
  <2>7. sBinding # "unbound"
    BY <1>0 DEF BindingSound, Serves
  <2>8. closed' = "no"
    BY <2>1, <2>3, <2>6, <2>7, ReceivesRequest DEF Open
  <2>9. \A g : ~SessionBinds(g)
    BY <2>5 DEF SessionBinds
  <2>10. PICK g : SessionCounts(g)
    BY <1>3, <2>8, <2>9, TakenIsServed
  <2>11. sBound' = sBound /\ sAuth'.active = sAuth.active
         /\ (sAuth.active => sAuth'.in = IF sAuth.in < LastSeq THEN sAuth.in + 1 ELSE sAuth.in)
    BY <2>10 DEF SessionCounts
  <2>12. sAuth.in < LastSeq
    BY <1>0, <2>2
  <2> QED BY <2>2, <2>3, <2>11, <2>12 DEF Serves, ServesNext
<1> QED BY <1>1, <1>2, <1>3, UpWhileBound

\* What bind() waits for, now and in the next state.
Waits(b) ==
  PendingIn(up, near.next, b) \/ Serves(b) \/ (~Open /\ Fresh(b))
WaitsNext(b) ==
  PendingIn(up', near'.next, b) \/ ServesNext(b) \/ (closed' # "no" /\ FreshNext(b))

\* As long as the bind is on its way the runtime has done nothing under it.
LEMMA PendingIsFresh ==
  ASSUME TrunkInv, NEW b, PendingIn(up, near.next, b)
  PROVE  Fresh(b) /\ b.sl1 /\ b \in Leases
<1>1. PICK j \in DOMAIN up : up[j].kind = "bind" /\ up[j].bind = b /\ b.sl1
  BY DEF PendingIn
<1> QED BY <1>1 DEF TrunkInv, BindsOnce, TrunkTyped

\* bind() waits while its frame is on its way, is served, or can no longer be.
LEMMA WaitsStays ==
  ASSUME TrunkInv, TrunkTyped', SecureNext \/ UNCHANGED secureVars, caller.pc = "awaiting",
         near.active, NEW b \in Leases, b = near.bind, Waits(b)
  PROVE  WaitsNext(b)
<1>0. /\ TrunkTyped /\ BindsOnce /\ near.next \in Nat
      /\ ~BindWithoutSl1 /\ ~BindSetsAuth /\ caller.pc # "keyed"
  <2>1. TrunkTyped /\ BindsOnce /\ near.next \in Nat
    BY NumbersTyped DEF TrunkInv
  <2>2. ~BindWithoutSl1 /\ ~BindSetsAuth
    BY <2>1, BindKeys, BindsPlainly
  <2> QED BY <2>1, <2>2
<1> USE QueuesTyped
<1>1. CASE Serves(b)
  BY <1>0, <1>1, ServesStays DEF WaitsNext
<1>2. ASSUME Fresh(b), closed' # "no"
      PROVE  FreshNext(b)
  <2>1. \A f : ~SessionBinds(f)
    BY <1>2 DEF SessionBinds, Open
  <2>2. sBound' = sBound
    BY <2>1, SessionMoves DEF SessionStays, SessionCounts
  <2> QED BY <1>2, <2>2, FreshStays DEF Fresh
<1>3. CASE ~Open /\ Fresh(b)
  <2>1. closed' # "no"
    BY <1>3, ClosedStays DEF Open
  <2> QED BY <1>2, <1>3, <2>1 DEF WaitsNext
<1>4. CASE PendingIn(up, near.next, b)
  <2>0. Fresh(b) /\ b.sl1
    BY <1>4, PendingIsFresh
  <2>1. CASE UpStays /\ SessionStays
    BY <1>4, <2>1 DEF WaitsNext, UpStays, SameKeys
  <2>2. CASE /\ SessionStays /\ near'.next = near.next + 1
             /\ \E f : Grows(up, up', f) /\ f.kind = "request" /\ f.under = near.bind
                       /\ f.seq = near.next
    <3>1. PICK f : Grows(up, up', f) /\ f.kind = "request" /\ f.under = near.bind
                   /\ f.seq = near.next
      BY <2>2
    <3>2. PendingIn(up', near.next + 1, b)
      BY <1>0, <1>4, <3>1, PendingGrows
    <3> QED BY <2>2, <3>2 DEF WaitsNext
  <2>3. CASE UpTaken
    <3>1. CASE closed' # "no"
      BY <1>2, <2>0, <3>1 DEF WaitsNext
    <3>2. CASE ~(up[1].kind = "bind" /\ up[1].bind = b)
      <4>1. PendingIn(up', near.next, b) /\ near' = near
        BY <1>0, <1>4, <2>3, <3>2, PendingDrops DEF UpTaken
      <4> QED BY <4>1 DEF WaitsNext
    <3>3. CASE closed' = "no" /\ up[1].kind = "bind" /\ up[1].bind = b
      <4>1. \A f : ~SessionCounts(f)
        BY <3>3 DEF SessionCounts
      <4>2. PICK f : SessionBinds(f)
        BY <2>3, <3>3, <4>1, TakenIsServed
      <4>3. f = up[1] /\ f.bind = b /\ BindVerifies(f) /\ sBound' = {b} /\ near' = near
            /\ (sAuth'.active <=> f.bind.sl1) /\ (f.bind.sl1 => sAuth'.in = 2)
        BY <3>3, <4>2 DEF SessionBinds
      <4>4. up[1].seq = 1 /\ sAuth'.active /\ sAuth'.in = 2
        BY <2>0, <4>3 DEF BindVerifies
      <4>5. \A j \in DOMAIN up : up[j].kind = "bind" /\ up[j].bind = b => j = 1
        <5>1. 1 \in DOMAIN up
          BY <2>3 DEF UpTaken, Drops
        <5> QED BY <1>0, <3>3, <5>1 DEF BindsOnce
      <4>6. ServedIn(up', near.next, 2, b)
        BY <1>0, <1>4, <2>3, <4>4, <4>5, PendingIsServed DEF UpTaken
      <4> QED BY <4>3, <4>4, <4>6 DEF WaitsNext, ServesNext
    <3> QED BY <3>1, <3>2, <3>3
  <2> QED BY <1>0, <2>1, <2>2, <2>3, UpWhileBound
<1> QED BY <1>1, <1>3, <1>4 DEF Waits

\* Meanwhile nothing arrives under its bind, or the numbering restarts with the confirmation.
LEMMA RestartsStays ==
  ASSUME TrunkInv, TrunkTyped', SecureNext \/ UNCHANGED secureVars, ~BindReturns, ~ClientHears,
         NEW b \in Leases, Waits(b), RestartsIn(down, far.bind, far.next, b)
  PROVE  RestartsIn(down', far'.bind, far'.next, b)
<1> USE QueuesTyped
<1>0. TrunkTyped /\ b # NoBind /\ (far.active <=> far.bind # NoBind) /\ BindingSound
  BY LeaseTyped DEF TrunkInv, TrunkTyped
<1>1. CASE DownStays
  BY <1>1 DEF DownStays, SameKeys
<1>2. CASE DownSays
  <2>1. PICK f \in TrunkFrames :
    /\ Grows(down, down', f) /\ f.under = far.bind
    /\ f.seq = IF far.active THEN far.next ELSE 0
    /\ far'.active = far.active /\ far'.bind = far.bind
    /\ far.active => far'.next = far.next + 1
    BY <1>2 DEF DownSays
  <2>2. far.bind = b => f.seq = far.next /\ far'.next = far.next + 1
    BY <1>0, <2>1
  <2>3. PICK m, d : m = far'.next /\ d = far.bind
    OBVIOUS
  <2>4. RestartsIn(down', d, m, b)
    BY <2>1, <2>2, <2>3, RestartsSays
  <2> QED BY <2>1, <2>3, <2>4
<1>3. CASE DownKeyed
  <2>1. PICK c \in Leases : sBound = {c} /\ far.bind # c /\ \A j \in DOMAIN down : down[j].under # c
    BY <1>0, <1>3 DEF DownKeyed, BindingSound
  <2>2. TheBind = c
    BY <1>0, <2>1, BoundTyped
  <2>3. \A j \in DOMAIN down : down[j].under # b
    <3>1. CASE b = c
      BY <2>1, <3>1
    <3>2. CASE b # c
      <4>1. ~Serves(b)
        BY <2>1, <3>2 DEF Serves
      <4> QED BY <4>1, PendingIsFresh DEF Waits, Fresh
    <3> QED BY <3>1, <3>2
  <2>4. PICK m, d : m = far'.next /\ d = far'.bind
    OBVIOUS
  <2>5. RestartsIn(down, d, m, b)
    BY <1>3, <2>3, <2>4, RestartsFresh DEF DownKeyed
  <2> QED BY <1>3, <2>4, <2>5 DEF DownKeyed
<1> QED BY <1>1, <1>2, <1>3, DownMoves DEF DownHeard

\* Only a frame taken by the client changes what it has to hear.
LEMMA HearsMoves ==
  ASSUME SecureNext \/ UNCHANGED secureVars, ~BindReturns, ~ClientHears
  PROVE  hears' = hears
BY DEF SecureNext, secureVars, historyVars, Renew, BindWithoutSl1, BindSetsAuth,
   BindSends, ClientSendsRequest, ReceiveUnsigned, ReceiveBind,
   ServerSetsAuth, ServerConfirms, ReceiveRequest, WorkerSends

\* After a bind that succeeded every frame for the client has the number it expects.
LEMMA GoesOnStays ==
  ASSUME TrunkInv, TrunkTyped', SecureNext \/ UNCHANGED secureVars, ~BindReturns,
         NEW b \in Leases, sBound = {b}, far.bind = b, GoesOnIn(down, far.next, hears, b)
  PROVE  far'.bind = b /\ GoesOnIn(down', far'.next, hears', b)
<1>0. TrunkTyped /\ b # NoBind /\ (far.active <=> far.bind # NoBind) /\ BindingSound
      /\ far.next \in Nat /\ hears \in Nat
  BY LeaseTyped, NumbersTyped DEF TrunkInv
<1> USE QueuesTyped
<1>1. CASE ClientHears
  <2>1. hears' = hears + 1 /\ Drops(down, down') /\ far' = far
    BY <1>1, HearsOutside DEF Hears
  <2>2. GoesOnIn(down', far.next, hears + 1, b)
    BY <1>0, <2>1, GoesOnMoves
  <2> QED BY <2>1, <2>2
<1>2. CASE ~ClientHears
  <2>0. hears' = hears
    BY <1>2, HearsMoves
  <2>1. CASE DownStays
    BY <2>0, <2>1 DEF DownStays, SameKeys
  <2>2. CASE DownSays
    <3>1. PICK f \in TrunkFrames :
      /\ Grows(down, down', f) /\ f.under = far.bind
      /\ f.seq = IF far.active THEN far.next ELSE 0
      /\ far'.active = far.active /\ far'.bind = far.bind
      /\ far.active => far'.next = far.next + 1
      BY <2>2 DEF DownSays
    <3>2. f.seq = far.next /\ far'.next = far.next + 1
      BY <1>0, <3>1
    <3>3. GoesOnIn(down', far.next + 1, hears, b)
      BY <1>0, <3>1, <3>2, GoesOnMoves
    <3> QED BY <2>0, <3>1, <3>2, <3>3
  <2>3. ~DownKeyed
    BY <1>0 DEF DownKeyed, BindingSound
  <2> QED BY <1>2, <2>1, <2>2, <2>3, DownMoves DEF DownHeard
<1> QED BY <1>1, <1>2

\* AgreeSound of the next state.
AgreesNext ==
  /\ caller'.pc = "awaiting" =>
       WaitsNext(near'.bind) /\ RestartsIn(down', far'.bind, far'.next, near'.bind)
  /\ caller'.told = "bound" =>
       /\ near'.active /\ ServesNext(near'.bind)
       /\ far'.bind = near'.bind /\ GoesOnIn(down', far'.next, hears', near'.bind)

\* A bind brings both directions to the same place, and nothing leaves it.
LEMMA AgreeStep ==
  ASSUME TrunkInv, ~Repeats, TrunkTyped', SecureNext \/ UNCHANGED secureVars
  PROVE  AgreesNext
<1>0. /\ TrunkTyped /\ BindsOnce /\ CallSound /\ AgreeSound /\ BindingSound
      /\ near.next \in Nat /\ (near.active <=> near.bind # NoBind)
      /\ near.bind \in Binds /\ NoBind \notin Leases
  BY LeaseTyped, NumbersTyped DEF TrunkInv
<1> USE QueuesTyped
<1>1. ASSUME caller'.pc = "awaiting"
      PROVE  WaitsNext(near'.bind) /\ RestartsIn(down', far'.bind, far'.next, near'.bind)
  <2>1. CASE BindSends
    <3>1. caller.pc = "keyed" /\ Open /\ CanSign(near) /\ far' = far /\ down' = down
      BY <1>1, <2>1 DEF BindSends, Calls
    <3>2. PICK b \in Leases : b = near.bind
      BY <1>0, <3>1 DEF CallSound
    <3>3. b.sl1 /\ Fresh(b) /\ near.active
      BY <1>0, <3>1, <3>2 DEF CallSound
    <3>4. PICK f : UpSays(f) /\ f.kind = "bind" /\ f.bind = near.bind
      BY <2>1, <3>1, BindSent
    <3>5. Grows(up, up', f) /\ near'.bind = near.bind /\ near'.next = near.next + 1
          /\ f.under = near.bind /\ f.seq = near.next
      BY <1>1, <3>1, <3>3, <3>4 DEF UpSays
    <3>6. PendingIn(up', near.next + 1, b)
      BY <1>0, <3>2, <3>3, <3>4, <3>5, PendingStarts
    <3>7. RestartsIn(down, far.bind, far.next, b)
      BY <3>3, RestartsFresh DEF Fresh
    <3> QED BY <3>1, <3>2, <3>5, <3>6, <3>7 DEF WaitsNext
  <2>2. CASE ~BindSends
    <3>1. caller.pc = "awaiting" /\ caller' = caller /\ ~BindReturns /\ ~BindWithoutSl1
          /\ ~BindSetsAuth
      BY <1>1, <2>2, CallMoves
    <3>2. ~ClientHears
      BY <3>1 DEF ClientHears
    <3>3. PICK b \in Leases : b = near.bind
      BY <1>0, <3>1 DEF CallSound
    <3>4. near.active /\ Waits(b) /\ RestartsIn(down, far.bind, far.next, b)
      BY <1>0, <3>1, <3>3 DEF CallSound, AgreeSound, Waits, Serves
    <3>5. WaitsNext(b)
      BY <3>1, <3>3, <3>4, WaitsStays
    <3>6. RestartsIn(down', far'.bind, far'.next, b)
      BY <3>1, <3>2, <3>4, RestartsStays
    <3>7. near'.bind = near.bind
      BY <3>1, <3>4, UpWhileBound
    <3> QED BY <3>3, <3>5, <3>6, <3>7
  <2> QED BY <2>1, <2>2
<1>2. ASSUME caller'.told = "bound"
      PROVE  /\ near'.active /\ ServesNext(near'.bind)
             /\ far'.bind = near'.bind /\ GoesOnIn(down', far'.next, hears', near'.bind)
  <2>1. CASE BindReturns
    <3>1. /\ caller.pc = "awaiting" /\ hears' = 2 /\ Hears /\ Confirms(down[1])
          /\ UNCHANGED <<far, up, sessionVars>>
      BY <1>2, <2>1, ReturnsFromBind
    <3>2. PICK b \in Leases : b = near.bind
      BY <1>0, <3>1 DEF CallSound
    <3>3. near.active /\ Waits(b) /\ RestartsIn(down, far.bind, far.next, b)
      BY <1>0, <3>1, <3>2 DEF CallSound, AgreeSound, Waits, Serves
    <3>4. down[1].under = b /\ 1 \in DOMAIN down /\ Drops(down, down')
      BY <3>1, <3>2 DEF Confirms, Hears, Drops
    <3>5. Serves(b)
      BY <3>3, <3>4, PendingIsFresh DEF Waits, Fresh
    <3>6. far.bind = b /\ GoesOnIn(down', far.next, 2, b)
      <4>1. PICK m, d, r : m = far.next /\ d = far.bind /\ r = down'
        OBVIOUS
      <4>2. /\ RestartsIn(down, d, m, b) /\ Drops(down, r)
            /\ \A i \in DOMAIN down : i = 1 => down[i].under = b
            /\ down \in Seq(TrunkFrames) /\ r \in Seq(TrunkFrames)
        BY <3>3, <3>4, <4>1
      <4>3. d = b /\ GoesOnIn(r, m, 2, b)
        BY <4>2, RestartsGoesOn
      <4> QED BY <4>1, <4>3
    <3>7. near'.active /\ near'.bind = near.bind /\ near'.next = near.next
      BY <3>1, <3>3 DEF Hears, SameKeys
    <3>8. ServesNext(b)
      BY <3>1, <3>5, <3>7 DEF Serves, ServesNext, sessionVars
    <3> QED BY <3>1, <3>2, <3>6, <3>7, <3>8
  <2>2. CASE ~BindReturns
    <3>1. caller.told = "bound" /\ caller' = caller /\ ~BindWithoutSl1 /\ ~BindSetsAuth
          /\ ~BindSends
      BY <1>2, <2>2, CallMoves
    <3>2. caller.pc = "idle" /\ near.active
      BY <1>0, <3>1 DEF CallSound, AgreeSound
    <3>3. PICK b \in Leases : b = near.bind
      BY <1>0, <3>2 DEF Binds
    <3>4. Serves(b) /\ far.bind = b /\ GoesOnIn(down, far.next, hears, b)
      BY <1>0, <3>1, <3>3 DEF AgreeSound, Serves
    <3>5. ServesNext(b)
      BY <3>1, <3>2, <3>3, <3>4, ServesStays
    <3>6. far'.bind = b /\ GoesOnIn(down', far'.next, hears', b)
      BY <2>2, <3>4, GoesOnStays DEF Serves
    <3>7. near'.active /\ near'.bind = near.bind
      BY <3>1, <3>2, UpWhileBound
    <3> QED BY <3>3, <3>5, <3>6, <3>7
  <2> QED BY <2>1, <2>2
<1> QED BY <1>1, <1>2 DEF AgreesNext

\* The client starts with a lease; nothing is sent and nothing is bound.
LEMMA TrunkInit ==
  ASSUME SecureInit
  PROVE  TrunkInv
<1> USE TrunkAssumption
<1>1. /\ Len(leases) \in Nat \ {0} /\ DOMAIN leases = 1..Len(leases)
      /\ \A i \in DOMAIN leases : leases[i].id # NoBind.id
  BY DEF SecureInit
<1>2. /\ leases \in LeaseRows /\ held = 1
      /\ caller = [pc |-> "idle", told |-> "nothing"]
      /\ near = Unsecured /\ far = Unsecured /\ up = <<>> /\ down = <<>>
      /\ reader = "loop" /\ closed = "no" /\ sBinding = "unbound" /\ sBound = {}
      /\ sAuth = [active |-> FALSE, out |-> 1, in |-> 1]
      /\ tried = {} /\ overlapped = FALSE /\ hears = 2
  BY DEF SecureInit
<1>3. \A b \in Leases : b # NoBind
  <2>1. ASSUME NEW b \in Leases PROVE b.id # NoBind.id
    BY <1>1 DEF Leases
  <2> QED BY <2>1
<1>4. TrunkTyped
  <2>1. Unsecured \in EndStates
    BY DEF Unsecured, EndStates, Binds
  <2>2. Unsecured.active <=> Unsecured.bind # NoBind
    BY DEF Unsecured
  <2>3. held \in 1..Len(leases)
    BY <1>1, <1>2
  <2>4. up \in Seq(TrunkFrames) /\ down \in Seq(TrunkFrames)
    BY <1>2
  <2>5. sAuth \in [active : BOOLEAN, out : 1..2, in : 1..LastSeq]
    BY <1>2
  <2> QED BY <1>2, <2>1, <2>2, <2>3, <2>4, <2>5 DEF TrunkTyped
<1>5. \A b \in Leases : Fresh(b) /\ near.bind # b
  BY <1>2, <1>3 DEF Fresh, Unsecured
<1>6. BindsOnce
  BY <1>2, <1>5 DEF BindsOnce
<1>7. BindingSound
  BY <1>2 DEF BindingSound
<1>8. CallSound
  BY <1>2 DEF CallSound, Unsecured
<1>9. HonestSound
  BY <1>2 DEF HonestSound
<1>10. InOrder
  BY <1>2 DEF InOrder, Unsecured
<1>11. AgreeSound
  BY <1>2 DEF AgreeSound
<1> QED BY <1>4, <1>6, <1>7, <1>8, <1>9, <1>10, <1>11 DEF TrunkInv, InOrderSound

\* As long as no lease is bound twice.
LEMMA TrunkInvStep ==
  ASSUME TrunkInv, ~Repeats, SecureNext \/ UNCHANGED secureVars
  PROVE  TrunkInv'
<1>1. TrunkTyped'
  BY TypedStep
<1>2. BindsOnce'
  BY <1>1, BindsOnceStep
<1>3. BindingSound'
  <2>1. BoundSound' /\ ReaderSound'
    BY <1>1, BoundStep, ReaderStep
  <2> QED BY <2>1 DEF BindingSound, BoundSound, ReaderSound
<1>4. CallSound'
  BY <1>1, CallStep
<1>5. HonestSound'
  BY HonestStep
<1>6. InOrderSound'
  <2>1. ASSUME ~overlapped', closed' = "no"
        PROVE  InOrder'
    BY <1>1, <2>1, InOrderStep
  <2> QED BY <2>1 DEF InOrderSound, Open
<1>7. AgreeSound'
  <2>1. AgreesNext
    BY <1>1, AgreeStep
  <2> QED BY <2>1 DEF AgreesNext, AgreeSound, WaitsNext, ServesNext, FreshNext, Fresh, Open,
            PendingIn, ServedIn, RestartsIn, GoesOnIn
<1> QED BY <1>1, <1>2, <1>3, <1>4, <1>5, <1>6, <1>7 DEF TrunkInv

\* The property is what AgreeSound and HonestSound say between them.
LEMMA TrunkInvAgrees ==
  ASSUME TrunkInv
  PROVE  TrunkAgrees
<1>1. AgreeSound /\ HonestSound
  BY DEF TrunkInv
<1>2. ASSUME caller.told = "bound"
      PROVE  /\ sBound = {near.bind} /\ sAuth.active
             /\ \A i \in DOMAIN down : down[i].under = near.bind /\ down[i].seq = hears + i - 1
             /\ \A i \in DOMAIN up :
                  up[i].seq # 0 => up[i].under = near.bind /\ up[i].seq = sAuth.in + i - 1
  BY <1>1, <1>2 DEF AgreeSound, ServedIn, GoesOnIn
<1> QED BY <1>1, <1>2 DEF TrunkAgrees, BothEndsAgree, HonestFramesAreServed, HonestSound

\* As long as no lease is bound twice, both ends of a trunk number and sign alike whenever
\* bind() has returned true, and no honest frame is refused for its number or its MAC
\* unless another thread's request took the bind's number (bind, set_sl1_auth,
\* send_session_bind, process_session_bind, verify_inbound_frame).  With repeated binds this
\* is false: MCSecureTrunkRebind.
THEOREM TrunkAlwaysAgrees ==
  ASSUME ~Repeats
  PROVE  SecureSpec => []TrunkAgrees
<1>1. SecureInit => TrunkInv
  BY TrunkInit
<1>2. TrunkInv /\ [SecureNext]_secureVars => TrunkInv'
  BY TrunkInvStep
<1>3. TrunkInv => TrunkAgrees
  BY TrunkInvAgrees
<1> QED BY <1>1, <1>2, <1>3, PTL DEF SecureSpec
=============================================================================
