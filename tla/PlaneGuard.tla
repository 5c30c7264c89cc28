----------------------------- MODULE PlaneGuard -----------------------------
(***************************************************************************)
(* The traffic of an established SL session in one direction: what the     *)
(* sender signs and what the receiver verifies (plane_authenticator.cpp),  *)
(* with the sliding replay window for UDP control datagrams and the        *)
(* monotonic tracker for events (replay_window.cpp).                       *)
(*                                                                         *)
(* A tag is what was signed: the identity of the sender's session record   *)
(* (here its security epoch, which each end rotates on its own) and the    *)
(* content.  Frames arrive late, again, out of order or garbled.  A word   *)
(* of the bitmap is the set of its bits that are 1; its width, 64 in the   *)
(* code, is a parameter.                                                   *)
(***************************************************************************)
EXTENDS Integers, Sequences, FiniteSets

CONSTANTS
  WordBits,     \* bits of a word of the bitmap
  MaxSeq,       \* bound: control_seq
  MaxEvents,    \* bound: event_seq
  MaxFragments, \* bound: fragments of an event
  LastEpoch     \* bound: security epochs

ASSUME GuardAssumption ==
  /\ WordBits \in Nat \ {0}
  /\ MaxSeq \in Nat /\ MaxEvents \in Nat /\ MaxFragments \in Nat /\ LastEpoch \in Nat

VARIABLES
  sender,    \* [epoch, seq, event, fragment]: the sender's record and counters
  receiver,  \* [epoch, active]: the receiver's record
  wire,      \* the frames signed so far
  window,    \* sliding_replay_window: [max, low, high]
  tracker,   \* monotonic_stream_tracker: [started, event, fragment]
  seen,      \* history: the control_seq of the accepted datagrams
  delivered  \* history: the accepted events

guardVars == <<sender, receiver, wire, window, tracker, seen, delivered>>

-----------------------------------------------------------------------------
(* sliding_replay_window *)

Bits == 0..(WordBits - 1)
Shl(word, n) == {b \in Bits : b - n \in word}
Shr(word, n) == {b \in Bits : b + n \in word}

IsSet(w, age) == IF age < WordBits THEN age \in w.low ELSE (age - WordBits) \in w.high

\* check() of the code.
Check(w, seq) ==
  IF seq = 0 THEN "invalid_seq"
  ELSE IF seq > w.max \/ w.max = 0 THEN "accepted"
  ELSE IF w.max - seq >= 2 * WordBits THEN "too_old"
  ELSE IF IsSet(w, w.max - seq) THEN "duplicate"
  ELSE "accepted"

\* Mutant of Advanced: the high word loses what the low word shifts out.
MutantAdvanced(w, n) ==
  IF n >= 2 * WordBits THEN [low |-> {0}, high |-> {}]
  ELSE IF n >= WordBits THEN [low |-> {0}, high |-> Shl(w.low, n - WordBits)]
  ELSE [low |-> Shl(w.low, n) \cup {0}, high |-> Shl(w.high, n)]

\* The bitmap after the maximum moved on by n.
Advanced(w, n) ==
  IF n >= 2 * WordBits THEN [low |-> {0}, high |-> {}]
  ELSE IF n >= WordBits THEN [low |-> {0}, high |-> Shl(w.low, n - WordBits)]
  ELSE [low |-> Shl(w.low, n) \cup {0},
        high |-> Shl(w.high, n) \cup Shr(w.low, WordBits - n)]

\* update() of a number check() accepted.
Update(w, seq) ==
  IF w.max = 0 THEN [max |-> seq, low |-> {0}, high |-> {}]
  ELSE IF seq > w.max
  THEN [max |-> seq, low |-> Advanced(w, seq - w.max).low,
        high |-> Advanced(w, seq - w.max).high]
  ELSE LET age == w.max - seq IN
       IF age < WordBits THEN [w EXCEPT !.low = @ \cup {age}]
       ELSE [w EXCEPT !.high = @ \cup {age - WordBits}]

-----------------------------------------------------------------------------
(* monotonic_stream_tracker *)

\* Mutant of MayFollow: a repeated fragment passes.
MutantMayFollow(t, e) == e.event >= t.event /\ e.event # 0

\* check_and_advance(): a later event starts with its first fragment, a later
\* fragment continues the current event.
MayFollow(t, e) ==
  /\ e.event # 0
  /\ \/ /\ ~t.started \/ e.event > t.event
        /\ e.fragmented => e.fragment = 0
     \/ t.started /\ e.event = t.event /\ e.fragmented /\ e.fragment > t.fragment

Follows(e) == [started |-> TRUE, event |-> e.event, fragment |-> e.fragment]

-----------------------------------------------------------------------------
(* Signing and verifying *)

\* The input of the authenticator (encode_authenticator_input) is what a tag shows.
Tag(kind, epoch, body) == [kind |-> kind, epoch |-> epoch, body |-> body]

\* compute_sha256_digest, the binding and the tag over it.
Signed(kind, body) ==
  wire' = wire \cup {[kind |-> kind, body |-> body, tag |-> Tag(kind, sender.epoch, body)]}

Bodies(kind) ==
  CASE kind = "datagram" -> 0..MaxSeq
    [] kind = "event" -> [event : 0..MaxEvents, fragment : 0..(MaxFragments - 1),
                          fragmented : BOOLEAN]
    [] OTHER -> {1, 2}

\* A frame as it may arrive: whole, or with another body under its tag.
Variants(f) == {[f EXCEPT !.body = b] : b \in Bodies(f.kind)}

SignControlDatagram ==
  /\ sender.seq < MaxSeq
  /\ sender' = [sender EXCEPT !.seq = @ + 1]
  /\ Signed("datagram", sender.seq + 1)
  /\ UNCHANGED <<receiver, window, tracker, seen, delivered>>

EventAt(e, n, fragmented) == [event |-> e, fragment |-> n, fragmented |-> fragmented]

\* The next event, or the next fragment of the present one.
SignEvent ==
  /\ \E e \in {EventAt(sender.event + 1, 0, FALSE), EventAt(sender.event + 1, 0, TRUE),
               EventAt(sender.event, sender.fragment, TRUE)} :
       /\ e \in Bodies("event") /\ (e.event = sender.event => e.fragment > 0)
       /\ sender' = [sender EXCEPT !.event = e.event,
                                   !.fragment = IF e.fragmented THEN e.fragment + 1 ELSE 0]
       /\ Signed("event", e)
  /\ UNCHANGED <<receiver, window, tracker, seen, delivered>>

SignRequest ==
  /\ Signed("request", 1)
  /\ UNCHANGED <<sender, receiver, window, tracker, seen, delivered>>

SignControl ==
  /\ Signed("control", 1)
  /\ UNCHANGED <<sender, receiver, window, tracker, seen, delivered>>

\* The receiver computes the tag from its own record and what arrived.
TagMatches(f) == f.tag = Tag(f.kind, receiver.epoch, f.body)

\* Mutant of VerifyControlDatagram: the window is updated before the tag is compared.
MutantVerifyControlDatagram(f) ==
  /\ f.kind = "datagram" /\ receiver.active
  /\ Check(window, f.body) = "accepted"
  /\ window' = Update(window, f.body)
  /\ seen' = IF TagMatches(f) THEN seen \cup {f} ELSE seen
  /\ UNCHANGED <<sender, receiver, wire, tracker, delivered>>

\* A datagram passes the window's check before, and its update after the tag.
VerifyControlDatagram(f) ==
  /\ f.kind = "datagram" /\ receiver.active
  /\ Check(window, f.body) = "accepted" /\ TagMatches(f)
  /\ window' = Update(window, f.body)
  /\ seen' = seen \cup {f}
  /\ UNCHANGED <<sender, receiver, wire, tracker, delivered>>

\* An event moves the tracker on, then its tag is compared.
VerifyEvent(f) ==
  /\ f.kind = "event" /\ receiver.active
  /\ MayFollow(tracker, f.body)
  /\ tracker' = Follows(f.body)
  /\ delivered' = IF TagMatches(f) THEN Append(delivered, f) ELSE delivered
  /\ UNCHANGED <<sender, receiver, wire, window, seen>>

VerifyRequest(f) ==
  /\ f.kind = "request" /\ receiver.active /\ TagMatches(f)
  /\ seen' = seen \cup {f}
  /\ UNCHANGED <<sender, receiver, wire, window, tracker, delivered>>

VerifyControl(f) ==
  /\ f.kind = "control" /\ receiver.active /\ TagMatches(f)
  /\ seen' = seen \cup {f}
  /\ UNCHANGED <<sender, receiver, wire, window, tracker, delivered>>

-----------------------------------------------------------------------------
(* The session records of the two ends *)

RotateSender ==
  /\ sender.epoch < LastEpoch /\ sender' = [sender EXCEPT !.epoch = @ + 1]
  /\ UNCHANGED <<receiver, wire, window, tracker, seen, delivered>>

RotateReceiver ==
  /\ receiver.active /\ receiver.epoch < LastEpoch
  /\ receiver' = [receiver EXCEPT !.epoch = @ + 1]
  /\ UNCHANGED <<sender, wire, window, tracker, seen, delivered>>

\* The record is revoked, closed or expired.
EndSession ==
  /\ receiver.active /\ receiver' = [receiver EXCEPT !.active = FALSE]
  /\ UNCHANGED <<sender, wire, window, tracker, seen, delivered>>

GuardInit ==
  /\ sender = [epoch |-> 1, seq |-> 0, event |-> 0, fragment |-> 0]
  /\ receiver = [epoch |-> 1, active |-> TRUE]
  /\ wire = {} /\ seen = {} /\ delivered = <<>>
  /\ window = [max |-> 0, low |-> {}, high |-> {}]
  /\ tracker = [started |-> FALSE, event |-> 0, fragment |-> 0]

\* The UDP plane, the events and the other frames of the TCP plane, and what they share.
DatagramNext ==
  \/ SignControlDatagram
  \/ \E g \in wire : \E f \in Variants(g) : VerifyControlDatagram(f)

EventNext ==
  \/ SignEvent
  \/ \E g \in wire : \E f \in Variants(g) : VerifyEvent(f)

CallNext ==
  \/ SignRequest \/ SignControl
  \/ \E g \in wire : \E f \in Variants(g) : VerifyRequest(f) \/ VerifyControl(f)

RecordNext == RotateSender \/ RotateReceiver \/ EndSession

GuardNext == DatagramNext \/ EventNext \/ CallNext \/ RecordNext

GuardSpec == GuardInit /\ [][GuardNext]_guardVars

-----------------------------------------------------------------------------
(* Properties *)

SeenSeqs == {f.body : f \in {g \in seen : g.kind = "datagram"}}

\* The types of the window and the tracker: the window's maximum is the highest accepted number, its bits
\* are within their words.
GuardTypeOK ==
  /\ window.low \subseteq Bits /\ window.high \subseteq Bits
  /\ \A s \in SeenSeqs : 1 <= s /\ s <= window.max
  /\ window.max # 0 => window.max \in SeenSeqs
  /\ tracker.event \in 0..MaxEvents

\* No control datagram is accepted twice, however far the window was shifted in
\* between and whichever word its bit went to (sliding_replay_window).
NoReplay == GuardTypeOK /\ \A s \in SeenSeqs : Check(window, s) # "accepted"

\* A genuine datagram that no other overtook by a whole window is accepted when it
\* first arrives, whatever garbled or repeated datagrams came before it
\* (verify_control_datagram updates the window only after the tag).
GenuineIsAccepted ==
  \A f \in wire :
    f.kind = "datagram" /\ f.body \notin SeenSeqs /\ window.max - f.body < 2 * WordBits
      => Check(window, f.body) = "accepted"

\* What was accepted was signed by the peer as it is and not under an epoch the receiver
\* has yet to reach; events reach the application in the order of their signing and none
\* twice, whatever order they arrive in (monotonic_stream_tracker, verify_event).
DeliveredAsSigned ==
  /\ seen \subseteq wire /\ \A i \in DOMAIN delivered : delivered[i] \in wire
  /\ \A f \in seen : f.tag.epoch <= receiver.epoch
  /\ \A i, j \in DOMAIN delivered : i < j =>
       LET a == delivered[i].body b == delivered[j].body IN
       a.event < b.event \/ (a.event = b.event /\ a.fragment < b.fragment)
=============================================================================
