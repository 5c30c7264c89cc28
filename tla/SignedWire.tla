----------------------------- MODULE SignedWire -----------------------------
(***************************************************************************)
(* One V0.2 frame from a sender to a receiver: the SL1 extension that      *)
(* signs it (sign_envelope_buffer and verify_envelope_buffer of            *)
(* LiNeP/src/v0_2/envelopes.cpp) and what a connection may do to it on its *)
(* way.  Module Envelopes is the codec; here it is a parameter.            *)
(*                                                                         *)
(* Abstractions.  A frame is its header as a record, its extension and the *)
(* bytes of its payload; the fixed bytes of a header, magic and version    *)
(* are left out.  A MAC is the tuple of all that goes into it.             *)
(***************************************************************************)
EXTENDS Integers, Sequences

CONSTANTS
  CanEncode(_), \* whether an encode_ function takes the envelope
  Encode(_),    \* the frame it makes of it
  Decode(_),    \* what the decode_ functions make of a frame
  Inputs,       \* the envelopes a run sends
  Receivers,    \* bindings and directions a frame may be verified under
  Signer,       \* the one it is signed under
  Garbage       \* byte sequences that may follow or extend a payload

VARIABLES
  sent,       \* the envelope
  stage,      \* "given", "encoded", "refused", "received"
  frame,      \* its frame on the wire
  harm,       \* history: what happened to the frame
  got,        \* what the receiver decodes
  verifiedAs  \* history: the binding and direction under which it verified a signature

wireVars == <<sent, stage, frame, harm, got, verifiedAs>>

Refused == [ok |-> FALSE]
Done(v) == [ok |-> TRUE, value |-> v]
NoExt == [on |-> FALSE]

\* The frame with these fields.
FrameOf(type, stream, len, ext, payload) ==
  [type |-> type, stream |-> stream, len |-> len, ext |-> ext, payload |-> payload]

\* An encoder makes an unsigned frame whose length is its payload's.
ASSUME WireAssumption ==
  /\ \A e \in Inputs : CanEncode(e) =>
       LET f == Encode(e) IN
       /\ f = FrameOf(f.type, f.stream, Len(f.payload), NoExt, f.payload)
       /\ f.payload \in Seq(Nat)
  /\ \A end \in Receivers \cup {Signer} : end = [bind |-> end.bind, dir |-> end.dir]
  /\ \A g \in Garbage : g \in Seq(Nat)

-----------------------------------------------------------------------------
(* The SL1 extension *)

\* The payload of a frame; what follows it is not looked at.
Body(f) == SubSeq(f.payload, 1, f.len)

\* Mutant of Mac: one MAC for both directions.
MutantMac(f, ext, end) ==
  <<ext.key, f.type, f.stream, f.len, ext.seq, ext.keyId, end.bind, Body(f)>>

\* The key and all that the MAC covers; reserved is zero in every extension read.
Mac(f, ext, end) ==
  <<ext.key, f.type, f.stream, f.len, ext.seq, ext.keyId, end.bind, end.dir, Body(f)>>

MaySign(f, seq) == ~f.ext.on /\ seq # 0 /\ Len(f.payload) = f.len
Signed(f, ext, end) ==
  [f EXCEPT !.ext = [on |-> TRUE, seq |-> ext.seq, keyId |-> ext.keyId, mac |-> Mac(f, ext, end)]]

Verified(f, key, end) ==
  /\ f.ext.on
  /\ Len(f.payload) = f.len
  /\ f.ext.mac = Mac(f, [key |-> key, seq |-> f.ext.seq, keyId |-> f.ext.keyId], end)

-----------------------------------------------------------------------------
(* A frame from sender to receiver *)

Unsent == FrameOf("none", <<0, 0, 0>>, 0, NoExt, <<>>)

NoEnd == [bind |-> <<>>, dir |-> "none"]

WireInit ==
  /\ sent \in Inputs /\ stage = "given"
  /\ frame = Unsent /\ harm = "none" /\ got = Refused /\ verifiedAs = NoEnd

EncodeSent ==
  /\ stage = "given"
  /\ IF CanEncode(sent)
     THEN stage' = "encoded" /\ frame' = Encode(sent)
     ELSE stage' = "refused" /\ frame' = Unsent
  /\ UNCHANGED <<sent, harm, got, verifiedAs>>

Key == "k"
SignFrame(seq) ==
  /\ stage = "encoded" /\ harm = "none" /\ MaySign(frame, seq)
  /\ frame' = Signed(frame, [key |-> Key, seq |-> seq, keyId |-> 1], Signer)
  /\ UNCHANGED <<sent, stage, harm, got, verifiedAs>>

Harm(kind, f) ==
  /\ stage = "encoded" /\ harm = "none" /\ f # frame
  /\ harm' = kind /\ frame' = f
  /\ UNCHANGED <<sent, stage, got, verifiedAs>>

\* The end is missing; bytes follow, within the length of the header or after it; one byte
\* is another one; one of the words that a header and an extension carry is another one.
CutFrame(n) == Harm("cut", [frame EXCEPT !.payload = SubSeq(@, 1, n)])
Trailed(g) == [frame EXCEPT !.payload = @ \o g]
PadFrame(g) == Harm("padded", [Trailed(g) EXCEPT !.len = @ + Len(g)])
TrailFrame(g) == Harm("trailed", Trailed(g))
AlterFrame(i, d) == Harm("altered", [frame EXCEPT !.payload[i] = d])
RestreamFrame(s) == Harm("altered", [frame EXCEPT !.stream = s])
RenumberFrame(n) == frame.ext.on /\ Harm("altered", [frame EXCEPT !.ext.seq = n])

\* A receiver under SL1 takes a frame only if its signature verifies.
Receive ==
  /\ stage = "encoded"
  /\ stage' = "received"
  /\ \E end \in Receivers :
       LET verified == Verified(frame, Key, end) IN
       /\ got' = IF frame.ext.on /\ ~verified THEN Refused ELSE Decode(frame)
       /\ verifiedAs' = IF verified THEN end ELSE verifiedAs
  /\ UNCHANGED <<sent, frame, harm>>

WireNext ==
  \/ EncodeSent
  \/ \E seq \in {0, 1} : SignFrame(seq)
  \/ Receive
  \/ \E n \in 0..(Len(frame.payload) - 1) : CutFrame(n)
  \/ \E g \in Garbage : PadFrame(g) \/ TrailFrame(g)
  \/ \E i \in DOMAIN frame.payload, d \in {0, 1} : AlterFrame(i, d)
  \/ RestreamFrame(<<1, 1, 0>>) \/ RestreamFrame(<<0, 0, 0>>)
  \/ RenumberFrame(2)

WireSpec == WireInit /\ [][WireNext]_wireVars

-----------------------------------------------------------------------------
(* Properties *)

\* A frame with the SL1 extension is accepted only as it was signed: no byte of it, nor a
\* word of its header or extension, is another one, and the receiver has the binding and
\* the direction of the signer (verify_envelope_buffer).
SignedIsUntouched ==
  got.ok /\ frame.ext.on => harm = "none" /\ verifiedAs = Signer
=============================================================================
