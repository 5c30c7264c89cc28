----------------------------- MODULE Envelopes -----------------------------
(***************************************************************************)
(* The V0.2 wire codec: LiNeP/src/v0_2/envelopes.cpp with the validity     *)
(* rules of envelopes.hpp and vision.cpp, and the registration codec at    *)
(* the head of registration.cpp: the parameters CanEncode, Encode and      *)
(* Decode of module SignedWire are Encodable, Framed and Decoded.          *)
(*                                                                         *)
(* Abstractions.  A byte is a digit to the base Radix (256 in the code), a *)
(* word of n bytes has n digits, least one first, a float is a word.       *)
(* MaxText stands for every limit on the length of a text, and limits on   *)
(* the whole frame are left out.                                           *)
(***************************************************************************)
EXTENDS SignedWire
LOCAL INSTANCE SequencesExt

CONSTANTS
  Radix,          \* values of a byte
  MaxText,        \* LINEP_V02_MAX_VISION_STRING_BYTES, ..._DECISION_STRING_BYTES, 8192
  MaxDimensions,  \* LINEP_V02_MAX_EMBEDDING_DIMENSIONS
  MaxListed,      \* LINEP_V02_MAX_VISION_DETECTIONS, LINEP_V02_MAX_DECISION_MODELS
  StandardLabels  \* label set -> its labels in class order

-----------------------------------------------------------------------------
(* Fields: what the write_ functions and buffer_reader do *)

Word(n) == [kind |-> "word", width |-> n]
Flag == [kind |-> "flag", width |-> 1]
Text(n) == [kind |-> "text", width |-> n]
List(n, item) == [kind |-> "list", width |-> n, item |-> item]
Group(fields) == [kind |-> "group", width |-> 0, fields |-> fields]
\* A list at the end of a payload that is there or not.
LastList(list) == [kind |-> "at_end", width |-> 0, item |-> list]

Digits(v, n) == [i \in 1..n |-> (v \div Radix^(i - 1)) % Radix]
Number(w) == FoldRight(LAMBDA d, n : d + Radix * n, w, 0)

\* A prefix too narrow for its text or list wraps; a text is cut to what its prefix says,
\* a list is not.
RECURSIVE Put(_, _)
PutAll(fields, vs) == FlattenSeq([i \in DOMAIN fields |-> Put(fields[i], vs[i])])
Put(f, v) ==
  CASE f.kind = "word" -> Digits(v, f.width)
    [] f.kind = "flag" -> IF v THEN <<1>> ELSE <<0>>
    [] f.kind = "text" -> LET n == Len(v) % Radix^f.width
                          IN Digits(n, f.width) \o SubSeq(v, 1, n)
    [] f.kind = "list" -> Digits(Len(v), f.width)
                            \o PutAll([i \in DOMAIN v |-> f.item], v)
    [] f.kind = "group" -> PutAll(f.fields, v)

\* Reading a field: its value and what remains, or a refusal when too little remains.
Read(v, rest) == [ok |-> TRUE, value |-> v, rest |-> rest]
Split(w, n) == Read(SubSeq(w, 1, n), SubSeq(w, n + 1, Len(w)))

RECURSIVE Get(_, _)
GetAll(fields, w) ==
  FoldLeft(LAMBDA r, f :
             IF ~r.ok THEN r
             ELSE LET g == Get(f, r.rest)
                  IN IF g.ok THEN Read(Append(r.value, g.value), g.rest) ELSE Refused,
           Read(<<>>, w), fields)
Get(f, w) ==
  LET front == Split(w, f.width)
      n == Number(front.value)
  IN CASE f.kind = "group" -> GetAll(f.fields, w)
       [] Len(w) < f.width -> Refused
       [] f.kind = "word" -> Read(n, front.rest)
       [] f.kind = "flag" -> Read(n # 0, front.rest)
       [] f.kind = "at_end" -> IF w = <<>> THEN Read(<<>>, w) ELSE Get(f.item, w)
       [] n > Len(front.rest) -> Refused
       [] f.kind = "text" -> Split(front.rest, n)
       [] f.kind = "list" -> GetAll([i \in 1..n |-> f.item], front.rest)

\* Nothing in the value is too long for its prefix.
RECURSIVE FitsField(_, _)
FitsField(f, v) ==
  CASE f.kind \in {"word", "flag"} -> TRUE
    [] f.kind = "text" -> Len(v) < Radix^f.width
    [] f.kind = "list" -> /\ Len(v) < Radix^f.width
                          /\ \A i \in DOMAIN v : FitsField(f.item, v[i])
    [] f.kind = "group" -> \A i \in DOMAIN v : FitsField(f.fields[i], v[i])

-----------------------------------------------------------------------------
(* Layouts *)

RequestFields == <<Word(1), Text(2), Text(4), Word(4), Word(4), Flag>>
OptionFields == <<Word(4), Word(4), Word(4), Word(4), Word(4), Word(8), Word(4), Word(4),
                  List(2, Text(2)), List(2, Group(<<Text(2), Text(2)>>))>>
EventFields == <<Word(8), Word(1), Word(1), Word(1), Word(4), Text(2), Text(2), Text(4), Word(8)>>
SpaceFields == <<Text(2), Text(2), Text(2), Word(4), Word(1), Word(1)>>
EmbeddingFields == Append(SpaceFields, List(4, Word(4)))
DetectionFields == [i \in 1..6 |-> Word(4)] \o <<Text(2)>>
VisionFields ==
  <<Word(1), Text(2), Text(2), Text(2), Word(4), Word(4), List(4, Group(DetectionFields))>>
ControlFields == <<Word(1), Text(2), Word(8)>>
BindFields == <<Word(8), Word(8), Word(4), Word(8), Word(8)>>
BindSize == 36
CapabilityFields(fiveFlags) ==
  <<List(2, Word(1)), Word(4), Word(4), Flag, Flag, Flag, Flag>>
    \o (IF fiveFlags THEN <<Flag>> ELSE <<>>)
    \o <<List(2, Text(2)), List(2, Group(SpaceFields))>>
VisionModels ==
  List(2, Group(<<Text(2), Text(2), Text(2), Word(1), Word(4), List(2, Text(2))>>))
DecisionModels == List(2, Group(<<Text(2), Text(2), Text(2)>>))

EmbeddingResult == 7
VisionResult == 13
DecisionResult == 14
Detect == 1

\* The sections of an event by its type.
EventLayout(type) ==
  CASE type = EmbeddingResult -> <<EventFields, EmbeddingFields>>
    [] type = VisionResult -> <<EventFields, VisionFields>>
    [] OTHER -> <<EventFields>>

-----------------------------------------------------------------------------
(* is_valid *)

Short(text) == Len(text) <= MaxText

IsStream(s) == s[1] # 0 /\ s[2] # 0
IsConnectionLevel(s) == s = <<0, 0, 0>>

ValidRequest(e) == IsStream(e.stream) /\ e.body[1][1] # 0 /\ e.body[1][2] # <<>>

ValidEmbedding(b) == b[1] # <<>> /\ b[4] > 0 /\ Len(b[7]) = b[4]

Custom == 7

\* A label is optional; if given it is the standard one of its class, or of a custom set
\* (whose name begins with the digit Custom here, with "custom:" in the code).
ValidLabel(set, class, label) ==
  \/ label = <<>>
  \/ IF set \in DOMAIN StandardLabels /\ class < Len(StandardLabels[set])
     THEN label = StandardLabels[set][class + 1]
     ELSE set[1] = Custom /\ Short(label)

\* score, then x_min < x_max and y_min < y_max; One is 1.0.
One == 10
ValidDetection(set, d) ==
  /\ d[2] <= One /\ d[3] < d[5] /\ d[5] <= One /\ d[4] < d[6] /\ d[6] <= One
  /\ ValidLabel(set, d[1], d[7])

ValidVision(b) ==
  /\ b[1] = Detect
  /\ b[2] # <<>> /\ b[4] # <<>> /\ \A i \in 2..4 : Short(b[i])
  /\ {b[5], b[6]} \subseteq 1..(Radix^2 - 1)
  /\ Len(b[7]) <= MaxListed
  /\ \A i \in DOMAIN b[7] : ValidDetection(b[4], b[7][i])

ValidEvent(e) ==
  LET b == e.body[1] IN
  /\ IsStream(e.stream) \/ IsConnectionLevel(e.stream)
  /\ b[2] # 0
  /\ ~IsConnectionLevel(e.stream) => b[1] # 0
  /\ b[2] = EmbeddingResult => ValidEmbedding(e.body[2])
  /\ b[2] = VisionResult => ValidVision(e.body[2])
  /\ b[2] = DecisionResult => b[8] # <<>>

ValidControl(e) == IsStream(e.stream) /\ e.body[1][1] # 0
ValidBind(e) == e.body[1][1] # 0 /\ e.body[1][2] # 0 /\ e.body[1][5] # 0
ValidDecisionModel(m) ==
  /\ m[1] # <<>> /\ m[3] # <<>>
  /\ \A i \in 1..3 : Short(m[i])

-----------------------------------------------------------------------------
(* Encoding *)

\* The order of std::string.
Before(s, t) ==
  \/ IsStrictPrefix(s, t)
  \/ \E i \in 1..Len(s) : /\ i <= Len(t) /\ s[i] < t[i]
                          /\ SubSeq(s, 1, i - 1) = SubSeq(t, 1, i - 1)

\* Extra options go out by key.
ByKey(extras) == SortSeq(extras, LAMBDA a, b : Before(a[1], b[1]))
SortedOptions(o) == [o EXCEPT ![10] = ByKey(@)]

\* The flags word says that all options are there, whatever they are; no reader keeps it.
AllFlags == 127
WithAllFlags(o) == [o EXCEPT ![1] = AllFlags]

ValidOptions(o) ==
  /\ Len(o[9]) < Radix^2 /\ Len(o[10]) < Radix^2
  /\ \A i, j \in DOMAIN o[10] : i # j => o[10][i][1] # o[10][j][1]

RequestPayload(e) ==
  PutAll(RequestFields, e.body[1])
    \o (IF Len(e.body) = 1 THEN <<>>
        ELSE PutAll(OptionFields, WithAllFlags(SortedOptions(e.body[2]))))

EventPayload(e) ==
  LET layout == EventLayout(e.body[1][2])
  IN FlattenSeq([i \in DOMAIN layout |-> PutAll(layout[i], e.body[i])])

\* Mutant of CapabilityPayload: each list is written when it is not empty.
MutantCapabilityPayload(b) ==
  PutAll(CapabilityFields(TRUE), b[1])
    \o (IF b[2] # <<>> THEN Put(VisionModels, b[2]) ELSE <<>>)
    \o (IF b[3] # <<>> THEN Put(DecisionModels, b[3]) ELSE <<>>)

\* Vision models are written when there are some, and before decision models always.
CapabilityPayload(b) ==
  PutAll(CapabilityFields(TRUE), b[1])
    \o (IF b[2] # <<>> \/ b[3] # <<>> THEN Put(VisionModels, b[2]) ELSE <<>>)
    \o (IF b[3] # <<>> THEN Put(DecisionModels, b[3]) ELSE <<>>)

\* What a peer from before the fifth flag writes.
LegacyPayload(b) ==
  PutAll(CapabilityFields(FALSE), SubSeq(b[1], 1, 7) \o SubSeq(b[1], 9, 10))

\* Registrations: operation, slots, status, reason, capabilities, extensions.
RegisterRuntime == 1
RegistrationResult == 2
CapacityUpdate == 5
NoCapabilities ==
  <<(<<(<<>>), 0, 0, TRUE, TRUE, FALSE, FALSE, FALSE, <<>>, <<>>>>), <<>>, <<>>>>

AsSet(s) == {s[i] : i \in DOMAIN s}
Distinct(s) == \A i, j \in DOMAIN s : i # j => s[i] # s[j]
VisionProfile == 4
DecisionProfile == 5

\* A registration offers each model once, and spaces, vision and decision models of
\* models it offers, the last two just when it has the profile.
ValidOffer(b) ==
  LET profiles == b[1][1]
      models == b[1][9]
      spaces == b[1][10]
      Names(s) == [i \in DOMAIN s |-> s[i][1]]
  IN /\ models # <<>> /\ profiles # <<>>
     /\ Distinct(models) /\ \A n \in AsSet(models) : n # <<>> /\ Short(n)
     /\ Distinct(profiles) /\ AsSet(profiles) \subseteq 1..5
     /\ \A i \in DOMAIN spaces :
          /\ spaces[i][1] # <<>> /\ spaces[i][2] \in AsSet(models)
          /\ \A j \in 1..3 : Short(spaces[i][j])
          /\ spaces[i][4] \in 1..MaxDimensions /\ spaces[i][5] <= 1 /\ spaces[i][6] \in 1..3
     /\ VisionProfile \in AsSet(profiles) <=> b[2] # <<>>
     /\ Distinct(Names(b[2])) /\ AsSet(Names(b[2])) \subseteq AsSet(models)
     /\ \A i \in DOMAIN b[2] :
          /\ b[2][i][3] # <<>> /\ b[2][i][4] = Detect /\ b[2][i][5] \in 1..MaxListed
          /\ \A j \in 1..3 : Short(b[2][i][j])
          /\ \A label \in AsSet(b[2][i][6]) : Short(label)
     /\ DecisionProfile \in AsSet(profiles) <=> b[3] # <<>>
     /\ Distinct(Names(b[3])) /\ AsSet(Names(b[3])) \subseteq AsSet(models)
     /\ Len(b[3]) <= MaxListed /\ \A i \in DOMAIN b[3] : ValidDecisionModel(b[3][i])

OkStatus == 200
ValidRegistration(r) ==
  LET op == r[1] IN
  /\ op \in 1..6 /\ Short(r[4])
  /\ IF op = RegistrationResult
     THEN (r[3] = OkStatus \/ r[3] \in 400..599) /\ r[2] = 0 /\ r[5] = NoCapabilities
     ELSE /\ r[3] = 0 /\ r[4] = <<>>
          /\ IF op = RegisterRuntime THEN r[2] # 0 /\ ValidOffer(r[5])
             ELSE r[5] = NoCapabilities /\ (op = CapacityUpdate \/ r[2] = 0)

\* Tags of extensions, the upper half of the words of two bytes.
FirstExtension == (Radix * Radix) \div 2
Tagged == <<Word(2), Text(4)>>
Increasing(tags) == \A i \in DOMAIN tags : \A j \in 1..(i - 1) : tags[j] < tags[i]
TagsOf(s) == [i \in DOMAIN s |-> s[i][1]]

RegistrationPayload(r) ==
  LET op == r[1]
      known == (IF op \in {RegisterRuntime, CapacityUpdate}
                THEN <<(<<1, Digits(r[2], 4)>>)>> ELSE <<>>)
                 \o (IF op = RegistrationResult
                     THEN <<(<<2, Digits(r[3], 4)>>), <<3, r[4]>>>> ELSE <<>>)
                 \o (IF op = RegisterRuntime THEN <<(<<4, CapabilityPayload(r[5])>>)>> ELSE <<>>)
      all == known \o r[6]
  IN <<1, 0, op, 0>> \o FlattenSeq([i \in DOMAIN all |-> PutAll(Tagged, all[i])])

Encodable(e) ==
  CASE e.type = "request" -> ValidRequest(e) /\ (Len(e.body) = 2 => ValidOptions(e.body[2]))
    [] e.type = "event" -> ValidEvent(e)
    [] e.type = "control" -> ValidControl(e)
    [] e.type = "session_bind" -> ValidBind(e)
    [] e.type \in {"capabilities", "legacy"} -> TRUE
    [] e.type = "runtime_register" ->
         /\ ValidRegistration(e.body)
         /\ Increasing(TagsOf(e.body[6])) /\ \A t \in AsSet(TagsOf(e.body[6])) : t >= FirstExtension

Payload(e) ==
  CASE e.type = "request" -> RequestPayload(e)
    [] e.type = "event" -> EventPayload(e)
    [] e.type = "control" -> PutAll(ControlFields, e.body[1])
    [] e.type = "session_bind" -> PutAll(BindFields, e.body[1])
    [] e.type = "capabilities" -> CapabilityPayload(e.body)
    [] e.type = "legacy" -> LegacyPayload(e.body)
    [] e.type = "runtime_register" -> RegistrationPayload(e.body)

\* Frames about the connection name no stream.
Framed(e) ==
  LET Carrying(payload) ==
        FrameOf(IF e.type = "legacy" THEN "capabilities" ELSE e.type,
                IF e.type \in {"request", "event", "control"} THEN e.stream ELSE <<0, 0, 0>>,
                Len(payload), NoExt, payload)
  IN Carrying(Payload(e))

-----------------------------------------------------------------------------
(* Decoding *)

\* All of the payload is there.
Whole(f) == Len(f.payload) >= f.len

\* Sections that use the payload up.
Exactly(r) == r.ok /\ r.rest = <<>>

\* Mutant of InOrder: a key may be repeated.
MutantInOrder(extras) == \A i \in 2..Len(extras) : ~Before(extras[i][1], extras[i - 1][1])

InOrder(extras) == \A i \in 2..Len(extras) : Before(extras[i - 1][1], extras[i][1])

DecodeRequest(f) ==
  LET Valid(b) ==
        LET e == [type |-> "request", stream |-> f.stream, body |-> b]
        IN IF ValidRequest(e) THEN Done(e) ELSE Refused
      WithOptions(base, options) ==
        IF Exactly(options) /\ InOrder(options.value[10])
        THEN Valid(<<base, WithAllFlags(options.value)>>) ELSE Refused
      With(base) ==
        IF ~base.ok THEN Refused
        ELSE IF base.rest = <<>> THEN Valid(<<base.value>>)
        ELSE WithOptions(base.value, GetAll(OptionFields, base.rest))
  IN With(GetAll(RequestFields, Body(f)))

DecodeEvent(f) ==
  LET Valid(b) ==
        LET e == [type |-> "event", stream |-> f.stream, body |-> b]
        IN IF ValidEvent(e) THEN Done(e) ELSE Refused
      WithSection(base, fields, more) ==
        IF /\ Exactly(more)
           /\ fields = EmbeddingFields => Len(more.value[7]) <= MaxDimensions
           /\ fields = VisionFields => Len(more.value[7]) <= MaxListed
        THEN Valid(<<base, more.value>>) ELSE Refused
      With(base, layout) ==
        IF Len(layout) = 2
        THEN WithSection(base.value, layout[2], GetAll(layout[2], base.rest))
        ELSE IF Exactly(base) THEN Valid(<<base.value>>) ELSE Refused
      Started(base) == IF base.ok THEN With(base, EventLayout(base.value[2])) ELSE Refused
  IN Started(GetAll(EventFields, Body(f)))

DecodeControl(f) ==
  LET r == GetAll(ControlFields, Body(f))
      e == [type |-> "control", stream |-> f.stream, body |-> <<r.value>>]
  IN IF Exactly(r) /\ ValidControl(e) THEN Done(e) ELSE Refused

CapabilitiesIn(w, fiveFlags) ==
  LET Checked(r) ==
        IF /\ Exactly(r)
           /\ Len(r.value[3]) <= MaxListed
           /\ \A i \in DOMAIN r.value[3] : ValidDecisionModel(r.value[3][i])
        THEN Done(IF fiveFlags THEN r.value
                  ELSE [r.value EXCEPT ![1] = SubSeq(@, 1, 7) \o <<FALSE>> \o SubSeq(@, 8, 9)])
        ELSE Refused
  IN Checked(GetAll(<<Group(CapabilityFields(fiveFlags)),
                      LastList(VisionModels), LastList(DecisionModels)>>, w))

\* The layout with five flags first, the older one if that does not fit.
CapabilitiesOf(w) ==
  LET OrOlder(r) == IF r.ok THEN r ELSE CapabilitiesIn(w, FALSE)
  IN OrOlder(CapabilitiesIn(w, TRUE))

DecodeCapabilities(f) ==
  LET r == CapabilitiesOf(Body(f))
  IN IF r.ok THEN Done([type |-> "capabilities", stream |-> <<0, 0, 0>>, body |-> r.value])
     ELSE Refused

DecodeBind(f) ==
  LET r == GetAll(BindFields, f.payload)
      e == [type |-> "session_bind", stream |-> f.stream, body |-> <<r.value>>]
  IN IF /\ f.stream = <<0, 0, 0>> /\ f.len = BindSize /\ Len(f.payload) = f.len
        /\ ValidBind(e)
     THEN Done(e) ELSE Refused

\* The tagged values of a registration, as far as they can be read.
RECURSIVE Tags(_)
Tags(w) ==
  IF w = <<>> THEN Done(<<>>)
  ELSE LET Prepended(tag, more) == IF more.ok THEN Done(<<tag>> \o more.value) ELSE Refused
           From(one) == IF one.ok THEN Prepended(one.value, Tags(one.rest)) ELSE Refused
       IN From(GetAll(Tagged, w))

\* What each operation must bring, no more and no less.
Expected(op) ==
  CASE op = RegisterRuntime -> {1, 4}
    [] op = RegistrationResult -> {2, 3}
    [] op = CapacityUpdate -> {1}
    [] OTHER -> {}

ValidTag(t, v) ==
  CASE t \in {1, 2} -> Len(v) = 4
    [] t = 3 -> Short(v)
    [] t = 4 -> LET Canonical(r) == r.ok /\ CapabilityPayload(r.value) = v
                IN Canonical(CapabilitiesOf(v))
    [] OTHER -> t >= FirstExtension

RegistrationOf(op, tags) ==
  LET Value(t, default, Of(_)) ==
        IF \E i \in DOMAIN tags : tags[i][1] = t
        THEN Of((CHOOSE x \in AsSet(tags) : x[1] = t)[2]) ELSE default
      Same(v) == v
      Caps(v) == CapabilitiesOf(v).value
  IN <<op, Value(1, 0, Number), Value(2, 0, Number), Value(3, <<>>, Same),
       Value(4, NoCapabilities, Caps), SelectSeq(tags, LAMBDA x : x[1] >= FirstExtension)>>

DecodeRegistration(f) ==
  LET w == f.payload
      Checked(r) ==
        IF ValidRegistration(r)
        THEN Done([type |-> "runtime_register", stream |-> f.stream, body |-> r]) ELSE Refused
      With(tags) ==
        IF /\ Increasing(TagsOf(tags))
           /\ \A i \in DOMAIN tags : ValidTag(tags[i][1], tags[i][2])
           /\ AsSet(TagsOf(tags)) \cap (0..4) = Expected(w[3])
        THEN Checked(RegistrationOf(w[3], tags)) ELSE Refused
      Tagging(read) == IF read.ok THEN With(read.value) ELSE Refused
  IN IF /\ Len(w) = f.len /\ f.stream = <<0, 0, 0>>
        /\ f.len >= 4
        /\ w[1] = 1 /\ w[2] = 0 /\ w[4] = 0
     THEN Tagging(Tags(SubSeq(w, 5, Len(w))))
     ELSE Refused

Decoded(f) ==
  IF ~Whole(f) THEN Refused
  ELSE CASE f.type = "request" -> DecodeRequest(f)
         [] f.type = "event" -> DecodeEvent(f)
         [] f.type = "control" -> DecodeControl(f)
         [] f.type = "capabilities" -> DecodeCapabilities(f)
         [] f.type = "session_bind" -> DecodeBind(f)
         [] f.type = "runtime_register" -> DecodeRegistration(f)

-----------------------------------------------------------------------------
(* Properties *)

\* Nothing of the envelope is too long for its prefix, and a decoder's own limits, which
\* the encoder does not know, are kept.
FitsAll(fields, vs) == FitsField(Group(fields), vs)

FitsCapabilities(b) ==
  /\ FitsAll(CapabilityFields(TRUE), b[1])
  /\ FitsField(VisionModels, b[2]) /\ FitsField(DecisionModels, b[3])
  /\ Len(b[3]) <= MaxListed /\ \A m \in AsSet(b[3]) : ValidDecisionModel(m)

FitsEvent(e) ==
  LET layout == EventLayout(e.body[1][2]) IN
  /\ \A i \in DOMAIN layout : FitsAll(layout[i], e.body[i])
  /\ e.body[1][2] = EmbeddingResult => e.body[2][4] <= MaxDimensions

Fits(e) ==
  CASE e.type = "request" -> /\ FitsAll(RequestFields, e.body[1])
                             /\ Len(e.body) = 2 => FitsAll(OptionFields, e.body[2])
    [] e.type = "event" -> FitsEvent(e)
    [] e.type = "control" -> FitsAll(ControlFields, e.body[1])
    [] e.type = "session_bind" -> TRUE
    [] e.type \in {"capabilities", "legacy"} -> FitsCapabilities(e.body)
    [] e.type = "runtime_register" -> FitsCapabilities(e.body[5])

\* What a reader makes of it: options by key; no fifth flag from an older peer.
AsRead(e) ==
  CASE e.type = "request" /\ Len(e.body) = 2 -> [e EXCEPT !.body[2] = SortedOptions(@)]
    [] e.type = "legacy" -> [e EXCEPT !.type = "capabilities", !.body[1][8] = FALSE]
    [] OTHER -> e

\* An older peer's list with a nameless model: its zero bytes, with one more, also make up
\* an empty list in the layout with five flags.
Ambiguous(e) == e.type = "legacy" /\ <<>> \in AsSet(e.body[1][9])

\* An envelope that fits is read as it was sent, by new and old layouts, whatever sections
\* it has, signed or not; a frame that is cut short is refused, and bytes that follow or extend it never
\* change what is read (every encode_ and decode_ function).
FramesSayWhatWasSent ==
  stage = "received" /\ Fits(sent) =>
    /\ harm = "none" /\ (frame.ext.on => verifiedAs = Signer) => got = Done(AsRead(sent))
    /\ harm = "cut" => ~got.ok
    /\ harm \in {"padded", "trailed"} /\ ~Ambiguous(sent) =>
         got \in {Refused, Done(AsRead(sent))}

\* Whatever a decoder accepts, from whatever bytes, the encoder writes again and it reads
\* the same: no two readings of one envelope go round.  A registration is accepted in the
\* one form its encoder writes ("Reject non-canonical/trailing nested capability data",
\* decode_runtime_registration).
AcceptedIsCanonical ==
  got.ok =>
    /\ Encodable(got.value)
    /\ Decoded(Framed(got.value)) = got
    /\ got.value.type = "runtime_register" => Payload(got.value) = frame.payload
=============================================================================
