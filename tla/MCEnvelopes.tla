---------------------------- MODULE MCEnvelopes ----------------------------
(***************************************************************************)
(* Envelopes for TLC: the envelopes a run sends.  The base is 16, so that  *)
(* a length prefix of two digits wraps at 256.                             *)
(***************************************************************************)
EXTENDS Envelopes

On(type, body) == [type |-> type, stream |-> <<1, 2, 0>>, body |-> body]
About(type, body) == [type |-> type, stream |-> <<0, 0, 0>>, body |-> body]
Zeros(n) == [i \in 1..n |-> 0]
A == <<1>>
B == <<2, 1>>

RequestBase(model) == <<1, model, <<1, 0>>, 3, 4, TRUE>>
Options(stops, extras) == <<AllFlags, 1, 2, 3, 4, 5, 6, 7, stops, extras>>
Requests ==
  {On("request", <<RequestBase(m)>>) : m \in {A, <<>>, Zeros(255), Zeros(256)}}
    \cup {On("request", <<RequestBase(A), Options(stops, extras)>>) :
            stops \in {<<>>, <<A, <<>>>>},
            extras \in {<<>>, <<(<<B, A>>), <<A, B>>>>, <<(<<A, A>>), <<(<<1, 1>>), B>>>>,
                        <<(<<A, A>>), <<A, B>>>>, <<(<<A, B>>), <<(<<0>>), B>>>>}}

EventBase(type, outcome) == <<1, type, outcome, 0, 0, <<>>, A, <<1, 1>>, 7>>
Embedding(dims, n) == <<A, B, <<>>, dims, 1, 1, [i \in 1..n |-> i]>>
Detection(class, label) == <<class, 5, 0, 1, 9, 10, label>>
Vision(set, width, detections) == <<Detect, A, <<>>, set, width, 2, detections>>
Standard == <<1, 2>>
LabelSets == [s \in {Standard} |-> <<A, B>>]
Events ==
  {On("event", <<EventBase(t, 0)>>) : t \in {1, 0}}
    \cup {[On("event", <<EventBase(1, 0)>>) EXCEPT !.stream = s] : s \in {<<0, 0, 0>>, <<1, 0, 0>>}}
    \cup {On("event", <<EventBase(EmbeddingResult, 0), Embedding(d, n)>>) :
            d \in {0, 2, 3}, n \in {2, 3}}
    \cup {On("event", <<EventBase(VisionResult, 0), Vision(set, width, ds)>>) :
            set \in {Standard, <<Custom, 1>>}, width \in {255, 256},
            ds \in {<<>>, <<Detection(0, <<>>), Detection(1, B)>>, <<Detection(2, A)>>}}

Controls == {On("control", <<(<<c, r, 9>>)>>) : c \in {0, 1}, r \in {<<>>, A}}
Bindings == {About("session_bind", <<(<<1, r, 3, 4, 5>>)>>) : r \in {0, 2}}

\* Profiles, five flags, models and embedding spaces; then vision and decision models.
Offered(profiles, five, models, spaces) ==
  <<profiles, 8, 9, TRUE, TRUE, FALSE, TRUE, five, models, spaces>>
Space(model) == <<B, model, <<>>, 2, 1, 2>>
VisionModel(model) == <<model, <<>>, Standard, Detect, 2, <<A>>>>
DecisionModel(model) == <<model, <<>>, B>>
Capabilities ==
  {About("capabilities", <<Offered(<<1>>, five, <<A, B>>, <<Space(A)>>), v, d>>) :
     five \in BOOLEAN, v \in {<<>>, <<VisionModel(A)>>},
     d \in {<<>>, <<DecisionModel(B)>>, <<DecisionModel(<<>>)>>}}
Names == {<<>>, <<0>>, A}
OlderCapabilities ==
  {About("legacy", <<Offered(p, FALSE, models, spaces), <<>>, <<>>>>) :
     p \in {<<>>, <<1>>},
     models \in {<<>>} \cup {<<a>> : a \in Names} \cup {<<a, b>> : a, b \in Names},
     spaces \in {<<>>, <<Space(A)>>}}

Offer(profiles, vision, decision) ==
  <<Offered(profiles, TRUE, <<A, B>>, <<Space(B)>>),
    vision, decision>>
Registrations ==
  {About("runtime_register", <<RegisterRuntime, slots, 0, <<>>, offer, ext>>) :
     slots \in {0, 2},
     offer \in {Offer(<<1>>, <<>>, <<>>), Offer(<<1, 5>>, <<>>, <<DecisionModel(B)>>),
                Offer(<<4>>, <<VisionModel(A)>>, <<>>), Offer(<<1>>, <<VisionModel(A)>>, <<>>)},
     ext \in {<<>>, <<(<<FirstExtension, A>>), <<FirstExtension + 1, <<>>>>>>}}
    \cup {About("runtime_register", <<RegistrationResult, 0, s, A, NoCapabilities, <<>>>>) :
            s \in {200, 404, 600}}
    \cup {About("runtime_register", <<op, n, 0, <<>>, NoCapabilities, <<>>>>) :
            op \in {3, CapacityUpdate}, n \in {0, 3}}

MCInputs ==
  Requests \cup Events \cup Controls \cup Bindings \cup Capabilities \cup OlderCapabilities
    \cup Registrations

End(b, d) == [bind |-> b, dir |-> d]
MCReceivers == {End(<<1, 2, 3, 4, t>>, d) : t \in {5, 6}, d \in {"to_worker", "to_router"}}
MCSigner == End(<<1, 2, 3, 4, 5>>, "to_worker")
MCGarbage == {<<0>>, <<0, 0>>, <<1>>, <<1, 0>>}
=============================================================================
