--------------------------- MODULE SessionProofs ---------------------------
(***************************************************************************)
(* What Session promises, for any set of streams, any limits and any       *)
(* events.  All of it follows from two facts about one step: what it may   *)
(* do to one stream (StreamStep) and to the binding (BindingStep).         *)
(***************************************************************************)
EXTENDS Session, FiniteSetTheorems, TLAPS

\* No drain a caller reports wraps the 64-bit offset around.
NoWrap == \A n \in Drains : MaxProduced + n < OffsetModulus

\* Offsets stay below the bound: what keeps DrainTarget an ordinary sum.
ProducedBounded == \A s \in Streams : produced[s] <= MaxProduced

StreamInv == TypeOK /\ ProducedBounded /\ BufferBounded /\ OutcomeIffTerminal

SameStream(s) ==
  /\ life'[s] = life[s] /\ outcome'[s] = outcome[s] /\ lastSeq'[s] = lastSeq[s]
  /\ produced'[s] = produced[s] /\ acked'[s] = acked[s]

Submitted(s) ==
  /\ life[s] = "absent" /\ life'[s] = "accepted" /\ outcome'[s] = outcome[s]
  /\ lastSeq'[s] = lastSeq[s]
  /\ produced'[s] = produced[s] /\ acked'[s] = acked[s]

Fed(s) ==
  /\ life[s] \notin {"absent", "terminal"} /\ outcome'[s] = outcome[s]
  /\ \/ life[s] = "accepted" /\ life'[s] = "started"
     \/ life'[s] = life[s]
  /\ lastSeq'[s] \in Nat /\ lastSeq'[s] > lastSeq[s]
  /\ produced'[s] \in Nat /\ produced'[s] >= produced[s]
  /\ produced'[s] <= MaxProduced
  /\ acked'[s] = acked[s] /\ produced'[s] - acked[s] <= MaxBuffered

Finished(s) ==
  /\ life[s] \notin {"absent", "terminal"} /\ life'[s] = "terminal"
  /\ outcome'[s] \in Outcomes
  /\ lastSeq'[s] \in Nat /\ produced'[s] \in Nat
  /\ \/ lastSeq'[s] > lastSeq[s] /\ produced'[s] >= produced[s]
     \/ lastSeq'[s] = lastSeq[s] /\ produced'[s] = produced[s]
  /\ produced'[s] <= MaxProduced /\ acked'[s] = produced'[s]

Acknowledged(s) ==
  /\ life[s] # "absent" /\ life'[s] = life[s] /\ outcome'[s] = outcome[s]
  /\ lastSeq'[s] = lastSeq[s] /\ produced'[s] = produced[s]
  /\ acked'[s] \in Nat /\ acked[s] <= acked'[s] /\ acked'[s] <= produced[s]

CancelAsked(s) ==
  /\ life[s] \in {"accepted", "started"} /\ life'[s] = "cancel_requested"
  /\ outcome'[s] = outcome[s] /\ lastSeq'[s] = lastSeq[s]
  /\ produced'[s] = produced[s] /\ acked'[s] = acked[s]

StreamChange(s) ==
  SameStream(s) \/ Fed(s) \/ Finished(s) \/ Acknowledged(s) \/ CancelAsked(s)

\* The tables keep their domain.
ArrayStep ==
  /\ life' = [s \in Streams |-> life'[s]]
  /\ outcome' = [s \in Streams |-> outcome'[s]]
  /\ lastSeq' = [s \in Streams |-> lastSeq'[s]]
  /\ produced' = [s \in Streams |-> produced'[s]]
  /\ acked' = [s \in Streams |-> acked'[s]]

\* A sum that stays below the modulus is not changed by it.
LEMMA SmallMod ==
  ASSUME NEW m \in Nat \ {0}, NEW x \in Nat, x < m
  PROVE  x % m = x
  BY SMT

\* A step submits one stream or changes every stream in one of the other ways.
LEMMA StreamStep ==
  ASSUME NoWrap, StreamInv, [Next]_vars
  PROVE  /\ ArrayStep
         /\ \/ \A s \in Streams : StreamChange(s)
            \/ \E r \in Streams :
                 /\ Cardinality(InFlight) < MaxInflight
                 /\ Submitted(r)
                 /\ \A s \in Streams \ {r} : SameStream(s)
<1> USE DEF StreamInv, TypeOK, ArrayStep
<1>0. CASE UNCHANGED vars
  BY <1>0 DEF vars, StreamChange, SameStream
<1>1. ASSUME NEW r \in Streams, SubmitRequest(r)
      PROVE  ArrayStep /\ Cardinality(InFlight) < MaxInflight /\ Submitted(r)
             /\ \A s \in Streams \ {r} : SameStream(s)
  BY <1>1 DEF SubmitRequest, CanSubmit, Submitted, SameStream
<1>2. ASSUME NEW r \in Streams, NEW e \in Events, DispatchData(r, e)
      PROVE  ArrayStep /\ \A s \in Streams : StreamChange(s)
  <2>1. e.seq \in Nat /\ e.size \in Nat
    BY LimitsAreNatural DEF Events
  <2>2. /\ e.seq > lastSeq[r]
        /\ produced[r] - acked[r] + e.size <= MaxBuffered
    BY <1>2, <2>1, LimitsAreNatural
       DEF DispatchData, Feed, AcceptsEvent, Unacked, BufferBounded
  <2>3. Fed(r)
    BY <1>2, <2>1, <2>2, LimitsAreNatural DEF DispatchData, Feed, AcceptsEvent, Fed
  <2>4. ArrayStep /\ \A s \in Streams \ {r} : SameStream(s)
    BY <1>2 DEF DispatchData, Feed, SameStream
  <2> QED BY <2>3, <2>4 DEF StreamChange
<1>3. ASSUME NEW r \in Streams, NEW e \in Events, DispatchTerminal(r, e)
      PROVE  ArrayStep /\ \A s \in Streams : StreamChange(s)
  <2>1. e.seq \in Nat /\ e.size \in Nat
    BY LimitsAreNatural DEF Events
  <2>2. OutcomeOf(e) \in Outcomes
    BY <1>3 DEF Events, OutcomeOf, Outcomes, TerminalKinds, DispatchTerminal, Finish
  <2>3. Finished(r)
    BY <1>3, <2>1, <2>2, LimitsAreNatural DEF DispatchTerminal, Finish, AcceptsEvent, Finished
  <2>4. ArrayStep /\ \A s \in Streams \ {r} : SameStream(s)
    BY <1>3 DEF DispatchTerminal, Finish, SameStream
  <2> QED BY <2>3, <2>4 DEF StreamChange
<1>4. ASSUME NEW r \in Streams, NEW k \in Offsets, AcknowledgeOffset(r, k)
      PROVE  ArrayStep /\ \A s \in Streams : StreamChange(s)
  <2>1. k \in Nat
    BY LimitsAreNatural
  <2>2. Acknowledged(r)
    BY <1>4, <2>1 DEF AcknowledgeOffset, Advance, Acknowledged
  <2>3. ArrayStep /\ \A s \in Streams \ {r} : SameStream(s)
    BY <1>4 DEF AcknowledgeOffset, Advance, SameStream
  <2> QED BY <2>2, <2>3 DEF StreamChange
<1>5. ASSUME NEW r \in Streams, NEW n \in Drains, AcknowledgeDrain(r, n)
      PROVE  ArrayStep /\ \A s \in Streams : StreamChange(s)
  <2>1. n \in Nat /\ acked[r] + n \in Nat /\ acked[r] + n < OffsetModulus
    BY LimitsAreNatural DEF NoWrap, BufferBounded, ProducedBounded
  <2>2. DrainTarget(r, n) = acked[r] + n
    BY <2>1, SmallMod, LimitsAreNatural DEF DrainTarget
  <2>3. Acknowledged(r)
    BY <1>5, <2>1, <2>2 DEF AcknowledgeDrain, Acknowledged
  <2>4. ArrayStep /\ \A s \in Streams \ {r} : SameStream(s)
    BY <1>5 DEF AcknowledgeDrain, SameStream
  <2> QED BY <2>3, <2>4 DEF StreamChange
<1>6. ASSUME NEW group \in SUBSET Streams, Cancel(group)
      PROVE  ArrayStep /\ \A s \in Streams : StreamChange(s)
  BY <1>6 DEF Cancel, Cancellable, StreamChange, CancelAsked, SameStream
<1>7. ASSUME NEW o \in Outcomes, TerminateAllActiveStreams(o)
      PROVE  ArrayStep /\ \A s \in Streams : StreamChange(s)
  BY <1>7 DEF TerminateAllActiveStreams, EndAll, InFlight, StreamChange, Finished,
              SameStream, ProducedBounded
<1>8. ASSUME UNCHANGED streamVars
      PROVE  ArrayStep /\ \A s \in Streams : StreamChange(s)
  BY <1>8 DEF streamVars, StreamChange, SameStream
<1>9. ASSUME NEW s \in Streams, CancelExecution(ExecutionOf(s)) \/ ProcessControlCancel(s)
      PROVE  ArrayStep /\ \A t \in Streams : StreamChange(t)
  BY <1>6, <1>9 DEF CancelExecution, ProcessControlCancel
<1>10. ASSUME \/ \E b \in Binds : ProcessSessionBind(b)
              \/ MarkBindingStale
              \/ \E k \in 1..MaxAuthSeq : VerifyInboundFrame(k)
              \/ SignOutboundFrame
       PROVE  UNCHANGED streamVars
  BY <1>10 DEF ProcessSessionBind, MarkBindingStale, VerifyInboundFrame,
               SignOutboundFrame
<1> QED
  BY <1>0, <1>1, <1>2, <1>3, <1>4, <1>5, <1>7, <1>8, <1>9, <1>10
     DEF Next, ProcessControlWindowUpdate

\* The session's start satisfies the stream invariant.
LEMMA StreamInit ==
  ASSUME Init
  PROVE  StreamInv
  BY LimitsAreNatural
     DEF Init, StreamInv, TypeOK, ProducedBounded, BufferBounded,
         OutcomeIffTerminal, Lifecycle, Outcomes

AuthType == [active : BOOLEAN, out : Nat, in : Nat]

BindingType ==
  /\ binding \in {"unbound", "bound_current", "bound_stale"}
  /\ bound \in SUBSET Binds
  /\ generation \in Nat
  /\ auth \in AuthType

\* The steps that touch streams leave the binding alone.
LEMMA BindingStep ==
  ASSUME [Next]_vars
  PROVE  \/ UNCHANGED bindingVars
         \/ \E b \in Binds : ProcessSessionBind(b)
         \/ MarkBindingStale
         \/ \E k \in 1..MaxAuthSeq : VerifyInboundFrame(k)
         \/ SignOutboundFrame
<1>1. ASSUME \/ \E s \in Streams : SubmitRequest(s)
             \/ \E s \in Streams, e \in Events : DispatchData(s, e) \/ DispatchTerminal(s, e)
             \/ \E s \in Streams, k \in Offsets : AcknowledgeOffset(s, k)
             \/ \E s \in Streams, n \in Drains : AcknowledgeDrain(s, n)
             \/ \E s \in Streams : CancelExecution(ExecutionOf(s)) \/ ProcessControlCancel(s)
             \/ \E o \in Outcomes : TerminateAllActiveStreams(o)
      PROVE  UNCHANGED bindingVars
  BY <1>1 DEF SubmitRequest, DispatchData, Feed, DispatchTerminal, Finish, AcknowledgeOffset, Advance,
              AcknowledgeDrain, CancelExecution, ProcessControlCancel, Cancel,
              TerminateAllActiveStreams, EndAll
<1>2. CASE UNCHANGED vars
  BY <1>2 DEF vars, bindingVars
<1> QED BY <1>1, <1>2 DEF Next, ProcessControlWindowUpdate

\* The binding's variables keep their types.
LEMMA BindingTypeStep ==
  ASSUME BindingType, [Next]_vars
  PROVE  BindingType'
<1> USE DEF BindingType, AuthType
<1>1. CASE UNCHANGED bindingVars
  BY <1>1 DEF bindingVars
<1>2. ASSUME NEW b \in Binds, ProcessSessionBind(b)
      PROVE  BindingType'
  <2>1. AuthAfterBind(b) \in AuthType
    BY DEF AuthAfterBind
  <2> QED BY <1>2, <2>1 DEF ProcessSessionBind
<1>3. CASE MarkBindingStale
  BY <1>3 DEF MarkBindingStale
<1>4. ASSUME NEW k \in 1..MaxAuthSeq, VerifyInboundFrame(k)
      PROVE  BindingType'
  <2> DEFINE next == IF auth.in < MaxAuthSeq THEN auth.in + 1 ELSE auth.in
  <2>1. next \in Nat
    BY LimitsAreNatural
  <2>2. auth' = [auth EXCEPT !.in = next] /\ UNCHANGED <<binding, bound, generation>>
    BY <1>4 DEF VerifyInboundFrame
  <2> HIDE DEF next
  <2> QED BY <2>1, <2>2
<1>5. CASE SignOutboundFrame
  BY <1>5 DEF SignOutboundFrame
<1> QED BY <1>1, <1>2, <1>3, <1>4, <1>5, BindingStep

\* Every step preserves the stream invariant.
LEMMA StreamInvStep ==
  ASSUME NoWrap, StreamInv, [Next]_vars
  PROVE  StreamInv'
<1>1. /\ ArrayStep
      /\ \A s \in Streams : StreamChange(s) \/ Submitted(s)
  BY StreamStep DEF StreamChange
<1>2. ASSUME NEW s \in Streams
      PROVE  /\ life'[s] \in Lifecycle /\ outcome'[s] \in Outcomes \cup {"none"}
             /\ lastSeq'[s] \in Nat /\ produced'[s] \in Nat /\ acked'[s] \in Nat
             /\ produced'[s] <= MaxProduced
             /\ acked'[s] <= produced'[s]
             /\ produced'[s] - acked'[s] <= MaxBuffered
             /\ life'[s] \in {"absent", "terminal"} => acked'[s] = produced'[s]
             /\ outcome'[s] # "none" <=> life'[s] = "terminal"
  <2>0. /\ life[s] \in Lifecycle /\ outcome[s] \in Outcomes \cup {"none"}
        /\ lastSeq[s] \in Nat /\ produced[s] \in Nat /\ acked[s] \in Nat
        /\ produced[s] <= MaxProduced
        /\ acked[s] <= produced[s]
        /\ produced[s] - acked[s] <= MaxBuffered
        /\ life[s] \in {"absent", "terminal"} => acked[s] = produced[s]
        /\ outcome[s] # "none" <=> life[s] = "terminal"
    BY DEF StreamInv, TypeOK, ProducedBounded, BufferBounded, OutcomeIffTerminal
  <2>1. CASE SameStream(s)     BY <2>0, <2>1 DEF SameStream
  <2>2. CASE Submitted(s)      BY <2>0, <2>2 DEF Submitted, Lifecycle
  <2>3. CASE Fed(s)            BY <2>0, <2>3 DEF Fed, Lifecycle
  <2>4. CASE Finished(s)
    BY <2>0, <2>4, LimitsAreNatural DEF Finished, Lifecycle, Outcomes
  <2>5. CASE Acknowledged(s)   BY <2>0, <2>5, LimitsAreNatural DEF Acknowledged
  <2>6. CASE CancelAsked(s)    BY <2>0, <2>6 DEF CancelAsked, Lifecycle
  <2> QED BY <1>1, <2>1, <2>2, <2>3, <2>4, <2>5, <2>6 DEF StreamChange
<1>3. /\ life' \in [Streams -> Lifecycle]
      /\ outcome' \in [Streams -> Outcomes \cup {"none"}]
      /\ lastSeq' \in [Streams -> Nat]
      /\ produced' \in [Streams -> Nat]
      /\ acked' \in [Streams -> Nat]
  BY <1>1, <1>2 DEF ArrayStep
<1>4. TypeOK'
  BY <1>3, BindingTypeStep DEF StreamInv, TypeOK, BindingType, AuthType
<1>5. ProducedBounded' /\ BufferBounded' /\ OutcomeIffTerminal'
  BY <1>2 DEF ProducedBounded, BufferBounded, OutcomeIffTerminal
<1> QED BY <1>4, <1>5 DEF StreamInv

\* The stream invariant holds throughout.
LEMMA StreamSafety ==
  ASSUME NoWrap
  PROVE  Spec => []StreamInv
<1>1. Init => StreamInv
  BY StreamInit
<1>2. StreamInv /\ [Next]_vars => StreamInv'
  BY NoWrap, StreamInvStep
<1> QED BY <1>1, <1>2, PTL DEF Spec

\* The tables of session_manager keep their types.
THEOREM TypeCorrect ==
  ASSUME NoWrap
  PROVE  Spec => []TypeOK
<1>1. StreamInv => TypeOK
  BY DEF StreamInv
<1> QED BY <1>1, StreamSafety, NoWrap, PTL

\* Whatever events, acknowledgements and cancels arrive, the bytes a stream owes
\* its consumer stay within the limit and a finished stream owes none.
THEOREM BuffersBounded ==
  ASSUME NoWrap
  PROVE  Spec => []BufferBounded
<1>1. StreamInv => BufferBounded
  BY DEF StreamInv
<1> QED BY <1>1, StreamSafety, NoWrap, PTL

\* Outcome and terminal state of a stream come and stay together.
THEOREM OutcomesMatch ==
  ASSUME NoWrap
  PROVE  Spec => []OutcomeIffTerminal
<1>1. StreamInv => OutcomeIffTerminal
  BY DEF StreamInv
<1> QED BY <1>1, StreamSafety, NoWrap, PTL

\* Nothing a caller does changes a finished stream.
THEOREM TerminalStaysFinal ==
  ASSUME NoWrap
  PROVE  Spec => TerminalIsFinal
<1>1. ASSUME StreamInv, [Next]_vars, NEW s \in Streams, life[s] = "terminal"
      PROVE  /\ life'[s] = "terminal" /\ outcome'[s] = outcome[s]
             /\ lastSeq'[s] = lastSeq[s]
             /\ produced'[s] = produced[s] /\ acked'[s] = acked[s]
  <2>1. StreamChange(s) \/ Submitted(s)
    BY <1>1, NoWrap, StreamStep DEF StreamChange
  <2>2. SameStream(s) \/ Acknowledged(s)
    BY <1>1, <2>1 DEF StreamChange, Submitted, Fed, Finished, CancelAsked
  <2>3. \/ SameStream(s)
        \/ acked[s] = produced[s] /\ acked[s] \in Nat /\ acked'[s] \in Nat
    BY <1>1, <2>2 DEF StreamInv, TypeOK, BufferBounded, Acknowledged
  <2> QED BY <1>1, <2>2, <2>3 DEF SameStream, Acknowledged
<1> DEFINE Step == \A s \in Streams : life[s] = "terminal" =>
                     /\ life'[s] = "terminal" /\ outcome'[s] = outcome[s]
                     /\ lastSeq'[s] = lastSeq[s]
                     /\ produced'[s] = produced[s] /\ acked'[s] = acked[s]
<1>2. StreamInv /\ [Next]_vars => [Step]_vars
  BY <1>1
<1>3. Spec => [][Step]_vars
  BY <1>2, StreamSafety, NoWrap, PTL DEF Spec
<1> QED BY <1>3 DEF TerminalIsFinal

\* A consumer's progress is never taken back, as long as no drain wraps.
THEOREM AcksAdvance ==
  ASSUME NoWrap
  PROVE  Spec => AckMonotonic
<1>1. ASSUME StreamInv, [Next]_vars, NEW s \in Streams
      PROVE  acked'[s] >= acked[s]
  <2>1. StreamChange(s) \/ Submitted(s)
    BY <1>1, NoWrap, StreamStep DEF StreamChange
  <2>2. acked[s] \in Nat /\ produced[s] \in Nat /\ acked[s] <= produced[s]
    BY <1>1 DEF StreamInv, TypeOK, BufferBounded
  <2> QED BY <2>1, <2>2 DEF StreamChange, SameStream, Submitted, Fed, Finished,
                            Acknowledged, CancelAsked
<1> DEFINE Step == \A s \in Streams : acked'[s] >= acked[s]
<1>2. StreamInv /\ [Next]_vars => [Step]_vars
  BY <1>1
<1>3. Spec => [][Step]_vars
  BY <1>2, StreamSafety, NoWrap, PTL DEF Spec
<1> QED BY <1>3 DEF AckMonotonic

\* Streams only move forward in their lifecycle, their numbering and their bytes.
THEOREM StreamsAdvance ==
  ASSUME NoWrap
  PROVE  Spec => StreamsMoveForward
<1> DEFINE Forward(s) ==
       /\ Rank(life'[s]) >= Rank(life[s])
       /\ produced'[s] >= produced[s]
       /\ lastSeq'[s] >= lastSeq[s]
       /\ produced'[s] > produced[s] => lastSeq'[s] > lastSeq[s]
<1>1. ASSUME StreamInv, [Next]_vars, NEW s \in Streams
      PROVE  Forward(s)
  <2>1. StreamChange(s) \/ Submitted(s)
    BY <1>1, NoWrap, StreamStep DEF StreamChange
  <2>2. produced[s] \in Nat /\ lastSeq[s] \in Nat /\ life[s] \in Lifecycle
    BY <1>1 DEF StreamInv, TypeOK
  <2>3. /\ Rank("absent") = 0 /\ Rank("accepted") = 1 /\ Rank("started") = 2
        /\ Rank("cancel_requested") = 3 /\ Rank("terminal") = 4
    BY DEF Rank
  <2>4. Rank(life[s]) \in 0..4
    BY <2>2, <2>3 DEF Lifecycle
  <2>5. CASE SameStream(s)   BY <2>2, <2>4, <2>5 DEF SameStream
  <2>6. CASE Submitted(s)    BY <2>2, <2>3, <2>6 DEF Submitted
  <2>7. CASE Fed(s)          BY <2>2, <2>3, <2>4, <2>7 DEF Fed
  <2>8. CASE Finished(s)     BY <2>2, <2>3, <2>4, <2>8 DEF Finished
  <2>9. CASE Acknowledged(s) BY <2>2, <2>4, <2>9 DEF Acknowledged
  <2>10. CASE CancelAsked(s) BY <2>2, <2>3, <2>10 DEF CancelAsked
  <2> QED BY <2>1, <2>5, <2>6, <2>7, <2>8, <2>9, <2>10 DEF StreamChange
<1> DEFINE Step == \A s \in Streams : Forward(s)
<1>2. StreamInv /\ [Next]_vars => [Step]_vars
  BY <1>1
<1>3. Spec => [][Step]_vars
  BY <1>2, StreamSafety, NoWrap, PTL DEF Spec
<1> QED BY <1>3 DEF StreamsMoveForward

\* Never more than max_inflight_streams streams are live, however submissions,
\* terminal events and teardown interleave.
THEOREM InflightStaysBounded ==
  ASSUME NoWrap
  PROVE  Spec => []InflightBounded
<1>1. Init => InflightBounded
  <2>1. ASSUME Init PROVE InFlight = {}
    BY <2>1 DEF Init, InFlight
  <2> QED BY <2>1, FS_EmptySet, LimitsAreNatural DEF InflightBounded
<1>2. ASSUME StreamInv, InflightBounded, [Next]_vars
      PROVE  InflightBounded'
  <2>1. IsFiniteSet(InFlight) /\ Cardinality(InFlight) \in Nat
    BY StreamsAreFinite, FS_Subset, FS_CardinalityType DEF InFlight
  <2>2. CASE \A s \in Streams : StreamChange(s)
    <3>1. InFlight' \subseteq InFlight
      BY <2>2 DEF InFlight, StreamChange, SameStream, Fed, Finished, Acknowledged,
                  CancelAsked
    <3>2. Cardinality(InFlight') <= Cardinality(InFlight) /\ Cardinality(InFlight') \in Nat
      BY <2>1, <3>1, FS_Subset, FS_CardinalityType
    <3> QED BY <1>2, <2>1, <3>2, LimitsAreNatural DEF InflightBounded
  <2>3. ASSUME NEW r \in Streams, Cardinality(InFlight) < MaxInflight,
               \A s \in Streams \ {r} : SameStream(s)
        PROVE  InflightBounded'
    <3>1. InFlight' \subseteq InFlight \cup {r}
      BY <2>3 DEF InFlight, SameStream
    <3>2. /\ IsFiniteSet(InFlight \cup {r})
          /\ Cardinality(InFlight \cup {r}) \in Nat
          /\ Cardinality(InFlight \cup {r}) <= Cardinality(InFlight) + 1
      <4> DEFINE live == InFlight
      <4> HIDE DEF live
      <4>1. /\ IsFiniteSet(live \cup {r})
            /\ Cardinality(live \cup {r}) =
                 IF r \in live THEN Cardinality(live) ELSE Cardinality(live) + 1
        BY <2>1, FS_AddElement, Zenon DEF live
      <4> QED BY <2>1, <4>1 DEF live
    <3>3. /\ Cardinality(InFlight') \in Nat
          /\ Cardinality(InFlight') <= Cardinality(InFlight \cup {r})
      BY <3>1, <3>2, FS_Subset, FS_CardinalityType
    <3> QED BY <2>1, <2>3, <3>2, <3>3, LimitsAreNatural DEF InflightBounded
  <2> QED BY <1>2, <2>2, <2>3, NoWrap, StreamStep
<1>3. InflightBounded /\ StreamInv /\ [Next]_vars => InflightBounded'
  BY <1>2
<1> QED BY <1>1, <1>3, StreamSafety, NoWrap, PTL DEF Spec

\* What makes the binding's action property inductive: its types, SL1 as the
\* binding says, and never two bindings at once.
OneBinding == \A b, c \in bound : b = c

BindingInv == BindingType /\ Sl1FollowsBinding /\ OneBinding

\* A bind replaces the binding by one of the same identity, under a new
\* generation; a stale mark is a new generation too; frames only count up.
LEMMA BindingInvStep ==
  ASSUME BindingInv, [Next]_vars
  PROVE  /\ BindingInv'
         /\ \/ UNCHANGED bindingVars
            \/ /\ generation' = generation + 1
               /\ bound' # {}
               /\ \A b \in bound : \A c \in bound' : c.id = b.id
            \/ /\ UNCHANGED <<binding, bound, generation>>
               /\ auth'.active = auth.active
               /\ auth'.out >= auth.out /\ auth'.in >= auth.in
<1>0. BindingType'
  BY BindingTypeStep DEF BindingInv
<1> DEFINE Rebound ==
             /\ generation' = generation + 1 /\ bound' # {}
             /\ \A b \in bound : \A c \in bound' : c.id = b.id
           Counted ==
             /\ UNCHANGED <<binding, bound, generation>>
             /\ auth'.active = auth.active
             /\ auth'.out >= auth.out /\ auth'.in >= auth.in
           Kept == Sl1FollowsBinding' /\ OneBinding'
<1>1. CASE UNCHANGED bindingVars
  BY <1>0, <1>1 DEF bindingVars, BindingInv, Sl1FollowsBinding, OneBinding
<1>2. ASSUME NEW b \in Binds, ProcessSessionBind(b)
      PROVE  Kept /\ Rebound
  <2>1. /\ binding' = "bound_current" /\ bound' = {b}
        /\ generation' = generation + 1 /\ auth' = AuthAfterBind(b)
        /\ RequireSl1 => b.sl1
        /\ binding # "unbound" => \A c \in bound : c.id = b.id
    BY <1>2 DEF ProcessSessionBind, AcceptsBind
  <2>2. Rebound /\ OneBinding'
    BY <2>1 DEF BindingInv, Sl1FollowsBinding, OneBinding
  <2>3. /\ b.sl1 => auth'.active = TRUE /\ auth'.in = 2
        /\ ~b.sl1 => auth'.active = FALSE
    BY <2>1 DEF AuthAfterBind, BindingInv, BindingType, AuthType
  <2>4. Sl1FollowsBinding'
    BY <2>1, <2>3 DEF Sl1FollowsBinding
  <2> QED BY <2>2, <2>4
<1>3. ASSUME MarkBindingStale
      PROVE  Kept /\ Rebound
  BY <1>3 DEF MarkBindingStale, BindingInv, Sl1FollowsBinding, OneBinding
<1>4. ASSUME NEW k \in 1..MaxAuthSeq, VerifyInboundFrame(k)
      PROVE  Kept /\ Counted
  <2> DEFINE next == IF auth.in < MaxAuthSeq THEN auth.in + 1 ELSE auth.in
  <2>1. auth.in \in Nat /\ auth.out \in Nat /\ next \in Nat /\ next >= auth.in
    BY LimitsAreNatural DEF BindingInv, BindingType, AuthType
  <2>2. auth' = [auth EXCEPT !.in = next] /\ UNCHANGED <<binding, bound, generation>>
    BY <1>4 DEF VerifyInboundFrame
  <2> HIDE DEF next
  <2>3. /\ auth'.active = auth.active /\ auth'.out = auth.out /\ auth'.in = next
    BY <2>2 DEF BindingInv, BindingType, AuthType
  <2> QED BY <2>1, <2>2, <2>3 DEF BindingInv, Sl1FollowsBinding, OneBinding
<1>5. ASSUME SignOutboundFrame
      PROVE  Kept /\ Counted
  <2>1. /\ auth'.active = auth.active /\ auth'.out = auth.out + 1
        /\ auth'.in = auth.in /\ UNCHANGED <<binding, bound, generation>>
        /\ auth.out \in Nat /\ auth.in \in Nat
    BY <1>5 DEF SignOutboundFrame, BindingInv, BindingType, AuthType
  <2> QED BY <2>1 DEF BindingInv, Sl1FollowsBinding, OneBinding
<1> QED BY <1>0, <1>1, <1>2, <1>3, <1>4, <1>5, BindingStep DEF BindingInv

\* The binding invariant holds throughout.
LEMMA BindingSafety == Spec => []BindingInv
<1>1. Init => BindingInv
  BY DEF Init, BindingInv, BindingType, AuthType, Sl1FollowsBinding, OneBinding
<1>2. BindingInv /\ [Next]_vars => BindingInv'
  BY BindingInvStep
<1> QED BY <1>1, <1>2, PTL DEF Spec

\* SL1 is in force exactly as the last accepted SESSION_BIND says.
THEOREM Sl1MatchesBinding == Spec => []Sl1FollowsBinding
<1>1. BindingInv => Sl1FollowsBinding
  BY DEF BindingInv
<1> QED BY <1>1, BindingSafety, PTL

\* A connection is never handed to another identity, and no change of its
\* binding or restart of its frame numbers goes without a new generation.
THEOREM BindingsVisible == Spec => BindingChangesAreVisible
<1> DEFINE Step ==
       /\ \A b \in bound : \A c \in bound' : c.id = b.id
       /\ bound # {} => bound' # {}
       /\ (binding' # binding \/ bound' # bound) => generation' > generation
       /\ generation' = generation =>
            /\ auth'.active = auth.active
            /\ auth'.out >= auth.out /\ auth'.in >= auth.in
<1>1. ASSUME BindingInv, [Next]_vars PROVE Step
  <2>1. /\ generation \in Nat /\ auth.out \in Nat /\ auth.in \in Nat
        /\ \A b, c \in bound : b = c
    BY <1>1 DEF BindingInv, BindingType, AuthType, OneBinding
  <2> QED BY <1>1, <2>1, BindingInvStep DEF bindingVars
<1>2. BindingInv /\ [Next]_vars => [Step]_vars
  BY <1>1
<1>3. Spec => [][Step]_vars
  BY <1>2, BindingSafety, PTL DEF Spec
<1> QED BY <1>3 DEF BindingChangesAreVisible

\* Limits and outcomes of the stream table, for any number of streams.
THEOREM TableIsSound ==
  ASSUME NoWrap
  PROVE  Spec => []StreamTableSound
<1>1. BufferBounded /\ InflightBounded /\ OutcomeIffTerminal => StreamTableSound
  BY DEF StreamTableSound
<1> QED BY <1>1, NoWrap, BuffersBounded, InflightStaysBounded, OutcomesMatch, PTL

\* No call takes anything of a stream back.
THEOREM StreamsNeverGoBack ==
  ASSUME NoWrap
  PROVE  Spec => StreamsOnlyAdvance
BY NoWrap, TerminalStaysFinal, StreamsAdvance, AcksAdvance DEF StreamsOnlyAdvance
=============================================================================
