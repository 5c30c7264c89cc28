------------------------------ MODULE Session ------------------------------
(***************************************************************************)
(* The stream table and the lease binding of one trunk connection:         *)
(* session_manager (LiNeP/src/v0_2/session.cpp) with the lifecycle state   *)
(* machine of lifecycle.hpp.  Every method runs under the session's mutex, *)
(* so each is one action; callers (reader thread, workers, a local API     *)
(* user) may issue them in any order with any arguments.  A call that      *)
(* returns an error leaves the state alone and is not an action.           *)
(*                                                                         *)
(* Abstractions.  A stream identity is one value of Streams; an event is   *)
(* its kind, sequence number, payload size and outcome field.  An SL1      *)
(* frame is its auth_seq: key lookup and MAC are a verdict, and a frame or *)
(* bind that fails it, like one the router refuses, leaves the state alone.*)
(***************************************************************************)
EXTENDS Naturals, FiniteSets

CONSTANTS
  Streams,        \* stream identities (request_id, execution_id, output_id)
  ExecutionOf(_), \* execution_id of a stream
  MaxInflight,    \* limits.max_inflight_streams
  MaxBuffered,    \* limits.max_buffered_bytes_per_stream
  RequireLease,   \* descriptor.require_lease
  RequireSl1,     \* descriptor.require_sl1
  Seqs,           \* event_seq values events carry
  Sizes,          \* payload sizes events carry
  Drains,         \* bytes_drained values passed by acknowledge_stream_drain
  Offsets,        \* cumulative offsets passed by acknowledgements
  OffsetModulus,  \* 2^64: the width of the byte offsets
  Binds,          \* SESSION_BIND contents: [id, epoch, token, sl1]
  MaxAuthSeq,     \* 2^32 - 1: the last 32-bit auth_seq
  MaxProduced,    \* bound on the bytes one stream produces
  MaxGeneration   \* bound on binding_generation_

Outcomes == {"unknown", "completed", "cancelled", "failed"}
TerminalKinds == {"completed", "cancelled", "failed"}
Lifecycle == {"absent", "accepted", "started", "cancel_requested", "terminal"}

ASSUME LimitsAreNatural ==
  /\ MaxInflight \in Nat /\ MaxBuffered \in Nat
  /\ MaxProduced \in Nat /\ MaxGeneration \in Nat /\ MaxAuthSeq \in Nat
  /\ OffsetModulus \in Nat \ {0} /\ MaxProduced < OffsetModulus
  /\ Seqs \subseteq Nat /\ Sizes \subseteq Nat
  /\ Drains \subseteq Nat /\ Offsets \subseteq Nat

ASSUME StreamsAreFinite == IsFiniteSet(Streams)

ASSUME FlagsAreBoolean == RequireLease \in BOOLEAN /\ RequireSl1 \in BOOLEAN

VARIABLES
  life,       \* lifecycle.state; "absent" means not in active_streams_
  outcome,    \* lifecycle.outcome once terminal, "none" before
  lastSeq,    \* last_event_seq
  produced,   \* total_produced_bytes
  acked,      \* acknowledged_offset_bytes
  binding,    \* binding_state_
  bound,      \* {bound_bind_} once bound, {} before
  generation, \* binding_generation_
  auth        \* is_sl1_active_, next_outbound_auth_seq_, expected_inbound_auth_seq_

streamVars  == <<life, outcome, lastSeq, produced, acked>>
bindingVars == <<binding, bound, generation, auth>>
vars == <<life, outcome, lastSeq, produced, acked, binding, bound, generation,
          auth>>

Init ==
  /\ life     = [s \in Streams |-> "absent"]
  /\ outcome  = [s \in Streams |-> "none"]
  /\ lastSeq  = [s \in Streams |-> 0]
  /\ produced = [s \in Streams |-> 0]
  /\ acked    = [s \in Streams |-> 0]
  /\ binding  = "unbound"
  /\ bound    = {}
  /\ generation = 0
  /\ auth = [active |-> FALSE, out |-> 1, in |-> 1]

InFlight == {s \in Streams : life[s] \notin {"absent", "terminal"}}

Unacked(s) == IF produced[s] <= acked[s] THEN 0 ELSE produced[s] - acked[s]

(***************************************************************************)
(* submit_request.  Finished streams stay in the table: an identity is     *)
(* never used twice on a connection.                                       *)
(***************************************************************************)
CanSubmit(s) ==
  /\ RequireLease => binding = "bound_current"
  /\ life[s] = "absent"
  /\ Cardinality(InFlight) < MaxInflight

SubmitRequest(s) ==
  /\ CanSubmit(s)
  /\ life' = [life EXCEPT ![s] = "accepted"]
  /\ UNCHANGED <<outcome, lastSeq, produced, acked, bindingVars>>

(***************************************************************************)
(* dispatch_event.  The buffer check applies to terminal events too.       *)
(***************************************************************************)
Events == [kind : {"data"}, seq : Seqs, size : Sizes, outcome : {"unknown"}]
     \cup [kind : TerminalKinds, seq : Seqs, size : Sizes, outcome : Outcomes]

\* Mutant of AcceptsEvent: the buffer is checked before the event is counted.
MutantAcceptsWhenRoom(s, e) ==
  /\ life[s] \notin {"absent", "terminal"}
  /\ e.seq > lastSeq[s]
  /\ Unacked(s) <= MaxBuffered

\* Mutant of AcceptsEvent: a finished stream still takes events.
MutantAcceptsAfterEnd(s, e) ==
  /\ life[s] # "absent"
  /\ e.seq > lastSeq[s]
  /\ Unacked(s) + e.size <= MaxBuffered

AcceptsEvent(s, e) ==
  /\ life[s] \notin {"absent", "terminal"}
  /\ e.seq > lastSeq[s]
  /\ Unacked(s) + e.size <= MaxBuffered

\* What an accepted data event does to the streams.
Feed(s, e) ==
  /\ e.kind = "data"
  /\ AcceptsEvent(s, e)
  /\ produced[s] + e.size <= MaxProduced
  /\ life' = [life EXCEPT ![s] = IF @ = "accepted" THEN "started" ELSE @]
  /\ produced' = [produced EXCEPT ![s] = @ + e.size]
  /\ lastSeq' = [lastSeq EXCEPT ![s] = e.seq]
  /\ UNCHANGED <<outcome, acked>>

DispatchData(s, e) == Feed(s, e) /\ UNCHANGED bindingVars

\* An event without an outcome takes the one its kind implies.
OutcomeOf(e) == IF e.outcome = "unknown" THEN e.kind ELSE e.outcome

\* What an accepted terminal event does to the streams.
Finish(s, e) ==
  /\ e.kind \in TerminalKinds
  /\ AcceptsEvent(s, e)
  /\ produced[s] + e.size <= MaxProduced
  /\ life' = [life EXCEPT ![s] = "terminal"]
  /\ outcome' = [outcome EXCEPT ![s] = OutcomeOf(e)]
  /\ produced' = [produced EXCEPT ![s] = @ + e.size]
  /\ acked' = [acked EXCEPT ![s] = produced[s] + e.size]
  /\ lastSeq' = [lastSeq EXCEPT ![s] = e.seq]

DispatchTerminal(s, e) == Finish(s, e) /\ UNCHANGED bindingVars

(***************************************************************************)
(* Acknowledgements: window_update of process_control and                  *)
(* acknowledge_stream_offset take a cumulative offset and ignore stale     *)
(* ones; acknowledge_stream_drain adds a byte count in 64-bit arithmetic.  *)
(***************************************************************************)
Advance(s, offset) ==
  /\ life[s] # "absent"
  /\ acked[s] < offset /\ offset <= produced[s]
  /\ acked' = [acked EXCEPT ![s] = offset]
  /\ UNCHANGED <<life, outcome, lastSeq, produced>>

AcknowledgeOffset(s, offset) == Advance(s, offset) /\ UNCHANGED bindingVars

\* window_update of process_control: the same rule for an offset off the wire
\* (its execution scope, request_id = 0, is refused with 400 like that of cancel).
ProcessControlWindowUpdate(s, offset) == AcknowledgeOffset(s, offset)

\* Mutant of DrainTarget: drained bytes are taken off.
MutantDrainBackwards(s, bytes) == acked[s] - bytes

DrainTarget(s, bytes) == (acked[s] + bytes) % OffsetModulus

AcknowledgeDrain(s, bytes) ==
  /\ life[s] # "absent"
  /\ DrainTarget(s, bytes) <= produced[s]
  /\ acked' = [acked EXCEPT ![s] = DrainTarget(s, bytes)]
  /\ UNCHANGED <<life, outcome, lastSeq, produced, bindingVars>>

(***************************************************************************)
(* Cancellation: cancel_execution cancels every live stream of an          *)
(* execution, the cancel of process_control one stream.                    *)
(***************************************************************************)
Cancellable(s) == life[s] \in {"accepted", "started"}

Cancel(group) ==
  /\ \E s \in group : Cancellable(s)
  /\ life' = [s \in Streams |->
       IF s \in group /\ Cancellable(s) THEN "cancel_requested" ELSE life[s]]
  /\ UNCHANGED <<outcome, lastSeq, produced, acked, bindingVars>>

CancelExecution(x) == Cancel({s \in Streams : ExecutionOf(s) = x})

\* process_control: control_envelope::is_valid requires request_id # 0, so the
\* execution-scope branch (request_id = 0) is refused with 400 before it.
ProcessControlCancel(s) == Cancel({s})

\* Every live stream ends with outcome o and owes nothing.
EndAll(o) ==
  /\ life' = [s \in Streams |-> IF s \in InFlight THEN "terminal" ELSE life[s]]
  /\ outcome' = [s \in Streams |-> IF s \in InFlight THEN o ELSE outcome[s]]
  /\ acked' = [s \in Streams |-> IF s \in InFlight THEN produced[s] ELSE acked[s]]
  /\ UNCHANGED <<lastSeq, produced>>

TerminateAllActiveStreams(o) == EndAll(o) /\ UNCHANGED bindingVars

(***************************************************************************)
(* The binding of the connection to a control-plane lease.                 *)
(***************************************************************************)
\* Mutant of AcceptsBind: the connection may change its identity.
MutantBindAnyIdentity(b) == RequireSl1 => b.sl1

\* What process_session_bind checks besides the router's and the key's verdict.
AcceptsBind(b) ==
  /\ binding # "unbound" => \A c \in bound : c.id = b.id
  /\ RequireSl1 => b.sl1

IsCurrentBind(b) == binding = "bound_current" /\ bound = {b}

\* Mutant of AuthAfterBind: a bind without SL1 leaves SL1 as it was.
MutantSl1Sticks(b) ==
  IF b.sl1 THEN [active |-> TRUE, out |-> 1, in |-> 2] ELSE auth

\* A new SL1 binding restarts both numberings; SESSION_BIND itself was frame 1.
AuthAfterBind(b) ==
  IF b.sl1 THEN [active |-> TRUE, out |-> 1, in |-> 2]
           ELSE [auth EXCEPT !.active = FALSE]

\* A repeated bind changes nothing; any other one replaces the binding.
ProcessSessionBind(b) ==
  /\ AcceptsBind(b)
  /\ ~IsCurrentBind(b)
  /\ generation < MaxGeneration
  /\ bound' = {b}
  /\ binding' = "bound_current"
  /\ generation' = generation + 1
  /\ auth' = AuthAfterBind(b)
  /\ UNCHANGED streamVars

MarkBindingStale ==
  /\ binding = "bound_current"
  /\ generation < MaxGeneration
  /\ binding' = "bound_stale"
  /\ generation' = generation + 1
  /\ UNCHANGED <<bound, auth, streamVars>>

\* verify_inbound_frame: exactly the expected auth_seq, which stops at the top.
VerifyInboundFrame(k) ==
  /\ auth.active /\ k = auth.in
  /\ auth' = [auth EXCEPT !.in = IF auth.in < MaxAuthSeq THEN auth.in + 1 ELSE auth.in]
  /\ UNCHANGED <<binding, bound, generation, streamVars>>

\* sign_outbound_frame: the last auth_seq is never used.
SignOutboundFrame ==
  /\ auth.active /\ auth.out < MaxAuthSeq
  /\ auth' = [auth EXCEPT !.out = auth.out + 1]
  /\ UNCHANGED <<binding, bound, generation, streamVars>>

Next ==
  \/ \E s \in Streams : SubmitRequest(s)
  \/ \E s \in Streams, e \in Events : DispatchData(s, e) \/ DispatchTerminal(s, e)
  \/ \E s \in Streams, k \in Offsets :
       AcknowledgeOffset(s, k) \/ ProcessControlWindowUpdate(s, k)
  \/ \E s \in Streams, n \in Drains : AcknowledgeDrain(s, n)
  \/ \E s \in Streams : CancelExecution(ExecutionOf(s)) \/ ProcessControlCancel(s)
  \/ \E o \in Outcomes : TerminateAllActiveStreams(o)
  \/ \E b \in Binds : ProcessSessionBind(b)
  \/ MarkBindingStale
  \/ \E k \in 1..MaxAuthSeq : VerifyInboundFrame(k)
  \/ SignOutboundFrame

Spec == Init /\ [][Next]_vars

(***************************************************************************)
(* Properties.                                                             *)
(***************************************************************************)

\* The session's tables have their types.
TypeOK ==
  /\ life \in [Streams -> Lifecycle]
  /\ outcome \in [Streams -> Outcomes \cup {"none"}]
  /\ lastSeq \in [Streams -> Nat]
  /\ produced \in [Streams -> Nat]
  /\ acked \in [Streams -> Nat]
  /\ binding \in {"unbound", "bound_current", "bound_stale"}
  /\ bound \in SUBSET Binds
  /\ generation \in Nat
  /\ auth \in [active : BOOLEAN, out : Nat, in : Nat]

\* No stream ever owes its consumer more than max_buffered_bytes_per_stream,
\* no consumer acknowledges bytes that were not produced, and a finished
\* stream owes nothing (dispatch_event, acknowledge_*, terminate_all).
BufferBounded ==
  \A s \in Streams :
    /\ acked[s] <= produced[s]
    /\ produced[s] - acked[s] <= MaxBuffered
    /\ life[s] \in {"absent", "terminal"} => acked[s] = produced[s]

\* At most max_inflight_streams streams are live (submit_request).
InflightBounded == Cardinality(InFlight) <= MaxInflight

\* A stream has an outcome exactly when it is terminal (lifecycle_status).
OutcomeIffTerminal ==
  \A s \in Streams : outcome[s] # "none" <=> life[s] = "terminal"

\* "Once in terminal state, no further state transitions are permitted" and
\* exactly one authoritative outcome: nothing of a finished stream changes any
\* more, neither by late events, cancels, acknowledgements nor teardown.
TerminalIsFinal ==
  [][\A s \in Streams : life[s] = "terminal" =>
       /\ life'[s] = "terminal" /\ outcome'[s] = outcome[s]
       /\ lastSeq'[s] = lastSeq[s]
       /\ produced'[s] = produced[s] /\ acked'[s] = acked[s]]_vars

\* A stream moves forward only: a requested cancel is never undone by data
\* still in flight, and event sequence numbers and produced bytes never go back.
Rank(l) == CASE l = "absent" -> 0 [] l = "accepted" -> 1 [] l = "started" -> 2
             [] l = "cancel_requested" -> 3 [] l = "terminal" -> 4

StreamsMoveForward ==
  [][\A s \in Streams :
       /\ Rank(life'[s]) >= Rank(life[s])
       /\ produced'[s] >= produced[s]
       /\ lastSeq'[s] >= lastSeq[s]
       /\ produced'[s] > produced[s] => lastSeq'[s] > lastSeq[s]]_vars

\* The acknowledged offset of a stream is monotonic (active_stream_state).
AckMonotonic == [][\A s \in Streams : acked'[s] >= acked[s]]_vars

\* A connection keeps the identity it was first bound to; every change of the
\* binding, stale or replaced, shows in binding_generation_, which is what
\* worker registrations compare; and under one generation SL1 is neither
\* switched nor its frame numbers, in either direction, taken back
\* (process_session_bind, mark_binding_stale, verify_inbound_frame).
BindingChangesAreVisible ==
  [][/\ \A b \in bound : \A c \in bound' : c.id = b.id
     /\ bound # {} => bound' # {}
     /\ (binding' # binding \/ bound' # bound) => generation' > generation
     /\ generation' = generation =>
          /\ auth'.active = auth.active
          /\ auth'.out >= auth.out /\ auth'.in >= auth.in]_vars

\* No frame is dispatched unauthenticated on a trunk that requires SL1, and none
\* on a connection whose present binding asked for it: SL1 is on exactly as the
\* binding last accepted says, stale or not, and without a binding it is off.
Sl1FollowsBinding ==
  /\ binding = "unbound" <=> bound = {}
  /\ auth.active <=> \E b \in bound : b.sl1
  /\ RequireSl1 /\ binding # "unbound" => auth.active
  /\ auth.active => auth.in >= 2

\* The limits of the trunk hold and outcomes are authoritative at once, in every state
\* that calls of any threads reach (submit_request, dispatch_event, acknowledge_*,
\* terminate_all).
StreamTableSound == BufferBounded /\ InflightBounded /\ OutcomeIffTerminal

\* No call takes anything of a stream back: not its end, not its lifecycle, not what it
\* has produced, and not what its consumer has acknowledged.
StreamsOnlyAdvance == TerminalIsFinal /\ StreamsMoveForward /\ AckMonotonic
=============================================================================
