--------------------------- MODULE SendScheduler ---------------------------
(***************************************************************************)
(* stream_send_scheduler (LiNeP/src/v0_2/transport.cpp): the round-robin   *)
(* queue of outbound frames of one trunk connection.                       *)
(*                                                                         *)
(* Every method is one critical section of mutex_, except the two that     *)
(* consume frames: flush_scheduled peeks, transmits and commits, and       *)
(* pull_next_scheduled peeks and commits, in separate critical sections.   *)
(* flush_mutex_ admits one flusher; nothing else keeps drop_stream, a      *)
(* puller or producers out of the gaps.                                    *)
(*                                                                         *)
(* A behaviour is that of one program using the scheduler.  An exclusive   *)
(* one keeps drops and other consumers out of the gaps.                    *)
(*                                                                         *)
(* Abstractions.  A frame is its size and its number in the stream, taken  *)
(* modulo NumModulus so that runs of any length have finitely many states. *)
(* `expect' is history: the number the receiver waits for next.  History   *)
(* is kept for the programs that are tracked.                              *)
(***************************************************************************)
EXTENDS Integers, Sequences, SequencesExt, FiniteSetsExt

CONSTANTS
  Streams,        \* stream identities
  Programs,       \* programs: [streams, droppable, consumers, exclusive, tracked]
  Sizes,          \* frame sizes
  MaxFrames,      \* limits.max_frames_per_stream
  MaxStreamBytes, \* limits.max_bytes_per_stream
  MaxTotalBytes,  \* limits.max_total_connection_bytes
  NumModulus      \* frame numbers are modulo this, more than MaxFrames + 1

ASSUME SchedulerConstants ==
  /\ Programs \subseteq [streams : SUBSET Streams, droppable : SUBSET Streams,
                         consumers : SUBSET {"flush", "pull"},
                         exclusive : BOOLEAN, tracked : BOOLEAN]
  /\ IsFiniteSet(Streams) /\ Sizes \subseteq Nat
  /\ MaxFrames \in Nat /\ MaxStreamBytes \in Nat /\ MaxTotalBytes \in Nat
  /\ NumModulus \in Nat /\ NumModulus > MaxFrames + 1

Consumers == {"flush", "pull"}

VARIABLES
  program, \* the program at work
  queue,   \* stream_queues_[s].frames; empty means no entry
  bytes,   \* stream_queues_[s].total_bytes
  total,   \* total_connection_bytes_
  order,   \* active_order_
  cursor,  \* rr_cursor_, from 0
  hand,    \* consumer -> the frame it peeked, <<>> between two frames
  sent,    \* the flusher transmitted the frame in its hand
  open,    \* the connection is up
  number,  \* history: number of the next frame enqueued on each stream
  expect   \* history: number of the next frame the receiver has to get

sendVars == <<program, queue, bytes, total, order, cursor, hand, sent, open, number, expect>>

SendInit ==
  /\ program \in Programs
  /\ queue = [s \in Streams |-> <<>>]
  /\ bytes = [s \in Streams |-> 0]
  /\ total = 0
  /\ order = <<>>
  /\ cursor = 0
  /\ hand = [c \in Consumers |-> <<>>]
  /\ sent = FALSE
  /\ open = TRUE
  /\ number = [s \in Streams |-> 0]
  /\ expect = [s \in Streams |-> 0]

Following(k) == IF program.tracked THEN (k + 1) % NumModulus ELSE k

Idle == \A c \in Consumers : hand[c] = <<>>

(***************************************************************************)
(* enqueue_raw.  A stream enters the rotation with its first frame.  (A    *)
(* refused first frame leaves an entry with no frames in stream_queues_,   *)
(* which every method treats as no entry.)                                 *)
(***************************************************************************)
HasRoom(s, size) ==
  /\ Len(queue[s]) < MaxFrames
  /\ bytes[s] + size <= MaxStreamBytes
  /\ total + size <= MaxTotalBytes

Enqueue(s, size) ==
  /\ s \in program.streams
  /\ HasRoom(s, size)
  /\ order' = IF queue[s] = <<>> THEN Append(order, s) ELSE order
  /\ queue' = [queue EXCEPT ![s] = Append(@, [num |-> number[s], size |-> size])]
  /\ bytes' = [bytes EXCEPT ![s] = @ + size]
  /\ total' = total + size
  /\ number' = [number EXCEPT ![s] = Following(@)]
  /\ UNCHANGED <<cursor, hand, sent, open, expect>>

(***************************************************************************)
(* peek_next_scheduled.  Its loop also removes streams without frames from *)
(* the rotation; there are none (RotationMatchesQueues).                   *)
(***************************************************************************)
Wrapped == IF cursor >= Len(order) THEN 0 ELSE cursor

Peek(c) ==
  /\ hand[c] = <<>> /\ (program.exclusive => Idle)
  /\ order # <<>>
  /\ cursor' = Wrapped
  /\ LET s == order[Wrapped + 1] IN
     hand' = [hand EXCEPT ![c] = <<[stream |-> s, frame |-> Head(queue[s])]>>]
  /\ UNCHANGED <<queue, bytes, total, order, sent, open, number, expect>>

\* The receiver gets frame f of stream s; one it does not wait for is no news.
Received(s, f) ==
  [expect EXCEPT ![s] = IF f.num = @ THEN Following(@) ELSE @]

\* send_bytes_locked puts all of the frame on the connection.
Transmit ==
  /\ hand["flush"] # <<>> /\ ~sent /\ open
  /\ sent' = TRUE
  /\ expect' = Received(hand["flush"][1].stream, hand["flush"][1].frame)
  /\ UNCHANGED <<queue, bytes, total, order, cursor, hand, open, number>>

Less(a, b) == IF a >= b THEN a - b ELSE 0

\* Mutant of CursorAfterCommit: the cursor stays on the stream.
MutantCursorStays(left) ==
  IF left = <<>> /\ Wrapped >= Len(order) - 1 THEN 0 ELSE Wrapped

\* Mutant of CursorAfterCommit: it moves on though the stream left the rotation.
MutantCursorSkips(left) == Wrapped + 1

\* rr_cursor_ after the stream it is at kept the frames `left'.
CursorAfterCommit(left) ==
  IF left = <<>> THEN IF Wrapped >= Len(order) - 1 THEN 0 ELSE Wrapped
                 ELSE (Wrapped + 1) % Len(order)

\* commit_next_scheduled: pops the frame at the cursor, whichever that is now.
Commit ==
  IF order = <<>> THEN UNCHANGED <<queue, bytes, total, order, cursor>>
  ELSE LET s == order[Wrapped + 1]
           size == Head(queue[s]).size
           left == Tail(queue[s])
       IN
       /\ queue' = [queue EXCEPT ![s] = left]
       /\ bytes' = [bytes EXCEPT ![s] = IF left = <<>> THEN 0 ELSE Less(@, size)]
       /\ total' = Less(total, size)
       /\ order' = IF left = <<>> THEN RemoveAt(order, Wrapped + 1) ELSE order
       /\ cursor' = CursorAfterCommit(left)

\* Mutant of SendFails: the frame is committed although it was not sent.
MutantCommitOnFailure ==
  /\ hand["flush"] # <<>> /\ ~sent
  /\ Commit
  /\ open' = FALSE
  /\ hand' = [hand EXCEPT !["flush"] = <<>>]
  /\ UNCHANGED <<sent, number, expect>>

\* send_bytes_locked fails and closes the connection: the flush ends and the
\* frame stays queued.
SendFails ==
  /\ hand["flush"] # <<>> /\ ~sent
  /\ open' = FALSE
  /\ hand' = [hand EXCEPT !["flush"] = <<>>]
  /\ UNCHANGED <<queue, bytes, total, order, cursor, sent, number, expect>>

FlushCommit ==
  /\ sent
  /\ Commit
  /\ sent' = FALSE
  /\ hand' = [hand EXCEPT !["flush"] = <<>>]
  /\ UNCHANGED <<open, number, expect>>

PullCommit ==
  /\ hand["pull"] # <<>>
  /\ Commit
  /\ hand' = [hand EXCEPT !["pull"] = <<>>]
  /\ expect' = Received(hand["pull"][1].stream, hand["pull"][1].frame)
  /\ UNCHANGED <<sent, open, number>>

WithoutBytes(s) == Less(total, bytes[s])

\* drop_stream: the stream's frames are given up, and its places in the rotation, of
\* which it has one (RotationMatchesQueues); the cursor is not adjusted to the streams
\* that move up.
DropStream(s) ==
  /\ s \in program.droppable /\ (program.exclusive => Idle)
  /\ queue[s] # <<>>
  /\ total' = WithoutBytes(s)
  /\ queue' = [queue EXCEPT ![s] = <<>>]
  /\ bytes' = [bytes EXCEPT ![s] = 0]
  /\ order' = RemoveFirst(order, s)
  /\ cursor' = IF cursor >= Len(order') THEN 0 ELSE cursor
  /\ expect' = [expect EXCEPT ![s] = number[s]]
  /\ UNCHANGED <<hand, sent, open, number>>

Flush == "flush" \in program.consumers /\ (Peek("flush") \/ Transmit \/ SendFails \/ FlushCommit)

Pull == "pull" \in program.consumers /\ (Peek("pull") \/ PullCommit)

SendNext ==
  /\ \/ \E s \in Streams, size \in Sizes : Enqueue(s, size)
     \/ Flush
     \/ Pull
     \/ \E s \in Streams : DropStream(s)
  /\ UNCHANGED program

SendSpec == SendInit /\ [][SendNext]_sendVars

\* flush_scheduled is called again and again and its loop runs on; producers and
\* drops come as they like.
FlusherFairness ==
  /\ WF_sendVars(Peek("flush") /\ UNCHANGED program)
  /\ WF_sendVars((Transmit \/ FlushCommit) /\ UNCHANGED program)

FairSendSpec == SendSpec /\ FlusherFairness

(***************************************************************************)
(* Properties.                                                             *)
(***************************************************************************)
Frames == [num : 0..(NumModulus - 1), size : Sizes]

\* The scheduler's state has its type.
SendTypeOK ==
  /\ program \in Programs
  /\ \A s \in Streams : Len(queue[s]) <= MaxFrames /\ ToSet(queue[s]) \subseteq Frames
  /\ bytes \in [Streams -> Nat] /\ total \in Nat
  /\ ToSet(order) \subseteq Streams
  /\ cursor \in 0..Cardinality(Streams)
  /\ \A c \in Consumers : Len(hand[c]) <= 1
  /\ sent \in BOOLEAN /\ open \in BOOLEAN
  /\ number \in [Streams -> 0..(NumModulus - 1)]
  /\ expect \in [Streams -> 0..(NumModulus - 1)]

\* The rotation holds every stream that has frames, once, and no other, and the
\* cursor is inside it: peek and commit never meet an empty queue, whatever
\* drops and consumers do between them.
RotationMatchesQueues ==
  /\ IsInjective(order)
  /\ ToSet(order) = {s \in Streams : queue[s] # <<>>}
  /\ cursor < Len(order) \/ cursor = 0

\* The byte counters, kept by addition and saturating subtraction, are always
\* the bytes queued, and within the limits of stream_queue_limits.
BytesAreExact ==
  /\ \A s \in Streams :
       /\ bytes[s] = FoldLeft(LAMBDA n, f : n + f.size, 0, queue[s])
       /\ bytes[s] <= MaxStreamBytes
  /\ total = MapThenSumSet(LAMBDA s : bytes[s], Streams)
  /\ total <= MaxTotalBytes

\* Frames of s not yet with the receiver: the one just transmitted is.
Unsent(s) ==
  IF sent /\ hand["flush"][1].stream = s THEN SubSeq(queue[s], 2, Len(queue[s]))
  ELSE queue[s]

\* "Zero Silent Loss": the frames still queued on a stream are exactly those the
\* receiver has not got, in order, with no gap and no repetition
\* (RUNTIME_CONTRACT.md section 4, flush_scheduled).
ZeroSilentLoss ==
  program.tracked => \A s \in Streams :
    /\ Len(Unsent(s)) = (number[s] - expect[s]) % NumModulus
    /\ \A i \in DOMAIN Unsent(s) :
         Unsent(s)[i].num = (expect[s] + i - 1) % NumModulus

\* What a consumer holds is what the receiver of that stream waits for: no frame
\* goes out twice or out of its turn.
HandIsNext ==
  \A c \in Consumers : program.tracked /\ hand[c] # <<>> /\ ~(c = "flush" /\ sent) =>
    hand[c][1].frame.num = expect[hand[c][1].stream]

\* With consumers and drops kept apart, frames go out once, in order and none is lost,
\* from whichever consumer (flush_scheduled, pull_next_scheduled).
FramesArriveInOrder == ZeroSilentLoss /\ HandIsNext

\* Rotation, queues and counters agree in every gap (enqueue_raw, commit_next_scheduled,
\* drop_stream).
QueuesAreConsistent == SendTypeOK /\ RotationMatchesQueues /\ BytesAreExact

\* "Fair Round-Robin": a stream with frames is served, or given up, while the
\* connection lasts and flush_scheduled is the consumer (transport.hpp,
\* stream_send_scheduler).
NoStarvation ==
  \A s \in Streams :
    (program.consumers = {"flush"} /\ queue[s] # <<>>)
      ~> (queue[s] = <<>> \/ ~open \/ (sent /\ hand["flush"][1].stream = s))
=============================================================================
