----------------------------- MODULE TaskQueue -----------------------------
(***************************************************************************)
(* BoundedMpscQueue of the V0.1 scheduler (task_queue.hpp): many producers *)
(* push, the scheduler's loop pops.  A push reads head_ and the sequence   *)
(* number of the cell there, claims the position with a compare-exchange   *)
(* and publishes value and sequence number in a step of its own.           *)
(*                                                                         *)
(* A task is pushed by one thread at a time (its submitter, or the last of *)
(* its dispatch threads): a producer is a thread with the task it pushes.  *)
(* Positions are uint32_t in the code; Modulus takes the place of 2^32 and *)
(* `FirstPositions' holds positions that earlier traffic may have reached. *)
(* A compare-exchange that fails spuriously changes nothing.               *)
(***************************************************************************)
EXTENDS Integers, Sequences

CONSTANTS Producers, Capacity, Modulus, FirstPositions

ASSUME QueueAssumption ==
  /\ Capacity \in Nat \ {0, 1} /\ Modulus \in Nat
  /\ Modulus % Capacity = 0 /\ Modulus >= 4 * Capacity
  /\ FirstPositions \subseteq 0..(Modulus - 1)

VARIABLES
  cells,  \* the slots_ of the queue: [seq, value] by index
  head,   \* head_, the next position to claim
  tail,   \* tail_, the next position to pop
  push    \* task -> [pc, pos] of the push in progress

queueVars == <<cells, head, tail, push>>

Empty == "empty"   \* T{}, the value of a cell nobody has written

Positions == 0..(Modulus - 1)
Plus(pos, n) == (pos + n) % Modulus
Cell(pos) == pos % Capacity

\* The difference of two positions as int32_t.
Diff(seq, pos) == ((seq - pos + Modulus \div 2) % Modulus) - Modulus \div 2

Calling(pc, pos) == [pc |-> pc, pos |-> pos]
NoCall == Calling("idle", 0)

\* The queue after `first' pushes and pops.
QueueInit ==
  \E first \in FirstPositions :
    /\ head = first /\ tail = first
    /\ cells = [i \in 0..(Capacity - 1) |->
                  [seq |-> CHOOSE p \in {Plus(first, n) : n \in 0..(Capacity - 1)} :
                             Cell(p) = i,
                   value |-> Empty]]
    /\ push = [t \in Producers |-> NoCall]

\* push() loads head_.
PushLoad(t) ==
  /\ push[t].pc = "idle"
  /\ push' = [push EXCEPT ![t] = Calling("read", head)]
  /\ UNCHANGED <<cells, head, tail>>

Verdict(diff) ==
  CASE diff = 0 -> "claim"
    [] diff < 0 -> "full"
    [] OTHER    -> "reload"

\* It loads the sequence number of the cell and compares.
PushRead(t) ==
  /\ push[t].pc = "read"
  /\ LET pos == push[t].pos
         verdict == Verdict(Diff(cells[Cell(pos)].seq, pos))
     IN push' = [push EXCEPT ![t] =
                   IF verdict = "reload" THEN Calling("read", head)
                   ELSE Calling(verdict, pos)]
  /\ UNCHANGED <<cells, head, tail>>

\* Bound: no producer sleeps between its load and its compare-exchange while half of
\* all positions (2^31 pushes) go by.
NobodySleepsLong ==
  \A t \in Producers : push[t].pc \in {"read", "claim"} =>
    ((head - push[t].pos) % Modulus) + Capacity + 1 < Modulus \div 2

\* The compare-exchange; a failed one leaves the present head_ in pos.
PushClaim(t) ==
  /\ push[t].pc = "claim"
  /\ IF head = push[t].pos
     THEN /\ NobodySleepsLong
          /\ head' = Plus(head, 1)
          /\ push' = [push EXCEPT ![t].pc = "store"]
     ELSE /\ push' = [push EXCEPT ![t] = Calling("read", head)]
          /\ UNCHANGED head
  /\ UNCHANGED <<cells, tail>>

\* Value and sequence number are published.
PushStore(t) ==
  /\ push[t].pc = "store"
  /\ cells' = [cells EXCEPT ![Cell(push[t].pos)] =
                 [seq |-> Plus(push[t].pos, 1), value |-> t]]
  /\ push' = [push EXCEPT ![t] = NoCall]
  /\ UNCHANGED <<head, tail>>

\* The refused call returns.
PushRefused(t) ==
  /\ push[t].pc = "full"
  /\ push' = [push EXCEPT ![t] = NoCall]
  /\ UNCHANGED <<cells, head, tail>>

PushStep(t) == PushLoad(t) \/ PushRead(t) \/ PushClaim(t) \/ PushStore(t) \/ PushRefused(t)

\* Mutant of HasItem: the consumer trusts head_ instead of the cell.
MutantHasItem == tail # head

HasItem == cells[Cell(tail)].seq = Plus(tail, 1)

Front == cells[Cell(tail)].value

Freed(pos) == Plus(pos, Capacity)

Pop ==
  /\ HasItem
  /\ cells' = [cells EXCEPT ![Cell(tail)].seq = Freed(tail)]
  /\ tail' = Plus(tail, 1)
  /\ UNCHANGED <<head, push>>

QueueNext == Pop \/ \E t \in Producers : PushStep(t)

QueueSpec == QueueInit /\ [][QueueNext]_queueVars

\* The task that holds a claimed position.
Storing(pushes, pos) == {t \in Producers : pushes[t] = Calling("store", pos)}
Holder(pushes, slots_, pos) ==
  IF Storing(pushes, pos) # {} THEN CHOOSE t \in Storing(pushes, pos) : TRUE
                              ELSE slots_[Cell(pos)].value

\* The holders of the claimed positions, oldest first.
Queued == [i \in 1..((head - tail) % Modulus) |-> Holder(push, cells, Plus(tail, i - 1))]

PhaseOf(pc) ==
  CASE pc = "idle"              -> "idle"
    [] pc \in {"read", "claim"} -> "trying"
    [] pc = "store"             -> "in"
    [] OTHER                    -> "full"

Phase == [t \in Producers |-> PhaseOf(push[t].pc)]

Fifo == INSTANCE BoundedFifo WITH items <- Queued, phase <- Phase

\* BoundedMpscQueue is a bounded first-in-first-out queue: no item is lost, doubled
\* or overtaken, and a push is refused only while the queue is full, also across the
\* wrap of the 32-bit positions (push and pop, task_queue.hpp).
QueueIsFifo == Fifo!Spec
=============================================================================
