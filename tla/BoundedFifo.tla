---------------------------- MODULE BoundedFifo ----------------------------
(***************************************************************************)
(* What BoundedMpscQueue promises (LiNeP/src/scheduler/task_queue.hpp): a  *)
(* queue of at most Capacity items, in the order in which the producers    *)
(* claimed their places.  A producer is refused only while the queue is    *)
(* full; the consumer may find nothing although an item was claimed.       *)
(***************************************************************************)
EXTENDS Naturals, Sequences

CONSTANTS Producers, Capacity

VARIABLES
  items,   \* the producers whose items are in the queue, oldest first
  phase    \* producer -> "idle", "trying", "in" or "full"

Init ==
  /\ items = <<>>
  /\ phase = [p \in Producers |-> "idle"]

Try(p) ==
  /\ phase[p] = "idle"
  /\ phase' = [phase EXCEPT ![p] = "trying"]
  /\ UNCHANGED items

Enter(p) ==
  /\ phase[p] = "trying" /\ Len(items) < Capacity
  /\ phase' = [phase EXCEPT ![p] = "in"]
  /\ items' = Append(items, p)

Refuse(p) ==
  /\ phase[p] = "trying" /\ Len(items) = Capacity
  /\ phase' = [phase EXCEPT ![p] = "full"]
  /\ UNCHANGED items

Return(p) ==
  /\ phase[p] \in {"in", "full"}
  /\ phase' = [phase EXCEPT ![p] = "idle"]
  /\ UNCHANGED items

Take ==
  /\ items # <<>>
  /\ items' = Tail(items)
  /\ UNCHANGED phase

Next == Take \/ \E p \in Producers : Try(p) \/ Enter(p) \/ Refuse(p) \/ Return(p)

Spec == Init /\ [][Next]_<<items, phase>>
=============================================================================
