----------------------------- MODULE MCDispatch -----------------------------
(***************************************************************************)
(* Dispatch and TaskQueue for TLC.  They are checked side by side and not  *)
(* interleaved: a behaviour is one of the scheduler, with the queue of     *)
(* cells at rest, or one of the queue, with the scheduler at rest.         *)
(***************************************************************************)
EXTENDS Dispatch, TaskQueue, TLC

CONSTANTS t1, t2, s1, s2, p1, p2

VARIABLE part

OneRetries == [t \in Tasks |-> IF t = t1 THEN 2 ELSE 1]

TwoWorkers == [s \in Slots |-> s]

Ready == [NewSlot EXCEPT !.known = TRUE, !.conn = "ACTIVE", !.fit = TRUE]

\* One slot is ready, the other about to be; or one has no endpoint yet and the other
\* is new.
MCFirstSlots ==
  {[s \in Slots |-> IF s = s1 THEN Ready ELSE [Ready EXCEPT !.conn = "INVITED"]],
   [s \in Slots |-> IF s = s1 THEN [Ready EXCEPT !.known = FALSE] ELSE NewSlot]}

PartInit == part \in {"dispatch", "queue"} /\ DispatchInit /\ QueueInit

PartNext ==
  \/ part = "dispatch" /\ DispatchNext /\ UNCHANGED <<part, queueVars>>
  \/ part = "queue" /\ QueueNext /\ UNCHANGED <<part, dispatchVars>>

PartSpec ==
  /\ PartInit /\ [][PartNext]_<<part, dispatchVars, queueVars>>
  /\ DispatchFairness
=============================================================================
