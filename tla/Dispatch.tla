------------------------------ MODULE Dispatch ------------------------------
(***************************************************************************)
(* SchedulerImpl, the V0.1 task scheduler (LiNeP/src/scheduler/), over a   *)
(* bounded FIFO (module BoundedFifo, which TaskQueue implements: a place   *)
(* is claimed in one step, published in another) and the slot registry.    *)
(* Callers submit tasks, run_loop drains the queue and starts one detached *)
(* thread per selected slot, each thread talks to its worker and reports;  *)
(* the last one of a task retries it or answers it.  start() and stop()    *)
(* come from one owner.                                                    *)
(*                                                                         *)
(* A slot is what decides its selection: whether an endpoint was           *)
(* registered, the handshake state, `fit' (what the last heartbeat says    *)
(* and is_eligible reads) and whether it cools down after a failure.       *)
(* Scores, and the busy flag and counters only they read, are abstracted:  *)
(* the best slots are any that selection could return.  The loop reads the *)
(* clock once per pass, so there heartbeats become stale and cooldowns     *)
(* end.  All tasks have one type.  No slot is ever erased.  A worker of    *)
(* `Silent' accepts the connection and need not answer: no socket of the   *)
(* scheduler has a timeout.  The handshake calls (on_invite_sent,          *)
(* on_invite_ack) have no caller in SchedulerImpl; they are actions here.  *)
(***************************************************************************)
EXTENDS Integers, Sequences, FiniteSets

CONSTANTS
  Tasks,
  PendingCapacity,  \* PENDING_QUEUE_CAPACITY
  Slots,        \* slot keys
  FirstSlots,   \* the registries the scheduler may start with
  WorkerOf,     \* slot -> worker
  Silent,       \* slots whose worker may never answer
  MaxAttempts,  \* task -> max_attempts
  Fanout,       \* slots asked at once (3 in dispatch_pending)
  MaxEvents,    \* bound: heartbeats and handshake steps
  MaxStarts     \* bound: calls of start()

ASSUME DispatchAssumption ==
  /\ PendingCapacity \in Nat /\ IsFiniteSet(Slots) /\ MaxAttempts \in [Tasks -> Nat]

VARIABLES
  items,     \* pending_: the claimed places, oldest first
  unpublished, \* the tasks whose place is claimed but not yet published
  running,   \* running_
  loop,      \* where loop_thread_ is
  owner,     \* where the owner's stop() is
  starts, events,
  slot,      \* slots_
  stage,     \* task -> "new" or "submitted"
  attempts,  \* attempt_count of the task
  snapshot,  \* the tasks drained from the queue in this pass
  job,       \* task -> SharedDispatchState of its last dispatch
  threads,   \* the dispatch threads: [task, slot, pc]
  active,    \* active_dispatch_count_
  calls      \* history: the statuses each task's callback was given

loopVars == <<running, loop, owner, starts>>
taskVars == <<stage, attempts, snapshot, job, threads, active, calls>>
pendingVars == <<items, unpublished>>
dispatchVars == <<pendingVars, loopVars, events, slot, taskVars>>

NewSlot == [known |-> FALSE, conn |-> "SEEN", fit |-> FALSE, cooling |-> FALSE]

NoJob == [done |-> FALSE, remaining |-> 0, partials |-> <<>>]

DispatchInit ==
  /\ items = <<>> /\ unpublished = {}
  /\ running = FALSE /\ loop = "off" /\ owner = "idle" /\ starts = 0 /\ events = 0
  /\ slot \in FirstSlots
  /\ stage = [t \in Tasks |-> "new"] /\ attempts = [t \in Tasks |-> 0]
  /\ snapshot = <<>> /\ job = [t \in Tasks |-> NoJob]
  /\ threads = {} /\ active = 0
  /\ calls = [t \in Tasks |-> <<>>]

-----------------------------------------------------------------------------
(* The slot registry *)

\* A call that changes one entry of the registry.
Update(s, entry) ==
  /\ entry # slot[s]
  /\ events < MaxEvents /\ events' = events + 1
  /\ slot' = [slot EXCEPT ![s] = entry]
  /\ UNCHANGED <<pendingVars, loopVars, taskVars>>

RegisterSlot(s) ==
  /\ ~slot[s].known /\ slot' = [slot EXCEPT ![s].known = TRUE]
  /\ UNCHANGED <<events, pendingVars, loopVars, taskVars>>

\* apply_heartbeat; what it says takes effect only on a slot that is ACTIVE.
ApplyHeartbeat(s) == \E fit \in BOOLEAN : Update(s, [slot[s] EXCEPT !.fit = fit])

OnInviteSent(s) ==
  slot[s].conn = "SEEN" /\ Update(s, [slot[s] EXCEPT !.conn = "INVITED"])

OnInviteAck(s) ==
  slot[s].conn = "INVITED" /\ Update(s, [slot[s] EXCEPT !.conn = "ACTIVE"])

\* expire_slot: the slot has to complete the handshake again.
Expired(entry) == [entry EXCEPT !.fit = FALSE, !.conn = "SEEN"]

IsEligible(s) == slot[s].conn = "ACTIVE" /\ slot[s].fit /\ ~slot[s].cooling

Workers(set) == {WorkerOf[s] : s \in set}

\* select_best_slots: from the best score on, one slot per worker, at most k.
IsSelection(sel, k) ==
  LET eligible == {s \in Slots : IsEligible(s)}
  IN /\ sel \subseteq eligible
     /\ Cardinality(Workers(sel)) = Cardinality(sel)
     /\ \/ Cardinality(sel) = k
        \/ Cardinality(sel) < k /\ Workers(sel) = Workers(eligible)

-----------------------------------------------------------------------------
(* Callers and owner *)

Answer(t, status) == calls' = [calls EXCEPT ![t] = Append(@, status)]

Full == Len(items) = PendingCapacity

Claim(t) == items' = Append(items, t) /\ unpublished' = unpublished \cup {t}

\* submit(): the task gets a place in the queue or is rejected at once.
Submit(t) ==
  /\ stage[t] = "new" /\ stage' = [stage EXCEPT ![t] = "submitted"]
  /\ IF Full THEN Answer(t, "REJECTED") /\ UNCHANGED pendingVars
     ELSE Claim(t) /\ UNCHANGED calls
  /\ UNCHANGED <<loopVars, events, slot, attempts, snapshot, job, threads, active>>

\* Threads end: active_dispatch_count_.fetch_sub is their last step, taken together
\* with the one before it, which only delays stop().
Leave(set) ==
  threads' = threads \ set /\ active' = active - Cardinality(set)

\* The push publishes; the dispatch thread whose retry it was ends.
Publish(t) ==
  /\ t \in unpublished /\ unpublished' = unpublished \ {t}
  /\ Leave({th \in threads : th.task = t /\ th.pc = "pushing"})
  /\ UNCHANGED <<items, loopVars, events, slot, stage, attempts, snapshot, job, calls>>

Owner(run, at, lp, n) ==
  /\ running' = run /\ owner' = at /\ loop' = lp /\ starts' = n
  /\ UNCHANGED <<pendingVars, events, slot, taskVars>>

Start ==
  /\ ~running /\ owner = "idle" /\ starts < MaxStarts
  /\ Owner(TRUE, "idle", "top", starts + 1)

Stop ==
  /\ running /\ owner = "idle"
  /\ Owner(FALSE, "joining", loop, starts)

StopJoined ==
  /\ owner = "joining" /\ loop = "ended"
  /\ Owner(running, "waiting", "off", starts)

\* Mutant of StopReturns: stop() does not wait for the dispatch threads.
MutantStopReturnsAtOnce ==
  /\ owner = "waiting"
  /\ Owner(running, "idle", loop, starts)

\* Every dispatch thread has ended.
StopReturns ==
  /\ owner = "waiting" /\ active = 0
  /\ Owner(running, "idle", loop, starts)

-----------------------------------------------------------------------------
(* run_loop *)

GoTo(lp) == loop' = lp /\ UNCHANGED <<running, owner, starts>>

\* A new pass reads the clock: stale slots expire, cooldowns end.
LoopPass ==
  /\ loop = "top" /\ running
  /\ \E stale \in SUBSET {s \in Slots : slot[s].fit},
        over \in SUBSET {s \in Slots : slot[s].cooling} :
       slot' = [s \in Slots |->
                  [(IF s \in stale THEN Expired(slot[s]) ELSE slot[s])
                     EXCEPT !.cooling = @ /\ s \notin over]]
  /\ GoTo("drain")
  /\ UNCHANGED <<pendingVars, events, taskVars>>

LoopEnds ==
  /\ loop = "top" /\ ~running
  /\ GoTo("ended")
  /\ UNCHANGED <<pendingVars, events, slot, taskVars>>

\* Mutant of HasPublished: the last item stays.
MutantHasAnother == Len(items) > 1 /\ Head(items) \notin unpublished

\* dispatch_pending drains the queue until a pop finds nothing published.
HasPublished == items # <<>> /\ Head(items) \notin unpublished

DrainOne ==
  /\ loop = "drain" /\ HasPublished
  /\ snapshot' = Append(snapshot, Head(items)) /\ items' = Tail(items)
  /\ UNCHANGED <<unpublished, loopVars, events, slot, stage, attempts, job, threads, active, calls>>

DrainEnds ==
  /\ loop = "drain" /\ ~HasPublished
  /\ GoTo(IF snapshot = <<>> THEN "top" ELSE "assign")
  /\ UNCHANGED <<pendingVars, events, slot, taskVars>>

Thread(t, s) == [task |-> t, slot |-> s, pc |-> "call"]

\* The next task of the snapshot is rejected or handed to the best slots.
Assign ==
  /\ loop = "assign"
  /\ \E sel \in SUBSET Slots :
       LET t == Head(snapshot) IN
       /\ IsSelection(sel, Fanout)
       /\ IF sel = {}
          THEN Answer(t, "REJECTED") /\ UNCHANGED <<attempts, job, threads, active>>
          ELSE /\ attempts' = [attempts EXCEPT ![t] = @ + 1]
               /\ job' = [job EXCEPT ![t] = [NoJob EXCEPT !.remaining = Cardinality(sel)]]
               /\ threads' = threads \cup {Thread(t, s) : s \in sel}
               /\ active' = active + Cardinality(sel)
               /\ UNCHANGED calls
  /\ snapshot' = Tail(snapshot)
  /\ GoTo(IF Len(snapshot) = 1 THEN "top" ELSE "assign")
  /\ UNCHANGED <<pendingVars, events, slot, stage>>

-----------------------------------------------------------------------------
(* dispatch_one_slot *)

Becomes(th, pc) == threads' = (threads \ {th}) \cup {[th EXCEPT !.pc = pc]}

\* Connecting, sending or receiving failed (on_slot_transport_failure).
TransportFails(th) ==
  /\ th.pc = "call"
  /\ Becomes(th, "count")
  /\ slot' = [slot EXCEPT ![th.slot].cooling = TRUE]
  /\ UNCHANGED <<pendingVars, loopVars, events, stage, attempts, snapshot, job, active, calls>>

\* Mutant of MayComplete: done is not looked at.
MutantMayAlwaysComplete(t) == TRUE

\* complete_task_if_first: the first to set done calls back.
MayComplete(t) == ~job[t].done

\* The worker answered: the result is recorded, an OK result completes the task.
TransportAnswers(th) ==
  /\ th.pc = "call" /\ slot[th.slot].known
  /\ \E status \in {"OK", "MODEL_ERROR"} :
       LET t == th.task
           wins == status = "OK" /\ MayComplete(t)
       IN /\ job' = [job EXCEPT ![t].partials = Append(@, status),
                                ![t].done = @ \/ wins]
          /\ IF wins THEN Answer(t, "OK") ELSE UNCHANGED calls
  /\ Becomes(th, "count")
  /\ UNCHANGED <<pendingVars, loopVars, events, slot, stage, attempts, snapshot, active>>

\* What the last thread makes of a task nobody completed: the first result (all
\* are errors), another attempt, or a timeout.
LastVerdict(t) ==
  IF job[t].partials # <<>> THEN Head(job[t].partials)
  ELSE IF attempts[t] < MaxAttempts[t] THEN "RETRY"
  ELSE "TIMEOUT"

\* remaining.fetch_sub; the last thread queues a retry, which a full queue rejects.
Count(th) ==
  /\ th.pc = "count"
  /\ LET t == th.task
         decides == job[t].remaining = 1 /\ ~job[t].done
         retries == decides /\ LastVerdict(t) = "RETRY"
         queued == retries /\ ~Full
     IN /\ job' = [job EXCEPT ![t].remaining = @ - 1,
                              ![t].done = @ \/ (decides /\ ~queued)]
        /\ IF queued THEN Claim(t) ELSE UNCHANGED pendingVars
        /\ IF queued THEN Becomes(th, "pushing") /\ UNCHANGED active
           ELSE Leave({th})
        /\ IF decides /\ ~queued
           THEN Answer(t, IF retries THEN "REJECTED" ELSE LastVerdict(t))
           ELSE UNCHANGED calls
  /\ UNCHANGED <<loopVars, events, slot, stage, attempts, snapshot>>

Transport(th) == TransportAnswers(th) \/ TransportFails(th)

LoopStep == LoopPass \/ LoopEnds \/ DrainOne \/ DrainEnds \/ Assign

Registry(s) ==
  RegisterSlot(s) \/ ApplyHeartbeat(s) \/ OnInviteSent(s) \/ OnInviteAck(s)

DispatchNext ==
  \/ \E s \in Slots : Registry(s)
  \/ \E t \in Tasks : Submit(t) \/ Publish(t)
  \/ Start \/ Stop \/ StopJoined \/ StopReturns
  \/ LoopStep
  \/ \E th \in threads : Transport(th) \/ Count(th)

DispatchSpec == DispatchInit /\ [][DispatchNext]_dispatchVars

\* Threads run; a worker that is not silent answers or closes; stop() goes on.
DispatchFairness ==
  /\ WF_dispatchVars(LoopStep) /\ WF_dispatchVars(StopJoined \/ StopReturns)
  /\ WF_dispatchVars(\E t \in Tasks : Publish(t))
  /\ WF_dispatchVars(\E th \in threads : Count(th))
  /\ WF_dispatchVars(\E th \in {x \in threads : x.slot \notin Silent} : Transport(th))

FairDispatchSpec == DispatchSpec /\ DispatchFairness

-----------------------------------------------------------------------------
(* Properties *)

\* The tables keep their types (a task gets its first attempt whatever its limit is),
\* and the two counters agree with the threads: active_dispatch_count_ with all,
\* remaining with those of the task that have not reported.
DispatchTypeOK ==
  /\ Len(items) <= PendingCapacity /\ \A t \in unpublished : \E i \in DOMAIN items : items[i] = t
  /\ \A t \in Tasks : /\ attempts[t] \in Nat
                      /\ attempts[t] <= 1 \/ attempts[t] <= MaxAttempts[t]
  /\ active = Cardinality(threads)
  /\ \A t \in Tasks : job[t].remaining =
       Cardinality({th \in threads : th.task = t /\ th.pc # "pushing"})

In(t, seq) == \E i \in DOMAIN seq : seq[i] = t

Places(t) ==
  {p \in {"queue", "snapshot", "threads"} :
     CASE p = "queue"    -> In(t, items)
       [] p = "snapshot" -> In(t, snapshot)
       [] OTHER          -> job[t].remaining > 0}

\* A task's callback runs at most once, and then the task is neither queued nor in the
\* loop's snapshot; a submitted task that has no answer yet is in exactly one place, so
\* none is lost on the way, not by a retry, a full queue or stop()
\* (complete_task_if_first, the retry of dispatch_one_slot, the rejections of submit
\* and dispatch_pending).
AnsweredOnce ==
  \A t \in Tasks :
    /\ calls[t] # <<>> => Len(calls[t]) = 1 /\ ~In(t, items) /\ ~In(t, snapshot)
    /\ stage[t] = "submitted" /\ calls[t] = <<>> => Cardinality(Places(t)) = 1

\* An error never replaces a result: when one slot of the last attempt answered OK,
\* the callback was given OK (dispatch_one_slot's last thread sees done).
OkWins ==
  \A t \in Tasks : \A i \in DOMAIN job[t].partials :
    job[t].partials[i] = "OK" => calls[t] = <<"OK">>

\* Every task has one verdict, and it is the best there was (complete_task_if_first,
\* dispatch_one_slot); the counters it is taken by agree with the threads.
VerdictsAreSound == DispatchTypeOK /\ AnsweredOnce /\ OkWins

\* When stop() has returned, no loop and no dispatch thread runs any more (the
\* caller may destroy the scheduler).
QuietAfterStop == owner = "idle" /\ ~running => threads = {} /\ loop = "off"

Submitted(t) == stage[t] = "submitted" /\ calls[t] = <<>>

\* All that is still to be counted of the task's last dispatch waits for silent workers.
HeldBySilence(t) ==
  /\ job[t].remaining > 0
  /\ \A th \in threads : th.task = t /\ th.pc # "pushing" => th.pc = "call" /\ th.slot \in Silent

\* A silent worker holds up only what was sent to it: while the scheduler runs, every
\* submitted task is answered, through the queue, a pass of the loop, its slots and its
\* retries, except one whose last dispatch waits for silent workers alone, and for ever
\* (run_loop, dispatch_pending, dispatch_one_slot; its receive has no timeout).
SubmissionsAnswered ==
  \A t \in Tasks : []<>(~Submitted(t) \/ ~running) \/ <>[]HeldBySilence(t)
=============================================================================
