--------------------------- MODULE DispatchProofs ---------------------------
(***************************************************************************)
(* What the V0.1 scheduler keeps, for any tasks, queue capacity, slots,    *)
(* fan-out and attempts: one verdict per task, and the best there was; and *)
(* silence after stop().  And what its queue keeps, for any width of the   *)
(* positions: first in, first out.                                         *)
(*                                                                         *)
(* The argument: a task is in one place at a time (the queue, the loop's   *)
(* snapshot, or its dispatch threads), an answered one in none but threads *)
(* that come late, and only an OK answers a task while threads of its are  *)
(* left.  In the queue, every position stands for a place on the unbounded *)
(* line of pushes and pops, and the cells hold a window of that line.      *)
(***************************************************************************)
EXTENDS Dispatch, TaskQueue, FiniteSetTheorems, TLAPS

-----------------------------------------------------------------------------
(* Sequences without repetition *)

Distinct(seq) == \A i, j \in DOMAIN seq : seq[i] = seq[j] => i = j

LEMMA AppendIn ==
  ASSUME NEW S, NEW seq \in Seq(S), NEW t \in S
  PROVE  /\ Append(seq, t) \in Seq(S) /\ Append(seq, t) # <<>>
         /\ Len(Append(seq, t)) = Len(seq) + 1
         /\ \A u : In(u, Append(seq, t)) <=> In(u, seq) \/ u = t
         /\ Distinct(seq) /\ ~In(t, seq) => Distinct(Append(seq, t))
<1>1. PICK n \in Nat : n = Len(seq) /\ DOMAIN seq = 1..n
  OBVIOUS
<1>2. PICK app : app = Append(seq, t)
  OBVIOUS
<1>3. /\ app \in Seq(S) /\ Len(app) = n + 1 /\ DOMAIN app = 1..(n + 1)
      /\ app[n + 1] = t /\ \A i \in 1..n : app[i] = seq[i]
  BY <1>1, <1>2
<1>4. \A i \in 1..(n + 1) : i = n + 1 \/ i \in 1..n
  BY <1>1
<1>5. \A u : In(u, app) <=> In(u, seq) \/ u = t
  BY <1>1, <1>3, <1>4 DEF In
<1>6. Distinct(seq) /\ ~In(t, seq) => Distinct(app)
  BY <1>1, <1>3, <1>4 DEF Distinct, In
<1>7. app # <<>>
  BY <1>3
<1> QED BY <1>1, <1>2, <1>3, <1>5, <1>6, <1>7

LEMMA TailIn ==
  ASSUME NEW S, NEW seq \in Seq(S), seq # <<>>, Distinct(seq)
  PROVE  /\ Head(seq) \in S /\ In(Head(seq), seq)
         /\ Tail(seq) \in Seq(S) /\ Len(Tail(seq)) = Len(seq) - 1
         /\ \A u : In(u, Tail(seq)) <=> In(u, seq) /\ u # Head(seq)
         /\ Distinct(Tail(seq))
<1>1. PICK n \in Nat : n = Len(seq) /\ DOMAIN seq = 1..n /\ n > 0
  OBVIOUS
<1>2. PICK tl, h : tl = Tail(seq) /\ h = Head(seq)
  OBVIOUS
<1>3. /\ tl \in Seq(S) /\ Len(tl) = n - 1 /\ DOMAIN tl = 1..(n - 1)
      /\ h = seq[1] /\ h \in S /\ \A i \in 1..(n - 1) : tl[i] = seq[i + 1]
  BY <1>1, <1>2
<1>4. \A i \in 1..n : i = 1 \/ (i - 1 \in 1..(n - 1) /\ seq[i] = tl[i - 1])
  BY <1>1, <1>3
<1>5. \A i \in 1..(n - 1) : i + 1 \in 1..n /\ i + 1 # 1
  BY <1>1
<1>6. ASSUME NEW u PROVE In(u, tl) <=> In(u, seq) /\ u # h
  <2>1. ASSUME In(u, tl) PROVE In(u, seq) /\ u # h
    <3>1. PICK i \in 1..(n - 1) : tl[i] = u
      BY <2>1, <1>3 DEF In
    <3>2. i + 1 \in 1..n /\ seq[i + 1] = u /\ i + 1 # 1 /\ 1 \in 1..n
      BY <3>1, <1>1, <1>3
    <3> QED BY <3>2, <1>1, <1>3 DEF In, Distinct
  <2>2. ASSUME In(u, seq), u # h PROVE In(u, tl)
    BY <2>2, <1>1, <1>3, <1>4 DEF In
  <2> QED BY <2>1, <2>2
<1>7. Distinct(tl)
  <2>1. ASSUME NEW i \in 1..(n - 1), NEW j \in 1..(n - 1), tl[i] = tl[j] PROVE i = j
    <3>1. i + 1 \in 1..n /\ j + 1 \in 1..n /\ seq[i + 1] = seq[j + 1]
      BY <2>1, <1>3, <1>5
    <3>2. i + 1 = j + 1
      BY <3>1, <1>1 DEF Distinct
    <3> QED BY <3>2
  <2> QED BY <2>1, <1>3 DEF Distinct
<1>8. In(h, seq)
  BY <1>1, <1>3 DEF In
<1> QED BY <1>1, <1>2, <1>3, <1>6, <1>7, <1>8

-----------------------------------------------------------------------------
(* The inductive invariant *)

Statuses == {"OK", "MODEL_ERROR", "REJECTED", "TIMEOUT"}
Jobs == [done : BOOLEAN, remaining : Nat, partials : Seq(Statuses)]
Threads == [task : Tasks, slot : Slots, pc : {"call", "count", "pushing"}]

\* The threads of a task that have not reported.
Live(t) == {th \in threads : th.task = t /\ th.pc # "pushing"}

TablesOK ==
  /\ stage \in [Tasks -> {"new", "submitted"}] /\ attempts \in [Tasks -> Nat]
  /\ job \in [Tasks -> Jobs] /\ calls \in [Tasks -> Seq(Statuses)]

QueueOK ==
  /\ items \in Seq(Tasks) /\ Len(items) <= PendingCapacity /\ Distinct(items)
  /\ snapshot \in Seq(Tasks) /\ Distinct(snapshot)
  /\ unpublished \subseteq Tasks /\ \A t \in unpublished : In(t, items)

\* The counters agree with the threads; a slot is asked once per dispatch.
ThreadsOK ==
  /\ threads \subseteq Threads /\ IsFiniteSet(threads) /\ active = Cardinality(threads)
  /\ \A t \in Tasks : job[t].remaining = Cardinality(Live(t))
  /\ \A a, b \in threads : a.task = b.task /\ a.slot = b.slot => a = b
  /\ \A th \in threads : th.pc = "pushing" => th.task \in unpublished

Waits(t) == In(t, items) \/ In(t, snapshot)

HasOk(t) == \E i \in DOMAIN job[t].partials : job[t].partials[i] = "OK"

TaskOK(t) ==
  /\ stage[t] = "new" => /\ ~Waits(t) /\ job[t].remaining = 0 /\ job[t].partials = <<>>
                         /\ calls[t] = <<>> /\ attempts[t] = 0
  /\ ~(In(t, items) /\ In(t, snapshot))
  /\ Waits(t) => /\ job[t].remaining = 0 /\ calls[t] = <<>>
                 /\ attempts[t] = 0 \/ attempts[t] < MaxAttempts[t]
  /\ job[t].remaining > 0 => calls[t] = IF job[t].done THEN <<"OK">> ELSE <<>>
  /\ stage[t] = "submitted" /\ calls[t] = <<>> => Waits(t) \/ job[t].remaining > 0
  /\ calls[t] # <<>> => Len(calls[t]) = 1
  /\ HasOk(t) => calls[t] = <<"OK">>
  /\ attempts[t] <= 1 \/ attempts[t] <= MaxAttempts[t]

ControlOK ==
  /\ loop = "assign" => snapshot # <<>>
  /\ owner # "idle" => ~running
  /\ owner = "waiting" => loop = "off"
  /\ ~running /\ owner = "idle" => loop = "off" /\ threads = {}

DispatchInv ==
  TablesOK /\ QueueOK /\ ThreadsOK /\ (\A t \in Tasks : TaskOK(t)) /\ ControlOK

-----------------------------------------------------------------------------
(* Lemmas *)

LEMMA LiveFacts ==
  ASSUME ThreadsOK, NEW t \in Tasks
  PROVE  /\ IsFiniteSet(Live(t)) /\ Cardinality(Live(t)) \in Nat
         /\ Cardinality(Live(t)) = 0 <=> Live(t) = {}
<1>1. Live(t) \in SUBSET threads /\ IsFiniteSet(threads)
  BY DEF Live, ThreadsOK
<1>2. IsFiniteSet(Live(t))
  BY <1>1, FS_Subset
<1> QED BY <1>2, FS_CardinalityType, FS_EmptySet

\* A waiting task has no threads at all but the one whose push is not published yet.
LEMMA WaitingHasNoLive ==
  ASSUME DispatchInv, NEW t \in Tasks, Waits(t)
  PROVE  Live(t) = {}
  BY LiveFacts DEF DispatchInv, ThreadsOK, TaskOK

\* What is the same for a task before and after a step keeps its part of the invariant.
Same(t) ==
  /\ stage'[t] = stage[t] /\ attempts'[t] = attempts[t] /\ job'[t] = job[t]
  /\ calls'[t] = calls[t]
  /\ In(t, items)' <=> In(t, items)
  /\ In(t, snapshot)' <=> In(t, snapshot)

LEMMA SameKeeps ==
  ASSUME NEW t \in Tasks, TaskOK(t), Same(t)
  PROVE  TaskOK(t)'
  BY DEF TaskOK, Same, Waits, HasOk

LEMMA DispatchInitInv == DispatchInit => DispatchInv
<1> SUFFICES ASSUME DispatchInit PROVE DispatchInv
  OBVIOUS
<1> USE DispatchAssumption DEF DispatchInit
<1>1. TablesOK
  <2> DEFINE no == FALSE
  <2>1. NoJob = [done |-> no, remaining |-> 0, partials |-> <<>>] /\ no \in BOOLEAN
    BY DEF NoJob
  <2> HIDE DEF no
  <2>2. NoJob \in Jobs
    BY <2>1 DEF Jobs
  <2> QED BY <2>2 DEF TablesOK
<1>2. QueueOK
  BY DEF QueueOK, Distinct
<1>3. ThreadsOK
  <2>1. \A t \in Tasks : Live(t) = {} /\ job[t].remaining = 0
    BY DEF Live, NoJob
  <2> QED BY <2>1, FS_EmptySet DEF ThreadsOK
<1>4. ASSUME NEW t \in Tasks PROVE TaskOK(t)
  <2>1. ~In(t, items) /\ ~In(t, snapshot)
    BY DEF In
  <2>2. job[t].remaining = 0 /\ job[t].partials = <<>>
    BY DEF NoJob
  <2> QED BY <2>1, <2>2 DEF TaskOK, Waits, HasOk
<1>5. ControlOK
  BY DEF ControlOK
<1> QED BY <1>1, <1>2, <1>3, <1>4, <1>5 DEF DispatchInv

-----------------------------------------------------------------------------
(* The registry, the owner, and the loop between its queues *)

LEMMA OthersStep ==
  ASSUME DispatchInv, UNCHANGED <<pendingVars, taskVars>>, ControlOK'
  PROVE  DispatchInv'
<1> USE DEF DispatchInv, pendingVars, taskVars
<1>1. TablesOK' /\ QueueOK'
  BY DEF TablesOK, QueueOK, In
<1>2. ThreadsOK'
  BY DEF ThreadsOK, Live
<1>3. ASSUME NEW t \in Tasks PROVE TaskOK(t)'
  BY DEF TaskOK, Waits, In, HasOk
<1> QED BY <1>1, <1>2, <1>3

LEMMA RegistryStep ==
  ASSUME DispatchInv, NEW s \in Slots, Registry(s)
  PROVE  DispatchInv'
<1>1. UNCHANGED <<pendingVars, taskVars>> /\ UNCHANGED loopVars
  BY Zenon DEF Registry, RegisterSlot, ApplyHeartbeat, OnInviteSent, OnInviteAck, Update
<1>2. ControlOK'
  BY <1>1 DEF DispatchInv, ControlOK, loopVars, taskVars
<1> QED BY <1>1, <1>2, OthersStep

\* stop() waits until no dispatch thread is counted, and then there is none.
LEMMA OwnerStep ==
  ASSUME DispatchInv, Start \/ Stop \/ StopJoined \/ StopReturns
  PROVE  DispatchInv'
<1>1. UNCHANGED <<pendingVars, taskVars>>
  BY DEF Start, Stop, StopJoined, StopReturns, Owner
<1>2. active = 0 => threads = {}
  BY FS_EmptySet DEF DispatchInv, ThreadsOK
<1>3. ControlOK'
  BY <1>1, <1>2 DEF DispatchInv, ControlOK, Start, Stop, StopJoined, StopReturns, Owner,
                    taskVars
<1> QED BY <1>1, <1>3, OthersStep

LEMMA LoopTurns ==
  ASSUME DispatchInv, LoopPass \/ LoopEnds \/ DrainEnds
  PROVE  DispatchInv'
<1>1. UNCHANGED <<pendingVars, taskVars>>
  BY Zenon DEF LoopPass, LoopEnds, DrainEnds
<1>2. /\ UNCHANGED <<running, owner>> /\ loop # "off"
      /\ loop' \in {"drain", "ended", "top"} \/ (loop' = "assign" /\ snapshot # <<>>)
  BY DEF LoopPass, LoopEnds, DrainEnds, GoTo
<1>3. ControlOK'
  BY <1>1, <1>2 DEF DispatchInv, ControlOK, taskVars
<1> QED BY <1>1, <1>3, OthersStep

\* The oldest published task moves from the queue to the snapshot.
LEMMA DrainOneStep ==
  ASSUME DispatchInv, DrainOne
  PROVE  DispatchInv'
<1> DEFINE h == Head(items)
<1>1. /\ loop = "drain" /\ items # <<>> /\ h \notin unpublished
      /\ snapshot' = Append(snapshot, h) /\ items' = Tail(items)
      /\ UNCHANGED <<unpublished, loopVars, stage, attempts, job, threads, active, calls>>
  BY DEF DrainOne, HasPublished
<1>2. /\ items \in Seq(Tasks) /\ Distinct(items) /\ snapshot \in Seq(Tasks)
      /\ Distinct(snapshot) /\ Len(items) <= PendingCapacity
  BY DEF DispatchInv, QueueOK
<1>3. /\ h \in Tasks /\ In(h, items) /\ items' \in Seq(Tasks) /\ Distinct(items')
      /\ Len(items') = Len(items) - 1
      /\ \A u : In(u, items') <=> In(u, items) /\ u # h
  BY <1>1, <1>2, TailIn
<1>4. ~In(h, snapshot)
  BY <1>3 DEF DispatchInv, TaskOK
<1>5. /\ snapshot' \in Seq(Tasks) /\ Distinct(snapshot') /\ snapshot' # <<>>
      /\ \A u : In(u, snapshot') <=> In(u, snapshot) \/ u = h
  BY <1>1, <1>2, <1>3, <1>4, AppendIn
<1>6. TablesOK'
  BY <1>1 DEF DispatchInv, TablesOK
<1>7. QueueOK'
  <2>1. Len(items) \in Nat
    BY <1>2
  <2>2. Len(items') <= PendingCapacity
    BY <2>1, <1>2, <1>3, DispatchAssumption
  <2> QED BY <2>2, <1>1, <1>3, <1>5 DEF DispatchInv, QueueOK
<1>8. ThreadsOK'
  BY <1>1 DEF DispatchInv, ThreadsOK, Live
<1>9. ASSUME NEW t \in Tasks PROVE TaskOK(t)'
  <2>1. TaskOK(t)
    BY DEF DispatchInv
  <2>2. CASE t = h
    BY <1>1, <1>3, <1>4, <1>5, <2>1, <2>2 DEF TaskOK, Waits, HasOk
  <2>3. CASE t # h
    <3>1. Same(t)
      BY <1>1, <1>3, <1>5, <2>3 DEF Same
    <3> QED BY <2>1, <3>1, SameKeeps
  <2> QED BY <2>2, <2>3
<1>10. ControlOK'
  BY <1>1, <1>5 DEF DispatchInv, ControlOK, loopVars
<1> QED BY <1>6, <1>7, <1>8, <1>9, <1>10 DEF DispatchInv
-----------------------------------------------------------------------------
(* A task comes, is handed to its slots, is published *)

\* A thread of the task for each of the slots chosen.
LEMMA NewThreads ==
  ASSUME NEW t \in Tasks, NEW sel \in SUBSET Slots
  PROVE  LET new == {Thread(t, s) : s \in sel}
         IN  /\ new \subseteq Threads /\ IsFiniteSet(new)
             /\ Cardinality(new) = Cardinality(sel)
             /\ \A th \in new : th.task = t /\ th.pc = "call"
             /\ \A a, b \in new : a.slot = b.slot => a = b
<1> DEFINE new == {Thread(t, s) : s \in sel}
           f == [s \in sel |-> Thread(t, s)]
<1>1. sel \in SUBSET Slots /\ IsFiniteSet(Slots)
  BY DispatchAssumption
<1>2. IsFiniteSet(sel)
  BY <1>1, FS_Subset
<1>3. f \in Bijection(sel, new)
  <2>1. f \in [sel -> new]
    OBVIOUS
  <2>2. \A a, b \in sel : f[a] = f[b] => a = b
    BY DEF Thread
  <2>3. \A th \in new : \E s \in sel : f[s] = th
    OBVIOUS
  <2> QED BY <2>1, <2>2, <2>3 DEF Bijection, Injection, Surjection, IsInjective
<1>4. IsFiniteSet(new) /\ Cardinality(new) = Cardinality(sel)
  BY <1>2, <1>3, FS_Bijection DEF ExistsBijection
<1>5. new \subseteq Threads /\ \A th \in new : th.task = t /\ th.pc = "call"
  BY DEF Thread, Threads
<1>6. \A a, b \in new : a.slot = b.slot => a = b
  BY DEF Thread
<1> QED BY <1>4, <1>5, <1>6

\* A task of the snapshot has no thread left, not even one that pushes.
LEMMA SnapshotHasNoThread ==
  ASSUME DispatchInv, NEW t \in Tasks, In(t, snapshot)
  PROVE  /\ \A th \in threads : th.task # t
         /\ calls[t] = <<>> /\ stage[t] = "submitted"
<1>1. TaskOK(t) /\ ThreadsOK /\ QueueOK /\ TablesOK
  BY DEF DispatchInv
<1>2. Waits(t) /\ ~In(t, items) /\ calls[t] = <<>> /\ stage[t] = "submitted"
  BY <1>1 DEF TaskOK, Waits, TablesOK
<1>3. Live(t) = {}
  BY <1>2, WaitingHasNoLive
<1>4. t \notin unpublished
  BY <1>1, <1>2 DEF QueueOK
<1> QED BY <1>1, <1>2, <1>3, <1>4 DEF Live, ThreadsOK

LEMMA JobFields ==
  ASSUME NEW d, NEW n, NEW p
  PROVE  /\ [done |-> d, remaining |-> n, partials |-> p].done = d
         /\ [done |-> d, remaining |-> n, partials |-> p].remaining = n
         /\ [done |-> d, remaining |-> n, partials |-> p].partials = p
  OBVIOUS

LEMMA AssignStep ==
  ASSUME DispatchInv, Assign
  PROVE  DispatchInv'
<1>0. /\ loop = "assign" /\ snapshot' = Tail(snapshot)
      /\ GoTo(IF Len(snapshot) = 1 THEN "top" ELSE "assign")
      /\ UNCHANGED <<pendingVars, events, slot, stage>>
  BY Zenon DEF Assign
<1>h. PICK sel \in SUBSET Slots :
        IF sel = {}
           THEN Answer(Head(snapshot), "REJECTED") /\ UNCHANGED <<attempts, job, threads, active>>
           ELSE /\ attempts' = [attempts EXCEPT ![Head(snapshot)] = @ + 1]
                /\ job' = [job EXCEPT ![Head(snapshot)] = [NoJob EXCEPT !.remaining = Cardinality(sel)]]
                /\ threads' = threads \cup {Thread(Head(snapshot), s) : s \in sel}
                /\ active' = active + Cardinality(sel)
                /\ UNCHANGED calls
  BY Zenon DEF Assign
<1>t. PICK t : t = Head(snapshot)
  OBVIOUS
<1>1. /\ t = Head(snapshot)
      /\ IF sel = {}
         THEN Answer(t, "REJECTED") /\ UNCHANGED <<attempts, job, threads, active>>
         ELSE /\ attempts' = [attempts EXCEPT ![t] = @ + 1]
              /\ job' = [job EXCEPT ![t] = [NoJob EXCEPT !.remaining = Cardinality(sel)]]
              /\ threads' = threads \cup {Thread(t, s) : s \in sel}
              /\ active' = active + Cardinality(sel)
              /\ UNCHANGED calls
      /\ snapshot' = Tail(snapshot) /\ loop = "assign"
      /\ GoTo(IF Len(snapshot) = 1 THEN "top" ELSE "assign")
      /\ UNCHANGED <<pendingVars, events, slot, stage>>
  BY <1>0, <1>h, <1>t, Zenon
<1>2. /\ snapshot \in Seq(Tasks) /\ Distinct(snapshot) /\ snapshot # <<>>
      /\ TablesOK /\ QueueOK /\ ThreadsOK
  BY <1>1 DEF DispatchInv, QueueOK, ControlOK
<1>3. /\ t \in Tasks /\ In(t, snapshot) /\ snapshot' \in Seq(Tasks) /\ Distinct(snapshot')
      /\ Len(snapshot') = Len(snapshot) - 1
      /\ \A u : In(u, snapshot') <=> In(u, snapshot) /\ u # t
  BY <1>1, <1>2, TailIn
<1>4. TaskOK(t) /\ ~In(t, items)
  BY <1>3 DEF DispatchInv, TaskOK
<1>5. /\ \A th \in threads : th.task # t
      /\ calls[t] = <<>> /\ stage[t] = "submitted"
  BY <1>3, SnapshotHasNoThread
<1>6. QueueOK'
  BY <1>1, <1>3 DEF DispatchInv, QueueOK, pendingVars, In
<1>7. ControlOK'
  <2>1. Len(snapshot) # 1 => snapshot' # <<>>
    BY <1>2, <1>3
  <2> QED BY <1>1, <2>1 DEF DispatchInv, ControlOK, GoTo
<1>8. UNCHANGED <<items, stage>>
  BY <1>1 DEF pendingVars
<1>9. CASE sel = {}
  <2>1. /\ calls' = [calls EXCEPT ![t] = Append(@, "REJECTED")]
        /\ UNCHANGED <<attempts, job, threads, active, unpublished>>
    BY <1>1, <1>9 DEF Answer, pendingVars
  <2>2. "REJECTED" \in Statuses /\ Append(<<>>, "REJECTED") = <<"REJECTED">>
    BY DEF Statuses
  <2>3. <<"REJECTED">> \in Seq(Statuses)
    BY <2>2
  <2>4. calls' = [calls EXCEPT ![t] = <<"REJECTED">>]
    BY <1>3, <1>5, <2>1, <2>2, <1>2 DEF TablesOK
  <2>5. TablesOK'
    BY <1>2, <1>3, <1>8, <2>1, <2>3, <2>4 DEF TablesOK
  <2>6. ThreadsOK'
    BY <1>2, <2>1 DEF ThreadsOK, Live
  <2>7. ASSUME NEW u \in Tasks PROVE TaskOK(u)'
    <3>1. TaskOK(u)
      BY DEF DispatchInv
    <3>2. CASE u = t
      <4>1. /\ calls'[t] = <<"REJECTED">> /\ Len(calls'[t]) = 1 /\ calls'[t] # <<>>
            /\ ~Waits(t)' /\ stage'[t] = "submitted" /\ job'[t].remaining = 0
            /\ ~HasOk(t)' /\ attempts'[t] = attempts[t]
        BY <1>2, <1>3, <1>4, <1>5, <1>8, <2>1, <2>4 DEF TablesOK, Waits, TaskOK, HasOk
      <4>2. ~In(t, items)'
        BY <1>4, <1>8
      <4> QED BY <1>4, <3>2, <4>1, <4>2 DEF TaskOK
    <3>3. CASE u # t
      <4>1. Same(u)
        BY <1>2, <1>3, <1>8, <2>1, <2>4, <3>3 DEF Same, TablesOK
      <4> QED BY <3>1, <4>1, SameKeeps
    <3> QED BY <3>2, <3>3
  <2> QED BY <1>6, <1>7, <2>5, <2>6, <2>7 DEF DispatchInv
<1>10. CASE sel # {}
  <2>0. PICK n, new, no :
          /\ n = Cardinality(sel) /\ new = {Thread(t, s) : s \in sel} /\ no = FALSE
    OBVIOUS
  <2>1. /\ attempts' = [attempts EXCEPT ![t] = @ + 1]
        /\ job' = [job EXCEPT ![t] = [NoJob EXCEPT !.remaining = n]]
        /\ threads' = threads \cup new /\ active' = active + n
        /\ UNCHANGED <<calls, unpublished>>
    BY <1>1, <1>10, <2>0 DEF pendingVars
  <2>2. [NoJob EXCEPT !.remaining = n] = [done |-> no, remaining |-> n, partials |-> <<>>]
    <3>1. NoJob = [done |-> no, remaining |-> 0, partials |-> <<>>]
      BY <2>0, Zenon DEF NoJob
    <3> QED BY ONLY <3>1
  <2>3. /\ new \subseteq Threads /\ IsFiniteSet(new) /\ Cardinality(new) = n
        /\ \A th \in new : th.task = t /\ th.pc = "call"
        /\ \A a, b \in new : a.slot = b.slot => a = b
    BY <1>3, <2>0, NewThreads
  <2>4. n \in Nat /\ n > 0
    <3>1. new # {}
      BY <1>10, <2>0
    <3> QED BY <2>3, <3>1, FS_CardinalityType, FS_EmptySet
  <2>a. PICK made : made = [done |-> no, remaining |-> n, partials |-> <<>>]
    OBVIOUS
  <2>5. /\ made \in Jobs /\ made.done = no /\ made.remaining = n
        /\ made.partials = <<>>
    <3>0. no \in BOOLEAN
      BY <2>0
    <3>1. <<>> \in Seq(Statuses)
      OBVIOUS
    <3>2. [done |-> no, remaining |-> n, partials |-> <<>>] \in Jobs
      BY ONLY <2>4, <3>0, <3>1 DEF Jobs
    <3> QED BY ONLY <2>a, <3>2, JobFields
  <2>6. job' = [job EXCEPT ![t] = made]
    BY <2>1, <2>2, <2>a
  <2>7. TablesOK'
    <3>1. job' \in [Tasks -> Jobs]
      BY <1>2, <1>3, <2>5, <2>6 DEF TablesOK
    <3>2. attempts' \in [Tasks -> Nat]
      BY <1>2, <1>3, <2>1 DEF TablesOK
    <3> QED BY <1>2, <1>8, <2>1, <3>1, <3>2 DEF TablesOK
  <2>8. ThreadsOK'
    <3>1. threads \cap new = {}
      BY <1>5, <2>3
    <3>2. /\ IsFiniteSet(threads) /\ threads \subseteq Threads /\ active = Cardinality(threads)
      BY <1>2 DEF ThreadsOK
    <3>3. IsFiniteSet(threads') /\ active' = Cardinality(threads')
      <4>1. /\ IsFiniteSet(threads \cup new)
            /\ Cardinality(threads \cup new) =
                 Cardinality(threads) + Cardinality(new) - Cardinality(threads \cap new)
        BY <2>3, <3>2, FS_Union
      <4>2. Cardinality(threads \cap new) = 0
        BY <3>1, FS_EmptySet
      <4>3. Cardinality(threads) \in Nat
        BY <3>2, FS_CardinalityType
      <4> QED BY <2>1, <2>3, <2>4, <3>2, <4>1, <4>2, <4>3
    <3>4. ASSUME NEW u \in Tasks PROVE (job[u].remaining = Cardinality(Live(u)))'
      <4>1. CASE u = t
        <5>1. Live(t)' = new
          BY <1>5, <2>1, <2>3 DEF Live
        <5> QED BY <1>2, <1>3, <2>3, <2>5, <2>6, <4>1, <5>1 DEF TablesOK
      <4>2. CASE u # t
        <5>1. Live(u)' = Live(u)
          BY <2>1, <2>3, <4>2 DEF Live
        <5> QED BY <1>2, <1>3, <2>6, <4>2, <5>1 DEF TablesOK, ThreadsOK
      <4> QED BY <4>1, <4>2
    <3>5. \A a, b \in threads' : a.task = b.task /\ a.slot = b.slot => a = b
      BY <1>2, <1>5, <2>1, <2>3 DEF ThreadsOK
    <3>6. \A th \in threads' : th.pc = "pushing" => th.task \in unpublished'
      BY <1>2, <2>1, <2>3 DEF ThreadsOK
    <3> QED BY <2>1, <2>3, <3>2, <3>3, <3>4, <3>5, <3>6 DEF ThreadsOK
  <2>9. ASSUME NEW u \in Tasks PROVE TaskOK(u)'
    <3>1. TaskOK(u)
      BY DEF DispatchInv
    <3>2. CASE u = t
      <4>1. /\ job'[t] = made /\ calls'[t] = <<>> /\ stage'[t] = "submitted"
            /\ attempts'[t] = attempts[t] + 1 /\ attempts[t] \in Nat
        BY <1>2, <1>3, <1>5, <1>8, <2>1, <2>6 DEF TablesOK
      <4>2. ~In(t, items)' /\ ~In(t, snapshot)' /\ ~Waits(t)' /\ ~HasOk(t)'
        BY <1>3, <1>4, <1>8, <2>5, <4>1 DEF Waits, HasOk
      <4>3. attempts'[t] <= 1 \/ attempts'[t] <= MaxAttempts[t]
        <5>1. attempts[t] = 0 \/ attempts[t] < MaxAttempts[t]
          BY <1>3, <1>4 DEF TaskOK, Waits
        <5>2. MaxAttempts[t] \in Nat
          BY <1>3, DispatchAssumption
        <5> QED BY <4>1, <5>1, <5>2
      <4> QED BY <2>0, <2>4, <2>5, <3>2, <4>1, <4>2, <4>3 DEF TaskOK
    <3>3. CASE u # t
      <4>1. Same(u)
        BY <1>2, <1>3, <1>8, <2>1, <2>6, <3>3 DEF Same, TablesOK
      <4> QED BY <3>1, <4>1, SameKeeps
    <3> QED BY <3>2, <3>3
  <2> QED BY <1>6, <1>7, <2>7, <2>8, <2>9 DEF DispatchInv
<1> QED BY <1>9, <1>10
\* submit(): a new task waits in the queue, or is answered at once.
LEMMA SubmitStep ==
  ASSUME DispatchInv, NEW t \in Tasks, Submit(t)
  PROVE  DispatchInv'
<1>1. /\ stage[t] = "new" /\ stage' = [stage EXCEPT ![t] = "submitted"]
      /\ IF Full THEN Answer(t, "REJECTED") /\ UNCHANGED pendingVars
         ELSE Claim(t) /\ UNCHANGED calls
      /\ UNCHANGED <<loopVars, attempts, snapshot, job, threads, active>>
  BY DEF Submit
<1>2. TablesOK /\ QueueOK /\ ThreadsOK /\ ControlOK
  BY DEF DispatchInv
<1>3. TaskOK(t) /\ ~Waits(t) /\ ~In(t, items) /\ ~In(t, snapshot) /\ calls[t] = <<>>
      /\ job[t].remaining = 0 /\ attempts[t] = 0 /\ job[t].partials = <<>>
  BY <1>1 DEF DispatchInv, TaskOK, Waits
<1>4. stage' \in [Tasks -> {"new", "submitted"}] /\ stage'[t] = "submitted"
      /\ \A u \in Tasks : u # t => stage'[u] = stage[u]
  BY <1>1, <1>2 DEF TablesOK
<1>5. ControlOK'
  BY <1>1, <1>2 DEF ControlOK, loopVars
<1>6. CASE Full
  <2>1. "REJECTED" \in Statuses /\ Append(<<>>, "REJECTED") = <<"REJECTED">>
    BY DEF Statuses
  <2>2. <<"REJECTED">> \in Seq(Statuses)
    BY <2>1
  <2>3. /\ calls' = [calls EXCEPT ![t] = <<"REJECTED">>]
        /\ UNCHANGED <<items, unpublished>>
    BY <1>1, <1>2, <1>3, <1>6, <2>1 DEF Answer, pendingVars, TablesOK
  <2>4. TablesOK'
    BY <1>1, <1>2, <1>4, <2>2, <2>3 DEF TablesOK
  <2>5. QueueOK'
    BY <1>1, <1>2, <2>3 DEF QueueOK, In
  <2>6. ThreadsOK'
    BY <1>1, <1>2, <2>3 DEF ThreadsOK, Live
  <2>7. ASSUME NEW u \in Tasks PROVE TaskOK(u)'
    <3>1. CASE u = t
      <4>1. /\ calls'[t] = <<"REJECTED">> /\ Len(calls'[t]) = 1 /\ calls'[t] # <<>>
            /\ ~In(t, items)' /\ ~Waits(t)' /\ job'[t] = job[t]
            /\ ~HasOk(t)' /\ attempts'[t] = attempts[t]
        BY <1>1, <1>2, <1>3, <2>3 DEF TablesOK, Waits, HasOk
      <4> QED BY <1>3, <1>4, <3>1, <4>1 DEF TaskOK
    <3>2. CASE u # t
      <4>1. Same(u)
        BY <1>1, <1>2, <1>4, <2>3, <3>2 DEF Same, TablesOK
      <4> QED BY <4>1, SameKeeps DEF DispatchInv
    <3> QED BY <3>1, <3>2
  <2> QED BY <1>5, <2>4, <2>5, <2>6, <2>7 DEF DispatchInv
<1>7. CASE ~Full
  <2>1. /\ items' = Append(items, t) /\ unpublished' = unpublished \cup {t}
        /\ UNCHANGED calls /\ Len(items) # PendingCapacity
    BY <1>1, <1>7 DEF Claim, Full
  <2>2. /\ items' \in Seq(Tasks) /\ Len(items') = Len(items) + 1 /\ Distinct(items')
        /\ \A u : In(u, items') <=> In(u, items) \/ u = t
    BY <1>2, <1>3, <2>1, AppendIn DEF QueueOK
  <2>3. Len(items') <= PendingCapacity
    BY <1>2, <2>1, <2>2, DispatchAssumption DEF QueueOK
  <2>4. TablesOK'
    BY <1>1, <1>2, <1>4, <2>1 DEF TablesOK
  <2>5. QueueOK'
    BY <1>1, <1>2, <2>1, <2>2, <2>3 DEF QueueOK
  <2>6. ThreadsOK'
    BY <1>1, <1>2, <2>1 DEF ThreadsOK, Live
  <2>7. ASSUME NEW u \in Tasks PROVE TaskOK(u)'
    <3>1. CASE u = t
      <4>1. /\ Waits(t)' /\ ~In(t, snapshot)' /\ job'[t] = job[t] /\ calls'[t] = <<>>
            /\ ~HasOk(t)' /\ attempts'[t] = 0
        BY <1>1, <1>3, <2>1, <2>2 DEF Waits, HasOk
      <4> QED BY <1>3, <1>4, <3>1, <4>1 DEF TaskOK
    <3>2. CASE u # t
      <4>1. Same(u)
        BY <1>1, <1>4, <2>1, <2>2, <3>2 DEF Same
      <4> QED BY <4>1, SameKeeps DEF DispatchInv
    <3> QED BY <3>1, <3>2
  <2> QED BY <1>5, <2>4, <2>5, <2>6, <2>7 DEF DispatchInv
<1> QED BY <1>6, <1>7

\* The push is published; the dispatch thread that made it, if any, leaves.
LEMMA PublishStep ==
  ASSUME DispatchInv, NEW t \in Tasks, Publish(t)
  PROVE  DispatchInv'
<1> DEFINE gone == {th \in threads : th.task = t /\ th.pc = "pushing"}
<1>1. /\ t \in unpublished /\ unpublished' = unpublished \ {t}
      /\ threads' = threads \ gone /\ active' = active - Cardinality(gone)
      /\ UNCHANGED <<items, loopVars, stage, attempts, snapshot, job, calls>>
  BY DEF Publish, Leave
<1>2. TablesOK /\ QueueOK /\ ThreadsOK /\ ControlOK
  BY DEF DispatchInv
<1>3. TablesOK'
  BY <1>1, <1>2 DEF TablesOK
<1>4. QueueOK'
  BY <1>1, <1>2 DEF QueueOK, In
<1>5. IsFiniteSet(threads') /\ active' = Cardinality(threads')
  <2>1. /\ IsFiniteSet(threads \ gone)
        /\ Cardinality(threads \ gone) = Cardinality(threads) - Cardinality(threads \cap gone)
    BY <1>2, FS_Difference DEF ThreadsOK
  <2>2. threads \cap gone = gone
    OBVIOUS
  <2> QED BY <1>1, <1>2, <2>1, <2>2 DEF ThreadsOK
<1>6. ASSUME NEW u \in Tasks PROVE Live(u)' = Live(u)
  BY <1>1 DEF Live
<1>7. ThreadsOK'
  <2>1. \A u \in Tasks : (job[u].remaining = Cardinality(Live(u)))'
    BY <1>1, <1>2, <1>6 DEF ThreadsOK
  <2> QED BY <1>1, <1>2, <1>5, <2>1 DEF ThreadsOK
<1>8. ASSUME NEW u \in Tasks PROVE TaskOK(u)'
  <2>1. Same(u)
    BY <1>1 DEF Same, In
  <2> QED BY <2>1, SameKeeps DEF DispatchInv
<1>9. ControlOK'
  BY <1>1, <1>2 DEF ControlOK, loopVars
<1> QED BY <1>3, <1>4, <1>7, <1>8, <1>9 DEF DispatchInv
-----------------------------------------------------------------------------
(* A dispatch thread: its call, its report *)

\* A thread moves on: the others stay, and only its own task's count may change.
LEMMA BecomesFacts ==
  ASSUME ThreadsOK, NEW th \in threads, th.pc # "pushing",
         NEW pc \in {"count", "pushing"}, Becomes(th, pc)
  PROVE  /\ threads' \subseteq Threads /\ IsFiniteSet(threads')
         /\ Cardinality(threads') = Cardinality(threads)
         /\ \A a, b \in threads' : a.task = b.task /\ a.slot = b.slot => a = b
         /\ \A a \in threads' : a \in threads \/ (a.task = th.task /\ a.pc = pc)
         /\ \A u \in Tasks : u # th.task => Live(u)' = Live(u)
         /\ Cardinality(Live(th.task)') =
              IF pc = "pushing" THEN Cardinality(Live(th.task)) - 1
              ELSE Cardinality(Live(th.task))
<1>0. PICK t : t = th.task
  OBVIOUS
<1>1. PICK moved : moved = [th EXCEPT !.pc = pc]
  OBVIOUS
<1>2. th \in Threads /\ t \in Tasks
  BY <1>0 DEF ThreadsOK, Threads
<1>3. /\ moved \in Threads /\ moved.task = t /\ moved.slot = th.slot /\ moved.pc = pc
  BY <1>0, <1>1, <1>2 DEF Threads
<1>4. threads' = (threads \ {th}) \cup {moved}
  BY <1>1 DEF Becomes
<1>5. moved \notin threads \ {th}
  BY <1>0, <1>3 DEF ThreadsOK
<1>6. threads' \subseteq Threads
  BY <1>3, <1>4 DEF ThreadsOK
<1>7. IsFiniteSet(threads') /\ Cardinality(threads') = Cardinality(threads)
  <2>1. /\ IsFiniteSet(threads \ {th})
        /\ Cardinality(threads \ {th}) = Cardinality(threads) - 1
    BY FS_RemoveElement DEF ThreadsOK
  <2>2. /\ IsFiniteSet((threads \ {th}) \cup {moved})
        /\ Cardinality((threads \ {th}) \cup {moved}) = Cardinality(threads \ {th}) + 1
    BY <1>5, <2>1, FS_AddElement
  <2>3. Cardinality(threads) \in Nat
    BY FS_CardinalityType DEF ThreadsOK
  <2> QED BY <1>4, <2>1, <2>2, <2>3
<1>8. \A a, b \in threads' : a.task = b.task /\ a.slot = b.slot => a = b
  BY <1>0, <1>3, <1>4 DEF ThreadsOK
<1>9. \A a \in threads' : a \in threads \/ (a.task = t /\ a.pc = pc)
  BY <1>3, <1>4
<1>10. \A u \in Tasks : u # t => Live(u)' = Live(u)
  BY <1>0, <1>3, <1>4 DEF Live
<1>11. IsFiniteSet(Live(t)) /\ Cardinality(Live(t)) \in Nat /\ th \in Live(t)
  BY <1>0, <1>2, LiveFacts DEF Live
<1>12. /\ IsFiniteSet(Live(t) \ {th})
       /\ Cardinality(Live(t) \ {th}) = Cardinality(Live(t)) - 1
  BY <1>11, FS_RemoveElement
<1>13. CASE pc = "pushing"
  <2>1. Live(t)' = Live(t) \ {th}
    BY <1>3, <1>4, <1>13 DEF Live
  <2> QED BY <1>0, <1>6, <1>7, <1>8, <1>9, <1>10, <1>12, <1>13, <2>1
<1>14. CASE pc = "count"
  <2>1. Live(t)' = (Live(t) \ {th}) \cup {moved}
    BY <1>3, <1>4, <1>14 DEF Live
  <2>2. moved \notin Live(t) \ {th}
    BY <1>5 DEF Live
  <2>3. Cardinality((Live(t) \ {th}) \cup {moved}) = Cardinality(Live(t) \ {th}) + 1
    BY <1>12, <2>2, FS_AddElement
  <2>4. Cardinality(Live(t)') = Cardinality(Live(t))
    BY <1>11, <1>12, <2>1, <2>3
  <2> QED BY <1>0, <1>6, <1>7, <1>8, <1>9, <1>10, <1>14, <2>4
<1> QED BY <1>13, <1>14

\* A thread ends.
LEMMA LeaveFacts ==
  ASSUME ThreadsOK, NEW th \in threads, th.pc # "pushing", Leave({th})
  PROVE  /\ threads' \subseteq threads /\ IsFiniteSet(threads')
         /\ active' = Cardinality(threads')
         /\ \A u \in Tasks : u # th.task => Live(u)' = Live(u)
         /\ Cardinality(Live(th.task)') = Cardinality(Live(th.task)) - 1
<1>0. PICK t : t = th.task
  OBVIOUS
<1>1. threads' = threads \ {th} /\ active' = active - 1
  BY FS_Singleton DEF Leave
<1>2. /\ IsFiniteSet(threads \ {th})
      /\ Cardinality(threads \ {th}) = Cardinality(threads) - 1
  BY FS_RemoveElement DEF ThreadsOK
<1>3. t \in Tasks
  BY <1>0 DEF ThreadsOK, Threads
<1>4. IsFiniteSet(Live(t)) /\ th \in Live(t)
  BY <1>0, <1>3, LiveFacts DEF Live
<1>5. Live(t)' = Live(t) \ {th}
  BY <1>1 DEF Live
<1>6. Cardinality(Live(t) \ {th}) = Cardinality(Live(t)) - 1
  BY <1>4, FS_RemoveElement
<1>7. \A u \in Tasks : u # t => Live(u)' = Live(u)
  BY <1>0, <1>1 DEF Live
<1> QED BY <1>0, <1>1, <1>2, <1>5, <1>6, <1>7 DEF ThreadsOK

\* A task of a thread that has not reported: it waits nowhere, and only OK answered it.
LEMMA LiveTask ==
  ASSUME DispatchInv, NEW th \in threads, th.pc # "pushing"
  PROVE  /\ th.task \in Tasks /\ TaskOK(th.task)
         /\ job[th.task] \in Jobs /\ job[th.task].remaining > 0
         /\ calls[th.task] = IF job[th.task].done THEN <<"OK">> ELSE <<>>
         /\ ~In(th.task, items) /\ ~In(th.task, snapshot) /\ stage[th.task] = "submitted"
         /\ th.task \notin unpublished
<1>1. PICK t : t = th.task
  OBVIOUS
<1>2. t \in Tasks /\ th \in Live(t)
  BY <1>1 DEF DispatchInv, ThreadsOK, Threads, Live
<1>3. job[t] \in Jobs /\ stage[t] \in {"new", "submitted"} /\ TaskOK(t)
  BY <1>2 DEF DispatchInv, TablesOK
<1>4. job[t].remaining > 0
  BY <1>2, LiveFacts DEF DispatchInv, ThreadsOK
<1>5. ~Waits(t) /\ stage[t] = "submitted"
  BY <1>3, <1>4 DEF TaskOK
<1>6. calls[t] = IF job[t].done THEN <<"OK">> ELSE <<>>
  BY <1>3, <1>4, Zenon DEF TaskOK
<1>7. t \notin unpublished
  BY <1>2, <1>5 DEF DispatchInv, QueueOK, Waits
<1> QED BY <1>1, <1>2, <1>3, <1>4, <1>5, <1>6, <1>7 DEF Waits

LEMMA TransportFailsStep ==
  ASSUME DispatchInv, NEW th \in threads, TransportFails(th)
  PROVE  DispatchInv'
<1>1. /\ th.pc = "call" /\ Becomes(th, "count")
      /\ UNCHANGED <<items, unpublished, loopVars, stage, attempts, snapshot, job, active,
                     calls>>
  BY Zenon DEF TransportFails, pendingVars
<1>2. TablesOK /\ QueueOK /\ ThreadsOK /\ ControlOK
  BY DEF DispatchInv
<1>3. TablesOK' /\ QueueOK'
  BY <1>1, <1>2 DEF TablesOK, QueueOK, In
<1>4. ThreadsOK'
  <2>1. /\ threads' \subseteq Threads /\ IsFiniteSet(threads')
        /\ Cardinality(threads') = Cardinality(threads)
        /\ \A a, b \in threads' : a.task = b.task /\ a.slot = b.slot => a = b
        /\ \A a \in threads' : a \in threads \/ (a.task = th.task /\ a.pc = "count")
        /\ \A u \in Tasks : u # th.task => Live(u)' = Live(u)
        /\ Cardinality(Live(th.task)') = Cardinality(Live(th.task))
    BY <1>1, <1>2, BecomesFacts
  <2>2. \A u \in Tasks : Cardinality(Live(u)') = Cardinality(Live(u))
    BY <2>1
  <2> QED BY <1>1, <1>2, <2>1, <2>2 DEF ThreadsOK
<1>5. ASSUME NEW u \in Tasks PROVE TaskOK(u)'
  <2>1. Same(u)
    BY <1>1 DEF Same, In
  <2> QED BY <2>1, SameKeeps DEF DispatchInv
<1>6. ControlOK'
  BY <1>1, <1>2 DEF ControlOK, loopVars
<1> QED BY <1>3, <1>4, <1>5, <1>6 DEF DispatchInv
\* The worker answered: the task's first OK answers it, anything else is recorded.
LEMMA TransportAnswersStep ==
  ASSUME DispatchInv, NEW th \in threads, TransportAnswers(th)
  PROVE  DispatchInv'
<1>0. PICK t : t = th.task
  OBVIOUS
<1>1. /\ th.pc = "call" /\ Becomes(th, "count")
      /\ UNCHANGED <<items, unpublished, loopVars, stage, attempts, snapshot, active>>
  BY Zenon DEF TransportAnswers, pendingVars
<1>2. TablesOK /\ QueueOK /\ ThreadsOK /\ ControlOK
  BY DEF DispatchInv
<1>3. /\ t \in Tasks /\ TaskOK(t) /\ job[t] \in Jobs /\ job[t].remaining > 0
      /\ calls[t] = IF job[t].done THEN <<"OK">> ELSE <<>>
      /\ ~In(t, items) /\ ~In(t, snapshot) /\ stage[t] = "submitted"
  BY <1>0, <1>1, LiveTask
<1>4. PICK status \in {"OK", "MODEL_ERROR"} :
        /\ job' = [job EXCEPT ![t].partials = Append(@, status),
                              ![t].done = @ \/ (status = "OK" /\ MayComplete(t))]
        /\ IF status = "OK" /\ MayComplete(t) THEN Answer(t, "OK") ELSE UNCHANGED calls
  BY <1>0, Zenon DEF TransportAnswers
<1>5. PICK d, ps : /\ d = (job[t].done \/ (status = "OK" /\ MayComplete(t)))
                   /\ ps = Append(job[t].partials, status)
  OBVIOUS
<1>6. job' = [job EXCEPT ![t].partials = ps, ![t].done = d]
  BY <1>4, <1>5, Zenon
<1>7. d \in BOOLEAN
  BY <1>5, Zenon
<1>8. /\ job[t].partials \in Seq(Statuses) /\ status \in Statuses
      /\ job[t].done \in BOOLEAN /\ job[t].remaining \in Nat
  BY <1>3 DEF Jobs, Statuses
<1>9. /\ ps \in Seq(Statuses) /\ ps # <<>>
      /\ \A u : In(u, ps) <=> In(u, job[t].partials) \/ u = status
  BY <1>5, <1>8, AppendIn
<1>10. /\ job' \in [Tasks -> Jobs] /\ job'[t].partials = ps /\ job'[t].done = d
       /\ job'[t].remaining = job[t].remaining
       /\ \A u \in Tasks : u # t => job'[u] = job[u]
  BY ONLY <1>2, <1>3, <1>6, <1>7, <1>8, <1>9 DEF TablesOK, Jobs
<1>11. calls' \in [Tasks -> Seq(Statuses)] /\ calls'[t] = (IF d THEN <<"OK">> ELSE <<>>)
       /\ \A u \in Tasks : u # t => calls'[u] = calls[u]
  <2>1. calls \in [Tasks -> Seq(Statuses)]
    BY <1>2 DEF TablesOK
  <2>2. CASE status = "OK" /\ MayComplete(t)
    <3>1. d = TRUE /\ job[t].done = FALSE
      BY <1>5, <1>8, <2>2 DEF MayComplete
    <3>2. calls[t] = <<>> /\ Append(<<>>, "OK") = <<"OK">> /\ <<"OK">> \in Seq(Statuses)
      BY <1>3, <3>1 DEF Statuses
    <3>3. calls' = [calls EXCEPT ![t] = <<"OK">>]
      BY <1>4, <2>2, <3>2 DEF Answer
    <3> QED BY <1>3, <2>1, <3>1, <3>2, <3>3
  <2>3. CASE ~(status = "OK" /\ MayComplete(t))
    <3>1. d = job[t].done
      BY <1>5, <1>8, <2>3
    <3>2. calls' = calls
      BY <1>4, <2>3
    <3> QED BY <1>3, <2>1, <3>1, <3>2
  <2> QED BY <2>2, <2>3
<1>12. TablesOK'
  BY <1>1, <1>2, <1>10, <1>11 DEF TablesOK
<1>13. QueueOK'
  BY <1>1, <1>2 DEF QueueOK, In
<1>14. ThreadsOK'
  <2>1. /\ threads' \subseteq Threads /\ IsFiniteSet(threads')
        /\ Cardinality(threads') = Cardinality(threads)
        /\ \A a, b \in threads' : a.task = b.task /\ a.slot = b.slot => a = b
        /\ \A a \in threads' : a \in threads \/ (a.task = th.task /\ a.pc = "count")
        /\ \A u \in Tasks : u # th.task => Live(u)' = Live(u)
        /\ Cardinality(Live(th.task)') = Cardinality(Live(th.task))
    BY <1>1, <1>2, BecomesFacts
  <2>2. \A u \in Tasks : Cardinality(Live(u)') = Cardinality(Live(u))
    BY <2>1
  <2>3. \A u \in Tasks : job'[u].remaining = job[u].remaining
    BY <1>10
  <2>4. \A u \in Tasks : job'[u].remaining = Cardinality(Live(u)')
    BY <1>2, <2>2, <2>3 DEF ThreadsOK
  <2> QED BY <1>1, <1>2, <2>1, <2>4 DEF ThreadsOK
<1>15. ASSUME NEW u \in Tasks PROVE TaskOK(u)'
  <2>1. CASE u = t
    <3>1. ~In(t, items)' /\ ~In(t, snapshot)' /\ ~Waits(t)'
      BY <1>1, <1>3 DEF In, Waits
    <3>2. HasOk(t)' => d
      <4>1. HasOk(t)' => In("OK", ps)
        BY <1>10 DEF HasOk, In
      <4>2. In("OK", job[t].partials) => job[t].done
        <5>1. In("OK", job[t].partials) => calls[t] = <<"OK">>
          BY <1>3 DEF TaskOK, HasOk, In
        <5>2. calls[t] = <<"OK">> => calls[t] # <<>>
          OBVIOUS
        <5> QED BY <1>3, <5>1, <5>2
      <4>3. status = "OK" => d
        BY <1>5, <1>8 DEF MayComplete
      <4> QED BY <1>5, <1>9, <4>1, <4>2, <4>3
    <3>3. Len(<<"OK">>) = 1
      OBVIOUS
    <3>4. /\ stage'[t] = "submitted" /\ attempts'[t] = attempts[t]
          /\ job'[t].remaining > 0 /\ job'[t].done = d
          /\ calls'[t] = IF d THEN <<"OK">> ELSE <<>>
      BY <1>1, <1>3, <1>10, <1>11
    <3> QED BY <1>3, <2>1, <3>1, <3>2, <3>3, <3>4 DEF TaskOK
  <2>2. CASE u # t
    <3>1. Same(u)
      BY <1>1, <1>10, <1>11, <2>2 DEF Same, In
    <3> QED BY <3>1, SameKeeps DEF DispatchInv
  <2> QED BY <2>1, <2>2
<1>16. ControlOK'
  BY <1>1, <1>2 DEF ControlOK, loopVars
<1> QED BY <1>12, <1>13, <1>14, <1>15, <1>16 DEF DispatchInv
\* What the last thread of a task nobody completed finds: no result that is OK.
LEMMA VerdictFacts ==
  ASSUME DispatchInv, NEW t \in Tasks, calls[t] = <<>>
  PROVE  /\ ~HasOk(t)
         /\ LastVerdict(t) \in {"MODEL_ERROR", "REJECTED", "RETRY", "TIMEOUT"}
         /\ LastVerdict(t) = "RETRY" => attempts[t] < MaxAttempts[t]
<1>1. job[t] \in Jobs /\ TaskOK(t)
  BY DEF DispatchInv, TablesOK
<1>2. job[t].partials \in Seq(Statuses)
  BY <1>1 DEF Jobs
<1>3. ~HasOk(t)
  BY <1>1 DEF TaskOK
<1>4. CASE job[t].partials # <<>>
  <2>1. PICK ps : ps = job[t].partials
    OBVIOUS
  <2>2. /\ Head(ps) \in Statuses /\ 1 \in DOMAIN ps /\ Head(ps) = ps[1]
    BY <1>2, <1>4, <2>1
  <2>3. Head(ps) # "OK"
    BY <1>3, <2>1, <2>2 DEF HasOk
  <2> QED BY <1>3, <1>4, <2>1, <2>2, <2>3 DEF LastVerdict, Statuses
<1>5. CASE job[t].partials = <<>>
  BY <1>3, <1>5 DEF LastVerdict
<1> QED BY <1>4, <1>5

\* A thread reports; the last one of a task that nobody completed retries or answers it.
LEMMA CountStep ==
  ASSUME DispatchInv, NEW th \in threads, Count(th)
  PROVE  DispatchInv'
<1>0. PICK t : t = th.task
  OBVIOUS
<1>1. PICK decides, retries, queued, answers :
        /\ decides = (job[t].remaining = 1 /\ ~job[t].done)
        /\ retries = (decides /\ LastVerdict(t) = "RETRY")
        /\ queued = (retries /\ ~Full)
        /\ answers = (decides /\ ~queued)
  OBVIOUS
<1>2. /\ th.pc = "count"
      /\ UNCHANGED <<loopVars, stage, attempts, snapshot>>
  BY Zenon DEF Count
<1>3. /\ job' = [job EXCEPT ![t].remaining = @ - 1, ![t].done = @ \/ answers]
      /\ IF queued THEN Claim(t) ELSE UNCHANGED pendingVars
      /\ IF queued THEN Becomes(th, "pushing") /\ UNCHANGED active ELSE Leave({th})
      /\ IF answers THEN Answer(t, IF retries THEN "REJECTED" ELSE LastVerdict(t))
         ELSE UNCHANGED calls
  BY <1>0, <1>1, Zenon DEF Count
<1>4. TablesOK /\ QueueOK /\ ThreadsOK /\ ControlOK
  BY DEF DispatchInv
<1>5. /\ t \in Tasks /\ TaskOK(t) /\ job[t] \in Jobs /\ job[t].remaining > 0
      /\ calls[t] = IF job[t].done THEN <<"OK">> ELSE <<>>
      /\ ~In(t, items) /\ ~In(t, snapshot) /\ stage[t] = "submitted" /\ t \notin unpublished
  BY <1>0, <1>2, LiveTask
<1>6. /\ job[t].partials \in Seq(Statuses) /\ job[t].done \in BOOLEAN
      /\ job[t].remaining \in Nat
  BY <1>5 DEF Jobs
<1>7. PICK d, n : d = (job[t].done \/ answers) /\ n = job[t].remaining - 1
  OBVIOUS
<1>8. d \in BOOLEAN /\ n \in Nat
  <2>1. d \in BOOLEAN
    BY <1>7, Zenon
  <2>2. n \in Nat
    BY ONLY <1>5, <1>6, <1>7
  <2> QED BY <2>1, <2>2
<1>9. job' = [job EXCEPT ![t].remaining = n, ![t].done = d]
  BY <1>3, <1>7, Zenon
<1>10. /\ job' \in [Tasks -> Jobs] /\ job'[t].partials = job[t].partials /\ job'[t].done = d
       /\ job'[t].remaining = n
       /\ \A u \in Tasks : u # t => job'[u] = job[u]
  BY ONLY <1>4, <1>5, <1>6, <1>8, <1>9 DEF TablesOK, Jobs
<1>11. PICK final : final = IF retries THEN "REJECTED" ELSE LastVerdict(t)
  OBVIOUS
<1>12. calls \in [Tasks -> Seq(Statuses)]
  BY <1>4 DEF TablesOK
<1>13. ASSUME answers
       PROVE  /\ calls' = [calls EXCEPT ![t] = <<final>>] /\ final \in Statuses
              /\ final # "OK" /\ ~HasOk(t) /\ n = 0 /\ ~queued
  <2>1. decides /\ ~queued
    BY <1>1, <1>13, Zenon
  <2>2. job[t].remaining = 1 /\ ~job[t].done
    BY <1>1, <2>1, Zenon
  <2>3. calls[t] = <<>>
    BY <1>5, <2>2
  <2>4. /\ ~HasOk(t) /\ LastVerdict(t) \in {"MODEL_ERROR", "REJECTED", "RETRY", "TIMEOUT"}
    BY <1>5, <2>3, VerdictFacts
  <2>5. LastVerdict(t) = "RETRY" => retries
    BY <1>1, <2>1, Zenon
  <2>6. final \in Statuses /\ final # "OK"
    BY <1>11, <2>4, <2>5 DEF Statuses
  <2>7. calls' = [calls EXCEPT ![t] = Append(calls[t], final)]
    BY <1>3, <1>11, <1>13, Zenon DEF Answer
  <2>8. Append(<<>>, final) = <<final>>
    OBVIOUS
  <2> QED BY <1>7, <2>1, <2>2, <2>3, <2>4, <2>6, <2>7, <2>8
<1>14. ASSUME queued
       PROVE  /\ n = 0 /\ d = FALSE /\ calls[t] = <<>> /\ ~answers /\ ~HasOk(t)
              /\ attempts[t] < MaxAttempts[t] /\ ~Full
  <2>1. /\ job[t].remaining = 1 /\ ~job[t].done /\ LastVerdict(t) = "RETRY"
        /\ ~answers /\ ~Full
    BY <1>1, <1>14, Zenon
  <2>2. calls[t] = <<>>
    BY <1>5, <2>1
  <2> QED BY <1>5, <1>6, <1>7, <2>1, <2>2, VerdictFacts
<1>15. ASSUME ~answers
       PROVE  calls' = calls
  BY <1>3, <1>15, Zenon
<1>16. /\ calls' \in [Tasks -> Seq(Statuses)]
       /\ \A u \in Tasks : u # t => calls'[u] = calls[u]
       /\ ~answers => calls'[t] = calls[t]
       /\ answers => calls'[t] = <<final>> /\ Len(calls'[t]) = 1 /\ calls'[t] # <<>>
  <2>1. CASE answers
    <3>1. <<final>> \in Seq(Statuses)
      BY <1>13, <2>1
    <3>2. calls' = [calls EXCEPT ![t] = <<final>>]
      BY <1>13, <2>1, Zenon
    <3>3. /\ calls' \in [Tasks -> Seq(Statuses)]
          /\ \A u \in Tasks : u # t => calls'[u] = calls[u]
          /\ calls'[t] = <<final>> /\ Len(<<final>>) = 1 /\ <<final>> # <<>>
      BY <1>5, <1>12, <3>1, <3>2
    <3> QED BY <2>1, <3>3, Zenon
  <2>2. CASE ~answers
    BY <1>12, <1>15, <2>2
  <2> QED BY <2>1, <2>2
<1>17. TablesOK'
  BY <1>2, <1>4, <1>10, <1>16 DEF TablesOK
<1>18. ControlOK'
  <2>1. threads # {}
    OBVIOUS
  <2> QED BY <1>2, <1>4, <2>1 DEF ControlOK, loopVars
<1>19. CASE queued
  <2>1. /\ items' = Append(items, t) /\ unpublished' = unpublished \cup {t}
        /\ Becomes(th, "pushing") /\ active' = active
    BY <1>3, <1>19, Zenon DEF Claim
  <2>2. /\ items' \in Seq(Tasks) /\ Len(items') = Len(items) + 1 /\ Distinct(items')
        /\ \A u : In(u, items') <=> In(u, items) \/ u = t
    BY <1>4, <1>5, <2>1, AppendIn DEF QueueOK
  <2>3. Len(items') <= PendingCapacity
    BY <1>4, <1>14, <1>19, <2>2, DispatchAssumption DEF QueueOK, Full
  <2>4. QueueOK'
    BY <1>2, <1>4, <1>5, <2>1, <2>2, <2>3 DEF QueueOK, In
  <2>5. ThreadsOK'
    <3>1. /\ threads' \subseteq Threads /\ IsFiniteSet(threads')
          /\ Cardinality(threads') = Cardinality(threads)
          /\ \A a, b \in threads' : a.task = b.task /\ a.slot = b.slot => a = b
          /\ \A a \in threads' : a \in threads \/ (a.task = th.task /\ a.pc = "pushing")
          /\ \A u \in Tasks : u # th.task => Live(u)' = Live(u)
          /\ Cardinality(Live(th.task)') = Cardinality(Live(th.task)) - 1
      BY <1>2, <1>4, <2>1, BecomesFacts
    <3>2. ASSUME NEW u \in Tasks PROVE job'[u].remaining = Cardinality(Live(u)')
      BY <1>0, <1>4, <1>7, <1>10, <3>1 DEF ThreadsOK
    <3>3. \A a \in threads' : a.pc = "pushing" => a.task \in unpublished'
      BY <1>0, <1>4, <2>1, <3>1 DEF ThreadsOK
    <3> QED BY <1>4, <2>1, <3>1, <3>2, <3>3 DEF ThreadsOK
  <2>6. ASSUME NEW u \in Tasks PROVE TaskOK(u)'
    <3>1. CASE u = t
      <4>1. /\ Waits(t)' /\ ~In(t, snapshot)' /\ stage'[t] = "submitted"
            /\ calls'[t] = <<>> /\ job'[t].remaining = 0 /\ ~HasOk(t)'
            /\ attempts'[t] = attempts[t] /\ attempts[t] < MaxAttempts[t]
        BY <1>2, <1>5, <1>10, <1>14, <1>16, <1>19, <2>2 DEF Waits, In, HasOk
      <4> QED BY <1>5, <3>1, <4>1 DEF TaskOK
    <3>2. CASE u # t
      <4>1. Same(u)
        BY <1>2, <1>10, <1>16, <2>2, <3>2 DEF Same, In
      <4> QED BY <4>1, SameKeeps DEF DispatchInv
    <3> QED BY <3>1, <3>2
  <2> QED BY <1>17, <1>18, <2>4, <2>5, <2>6 DEF DispatchInv
<1>20. CASE ~queued
  <2>1. UNCHANGED <<items, unpublished>> /\ Leave({th})
    BY <1>3, <1>20, Zenon DEF pendingVars
  <2>2. QueueOK'
    BY <1>2, <1>4, <2>1 DEF QueueOK, In
  <2>3. ThreadsOK'
    <3>1. /\ threads' \subseteq threads /\ IsFiniteSet(threads')
          /\ active' = Cardinality(threads')
          /\ \A u \in Tasks : u # th.task => Live(u)' = Live(u)
          /\ Cardinality(Live(th.task)') = Cardinality(Live(th.task)) - 1
      BY <1>2, <1>4, <2>1, LeaveFacts
    <3>2. ASSUME NEW u \in Tasks PROVE job'[u].remaining = Cardinality(Live(u)')
      BY <1>0, <1>4, <1>7, <1>10, <3>1 DEF ThreadsOK
    <3> QED BY <1>4, <2>1, <3>1, <3>2 DEF ThreadsOK
  <2>4. ASSUME NEW u \in Tasks PROVE TaskOK(u)'
    <3>1. CASE u = t
      <4>1. /\ ~In(t, items)' /\ ~In(t, snapshot)' /\ ~Waits(t)' /\ stage'[t] = "submitted"
            /\ attempts'[t] = attempts[t] /\ (HasOk(t)' <=> HasOk(t))
            /\ job'[t].remaining = n /\ job'[t].done = d
        BY <1>2, <1>5, <1>10, <2>1 DEF Waits, In, HasOk
      <4>2. CASE answers
        BY <1>5, <1>13, <1>16, <3>1, <4>1, <4>2 DEF TaskOK
      <4>3. CASE ~answers
        <5>1. calls'[t] = calls[t] /\ d = job[t].done
          BY <1>6, <1>7, <1>16, <4>3
        <5>2. n = 0 => job[t].done
          <6>1. n = 0 => job[t].remaining = 1
            BY <1>6, <1>7
          <6>2. ~decides
            BY <1>1, <1>20, <4>3, Zenon
          <6>3. ~(job[t].remaining = 1 /\ ~job[t].done)
            BY <1>1, <6>2, Zenon
          <6> QED BY <6>1, <6>3, Zenon
        <5>3. calls'[t] = <<>> => n > 0
          <6>1. <<"OK">> # <<>>
            OBVIOUS
          <6>2. calls[t] = <<>> => ~job[t].done
            BY <1>5, <6>1
          <6>3. calls[t] = <<>> => n # 0
            BY <5>2, <6>2, Zenon
          <6> QED BY <1>8, <5>1, <6>3
        <5>4. n > 0 => calls'[t] = IF d THEN <<"OK">> ELSE <<>>
          BY <1>5, <5>1
        <5> QED BY <1>5, <3>1, <4>1, <5>1, <5>3, <5>4 DEF TaskOK
      <4> QED BY <4>2, <4>3
    <3>2. CASE u # t
      <4>1. Same(u)
        BY <1>2, <1>10, <1>16, <2>1, <3>2 DEF Same, In
      <4> QED BY <4>1, SameKeeps DEF DispatchInv
    <3> QED BY <3>1, <3>2
  <2> QED BY <1>17, <1>18, <2>2, <2>3, <2>4 DEF DispatchInv
<1> QED BY <1>19, <1>20
-----------------------------------------------------------------------------
(* Theorems *)

LEMMA DispatchStep ==
  ASSUME DispatchInv, [DispatchNext]_dispatchVars
  PROVE  DispatchInv'
<1>1. ASSUME NEW s \in Slots, Registry(s) PROVE DispatchInv'
  BY <1>1, RegistryStep
<1>2. ASSUME NEW t \in Tasks, Submit(t) \/ Publish(t) PROVE DispatchInv'
  BY <1>2, SubmitStep, PublishStep
<1>3. CASE Start \/ Stop \/ StopJoined \/ StopReturns
  BY <1>3, OwnerStep
<1>4. CASE LoopStep
  BY <1>4, LoopTurns, DrainOneStep, AssignStep DEF LoopStep
<1>5. ASSUME NEW th \in threads, Transport(th) \/ Count(th) PROVE DispatchInv'
  BY <1>5, TransportFailsStep, TransportAnswersStep, CountStep DEF Transport
<1>6. CASE UNCHANGED dispatchVars
  <2>1. UNCHANGED <<pendingVars, taskVars>> /\ UNCHANGED loopVars
    BY <1>6 DEF dispatchVars
  <2>2. ControlOK'
    BY <2>1 DEF DispatchInv, ControlOK, loopVars, taskVars
  <2> QED BY <2>1, <2>2, OthersStep
<1> QED BY <1>1, <1>2, <1>3, <1>4, <1>5, <1>6 DEF DispatchNext

\* A task waits, is asked about or is answered, and its counters agree with its threads,
\* whatever submit, run_loop, the dispatch threads and stop do in whatever order.
THEOREM DispatchInvariant == DispatchSpec => []DispatchInv
<1> QED BY DispatchInitInv, DispatchStep, PTL DEF DispatchSpec

LEMMA OnePlace ==
  ASSUME DispatchInv, NEW t \in Tasks, stage[t] = "submitted", calls[t] = <<>>
  PROVE  Cardinality(Places(t)) = 1
<1>1. /\ ~(In(t, items) /\ In(t, snapshot))
      /\ Waits(t) => job[t].remaining = 0
      /\ Waits(t) \/ job[t].remaining > 0
  BY DEF DispatchInv, TaskOK
<1>2. job[t].remaining \in Nat
  BY DEF DispatchInv, TablesOK, Jobs
<1>3. \E p : Places(t) = {p}
  <2>1. CASE In(t, items)
    <3>1. Places(t) = {"queue"}
      BY <1>1, <1>2, <2>1 DEF Places, Waits
    <3> QED BY <3>1
  <2>2. CASE In(t, snapshot)
    <3>1. Places(t) = {"snapshot"}
      BY <1>1, <1>2, <2>2 DEF Places, Waits
    <3> QED BY <3>1
  <2>3. CASE ~Waits(t)
    <3>1. Places(t) = {"threads"}
      BY <1>1, <1>2, <2>3 DEF Places, Waits
    <3> QED BY <3>1
  <2> QED BY <2>1, <2>2, <2>3 DEF Waits
<1> QED BY <1>3, FS_Singleton

\* Every task has one verdict, and it is the best there was; nothing loses a task on the
\* way (complete_task_if_first, dispatch_one_slot, submit, dispatch_pending, stop).
THEOREM VerdictsSound == DispatchSpec => []VerdictsAreSound
<1>1. ASSUME DispatchInv PROVE VerdictsAreSound
  <2>1. DispatchTypeOK
    <3>1. \A t \in unpublished : \E i \in DOMAIN items : items[i] = t
      BY <1>1 DEF DispatchInv, QueueOK, In
    <3>2. \A t \in Tasks : /\ attempts[t] \in Nat
                           /\ attempts[t] <= 1 \/ attempts[t] <= MaxAttempts[t]
      BY <1>1 DEF DispatchInv, TablesOK, TaskOK
    <3>3. \A t \in Tasks : job[t].remaining =
            Cardinality({th \in threads : th.task = t /\ th.pc # "pushing"})
      BY <1>1 DEF DispatchInv, ThreadsOK, Live
    <3> QED BY <1>1, <3>1, <3>2, <3>3 DEF DispatchInv, QueueOK, ThreadsOK, DispatchTypeOK
  <2>2. AnsweredOnce
    <3>1. ASSUME NEW t \in Tasks, calls[t] # <<>>
          PROVE  Len(calls[t]) = 1 /\ ~In(t, items) /\ ~In(t, snapshot)
      BY <1>1, <3>1 DEF DispatchInv, TaskOK, Waits
    <3>2. ASSUME NEW t \in Tasks, stage[t] = "submitted", calls[t] = <<>>
          PROVE  Cardinality(Places(t)) = 1
      BY <1>1, <3>2, OnePlace
    <3> QED BY <3>1, <3>2 DEF AnsweredOnce
  <2>3. OkWins
    BY <1>1 DEF DispatchInv, TaskOK, HasOk, OkWins
  <2> QED BY <2>1, <2>2, <2>3 DEF VerdictsAreSound
<1> QED BY <1>1, DispatchInvariant, PTL

\* When stop() has returned, no loop and no dispatch thread runs any more.
THEOREM StopIsFinal == DispatchSpec => []QuietAfterStop
<1>1. ASSUME DispatchInv PROVE QuietAfterStop
  BY <1>1 DEF DispatchInv, ControlOK, QuietAfterStop
<1> QED BY <1>1, DispatchInvariant, PTL

-----------------------------------------------------------------------------
(* Remainders; products and remainders are named to keep them whole *)

Times(m, q) == m * q
Rem(a, m) == a % m

LEMMA TimesInt ==
  ASSUME NEW m \in Int, NEW p \in Int
  PROVE  Times(m, p) \in Int
BY DEF Times

LEMMA TimesPlus ==
  ASSUME NEW m \in Int, NEW p \in Int, NEW q \in Int
  PROVE  Times(m, p + q) = Times(m, p) + Times(m, q)
BY DEF Times

LEMMA TimesSign ==
  ASSUME NEW m \in Int, m > 0, NEW p \in Int
  PROVE  /\ p = 0 => Times(m, p) = 0
         /\ p > 0 => Times(m, p) >= m
         /\ p < 0 => Times(m, p) < 0
BY DEF Times

LEMMA TimesTimes ==
  ASSUME NEW c \in Int, NEW k \in Int, NEW q \in Int
  PROVE  /\ Times(c, k) \in Int /\ Times(k, q) \in Int
         /\ Times(Times(c, k), q) = Times(c, Times(k, q))
BY DEF Times

LEMMA RemIs ==
  ASSUME NEW m \in Int, m > 0, NEW q \in Int, NEW r \in Int, 0 <= r, r < m
  PROVE  Rem(Times(m, q) + r, m) = r
BY DEF Times, Rem

LEMMA RemOf ==
  ASSUME NEW m \in Int, m > 0, NEW a \in Int
  PROVE  /\ Rem(a, m) \in Int /\ 0 <= Rem(a, m) /\ Rem(a, m) < m
         /\ \E q \in Int : a = Times(m, q) + Rem(a, m)
<1>1. a % m \in Int /\ 0 <= a % m /\ a % m < m
  OBVIOUS
<1>2. a = m * (a \div m) + (a % m)
  OBVIOUS
<1>3. a \div m \in Int
  OBVIOUS
<1> QED BY <1>1, <1>2, <1>3 DEF Times, Rem

LEMMA Split ==
  ASSUME NEW m \in Int, m > 0, NEW a \in Int
  PROVE  \E r \in Int, q \in Int : 0 <= r /\ r < m /\ r = Rem(a, m) /\ a = Times(m, q) + r
<1>1. /\ Rem(a, m) \in Int /\ 0 <= Rem(a, m) /\ Rem(a, m) < m
      /\ \E q \in Int : a = Times(m, q) + Rem(a, m)
  BY RemOf
<1>2. PICK r \in Int : r = Rem(a, m)
  BY <1>1
<1> QED BY ONLY <1>1, <1>2

LEMMA RemPlus ==
  ASSUME NEW m \in Int, m > 0, NEW a \in Int, NEW k \in Int
  PROVE  Rem(a + Times(m, k), m) = Rem(a, m)
<1>1. PICK r \in Int, q \in Int : 0 <= r /\ r < m /\ r = Rem(a, m) /\ a = Times(m, q) + r
  BY Split
<1>2. a + Times(m, k) = Times(m, q + k) + r
  <2>1. Times(m, q + k) = Times(m, q) + Times(m, k)
    BY TimesPlus
  <2>2. Times(m, q) \in Int /\ Times(m, k) \in Int
    BY TimesInt
  <2> QED BY <1>1, <2>1, <2>2
<1>3. PICK z \in Int : z = q + k
  OBVIOUS
<1> QED BY <1>1, <1>2, <1>3, RemIs

LEMMA RemApart ==
  ASSUME NEW m \in Int, m > 0, NEW x \in Int, NEW y \in Int, x <= y, y < x + m,
         Rem(x, m) = Rem(y, m)
  PROVE  x = y
<1>1. PICK s \in Int, p \in Int : 0 <= s /\ s < m /\ s = Rem(x, m) /\ x = Times(m, p) + s
  BY RemOf
<1>2. PICK q \in Int : y = Times(m, q) + s
  BY <1>1, RemOf
<1>3. PICK d \in Int : q = p + d
  <2>1. q - p \in Int /\ q = p + (q - p)
    OBVIOUS
  <2> QED BY <2>1
<1>4. /\ Times(m, q) = Times(m, p) + Times(m, d) /\ Times(m, p) \in Int /\ Times(m, d) \in Int
      /\ (d = 0 => Times(m, d) = 0) /\ (d > 0 => Times(m, d) >= m)
      /\ (d < 0 => Times(m, d) < 0)
  <2>1. Times(m, p + d) = Times(m, p) + Times(m, d)
    BY TimesPlus
  <2>2. Times(m, p) \in Int /\ Times(m, d) \in Int
    BY TimesInt
  <2>3. /\ d = 0 => Times(m, d) = 0
        /\ d > 0 => Times(m, d) >= m
        /\ d < 0 => Times(m, d) < 0
    BY TimesSign
  <2> QED BY <1>3, <2>1, <2>2, <2>3
<1> QED BY <1>1, <1>2, <1>4

-----------------------------------------------------------------------------
(* Positions, on the line of all the pushes and pops there ever were *)

At(x) == Rem(x, Modulus)
Half == Modulus \div 2

LEMMA Sizes ==
  /\ Capacity \in Nat /\ Capacity >= 2 /\ Modulus \in Nat /\ Half \in Nat
  /\ Half >= 2 * Capacity /\ Modulus >= 2 * Half
<1>1. /\ Capacity \in Nat /\ Capacity >= 2 /\ Modulus \in Nat /\ Modulus >= 4 * Capacity
  BY QueueAssumption
<1>2. PICK c \in Nat, m \in Nat : c = Capacity /\ m = Modulus /\ c >= 2 /\ m >= 4 * c
  BY <1>1
<1>3. m \div 2 \in Nat /\ m \div 2 >= 2 * c /\ m >= 2 * (m \div 2)
  BY <1>2
<1> QED BY <1>1, <1>2, <1>3 DEF Half

LEMMA CellIs == \A x : Cell(x) = Rem(x, Capacity)
BY DEF Cell, Rem

LEMMA PlusIs == \A x, n : Plus(x, n) = Rem(x + n, Modulus)
BY DEF Plus, Rem

LEMMA PlaceIs ==
  ASSUME NEW x \in Nat
  PROVE  At(x) \in Positions /\ Cell(x) \in 0..(Capacity - 1)
<1>1. PICK m \in Int, c \in Int : m = Modulus /\ c = Capacity /\ m > 0 /\ c > 0
  BY Sizes
<1>2. x \in Int
  OBVIOUS
<1>3. Rem(x, m) \in Int /\ 0 <= Rem(x, m) /\ Rem(x, m) < m
  BY <1>1, <1>2, RemOf
<1>4. Rem(x, c) \in Int /\ 0 <= Rem(x, c) /\ Rem(x, c) < c
  BY <1>1, <1>2, RemOf
<1> QED BY <1>1, <1>3, <1>4, CellIs DEF At, Positions

LEMMA CellAt ==
  ASSUME NEW x \in Nat
  PROVE  Cell(At(x)) = Cell(x)
<1>0. x \in Int
  OBVIOUS
<1>1. PICK c \in Int, m \in Int : c = Capacity /\ m = Modulus /\ c > 0 /\ m > 0 /\ Rem(m, c) = 0
  BY Sizes, QueueAssumption DEF Rem
<1>2. PICK k \in Int : m = Times(c, k)
  <2>1. PICK k \in Int : m = Times(c, k) + 0
    BY <1>1, RemOf
  <2> QED BY <1>1, <2>1, TimesInt
<1>3. PICK r \in Int, q \in Int : 0 <= r /\ r < m /\ r = Rem(x, m) /\ x = Times(m, q) + r
  BY <1>0, <1>1, Split
<1>4. PICK z \in Int : Times(m, q) = Times(c, z)
  <2>1. c \in Int
    BY <1>1
  <2> QED BY <1>2, <2>1, TimesTimes
<1>5. x = r + Times(c, z)
  <2>1. PICK u \in Int : u = Times(m, q)
    BY <1>1, TimesInt
  <2>2. x = u + r
    BY <1>3, <2>1
  <2>3. x = r + u
    BY <2>2
  <2> QED BY <1>4, <2>1, <2>3
<1>6. Rem(r + Times(c, z), c) = Rem(r, c)
  BY <1>1, RemPlus
<1> QED BY <1>1, <1>3, <1>5, <1>6, CellIs DEF At

LEMMA PlusAt ==
  ASSUME NEW x \in Nat, NEW n \in Nat
  PROVE  Plus(At(x), n) = At(x + n)
<1>0. x \in Int
  OBVIOUS
<1>1. PICK m \in Int : m = Modulus /\ m > 0
  BY Sizes
<1>2. PICK r \in Int, q \in Int : 0 <= r /\ r < m /\ r = Rem(x, m) /\ x = Times(m, q) + r
  BY <1>0, <1>1, Split
<1>3. PICK a \in Int : a = r + n
  OBVIOUS
<1>4. x + n = a + Times(m, q)
  <2>1. PICK u \in Int : u = Times(m, q)
    BY <1>1, TimesInt
  <2>2. x = u + r
    BY <1>2, <2>1
  <2>3. x + n = a + u
    BY <1>3, <2>2
  <2> QED BY <2>1, <2>3
<1>5. Rem(a + Times(m, q), m) = Rem(a, m)
  BY <1>1, RemPlus
<1> QED BY <1>1, <1>2, <1>3, <1>4, <1>5, PlusIs DEF At

LEMMA SameAt ==
  ASSUME NEW x \in Nat, NEW y \in Nat, At(x) = At(y), x < y + Modulus, y < x + Modulus
  PROVE  x = y
<1>1. PICK m \in Int : m = Modulus /\ m > 0
  BY Sizes
<1> QED BY <1>1, RemApart DEF At

LEMMA SameCell ==
  ASSUME NEW x \in Nat, NEW y \in Nat, Cell(x) = Cell(y), x < y + Capacity, y < x + Capacity
  PROVE  x = y
<1>1. PICK m \in Int : m = Capacity /\ m > 0
  BY Sizes
<1> QED BY <1>1, RemApart, CellIs

LEMMA ApartAt ==
  ASSUME NEW x \in Nat, NEW y \in Nat, NEW n \in Int,
         y - x + n >= 0, y - x + n < Modulus
  PROVE  Rem(At(y) - At(x) + n, Modulus) = y - x + n
<1>0. x \in Int /\ y \in Int
  OBVIOUS
<1>1. PICK m \in Int : m = Modulus /\ m > 0
  BY Sizes
<1>2. PICK r \in Int, q \in Int : 0 <= r /\ r < m /\ r = Rem(x, m) /\ x = Times(m, q) + r
  BY <1>0, <1>1, Split
<1>3. PICK s \in Int, p \in Int : 0 <= s /\ s < m /\ s = Rem(y, m) /\ y = Times(m, p) + s
  BY <1>0, <1>1, Split
<1>4. PICK d \in Int, a \in Int : 0 <= d /\ d < m /\ d = y - x + n /\ a = s - r + n
  BY <1>1
<1>5. PICK z \in Int : q = p + z
  <2>1. q - p \in Int /\ q = p + (q - p)
    OBVIOUS
  <2> QED BY <2>1
<1>6. /\ Times(m, q) = Times(m, p) + Times(m, z)
      /\ Times(m, p) \in Int /\ Times(m, z) \in Int /\ Times(m, q) \in Int
  <2>1. Times(m, p + z) = Times(m, p) + Times(m, z)
    BY <1>1, TimesPlus
  <2>2. Times(m, p) \in Int /\ Times(m, z) \in Int /\ Times(m, q) \in Int
    BY <1>1, TimesInt
  <2> QED BY <1>5, <2>1, <2>2
<1>7. a = Times(m, z) + d
  <2>1. PICK u \in Int, v \in Int, w \in Int :
          u = Times(m, q) /\ v = Times(m, p) /\ w = Times(m, z)
    BY <1>6
  <2>2. u = v + w /\ x = u + r /\ y = v + s
    BY <1>2, <1>3, <1>6, <2>1
  <2>3. a = w + d
    BY <1>4, <2>2
  <2> QED BY <2>1, <2>3
<1>8. Rem(Times(m, z) + d, m) = d
  BY <1>1, <1>4, RemIs
<1> QED BY <1>1, <1>2, <1>3, <1>4, <1>7, <1>8 DEF At

\* The signed difference the code computes is the true one, when it is small.
LEMMA DiffAt ==
  ASSUME NEW s \in Nat, NEW p \in Nat, s - p < Half, p - s <= Half
  PROVE  Diff(At(s), At(p)) = s - p
<1>1. s - p + Half >= 0 /\ s - p + Half < Modulus /\ Half \in Int
  BY Sizes
<1>2. Rem(At(s) - At(p) + Half, Modulus) = s - p + Half
  BY <1>1, ApartAt
<1>3. Diff(At(s), At(p)) = Rem(At(s) - At(p) + Half, Modulus) - Half
  BY DEF Diff, Half, Rem
<1> QED BY <1>1, <1>2, <1>3

\* In every window of Capacity positions, each cell has its place.
LEMMA WindowHas ==
  ASSUME NEW p \in Nat, NEW tl \in Nat
  PROVE  \E x \in tl..(tl + Capacity - 1) : Cell(x) = Cell(p)
<1>1. PICK c \in Int : c = Capacity /\ c > 0
  BY Sizes
<1>2. PICK a \in Int : a = p - tl
  OBVIOUS
<1>3. PICK r \in Int, q \in Int : 0 <= r /\ r < c /\ r = Rem(a, c) /\ a = Times(c, q) + r
  BY <1>1, Split
<1>4. PICK x \in Int : x = tl + r
  OBVIOUS
<1>5. x \in tl..(tl + c - 1)
  <2>1. 0 <= r /\ r < c
    BY <1>3
  <2> QED BY <1>4, <2>1
<1>6. p = x + Times(c, q)
  <2>1. PICK u \in Int : u = Times(c, q)
    BY <1>1, TimesInt
  <2>2. a = u + r
    BY <1>3, <2>1
  <2>3. p = x + u
    BY <1>2, <1>4, <2>2
  <2> QED BY <2>1, <2>3
<1>7. Rem(x + Times(c, q), c) = Rem(x, c)
  BY <1>1, RemPlus
<1> QED BY <1>1, <1>5, <1>6, <1>7, CellIs

-----------------------------------------------------------------------------
(* Where the queue stands: h pushes claimed, tl items popped, ps[t] the place
   the push of t loaded *)

PushPcs == {"idle", "read", "claim", "store", "full"}

QueueTyped ==
  /\ push \in [Producers -> [pc : PushPcs, pos : Positions]]
  /\ cells \in [0..(Capacity - 1) -> [seq : Positions, value : Producers \cup {Empty}]]

EndsStand(h, tl) == head = At(h) /\ tail = At(tl) /\ tl <= h /\ h <= tl + Capacity

PushStands(h, tl, ps, t) ==
  /\ push[t].pc # "idle" => push[t].pos = At(ps[t])
  /\ push[t].pc \in {"read", "claim"} => ps[t] <= h /\ h - ps[t] + Capacity + 1 <= Half
  /\ push[t].pc = "claim" => ps[t] < tl + Capacity
  /\ push[t].pc = "store" => tl <= ps[t] /\ ps[t] < h

StoresAt(ps, t, x) == push[t].pc = "store" /\ ps[t] = x

OneStores(ps) ==
  \A t, u \in Producers : StoresAt(ps, t, ps[t]) /\ StoresAt(ps, u, ps[t]) => t = u

CellStands(h, ps, x) ==
  cells[Cell(x)].seq =
    IF x >= h \/ \E t \in Producers : StoresAt(ps, t, x) THEN At(x) ELSE At(x + 1)

CellsStand(h, tl, ps) == \A x \in Nat : tl <= x /\ x < tl + Capacity => CellStands(h, ps, x)

Stands(h, tl, ps) ==
  /\ QueueTyped
  /\ EndsStand(h, tl)
  /\ \A t \in Producers : PushStands(h, tl, ps, t)
  /\ OneStores(ps)
  /\ CellsStand(h, tl, ps)

QueueStands == \E h \in Nat, tl \in Nat, ps \in [Producers -> Nat] : Stands(h, tl, ps)

QueueSteps == Fifo!Next \/ (Queued' = Queued /\ Phase' = Phase)

-----------------------------------------------------------------------------
(* What a queue in this state holds *)

LEMMA HolderStores ==
  ASSUME NEW pushes, NEW slots_, NEW pos, NEW t \in Producers,
         pushes[t] = Calling("store", pos),
         \A u \in Producers : pushes[u] = Calling("store", pos) => u = t
  PROVE  Holder(pushes, slots_, pos) = t
<1>1. Storing(pushes, pos) = {t}
  BY DEF Storing
<1>2. (CHOOSE u \in {t} : TRUE) = t /\ {t} # {}
  OBVIOUS
<1> QED BY <1>1, <1>2 DEF Holder

LEMMA HolderStored ==
  ASSUME NEW pushes, NEW slots_, NEW pos,
         \A u \in Producers : pushes[u] # Calling("store", pos)
  PROVE  Holder(pushes, slots_, pos) = slots_[Cell(pos)].value
<1>1. Storing(pushes, pos) = {}
  BY DEF Storing
<1> QED BY <1>1 DEF Holder

LEMMA HolderSame ==
  ASSUME NEW pushes, NEW pushes2, NEW slots_, NEW slots2, NEW pos,
         \A u \in Producers :
           pushes[u] = Calling("store", pos) <=> pushes2[u] = Calling("store", pos),
         slots_[Cell(pos)].value = slots2[Cell(pos)].value
  PROVE  Holder(pushes, slots_, pos) = Holder(pushes2, slots2, pos)
<1>1. Storing(pushes, pos) = Storing(pushes2, pos)
  BY DEF Storing
<1> QED BY <1>1 DEF Holder

LEMMA ClaimedAre ==
  ASSUME NEW h \in Nat, NEW tl \in Nat, tl <= h, h <= tl + Capacity
  PROVE  /\ (At(h) - At(tl)) % Modulus = h - tl
         /\ \A i \in 1..(h - tl) : Plus(At(tl), i - 1) = At(tl + i - 1)
<1>1. Rem(At(h) - At(tl) + 0, Modulus) = h - tl + 0
  BY Sizes, ApartAt
<1>2. At(h) \in Int /\ At(tl) \in Int
  BY PlaceIs, Sizes DEF Positions
<1>3. At(h) - At(tl) + 0 = At(h) - At(tl) /\ h - tl + 0 = h - tl
  BY <1>2
<1>4. ASSUME NEW i \in 1..(h - tl)
      PROVE  Plus(At(tl), i - 1) = At(tl + i - 1)
  <2>1. PICK n \in Nat : n = i - 1
    OBVIOUS
  <2>2. Plus(At(tl), n) = At(tl + n)
    BY PlusAt
  <2>3. tl + n = tl + i - 1
    BY <2>1
  <2> QED BY <2>1, <2>2, <2>3
<1> QED BY <1>1, <1>3, <1>4 DEF Rem

\* The items, place by place.
Items(pushes, slots_, h, tl) == [i \in 1..(h - tl) |-> Holder(pushes, slots_, At(tl + i - 1))]

LEMMA QueuedAre ==
  ASSUME NEW h \in Nat, NEW tl \in Nat, EndsStand(h, tl)
  PROVE  Queued = Items(push, cells, h, tl)
BY ClaimedAre DEF Queued, Items, EndsStand

LEMMA QueuedWillBe ==
  ASSUME NEW h \in Nat, NEW tl \in Nat, EndsStand(h, tl)'
  PROVE  Queued' = Items(push', cells', h, tl)
BY ClaimedAre DEF Queued, Items, EndsStand

LEMMA ItemsAre ==
  ASSUME NEW pushes, NEW slots_, NEW h \in Nat, NEW tl \in Nat, tl <= h
  PROVE  /\ Len(Items(pushes, slots_, h, tl)) = h - tl
         /\ DOMAIN Items(pushes, slots_, h, tl) = 1..(h - tl)
         /\ \A i \in 1..(h - tl) :
              Items(pushes, slots_, h, tl)[i] = Holder(pushes, slots_, At(tl + i - 1))
<1>1. PICK n \in Nat : n = h - tl
  OBVIOUS
<1>2. Len([i \in 1..n |-> Holder(pushes, slots_, At(tl + i - 1))]) = n
  OBVIOUS
<1> QED BY <1>1, <1>2 DEF Items

\* A push of t from one phase to another.
LEMMA PhaseStep ==
  ASSUME NEW t \in Producers, NEW call, QueueTyped, push' = [push EXCEPT ![t] = call]
  PROVE  /\ Phase' = [Phase EXCEPT ![t] = PhaseOf(call.pc)]
         /\ Phase[t] = PhaseOf(push[t].pc)
         /\ push' \in [Producers -> {push[u] : u \in Producers} \cup {call}]
         /\ push'[t] = call /\ \A u \in Producers : u # t => push'[u] = push[u]
<1>1. /\ push'[t] = call /\ \A u \in Producers : u # t => push'[u] = push[u]
      /\ push' \in [Producers -> {push[u] : u \in Producers} \cup {call}]
  BY DEF QueueTyped
<1>2. Phase' = [u \in Producers |-> PhaseOf(push'[u].pc)]
  BY DEF Phase
<1>3. Phase' = [Phase EXCEPT ![t] = PhaseOf(call.pc)]
  BY <1>1, <1>2 DEF Phase
<1> QED BY <1>1, <1>3 DEF Phase

LEMMA PhaseMoves ==
  ASSUME NEW t \in Producers, NEW pc, NEW pos, QueueTyped,
         push' = [push EXCEPT ![t] = Calling(pc, pos)]
  PROVE  Phase' = [Phase EXCEPT ![t] = PhaseOf(pc)] /\ Phase[t] = PhaseOf(push[t].pc)
<1>1. Calling(pc, pos).pc = pc
  BY DEF Calling
<1>2. PICK call : call = Calling(pc, pos)
  OBVIOUS
<1>3. Phase' = [Phase EXCEPT ![t] = PhaseOf(call.pc)] /\ Phase[t] = PhaseOf(push[t].pc)
  BY <1>2, PhaseStep
<1> QED BY <1>1, <1>2, <1>3

LEMMA PhasesApart ==
  /\ PhaseOf("idle") = "idle" /\ PhaseOf("read") = "trying" /\ PhaseOf("claim") = "trying"
  /\ PhaseOf("store") = "in" /\ PhaseOf("full") = "full"
BY DEF PhaseOf

-----------------------------------------------------------------------------
(* The steps of a push *)

\* A step that moves one push and neither end of the queue nor its cells, to a phase
\* where it stands well, leaves the items as they are.
LEMMA PushMoves ==
  ASSUME NEW h \in Nat, NEW tl \in Nat, NEW ps \in [Producers -> Nat], Stands(h, tl, ps),
         NEW t \in Producers, NEW pc \in PushPcs, NEW p \in Nat,
         push' = [push EXCEPT ![t] = Calling(pc, At(p))], UNCHANGED <<cells, head, tail>>,
         push[t].pc # "store", pc # "store",
         pc \in {"read", "claim"} => p <= h /\ h - p + Capacity + 1 <= Half,
         pc = "claim" => p < tl + Capacity
  PROVE  QueueStands' /\ Queued' = Queued
<1> DEFINE ps2 == [ps EXCEPT ![t] = p]
<1>1. PICK q \in [Producers -> Nat] : q = ps2
  OBVIOUS
<1>2. q[t] = p /\ \A u \in Producers : u # t => q[u] = ps[u]
  BY <1>1
<1> HIDE DEF ps2
<1>3. QueueTyped /\ EndsStand(h, tl)
  BY DEF Stands
<1>4. /\ push'[t] = Calling(pc, At(p)) /\ \A u \in Producers : u # t => push'[u] = push[u]
      /\ push' \in [Producers -> {push[u] : u \in Producers} \cup {Calling(pc, At(p))}]
  BY <1>3, PhaseStep
<1>5. push'[t].pc = pc /\ push'[t].pos = At(p)
  BY <1>4 DEF Calling
<1>6. QueueTyped'
  <2>1. Calling(pc, At(p)) \in [pc : PushPcs, pos : Positions]
    BY PlaceIs DEF Calling
  <2> QED BY <1>3, <1>4, <2>1 DEF QueueTyped
<1>7. EndsStand(h, tl)'
  BY <1>3 DEF EndsStand
<1>8. ASSUME NEW u \in Producers
      PROVE  PushStands(h, tl, q, u)'
  <2>1. PushStands(h, tl, ps, u)
    BY DEF Stands
  <2>2. CASE u = t
    BY <1>2, <1>5, <2>2 DEF PushStands
  <2>3. CASE u # t
    BY <1>2, <1>4, <2>1, <2>3 DEF PushStands
  <2> QED BY <2>2, <2>3
<1>9. \A u \in Producers : \A x : StoresAt(q, u, x)' <=> StoresAt(ps, u, x)
  BY <1>2, <1>4, <1>5 DEF StoresAt
<1>10. OneStores(q)'
  <2>1. ASSUME NEW u \in Producers, NEW w \in Producers,
               StoresAt(q, u, q[u])', StoresAt(q, w, q[w])', q[u] = q[w]
        PROVE  u = w
    <3>1. StoresAt(ps, u, q[u]) /\ StoresAt(ps, w, q[u])
      BY <1>9, <2>1
    <3>2. StoresAt(ps, u, ps[u]) /\ StoresAt(ps, w, ps[u])
      BY <3>1 DEF StoresAt
    <3> QED BY <3>2 DEF Stands, OneStores, StoresAt
  <2> QED BY <2>1 DEF OneStores, StoresAt
<1>11. CellsStand(h, tl, q)'
  <2>1. ASSUME NEW x \in Nat, tl <= x, x < tl + Capacity
        PROVE  CellStands(h, q, x)'
    <3>1. CellStands(h, ps, x)
      BY <2>1 DEF Stands, CellsStand
    <3> QED BY <1>9, <3>1 DEF CellStands
  <2> QED BY <2>1 DEF CellsStand
<1>12. QueueStands'
  BY <1>6, <1>7, <1>8, <1>10, <1>11 DEF QueueStands, Stands
<1>13. Queued' = Queued
  <2>1. Queued = Items(push, cells, h, tl) /\ Queued' = Items(push', cells, h, tl)
    BY <1>3, <1>7, QueuedAre, QueuedWillBe
  <2>2. ASSUME NEW pos
        PROVE  Holder(push, cells, pos) = Holder(push', cells, pos)
    <3>1. push[t] # Calling("store", pos) /\ push'[t] # Calling("store", pos)
      BY <1>5 DEF Calling
    <3>2. \A u \in Producers : push[u] = Calling("store", pos) <=> push'[u] = Calling("store", pos)
      BY <1>4, <3>1
    <3> QED BY ONLY <3>2, HolderSame
  <2>3. cells' = cells
    OBVIOUS
  <2> QED BY <2>1, <2>2, <2>3 DEF Items
<1> QED BY <1>12, <1>13

\* A push loads the head.
LEMMA LoadStep ==
  ASSUME NEW h \in Nat, NEW tl \in Nat, NEW ps \in [Producers -> Nat], Stands(h, tl, ps),
         NEW t \in Producers, PushLoad(t)
  PROVE  QueueStands' /\ QueueSteps
<1>1. /\ push[t].pc = "idle" /\ push' = [push EXCEPT ![t] = Calling("read", At(h))]
      /\ UNCHANGED <<cells, head, tail>>
  BY DEF PushLoad, Stands, EndsStand
<1>2. h <= h /\ h - h + Capacity + 1 <= Half /\ "read" \in PushPcs
  BY Sizes DEF PushPcs
<1>3. QueueStands' /\ Queued' = Queued
  BY <1>1, <1>2, PushMoves
<1>4. Phase' = [Phase EXCEPT ![t] = "trying"] /\ Phase[t] = "idle"
  <2>1. QueueTyped
    BY DEF Stands
  <2>2. Phase' = [Phase EXCEPT ![t] = PhaseOf("read")] /\ Phase[t] = PhaseOf(push[t].pc)
    BY <1>1, <2>1, PhaseMoves
  <2> QED BY <1>1, <2>2, PhasesApart
<1> QED BY <1>3, <1>4 DEF QueueSteps, Fifo!Next, Fifo!Try

\* A refused push returns.
LEMMA RefusedStep ==
  ASSUME NEW h \in Nat, NEW tl \in Nat, NEW ps \in [Producers -> Nat], Stands(h, tl, ps),
         NEW t \in Producers, PushRefused(t)
  PROVE  QueueStands' /\ QueueSteps
<1>1. At(0) = 0
  BY Sizes DEF At, Rem
<1>2. /\ push[t].pc = "full" /\ push' = [push EXCEPT ![t] = Calling("idle", At(0))]
      /\ UNCHANGED <<cells, head, tail>>
  BY <1>1 DEF PushRefused, NoCall
<1>3. "idle" \in PushPcs
  BY DEF PushPcs
<1>4. QueueStands' /\ Queued' = Queued
  BY <1>2, <1>3, PushMoves
<1>5. Phase' = [Phase EXCEPT ![t] = "idle"] /\ Phase[t] = "full"
  <2>1. QueueTyped
    BY DEF Stands
  <2>2. Phase' = [Phase EXCEPT ![t] = PhaseOf("idle")] /\ Phase[t] = PhaseOf(push[t].pc)
    BY <1>2, <2>1, PhaseMoves
  <2> QED BY <1>2, <2>2, PhasesApart
<1> QED BY <1>4, <1>5 DEF QueueSteps, Fifo!Next, Fifo!Return

\* What a push that loaded place p finds: a cell of the window, by its true distance.
LEMMA ReadFinds ==
  ASSUME NEW h \in Nat, NEW tl \in Nat, NEW ps \in [Producers -> Nat], Stands(h, tl, ps),
         NEW t \in Producers, push[t].pc = "read", NEW p \in Nat, p = ps[t]
  PROVE  LET diff == Diff(cells[Cell(At(p))].seq, At(p)) IN
         /\ diff \in Int
         /\ diff = 0 => p < tl + Capacity
         /\ diff < 0 => h = tl + Capacity
<1>1. EndsStand(h, tl) /\ PushStands(h, tl, ps, t)
  BY DEF Stands
<1>2. p <= h /\ h - p + Capacity + 1 <= Half /\ tl <= h /\ h <= tl + Capacity
  BY <1>1 DEF EndsStand, PushStands
<1>3. PICK x \in Nat : tl <= x /\ x < tl + Capacity /\ Cell(x) = Cell(p)
  <2>1. PICK x \in tl..(tl + Capacity - 1) : Cell(x) = Cell(p)
    BY WindowHas
  <2>2. x \in Nat /\ tl <= x /\ x < tl + Capacity
    BY Sizes
  <2> QED BY <2>1, <2>2
<1>4. PICK s \in Nat : cells[Cell(x)].seq = At(s) /\ (s = x \/ s = x + 1)
  <2>1. CellStands(h, ps, x)
    BY <1>3 DEF Stands, CellsStand
  <2>2. x \in Nat /\ x + 1 \in Nat
    OBVIOUS
  <2> QED BY <2>1, <2>2 DEF CellStands
<1>5. s - p < Half /\ p - s <= Half
  BY <1>2, <1>3, <1>4, Sizes
<1>6. Diff(cells[Cell(At(p))].seq, At(p)) = s - p
  BY <1>3, <1>4, <1>5, CellAt, DiffAt
<1>7. p < x + Capacity /\ x < p + Capacity => x = p
  BY <1>3, SameCell
<1>8. s - p = 0 => p < tl + Capacity
  BY <1>2, <1>3, <1>4, <1>7, Sizes
<1>9. s - p < 0 => h = tl + Capacity
  BY <1>2, <1>3, <1>4, <1>7, Sizes
<1>10. s - p \in Int
  OBVIOUS
<1> QED BY <1>6, <1>8, <1>9, <1>10

\* A push reads the cell of its place.
LEMMA ReadStep ==
  ASSUME NEW h \in Nat, NEW tl \in Nat, NEW ps \in [Producers -> Nat], Stands(h, tl, ps),
         NEW t \in Producers, PushRead(t)
  PROVE  QueueStands' /\ QueueSteps
<1>1. /\ push[t].pc = "read" /\ UNCHANGED <<cells, head, tail>>
      /\ QueueTyped /\ EndsStand(h, tl) /\ PushStands(h, tl, ps, t)
  BY DEF PushRead, Stands
<1>2. PICK p \in Nat : p = ps[t]
  OBVIOUS
<1>3. push[t].pos = At(p) /\ p <= h /\ h - p + Capacity + 1 <= Half
  BY <1>1, <1>2 DEF PushStands
<1>4. PICK diff \in Int :
        /\ diff = Diff(cells[Cell(At(p))].seq, At(p))
        /\ diff = 0 => p < tl + Capacity
        /\ diff < 0 => h = tl + Capacity
  <2>1. PICK d : d = Diff(cells[Cell(At(p))].seq, At(p))
    OBVIOUS
  <2>2. d \in Int /\ (d = 0 => p < tl + Capacity) /\ (d < 0 => h = tl + Capacity)
    BY <1>1, <1>2, <2>1, ReadFinds
  <2> QED BY <2>1, <2>2
<1>5. push' = [push EXCEPT ![t] = IF Verdict(diff) = "reload" THEN Calling("read", head)
                                  ELSE Calling(Verdict(diff), At(p))]
  BY <1>3, <1>4 DEF PushRead
<1>6. head = At(h)
  BY <1>1 DEF EndsStand
<1>7. {"read", "claim", "full"} \subseteq PushPcs
  BY DEF PushPcs
<1>8. CASE diff = 0
  <2>1. Verdict(diff) = "claim"
    BY <1>8 DEF Verdict
  <2>2. push' = [push EXCEPT ![t] = Calling("claim", At(p))]
    BY <1>5, <2>1
  <2>3. QueueStands' /\ Queued' = Queued
    BY <1>1, <1>3, <1>4, <1>7, <1>8, <2>2, PushMoves
  <2>4. Phase' = [Phase EXCEPT ![t] = "trying"] /\ Phase[t] = "trying"
    <3>1. Phase' = [Phase EXCEPT ![t] = PhaseOf("claim")] /\ Phase[t] = PhaseOf(push[t].pc)
      BY <1>1, <2>2, PhaseMoves
    <3> QED BY <1>1, <3>1, PhasesApart
  <2>5. Phase' = Phase
    BY <2>4 DEF Phase
  <2> QED BY <2>3, <2>5 DEF QueueSteps
<1>9. CASE diff < 0
  <2>1. Verdict(diff) = "full"
    BY <1>9 DEF Verdict
  <2>2. push' = [push EXCEPT ![t] = Calling("full", At(p))]
    BY <1>5, <2>1
  <2>3. QueueStands' /\ Queued' = Queued
    BY <1>1, <1>3, <1>7, <2>2, PushMoves
  <2>4. Phase' = [Phase EXCEPT ![t] = "full"] /\ Phase[t] = "trying"
    <3>1. Phase' = [Phase EXCEPT ![t] = PhaseOf("full")] /\ Phase[t] = PhaseOf(push[t].pc)
      BY <1>1, <2>2, PhaseMoves
    <3> QED BY <1>1, <3>1, PhasesApart
  <2>5. Len(Queued) = Capacity
    <3>1. Queued = Items(push, cells, h, tl) /\ tl <= h
      BY <1>1, QueuedAre DEF EndsStand
    <3>2. Len(Queued) = h - tl
      BY <3>1, ItemsAre
    <3> QED BY <1>4, <1>9, <3>2, Sizes
  <2> QED BY <2>3, <2>4, <2>5 DEF QueueSteps, Fifo!Next, Fifo!Refuse
<1>10. CASE diff > 0
  <2>1. Verdict(diff) = "reload"
    BY <1>10 DEF Verdict
  <2>2. push' = [push EXCEPT ![t] = Calling("read", At(h))]
    BY <1>5, <1>6, <2>1
  <2>3. h <= h /\ h - h + Capacity + 1 <= Half
    BY Sizes
  <2>4. QueueStands' /\ Queued' = Queued
    BY <1>1, <1>7, <2>2, <2>3, PushMoves
  <2>5. Phase' = [Phase EXCEPT ![t] = "trying"] /\ Phase[t] = "trying"
    <3>1. Phase' = [Phase EXCEPT ![t] = PhaseOf("read")] /\ Phase[t] = PhaseOf(push[t].pc)
      BY <1>1, <2>2, PhaseMoves
    <3> QED BY <1>1, <3>1, PhasesApart
  <2>6. Phase' = Phase
    BY <2>5 DEF Phase
  <2> QED BY <2>4, <2>6 DEF QueueSteps
<1> QED BY <1>4, <1>8, <1>9, <1>10

LEMMA AppendIs ==
  ASSUME NEW n \in Nat, NEW S, NEW a \in [1..n -> S], NEW b \in [1..(n + 1) -> S], NEW t \in S,
         b[n + 1] = t, \A i \in 1..n : b[i] = a[i]
  PROVE  Len(a) = n /\ b = Append(a, t)
<1>1. a \in Seq(S) /\ Len(a) = n
  OBVIOUS
<1>2. PICK c : c = Append(a, t)
  OBVIOUS
<1>3. c \in Seq(S) /\ Len(c) = n + 1 /\ c[n + 1] = t /\ \A i \in 1..n : c[i] = a[i]
  BY <1>1, <1>2
<1>4. c \in [1..(n + 1) -> S]
  BY <1>3
<1>5. \A i \in 1..(n + 1) : c[i] = b[i]
  <2>1. \A i \in 1..(n + 1) : i = n + 1 \/ i \in 1..n
    OBVIOUS
  <2> QED BY <1>3, <2>1
<1>6. b = c
  BY <1>4, <1>5
<1> QED BY <1>1, <1>2, <1>6

LEMMA TailIs ==
  ASSUME NEW n \in Nat, NEW S, NEW a \in [1..(n + 1) -> S], NEW b \in [1..n -> S],
         \A i \in 1..n : b[i] = a[i + 1]
  PROVE  a # <<>> /\ b = Tail(a)
<1>1. a \in Seq(S) /\ Len(a) = n + 1
  OBVIOUS
<1>2. a # <<>>
  BY <1>1
<1>3. PICK c : c = Tail(a)
  OBVIOUS
<1>4. c \in Seq(S) /\ Len(c) = n /\ \A i \in 1..n : c[i] = a[i + 1]
  BY <1>1, <1>2, <1>3
<1>5. c \in [1..n -> S]
  BY <1>4
<1>6. b = c
  BY <1>4, <1>5
<1> QED BY <1>2, <1>3, <1>6

\* Two places between the ends, or one and the next, have their own positions.
LEMMA PlacesApart ==
  ASSUME NEW h \in Nat, NEW tl \in Nat, tl <= h, h <= tl + Capacity,
         NEW x \in Nat, NEW y \in Nat, tl <= x, x <= h, tl <= y, y <= h, At(x) = At(y)
  PROVE  x = y
<1>1. x < y + Modulus /\ y < x + Modulus
  BY Sizes
<1> QED BY <1>1, SameAt

\* Whoever stores at a claimed place is the one that holds it.
LEMMA StoresWhere ==
  ASSUME NEW h \in Nat, NEW tl \in Nat, NEW ps \in [Producers -> Nat], Stands(h, tl, ps),
         NEW x \in Nat, tl <= x, x <= h, NEW u \in Producers
  PROVE  push[u] = Calling("store", At(x)) <=> StoresAt(ps, u, x)
<1>1. PushStands(h, tl, ps, u) /\ EndsStand(h, tl) /\ QueueTyped
  BY DEF Stands
<1>2. push[u] \in [pc : PushPcs, pos : Positions]
  BY <1>1 DEF QueueTyped
<1>3. push[u] = Calling("store", At(x)) <=> push[u].pc = "store" /\ push[u].pos = At(x)
  BY <1>2 DEF Calling
<1>4. PICK y \in Nat : y = ps[u]
  OBVIOUS
<1>5. ASSUME push[u].pc = "store"
      PROVE  push[u].pos = At(x) <=> y = x
  <2>1. push[u].pos = At(y) /\ tl <= y /\ y < h /\ tl <= h /\ h <= tl + Capacity
    BY <1>1, <1>4, <1>5 DEF PushStands, EndsStand
  <2>2. At(y) = At(x) => y = x
    BY <2>1, PlacesApart
  <2> QED BY <2>1, <2>2
<1> QED BY <1>3, <1>4, <1>5 DEF StoresAt

\* The compare-exchange succeeds: the push claims the head.
LEMMA ClaimSucceeds ==
  ASSUME NEW h \in Nat, NEW tl \in Nat, NEW ps \in [Producers -> Nat], Stands(h, tl, ps),
         NEW t \in Producers, PushClaim(t), head = push[t].pos
  PROVE  QueueStands' /\ Fifo!Next
<1>1. /\ push[t].pc = "claim" /\ NobodySleepsLong /\ head' = Plus(head, 1)
      /\ push' = [push EXCEPT ![t].pc = "store"] /\ UNCHANGED <<cells, tail>>
  BY DEF PushClaim
<1>2. QueueTyped /\ EndsStand(h, tl) /\ PushStands(h, tl, ps, t)
  BY DEF Stands
<1>3. ps[t] = h
  <2>1. PICK p \in Nat : p = ps[t]
    OBVIOUS
  <2>2. At(p) = At(h) /\ p <= h /\ h - p + Capacity + 1 <= Half
    BY <1>1, <1>2, <2>1 DEF PushStands, EndsStand
  <2>3. p < h + Modulus /\ h < p + Modulus
    BY <2>2, Sizes
  <2> QED BY <2>1, <2>2, <2>3, SameAt
<1>4. tl <= h /\ h < tl + Capacity /\ head = At(h) /\ tail = At(tl)
  BY <1>1, <1>2, <1>3 DEF PushStands, EndsStand
<1>5. push' = [push EXCEPT ![t] = Calling("store", At(h))]
  <2>1. push[t] \in [pc : PushPcs, pos : Positions] /\ push[t].pos = At(h)
    BY <1>2, <1>4 DEF QueueTyped
  <2>2. [push[t] EXCEPT !.pc = "store"] = Calling("store", At(h))
    BY <2>1 DEF Calling
  <2> QED BY <1>1, <2>2
<1>6. /\ push'[t] = Calling("store", At(h)) /\ \A u \in Producers : u # t => push'[u] = push[u]
      /\ push' \in [Producers -> {push[u] : u \in Producers} \cup {Calling("store", At(h))}]
  BY <1>2, <1>5, PhaseStep
<1>7. push'[t].pc = "store" /\ push'[t].pos = At(h)
  BY <1>6 DEF Calling
<1>8. PICK h2 \in Nat : h2 = h + 1
  OBVIOUS
<1>9. QueueTyped'
  <2>1. Calling("store", At(h)) \in [pc : PushPcs, pos : Positions]
    BY PlaceIs DEF Calling, PushPcs
  <2> QED BY <1>1, <1>2, <1>6, <2>1 DEF QueueTyped
<1>10. EndsStand(h2, tl)'
  <2>1. Plus(At(h), 1) = At(h2)
    BY <1>8, PlusAt
  <2>2. tl <= h2 /\ h2 <= tl + Capacity
    BY <1>4, <1>8, Sizes
  <2> QED BY <1>1, <1>4, <2>1, <2>2 DEF EndsStand
<1>11. ASSUME NEW u \in Producers
       PROVE  PushStands(h2, tl, ps, u)'
  <2>1. PushStands(h, tl, ps, u)
    BY DEF Stands
  <2>2. CASE u = t
    BY <1>3, <1>4, <1>7, <1>8, <2>2 DEF PushStands
  <2>3. CASE u # t
    <3>1. PICK p \in Nat : p = ps[u]
      OBVIOUS
    <3>2. ASSUME push[u].pc \in {"read", "claim"}
          PROVE  p <= h2 /\ h2 - p + Capacity + 1 <= Half
      <4>1. push[u].pos = At(p) /\ p <= h /\ h - p + Capacity + 1 <= Half
        BY <2>1, <3>1, <3>2 DEF PushStands
      <4>2. h - p + 0 >= 0 /\ h - p + 0 < Modulus
        BY <4>1, Sizes
      <4>3. Rem(At(h) - At(p) + 0, Modulus) = h - p + 0
        BY <4>2, ApartAt
      <4>4. At(h) - At(p) + 0 = At(h) - At(p) /\ h - p + 0 = h - p
        <5>1. At(h) \in Int /\ At(p) \in Int
          BY PlaceIs, Sizes DEF Positions
        <5> QED BY <5>1
      <4>5. ((head - push[u].pos) % Modulus) + Capacity + 1 < Modulus \div 2
        BY <1>1, <3>2 DEF NobodySleepsLong
      <4>6. (At(h) - At(p)) % Modulus = h - p
        BY <4>3, <4>4 DEF Rem
      <4>7. h - p + Capacity + 1 < Half
        BY <1>4, <4>1, <4>5, <4>6 DEF Half
      <4> QED BY <1>8, <4>1, <4>7, Sizes
    <3>3. push[u].pc = "store" => tl <= p /\ p < h2
      BY <1>8, <2>1, <3>1 DEF PushStands
    <3> QED BY <1>6, <2>1, <2>3, <3>1, <3>2, <3>3 DEF PushStands
  <2> QED BY <2>2, <2>3
<1>12. \A u \in Producers : \A x \in Nat :
         StoresAt(ps, u, x)' <=> StoresAt(ps, u, x) \/ (u = t /\ x = h)
  BY <1>1, <1>3, <1>6, <1>7 DEF StoresAt
<1>13. \A u \in Producers : StoresAt(ps, u, ps[u]) => ps[u] < h
  BY DEF Stands, PushStands, StoresAt
<1>14. OneStores(ps)'
  <2>1. ASSUME NEW u \in Producers, NEW w \in Producers,
               StoresAt(ps, u, ps[u])', StoresAt(ps, w, ps[u])'
        PROVE  u = w
    <3>1. PICK p \in Nat : p = ps[u]
      OBVIOUS
    <3>2. (StoresAt(ps, u, p) \/ (u = t /\ p = h)) /\ (StoresAt(ps, w, p) \/ (w = t /\ p = h))
      BY <1>12, <2>1, <3>1
    <3>3. StoresAt(ps, u, p) \/ StoresAt(ps, w, p) => p # h
      BY <1>13 DEF StoresAt
    <3>4. StoresAt(ps, u, p) /\ StoresAt(ps, w, p) => u = w
      BY <3>1 DEF Stands, OneStores
    <3> QED BY <3>2, <3>3, <3>4
  <2> QED BY <2>1 DEF OneStores
<1>15. CellsStand(h2, tl, ps)'
  <2>1. ASSUME NEW x \in Nat, tl <= x, x < tl + Capacity
        PROVE  CellStands(h2, ps, x)'
    <3>1. CellStands(h, ps, x)
      BY <2>1 DEF Stands, CellsStand
    <3>2. (x >= h2 \/ x = h) <=> x >= h
      BY <1>8
    <3>3. (\E u \in Producers : StoresAt(ps, u, x)')
            <=> x = h \/ \E u \in Producers : StoresAt(ps, u, x)
      BY <1>12
    <3> QED BY <1>1, <3>1, <3>2, <3>3 DEF CellStands
  <2> QED BY <2>1 DEF CellsStand
<1>16. QueueStands'
  BY <1>9, <1>10, <1>11, <1>14, <1>15 DEF QueueStands, Stands
<1>17. Phase' = [Phase EXCEPT ![t] = "in"] /\ Phase[t] = "trying"
  <2>1. Phase' = [Phase EXCEPT ![t] = PhaseOf("store")] /\ Phase[t] = PhaseOf(push[t].pc)
    BY <1>2, <1>5, PhaseMoves
  <2> QED BY <1>1, <2>1, PhasesApart
<1>18. Queued' = Append(Queued, t) /\ Len(Queued) < Capacity
  <2>1. Queued = Items(push, cells, h, tl) /\ Queued' = Items(push', cells', h2, tl)
    BY <1>2, <1>10, QueuedAre, QueuedWillBe
  <2>2. PICK n \in Nat : n = h - tl
    BY <1>4
  <2>3. n < Capacity /\ h2 - tl = n + 1
    BY <1>4, <1>8, <2>2, Sizes
  <2>4. ASSUME NEW i \in 1..n
        PROVE  Holder(push', cells', At(tl + i - 1)) = Holder(push, cells, At(tl + i - 1))
    <3>1. PICK x \in Nat : x = tl + i - 1
      OBVIOUS
    <3>2. tl <= x /\ x < h
      BY <2>2, <3>1
    <3>3. At(x) # At(h)
      <4>1. x < h + Modulus /\ h < x + Modulus
        BY <1>4, <3>2, Sizes
      <4>2. At(x) = At(h) => x = h
        BY <4>1, SameAt
      <4> QED BY <3>2, <4>2
    <3>4. \A u \in Producers :
            push[u] = Calling("store", At(x)) <=> push'[u] = Calling("store", At(x))
      <4>1. push[t] # Calling("store", At(x)) /\ push'[t] # Calling("store", At(x))
        BY <1>1, <1>7, <3>3 DEF Calling
      <4> QED BY <1>6, <4>1
    <3>5. Holder(push, cells, At(x)) = Holder(push', cells', At(x))
      <4>1. cells'[Cell(At(x))].value = cells[Cell(At(x))].value
        BY <1>1
      <4> QED BY ONLY <3>4, <4>1, HolderSame
    <3> QED BY <3>1, <3>5
  <2>5. Holder(push', cells', At(tl + (n + 1) - 1)) = t
    <3>1. tl + (n + 1) - 1 = h
      BY <2>2
    <3>2. \A u \in Producers : push'[u] = Calling("store", At(h)) => u = t
      <4>1. ASSUME NEW u \in Producers, u # t, push'[u] = Calling("store", At(h))
            PROVE  FALSE
        <5>1. push[u] = Calling("store", At(h))
          BY <1>6, <4>1
        <5>2. StoresAt(ps, u, h)
          BY <1>4, <5>1, StoresWhere
        <5> QED BY <1>13, <5>2 DEF StoresAt
      <4> QED BY <4>1
    <3>3. Holder(push', cells', At(h)) = t
      BY ONLY <1>6, <3>2, t \in Producers, HolderStores
    <3> QED BY <3>1, <3>3
  <2>6. PICK a, b : a = Items(push, cells, h, tl) /\ b = Items(push', cells', h2, tl)
    OBVIOUS
  <2>7. a = [i \in 1..n |-> Holder(push, cells, At(tl + i - 1))]
    BY <2>2, <2>6 DEF Items
  <2>8. b = [i \in 1..(n + 1) |-> Holder(push', cells', At(tl + i - 1))]
    BY <2>3, <2>6 DEF Items
  <2>9. b[n + 1] = t
    BY <2>5, <2>8
  <2>10. ASSUME NEW i \in 1..n
         PROVE  b[i] = a[i]
    <3>1. i \in 1..(n + 1)
      OBVIOUS
    <3>2. b[i] = Holder(push', cells', At(tl + i - 1)) /\ a[i] = Holder(push, cells, At(tl + i - 1))
      BY <2>7, <2>8, <3>1
    <3> QED BY <2>4, <3>2
  <2>11. PICK S : a \in [1..n -> S] /\ b \in [1..(n + 1) -> S] /\ t \in S
    <3>1. PICK S : S = {b[i] : i \in 1..(n + 1)}
      OBVIOUS
    <3>2. b \in [1..(n + 1) -> S]
      BY <2>8, <3>1
    <3>3. \A i \in 1..n : a[i] \in S
      BY <2>10, <3>1
    <3>4. a \in [1..n -> S]
      BY <2>7, <3>3
    <3>5. t \in S
      BY <2>9, <3>1
    <3> QED BY <3>2, <3>4, <3>5
  <2>12. Len(a) = n /\ b = Append(a, t)
    BY ONLY <2>9, <2>10, <2>11, n \in Nat, AppendIs
  <2> QED BY <2>1, <2>3, <2>6, <2>12
<1> QED BY <1>16, <1>17, <1>18 DEF Fifo!Next, Fifo!Enter

\* The compare-exchange.
LEMMA ClaimStep ==
  ASSUME NEW h \in Nat, NEW tl \in Nat, NEW ps \in [Producers -> Nat], Stands(h, tl, ps),
         NEW t \in Producers, PushClaim(t)
  PROVE  QueueStands' /\ QueueSteps
<1>1. CASE head = push[t].pos
  BY <1>1, ClaimSucceeds DEF QueueSteps
<1>2. CASE head # push[t].pos
  <2>1. QueueTyped /\ head = At(h)
    BY DEF Stands, EndsStand
  <2>2. /\ push[t].pc = "claim" /\ push' = [push EXCEPT ![t] = Calling("read", At(h))]
        /\ UNCHANGED <<cells, head, tail>>
    BY <1>2, <2>1 DEF PushClaim
  <2>3. h <= h /\ h - h + Capacity + 1 <= Half /\ "read" \in PushPcs
    BY Sizes DEF PushPcs
  <2>4. QueueStands' /\ Queued' = Queued
    BY <2>2, <2>3, PushMoves
  <2>5. Phase' = [Phase EXCEPT ![t] = "trying"] /\ Phase[t] = "trying"
    <3>1. Phase' = [Phase EXCEPT ![t] = PhaseOf("read")] /\ Phase[t] = PhaseOf(push[t].pc)
      BY <2>1, <2>2, PhaseMoves
    <3> QED BY <2>2, <3>1, PhasesApart
  <2>6. Phase' = Phase
    BY <2>5 DEF Phase
  <2> QED BY <2>4, <2>6 DEF QueueSteps
<1> QED BY <1>1, <1>2

\* Value and sequence number are published, and the push returns.
LEMMA StoreStep ==
  ASSUME NEW h \in Nat, NEW tl \in Nat, NEW ps \in [Producers -> Nat], Stands(h, tl, ps),
         NEW t \in Producers, PushStore(t)
  PROVE  QueueStands' /\ QueueSteps
<1>1. push[t].pc = "store" /\ push' = [push EXCEPT ![t] = NoCall] /\ UNCHANGED <<head, tail>>
  BY DEF PushStore
<1>2. QueueTyped /\ EndsStand(h, tl) /\ PushStands(h, tl, ps, t)
  BY DEF Stands
<1>3. PICK y \in Nat : y = ps[t]
  OBVIOUS
<1>4. /\ push[t].pos = At(y) /\ tl <= y /\ y < h /\ tl <= h /\ h <= tl + Capacity
      /\ StoresAt(ps, t, y)
  BY <1>1, <1>2, <1>3 DEF PushStands, EndsStand, StoresAt
<1>5. Cell(y) \in 0..(Capacity - 1) /\ At(y + 1) \in Positions
  <2>1. y + 1 \in Nat
    OBVIOUS
  <2> QED BY <2>1, PlaceIs
<1>6. cells' = [cells EXCEPT ![Cell(y)] = [seq |-> At(y + 1), value |-> t]]
  BY <1>4, CellAt, PlusAt DEF PushStore
<1>7. /\ cells'[Cell(y)].seq = At(y + 1) /\ cells'[Cell(y)].value = t
      /\ \A c : c # Cell(y) => cells'[c] = cells[c]
  BY <1>2, <1>5, <1>6 DEF QueueTyped
<1>8. /\ push'[t] = NoCall /\ \A u \in Producers : u # t => push'[u] = push[u]
      /\ push' \in [Producers -> {push[u] : u \in Producers} \cup {NoCall}]
  BY <1>1, <1>2, PhaseStep
<1>9. push'[t].pc = "idle" /\ NoCall \in [pc : PushPcs, pos : Positions]
  <2>1. 0 \in Positions
    BY Sizes DEF Positions
  <2> QED BY <1>8, <2>1 DEF NoCall, Calling, PushPcs
<1>10. QueueTyped'
  <2>1. [seq |-> At(y + 1), value |-> t] \in [seq : Positions, value : Producers \cup {Empty}]
    BY <1>5
  <2>2. cells' \in [0..(Capacity - 1) -> [seq : Positions, value : Producers \cup {Empty}]]
    BY <1>2, <1>6, <2>1 DEF QueueTyped
  <2>3. push' \in [Producers -> [pc : PushPcs, pos : Positions]]
    BY <1>2, <1>8, <1>9 DEF QueueTyped
  <2> QED BY <2>2, <2>3 DEF QueueTyped
<1>11. EndsStand(h, tl)'
  BY <1>1, <1>2 DEF EndsStand
<1>12. ASSUME NEW u \in Producers
       PROVE  PushStands(h, tl, ps, u)'
  <2>1. PushStands(h, tl, ps, u)
    BY DEF Stands
  <2>2. CASE u = t
    BY <1>9, <2>2 DEF PushStands
  <2>3. CASE u # t
    BY <1>8, <2>1, <2>3 DEF PushStands
  <2> QED BY <2>2, <2>3
<1>13. \A u \in Producers : \A x \in Nat : StoresAt(ps, u, x)' <=> StoresAt(ps, u, x) /\ u # t
  BY <1>8, <1>9 DEF StoresAt
<1>14. OneStores(ps)'
  <2>1. ASSUME NEW u \in Producers, NEW w \in Producers,
               StoresAt(ps, u, ps[u])', StoresAt(ps, w, ps[u])'
        PROVE  u = w
    <3>1. StoresAt(ps, u, ps[u]) /\ StoresAt(ps, w, ps[u])
      BY <1>13, <2>1
    <3> QED BY <3>1 DEF Stands, OneStores
  <2> QED BY <2>1 DEF OneStores
<1>15. \A u \in Producers : StoresAt(ps, u, y) <=> u = t
  BY <1>3, <1>4 DEF Stands, OneStores
<1>16. ASSUME NEW x \in Nat, tl <= x, x < tl + Capacity, x # y
       PROVE  Cell(x) # Cell(y)
  <2>1. x < y + Capacity /\ y < x + Capacity
    BY <1>4, <1>16, Sizes
  <2> QED BY <1>16, <2>1, SameCell
<1>17. CellsStand(h, tl, ps)'
  <2>1. ASSUME NEW x \in Nat, tl <= x, x < tl + Capacity
        PROVE  CellStands(h, ps, x)'
    <3>1. CellStands(h, ps, x)
      BY <2>1 DEF Stands, CellsStand
    <3>2. CASE x = y
      <4>1. ~(x >= h) /\ ~\E u \in Producers : StoresAt(ps, u, x)'
        BY <1>4, <1>13, <1>15, <3>2
      <4> QED BY <1>7, <3>2, <4>1 DEF CellStands
    <3>3. CASE x # y
      <4>1. cells'[Cell(x)] = cells[Cell(x)]
        BY <1>7, <1>16, <2>1, <3>3
      <4>2. \A u \in Producers : StoresAt(ps, u, x)' <=> StoresAt(ps, u, x)
        BY <1>3, <1>13, <3>3 DEF StoresAt
      <4> QED BY <3>1, <4>1, <4>2 DEF CellStands
    <3> QED BY <3>2, <3>3
  <2> QED BY <2>1 DEF CellsStand
<1>18. QueueStands'
  BY <1>10, <1>11, <1>12, <1>14, <1>17 DEF QueueStands, Stands
<1>19. Phase' = [Phase EXCEPT ![t] = "idle"] /\ Phase[t] = "in"
  <2>1. Phase' = [Phase EXCEPT ![t] = PhaseOf("idle")] /\ Phase[t] = PhaseOf(push[t].pc)
    BY <1>1, <1>2, PhaseMoves DEF NoCall
  <2> QED BY <1>1, <2>1, PhasesApart
<1>20. Queued' = Queued
  <2>1. Queued = Items(push, cells, h, tl) /\ Queued' = Items(push', cells', h, tl)
    BY <1>2, <1>11, QueuedAre, QueuedWillBe
  <2>2. ASSUME NEW i \in 1..(h - tl)
        PROVE  Holder(push', cells', At(tl + i - 1)) = Holder(push, cells, At(tl + i - 1))
    <3>1. PICK x \in Nat : x = tl + i - 1
      OBVIOUS
    <3>2. tl <= x /\ x < h /\ x < tl + Capacity /\ x <= h
      BY <1>4, <3>1, Sizes
    <3>3. \A u \in Producers : push[u] = Calling("store", At(x)) <=> StoresAt(ps, u, x)
      BY <3>2, StoresWhere
    <3>4. push'[t] # Calling("store", At(x))
      BY <1>9 DEF Calling
    <3>5. CASE x = y
      <4>1. Holder(push, cells, At(x)) = t
        <5>1. /\ push[t] = Calling("store", At(x))
              /\ \A u \in Producers : push[u] = Calling("store", At(x)) => u = t
          BY <1>15, <3>3, <3>5
        <5> QED BY ONLY <5>1, t \in Producers, HolderStores
      <4>2. Holder(push', cells', At(x)) = cells'[Cell(At(x))].value
        <5>1. \A u \in Producers : push'[u] # Calling("store", At(x))
          BY <1>8, <1>15, <3>3, <3>4, <3>5
        <5> QED BY ONLY <5>1, HolderStored
      <4>3. cells'[Cell(At(x))].value = t
        BY <1>7, <3>5, CellAt
      <4> QED BY <3>1, <4>1, <4>2, <4>3
    <3>6. CASE x # y
      <4>1. \A u \in Producers :
              push[u] = Calling("store", At(x)) <=> push'[u] = Calling("store", At(x))
        <5>1. push[t] # Calling("store", At(x))
          BY <1>3, <3>3, <3>6 DEF StoresAt
        <5> QED BY <1>8, <3>4, <5>1
      <4>2. cells'[Cell(At(x))].value = cells[Cell(At(x))].value
        BY <1>7, <1>16, <3>2, <3>6, CellAt
      <4>3. Holder(push, cells, At(x)) = Holder(push', cells', At(x))
        BY ONLY <4>1, <4>2, HolderSame
      <4> QED BY <3>1, <4>3
    <3> QED BY <3>5, <3>6
  <2> QED BY <2>1, <2>2 DEF Items
<1> QED BY <1>18, <1>19, <1>20 DEF QueueSteps, Fifo!Next, Fifo!Return

\* The scheduler's loop pops the item at the tail.
LEMMA PopStep ==
  ASSUME NEW h \in Nat, NEW tl \in Nat, NEW ps \in [Producers -> Nat], Stands(h, tl, ps), Pop
  PROVE  QueueStands' /\ QueueSteps
<1>1. HasItem /\ tail' = Plus(tail, 1) /\ UNCHANGED <<head, push>>
  BY DEF Pop
<1>2. QueueTyped /\ EndsStand(h, tl)
  BY DEF Stands
<1>3. tail = At(tl) /\ head = At(h) /\ tl <= h /\ h <= tl + Capacity
  BY <1>2 DEF EndsStand
<1>4. PICK tl2 \in Nat, far \in Nat : tl2 = tl + 1 /\ far = tl + Capacity
  BY Sizes
<1>5. /\ Cell(tl) \in 0..(Capacity - 1) /\ At(far) \in Positions
      /\ Plus(tail, 1) = At(tl2) /\ Freed(tail) = At(far) /\ Cell(tail) = Cell(tl)
  BY <1>3, <1>4, PlaceIs, PlusAt, CellAt, Sizes DEF Freed
<1>6. cells' = [cells EXCEPT ![Cell(tl)].seq = At(far)]
  BY <1>5 DEF Pop
<1>7. /\ cells'[Cell(tl)].seq = At(far)
      /\ \A c \in 0..(Capacity - 1) : c # Cell(tl) => cells'[c] = cells[c]
      /\ \A c \in 0..(Capacity - 1) : cells'[c].value = cells[c].value
  BY <1>2, <1>5, <1>6 DEF QueueTyped
<1>8. tl < h /\ \A u \in Producers : ~StoresAt(ps, u, tl)
  <2>1. cells[Cell(tl)].seq = At(tl2)
    BY <1>1, <1>5 DEF HasItem
  <2>2. At(tl) # At(tl2)
    <3>1. tl < tl2 + Modulus /\ tl2 < tl + Modulus /\ tl # tl2
      BY <1>4, Sizes
    <3> QED BY <3>1, SameAt
  <2>3. CellStands(h, ps, tl)
    <3>1. tl <= tl /\ tl < tl + Capacity
      BY Sizes
    <3> QED BY <3>1 DEF Stands, CellsStand
  <2>4. ~(tl >= h)
    BY <2>1, <2>2, <2>3 DEF CellStands
  <2>5. \A u \in Producers : ~StoresAt(ps, u, tl)
    BY <2>1, <2>2, <2>3 DEF CellStands
  <2> QED BY <2>4, <2>5
<1>9. QueueTyped'
  <2>1. cells' \in [0..(Capacity - 1) -> [seq : Positions, value : Producers \cup {Empty}]]
    BY <1>2, <1>5, <1>6 DEF QueueTyped
  <2> QED BY <1>1, <1>2, <2>1 DEF QueueTyped
<1>10. EndsStand(h, tl2)'
  <2>1. tl2 <= h /\ h <= tl2 + Capacity
    BY <1>3, <1>4, <1>8, Sizes
  <2> QED BY <1>1, <1>3, <1>5, <2>1 DEF EndsStand
<1>11. ASSUME NEW u \in Producers
       PROVE  PushStands(h, tl2, ps, u)'
  <2>1. PICK p \in Nat : p = ps[u]
    OBVIOUS
  <2>2. PushStands(h, tl, ps, u)
    BY DEF Stands
  <2>3. push[u].pc = "claim" => p < tl2 + Capacity
    BY <1>4, <2>1, <2>2, Sizes DEF PushStands
  <2>4. push[u].pc = "store" => tl2 <= p /\ p < h
    <3>1. push[u].pc = "store" => tl <= p /\ p < h /\ p # tl
      BY <1>8, <2>1, <2>2 DEF PushStands, StoresAt
    <3> QED BY <1>4, <3>1
  <2> QED BY <1>1, <2>1, <2>2, <2>3, <2>4 DEF PushStands
<1>12. /\ OneStores(ps)'
       /\ \A u \in Producers : \A x \in Nat : StoresAt(ps, u, x)' <=> StoresAt(ps, u, x)
  BY <1>1 DEF Stands, OneStores, StoresAt
<1>13. CellsStand(h, tl2, ps)'
  <2>1. ASSUME NEW x \in Nat, tl2 <= x, x < tl2 + Capacity
        PROVE  CellStands(h, ps, x)'
    <3>1. CASE x = far
      <4>1. Cell(far) = Cell(tl)
        <5>1. PICK z \in tl..(tl + Capacity - 1) : Cell(z) = Cell(far)
          BY WindowHas
        <5>2. z \in Nat /\ tl <= z /\ z < tl + Capacity
          BY Sizes
        <5>3. z > tl => z < far + Capacity /\ far < z + Capacity /\ z # far
          BY <1>4, <5>2, Sizes
        <5>4. z = tl
          BY <5>1, <5>2, <5>3, SameCell
        <5> QED BY <5>1, <5>4
      <4>2. x >= h
        BY <1>3, <1>4, <3>1
      <4> QED BY <1>7, <3>1, <4>1, <4>2 DEF CellStands
    <3>2. CASE x # far
      <4>1. tl <= x /\ x < tl + Capacity /\ x # tl
        BY <1>4, <2>1, <3>2, Sizes
      <4>2. CellStands(h, ps, x)
        BY <4>1 DEF Stands, CellsStand
      <4>3. Cell(x) # Cell(tl) /\ Cell(x) \in 0..(Capacity - 1)
        <5>1. x < tl + Capacity /\ tl < x + Capacity
          BY <4>1, Sizes
        <5> QED BY <4>1, <5>1, SameCell, PlaceIs
      <4>4. cells'[Cell(x)] = cells[Cell(x)]
        BY <1>7, <4>3
      <4> QED BY <1>12, <4>2, <4>4 DEF CellStands
    <3> QED BY <3>1, <3>2
  <2> QED BY <2>1 DEF CellsStand
<1>14. QueueStands'
  BY <1>9, <1>10, <1>11, <1>12, <1>13 DEF QueueStands, Stands
<1>15. Phase' = Phase
  BY <1>1 DEF Phase
<1>16. Queued # <<>> /\ Queued' = Tail(Queued)
  <2>1. Queued = Items(push, cells, h, tl) /\ Queued' = Items(push', cells', h, tl2)
    BY <1>2, <1>10, QueuedAre, QueuedWillBe
  <2>2. PICK n \in Nat : h - tl = n + 1 /\ h - tl2 = n
    <3>1. h - tl2 \in Nat /\ h - tl = (h - tl2) + 1
      BY <1>4, <1>8
    <3> QED BY <3>1
  <2>3. ASSUME NEW x \in Nat
        PROVE  Holder(push, cells, At(x)) = Holder(push', cells', At(x))
    <3>1. \A u \in Producers :
            push[u] = Calling("store", At(x)) <=> push'[u] = Calling("store", At(x))
      BY <1>1
    <3>2. cells[Cell(At(x))].value = cells'[Cell(At(x))].value
      BY <1>7, CellAt, PlaceIs
    <3> QED BY ONLY <3>1, <3>2, HolderSame
  <2>4. PICK a, b : a = Items(push, cells, h, tl) /\ b = Items(push', cells', h, tl2)
    OBVIOUS
  <2>5. a = [i \in 1..(n + 1) |-> Holder(push, cells, At(tl + i - 1))]
    BY <2>2, <2>4 DEF Items
  <2>6. b = [i \in 1..n |-> Holder(push', cells', At(tl2 + i - 1))]
    BY <2>2, <2>4 DEF Items
  <2>7. ASSUME NEW i \in 1..n
        PROVE  b[i] = a[i + 1]
    <3>1. PICK x \in Nat : x = tl2 + i - 1 /\ x = tl + (i + 1) - 1
      BY <1>4
    <3>2. i + 1 \in 1..(n + 1)
      OBVIOUS
    <3>3. b[i] = Holder(push', cells', At(x))
      BY <2>6, <3>1
    <3>4. a[i + 1] = Holder(push, cells, At(x))
      BY <2>5, <3>1, <3>2
    <3> QED BY <2>3, <3>3, <3>4
  <2>8. PICK S : a \in [1..(n + 1) -> S] /\ b \in [1..n -> S]
    <3>1. PICK S : S = {a[i] : i \in 1..(n + 1)}
      OBVIOUS
    <3>2. a \in [1..(n + 1) -> S]
      BY <2>5, <3>1
    <3>3. ASSUME NEW i \in 1..n
          PROVE  b[i] \in S
      <4>1. i + 1 \in 1..(n + 1)
        OBVIOUS
      <4> QED BY <2>7, <3>1, <4>1
    <3>4. b \in [1..n -> S]
      BY <2>6, <3>3
    <3> QED BY <3>2, <3>4
  <2>9. a # <<>> /\ b = Tail(a)
    BY ONLY <2>7, <2>8, n \in Nat, TailIs
  <2> QED BY <2>1, <2>4, <2>9
<1> QED BY <1>14, <1>15, <1>16 DEF QueueSteps, Fifo!Next, Fifo!Take

-----------------------------------------------------------------------------
(* The theorem *)

\* Every position in the first window has its cell.
LEMMA StandsFirst ==
  ASSUME QueueInit
  PROVE  QueueStands /\ Fifo!Init
<1>1. PICK h \in FirstPositions :
        /\ head = h /\ tail = h
        /\ cells = [i \in 0..(Capacity - 1) |->
                      [seq |-> CHOOSE p \in {Plus(h, n) : n \in 0..(Capacity - 1)} : Cell(p) = i,
                       value |-> Empty]]
        /\ push = [t \in Producers |-> NoCall]
  BY DEF QueueInit
<1>2. h \in Nat /\ h \in Positions
  BY QueueAssumption DEF Positions
<1>3. At(h) = h
  <2>1. PICK m \in Int : m = Modulus /\ 0 <= h /\ h < m
    BY <1>2, Sizes DEF Positions
  <2> QED BY <1>2, <2>1 DEF At, Rem
<1>4. PICK ps \in [Producers -> Nat] : \A t \in Producers : ps[t] = 0
  <2>1. [t \in Producers |-> 0] \in [Producers -> Nat]
    OBVIOUS
  <2> QED BY <2>1
<1>5. \A t \in Producers : push[t] = NoCall /\ push[t].pc = "idle"
  BY <1>1 DEF NoCall, Calling
<1>6. ASSUME NEW x \in Nat, h <= x, x < h + Capacity
      PROVE  (CHOOSE p \in {Plus(h, n) : n \in 0..(Capacity - 1)} : Cell(p) = Cell(x)) = At(x)
  <2>1. PICK k \in 0..(Capacity - 1) : k \in Nat /\ h + k = x
    BY <1>2, <1>6, Sizes
  <2>2. Plus(h, k) = At(x)
    BY <1>2, <1>3, <2>1, PlusAt
  <2>3. Cell(At(x)) = Cell(x)
    BY CellAt
  <2>4. ASSUME NEW n \in 0..(Capacity - 1), Cell(Plus(h, n)) = Cell(x)
        PROVE  Plus(h, n) = At(x)
    <3>1. PICK y \in Nat : y = h + n /\ n \in Nat
      BY <1>2, Sizes
    <3>2. Plus(h, n) = At(y)
      BY <1>2, <1>3, <3>1, PlusAt
    <3>3. Cell(y) = Cell(x)
      BY <2>4, <3>2, CellAt
    <3>4. x < y + Capacity /\ y < x + Capacity
      BY <1>2, <1>6, <3>1, Sizes
    <3> QED BY <3>2, <3>3, <3>4, SameCell
  <2> QED BY <2>1, <2>2, <2>3, <2>4
<1>7. QueueTyped
  <2>1. NoCall \in [pc : PushPcs, pos : Positions]
    BY Sizes DEF NoCall, Calling, PushPcs, Positions
  <2>2. ASSUME NEW i \in 0..(Capacity - 1)
        PROVE  (CHOOSE p \in {Plus(h, n) : n \in 0..(Capacity - 1)} : Cell(p) = i) \in Positions
    <3>1. i \in Nat
      BY Sizes
    <3>2. PICK x \in h..(h + Capacity - 1) : Cell(x) = Cell(i)
      BY <1>2, <3>1, WindowHas
    <3>3. x \in Nat /\ h <= x /\ x < h + Capacity
      BY <1>2, Sizes
    <3>4. Cell(i) = i
      <4>1. PICK c \in Int : c = Capacity /\ 0 <= i /\ i < c
        BY Sizes
      <4> QED BY <4>1 DEF Cell
    <3>5. Cell(x) = i
      BY <3>2, <3>4
    <3>6. (CHOOSE p \in {Plus(h, n) : n \in 0..(Capacity - 1)} : Cell(p) = Cell(x)) = At(x)
      BY <1>6, <3>3
    <3>7. At(x) \in Positions
      BY <3>3, PlaceIs
    <3> QED BY ONLY <3>5, <3>6, <3>7
  <2> QED BY <1>1, <1>5, <2>1, <2>2 DEF QueueTyped
<1>8. EndsStand(h, h)
  BY <1>1, <1>2, <1>3, Sizes DEF EndsStand
<1>9. \A t \in Producers : PushStands(h, h, ps, t)
  BY <1>5 DEF PushStands
<1>10. OneStores(ps) /\ \A t \in Producers : \A x : ~StoresAt(ps, t, x)
  BY <1>5 DEF OneStores, StoresAt
<1>11. CellsStand(h, h, ps)
  <2>1. ASSUME NEW x \in Nat, h <= x, x < h + Capacity
        PROVE  CellStands(h, ps, x)
    <3>1. cells[Cell(x)].seq = At(x)
      BY <1>1, <1>6, <2>1, PlaceIs
    <3> QED BY <1>2, <2>1, <3>1 DEF CellStands
  <2> QED BY <2>1 DEF CellsStand
<1>12. QueueStands
  BY <1>2, <1>7, <1>8, <1>9, <1>10, <1>11 DEF QueueStands, Stands
<1>13. Queued = <<>>
  <2>1. Queued = Items(push, cells, h, h)
    BY <1>2, <1>8, QueuedAre
  <2>2. h - h = 0
    BY <1>2
  <2>3. [i \in 1..0 |-> Holder(push, cells, At(h + i - 1))] = <<>>
    OBVIOUS
  <2> QED BY <2>1, <2>2, <2>3 DEF Items
<1>14. Phase = [t \in Producers |-> "idle"]
  BY <1>5, PhasesApart DEF Phase
<1> QED BY <1>12, <1>13, <1>14 DEF Fifo!Init

\* BoundedMpscQueue is a bounded first-in-first-out queue, for any producers, capacity
\* and width of the positions, also where they wrap: every step of push() and pop() is
\* one step of BoundedFifo, or none.
THEOREM QueueImplementsFifo == QueueSpec => QueueIsFifo
<1>1. QueueInit => QueueStands /\ Fifo!Init
  BY StandsFirst
<1>2. QueueStands /\ [QueueNext]_queueVars => QueueStands' /\ [Fifo!Next]_<<Queued, Phase>>
  <2> SUFFICES ASSUME QueueStands, [QueueNext]_queueVars
               PROVE  QueueStands' /\ [Fifo!Next]_<<Queued, Phase>>
    OBVIOUS
  <2>1. PICK h \in Nat, tl \in Nat, ps \in [Producers -> Nat] : Stands(h, tl, ps)
    BY DEF QueueStands
  <2>2. CASE UNCHANGED queueVars
    <3>1. QueueStands'
      <4>1. QueueTyped' /\ EndsStand(h, tl)' /\ OneStores(ps)'
        BY <2>1, <2>2 DEF queueVars, Stands, QueueTyped, EndsStand, OneStores, StoresAt
      <4>2. \A t \in Producers : PushStands(h, tl, ps, t)'
        BY <2>1, <2>2 DEF queueVars, Stands, PushStands
      <4>3. \A t \in Producers : \A x : StoresAt(ps, t, x)' <=> StoresAt(ps, t, x)
        BY <2>2 DEF queueVars, StoresAt
      <4>4. ASSUME NEW x \in Nat, tl <= x, x < tl + Capacity
            PROVE  CellStands(h, ps, x)'
        <5>1. CellStands(h, ps, x)
          BY <2>1, <4>4 DEF Stands, CellsStand
        <5> QED BY <2>2, <4>3, <5>1 DEF queueVars, CellStands
      <4> QED BY <4>1, <4>2, <4>4 DEF QueueStands, Stands, CellsStand
    <3>2. Queued' = Queued /\ Phase' = Phase
      BY <2>2 DEF queueVars, Queued, Phase
    <3> QED BY <3>1, <3>2
  <2>3. CASE Pop
    BY <2>1, <2>3, PopStep DEF QueueSteps
  <2>4. ASSUME NEW t \in Producers, PushStep(t)
        PROVE  QueueStands' /\ QueueSteps
    BY <2>1, <2>4, LoadStep, ReadStep, ClaimStep, StoreStep, RefusedStep DEF PushStep
  <2> QED BY <2>2, <2>3, <2>4 DEF QueueNext, QueueSteps
<1> QED BY <1>1, <1>2, PTL DEF QueueSpec, QueueIsFifo, Fifo!Spec

=============================================================================
