----------------------------- MODULE LinkProofs -----------------------------
(***************************************************************************)
(* What the two ends of a link can rely on, for any calls, requests,       *)
(* configurations and codec: the V0.1 task transport refuses no task that  *)
(* was sent alone, a V0.2 trunk tells its client of a stream what the      *)
(* session has recorded of it, and a frame that is signed is accepted only *)
(* as it was signed.                                                       *)
(***************************************************************************)
EXTENDS TaskLink, Trunk, SignedWire, SequenceTheorems, TLAPS

-----------------------------------------------------------------------------
(* TaskLink: types *)

CallPcs == {"unused", "idle", "sending", "waiting", "done"}
HandlerPcs == {"none", "reading", "checking", "storing", "running", "closed"}
Statuses == {"none", "FAILED", "OK", "REJECTED"}

FrameRecords == [n : Nat, final : BOOLEAN, body : BOOLEAN, status : Statuses]

CallRecords ==
  [pc : CallPcs, expected : Nat, status : Statuses, got : Seq(Nat), auth : Nat]
LinkRecords ==
  [up : Nat, down : Seq(FrameRecords), client : BOOLEAN, server : BOOLEAN, cut : BOOLEAN]
HandlerRecords ==
  [pc : HandlerPcs, seq : Nat, wrote : Seq(FrameRecords), status : Statuses,
   cancelled : BOOLEAN]

ReceiverOK ==
  /\ receiver = [running |-> receiver.running, accept |-> receiver.accept,
                 listen |-> receiver.listen, reused |-> receiver.reused,
                 owner |-> receiver.owner, lastAuth |-> receiver.lastAuth,
                 runs |-> receiver.runs]
  /\ receiver.lastAuth \in Nat

LinkTypes ==
  /\ mode \in {"task", "stream"}
  /\ call \in [Calls -> CallRecords]
  /\ link \in [Calls -> LinkRecords]
  /\ handler \in [Calls -> HandlerRecords]
  /\ ReceiverOK /\ nextAuth \in Nat

LEMMA CallFields ==
  ASSUME NEW k \in CallRecords
  PROVE  /\ k.pc \in CallPcs /\ k.expected \in Nat /\ k.status \in Statuses
         /\ k.got \in Seq(Nat) /\ k.auth \in Nat
         /\ k = [pc |-> k.pc, expected |-> k.expected, status |-> k.status, got |-> k.got,
                 auth |-> k.auth]
  BY DEF CallRecords

LEMMA CallRecord ==
  ASSUME NEW pc \in CallPcs, NEW e \in Nat, NEW st \in Statuses, NEW g \in Seq(Nat),
         NEW a \in Nat, NEW k,
         k = [pc |-> pc, expected |-> e, status |-> st, got |-> g, auth |-> a]
  PROVE  k \in CallRecords /\ k.pc = pc /\ k.expected = e /\ k.status = st /\ k.got = g
         /\ k.auth = a
  BY DEF CallRecords

LEMMA LinkFields ==
  ASSUME NEW l \in LinkRecords
  PROVE  /\ l.up \in Nat /\ l.down \in Seq(FrameRecords) /\ l.client \in BOOLEAN
         /\ l.server \in BOOLEAN /\ l.cut \in BOOLEAN
         /\ l = [up |-> l.up, down |-> l.down, client |-> l.client, server |-> l.server,
                 cut |-> l.cut]
  BY DEF LinkRecords

LEMMA LinkRecord ==
  ASSUME NEW u \in Nat, NEW d \in Seq(FrameRecords), NEW cl \in BOOLEAN, NEW sv \in BOOLEAN,
         NEW ct \in BOOLEAN, NEW l,
         l = [up |-> u, down |-> d, client |-> cl, server |-> sv, cut |-> ct]
  PROVE  l \in LinkRecords /\ l.up = u /\ l.down = d /\ l.client = cl /\ l.server = sv
         /\ l.cut = ct
  BY DEF LinkRecords

LEMMA HandlerFields ==
  ASSUME NEW h \in HandlerRecords
  PROVE  /\ h.pc \in HandlerPcs /\ h.seq \in Nat /\ h.wrote \in Seq(FrameRecords)
         /\ h.status \in Statuses /\ h.cancelled \in BOOLEAN
         /\ h = [pc |-> h.pc, seq |-> h.seq, wrote |-> h.wrote, status |-> h.status,
                 cancelled |-> h.cancelled]
  BY DEF HandlerRecords

LEMMA HandlerRecord ==
  ASSUME NEW pc \in HandlerPcs, NEW q \in Nat, NEW w \in Seq(FrameRecords),
         NEW st \in Statuses, NEW ca \in BOOLEAN, NEW h,
         h = [pc |-> pc, seq |-> q, wrote |-> w, status |-> st, cancelled |-> ca]
  PROVE  h \in HandlerRecords /\ h.pc = pc /\ h.seq = q /\ h.wrote = w /\ h.status = st
         /\ h.cancelled = ca
  BY DEF HandlerRecords

LEMMA FrameRecord ==
  ASSUME NEW n \in Nat, NEW final \in BOOLEAN, NEW body \in BOOLEAN, NEW st \in Statuses
  PROVE  /\ Frame(n, final, body, st) \in FrameRecords
         /\ Frame(n, final, body, st).n = n /\ Frame(n, final, body, st).final = final
         /\ Frame(n, final, body, st).body = body /\ Frame(n, final, body, st).status = st
  BY DEF Frame, FrameRecords

-----------------------------------------------------------------------------
(* TaskLink: the inductive invariant *)

\* UnderWay on the records of a call.
Busy(k, l, h) ==
  k.pc \in {"sending", "waiting"} \/ l.server = TRUE \/ h.pc \notin {"none", "closed"}

\* The handler has yet to look at the task.
Early == {"none", "reading", "checking", "storing"}

\* Frames are numbered as they are written.
Written(h) ==
  /\ h.seq = Len(h.wrote) + 1
  /\ \A n \in DOMAIN h.wrote : h.wrote[n].n = n
  /\ h.pc \in Early => h.wrote = <<>>

\* What is neither broken nor closed at one of its ends.
Intact(l) == l.cut = FALSE /\ l.client = TRUE /\ l.server = TRUE

\* What is under way to a call continues what it has taken, without a gap; only a broken
\* connection, or one that was closed, carries less than was written.
Carries(k, l, h) ==
  /\ k.expected >= 1 /\ k.expected - 1 + Len(l.down) <= Len(h.wrote)
  /\ \A i \in DOMAIN l.down : l.down[i] = h.wrote[k.expected - 1 + i]
  /\ Intact(l) => k.expected - 1 + Len(l.down) = Len(h.wrote)

\* A call takes nothing behind the first final frame, which ends it.
EndsInTime(k, h) ==
  \A i \in 1..(k.expected - 1) :
    h.wrote[i].final = TRUE => i = k.expected - 1 /\ k.pc = "done"

StreamOK(k, l, h) ==
  /\ Written(h) /\ Carries(k, l, h) /\ EndsInTime(k, h)
  /\ AreFirst(k.got, h.wrote, k.expected - 1)
  /\ k.status # "REJECTED"
  /\ k.status = "OK" => k.expected > 1 /\ h.wrote[k.expected - 1].final = TRUE

TaskOK(k, l, h) ==
  /\ h.wrote = <<>> /\ k.got = <<>>
  /\ h.pc # "closed" => l.down = <<>> /\ h.status = "none"
  /\ \A i \in DOMAIN l.down : l.down[i].status = h.status
  /\ k.status \in {"OK", "REJECTED"} => h.status = k.status

CallOK(m, k, l, h) ==
  /\ k.pc \in {"unused", "idle"} => h.pc = "none" /\ l.server = FALSE /\ k.status = "none"
  /\ k.pc \in {"sending", "waiting"} => l.client = TRUE
  /\ m = "stream" => StreamOK(k, l, h)
  /\ m = "task" => TaskOK(k, l, h)

\* A call that is alone has the highest number of all, until its handler has stored it.
Numbers ==
  /\ receiver.lastAuth < nextAuth
  /\ \A c \in Calls : call[c].auth < nextAuth
  /\ \A c \in Calls : UnderWay(c) /\ c \notin overlapped =>
       /\ \A d \in Calls \ {c} : ~UnderWay(d)
       /\ handler[c].pc \in Early => call[c].auth > receiver.lastAuth

LinkInv ==
  /\ LinkTypes /\ Numbers
  /\ \A c \in Calls : CallOK(mode, call[c], link[c], handler[c])

LEMMA BusyIsUnderWay ==
  ASSUME LinkTypes, NEW c \in Calls
  PROVE  UnderWay(c) <=> Busy(call[c], link[c], handler[c])
<1>1. link[c].server \in BOOLEAN
  BY LinkFields DEF LinkTypes
<1>2. link[c].server <=> link[c].server = TRUE
  BY <1>1
<1> QED BY <1>2, Zenon DEF UnderWay, Busy

\* A step of one call that draws no number and stores none.
LEMMA CallKeeps ==
  ASSUME LinkInv, NEW c \in Calls, NEW k \in CallRecords, NEW l \in LinkRecords,
         NEW h \in HandlerRecords,
         call' = [call EXCEPT ![c] = k], link' = [link EXCEPT ![c] = l],
         handler' = [handler EXCEPT ![c] = h], UNCHANGED <<mode, nextAuth, overlapped>>,
         ReceiverOK', receiver'.lastAuth = receiver.lastAuth,
         CallOK(mode, k, l, h), k.auth = call[c].auth,
         Busy(k, l, h) => Busy(call[c], link[c], handler[c]),
         h.pc \in Early => handler[c].pc \in Early
  PROVE  LinkInv'
<1>1. /\ call \in [Calls -> CallRecords] /\ link \in [Calls -> LinkRecords]
      /\ handler \in [Calls -> HandlerRecords]
  BY DEF LinkInv, LinkTypes
<1>2. LinkTypes'
  BY <1>1 DEF LinkInv, LinkTypes
<1>3. /\ call'[c] = k /\ link'[c] = l /\ handler'[c] = h
      /\ \A d \in Calls \ {c} : /\ call'[d] = call[d] /\ link'[d] = link[d]
                                /\ handler'[d] = handler[d]
  BY <1>1
<1>4. \A d \in Calls : UnderWay(d) <=> Busy(call[d], link[d], handler[d])
  BY BusyIsUnderWay DEF LinkInv
<1>5. \A d \in Calls : UnderWay(d)' <=> Busy(call'[d], link'[d], handler'[d])
  <2>1. ASSUME NEW d \in Calls
        PROVE  UnderWay(d)' <=> Busy(call'[d], link'[d], handler'[d])
    <3>1. link'[d].server \in BOOLEAN
      BY <1>2, LinkFields DEF LinkTypes
    <3>2. link'[d].server <=> link'[d].server = TRUE
      BY <3>1
    <3> QED BY <3>2, Zenon DEF UnderWay, Busy
  <2> QED BY <2>1
<1>6. \A d \in Calls : UnderWay(d)' => UnderWay(d)
  BY <1>3, <1>4, <1>5, Zenon
<1>7. Numbers'
  <2>1. \A d \in Calls : call'[d].auth = call[d].auth
                         /\ (handler'[d].pc \in Early => handler[d].pc \in Early)
    BY <1>3, Zenon
  <2>2. receiver'.lastAuth < nextAuth' /\ \A d \in Calls : call'[d].auth < nextAuth'
    BY <2>1 DEF LinkInv, Numbers
  <2>3. ASSUME NEW d \in Calls, UnderWay(d)', d \notin overlapped'
        PROVE  /\ \A e \in Calls \ {d} : ~UnderWay(e)'
               /\ handler'[d].pc \in Early => call'[d].auth > receiver'.lastAuth
    BY <1>6, <2>1, <2>3 DEF LinkInv, Numbers
  <2> QED BY <2>2, <2>3, Zenon DEF Numbers
<1>8. \A d \in Calls : CallOK(mode', call'[d], link'[d], handler'[d])
  BY <1>3, Zenon DEF LinkInv
<1> QED BY <1>2, <1>7, <1>8 DEF LinkInv

LEMMA TypedCall ==
  ASSUME LinkInv, NEW c \in Calls
  PROVE  /\ call[c] \in CallRecords /\ link[c] \in LinkRecords
         /\ handler[c] \in HandlerRecords
         /\ CallOK(mode, call[c], link[c], handler[c])
         /\ call = [call EXCEPT ![c] = call[c]] /\ link = [link EXCEPT ![c] = link[c]]
         /\ handler = [handler EXCEPT ![c] = handler[c]]
         /\ ReceiverOK
  BY DEF LinkInv, LinkTypes

\* A step of the sender alone.
LEMMA SenderKeeps ==
  ASSUME LinkInv, NEW c \in Calls, NEW k \in CallRecords, NEW l \in LinkRecords,
         call' = [call EXCEPT ![c] = k], link' = [link EXCEPT ![c] = l],
         UNCHANGED <<mode, handler, receiver, nextAuth, overlapped>>,
         CallOK(mode, k, l, handler[c]), k.auth = call[c].auth,
         l.server = link[c].server,
         k.pc \in {"sending", "waiting"} => call[c].pc \in {"sending", "waiting"}
  PROVE  LinkInv'
<1>1. PICK h \in HandlerRecords : h = handler[c]
  BY TypedCall
<1>2. ReceiverOK'
  BY TypedCall DEF ReceiverOK
<1>3. handler' = [handler EXCEPT ![c] = h]
  BY <1>1, TypedCall
<1>4. Busy(k, l, h) => Busy(call[c], link[c], handler[c])
  BY <1>1 DEF Busy
<1>5. CallOK(mode, k, l, h)
  BY <1>1
<1> QED BY <1>1, <1>2, <1>3, <1>4, <1>5, CallKeeps

LEMMA ReturnKeeps ==
  ASSUME LinkInv, NEW c \in Calls, NEW st \in Statuses, Return(c, st),
         st = "FAILED" \/ (mode = "task" /\ st = handler[c].status)
  PROVE  LinkInv'
<1>1. PICK k \in CallRecords, l \in LinkRecords, h \in HandlerRecords :
        k = call[c] /\ l = link[c] /\ h = handler[c]
  BY TypedCall
<1>2. CallOK(mode, k, l, h)
  BY <1>1, TypedCall
<1>3. PICK no \in BOOLEAN : no = FALSE
  OBVIOUS
<1>4. PICK k2, l2 : k2 = [k EXCEPT !.pc = "done", !.status = st] /\ l2 = [l EXCEPT !.client = no]
  OBVIOUS
<1>5. /\ call' = [call EXCEPT ![c] = k2]
      /\ UNCHANGED <<mode, handler, receiver, nextAuth, overlapped>>
  <2>1. call' = [call EXCEPT ![c].pc = "done", ![c].status = st]
    BY Zenon DEF Return
  <2>2. [call EXCEPT ![c].pc = "done", ![c].status = st] = [call EXCEPT ![c] = k2]
    BY <1>1, <1>4 DEF LinkInv, LinkTypes
  <2> QED BY <2>1, <2>2 DEF Return
<1>6. link' = [link EXCEPT ![c] = l2]
  BY <1>1, <1>3, <1>4, Zenon DEF Return
<1>7. k2 = [pc |-> "done", expected |-> k.expected, status |-> st, got |-> k.got,
            auth |-> k.auth]
  <2>1. k2 = [k EXCEPT !.pc = "done", !.status = st]
    BY <1>4
  <2> QED BY ONLY k \in CallRecords, <2>1 DEF CallRecords
<1>8. l2 = [up |-> l.up, down |-> l.down, client |-> no, server |-> l.server, cut |-> l.cut]
  BY <1>4, LinkFields
<1>9. /\ k2 \in CallRecords /\ k2.pc = "done" /\ k2.expected = k.expected /\ k2.status = st
      /\ k2.got = k.got /\ k2.auth = k.auth
  <2>1. "done" \in CallPcs
    BY DEF CallPcs
  <2> QED BY <1>7, <2>1, CallFields, CallRecord
<1>10. /\ l2 \in LinkRecords /\ l2.down = l.down /\ l2.server = l.server /\ l2.cut = l.cut
       /\ l2.client = no
  BY <1>8, LinkFields, LinkRecord
<1>11. CASE mode = "stream"
  <2>1. StreamOK(k2, l2, h)
    <3>1. ~Intact(l2)
      BY <1>3, <1>10, Zenon DEF Intact
    <3>2. StreamOK(k, l, h)
      BY <1>2, <1>11, Zenon DEF CallOK
    <3>3. Carries(k2, l2, h)
      BY <1>9, <1>10, <3>1, <3>2, Zenon DEF StreamOK, Carries
    <3>4. EndsInTime(k2, h)
      BY <1>9, <3>2, Zenon DEF StreamOK, EndsInTime
    <3>5. st = "FAILED" /\ st # "OK" /\ st # "REJECTED"
      BY <1>11
    <3> QED BY <1>9, <3>2, <3>3, <3>4, <3>5, Zenon DEF StreamOK
  <2> QED BY <1>1, <1>5, <1>6, <1>9, <1>10, <1>11, <2>1, SenderKeeps DEF CallOK
<1>12. CASE mode = "task"
  <2>1. TaskOK(k2, l2, h)
    BY <1>1, <1>2, <1>9, <1>10, <1>12 DEF CallOK, TaskOK
  <2> QED BY <1>1, <1>5, <1>6, <1>9, <1>10, <1>12, <2>1, SenderKeeps DEF CallOK
<1> QED BY <1>11, <1>12 DEF LinkInv, LinkTypes

LEMMA SendPartKeeps ==
  ASSUME LinkInv, NEW c \in Calls, SendPart(c)
  PROVE  LinkInv'
<1>1. PICK k \in CallRecords, l \in LinkRecords, h \in HandlerRecords :
        k = call[c] /\ l = link[c] /\ h = handler[c]
  BY TypedCall
<1>2. CallOK(mode, k, l, h) /\ k.pc = "sending"
  BY <1>1, TypedCall DEF SendPart
<1>3. PICK u, pc : /\ u = (IF link[c].cut THEN l.up ELSE l.up + 1)
                   /\ pc = (IF link[c].up = 1 \/ Broken(c) THEN "waiting" ELSE k.pc)
  OBVIOUS
<1>4. u \in Nat /\ pc \in {"sending", "waiting"} /\ pc \in CallPcs
  BY <1>1, <1>2, <1>3, LinkFields DEF CallPcs
<1>5. PICK k2, l2 : k2 = [k EXCEPT !.pc = pc] /\ l2 = [l EXCEPT !.up = u]
  OBVIOUS
<1>6. /\ call' = [call EXCEPT ![c] = k2] /\ link' = [link EXCEPT ![c] = l2]
      /\ UNCHANGED <<mode, handler, receiver, nextAuth, overlapped>>
  BY <1>1, <1>3, <1>5, Zenon DEF SendPart
<1>7. /\ k2 = [pc |-> pc, expected |-> k.expected, status |-> k.status, got |-> k.got,
               auth |-> k.auth]
      /\ l2 = [up |-> u, down |-> l.down, client |-> l.client, server |-> l.server,
               cut |-> l.cut]
  BY <1>5, CallFields, LinkFields
<1>8. /\ k2 \in CallRecords /\ k2.pc = pc /\ k2.expected = k.expected /\ k2.status = k.status
      /\ k2.got = k.got /\ k2.auth = k.auth
  BY <1>4, <1>7, CallFields, CallRecord
<1>9. /\ l2 \in LinkRecords /\ l2.down = l.down /\ l2.server = l.server /\ l2.cut = l.cut
      /\ l2.client = l.client
  BY <1>4, <1>7, LinkFields, LinkRecord
<1>10. CallOK(mode, k2, l2, h)
  <2>1. k.pc # "done"
    BY <1>2
  <2>2. Carries(k, l, h) => Carries(k2, l2, h)
    BY <1>8, <1>9, Zenon DEF Carries, Intact
  <2>3. EndsInTime(k, h) => EndsInTime(k2, h)
    BY <1>8, <2>1, Zenon DEF EndsInTime
  <2>4. StreamOK(k, l, h) => StreamOK(k2, l2, h)
    BY <1>8, <2>2, <2>3, Zenon DEF StreamOK
  <2>5. TaskOK(k, l, h) => TaskOK(k2, l2, h)
    BY <1>8, <1>9, Zenon DEF TaskOK
  <2> QED BY <1>2, <1>4, <1>8, <1>9, <2>4, <2>5 DEF CallOK
<1> QED BY <1>1, <1>2, <1>6, <1>8, <1>9, <1>10, SenderKeeps

\* One more frame taken, and its number delivered if it has a body.
LEMMA NextIsFirst ==
  ASSUME NEW taken \in Seq(Nat), NEW frames, NEW e \in Nat, e >= 1,
         AreFirst(taken, frames, e - 1)
  PROVE  /\ frames[e].body = TRUE => AreFirst(Append(taken, e), frames, e)
         /\ frames[e].body = FALSE => AreFirst(taken, frames, e)
<1>1. PICK n \in Nat : n = Len(taken)
  OBVIOUS
<1>2. \A i \in DOMAIN taken : taken[i] \in Nat /\ taken[i] < e
  <2>1. ASSUME NEW i \in DOMAIN taken
        PROVE  taken[i] \in 1..(e - 1)
    BY DEF AreFirst
  <2> QED BY <2>1
<1>3. CASE frames[e].body = TRUE
  <2>1. PICK g : g = Append(taken, e)
    OBVIOUS
  <2>2. /\ DOMAIN g = 1..(n + 1) /\ DOMAIN taken = 1..n /\ g[n + 1] = e
        /\ \A i \in 1..n : g[i] = taken[i]
    BY <1>1, <2>1
  <2>3. \A i, j \in DOMAIN g : i < j => g[i] < g[j]
    BY <1>2, <2>2 DEF AreFirst
  <2>4. {g[i] : i \in DOMAIN g} = {taken[i] : i \in DOMAIN taken} \cup {e}
    BY <2>2
  <2>5. {x \in 1..e : frames[x].body} = {x \in 1..(e - 1) : frames[x].body} \cup {e}
    <3>1. 1..e = (1..(e - 1)) \cup {e}
      OBVIOUS
    <3>2. frames[e].body
      BY <1>3
    <3> QED BY <3>1, <3>2
  <2>6. {taken[i] : i \in DOMAIN taken} = {x \in 1..(e - 1) : frames[x].body}
    BY Zenon DEF AreFirst
  <2>7. {g[i] : i \in DOMAIN g} = {x \in 1..e : frames[x].body}
    BY ONLY <2>4, <2>5, <2>6
  <2>8. AreFirst(g, frames, e)
    BY <2>3, <2>7, Zenon DEF AreFirst
  <2> QED BY <1>3, <2>1, <2>8
<1>4. CASE frames[e].body = FALSE
  <2>1. {x \in 1..e : frames[x].body} = {x \in 1..(e - 1) : frames[x].body}
    <3>1. 1..e = (1..(e - 1)) \cup {e}
      OBVIOUS
    <3>2. ~frames[e].body
      BY <1>4
    <3> QED BY <3>1, <3>2
  <2> QED BY <1>4, <2>1 DEF AreFirst
<1> QED BY <1>3, <1>4

LEMMA ReceiveChunkKeeps ==
  ASSUME LinkInv, NEW c \in Calls, ReceiveChunk(c)
  PROVE  LinkInv'
<1>1. PICK k \in CallRecords, l \in LinkRecords, h \in HandlerRecords :
        k = call[c] /\ l = link[c] /\ h = handler[c]
  BY TypedCall
<1>2. CallOK(mode, k, l, h) /\ mode = "stream" /\ k.pc = "waiting" /\ l.down # <<>>
  BY <1>1, TypedCall DEF ReceiveChunk, Incoming
<1>3. StreamOK(k, l, h)
  BY <1>2 DEF CallOK
<1>4. PICK e \in Nat, f \in FrameRecords, d \in Seq(FrameRecords) :
        e = k.expected /\ f = Head(l.down) /\ d = Tail(l.down)
  <2>1. l.down \in Seq(FrameRecords) /\ k.expected \in Nat
    BY CallFields, LinkFields
  <2>2. Head(l.down) \in FrameRecords /\ Tail(l.down) \in Seq(FrameRecords)
    BY <1>2, <2>1, HeadTailProperties
  <2> QED BY <2>1, <2>2
<1>5. PICK n \in Nat, m \in Nat : n = Len(l.down) /\ m = Len(h.wrote)
  BY LinkFields, HandlerFields
<1>6. /\ n >= 1 /\ Len(d) = n - 1 /\ DOMAIN l.down = 1..n /\ DOMAIN h.wrote = 1..m
      /\ f = l.down[1] /\ \A i \in 1..(n - 1) : d[i] = l.down[i + 1]
  BY <1>2, <1>4, <1>5, LinkFields, HandlerFields
<1>7. e >= 1 /\ e - 1 + n <= m /\ f = h.wrote[e] /\ f.n = e /\ e <= m
  <2>1. e >= 1 /\ e - 1 + n <= m
    BY <1>3, <1>4, <1>5 DEF StreamOK, Carries
  <2>2. f = h.wrote[e]
    <3>1. 1 \in DOMAIN l.down /\ e - 1 + 1 = e
      BY <1>6
    <3>2. l.down[1] = h.wrote[e - 1 + 1]
      BY <1>3, <1>4, <3>1 DEF StreamOK, Carries
    <3> QED BY <1>6, <3>1, <3>2
  <2>3. e \in DOMAIN h.wrote /\ e <= m
    BY <1>6, <2>1
  <2>4. f.n = e
    BY <1>3, <2>2, <2>3, Zenon DEF StreamOK, Written
  <2> QED BY <2>1, <2>2, <2>3, <2>4
<1>8. ~(f.n < k.expected)
  BY <1>4, <1>7
<1>9. PICK g : g = Delivered(c, f)
  OBVIOUS
<1>10. f.body \in BOOLEAN /\ f.final \in BOOLEAN
  BY DEF FrameRecords
<1>11. g \in Seq(Nat) /\ AreFirst(g, h.wrote, e)
  <2>1. k.got \in Seq(Nat) /\ AreFirst(k.got, h.wrote, e - 1)
    BY <1>3, <1>4, CallFields DEF StreamOK
  <2>2. CASE f.body = TRUE
    <3>1. g = Append(k.got, e)
      BY <1>1, <1>7, <1>9, <2>2 DEF Delivered
    <3>2. h.wrote[e].body = TRUE /\ e \in Nat /\ e >= 1
      BY <1>7, <2>2, Zenon
    <3>3. AreFirst(Append(k.got, e), h.wrote, e)
      BY <2>1, <3>2, NextIsFirst, Zenon
    <3>4. Append(k.got, e) \in Seq(Nat)
      BY <2>1
    <3> QED BY <3>1, <3>3, <3>4, Zenon
  <2>3. CASE f.body = FALSE
    <3>1. g = k.got
      BY <1>1, <1>9, <2>3 DEF Delivered
    <3>2. h.wrote[e].body = FALSE /\ e \in Nat /\ e >= 1
      BY <1>7, <2>3, Zenon
    <3>3. AreFirst(k.got, h.wrote, e)
      BY <2>1, <3>2, NextIsFirst, Zenon
    <3> QED BY <2>1, <3>1, <3>3, Zenon
  <2> QED BY <1>10, <2>2, <2>3
<1>12. PICK pc \in CallPcs, st \in Statuses, open \in BOOLEAN :
         /\ pc = (IF f.final THEN "done" ELSE k.pc) /\ st = (IF f.final THEN "OK" ELSE k.status)
         /\ open = ~f.final
  BY <1>10, CallFields DEF CallPcs, Statuses
<1>13. PICK k2, l2 :
         /\ k2 = [k EXCEPT !.expected = f.n + 1, !.got = g, !.pc = pc, !.status = st]
         /\ l2 = [l EXCEPT !.down = d, !.client = open]
  OBVIOUS
<1>14. /\ call' = [call EXCEPT
             ![c].expected = IF f.n < call[c].expected THEN @ ELSE f.n + 1,
             ![c].got = IF f.n < call[c].expected THEN @ ELSE Delivered(c, f),
             ![c].pc = IF f.final THEN "done" ELSE @,
             ![c].status = IF f.final THEN "OK" ELSE @]
       /\ link' = [link EXCEPT ![c].down = Tail(@), ![c].client = ~f.final]
       /\ UNCHANGED <<mode, handler, receiver, nextAuth, overlapped>>
  BY <1>1, <1>4, Zenon DEF ReceiveChunk
<1>15. call' = [call EXCEPT ![c] = k2]
  BY <1>1, <1>8, <1>9, <1>12, <1>13, <1>14, Zenon
<1>16. link' = [link EXCEPT ![c] = l2]
  BY <1>1, <1>4, <1>12, <1>13, <1>14, Zenon
<1>17. k2 = [pc |-> pc, expected |-> e + 1, status |-> st, got |-> g, auth |-> k.auth]
  BY <1>7, <1>13 DEF CallRecords
<1>18. l2 = [up |-> l.up, down |-> d, client |-> open, server |-> l.server, cut |-> l.cut]
  BY <1>13 DEF LinkRecords
<1>19. /\ k2 \in CallRecords /\ k2.pc = pc /\ k2.expected = e + 1 /\ k2.status = st
       /\ k2.got = g /\ k2.auth = k.auth
  <2>1. PICK x \in Nat, a \in Nat : x = e + 1 /\ a = k.auth
    BY CallFields
  <2>2. g \in Seq(Nat) /\ k2 = [pc |-> pc, expected |-> x, status |-> st, got |-> g, auth |-> a]
    BY <1>11, <1>17, <2>1, Zenon
  <2>3. k2 \in CallRecords /\ k2.pc = pc /\ k2.expected = x /\ k2.status = st
        /\ k2.got = g /\ k2.auth = a
    BY <2>2, CallRecord
  <2> QED BY <2>1, <2>3, Zenon
<1>20. /\ l2 \in LinkRecords /\ l2.down = d /\ l2.server = l.server /\ l2.cut = l.cut
       /\ l2.client = open
  BY <1>18, LinkFields, LinkRecord
<1>21. Carries(k2, l2, h)
  <2>1. \A i \in DOMAIN d : d[i] = h.wrote[e + i]
    <3>1. DOMAIN d = 1..(n - 1)
      BY <1>6
    <3>2. ASSUME NEW i \in 1..(n - 1)
          PROVE  d[i] = h.wrote[e + i]
      <4>1. i + 1 \in DOMAIN l.down /\ d[i] = l.down[i + 1]
        BY <1>6
      <4>2. l.down[i + 1] = h.wrote[e - 1 + (i + 1)]
        BY <1>3, <1>4, <4>1 DEF StreamOK, Carries
      <4>3. e - 1 + (i + 1) = e + i
        OBVIOUS
      <4> QED BY <4>1, <4>2, <4>3
    <3> QED BY <3>1, <3>2
  <2>2. Intact(l2) => Intact(l)
    <3>1. l.client = TRUE
      BY <1>2 DEF CallOK
    <3> QED BY <1>20, <3>1, Zenon DEF Intact
  <2>3. Intact(l2) => e - 1 + n = m
    BY <1>3, <1>4, <1>5, <2>2, Zenon DEF StreamOK, Carries
  <2>4. e + 1 >= 1 /\ (e + 1) - 1 + Len(d) <= m /\ (Intact(l2) => (e + 1) - 1 + Len(d) = m)
    BY <1>6, <1>7, <2>3
  <2>5. (e + 1) - 1 = e
    OBVIOUS
  <2> QED BY <1>5, <1>19, <1>20, <2>1, <2>4, <2>5, Zenon DEF Carries
<1>22. StreamOK(k2, l2, h)
  <2>1. k2.expected - 1 = e
    BY <1>19
  <2>2. Written(h) /\ k.status # "REJECTED" /\ k.pc # "done"
    BY <1>2, <1>3 DEF StreamOK
  <2>3. \A i \in 1..(e - 1) : ~(h.wrote[i].final = TRUE)
    BY <1>3, <1>4, <2>2, Zenon DEF StreamOK, EndsInTime
  <2>4. st # "REJECTED" /\ (st = "OK" => f.final = TRUE)
    <3>1. k.status # "OK"
      <4>1. ASSUME k.status = "OK"
            PROVE  FALSE
        <5>1. e > 1 /\ h.wrote[e - 1].final = TRUE
          BY <1>3, <1>4, <4>1, Zenon DEF StreamOK
        <5>2. e - 1 \in 1..(e - 1)
          BY <5>1
        <5> QED BY <2>3, <5>1, <5>2
      <4> QED BY <4>1
    <3>2. f.final \in BOOLEAN
      BY <1>10
    <3> QED BY <1>12, <2>2, <3>1, <3>2, Zenon
  <2>5. st = "OK" => e + 1 > 1 /\ h.wrote[e].final = TRUE
    <3>1. e + 1 > 1
      BY <1>7
    <3> QED BY <1>7, <2>4, <3>1, Zenon
  <2>6. EndsInTime(k2, h)
    <3>1. ASSUME NEW i \in 1..e, h.wrote[i].final = TRUE
          PROVE  i = e /\ pc = "done"
      <4>1. i = e \/ i \in 1..(e - 1)
        OBVIOUS
      <4>2. i = e
        BY <2>3, <3>1, <4>1
      <4>3. f.final = TRUE
        BY <1>7, <3>1, <4>2, Zenon
      <4> QED BY <1>12, <4>2, <4>3
    <3> QED BY <1>19, <2>1, <3>1, Zenon DEF EndsInTime
  <2>7. k2.expected > 1 <=> e + 1 > 1
    BY <1>19
  <2> QED BY <1>11, <1>19, <1>21, <2>1, <2>2, <2>4, <2>5, <2>6, <2>7, Zenon DEF StreamOK
<1>23. CallOK(mode, k2, l2, h)
  <2>1. pc = "done" \/ (pc = "waiting" /\ open = TRUE)
    BY <1>2, <1>10, <1>12, Zenon
  <2> QED BY <1>2, <1>19, <1>20, <1>22, <2>1 DEF CallOK
<1>24. pc \in {"done", "waiting"}
  BY <1>2, <1>12
<1>25. /\ CallOK(mode, k2, l2, handler[c]) /\ k2.auth = call[c].auth
       /\ l2.server = link[c].server
       /\ k2.pc \in {"sending", "waiting"} => call[c].pc \in {"sending", "waiting"}
  BY <1>1, <1>2, <1>19, <1>20, <1>23, Zenon
<1> QED BY <1>14, <1>15, <1>16, <1>19, <1>20, <1>25, SenderKeeps, ZenonT(60)

-----------------------------------------------------------------------------
(* TaskLink: the steps of the network and of a handler *)

\* A step that leaves the call's own record alone.
LEMMA OtherEndKeeps ==
  ASSUME LinkInv, NEW c \in Calls, NEW l \in LinkRecords, NEW h \in HandlerRecords,
         link' = [link EXCEPT ![c] = l], handler' = [handler EXCEPT ![c] = h],
         UNCHANGED <<mode, call, nextAuth, overlapped>>,
         ReceiverOK', receiver'.lastAuth = receiver.lastAuth,
         CallOK(mode, call[c], l, h),
         l.server = TRUE => link[c].server = TRUE,
         h.pc \notin {"none", "closed"} =>
           link[c].server = TRUE \/ handler[c].pc \notin {"none", "closed"},
         h.pc \in Early => handler[c].pc \in Early
  PROVE  LinkInv'
<1>1. PICK k \in CallRecords : k = call[c]
  BY TypedCall
<1>2. call' = [call EXCEPT ![c] = k]
  BY <1>1, TypedCall
<1>3. Busy(k, l, h) => Busy(call[c], link[c], handler[c])
  BY <1>1, Zenon DEF Busy
<1>4. CallOK(mode, k, l, h) /\ k.auth = call[c].auth
  BY <1>1
<1> QED BY <1>2, <1>3, <1>4, CallKeeps

LEMMA BreakKeeps ==
  ASSUME LinkInv, NEW c \in Calls, Break(c)
  PROVE  LinkInv'
<1>1. PICK k \in CallRecords, l \in LinkRecords, h \in HandlerRecords :
        k = call[c] /\ l = link[c] /\ h = handler[c]
  BY TypedCall
<1>2. CallOK(mode, k, l, h)
  BY <1>1, TypedCall
<1>3. PICK n \in 0..Len(l.down) :
        link' = [link EXCEPT ![c].cut = TRUE, ![c].down = SubSeq(@, 1, n)]
  BY <1>1, Zenon DEF Break
<1>4. PICK yes \in BOOLEAN : yes = TRUE
  OBVIOUS
<1>4a. PICK d : d = SubSeq(l.down, 1, n)
  OBVIOUS
<1>5. PICK l2 : l2 = [l EXCEPT !.cut = yes, !.down = d]
  OBVIOUS
<1>6. link' = [link EXCEPT ![c] = l2]
  BY <1>1, <1>3, <1>4, <1>4a, <1>5, Zenon
<1>7. /\ d \in Seq(FrameRecords) /\ Len(d) = n /\ n <= Len(l.down) /\ DOMAIN d = 1..n
      /\ \A i \in 1..n : i \in DOMAIN l.down /\ d[i] = l.down[i]
  <2>1. PICK s \in Seq(FrameRecords), w \in Nat : s = l.down /\ w = Len(s)
    BY LinkFields
  <2>2. d = SubSeq(s, 1, n) /\ n \in 0..w
    BY <1>4a, <2>1, Zenon
  <2>3. DOMAIN s = 1..w
    BY <2>1
  <2>4. d \in Seq(FrameRecords) /\ Len(d) = n /\ \A i \in 1..n : d[i] = s[i]
    BY <2>1, <2>2, <2>3
  <2>5. n <= w /\ DOMAIN d = 1..n /\ \A i \in 1..n : i \in DOMAIN s
    <3>1. n \in Nat /\ n <= w
      BY <2>2
    <3> QED BY <2>3, <2>4, <3>1
  <2> QED BY <2>1, <2>4, <2>5, Zenon
<1>8. l2 = [up |-> l.up, down |-> d, client |-> l.client, server |-> l.server, cut |-> yes]
  BY <1>5 DEF LinkRecords
<1>9. /\ l2 \in LinkRecords /\ l2.down = d /\ l2.client = l.client /\ l2.server = l.server
      /\ l2.cut = yes
  BY <1>7, <1>8, LinkFields, LinkRecord
<1>10. ASSUME mode = "stream"
       PROVE  CallOK(mode, k, l2, h)
  <2>1. Carries(k, l, h) /\ StreamOK(k, l, h)
    BY <1>2, <1>10 DEF CallOK, StreamOK
  <2>2. ~Intact(l2)
    BY <1>4, <1>9, Zenon DEF Intact
  <2>3. k.expected - 1 + Len(l2.down) <= Len(h.wrote)
    <3>1. /\ k.expected \in Nat /\ Len(h.wrote) \in Nat /\ Len(l.down) \in Nat
          /\ k.expected - 1 + Len(l.down) <= Len(h.wrote)
      BY <2>1, CallFields, HandlerFields, LinkFields DEF Carries
    <3>2. Len(l2.down) = n /\ n \in Nat /\ n <= Len(l.down)
      BY <1>7, <1>9
    <3> QED BY ONLY <3>1, <3>2
  <2>4. \A i \in DOMAIN l2.down : l2.down[i] = h.wrote[k.expected - 1 + i]
    BY <1>7, <1>9, <2>1, Zenon DEF Carries
  <2>5. Carries(k, l2, h)
    BY <2>1, <2>2, <2>3, <2>4, Zenon DEF Carries
  <2>6. StreamOK(k, l2, h)
    BY <2>1, <2>5, Zenon DEF StreamOK
  <2> QED BY <1>2, <1>9, <1>10, <2>6, Zenon DEF CallOK
<1>11. ASSUME mode = "task"
       PROVE  CallOK(mode, k, l2, h)
  <2>1. TaskOK(k, l, h)
    BY <1>2, <1>11 DEF CallOK
  <2>2. l.down = <<>> => l2.down = <<>>
    BY <1>7, <1>9
  <2>3. \A i \in DOMAIN l2.down : l2.down[i].status = h.status
    BY <1>7, <1>9, <2>1, Zenon DEF TaskOK
  <2>4. TaskOK(k, l2, h)
    BY <2>1, <2>2, <2>3, Zenon DEF TaskOK
  <2> QED BY <1>2, <1>9, <1>11, <2>4, Zenon DEF CallOK
<1>12. CallOK(mode, k, l2, h)
  BY <1>10, <1>11 DEF LinkInv, LinkTypes
<1>13. UNCHANGED <<mode, call, handler, receiver, nextAuth, overlapped>>
  BY Zenon DEF Break
<1> QED BY <1>1, <1>6, <1>9, <1>12, <1>13, TypedCall, OtherEndKeeps DEF ReceiverOK

LEMMA GoesKeeps ==
  ASSUME LinkInv, NEW c \in Calls, NEW pc \in {"checking", "storing"}, HandlerGoes(c, pc),
         handler[c].pc \in {"reading", "checking"}
  PROVE  LinkInv'
<1>1. PICK k \in CallRecords, l \in LinkRecords, h \in HandlerRecords :
        k = call[c] /\ l = link[c] /\ h = handler[c]
  BY TypedCall
<1>2. CallOK(mode, k, l, h) /\ h.pc \in {"reading", "checking"} /\ pc \in HandlerPcs
  BY <1>1, TypedCall DEF HandlerPcs
<1>3. PICK h2 : h2 = [h EXCEPT !.pc = pc]
  OBVIOUS
<1>4. handler' = [handler EXCEPT ![c] = h2] /\ link' = [link EXCEPT ![c] = l]
  BY <1>1, <1>3, TypedCall, Zenon DEF HandlerGoes
<1>5. h2 = [pc |-> pc, seq |-> h.seq, wrote |-> h.wrote, status |-> h.status,
            cancelled |-> h.cancelled]
  BY <1>3 DEF HandlerRecords
<1>6. /\ h2 \in HandlerRecords /\ h2.pc = pc /\ h2.seq = h.seq /\ h2.wrote = h.wrote
      /\ h2.status = h.status
  BY <1>2, <1>5, HandlerFields, HandlerRecord
<1>7. /\ pc \in Early /\ pc \notin {"none", "closed"} /\ h.pc \in Early
      /\ h.pc \notin {"none", "closed"}
  BY <1>2 DEF Early
<1>8. StreamOK(k, l, h) => StreamOK(k, l, h2)
  BY <1>6, <1>7, ZenonT(60) DEF StreamOK, Written, Carries, EndsInTime
<1>9. TaskOK(k, l, h) => TaskOK(k, l, h2)
  BY <1>6, <1>7, Zenon DEF TaskOK
<1>10. CallOK(mode, k, l, h2)
  BY <1>2, <1>7, <1>8, <1>9, Zenon DEF CallOK
<1>11. UNCHANGED <<mode, call, receiver, nextAuth, overlapped>> /\ ReceiverOK'
  BY TypedCall DEF HandlerGoes, ReceiverOK
<1>12. /\ CallOK(mode, call[c], l, h2)
       /\ l.server = TRUE => link[c].server = TRUE
       /\ handler[c].pc \notin {"none", "closed"} /\ handler[c].pc \in Early
  BY <1>1, <1>7, <1>10, Zenon
<1> QED BY <1>4, <1>6, <1>11, <1>12, OtherEndKeeps

LEMMA ClosesKeeps ==
  ASSUME LinkInv, NEW c \in Calls, HandlerCloses(c),
         handler[c].pc \in {"reading", "checking", "running"}
  PROVE  LinkInv'
<1>1. PICK k \in CallRecords, l \in LinkRecords, h \in HandlerRecords :
        k = call[c] /\ l = link[c] /\ h = handler[c]
  BY TypedCall
<1>2. CallOK(mode, k, l, h) /\ h.pc \in {"reading", "checking", "running"}
  BY <1>1, TypedCall
<1>3. PICK no \in BOOLEAN : no = FALSE
  OBVIOUS
<1>4. PICK h2, l2 : h2 = [h EXCEPT !.pc = "closed"] /\ l2 = [l EXCEPT !.server = no]
  OBVIOUS
<1>5. handler' = [handler EXCEPT ![c] = h2] /\ link' = [link EXCEPT ![c] = l2]
  BY <1>1, <1>3, <1>4, Zenon DEF HandlerCloses
<1>6. /\ h2 = [pc |-> "closed", seq |-> h.seq, wrote |-> h.wrote, status |-> h.status,
               cancelled |-> h.cancelled]
      /\ l2 = [up |-> l.up, down |-> l.down, client |-> l.client, server |-> no,
               cut |-> l.cut]
  BY <1>4 DEF HandlerRecords, LinkRecords
<1>7. /\ h2 \in HandlerRecords /\ h2.pc = "closed" /\ h2.seq = h.seq /\ h2.wrote = h.wrote
      /\ h2.status = h.status
  <2>1. "closed" \in HandlerPcs
    BY DEF HandlerPcs
  <2> QED BY <1>6, <2>1, HandlerFields, HandlerRecord
<1>8. /\ l2 \in LinkRecords /\ l2.down = l.down /\ l2.server = no /\ l2.cut = l.cut
      /\ l2.client = l.client
  BY <1>6, LinkFields, LinkRecord
<1>9. /\ h.pc \notin {"none", "closed"} /\ "closed" \notin Early /\ "closed" # "none"
  BY <1>2 DEF Early
<1>10. StreamOK(k, l, h) => StreamOK(k, l2, h2)
  <2>1. Written(h) => Written(h2)
    BY <1>7, <1>9, Zenon DEF Written
  <2>2. ~Intact(l2)
    BY <1>3, <1>8, Zenon DEF Intact
  <2>3. Carries(k, l, h) => Carries(k, l2, h2)
    BY <1>7, <1>8, <2>2, Zenon DEF Carries
  <2>4. EndsInTime(k, h) => EndsInTime(k, h2)
    BY <1>7, Zenon DEF EndsInTime
  <2> QED BY <1>7, <2>1, <2>3, <2>4, Zenon DEF StreamOK
<1>11. TaskOK(k, l, h) => TaskOK(k, l2, h2)
  BY <1>7, <1>8, <1>9, Zenon DEF TaskOK
<1>12. CallOK(mode, k, l2, h2)
  BY <1>2, <1>8, <1>9, <1>10, <1>11, Zenon DEF CallOK
<1>13. UNCHANGED <<mode, call, receiver, nextAuth, overlapped>> /\ ReceiverOK'
  BY TypedCall DEF HandlerCloses, ReceiverOK
<1>14. /\ CallOK(mode, call[c], l2, h2) /\ ~(l2.server = TRUE)
       /\ h2.pc = "closed" /\ h2.pc \notin Early
  BY <1>1, <1>3, <1>7, <1>8, <1>9, <1>12, Zenon
<1> QED BY <1>5, <1>7, <1>8, <1>13, <1>14, OtherEndKeeps

LEMMA AnswerTaskKeeps ==
  ASSUME LinkInv, NEW c \in Calls, AnswerTask(c)
  PROVE  LinkInv'
<1>1. PICK k \in CallRecords, l \in LinkRecords, h \in HandlerRecords :
        k = call[c] /\ l = link[c] /\ h = handler[c]
  BY TypedCall
<1>2. CallOK(mode, k, l, h) /\ h.pc = "running" /\ mode = "task"
  BY <1>1, TypedCall DEF AnswerTask
<1>3. PICK no \in BOOLEAN, yes \in BOOLEAN : no = FALSE /\ yes = TRUE
  OBVIOUS
<1>4. PICK st \in {"OK", "REJECTED"} :
        /\ handler' = [handler EXCEPT ![c].pc = "closed", ![c].status = st]
        /\ link' = [link EXCEPT ![c].server = FALSE,
                      ![c].down = IF Gone(c) THEN @ ELSE Append(@, Frame(1, TRUE, TRUE, st))]
  BY Zenon DEF AnswerTask
<1>5. PICK f : f = Frame(1, yes, yes, st)
  OBVIOUS
<1>6. PICK d : d = (IF Gone(c) THEN l.down ELSE Append(l.down, f))
  OBVIOUS
<1>7. f \in FrameRecords /\ f.status = st /\ st \in Statuses
  BY <1>5, FrameRecord DEF Statuses
<1>8. PICK h2, l2 : /\ h2 = [h EXCEPT !.pc = "closed", !.status = st]
                    /\ l2 = [l EXCEPT !.server = no, !.down = d]
  OBVIOUS
<1>9. handler' = [handler EXCEPT ![c] = h2]
  BY <1>1, <1>4, <1>8, Zenon
<1>10. link' = [link EXCEPT ![c] = l2]
  BY <1>1, <1>3, <1>4, <1>5, <1>6, <1>8, Zenon
<1>11. /\ h2 = [pc |-> "closed", seq |-> h.seq, wrote |-> h.wrote, status |-> st,
                cancelled |-> h.cancelled]
       /\ l2 = [up |-> l.up, down |-> d, client |-> l.client, server |-> no, cut |-> l.cut]
  BY <1>8 DEF HandlerRecords, LinkRecords
<1>12. TaskOK(k, l, h) /\ l.down = <<>> /\ h.status = "none"
  <2>1. TaskOK(k, l, h)
    BY <1>2, Zenon DEF CallOK
  <2>2. h.pc # "closed"
    BY <1>2
  <2> QED BY <2>1, <2>2, Zenon DEF TaskOK
<1>13. d \in Seq(FrameRecords) /\ \A i \in DOMAIN d : d[i].status = st
  BY <1>6, <1>7, <1>12
<1>14. /\ h2 \in HandlerRecords /\ h2.pc = "closed" /\ h2.seq = h.seq /\ h2.wrote = h.wrote
       /\ h2.status = st
  <2>1. "closed" \in HandlerPcs
    BY DEF HandlerPcs
  <2> QED BY <1>7, <1>11, <2>1, HandlerFields, HandlerRecord
<1>15. /\ l2 \in LinkRecords /\ l2.down = d /\ l2.server = no /\ l2.cut = l.cut
       /\ l2.client = l.client
  BY <1>11, <1>13, LinkFields, LinkRecord
<1>16. TaskOK(k, l2, h2)
  <2>1. k.status \notin {"OK", "REJECTED"}
    BY <1>12 DEF TaskOK
  <2> QED BY <1>12, <1>13, <1>14, <1>15, <2>1, Zenon DEF TaskOK
<1>17. CallOK(mode, k, l2, h2)
  <2>1. h.pc # "none" /\ mode # "stream"
    BY <1>2
  <2> QED BY <1>2, <1>15, <1>16, <2>1, Zenon DEF CallOK
<1>18. UNCHANGED <<mode, call, receiver, nextAuth, overlapped>> /\ ReceiverOK'
  BY TypedCall DEF AnswerTask, ReceiverOK
<1>19. /\ CallOK(mode, call[c], l2, h2) /\ ~(l2.server = TRUE)
       /\ h2.pc = "closed" /\ h2.pc \notin Early
  <2>1. "closed" \notin Early
    BY DEF Early
  <2> QED BY <1>1, <1>3, <1>14, <1>15, <1>17, <2>1, Zenon
<1> QED BY <1>9, <1>10, <1>14, <1>15, <1>18, <1>19, OtherEndKeeps

\* What a chunk that is written does to the frames of its stream.
LEMMA OneMoreWritten ==
  ASSUME NEW k \in CallRecords, NEW l \in LinkRecords, NEW h \in HandlerRecords,
         StreamOK(k, l, h), h.pc = "running",
         NEW f \in FrameRecords, f.n = h.seq,
         NEW l2 \in LinkRecords, Intact(l2) <=> Intact(l),
         NEW h2 \in HandlerRecords, h2.pc = "running", h2.seq = h.seq + 1,
         h2.wrote = Append(h.wrote, f),
         \/ l2.down = Append(l.down, f) /\ Intact(l)
         \/ l2.down = l.down /\ ~Intact(l)
  PROVE  StreamOK(k, l2, h2)
<1>1. PICK w \in Seq(FrameRecords), m \in Nat, w2 \in Seq(FrameRecords) :
        w = h.wrote /\ m = Len(w) /\ w2 = Append(w, f)
  BY HandlerFields, SMTT(30)
<1>2. PICK d \in Seq(FrameRecords), n \in Nat, e \in Nat :
        d = l.down /\ n = Len(d) /\ e = k.expected
  <2>1. l.down \in Seq(FrameRecords) /\ k.expected \in Nat
    BY LinkFields, CallFields, Zenon
  <2>2. Len(l.down) \in Nat
    BY ONLY <2>1
  <2> QED BY <2>1, <2>2, Zenon
<1>3. /\ DOMAIN w = 1..m /\ DOMAIN w2 = 1..(m + 1) /\ Len(w2) = m + 1
      /\ w2[m + 1] = f /\ \A i \in 1..m : w2[i] = w[i]
  BY <1>1
<1>4. w2 = h2.wrote
  BY <1>1
<1>5. Written(h) /\ Carries(k, l, h) /\ AreFirst(k.got, w, e - 1) /\ k.status # "REJECTED"
  BY <1>1, <1>2, Zenon DEF StreamOK
<1>6. /\ e >= 1 /\ e - 1 + n <= m
      /\ \A i \in DOMAIN d : d[i] = w[e - 1 + i]
  BY <1>1, <1>2, <1>5 DEF Carries
<1>7. Intact(l) => e - 1 + n = m
  BY <1>1, <1>2, <1>5, Zenon DEF Carries
<1>8. f.n = m + 1 /\ h2.seq = m + 2
  <2>1. h.seq = m + 1
    BY <1>1, <1>5 DEF Written
  <2> QED BY <2>1
<1>9. Written(h2)
  <2>1. h2.seq = Len(w2) + 1
    BY <1>3, <1>8
  <2>2. ASSUME NEW i \in 1..m
        PROVE  w2[i].n = i
    <3>1. w2[i] = w[i] /\ i \in DOMAIN w
      BY <1>3
    <3> QED BY <1>1, <1>5, <3>1, Zenon DEF Written
  <2>3. ASSUME NEW i \in DOMAIN w2
        PROVE  w2[i].n = i
    <3>1. i = m + 1 \/ i \in 1..m
      BY <1>3
    <3> QED BY <1>3, <1>8, <2>2, <3>1, Zenon
  <2>4. h2.pc \notin Early
    BY DEF Early
  <2> QED BY <1>4, <2>1, <2>3, <2>4, Zenon DEF Written
<1>10. Carries(k, l2, h2)
  <2>1. CASE l2.down = l.down /\ ~Intact(l)
    <3>1. e - 1 + n <= m + 1
      BY <1>6
    <3>2. ASSUME NEW i \in DOMAIN d
          PROVE  d[i] = w2[e - 1 + i]
      <4>1. DOMAIN d = 1..n
        BY <1>2
      <4>2. e - 1 + i \in 1..m
        BY ONLY <1>6, <4>1, i \in DOMAIN d, e \in Nat, n \in Nat, m \in Nat
      <4>3. d[i] = w[e - 1 + i]
        BY <1>6
      <4> QED BY <1>3, <4>2, <4>3
    <3> QED BY <1>2, <1>3, <1>4, <1>6, <2>1, <3>1, <3>2, Zenon DEF Carries
  <2>2. CASE l2.down = Append(l.down, f) /\ Intact(l)
    <3>1. PICK d2 : d2 = Append(d, f)
      OBVIOUS
    <3>7. d2 = l2.down
      BY <1>2, <2>2, <3>1, Zenon
    <3>2. /\ DOMAIN d = 1..n /\ DOMAIN d2 = 1..(n + 1) /\ Len(d2) = n + 1 /\ d2[n + 1] = f
          /\ \A i \in 1..n : d2[i] = d[i]
      BY <1>2, <3>1
    <3>3. e - 1 + n = m
      BY <1>7, <2>2, Zenon
    <3>4. e - 1 + (n + 1) = m + 1
      BY <3>3
    <3>5. ASSUME NEW i \in DOMAIN d2
          PROVE  d2[i] = w2[e - 1 + i]
      <4>1. CASE i = n + 1
        BY <1>3, <3>2, <3>4, <4>1
      <4>2. CASE i \in 1..n
        <5>1. e - 1 + i \in 1..m /\ d[i] = w[e - 1 + i]
          BY <1>6, <3>2, <3>3, <4>2
        <5> QED BY <1>3, <3>2, <4>2, <5>1
      <4>3. i = n + 1 \/ i \in 1..n
        BY <3>2
      <4> QED BY <4>1, <4>2, <4>3
    <3>6. e - 1 + (n + 1) <= m + 1
      BY <3>4
    <3> QED BY <1>2, <1>3, <1>4, <1>6, <3>2, <3>4, <3>5, <3>6, <3>7, Zenon DEF Carries
  <2> QED BY <2>1, <2>2
<1>11. AreFirst(k.got, w2, e - 1)
  <2>1. \A i \in 1..(e - 1) : w2[i] = w[i]
    BY <1>3, <1>6
  <2>2. {i \in 1..(e - 1) : w2[i].body} = {i \in 1..(e - 1) : w[i].body}
    BY <2>1
  <2> QED BY <1>5, <2>2, Zenon DEF AreFirst
<1>12. \A i \in 1..(e - 1) : w2[i] = w[i]
  BY <1>3, <1>6
<1>13. EndsInTime(k, h2)
  BY <1>1, <1>2, <1>4, <1>12, Zenon DEF StreamOK, EndsInTime
<1>14. k.status = "OK" => e > 1 /\ w2[e - 1].final = TRUE
  <2>1. ASSUME k.status = "OK"
        PROVE  e > 1 /\ w2[e - 1].final = TRUE
    <3>1. e > 1 /\ w[e - 1].final = TRUE
      BY <1>1, <1>2, <2>1, Zenon DEF StreamOK
    <3>2. e - 1 \in 1..(e - 1)
      BY <3>1
    <3> QED BY <1>12, <3>1, <3>2
  <2> QED BY <2>1
<1> QED BY <1>2, <1>4, <1>5, <1>9, <1>10, <1>11, <1>13, <1>14, Zenon DEF StreamOK

LEMMA WriteChunkKeeps ==
  ASSUME LinkInv, NEW c \in Calls, WriteChunk(c)
  PROVE  LinkInv'
<1>1. PICK k \in CallRecords, l \in LinkRecords, h \in HandlerRecords :
        k = call[c] /\ l = link[c] /\ h = handler[c]
  BY TypedCall
<1>2. CallOK(mode, k, l, h) /\ h.pc = "running" /\ mode = "stream"
  BY <1>1, TypedCall DEF WriteChunk
<1>3. PICK final \in BOOLEAN, body \in BOOLEAN, fails \in BOOLEAN :
        /\ handler' = [handler EXCEPT ![c].seq = @ + 1,
                         ![c].wrote = Append(@, Frame(handler[c].seq, final, body, "OK")),
                         ![c].cancelled = fails]
        /\ link' = [link EXCEPT ![c].down =
                      IF Gone(c) THEN @ ELSE Append(@, Frame(handler[c].seq, final, body, "OK"))]
  BY Zenon DEF WriteChunk
<1>4. PICK f : f = Frame(h.seq, final, body, "OK")
  OBVIOUS
<1>5. f \in FrameRecords /\ f.n = h.seq
  BY <1>4, HandlerFields, FrameRecord DEF Statuses
<1>6. PICK d : d = (IF Gone(c) THEN l.down ELSE Append(l.down, f))
  OBVIOUS
<1>7. PICK q \in Nat, w \in Seq(FrameRecords) : q = h.seq + 1 /\ w = Append(h.wrote, f)
  <2>1. h.seq \in Nat /\ h.wrote \in Seq(FrameRecords)
    BY HandlerFields
  <2>2. h.seq + 1 \in Nat /\ Append(h.wrote, f) \in Seq(FrameRecords)
    BY ONLY <1>5, <2>1
  <2> QED BY <2>2, Zenon
<1>8. PICK h2, l2 : /\ h2 = [h EXCEPT !.seq = q, !.wrote = w, !.cancelled = fails]
                    /\ l2 = [l EXCEPT !.down = d]
  OBVIOUS
<1>9. handler' = [handler EXCEPT ![c] = h2]
  BY <1>1, <1>3, <1>4, <1>7, <1>8, Zenon
<1>10. link' = [link EXCEPT ![c] = l2]
  BY <1>1, <1>3, <1>4, <1>6, <1>8, Zenon
<1>11. /\ h2 = [pc |-> h.pc, seq |-> q, wrote |-> w, status |-> h.status, cancelled |-> fails]
       /\ l2 = [up |-> l.up, down |-> d, client |-> l.client, server |-> l.server,
                cut |-> l.cut]
  BY <1>8 DEF HandlerRecords, LinkRecords
<1>12. d \in Seq(FrameRecords)
  BY <1>5, <1>6, LinkFields
<1>13. /\ h2 \in HandlerRecords /\ h2.pc = h.pc /\ h2.seq = q /\ h2.wrote = w
  BY <1>11, HandlerFields, HandlerRecord
<1>14. /\ l2 \in LinkRecords /\ l2.down = d /\ l2.server = l.server /\ l2.cut = l.cut
       /\ l2.client = l.client
  BY <1>11, <1>12, LinkFields, LinkRecord
<1>15. StreamOK(k, l, h)
  BY <1>2, Zenon DEF CallOK
<1>16. Intact(l2) <=> Intact(l)
  BY <1>14, Zenon DEF Intact
<1>17. \/ l2.down = Append(l.down, f) /\ Intact(l)
       \/ l2.down = l.down /\ ~Intact(l)
  <2>1. l.cut \in BOOLEAN /\ l.client \in BOOLEAN /\ l.server \in BOOLEAN
    BY LinkFields
  <2>2. Gone(c) <=> (l.cut \/ ~l.client \/ ~l.server)
    BY <1>1, Zenon DEF Gone
  <2>3. (l.cut \/ ~l.client \/ ~l.server) <=> ~Intact(l)
    BY <2>1 DEF Intact
  <2> QED BY <1>6, <1>14, <2>2, <2>3, Zenon
<1>18. StreamOK(k, l2, h2)
  <2>1. h2.pc = "running" /\ h2.seq = h.seq + 1 /\ h2.wrote = Append(h.wrote, f)
    BY <1>2, <1>7, <1>13, Zenon
  <2> QED BY <1>2, <1>5, <1>13, <1>14, <1>15, <1>16, <1>17, <2>1, OneMoreWritten
<1>19. CallOK(mode, k, l2, h2)
  <2>1. h.pc # "none" /\ mode # "task"
    BY <1>2
  <2> QED BY <1>2, <1>14, <1>18, <2>1, Zenon DEF CallOK
<1>20. UNCHANGED <<mode, call, receiver, nextAuth, overlapped>> /\ ReceiverOK'
  BY TypedCall DEF WriteChunk, ReceiverOK
<1>21. /\ CallOK(mode, call[c], l2, h2)
       /\ l2.server = TRUE => link[c].server = TRUE
       /\ handler[c].pc \notin {"none", "closed"}
       /\ h2.pc \in Early => handler[c].pc \in Early
  <2>1. h.pc \notin {"none", "closed"}
    BY <1>2
  <2> QED BY <1>1, <1>13, <1>14, <1>19, <2>1, Zenon
<1> QED BY <1>9, <1>10, <1>13, <1>14, <1>20, <1>21, OtherEndKeeps

\* A connection whose handler begins.
LEMMA Accepted ==
  ASSUME LinkInv, NEW c \in Calls, c \in Waiting, NEW h2,
         h2 = [handler[c] EXCEPT !.pc = "reading"]
  PROVE  /\ h2 \in HandlerRecords /\ h2.pc = "reading"
         /\ CallOK(mode, call[c], link[c], h2)
         /\ handler[c].pc \in Early /\ link[c].server = TRUE
<1>1. PICK k \in CallRecords, l \in LinkRecords, h \in HandlerRecords :
        k = call[c] /\ l = link[c] /\ h = handler[c]
  BY TypedCall
<1>2. CallOK(mode, k, l, h) /\ h.pc = "none" /\ link[c].server
  BY <1>1, TypedCall DEF Waiting
<1>3. link[c].server = TRUE
  <2>1. link[c].server \in BOOLEAN
    BY TypedCall, LinkFields
  <2> QED BY <1>2, <2>1
<1>4. h2 = [h EXCEPT !.pc = "reading"]
  BY <1>1
<1>5. h2 = [pc |-> "reading", seq |-> h.seq, wrote |-> h.wrote, status |-> h.status,
            cancelled |-> h.cancelled]
  BY <1>4 DEF HandlerRecords
<1>6. /\ h2 \in HandlerRecords /\ h2.pc = "reading" /\ h2.seq = h.seq /\ h2.wrote = h.wrote
      /\ h2.status = h.status
  <2>1. "reading" \in HandlerPcs
    BY DEF HandlerPcs
  <2> QED BY <1>5, <2>1, HandlerFields, HandlerRecord
<1>7. "reading" \in Early /\ "reading" # "closed" /\ h.pc \in Early /\ h.pc # "closed"
  BY <1>2 DEF Early
<1>8. StreamOK(k, l, h) => StreamOK(k, l, h2)
  BY <1>6, <1>7, Zenon DEF StreamOK, Written, Carries, EndsInTime
<1>9. TaskOK(k, l, h) => TaskOK(k, l, h2)
  BY <1>6, <1>7, Zenon DEF TaskOK
<1>10. k.pc \notin {"unused", "idle"}
  BY <1>1, <1>2, <1>3, Zenon DEF CallOK
<1>11. CallOK(mode, k, l, h2)
  BY <1>2, <1>8, <1>9, <1>10, Zenon DEF CallOK
<1> QED BY <1>1, <1>3, <1>6, <1>7, <1>11, Zenon

LEMMA AcceptKeeps ==
  ASSUME LinkInv, NEW c \in Calls, Accept(c)
  PROVE  LinkInv'
<1>1. c \in Waiting
  BY DEF Accept
<1>2. PICK h2 : h2 = [handler[c] EXCEPT !.pc = "reading"]
  OBVIOUS
<1>3. PICK l \in LinkRecords : l = link[c]
  BY TypedCall
<1>4. handler' = [handler EXCEPT ![c] = h2] /\ link' = [link EXCEPT ![c] = l]
  BY <1>2, <1>3, TypedCall, Zenon DEF Accept
<1>5. /\ UNCHANGED <<mode, call, nextAuth, overlapped>> /\ ReceiverOK'
      /\ receiver'.lastAuth = receiver.lastAuth
  <2>1. receiver' = [receiver EXCEPT !.accept = "check"]
    BY DEF Accept
  <2> QED BY <2>1, TypedCall DEF Accept, ReceiverOK
<1>6. /\ h2 \in HandlerRecords /\ CallOK(mode, call[c], l, h2)
      /\ handler[c].pc \in Early /\ link[c].server = TRUE
  BY <1>1, <1>2, <1>3, Accepted
<1> QED BY <1>4, <1>5, <1>6, OtherEndKeeps

-----------------------------------------------------------------------------
(* TaskLink: the steps that draw and store numbers, and the receiver's own *)

\* The underway calls of the next state, when no call's own record changes its pc.
LEMMA ReceiverKeeps ==
  ASSUME LinkInv, UNCHANGED <<mode, call, link, handler, nextAuth, overlapped>>,
         ReceiverOK', receiver'.lastAuth = receiver.lastAuth
  PROVE  LinkInv'
<1>1. LinkTypes'
  BY DEF LinkInv, LinkTypes
<1>2. \A c \in Calls : UnderWay(c)' <=> UnderWay(c)
  BY Zenon DEF UnderWay
<1>3. Numbers'
  BY <1>2 DEF LinkInv, Numbers
<1>4. \A c \in Calls : CallOK(mode', call'[c], link'[c], handler'[c])
  BY DEF LinkInv
<1> QED BY <1>1, <1>3, <1>4 DEF LinkInv

LEMMA ReceiverSteps ==
  ASSUME LinkInv, NEW r, Receiver(r), ReceiverOK', r.lastAuth = receiver.lastAuth
  PROVE  LinkInv'
<1>1. UNCHANGED <<mode, call, link, handler, nextAuth, overlapped>> /\ receiver' = r
  BY DEF Receiver
<1> QED BY <1>1, ReceiverKeeps

LEMMA StoreAuthKeeps ==
  ASSUME LinkInv, NEW c \in Calls, StoreAuth(c)
  PROVE  LinkInv'
<1>1. PICK k \in CallRecords, l \in LinkRecords, h \in HandlerRecords :
        k = call[c] /\ l = link[c] /\ h = handler[c]
  BY TypedCall
<1>2. CallOK(mode, k, l, h) /\ h.pc = "storing"
  BY <1>1, TypedCall DEF StoreAuth
<1>3. PICK h2 : h2 = [h EXCEPT !.pc = "running"]
  OBVIOUS
<1>4. handler' = [handler EXCEPT ![c] = h2] /\ UNCHANGED <<mode, call, link, nextAuth, overlapped>>
  BY <1>1, <1>3, Zenon DEF StoreAuth
<1>5. h2 = [pc |-> "running", seq |-> h.seq, wrote |-> h.wrote, status |-> h.status,
            cancelled |-> h.cancelled]
  BY <1>3 DEF HandlerRecords
<1>6. /\ h2 \in HandlerRecords /\ h2.pc = "running" /\ h2.seq = h.seq /\ h2.wrote = h.wrote
      /\ h2.status = h.status
  <2>1. "running" \in HandlerPcs
    BY DEF HandlerPcs
  <2> QED BY <1>5, <2>1, HandlerFields, HandlerRecord
<1>7. /\ "running" \notin Early /\ "running" # "closed" /\ h.pc # "closed" /\ h.pc # "none"
  BY <1>2 DEF Early
<1>8. CallOK(mode, k, l, h2)
  <2>1. StreamOK(k, l, h) => StreamOK(k, l, h2)
    BY <1>6, <1>7, Zenon DEF StreamOK, Written, Carries, EndsInTime
  <2>2. TaskOK(k, l, h) => TaskOK(k, l, h2)
    BY <1>6, <1>7, Zenon DEF TaskOK
  <2> QED BY <1>2, <1>7, <2>1, <2>2, Zenon DEF CallOK
<1>9. /\ receiver' = [receiver EXCEPT !.lastAuth = call[c].auth]
      /\ call[c].auth \in Nat /\ ReceiverOK
  BY TypedCall, CallFields DEF StoreAuth
<1>10. ReceiverOK' /\ receiver'.lastAuth = call[c].auth
  BY <1>9 DEF ReceiverOK
<1>11. /\ call \in [Calls -> CallRecords] /\ link \in [Calls -> LinkRecords]
       /\ handler \in [Calls -> HandlerRecords]
  BY DEF LinkInv, LinkTypes
<1>12. LinkTypes'
  BY <1>4, <1>6, <1>10, <1>11 DEF LinkInv, LinkTypes
<1>13. handler'[c] = h2 /\ \A d \in Calls \ {c} : handler'[d] = handler[d]
  BY <1>4, <1>11
<1>14. UnderWay(c) /\ \A d \in Calls : UnderWay(d)' => UnderWay(d)
  <2>1. UnderWay(c)
    BY <1>1, <1>2, <1>7, Zenon DEF UnderWay
  <2>2. ASSUME NEW d \in Calls \ {c}, UnderWay(d)'
        PROVE  UnderWay(d)
    BY <1>4, <1>13, <2>2, Zenon DEF UnderWay
  <2> QED BY <2>1, <2>2
<1>15. Numbers'
  <2>1. receiver'.lastAuth < nextAuth' /\ \A d \in Calls : call'[d].auth < nextAuth'
    BY <1>4, <1>10 DEF LinkInv, Numbers
  <2>2. ASSUME NEW d \in Calls, UnderWay(d)', d \notin overlapped'
        PROVE  /\ \A e \in Calls \ {d} : ~UnderWay(e)'
               /\ handler'[d].pc \in Early => call'[d].auth > receiver'.lastAuth
    <3>1. UnderWay(d) /\ d \notin overlapped
      BY <1>4, <1>14, <2>2
    <3>2. \A e \in Calls \ {d} : ~UnderWay(e)
      BY <3>1 DEF LinkInv, Numbers
    <3>3. d = c
      BY <1>14, <3>2
    <3>4. handler'[d].pc \notin Early
      BY <1>6, <1>7, <1>13, <3>3
    <3> QED BY <1>14, <3>2, <3>4
  <2> QED BY <2>1, <2>2, Zenon DEF Numbers
<1>16. \A d \in Calls : CallOK(mode', call'[d], link'[d], handler'[d])
  BY <1>1, <1>4, <1>8, <1>13, Zenon DEF LinkInv
<1> QED BY <1>12, <1>15, <1>16 DEF LinkInv

LEMMA ConnectKeeps ==
  ASSUME LinkInv, NEW c \in Calls, Connect(c)
  PROVE  LinkInv'
<1>1. PICK k \in CallRecords, l \in LinkRecords, h \in HandlerRecords :
        k = call[c] /\ l = link[c] /\ h = handler[c]
  BY TypedCall
<1>2. CallOK(mode, k, l, h) /\ k.pc = "idle" /\ h.pc = "none" /\ k.status = "none"
  <2>1. CallOK(mode, k, l, h) /\ k.pc = "idle"
    BY <1>1, TypedCall DEF Connect
  <2> QED BY <2>1, Zenon DEF CallOK
<1>3. PICK yes \in BOOLEAN : yes = TRUE
  OBVIOUS
<1>4. PICK k2, l2 : /\ k2 = [k EXCEPT !.pc = "sending", !.auth = nextAuth]
                    /\ l2 = [l EXCEPT !.client = yes, !.server = yes]
  OBVIOUS
<1>5. /\ call' = [call EXCEPT ![c] = k2] /\ link' = [link EXCEPT ![c] = l2]
      /\ nextAuth' = nextAuth + 1 /\ UNCHANGED <<mode, handler, receiver>>
  <2>1. /\ call' = [call EXCEPT ![c].pc = "sending", ![c].auth = nextAuth]
        /\ link' = [link EXCEPT ![c].client = TRUE, ![c].server = TRUE]
        /\ nextAuth' = nextAuth + 1 /\ UNCHANGED <<mode, handler, receiver>>
    BY Zenon DEF Connect
  <2> QED BY <1>1, <1>3, <1>4, <2>1, Zenon
<1>6. /\ k2 = [pc |-> "sending", expected |-> k.expected, status |-> k.status, got |-> k.got,
               auth |-> nextAuth]
      /\ l2 = [up |-> l.up, down |-> l.down, client |-> yes, server |-> yes, cut |-> l.cut]
  BY <1>4 DEF CallRecords, LinkRecords
<1>7. nextAuth \in Nat /\ receiver.lastAuth \in Nat
  BY DEF LinkInv, LinkTypes, ReceiverOK
<1>8. /\ k2 \in CallRecords /\ k2.pc = "sending" /\ k2.expected = k.expected
      /\ k2.status = k.status /\ k2.got = k.got /\ k2.auth = nextAuth
  <2>1. "sending" \in CallPcs
    BY DEF CallPcs
  <2> QED BY <1>6, <1>7, <2>1, CallFields, CallRecord
<1>9. /\ l2 \in LinkRecords /\ l2.down = l.down /\ l2.server = yes /\ l2.cut = l.cut
      /\ l2.client = yes
  BY <1>6, LinkFields, LinkRecord
<1>10. StreamOK(k, l, h) => StreamOK(k2, l2, h)
  <2>1. ASSUME StreamOK(k, l, h)
        PROVE  StreamOK(k2, l2, h)
    <3>1. Carries(k, l, h) /\ Written(h)
      BY <2>1, Zenon DEF StreamOK
    <3>2. h.wrote = <<>>
      <4>1. h.pc \in Early
        BY <1>2 DEF Early
      <4> QED BY <3>1, <4>1, Zenon DEF Written
    <3>3. PICK e \in Nat, n \in Nat, w \in Nat :
            e = k.expected /\ n = Len(l.down) /\ w = Len(h.wrote)
      <4>1. /\ k.expected \in Nat /\ l.down \in Seq(FrameRecords)
            /\ h.wrote \in Seq(FrameRecords)
        BY CallFields, LinkFields, HandlerFields
      <4>2. Len(l.down) \in Nat /\ Len(h.wrote) \in Nat
        BY ONLY <4>1
      <4> QED BY <4>1, <4>2, Zenon
    <3>4. e >= 1 /\ e - 1 + n <= w
      BY <3>1, <3>3, Zenon DEF Carries
    <3>5. w = 0
      BY <3>2, <3>3
    <3>6. e - 1 + n = w
      BY <3>4, <3>5
    <3>7. Carries(k2, l2, h)
      BY <1>8, <1>9, <3>1, <3>3, <3>6, Zenon DEF Carries
    <3>8. EndsInTime(k2, h)
      <4>1. 1..(e - 1) = {}
        BY ONLY <3>4, <3>5, e \in Nat, n \in Nat, w \in Nat
      <4> QED BY <1>8, <3>3, <4>1, Zenon DEF EndsInTime
    <3> QED BY <1>8, <2>1, <3>7, <3>8, Zenon DEF StreamOK
  <2> QED BY <2>1
<1>11. TaskOK(k, l, h) => TaskOK(k2, l2, h)
  BY <1>8, <1>9, Zenon DEF TaskOK
<1>12. CallOK(mode, k2, l2, h)
  <2>1. "sending" \notin {"unused", "idle"}
    OBVIOUS
  <2> QED BY <1>2, <1>3, <1>8, <1>9, <1>10, <1>11, <2>1, Zenon DEF CallOK
<1>13. /\ call \in [Calls -> CallRecords] /\ link \in [Calls -> LinkRecords]
       /\ handler \in [Calls -> HandlerRecords] /\ ReceiverOK
  BY DEF LinkInv, LinkTypes
<1>14. LinkTypes'
  <2>1. ReceiverOK'
    BY <1>5, <1>13 DEF ReceiverOK
  <2> QED BY <1>5, <1>7, <1>8, <1>9, <1>13, <2>1 DEF LinkInv, LinkTypes
<1>15. /\ call'[c] = k2 /\ link'[c] = l2
       /\ \A d \in Calls \ {c} : call'[d] = call[d] /\ link'[d] = link[d]
  BY <1>5, <1>13
<1>16. \A d \in Calls \ {c} : UnderWay(d)' <=> UnderWay(d)
  BY <1>5, <1>15, Zenon DEF UnderWay
<1>17. PICK others : /\ others = {d \in Calls \ {c} : UnderWay(d)}
                     /\ overlapped' = overlapped \cup others
                                        \cup (IF others = {} THEN {} ELSE {c})
  BY Zenon DEF Connect
<1>18. Numbers'
  <2>1. receiver'.lastAuth < nextAuth' /\ \A d \in Calls : call'[d].auth < nextAuth'
    <3>1. receiver.lastAuth < nextAuth /\ \A d \in Calls : call[d].auth < nextAuth
      BY DEF LinkInv, Numbers
    <3>2. receiver'.lastAuth = receiver.lastAuth /\ call'[c].auth = nextAuth
      BY <1>5, <1>8, <1>15
    <3>3. ASSUME NEW d \in Calls
          PROVE  call'[d].auth < nextAuth'
      <4>1. call[d].auth \in Nat
        BY <1>13, CallFields
      <4>2. call[d].auth < nextAuth
        BY <3>1
      <4>3. call'[d].auth = nextAuth \/ call'[d].auth = call[d].auth
        BY <1>15, <3>2
      <4> QED BY ONLY <1>5, <1>7, <4>1, <4>2, <4>3
    <3> QED BY <1>5, <1>7, <3>1, <3>2, <3>3
  <2>2. ASSUME NEW d \in Calls, UnderWay(d)', d \notin overlapped'
        PROVE  /\ \A e \in Calls \ {d} : ~UnderWay(e)'
               /\ handler'[d].pc \in Early => call'[d].auth > receiver'.lastAuth
    <3>1. d = c
      <4>1. ASSUME d # c
            PROVE  FALSE
        BY <1>16, <1>17, <2>2, <4>1
      <4> QED BY <4>1
    <3>2. others = {}
      BY <1>17, <2>2, <3>1
    <3>3. \A e \in Calls \ {d} : ~UnderWay(e)'
      BY <1>16, <1>17, <3>1, <3>2
    <3>4. call'[d].auth = nextAuth /\ receiver'.lastAuth = receiver.lastAuth
      BY <1>5, <1>8, <1>15, <3>1
    <3>5. receiver.lastAuth < nextAuth
      BY DEF LinkInv, Numbers
    <3>6. call'[d].auth > receiver'.lastAuth
      BY <1>7, <3>4, <3>5
    <3> QED BY <3>3, <3>6
  <2> QED BY <2>1, <2>2, Zenon DEF Numbers
<1>19. \A d \in Calls : CallOK(mode', call'[d], link'[d], handler'[d])
  BY <1>1, <1>5, <1>12, <1>15, Zenon DEF LinkInv
<1> QED BY <1>14, <1>18, <1>19 DEF LinkInv

\* The receiver's ends of some connections are closed; handlers may begin.
LEMMA ResetKeeps ==
  ASSUME LinkInv, NEW set, Reset(set), UNCHANGED <<mode, call, nextAuth, overlapped>>,
         ReceiverOK', receiver'.lastAuth = receiver.lastAuth,
         handler' \in [Calls -> HandlerRecords],
         \A c \in Calls : /\ CallOK(mode, call[c], link[c], handler'[c])
                          /\ handler'[c].pc \in Early => handler[c].pc \in Early
                          /\ handler'[c].pc \notin {"none", "closed"} => UnderWay(c)
  PROVE  LinkInv'
<1>1. PICK no \in BOOLEAN : no = FALSE
  OBVIOUS
<1>2. link' = [c \in Calls |-> IF c \in set THEN [link[c] EXCEPT !.server = no] ELSE link[c]]
  BY <1>1, Zenon DEF Reset
<1>3. call \in [Calls -> CallRecords] /\ link \in [Calls -> LinkRecords]
  BY DEF LinkInv, LinkTypes
<1>4. ASSUME NEW c \in Calls
      PROVE  /\ link'[c] \in LinkRecords /\ link'[c].down = link[c].down
             /\ link'[c].client = link[c].client /\ link'[c].cut = link[c].cut
             /\ link'[c].server = TRUE => link[c].server = TRUE
  <2>1. PICK l \in LinkRecords : l = link[c]
    BY <1>3
  <2>2. PICK l2 : l2 = [l EXCEPT !.server = no]
    OBVIOUS
  <2>3. link'[c] = l2 \/ link'[c] = l
    BY <1>2, <2>1, <2>2, Zenon
  <2>4. l2 = [up |-> l.up, down |-> l.down, client |-> l.client, server |-> no, cut |-> l.cut]
    BY <2>2 DEF LinkRecords
  <2>5. /\ l2 \in LinkRecords /\ l2.down = l.down /\ l2.server = no /\ l2.cut = l.cut
        /\ l2.client = l.client
    BY <2>4, LinkFields, LinkRecord
  <2>6. ~(no = TRUE)
    BY <1>1
  <2> QED BY <2>1, <2>3, <2>5, <2>6, Zenon
<1>6. LinkTypes'
  <2>1. link' \in [Calls -> LinkRecords]
    <3>1. link' = [c \in Calls |-> link'[c]]
      BY <1>2, Zenon
    <3> QED BY <1>4, <3>1
  <2> QED BY <1>3, <2>1 DEF LinkInv, LinkTypes
<1>7. ASSUME NEW c \in Calls, UnderWay(c)'
      PROVE  UnderWay(c)
  <2>1. CASE link'[c].server
    <3>1. link'[c].server = TRUE
      <4>1. link'[c].server \in BOOLEAN
        BY <1>4, LinkFields
      <4> QED BY <2>1, <4>1
    <3>2. link[c].server
      BY <1>4, <3>1
    <3> QED BY <3>2, Zenon DEF UnderWay
  <2>2. CASE ~link'[c].server
    <3>1. call'[c] = call[c]
      OBVIOUS
    <3>2. call[c].pc \in {"sending", "waiting"} \/ handler'[c].pc \notin {"none", "closed"}
      BY <1>7, <2>2, <3>1, Zenon DEF UnderWay
    <3> QED BY <3>2, Zenon DEF UnderWay
  <2> QED BY <2>1, <2>2
<1>8. Numbers'
  BY <1>7 DEF LinkInv, Numbers
<1>9. ASSUME NEW c \in Calls
      PROVE  CallOK(mode', call'[c], link'[c], handler'[c])
  <2>1. PICK k, l, h, m : k = call[c] /\ l = link[c] /\ h = handler'[c] /\ m = mode
    OBVIOUS
  <2>2. CallOK(m, k, l, h)
    BY <2>1, Zenon
  <2>3. PICK l2 : l2 = link'[c]
    OBVIOUS
  <2>4. l2.down = l.down /\ l2.client = l.client /\ l2.cut = l.cut /\ l2 \in LinkRecords
        /\ (l2.server = TRUE => l.server = TRUE)
    BY <1>4, <2>1, <2>3, Zenon
  <2>5. l.server = FALSE => l2.server = FALSE
    <3>1. l2.server \in BOOLEAN
      BY <2>4, LinkFields
    <3> QED BY <2>4, <3>1
  <2>6. StreamOK(k, l, h) => StreamOK(k, l2, h)
    <3>1. Intact(l2) => Intact(l)
      BY <2>4, Zenon DEF Intact
    <3> QED BY <2>4, <3>1, Zenon DEF StreamOK, Carries
  <2>7. TaskOK(k, l, h) => TaskOK(k, l2, h)
    BY <2>4, Zenon DEF TaskOK
  <2>8. CallOK(m, k, l2, h)
    BY <2>2, <2>4, <2>5, <2>6, <2>7, Zenon DEF CallOK
  <2>9. mode' = mode /\ call'[c] = call[c]
    OBVIOUS
  <2> QED BY <2>1, <2>3, <2>8, <2>9, Zenon
<1> QED BY <1>6, <1>8, <1>9 DEF LinkInv

\* No handler begins.
LEMMA ResetAlone ==
  ASSUME LinkInv, NEW set, Reset(set), UNCHANGED <<mode, call, handler, nextAuth, overlapped>>,
         ReceiverOK', receiver'.lastAuth = receiver.lastAuth
  PROVE  LinkInv'
<1>1. handler' = handler /\ handler \in [Calls -> HandlerRecords]
  BY DEF LinkInv, LinkTypes
<1>2. ASSUME NEW c \in Calls
      PROVE  /\ CallOK(mode, call[c], link[c], handler'[c])
             /\ handler'[c].pc \in Early => handler[c].pc \in Early
             /\ handler'[c].pc \notin {"none", "closed"} => UnderWay(c)
  BY <1>1, TypedCall, Zenon DEF UnderWay
<1> QED BY <1>1, <1>2, ResetKeeps

LEMMA AcceptLastKeeps ==
  ASSUME LinkInv, NEW c \in Calls, AcceptLast(c)
  PROVE  LinkInv'
<1>1. PICK reused \in SUBSET {c} :
        receiver' = [receiver EXCEPT !.accept = "check", !.listen = "closed", !.reused = reused]
  BY DEF AcceptLast
<1>2. ReceiverOK' /\ receiver'.lastAuth = receiver.lastAuth
  BY <1>1, TypedCall DEF ReceiverOK
<1>3. PICK h2 : h2 = [handler[c] EXCEPT !.pc = "reading"]
  OBVIOUS
<1>4. /\ c \in Waiting /\ Reset(Waiting \ {c}) /\ handler' = [handler EXCEPT ![c] = h2]
      /\ UNCHANGED <<mode, call, nextAuth, overlapped>>
  BY <1>3, Zenon DEF AcceptLast
<1>5. /\ h2 \in HandlerRecords /\ CallOK(mode, call[c], link[c], h2)
      /\ handler[c].pc \in Early /\ link[c].server = TRUE
  BY <1>3, <1>4, Accepted
<1>6. handler \in [Calls -> HandlerRecords]
  BY DEF LinkInv, LinkTypes
<1>7. /\ handler' \in [Calls -> HandlerRecords] /\ handler'[c] = h2
      /\ \A d \in Calls \ {c} : handler'[d] = handler[d]
  BY <1>4, <1>5, <1>6
<1>8. ASSUME NEW d \in Calls
      PROVE  /\ CallOK(mode, call[d], link[d], handler'[d])
             /\ handler'[d].pc \in Early => handler[d].pc \in Early
             /\ handler'[d].pc \notin {"none", "closed"} => UnderWay(d)
  <2>1. CASE d = c
    BY <1>5, <1>7, <2>1, Zenon DEF UnderWay
  <2>2. CASE d # c
    <3>1. handler'[d] = handler[d]
      BY <1>7, <2>2
    <3> QED BY <3>1, TypedCall, Zenon DEF UnderWay
  <2> QED BY <2>1, <2>2
<1> QED BY <1>2, <1>4, <1>7, <1>8, ResetKeeps

-----------------------------------------------------------------------------
(* TaskLink: the invariant and what follows from it *)

LEMMA LinkInitHolds ==
  ASSUME LinkInit
  PROVE  LinkInv
<1>1. PICK no \in BOOLEAN : no = FALSE
  OBVIOUS
<1>2. PICK l0, h0 :
        /\ l0 = [up |-> 0, down |-> <<>>, client |-> no, server |-> no, cut |-> no]
        /\ h0 = [pc |-> "none", seq |-> 1, wrote |-> <<>>, status |-> "none",
                 cancelled |-> no]
  OBVIOUS
<1>3. <<>> \in Seq(FrameRecords) /\ <<>> \in Seq(Nat) /\ 0 \in Nat /\ 1 \in Nat
      /\ "none" \in HandlerPcs /\ "none" \in Statuses
  BY DEF HandlerPcs, Statuses
<1>4. /\ l0 \in LinkRecords /\ l0.up = 0 /\ l0.down = <<>> /\ l0.client = no
      /\ l0.server = no /\ l0.cut = no
  BY <1>2, <1>3, no \in BOOLEAN DEF LinkRecords
<1>5. /\ h0 \in HandlerRecords /\ h0.pc = "none" /\ h0.seq = 1 /\ h0.wrote = <<>>
      /\ h0.status = "none"
  BY <1>2, <1>3, no \in BOOLEAN DEF HandlerRecords
<1>6. link = [c \in Calls |-> l0] /\ handler = [c \in Calls |-> h0]
  BY <1>1, <1>2, Zenon DEF LinkInit
<1>7. ASSUME NEW c \in Calls
      PROVE  /\ call[c] \in CallRecords /\ call[c].pc \in {"idle", "unused"}
             /\ call[c].expected = 1 /\ call[c].status = "none" /\ call[c].got = <<>>
             /\ call[c].auth = 0
  <2>1. PICK pc : /\ call[c] = [pc |-> pc, expected |-> 1, status |-> "none", got |-> <<>>,
                                auth |-> 0]
                  /\ pc \in {"idle", "unused"}
    BY DEF LinkInit
  <2>2. pc \in CallPcs
    BY <2>1 DEF CallPcs
  <2>3. PICK k : k = [pc |-> pc, expected |-> 1, status |-> "none", got |-> <<>>, auth |-> 0]
    OBVIOUS
  <2>4. /\ k \in CallRecords /\ k.pc = pc /\ k.expected = 1 /\ k.status = "none"
        /\ k.got = <<>> /\ k.auth = 0
    BY <1>3, <2>2, <2>3 DEF CallRecords
  <2> QED BY <2>1, <2>3, <2>4, Zenon
<1>8. /\ receiver = [running |-> FALSE, accept |-> "off", listen |-> "closed", reused |-> {},
                     owner |-> "idle", lastAuth |-> 0, runs |-> 0]
      /\ nextAuth = 1 /\ overlapped = {} /\ mode \in {"task", "stream"}
  BY DEF LinkInit
<1>9. ReceiverOK /\ receiver.lastAuth = 0
  <2>1. PICK r : r = [running |-> no, accept |-> "off", listen |-> "closed", reused |-> {},
                      owner |-> "idle", lastAuth |-> 0, runs |-> 0]
    OBVIOUS
  <2>2. receiver = r
    BY <1>1, <1>8, <2>1, Zenon
  <2>3. r = [running |-> r.running, accept |-> r.accept, listen |-> r.listen,
             reused |-> r.reused, owner |-> r.owner, lastAuth |-> r.lastAuth,
             runs |-> r.runs] /\ r.lastAuth = 0
    BY <2>1
  <2>4. r.lastAuth \in Nat
    BY <2>3
  <2> QED BY <2>2, <2>3, <2>4, Zenon DEF ReceiverOK
<1>10. LinkTypes
  <2>1. call \in [Calls -> CallRecords]
    <3>1. call = [c \in Calls |-> call[c]]
      BY DEF LinkInit
    <3> QED BY <1>7, <3>1
  <2>2. link \in [Calls -> LinkRecords] /\ handler \in [Calls -> HandlerRecords]
    BY <1>4, <1>5, <1>6
  <2>3. nextAuth \in Nat
    BY <1>8
  <2> QED BY <1>8, <1>9, <2>1, <2>2, <2>3, Zenon DEF LinkTypes
<1>11. ASSUME NEW c \in Calls
       PROVE  ~UnderWay(c)
  <2>1. ~no /\ link[c] = l0 /\ handler[c] = h0
    BY <1>1, <1>6
  <2>2. call[c].pc \notin {"sending", "waiting"} /\ handler[c].pc \in {"none", "closed"}
    BY <1>5, <1>7, <2>1
  <2> QED BY <1>4, <2>1, <2>2, Zenon DEF UnderWay
<1>12. Numbers
  BY <1>7, <1>8, <1>9, <1>11 DEF Numbers
<1>13. ASSUME NEW c \in Calls
       PROVE  CallOK(mode, call[c], link[c], handler[c])
  <2>1. PICK k \in CallRecords : k = call[c]
    BY <1>7
  <2>2. /\ k.pc \in {"idle", "unused"} /\ k.expected = 1 /\ k.status = "none" /\ k.got = <<>>
        /\ link[c] = l0 /\ handler[c] = h0
    BY <1>6, <1>7, <2>1
  <2>3. l0.server = FALSE
    BY <1>1, <1>4
  <2>4. Written(h0)
    <3>1. h0.seq = Len(h0.wrote) + 1 /\ DOMAIN h0.wrote = {}
      BY <1>5
    <3> QED BY <1>5, <3>1, Zenon DEF Written
  <2>5. Carries(k, l0, h0)
    <3>1. /\ k.expected >= 1 /\ k.expected - 1 + Len(l0.down) = Len(h0.wrote)
          /\ k.expected - 1 + Len(l0.down) <= Len(h0.wrote) /\ DOMAIN l0.down = {}
      BY <1>4, <1>5, <2>2
    <3> QED BY <3>1, Zenon DEF Carries
  <2>6. AreFirst(k.got, h0.wrote, k.expected - 1)
    <3>1. DOMAIN k.got = {} /\ 1..(k.expected - 1) = {}
      BY <2>2
    <3> QED BY <3>1, Zenon DEF AreFirst
  <2>7. StreamOK(k, l0, h0)
    <3>1. k.status # "OK" /\ k.status # "REJECTED" /\ 1..(k.expected - 1) = {}
      BY <2>2
    <3>2. EndsInTime(k, h0)
      BY <3>1, Zenon DEF EndsInTime
    <3> QED BY <2>4, <2>5, <2>6, <3>1, <3>2, Zenon DEF StreamOK
  <2>8. TaskOK(k, l0, h0)
    <3>1. DOMAIN l0.down = {} /\ k.status \notin {"OK", "REJECTED"}
      BY <1>4, <2>2
    <3> QED BY <1>4, <1>5, <2>2, <3>1, Zenon DEF TaskOK
  <2>9. k.pc \notin {"sending", "waiting"}
    BY <2>2
  <2> QED BY <1>5, <2>1, <2>2, <2>3, <2>7, <2>8, <2>9, Zenon DEF CallOK
<1> QED BY <1>10, <1>12, <1>13, Zenon DEF LinkInv

LEMMA AcceptLoopKeeps ==
  ASSUME LinkInv, AcceptLoop
  PROVE  LinkInv'
<1>1. ReceiverOK
  BY DEF LinkInv, LinkTypes
<1>2. CASE ListenSucceeds
  <2>1. PICK r : r = [receiver EXCEPT !.accept = "check", !.listen = "open"] /\ Receiver(r)
    BY <1>2 DEF ListenSucceeds
  <2>2. ReceiverOK' /\ r.lastAuth = receiver.lastAuth
    BY <1>1, <2>1 DEF ReceiverOK, Receiver
  <2> QED BY <2>1, <2>2, ReceiverSteps
<1>3. CASE ListenFails
  <2>1. PICK no : no = FALSE
    OBVIOUS
  <2>2. PICK r : r = [receiver EXCEPT !.running = no, !.accept = "ended"] /\ Receiver(r)
    BY <1>3, <2>1, Zenon DEF ListenFails
  <2>3. ReceiverOK' /\ r.lastAuth = receiver.lastAuth
    BY <1>1, <2>2 DEF ReceiverOK, Receiver
  <2> QED BY <2>2, <2>3, ReceiverSteps
<1>4. CASE CheckRunning
  <2>1. PICK r : r = [receiver EXCEPT !.accept = "accepting"] /\ Receiver(r)
    BY <1>4 DEF CheckRunning
  <2>2. ReceiverOK' /\ r.lastAuth = receiver.lastAuth
    BY <1>1, <2>1 DEF ReceiverOK, Receiver
  <2> QED BY <2>1, <2>2, ReceiverSteps
<1>5. CASE AcceptTimesOut
  <2>1. PICK left, r : r = [receiver EXCEPT !.accept = "check", !.listen = left] /\ Receiver(r)
    BY <1>5, Zenon DEF AcceptTimesOut
  <2>2. ReceiverOK' /\ r.lastAuth = receiver.lastAuth
    BY <1>1, <2>1 DEF ReceiverOK, Receiver
  <2> QED BY <2>1, <2>2, ReceiverSteps
<1>6. CASE AcceptLoopEnds
  <2>1. receiver' = [receiver EXCEPT !.accept = "ended", !.listen = "closed"]
    BY <1>6, Zenon DEF AcceptLoopEnds
  <2>2. ReceiverOK' /\ receiver'.lastAuth = receiver.lastAuth
    BY <1>1, <2>1 DEF ReceiverOK
  <2> QED BY <1>6, <2>2, ResetAlone DEF AcceptLoopEnds
<1> QED BY <1>2, <1>3, <1>4, <1>5, <1>6, AcceptKeeps, AcceptLastKeeps, Zenon DEF AcceptLoop

LEMMA OwnerKeeps ==
  ASSUME LinkInv,
         StartReceiver \/ StopReceiver \/ CloseListener \/ ReceiverJoined \/ ReceiverStops
  PROVE  LinkInv'
<1>1. ReceiverOK
  BY DEF LinkInv, LinkTypes
<1>2. PICK yes, no : yes = TRUE /\ no = FALSE
  OBVIOUS
<1>3. CASE StartReceiver
  <2>1. PICK r : /\ r = [receiver EXCEPT !.running = yes, !.accept = "open", !.runs = @ + 1]
                 /\ Receiver(r)
    BY <1>2, <1>3, Zenon DEF StartReceiver
  <2>2. ReceiverOK' /\ r.lastAuth = receiver.lastAuth
    BY <1>1, <2>1 DEF ReceiverOK, Receiver
  <2> QED BY <2>1, <2>2, ReceiverSteps
<1>4. CASE StopReceiver
  <2>1. PICK r : r = [receiver EXCEPT !.running = no, !.owner = "closing"] /\ Receiver(r)
    BY <1>2, <1>4, Zenon DEF StopReceiver
  <2>2. ReceiverOK' /\ r.lastAuth = receiver.lastAuth
    BY <1>1, <2>1 DEF ReceiverOK, Receiver
  <2> QED BY <2>1, <2>2, ReceiverSteps
<1>5. CASE ReceiverJoined
  <2>1. PICK r : r = [receiver EXCEPT !.owner = "handlers"] /\ Receiver(r)
    BY <1>5 DEF ReceiverJoined
  <2>2. ReceiverOK' /\ r.lastAuth = receiver.lastAuth
    BY <1>1, <2>1 DEF ReceiverOK, Receiver
  <2> QED BY <2>1, <2>2, ReceiverSteps
<1>6. CASE ReceiverStops
  <2>1. PICK r : /\ r = [receiver EXCEPT !.owner = "idle", !.accept = "off", !.reused = {}]
                 /\ Receiver(r)
    BY <1>6 DEF ReceiverStops
  <2>2. ReceiverOK' /\ r.lastAuth = receiver.lastAuth
    BY <1>1, <2>1 DEF ReceiverOK, Receiver
  <2> QED BY <2>1, <2>2, ReceiverSteps
<1>7. CASE CloseListener
  <2>1. PICK left : /\ receiver' = [receiver EXCEPT !.owner = "joining", !.listen = left]
                    /\ Reset(IF left = "held" THEN {} ELSE Waiting)
                    /\ UNCHANGED <<mode, call, handler, nextAuth, overlapped>>
    BY <1>7, Zenon DEF CloseListener
  <2>2. ReceiverOK' /\ receiver'.lastAuth = receiver.lastAuth
    BY <1>1, <2>1 DEF ReceiverOK
  <2>3. PICK set : Reset(set)
    BY <2>1, Zenon
  <2> QED BY <2>1, <2>2, <2>3, ResetAlone
<1> QED BY <1>3, <1>4, <1>5, <1>6, <1>7

LEMMA LinkStep ==
  ASSUME LinkInv, [LinkNext]_linkVars
  PROVE  LinkInv'
<1>1. CASE UNCHANGED linkVars
  <2>1. ReceiverOK'
    BY <1>1 DEF linkVars, LinkInv, LinkTypes, ReceiverOK
  <2> QED BY <1>1, <2>1, ReceiverKeeps DEF linkVars
<1>2. ASSUME NEW c \in Calls, Sender(c) \/ ConnectFails(c)
      PROVE  LinkInv'
  <2>1. "FAILED" \in Statuses
    BY DEF Statuses
  <2>2. CASE ConnectFails(c)
    BY <2>1, <2>2, ReturnKeeps DEF ConnectFails
  <2>3. CASE SendFails(c)
    BY <2>1, <2>3, ReturnKeeps DEF SendFails
  <2>4. CASE ReceiveFails(c)
    BY <2>1, <2>4, ReturnKeeps DEF ReceiveFails
  <2>5. CASE ReceiveResult(c)
    <3>1. PICK l \in LinkRecords, h \in HandlerRecords : l = link[c] /\ h = handler[c]
      BY TypedCall
    <3>2. /\ mode = "task" /\ l.down # <<>> /\ Return(c, Head(l.down).status)
          /\ TaskOK(call[c], l, h)
      BY <2>5, <3>1, TypedCall, Zenon DEF ReceiveResult, Incoming, CallOK
    <3>3. 1 \in DOMAIN l.down /\ Head(l.down) = l.down[1] /\ l.down[1] \in FrameRecords
      BY <3>2, LinkFields
    <3>4. Head(l.down).status \in Statuses /\ Head(l.down).status = handler[c].status
      BY <3>1, <3>2, <3>3 DEF TaskOK, FrameRecords
    <3> QED BY <3>2, <3>4, ReturnKeeps
  <2> QED BY <1>2, <2>2, <2>3, <2>4, <2>5, SendPartKeeps, ReceiveChunkKeeps, Zenon DEF Sender
<1>3. ASSUME NEW c \in Calls, Handler(c) \/ Callback(c)
      PROVE  LinkInv'
  <2>1. CASE ReadTask(c)
    BY <2>1, GoesKeeps DEF ReadTask
  <2>2. CASE ReadFails(c)
    BY <2>2, ClosesKeeps DEF ReadFails
  <2>3. CASE CheckAuth(c)
    <3>1. handler[c].pc = "checking" /\ (HandlerGoes(c, "storing") \/ HandlerCloses(c))
      BY <2>3, Zenon DEF CheckAuth
    <3> QED BY <3>1, GoesKeeps, ClosesKeeps
  <2>4. CASE StreamEnds(c)
    BY <2>4, ClosesKeeps DEF StreamEnds
  <2> QED BY <1>3, <2>1, <2>2, <2>3, <2>4, StoreAuthKeeps, AnswerTaskKeeps, WriteChunkKeeps,
           Zenon DEF Handler, Callback
<1> QED BY <1>1, <1>2, <1>3, ConnectKeeps, BreakKeeps, AcceptLoopKeeps, OwnerKeeps, Zenon
        DEF LinkNext

\* For any calls, worker behaviour, breaks of the connections and starts and stops of the
\* receiver (tcp.cpp).
THEOREM LinkInvariant == LinkSpec => []LinkInv
<1>1. LinkInit => LinkInv
  BY LinkInitHolds
<1>2. LinkInv /\ [LinkNext]_linkVars => LinkInv'
  BY LinkStep
<1> QED BY <1>1, <1>2, PTL DEF LinkSpec

\* A task is refused for its sequence number only if it was under way together with
\* another one: numbers are drawn by the senders' threads and checked and stored by the
\* handlers' without a lock (tcp_connect, handle_connection, sl1_last_auth_seq_).
THEOREM AloneIsNotRefused == LinkSpec => []RefusedOnlyWhenOverlapped
<1>1. LinkInv => RefusedOnlyWhenOverlapped
  <2>1. ASSUME LinkInv, NEW c \in Calls, handler[c].pc = "checking",
               call[c].auth <= receiver.lastAuth, c \notin overlapped
        PROVE  FALSE
    <3>1. UnderWay(c)
      <4>1. handler[c].pc \notin {"none", "closed"}
        BY <2>1
      <4> QED BY <4>1, Zenon DEF UnderWay
    <3>2. handler[c].pc \in Early
      BY <2>1 DEF Early
    <3>3. call[c].auth > receiver.lastAuth
      BY <2>1, <3>1, <3>2 DEF LinkInv, Numbers
    <3>4. call[c].auth \in Nat /\ receiver.lastAuth \in Nat
      BY <2>1, TypedCall, CallFields DEF ReceiverOK
    <3> QED BY <2>1, <3>3, <3>4
  <2> QED BY <2>1 DEF RefusedOnlyWhenOverlapped
<1> QED BY <1>1, LinkInvariant, PTL

\* What a call reports is what the worker's callback wrote or answered, whatever the
\* connection loses (send_task, send_task_stream, stream_writer_func).
THEOREM ReportedIsWritten == LinkSpec => []ResultIsTheWorkers
<1>1. ASSUME LinkInv, NEW c \in Calls
      PROVE  LET wrote == handler[c].wrote IN
             /\ \A n \in DOMAIN wrote : wrote[n].n = n
             /\ \E n \in 0..Len(wrote) :
                  /\ AreFirst(call[c].got, wrote, n)
                  /\ mode = "stream" /\ call[c].status = "OK" => EndsAt(wrote, n)
             /\ mode = "task" /\ call[c].status = "OK" => handler[c].status = "OK"
             /\ call[c].status = "REJECTED" => handler[c].status = "REJECTED"
  <2>1. PICK k \in CallRecords, l \in LinkRecords, h \in HandlerRecords :
          k = call[c] /\ l = link[c] /\ h = handler[c]
    BY <1>1, TypedCall
  <2>2. CallOK(mode, k, l, h) /\ mode \in {"task", "stream"}
    BY <1>1, <2>1, TypedCall DEF LinkInv, LinkTypes
  <2>3. CASE mode = "stream"
    <3>1. StreamOK(k, l, h)
      BY <2>2, <2>3, Zenon DEF CallOK
    <3>2. Written(h) /\ Carries(k, l, h)
      BY <3>1, Zenon DEF StreamOK
    <3>3. PICK n : n = k.expected - 1
      OBVIOUS
    <3>4. n \in 0..Len(h.wrote)
      <4>1. PICK e \in Nat, d \in Nat, w \in Nat :
              e = k.expected /\ d = Len(l.down) /\ w = Len(h.wrote)
        <5>1. /\ k.expected \in Nat /\ l.down \in Seq(FrameRecords)
              /\ h.wrote \in Seq(FrameRecords)
          BY CallFields, LinkFields, HandlerFields
        <5>2. Len(l.down) \in Nat /\ Len(h.wrote) \in Nat
          BY ONLY <5>1
        <5> QED BY <5>1, <5>2, Zenon
      <4>2. e >= 1 /\ e - 1 + d <= w
        BY <3>2, <4>1, Zenon DEF Carries
      <4>3. e - 1 \in 0..w
        BY <4>2
      <4> QED BY <3>3, <4>1, <4>3, Zenon
    <3>5. AreFirst(k.got, h.wrote, n)
      BY <3>1, <3>3, Zenon DEF StreamOK
    <3>6. ASSUME k.status = "OK"
          PROVE  EndsAt(h.wrote, n)
      <4>1. k.expected > 1 /\ h.wrote[n].final = TRUE
        BY <3>1, <3>3, <3>6, Zenon DEF StreamOK
      <4>2. n \in 1..Len(h.wrote) /\ n \in Nat
        BY <3>3, <3>4, <4>1, CallFields
      <4>3. n \in DOMAIN h.wrote
        BY <4>2, HandlerFields
      <4>4. ASSUME NEW i \in 1..(n - 1)
            PROVE  ~h.wrote[i].final
        <5>1. i \in 1..n /\ i # n
          BY <4>2
        <5>2. ~(h.wrote[i].final = TRUE)
          BY <3>1, <3>3, <5>1, Zenon DEF StreamOK, EndsInTime
        <5>3. h.wrote[i] \in FrameRecords
          BY <4>2, <5>1, HandlerFields
        <5>4. h.wrote[i].final \in BOOLEAN
          BY <5>3 DEF FrameRecords
        <5> QED BY <5>2, <5>4
      <4> QED BY <4>1, <4>3, <4>4 DEF EndsAt
    <3>7. k.status # "REJECTED" /\ mode # "task"
      BY <2>3, <3>1 DEF StreamOK
    <3> QED BY <2>1, <3>2, <3>4, <3>5, <3>6, <3>7, Zenon DEF Written
  <2>4. CASE mode = "task"
    <3>1. TaskOK(k, l, h) /\ mode # "stream"
      BY <2>2, <2>4 DEF CallOK
    <3>2. h.wrote = <<>> /\ k.got = <<>>
      BY <3>1, Zenon DEF TaskOK
    <3>3. 0 \in 0..Len(h.wrote) /\ DOMAIN h.wrote = {} /\ DOMAIN k.got = {} /\ 1..0 = {}
      BY <3>2
    <3>4. AreFirst(k.got, h.wrote, 0)
      BY <3>3, Zenon DEF AreFirst
    <3>5. k.status \in {"OK", "REJECTED"} => h.status = k.status
      BY <3>1, Zenon DEF TaskOK
    <3>6. (k.status = "OK" => h.status = "OK") /\ (k.status = "REJECTED" => h.status = "REJECTED")
      BY <3>5
    <3> QED BY <2>1, <3>1, <3>3, <3>4, <3>6, Zenon
  <2> QED BY <2>2, <2>3, <2>4
<1>2. LinkInv => ResultIsTheWorkers
  BY <1>1, Zenon DEF ResultIsTheWorkers
<1> QED BY <1>2, LinkInvariant, PTL

-----------------------------------------------------------------------------
(* Trunk: types *)

WorkerPcs == {"none", "top", "waiting", "recording", "sending", "done"}
EventKinds == {"none", "data", "completed", "cancelled", "failed"}
Lifes == {"absent", "accepted", "started", "cancel_requested", "terminal"}

ConnRecords == [made : BOOLEAN, open : BOOLEAN, client : BOOLEAN, listed : BOOLEAN]
WorkerRecords == [pc : WorkerPcs, next : Nat, event : EventKinds, full : BOOLEAN]
HeardRecords == [n : Nat, kind : EventKinds]
InboxRecords ==
  [kind : {"bind", "request", "cancel", "window_update"},
   stream : Streams \cup {CHOOSE s \in Streams : TRUE}, offset : Nat]

\* The record keeps its fields.
ServerOK ==
  server = [running |-> server.running, acceptor |-> server.acceptor, owner |-> server.owner]

\* The reader submits the request at the head of what has come in.
InboxOK == inbox \in Seq(InboxRecords) /\ (reader = "submitting" => inbox # <<>>)

TrunkTypes ==
  /\ life \in [Streams -> Lifes] /\ lastSeq \in [Streams -> Nat]
  /\ produced \in [Streams -> Nat] /\ acked \in [Streams -> Nat]
  /\ DOMAIN outcome = Streams /\ outcome = [s \in Streams |-> outcome[s]]
  /\ conn \in ConnRecords /\ ServerOK
  /\ worker \in [Streams -> WorkerRecords] /\ heard \in [Streams -> Seq(HeardRecords)]
  /\ InboxOK

LEMMA ConnRecord ==
  ASSUME NEW m \in BOOLEAN, NEW o \in BOOLEAN, NEW cl \in BOOLEAN, NEW li \in BOOLEAN, NEW x,
         x = [made |-> m, open |-> o, client |-> cl, listed |-> li]
  PROVE  x \in ConnRecords /\ x.made = m /\ x.open = o /\ x.client = cl /\ x.listed = li
  BY DEF ConnRecords

LEMMA ConnFields ==
  ASSUME NEW x \in ConnRecords
  PROVE  /\ x.made \in BOOLEAN /\ x.open \in BOOLEAN /\ x.client \in BOOLEAN
         /\ x.listed \in BOOLEAN
         /\ x = [made |-> x.made, open |-> x.open, client |-> x.client, listed |-> x.listed]
  BY DEF ConnRecords

LEMMA WorkerRecord ==
  ASSUME NEW pc \in WorkerPcs, NEW n \in Nat, NEW e \in EventKinds, NEW fu \in BOOLEAN, NEW w,
         w = [pc |-> pc, next |-> n, event |-> e, full |-> fu]
  PROVE  w \in WorkerRecords /\ w.pc = pc /\ w.next = n /\ w.event = e /\ w.full = fu
  BY DEF WorkerRecords

LEMMA WorkerFields ==
  ASSUME NEW w \in WorkerRecords
  PROVE  /\ w.pc \in WorkerPcs /\ w.next \in Nat /\ w.event \in EventKinds
         /\ w.full \in BOOLEAN
         /\ w = [pc |-> w.pc, next |-> w.next, event |-> w.event, full |-> w.full]
  BY DEF WorkerRecords

-----------------------------------------------------------------------------
(* Trunk: the inductive invariant *)

\* Where a worker is, what its stream's row says: the row is taken before the worker
\* starts, an event is recorded before it is sent, and a terminal one ends the worker.
RowOK(li, oc, ls, w) ==
  /\ w.pc = "none" => w.next = 1
  /\ li = "absent" <=> w.pc = "none"
  /\ w.pc \in {"none", "top", "waiting", "recording"} => ls < w.next
  /\ li = "terminal" => w.pc \in {"sending", "done"}
  /\ w.pc \in {"recording", "sending"} => w.event # "none"
  /\ w.pc = "sending" =>
       /\ ls <= w.next
       /\ li = "terminal" => w.event # "data"
       /\ w.event # "data" => oc = w.event \/ w.full = TRUE

\* What the client has heard of it.
HeardOK(oc, w, h) ==
  /\ Len(h) <= w.next - 1
  /\ \A i \in DOMAIN h : h[i].n = i
  /\ \A i \in DOMAIN h : h[i].kind # "data" =>
       i = Len(h) /\ w.pc = "done" /\ (oc = h[i].kind \/ w.full = TRUE)

\* Nothing that is sent is lost: the client is there, or has not come yet.
Whole == conn.made = FALSE \/ (conn.open = TRUE /\ conn.client = TRUE)

\* Only a connection that was made is accepted, read and served.
MadeFirst ==
  conn.made = FALSE =>
    /\ reader = "none" /\ server.acceptor \notin {"accepted", "listing"}
    /\ \A s \in Streams : worker[s].pc = "none"

TrunkInv ==
  /\ TrunkTypes /\ MadeFirst
  /\ \A s \in Streams :
       /\ RowOK(life[s], outcome[s], lastSeq[s], worker[s])
       /\ HeardOK(outcome[s], worker[s], heard[s])
       /\ Whole => Len(heard[s]) = worker[s].next - 1

\* The connection is no better than before.
Dimmed(c2) ==
  /\ c2 \in ConnRecords /\ c2.made = conn.made
  /\ c2.open = TRUE => conn.open = TRUE
  /\ c2.client = TRUE => conn.client = TRUE

LEMMA ConnDims ==
  ASSUME conn \in ConnRecords, NEW o \in BOOLEAN, NEW cl \in BOOLEAN, NEW li \in BOOLEAN,
         o = TRUE => conn.open = TRUE, cl = TRUE => conn.client = TRUE, NEW c2,
         c2 = [conn EXCEPT !.open = o, !.client = cl, !.listed = li]
  PROVE  Dimmed(c2)
<1>1. c2 = [made |-> conn.made, open |-> o, client |-> cl, listed |-> li]
  BY DEF ConnRecords
<1>2. c2 \in ConnRecords /\ c2.made = conn.made /\ c2.open = o /\ c2.client = cl
  <2>1. PICK m \in BOOLEAN : m = conn.made
    BY ConnFields
  <2>2. c2 = [made |-> m, open |-> o, client |-> cl, listed |-> li]
    BY <1>1, <2>1, Zenon
  <2>3. c2 \in ConnRecords /\ c2.made = m /\ c2.open = o /\ c2.client = cl
    BY ONLY <2>2, m \in BOOLEAN, o \in BOOLEAN, cl \in BOOLEAN, li \in BOOLEAN DEF ConnRecords
  <2> QED BY <2>1, <2>3, Zenon
<1> QED BY <1>2, Zenon DEF Dimmed

\* What the session does for the reader: it never ends a stream.
Calm ==
  /\ UNCHANGED <<outcome, lastSeq, produced>>
  /\ life' \in [Streams -> Lifes] /\ acked' \in [Streams -> Nat]
  /\ \A s \in Streams :
       \/ life'[s] = life[s]
       \/ life[s] \in {"accepted", "started"} /\ life'[s] = "cancel_requested"

\* A step of anyone but the workers.
LEMMA QuietKeeps ==
  ASSUME TrunkInv, Calm, Dimmed(conn'), UNCHANGED <<worker, heard>>, ServerOK',
         InboxOK',
         conn.made = FALSE =>
           reader' = "none" /\ server'.acceptor \notin {"accepted", "listing"}
  PROVE  TrunkInv'
<1>1. TrunkTypes'
  BY Zenon DEF TrunkInv, TrunkTypes, Calm, Dimmed
<1>2. Whole' => Whole
  BY Zenon DEF Dimmed, Whole
<1>3. MadeFirst'
  BY Zenon DEF Dimmed, MadeFirst, TrunkInv
<1>4. ASSUME NEW s \in Streams
      PROVE  /\ RowOK(life[s], outcome[s], lastSeq[s], worker[s])'
             /\ HeardOK(outcome[s], worker[s], heard[s])'
             /\ Whole' => Len(heard'[s]) = worker'[s].next - 1
  <2>1. PICK li, l2, oc, ls, w, h :
          /\ li = life[s] /\ l2 = life'[s] /\ oc = outcome[s] /\ ls = lastSeq[s]
          /\ w = worker[s] /\ h = heard[s]
    OBVIOUS
  <2>2. /\ RowOK(li, oc, ls, w) /\ HeardOK(oc, w, h)
        /\ Whole => Len(h) = w.next - 1
    BY <2>1, Zenon DEF TrunkInv
  <2>3. l2 = li \/ (li \in {"accepted", "started"} /\ l2 = "cancel_requested")
    BY <2>1, Zenon DEF Calm
  <2>4. RowOK(l2, oc, ls, w)
    <3>1. CASE li \in {"accepted", "started"} /\ l2 = "cancel_requested"
      <4>1. li # "absent" /\ l2 # "absent" /\ l2 # "terminal"
        BY <3>1
      <4> QED BY <2>2, <4>1, Zenon DEF RowOK
    <3> QED BY <2>2, <2>3, <3>1, Zenon
  <2>5. outcome' = outcome /\ lastSeq' = lastSeq /\ worker' = worker /\ heard' = heard
    BY DEF Calm
  <2> QED BY <1>2, <2>1, <2>2, <2>4, <2>5, Zenon
<1> QED BY <1>1, <1>3, <1>4, Zenon DEF TrunkInv

LEMMA RestIsCalm ==
  ASSUME TrunkInv, UNCHANGED <<life, outcome, lastSeq, produced, acked>>
  PROVE  Calm
BY Zenon DEF Calm, TrunkInv, TrunkTypes

LEMMA SameIsDimmed ==
  ASSUME TrunkInv
  PROVE  /\ Dimmed(conn) /\ ServerOK /\ InboxOK /\ inbox \in Seq(InboxRecords)
         /\ conn \in ConnRecords
BY Zenon DEF Dimmed, TrunkInv, TrunkTypes, InboxOK

\* A step of the reader: the connection was made.
LEMMA ReaderKeeps ==
  ASSUME TrunkInv, Calm, Dimmed(conn'), UNCHANGED <<server, worker, heard>>, reader # "none",
         InboxOK'
  PROVE  TrunkInv'
<1>1. ServerOK'
  BY SameIsDimmed DEF ServerOK
<1>2. ~(conn.made = FALSE)
  BY Zenon DEF TrunkInv, MadeFirst
<1> QED BY <1>1, <1>2, QuietKeeps

\* A step of the accept thread or of stop().
LEMMA ServingKeeps ==
  ASSUME TrunkInv, NEW new, NEW c2, NEW r, Serving(new, c2, r), Dimmed(c2),
         new = [running |-> new.running, acceptor |-> new.acceptor, owner |-> new.owner],
         conn.made = FALSE => r = "none" /\ new.acceptor \notin {"accepted", "listing"},
         r \in {reader, "loop"}
  PROVE  TrunkInv'
<1>1. /\ server' = new /\ conn' = c2 /\ reader' = r /\ UNCHANGED <<worker, inbox, heard>>
      /\ UNCHANGED <<life, outcome, lastSeq, produced, acked>>
  BY DEF Serving, tableVars
<1>2. ServerOK'
  BY <1>1 DEF ServerOK
<1>3. Calm
  BY <1>1, RestIsCalm
<1>4. InboxOK' /\ Dimmed(conn')
  <2>1. reader' = "submitting" => reader = "submitting"
    BY <1>1
  <2> QED BY <1>1, <2>1, SameIsDimmed, Zenon DEF InboxOK
<1>5. conn.made = FALSE => reader' = "none" /\ server'.acceptor \notin {"accepted", "listing"}
  BY <1>1, Zenon
<1> QED BY <1>1, <1>2, <1>3, <1>4, <1>5, QuietKeeps

LEMMA AcceptorStepKeeps ==
  ASSUME TrunkInv, Acceptor \/ Stop \/ CloseConnections \/ StopReturns
  PROVE  TrunkInv'
<1>1. /\ Dimmed(conn) /\ conn \in ConnRecords
      /\ server = [running |-> server.running, acceptor |-> server.acceptor,
                   owner |-> server.owner]
  BY SameIsDimmed DEF ServerOK
<1>2. PICK no \in BOOLEAN, yes \in BOOLEAN : no = FALSE /\ yes = TRUE
  OBVIOUS
<1>3. ASSUME NEW c2, \/ c2 = conn \/ c2 = [conn EXCEPT !.open = no]
                     \/ c2 = [conn EXCEPT !.open = no, !.listed = no]
                     \/ c2 = [conn EXCEPT !.listed = yes]
      PROVE  Dimmed(c2)
  <2>1. PICK o \in BOOLEAN, cl \in BOOLEAN, li \in BOOLEAN :
          o = conn.open /\ cl = conn.client /\ li = conn.listed
    BY <1>1, ConnFields
  <2>2. ~(no = TRUE)
    BY <1>2
  <2>3. CASE c2 = [conn EXCEPT !.open = no]
    <3>1. c2 = [conn EXCEPT !.open = no, !.client = cl, !.listed = li]
      BY <1>1, <2>1, <2>3 DEF ConnRecords
    <3> QED BY <1>1, <2>1, <2>2, <3>1, ConnDims
  <2>4. CASE c2 = [conn EXCEPT !.open = no, !.listed = no]
    <3>1. c2 = [conn EXCEPT !.open = no, !.client = cl, !.listed = no]
      BY <1>1, <2>1, <2>4 DEF ConnRecords
    <3> QED BY <1>1, <2>1, <2>2, <3>1, ConnDims
  <2>5. CASE c2 = [conn EXCEPT !.listed = yes]
    <3>1. c2 = [conn EXCEPT !.open = o, !.client = cl, !.listed = yes]
      BY <1>1, <2>1, <2>5 DEF ConnRecords
    <3> QED BY <1>1, <2>1, <3>1, ConnDims
  <2> QED BY <1>1, <1>3, <2>3, <2>4, <2>5
<1>4. conn.made = FALSE =>
        reader = "none" /\ server.acceptor \notin {"accepted", "listing"}
  BY Zenon DEF TrunkInv, MadeFirst
<1>5. CASE AcceptConnection \/ LookAtRunning \/ StartReader
  <2>1. PICK new, c2, r, a :
          /\ Serving(new, c2, r) /\ new = [server EXCEPT !.acceptor = a]
          /\ \/ c2 = conn \/ c2 = [conn EXCEPT !.open = no] \/ c2 = [conn EXCEPT !.listed = yes]
          /\ r \in {reader, "loop"}
          /\ conn.made \/ server.acceptor \in {"accepted", "listing"}
    <3>1. CASE AcceptConnection
      BY <3>1, Zenon DEF AcceptConnection
    <3>2. CASE LookAtRunning
      <4>1. server.acceptor \in {"accepted", "listing"}
        BY <3>2 DEF LookAtRunning
      <4> QED BY <1>2, <3>2, <4>1, Zenon DEF LookAtRunning
    <3>3. CASE StartReader
      <4>1. server.acceptor \in {"accepted", "listing"}
        BY <3>3 DEF StartReader
      <4> QED BY <1>2, <3>3, <4>1, Zenon DEF StartReader
    <3> QED BY <1>5, <3>1, <3>2, <3>3
  <2>2. ~(conn.made = FALSE)
    <3>1. CASE conn.made
      BY <3>1
    <3> QED BY <1>4, <2>1, <3>1, Zenon
  <2>3. new = [running |-> new.running, acceptor |-> new.acceptor, owner |-> new.owner]
    BY <1>1, <2>1
  <2>4. Dimmed(c2)
    BY <1>3, <2>1, Zenon
  <2> QED BY <2>1, <2>2, <2>3, <2>4, ServingKeeps
<1>6. CASE AcceptWakeUp \/ ReadersJoined \/ Stop \/ CloseConnections \/ StopReturns
  <2>1. PICK new, c2 :
          /\ Serving(new, c2, reader)
          /\ \/ new = [server EXCEPT !.acceptor = "ending"]
             \/ new = [server EXCEPT !.acceptor = "ended"]
             \/ new = [server EXCEPT !.running = no, !.owner = "stopping"]
             \/ new = [server EXCEPT !.owner = "joining"]
             \/ new = [server EXCEPT !.owner = "stopped"]
          /\ \/ c2 = conn \/ c2 = [conn EXCEPT !.open = no]
             \/ c2 = [conn EXCEPT !.open = no, !.listed = no]
    <3>1. CASE AcceptWakeUp
      BY <1>2, <3>1, Zenon DEF AcceptWakeUp
    <3>2. CASE ReadersJoined
      BY <3>2, Zenon DEF ReadersJoined
    <3>3. CASE Stop
      BY <1>2, <3>3, Zenon DEF Stop
    <3>4. CASE CloseConnections
      BY <1>2, <3>4, Zenon DEF CloseConnections
    <3>5. CASE StopReturns
      BY <3>5, Zenon DEF StopReturns
    <3> QED BY <1>6, <3>1, <3>2, <3>3, <3>4, <3>5
  <2>2. /\ new = [running |-> new.running, acceptor |-> new.acceptor, owner |-> new.owner]
        /\ new.acceptor \in {"ending", "ended", server.acceptor}
    BY <1>1, <2>1
  <2>3. conn.made = FALSE => reader = "none" /\ new.acceptor \notin {"accepted", "listing"}
    BY <1>4, <2>2
  <2>4. Dimmed(c2)
    BY <1>3, <2>1, Zenon
  <2> QED BY <2>1, <2>2, <2>3, <2>4, ServingKeeps
<1> QED BY <1>5, <1>6, Zenon DEF Acceptor

\* The client comes, sends and leaves; the lease is dropped.
LEMMA ClientKeeps ==
  ASSUME TrunkInv, ClientConnects \/ ClientSends \/ ClientLeaves \/ LeaseDrops
  PROVE  TrunkInv'
<1>1. /\ Dimmed(conn) /\ ServerOK /\ InboxOK /\ inbox \in Seq(InboxRecords)
      /\ conn \in ConnRecords
      /\ conn.made = FALSE =>
           reader = "none" /\ server.acceptor \notin {"accepted", "listing"}
  BY SameIsDimmed, Zenon DEF TrunkInv, MadeFirst
<1>2. CASE ClientConnects
  <2>1. PICK yes \in BOOLEAN : yes = TRUE
    OBVIOUS
  <2>2. /\ conn' = [conn EXCEPT !.made = yes, !.open = yes, !.client = yes] /\ ~conn.made
        /\ UNCHANGED <<life, outcome, lastSeq, produced, acked, server, reader, worker, inbox, heard>>
    BY <1>2, <2>1, Zenon DEF ClientConnects, tableVars
  <2>3. conn' = [made |-> yes, open |-> yes, client |-> yes, listed |-> conn.listed]
    BY <1>1, <2>2 DEF ConnRecords
  <2>4. conn' \in ConnRecords /\ conn'.made = yes
    <3>1. PICK li \in BOOLEAN : li = conn.listed
      BY <1>1, ConnFields
    <3>2. conn' = [made |-> yes, open |-> yes, client |-> yes, listed |-> li]
      BY <2>3, <3>1, Zenon
    <3> QED BY ONLY <3>2, yes \in BOOLEAN, li \in BOOLEAN DEF ConnRecords
  <2>5. conn.made = FALSE
    <3>1. conn.made \in BOOLEAN
      BY <1>1, ConnFields
    <3> QED BY <2>2, <3>1
  <2>6. Whole
    BY <2>5, Zenon DEF Whole
  <2>7. TrunkTypes'
    BY <1>1, <2>2, <2>4 DEF TrunkInv, TrunkTypes, ServerOK, InboxOK
  <2>8. MadeFirst'
    <3>1. ~(conn'.made = FALSE)
      BY <2>1, <2>4
    <3> QED BY <3>1, Zenon DEF MadeFirst
  <2> QED BY <2>2, <2>6, <2>7, <2>8, Zenon DEF TrunkInv
<1>3. CASE ClientSends
  <2>1. PICK f \in ClientFrames : inbox' = Append(inbox, f)
    BY <1>3, Zenon DEF ClientSends
  <2>2. f \in InboxRecords
    <3>1. \A s \in Streams : Len(heard[s]) \in Nat
      BY DEF TrunkInv, TrunkTypes
    <3> QED BY <3>1 DEF ClientFrames, InboxRecords
  <2>3. InboxOK'
    <3>1. inbox' \in Seq(InboxRecords) /\ inbox' # <<>>
      BY <1>1, <2>1, <2>2
    <3> QED BY <3>1 DEF InboxOK
  <2>4. UNCHANGED <<life, outcome, lastSeq, produced, acked, server, conn, reader, worker, heard>>
    BY <1>3, Zenon DEF ClientSends, tableVars, threadVars
  <2>5. ServerOK' /\ Dimmed(conn')
    BY <1>1, <2>4 DEF ServerOK
  <2> QED BY <1>1, <2>3, <2>4, <2>5, RestIsCalm, QuietKeeps
<1>4. CASE ClientLeaves
  <2>1. PICK no \in BOOLEAN : no = FALSE
    OBVIOUS
  <2>2. /\ conn' = [conn EXCEPT !.client = no]
        /\ UNCHANGED <<life, outcome, lastSeq, produced, acked, server, reader, worker, inbox,
                       heard>>
    BY <1>4, <2>1, Zenon DEF ClientLeaves, tableVars
  <2>3. PICK o \in BOOLEAN, li \in BOOLEAN : o = conn.open /\ li = conn.listed
    BY <1>1, ConnFields
  <2>4. conn' = [conn EXCEPT !.open = o, !.client = no, !.listed = li]
    BY <1>1, <2>2, <2>3 DEF ConnRecords
  <2>5. ~(no = TRUE)
    BY <2>1
  <2>6. Dimmed(conn')
    BY <1>1, <2>3, <2>4, <2>5, ConnDims
  <2>7. ServerOK'
    BY <1>1, <2>2 DEF ServerOK
  <2>8. InboxOK'
    BY <1>1, <2>2 DEF InboxOK
  <2> QED BY <1>1, <2>2, <2>6, <2>7, <2>8, RestIsCalm, QuietKeeps
<1>5. CASE LeaseDrops
  <2>1. UNCHANGED <<life, outcome, lastSeq, produced, acked, server, conn, reader, worker, inbox,
                    heard>>
    BY <1>5, Zenon DEF LeaseDrops, tableVars, threadVars
  <2>2. ServerOK' /\ Dimmed(conn') /\ InboxOK'
    BY <1>1, <2>1 DEF ServerOK, InboxOK
  <2> QED BY <1>1, <2>1, <2>2, RestIsCalm, QuietKeeps
<1> QED BY <1>2, <1>3, <1>4, <1>5

\* What the session's methods do for the reader.
LEMMA MethodsAreCalm ==
  ASSUME TrunkInv,
         \/ \E b \in Leases : Table!ProcessSessionBind(b)
         \/ Table!MarkBindingStale
         \/ \E s : Table!ProcessControlCancel(s)
         \/ \E s : \E k \in Nat : Table!ProcessControlWindowUpdate(s, k)
  PROVE  Calm
<1>1. /\ life \in [Streams -> Lifes] /\ acked \in [Streams -> Nat]
  BY DEF TrunkInv, TrunkTypes
<1>2. CASE \E b \in Leases : Table!ProcessSessionBind(b)
  BY <1>2, RestIsCalm DEF Table!ProcessSessionBind, Table!streamVars
<1>3. CASE Table!MarkBindingStale
  BY <1>3, RestIsCalm DEF Table!MarkBindingStale, Table!streamVars
<1>4. CASE \E s : Table!ProcessControlCancel(s)
  <2>1. PICK s : Table!ProcessControlCancel(s)
    BY <1>4
  <2>2. /\ life' = [r \in Streams |->
              IF r \in {s} /\ Table!Cancellable(r) THEN "cancel_requested" ELSE life[r]]
        /\ UNCHANGED <<outcome, lastSeq, produced, acked>>
    BY <2>1 DEF Table!ProcessControlCancel, Table!Cancel
  <2>3. \A r \in Streams :
          \/ life'[r] = life[r]
          \/ life[r] \in {"accepted", "started"} /\ life'[r] = "cancel_requested"
    BY <2>2 DEF Table!Cancellable
  <2>4. life' \in [Streams -> Lifes]
    <3>1. life' = [r \in Streams |-> life'[r]]
      BY <2>2, Zenon
    <3>2. \A r \in Streams : life'[r] \in Lifes
      BY <1>1, <2>3 DEF Lifes
    <3> QED BY <3>1, <3>2
  <2> QED BY <1>1, <2>2, <2>3, <2>4 DEF Calm
<1>5. CASE \E s : \E k \in Nat : Table!ProcessControlWindowUpdate(s, k)
  <2>1. PICK s : \E k \in Nat : Table!ProcessControlWindowUpdate(s, k)
    BY <1>5
  <2>2. PICK k \in Nat : acked' = [acked EXCEPT ![s] = k]
                         /\ UNCHANGED <<life, outcome, lastSeq, produced>>
    BY <2>1 DEF Table!ProcessControlWindowUpdate, Table!AcknowledgeOffset, Table!Advance
  <2> QED BY <1>1, <2>2 DEF Calm
<1> QED BY <1>2, <1>3, <1>4, <1>5

\* Every step of the reader but the start of a worker.
LEMMA ReaderStepKeeps ==
  ASSUME TrunkInv,
         \/ ReaderLoops \/ ConnectionEnds \/ ReceiveBind \/ ReceiveRequest \/ ReceiveCancel
         \/ ReceiveWindowUpdate \/ WorkersJoined
         \/ reader = "submitting" /\ inbox' = Tail(inbox) /\ \E s : RefuseRequest(s)
  PROVE  TrunkInv'
<1>1. Dimmed(conn) /\ InboxOK /\ inbox \in Seq(InboxRecords) /\ conn \in ConnRecords
  BY SameIsDimmed
<1>2. PICK no \in BOOLEAN : no = FALSE
  OBVIOUS
<1>3. ASSUME NEW o \in BOOLEAN, o = TRUE => conn.open = TRUE,
             NEW c2, c2 = conn \/ c2 = [conn EXCEPT !.open = o]
      PROVE  Dimmed(c2)
  <2>1. PICK cl \in BOOLEAN, li \in BOOLEAN : cl = conn.client /\ li = conn.listed
    BY <1>1, ConnFields
  <2>2. CASE c2 = [conn EXCEPT !.open = o]
    <3>1. c2 = [conn EXCEPT !.open = o, !.client = cl, !.listed = li]
      BY <1>1, <2>1, <2>2 DEF ConnRecords
    <3> QED BY <1>1, <1>3, <2>1, <3>1, ConnDims
  <2> QED BY <1>1, <1>3, <2>2
<1>4. \A c2 : c2 = conn \/ c2 = [conn EXCEPT !.open = no] => Dimmed(c2)
  <2>1. ~(no = TRUE)
    BY <1>2
  <2> QED BY <1>3, <2>1
<1>5. inbox # <<>> =>
        /\ Head(inbox) \in InboxRecords /\ Tail(inbox) \in Seq(InboxRecords)
        /\ Head(inbox).offset \in Nat
  <2>1. inbox # <<>> => Head(inbox) \in InboxRecords /\ Tail(inbox) \in Seq(InboxRecords)
    BY <1>1, HeadTailProperties
  <2> QED BY <2>1 DEF InboxRecords
<1>6. CASE ReaderLoops
  <2>1. /\ UNCHANGED <<life, outcome, lastSeq, produced, acked, server, conn, worker, inbox,
                       heard>>
        /\ reader = "loop" /\ reader' = (IF Alive THEN "receiving" ELSE "joining")
    BY <1>6, Zenon DEF ReaderLoops, ReaderGoes, tableVars
  <2>2. InboxOK'
    BY <1>1, <2>1 DEF InboxOK
  <2> QED BY <1>1, <2>1, <2>2, RestIsCalm, ReaderKeeps
<1>7. CASE ConnectionEnds \/ WorkersJoined
  <2>1. /\ UNCHANGED <<life, outcome, lastSeq, produced, acked, server, worker, inbox, heard>>
        /\ reader \in {"receiving", "joining"} /\ conn' = [conn EXCEPT !.open = no]
        /\ reader' = "joining" \/ reader' = "ended"
    <3>1. CASE ConnectionEnds
      <4>1. reader \in {"receiving", "joining"}
        BY <3>1 DEF ConnectionEnds
      <4> QED BY <1>2, <3>1, <4>1, Zenon DEF ConnectionEnds, ReaderGoes, tableVars
    <3>2. CASE WorkersJoined
      <4>1. reader \in {"receiving", "joining"}
        BY <3>2 DEF WorkersJoined
      <4> QED BY <1>2, <3>2, <4>1, Zenon DEF WorkersJoined, ReaderGoes, tableVars
    <3> QED BY <1>7, <3>1, <3>2
  <2>2. Dimmed(conn') /\ reader # "none" /\ InboxOK'
    BY <1>1, <1>4, <2>1 DEF InboxOK
  <2> QED BY <2>1, <2>2, RestIsCalm, ReaderKeeps
<1>8. CASE ReceiveBind
  <2>1. /\ reader = "receiving" /\ inbox # <<>> /\ inbox' = Tail(inbox)
        /\ UNCHANGED <<server, worker, heard>>
        /\ conn' = conn \/ conn' = [conn EXCEPT !.open = no]
        /\ reader' = "loop" \/ reader' = "joining"
    BY <1>2, <1>8, Zenon DEF ReceiveBind, Receives, ReaderGoes
  <2>2. \/ \E b \in Leases : Table!ProcessSessionBind(b)
        \/ UNCHANGED tableVars
    BY <1>8, Zenon DEF ReceiveBind
  <2>3. Calm
    <3>1. CASE UNCHANGED tableVars
      BY <3>1, RestIsCalm DEF tableVars
    <3> QED BY <2>2, <3>1, MethodsAreCalm
  <2>4. Dimmed(conn') /\ InboxOK' /\ reader # "none"
    BY <1>4, <1>5, <2>1 DEF InboxOK
  <2> QED BY <2>1, <2>3, <2>4, ReaderKeeps
<1>9. CASE ReceiveRequest
  <2>1. /\ reader = "receiving" /\ inbox # <<>>
        /\ UNCHANGED <<server, conn, inbox, worker, heard>>
    BY <1>9, Zenon DEF ReceiveRequest, Receives, ReaderGoes
  <2>2. Table!MarkBindingStale \/ UNCHANGED tableVars
    BY <1>9, Zenon DEF ReceiveRequest
  <2>3. Calm
    <3>1. CASE UNCHANGED tableVars
      BY <3>1, RestIsCalm DEF tableVars
    <3> QED BY <2>2, <3>1, MethodsAreCalm
  <2>4. Dimmed(conn') /\ InboxOK' /\ reader # "none"
    BY <1>1, <2>1 DEF InboxOK
  <2> QED BY <2>1, <2>3, <2>4, ReaderKeeps
<1>10. CASE ReceiveCancel \/ ReceiveWindowUpdate
  <2>1. /\ reader = "receiving" /\ inbox # <<>> /\ inbox' = Tail(inbox)
        /\ UNCHANGED <<server, conn, worker, heard>> /\ reader' = "loop"
    BY <1>10, Zenon DEF ReceiveCancel, ReceiveWindowUpdate, Receives, ReaderGoes
  <2>2. \/ \E s : Table!ProcessControlCancel(s)
        \/ \E s : \E k \in Nat : Table!ProcessControlWindowUpdate(s, k)
        \/ UNCHANGED tableVars
    <3>1. CASE ReceiveCancel
      BY <3>1, Zenon DEF ReceiveCancel
    <3>2. CASE ReceiveWindowUpdate
      <4>1. PICK k \in Nat : k = Head(inbox).offset
        BY <1>5, <2>1
      <4> QED BY <3>2, <4>1, Zenon DEF ReceiveWindowUpdate
    <3> QED BY <1>10, <3>1, <3>2
  <2>3. Calm
    <3>1. CASE UNCHANGED tableVars
      BY <3>1, RestIsCalm DEF tableVars
    <3> QED BY <2>2, <3>1, MethodsAreCalm
  <2>4. Dimmed(conn') /\ InboxOK' /\ reader # "none"
    BY <1>1, <1>5, <2>1 DEF InboxOK
  <2> QED BY <2>1, <2>3, <2>4, ReaderKeeps
<1>11. CASE reader = "submitting" /\ inbox' = Tail(inbox) /\ \E s : RefuseRequest(s)
  <2>1. /\ conn' = [conn EXCEPT !.open = @ /\ binding # "unbound"]
        /\ UNCHANGED <<life, outcome, lastSeq, produced, acked, server, worker, heard>>
        /\ reader' = (IF binding = "unbound" THEN "joining" ELSE "loop")
    BY <1>11, Zenon DEF RefuseRequest, ReaderGoes, tableVars
  <2>2. PICK o \in BOOLEAN : o = (conn.open /\ binding # "unbound")
    OBVIOUS
  <2>3. o = TRUE => conn.open = TRUE
    <3>1. conn.open \in BOOLEAN
      BY <1>1, ConnFields
    <3> QED BY <2>2, <3>1
  <2>4. conn' = [conn EXCEPT !.open = o]
    BY <2>1, <2>2, Zenon
  <2>5. Dimmed(conn')
    BY <1>3, <2>3, <2>4
  <2>6. InboxOK' /\ reader # "none"
    <3>1. inbox # <<>> /\ reader' # "submitting"
      BY <1>1, <1>11, <2>1 DEF InboxOK
    <3> QED BY <1>5, <1>11, <3>1 DEF InboxOK
  <2> QED BY <2>1, <2>5, <2>6, RestIsCalm, ReaderKeeps
<1> QED BY <1>6, <1>7, <1>8, <1>9, <1>10, <1>11

-----------------------------------------------------------------------------
(* Trunk: the workers *)

\* A step about one stream, on a connection that was made.
LEMMA OneStreamKeeps ==
  ASSUME TrunkInv, NEW s \in Streams, NEW w \in WorkerRecords, NEW h \in Seq(HeardRecords),
         worker' = [worker EXCEPT ![s] = w], heard' = [heard EXCEPT ![s] = h],
         life' \in [Streams -> Lifes], lastSeq' \in [Streams -> Nat],
         produced' \in [Streams -> Nat], acked' \in [Streams -> Nat],
         DOMAIN outcome' = Streams, outcome' = [r \in Streams |-> outcome'[r]],
         \A r \in Streams \ {s} :
           life'[r] = life[r] /\ outcome'[r] = outcome[r] /\ lastSeq'[r] = lastSeq[r],
         Dimmed(conn'), UNCHANGED server, ~(conn.made = FALSE), InboxOK',
         RowOK(life'[s], outcome'[s], lastSeq'[s], w), HeardOK(outcome'[s], w, h),
         Whole' => Len(h) = w.next - 1
  PROVE  TrunkInv'
<1>1. /\ worker \in [Streams -> WorkerRecords] /\ heard \in [Streams -> Seq(HeardRecords)]
      /\ ServerOK
  BY DEF TrunkInv, TrunkTypes
<1>2. /\ worker' \in [Streams -> WorkerRecords] /\ heard' \in [Streams -> Seq(HeardRecords)]
      /\ worker'[s] = w /\ heard'[s] = h
      /\ \A r \in Streams \ {s} : worker'[r] = worker[r] /\ heard'[r] = heard[r]
  BY <1>1
<1>3. ServerOK'
  BY <1>1 DEF ServerOK
<1>4. TrunkTypes'
  BY <1>2, <1>3, Zenon DEF TrunkTypes, Dimmed
<1>5. MadeFirst'
  BY Zenon DEF MadeFirst, Dimmed
<1>6. Whole' => Whole
  BY Zenon DEF Dimmed, Whole
<1>7. ASSUME NEW r \in Streams
      PROVE  /\ RowOK(life'[r], outcome'[r], lastSeq'[r], worker'[r])
             /\ HeardOK(outcome'[r], worker'[r], heard'[r])
             /\ Whole' => Len(heard'[r]) = worker'[r].next - 1
  <2>1. CASE r = s
    BY <1>2, <2>1, Zenon
  <2>2. CASE r # s
    <3>1. /\ RowOK(life[r], outcome[r], lastSeq[r], worker[r])
          /\ HeardOK(outcome[r], worker[r], heard[r])
          /\ Whole => Len(heard[r]) = worker[r].next - 1
      BY Zenon DEF TrunkInv
    <3>2. /\ life'[r] = life[r] /\ outcome'[r] = outcome[r] /\ lastSeq'[r] = lastSeq[r]
          /\ worker'[r] = worker[r] /\ heard'[r] = heard[r]
      BY <1>2, <2>2
    <3> QED BY <1>6, <3>1, <3>2, Zenon
  <2> QED BY <2>1, <2>2
<1> QED BY <1>4, <1>5, <1>7, Zenon DEF TrunkInv

LEMMA TypedStream ==
  ASSUME TrunkInv, NEW s \in Streams
  PROVE  /\ worker[s] \in WorkerRecords /\ heard[s] \in Seq(HeardRecords)
         /\ RowOK(life[s], outcome[s], lastSeq[s], worker[s])
         /\ HeardOK(outcome[s], worker[s], heard[s])
         /\ Whole => Len(heard[s]) = worker[s].next - 1
         /\ worker = [worker EXCEPT ![s] = worker[s]] /\ heard = [heard EXCEPT ![s] = heard[s]]
         /\ life[s] \in Lifes /\ lastSeq[s] \in Nat
         /\ worker[s].pc # "none" => ~(conn.made = FALSE)
  BY DEF TrunkInv, TrunkTypes, MadeFirst

LEMMA StartWorkerKeeps ==
  ASSUME TrunkInv, SubmitRequest, NEW s, StartWorker(s)
  PROVE  TrunkInv'
<1>1. /\ reader = "submitting" /\ inbox' = Tail(inbox) /\ reader' = "loop"
      /\ UNCHANGED <<server, heard, conn>> /\ Table!SubmitRequest(s)
      /\ worker' = [worker EXCEPT ![s].pc = "top"]
  BY Zenon DEF SubmitRequest, StartWorker, ReaderGoes
<1>2. ~(conn.made = FALSE)
  <2>1. reader # "none"
    BY <1>1
  <2> QED BY <2>1, Zenon DEF TrunkInv, MadeFirst
<1>3. InboxOK' /\ Dimmed(conn')
  <2>1. inbox # <<>> /\ inbox \in Seq(InboxRecords)
    BY <1>1 DEF TrunkInv, TrunkTypes, InboxOK
  <2>2. Tail(inbox) \in Seq(InboxRecords)
    BY <2>1, HeadTailProperties
  <2> QED BY <1>1, <2>2, SameIsDimmed DEF InboxOK
<1>4. /\ life[s] = "absent" /\ life' = [life EXCEPT ![s] = "accepted"]
      /\ UNCHANGED <<outcome, lastSeq, produced, acked>>
  BY <1>1 DEF Table!SubmitRequest, Table!CanSubmit
<1>5. /\ life \in [Streams -> Lifes] /\ lastSeq \in [Streams -> Nat]
      /\ produced \in [Streams -> Nat] /\ acked \in [Streams -> Nat]
      /\ DOMAIN outcome = Streams /\ outcome = [r \in Streams |-> outcome[r]]
      /\ worker \in [Streams -> WorkerRecords]
  BY DEF TrunkInv, TrunkTypes
<1>6. CASE s \notin Streams
  <2>1. life' = life /\ worker' = worker
    BY <1>1, <1>4, <1>5, <1>6
  <2>2. Calm
    BY <1>4, <2>1, RestIsCalm
  <2>3. reader # "none"
    BY <1>1
  <2> QED BY <1>1, <1>3, <2>1, <2>2, <2>3, ReaderKeeps
<1>7. CASE s \in Streams
  <2>1. PICK w \in WorkerRecords, h \in Seq(HeardRecords) : w = worker[s] /\ h = heard[s]
    BY <1>7, TypedStream
  <2>2. /\ RowOK(life[s], outcome[s], lastSeq[s], w) /\ HeardOK(outcome[s], w, h)
        /\ Whole => Len(h) = w.next - 1
    BY <1>7, <2>1, TypedStream
  <2>3. PICK w2 : w2 = [w EXCEPT !.pc = "top"]
    OBVIOUS
  <2>4. worker' = [worker EXCEPT ![s] = w2]
    BY <1>1, <2>1, <2>3, Zenon
  <2>5. /\ w2 \in WorkerRecords /\ w2.pc = "top" /\ w2.next = w.next /\ w2.event = w.event
        /\ w2.full = w.full
    <3>1. w2 = [pc |-> "top", next |-> w.next, event |-> w.event, full |-> w.full]
      BY <2>3 DEF WorkerRecords
    <3>2. "top" \in WorkerPcs
      BY DEF WorkerPcs
    <3> QED BY <3>1, <3>2, WorkerFields, WorkerRecord
  <2>6. heard' = [heard EXCEPT ![s] = h]
    BY <1>1, <1>7, <2>1, TypedStream
  <2>7. life' \in [Streams -> Lifes] /\ life'[s] = "accepted"
        /\ \A r \in Streams \ {s} : life'[r] = life[r]
    BY <1>4, <1>5, <1>7 DEF Lifes
  <2>8. w.pc = "none"
    BY <1>4, <2>2, Zenon DEF RowOK
  <2>9. RowOK(life'[s], outcome'[s], lastSeq'[s], w2)
    <3>1. lastSeq[s] < w2.next
      BY <2>2, <2>5, <2>8 DEF RowOK
    <3>2. "accepted" # "absent" /\ "accepted" # "terminal"
      OBVIOUS
    <3>3. "top" \notin {"none", "sending", "recording", "done"}
      OBVIOUS
    <3> QED BY <1>4, <2>5, <2>7, <3>1, <3>2, <3>3 DEF RowOK
  <2>10. HeardOK(outcome'[s], w2, h)
    <3>1. w.pc # "done"
      BY <2>8
    <3> QED BY <1>4, <2>2, <2>5, <3>1, Zenon DEF HeardOK
  <2>11. Whole' => Len(h) = w2.next - 1
    BY <1>1, <2>2, <2>5, Zenon DEF Whole
  <2>12. /\ lastSeq' \in [Streams -> Nat] /\ produced' \in [Streams -> Nat]
         /\ acked' \in [Streams -> Nat]
         /\ DOMAIN outcome' = Streams /\ outcome' = [r \in Streams |-> outcome'[r]]
         /\ \A r \in Streams \ {s} :
              life'[r] = life[r] /\ outcome'[r] = outcome[r] /\ lastSeq'[r] = lastSeq[r]
    BY <1>4, <1>5, <2>7, Zenon
  <2> QED BY <1>1, <1>2, <1>3, <1>7, <2>4, <2>5, <2>6, <2>7, <2>9, <2>10, <2>11, <2>12,
             OneStreamKeeps, Zenon
<1> QED BY <1>6, <1>7

\* A worker that goes on without an event of its own.
LEMMA GoesOnKeeps ==
  ASSUME TrunkInv, NEW s \in Streams, worker[s].pc \in {"top", "waiting"},
         NEW pc \in {"recording", "waiting", "done"}, NEW ev \in EventKinds,
         pc = "recording" => ev # "none",
         WorkerGoes(s, pc, ev), UNCHANGED <<tableVars, heard>>, Dimmed(conn')
  PROVE  TrunkInv'
<1>1. PICK w \in WorkerRecords, h \in Seq(HeardRecords) : w = worker[s] /\ h = heard[s]
  BY TypedStream
<1>2. /\ RowOK(life[s], outcome[s], lastSeq[s], w) /\ HeardOK(outcome[s], w, h)
      /\ Whole => Len(h) = w.next - 1
      /\ w.pc \in {"top", "waiting"}
  BY <1>1, TypedStream
<1>3. PICK w2 : w2 = [w EXCEPT !.pc = pc, !.event = ev]
  OBVIOUS
<1>4. worker' = [worker EXCEPT ![s] = w2] /\ UNCHANGED <<server, reader, inbox>>
  BY <1>1, <1>3, Zenon DEF WorkerGoes
<1>5. /\ w2 \in WorkerRecords /\ w2.pc = pc /\ w2.next = w.next /\ w2.event = ev
      /\ w2.full = w.full
  <2>1. w2 = [pc |-> pc, next |-> w.next, event |-> ev, full |-> w.full]
    BY <1>3 DEF WorkerRecords
  <2>2. pc \in WorkerPcs
    BY DEF WorkerPcs
  <2> QED BY <2>1, <2>2, WorkerFields, WorkerRecord
<1>6. heard' = [heard EXCEPT ![s] = h] /\ UNCHANGED <<life, outcome, lastSeq, produced, acked>>
  BY <1>1, TypedStream DEF tableVars
<1>7. RowOK(life'[s], outcome'[s], lastSeq'[s], w2)
  <2>1. PICK li, oc, ls : li = life[s] /\ oc = outcome[s] /\ ls = lastSeq[s]
    OBVIOUS
  <2>2. RowOK(li, oc, ls, w)
    BY <1>2, <2>1
  <2>3. li # "absent" /\ ls < w.next /\ li # "terminal"
    BY <1>2, <2>2 DEF RowOK
  <2>4. pc # "none" /\ pc # "sending"
    OBVIOUS
  <2>5. RowOK(li, oc, ls, w2)
    BY <1>5, <2>3, <2>4, Zenon DEF RowOK
  <2> QED BY <1>6, <2>1, <2>5, Zenon
<1>8. HeardOK(outcome'[s], w2, h)
  <2>1. w.pc # "done"
    BY <1>2
  <2> QED BY <1>2, <1>5, <1>6, <2>1, Zenon DEF HeardOK
<1>9. Whole' => Len(h) = w2.next - 1
  <2>1. Whole' => Whole
    BY Zenon DEF Dimmed, Whole
  <2> QED BY <1>2, <1>5, <2>1, Zenon
<1>10. ~(conn.made = FALSE) /\ InboxOK'
  <2>1. w.pc # "none"
    BY <1>2
  <2>2. InboxOK
    BY DEF TrunkInv, TrunkTypes
  <2>3. InboxOK'
    BY <1>4, <2>2 DEF InboxOK
  <2> QED BY <1>1, <2>1, <2>3, TypedStream
<1>11. /\ life' \in [Streams -> Lifes] /\ lastSeq' \in [Streams -> Nat]
       /\ produced' \in [Streams -> Nat] /\ acked' \in [Streams -> Nat]
       /\ DOMAIN outcome' = Streams /\ outcome' = [r \in Streams |-> outcome'[r]]
       /\ \A r \in Streams \ {s} :
            life'[r] = life[r] /\ outcome'[r] = outcome[r] /\ lastSeq'[r] = lastSeq[r]
  BY <1>6, Zenon DEF TrunkInv, TrunkTypes
<1> QED BY <1>4, <1>5, <1>6, <1>7, <1>8, <1>9, <1>10, <1>11, OneStreamKeeps, Zenon

\* The worker decides on its next event, waits for room, or drops the connection.
LEMMA DecidesKeeps ==
  ASSUME TrunkInv, NEW s \in Streams,
         AnswerEnds(s) \/ NextChunk(s) \/ (worker[s].pc = "waiting" /\ WaitEnds(s))
  PROVE  TrunkInv'
<1>1. /\ "data" \in EventKinds /\ "completed" \in EventKinds /\ "cancelled" \in EventKinds
      /\ "failed" \in EventKinds /\ "none" \in EventKinds
  BY DEF EventKinds
<1>2. Dimmed(conn) /\ conn \in ConnRecords
  BY SameIsDimmed
<1>3. ASSUME NEW ev \in {"data", "completed", "cancelled", "failed"}, Emit(s, ev),
             worker[s].pc \in {"top", "waiting"}
      PROVE  TrunkInv'
  <2>1. WorkerGoes(s, "recording", ev) /\ UNCHANGED <<tableVars, heard, conn>>
    BY <1>3, Zenon DEF Emit
  <2>2. Dimmed(conn') /\ ev \in EventKinds /\ ev # "none"
    BY <1>1, <1>2, <2>1
  <2> QED BY <1>3, <2>1, <2>2, GoesOnKeeps
<1>4. CASE AnswerEnds(s)
  <2>1. worker[s].pc \in {"top", "waiting"}
    BY <1>4 DEF AnswerEnds
  <2>2. CASE Emit(s, "completed")
    BY <1>3, <2>1, <2>2
  <2>3. CASE /\ WorkerGoes(s, "done", "none") /\ conn' = [conn EXCEPT !.open = FALSE]
             /\ UNCHANGED <<tableVars, heard>>
    <3>1. PICK no \in BOOLEAN, cl \in BOOLEAN, li \in BOOLEAN :
            no = FALSE /\ cl = conn.client /\ li = conn.listed
      BY <1>2, ConnFields
    <3>2. conn' = [conn EXCEPT !.open = no]
      BY <2>3, <3>1, Zenon
    <3>3. conn' = [conn EXCEPT !.open = no, !.client = cl, !.listed = li]
      <4>1. [conn EXCEPT !.open = no] = [conn EXCEPT !.open = no, !.client = cl, !.listed = li]
        BY <1>2, <3>1 DEF ConnRecords
      <4> QED BY <3>2, <4>1
    <3>4. ~(no = TRUE)
      BY <3>1
    <3>5. Dimmed(conn')
      BY <1>2, <3>1, <3>3, <3>4, ConnDims
    <3> QED BY <1>1, <2>1, <2>3, <3>5, GoesOnKeeps
  <2> QED BY <1>4, <2>2, <2>3, Zenon DEF AnswerEnds
<1>5. CASE NextChunk(s)
  <2>1. worker[s].pc \in {"top", "waiting"}
    BY <1>5 DEF NextChunk
  <2>2. CASE Emit(s, "cancelled") \/ Emit(s, "data")
    BY <1>3, <2>1, <2>2
  <2>3. CASE WorkerGoes(s, "waiting", "none") /\ UNCHANGED <<tableVars, conn, heard>>
    <3>1. Dimmed(conn')
      BY <1>2, <2>3
    <3> QED BY <1>1, <2>1, <2>3, <3>1, GoesOnKeeps
  <2> QED BY <1>5, <2>2, <2>3, Zenon DEF NextChunk
<1>6. CASE worker[s].pc = "waiting" /\ WaitEnds(s)
  <2>1. Emit(s, "data") \/ Emit(s, "cancelled") \/ Emit(s, "failed")
    BY <1>6, Zenon DEF WaitEnds
  <2> QED BY <1>3, <1>6, <2>1
<1> QED BY <1>4, <1>5, <1>6

\* What dispatch_event does with the event of a worker; the verdict is not looked at.
LEMMA RecordEventKeeps ==
  ASSUME TrunkInv, NEW s \in Streams, RecordEvent(s)
  PROVE  TrunkInv'
<1>1. PICK w \in WorkerRecords, h \in Seq(HeardRecords) : w = worker[s] /\ h = heard[s]
  BY TypedStream
<1>2. /\ RowOK(life[s], outcome[s], lastSeq[s], w) /\ HeardOK(outcome[s], w, h)
      /\ Whole => Len(h) = w.next - 1
      /\ w.pc = "recording"
  BY <1>1, TypedStream DEF RecordEvent
<1>3. PICK e : e = EventOf(s)
  OBVIOUS
<1>4. /\ e.kind = w.event /\ e.seq = w.next /\ e.size \in {1, 2}
      /\ w.event # "data" => e.outcome = w.event
  <2>1. CASE w.event = "data"
    BY <1>1, <1>3, <2>1 DEF EventOf
  <2>2. CASE w.event # "data"
    BY <1>1, <1>3, <2>2 DEF EventOf
  <2> QED BY <2>1, <2>2
<1>5. PICK fu \in BOOLEAN : fu = (w.full \/ Table!Unacked(s) + e.size > MaxBuffered)
  OBVIOUS
<1>6. PICK w2 : w2 = [w EXCEPT !.pc = "sending", !.full = fu]
  OBVIOUS
<1>7. /\ \/ Table!DispatchData(s, e) \/ Table!DispatchTerminal(s, e)
         \/ (~Table!AcceptsEvent(s, e) /\ UNCHANGED tableVars)
      /\ worker' = [worker EXCEPT ![s].pc = "sending",
                      ![s].full = @ \/ Table!Unacked(s) + e.size > MaxBuffered]
      /\ UNCHANGED <<server, conn, reader, inbox, heard>>
  BY <1>3, Zenon DEF RecordEvent
<1>8. worker' = [worker EXCEPT ![s] = w2]
  BY <1>1, <1>5, <1>6, <1>7, Zenon
<1>9. /\ w2 \in WorkerRecords /\ w2.pc = "sending" /\ w2.next = w.next /\ w2.event = w.event
      /\ w2.full = fu
  <2>1. w2 = [pc |-> "sending", next |-> w.next, event |-> w.event, full |-> fu]
    BY <1>6 DEF WorkerRecords
  <2>2. "sending" \in WorkerPcs
    BY DEF WorkerPcs
  <2> QED BY <2>1, <2>2, WorkerFields, WorkerRecord
<1>10. /\ life \in [Streams -> Lifes] /\ lastSeq \in [Streams -> Nat]
       /\ produced \in [Streams -> Nat] /\ acked \in [Streams -> Nat]
       /\ DOMAIN outcome = Streams /\ outcome = [r \in Streams |-> outcome[r]]
  BY DEF TrunkInv, TrunkTypes
<1>11. w.next \in Nat /\ e.size \in Nat /\ w.event # "none" /\ w.event \in EventKinds
  <2>1. w.event # "none"
    BY <1>2, Zenon DEF RowOK
  <2> QED BY <1>4, <2>1, WorkerFields
<1>12. /\ life[s] # "absent" /\ life[s] # "terminal" /\ lastSeq[s] < w.next
  <2>1. PICK li, oc, ls : li = life[s] /\ oc = outcome[s] /\ ls = lastSeq[s]
    OBVIOUS
  <2>2. RowOK(li, oc, ls, w)
    BY <1>2, <2>1
  <2>3. li # "absent" /\ ls < w.next /\ li # "terminal"
    BY <1>2, <2>2 DEF RowOK
  <2> QED BY <2>1, <2>3
<1>13. /\ life' \in [Streams -> Lifes] /\ lastSeq' \in [Streams -> Nat]
       /\ produced' \in [Streams -> Nat] /\ acked' \in [Streams -> Nat]
       /\ DOMAIN outcome' = Streams /\ outcome' = [r \in Streams |-> outcome'[r]]
       /\ \A r \in Streams \ {s} :
            life'[r] = life[r] /\ outcome'[r] = outcome[r] /\ lastSeq'[r] = lastSeq[r]
       /\ life'[s] # "absent" /\ lastSeq'[s] <= w.next
       /\ life'[s] = "terminal" => w.event # "data"
       /\ w.event # "data" => outcome'[s] = w.event \/ fu = TRUE
  <2>1. CASE Table!DispatchData(s, e)
    <3>1. /\ w.event = "data"
          /\ life' = [life EXCEPT ![s] = IF @ = "accepted" THEN "started" ELSE @]
          /\ produced' = [produced EXCEPT ![s] = @ + e.size]
          /\ lastSeq' = [lastSeq EXCEPT ![s] = w.next]
          /\ UNCHANGED <<outcome, acked>>
      BY <1>4, <2>1 DEF Table!DispatchData, Table!Feed
    <3> QED BY <1>10, <1>11, <1>12, <3>1 DEF Lifes
  <2>2. CASE Table!DispatchTerminal(s, e)
    <3>1. /\ w.event \in {"completed", "cancelled", "failed"}
          /\ life' = [life EXCEPT ![s] = "terminal"]
          /\ outcome' = [outcome EXCEPT ![s] = Table!OutcomeOf(e)]
          /\ produced' = [produced EXCEPT ![s] = @ + e.size]
          /\ acked' = [acked EXCEPT ![s] = produced[s] + e.size]
          /\ lastSeq' = [lastSeq EXCEPT ![s] = w.next]
      BY <1>4, <2>2 DEF Table!DispatchTerminal, Table!Finish, Table!TerminalKinds
    <3>2. Table!OutcomeOf(e) = w.event
      BY <1>4, <3>1 DEF Table!OutcomeOf
    <3>3. /\ DOMAIN outcome' = Streams /\ outcome' = [r \in Streams |-> outcome'[r]]
          /\ outcome'[s] = w.event /\ \A r \in Streams \ {s} : outcome'[r] = outcome[r]
      BY ONLY <1>10, <3>1, <3>2, s \in Streams
    <3>4. /\ life' \in [Streams -> Lifes] /\ life'[s] = "terminal"
          /\ \A r \in Streams \ {s} : life'[r] = life[r]
      BY <1>10, <3>1 DEF Lifes
    <3>5. /\ lastSeq' \in [Streams -> Nat] /\ lastSeq'[s] = w.next
          /\ \A r \in Streams \ {s} : lastSeq'[r] = lastSeq[r]
      BY <1>10, <1>11, <3>1
    <3>6. produced' \in [Streams -> Nat] /\ acked' \in [Streams -> Nat]
      <4>1. produced[s] + e.size \in Nat
        BY <1>10, <1>11
      <4> QED BY <1>10, <3>1, <4>1
    <3>7. lastSeq'[s] <= w.next /\ life'[s] # "absent" /\ w.event # "data"
      BY <1>11, <3>1, <3>4, <3>5
    <3> QED BY <3>3, <3>4, <3>5, <3>6, <3>7, Zenon
  <2>3. CASE ~Table!AcceptsEvent(s, e) /\ UNCHANGED tableVars
    <3>1. UNCHANGED <<life, outcome, lastSeq, produced, acked>>
      BY <2>3 DEF tableVars
    <3>2. fu = TRUE
      <4>1. ~(Table!Unacked(s) + e.size <= MaxBuffered)
        BY <1>4, <1>10, <1>11, <1>12, <2>3 DEF Table!AcceptsEvent
      <4>2. Table!Unacked(s) \in Int
        BY <1>10 DEF Table!Unacked
      <4>3. Table!Unacked(s) + e.size > MaxBuffered
        BY ONLY <1>11, <4>1, <4>2, TrunkAssumption
      <4> QED BY <1>5, <4>3, Zenon
    <3>3. lastSeq[s] <= w.next
      BY <1>10, <1>11, <1>12
    <3> QED BY <1>10, <1>12, <3>1, <3>2, <3>3, Zenon
  <2> QED BY <1>7, <2>1, <2>2, <2>3
<1>14. RowOK(life'[s], outcome'[s], lastSeq'[s], w2)
  <2>1. "sending" \notin {"none", "top", "waiting", "recording"} /\ "sending" # "none"
    OBVIOUS
  <2> QED BY <1>9, <1>11, <1>13, <2>1, Zenon DEF RowOK
<1>15. HeardOK(outcome'[s], w2, h)
  <2>1. w.pc # "done"
    BY <1>2
  <2> QED BY <1>2, <1>9, <2>1, Zenon DEF HeardOK
<1>16. Whole' => Len(h) = w2.next - 1
  BY <1>2, <1>7, <1>9, Zenon DEF Whole
<1>17. /\ ~(conn.made = FALSE) /\ InboxOK' /\ Dimmed(conn') /\ UNCHANGED server
       /\ heard' = [heard EXCEPT ![s] = h]
  <2>1. w.pc # "none"
    BY <1>2
  <2>2. InboxOK'
    BY <1>7, SameIsDimmed DEF InboxOK
  <2> QED BY <1>1, <1>7, <2>1, <2>2, TypedStream, SameIsDimmed
<1> QED BY <1>8, <1>9, <1>13, <1>14, <1>15, <1>16, <1>17, OneStreamKeeps, Zenon

LEMMA SendEventKeeps ==
  ASSUME TrunkInv, NEW s \in Streams, SendEvent(s)
  PROVE  TrunkInv'
<1>1. PICK w \in WorkerRecords, h \in Seq(HeardRecords) : w = worker[s] /\ h = heard[s]
  BY TypedStream
<1>2. PICK li, oc, ls : li = life[s] /\ oc = outcome[s] /\ ls = lastSeq[s]
  OBVIOUS
<1>3. /\ RowOK(li, oc, ls, w) /\ HeardOK(oc, w, h) /\ w.pc = "sending"
      /\ Whole => Len(h) = w.next - 1
  BY <1>1, <1>2, TypedStream DEF SendEvent
<1>4. PICK a : a = AfterSend(s)
  OBVIOUS
<1>5. PICK n2 \in Nat, n \in Nat, ev \in EventKinds : n = w.next /\ n2 = n + 1 /\ ev = w.event
  <2>1. w.next \in Nat /\ w.event \in EventKinds
    BY WorkerFields
  <2>2. w.next + 1 \in Nat
    BY ONLY <2>1
  <2> QED BY <2>1, <2>2, Zenon
<1>6. /\ a.pc \in {"done", "recording", "top"} /\ a.event \in {"none", "failed"}
      /\ a.pc = "recording" => a.event # "none"
      /\ ev # "data" => a.pc = "done"
      /\ ev = "data" => a.pc # "done"
  BY <1>1, <1>4, <1>5 DEF AfterSend
<1>7. PICK w2 : w2 = [w EXCEPT !.pc = a.pc, !.event = a.event, !.next = n2]
  OBVIOUS
<1>8. PICK f \in HeardRecords : f = [n |-> n, kind |-> ev]
  BY DEF HeardRecords
<1>9. PICK h2 : h2 = (IF conn.open /\ conn.client THEN Append(h, f) ELSE h)
  OBVIOUS
<1>10. /\ worker' = [worker EXCEPT ![s].pc = a.pc, ![s].event = a.event, ![s].next = @ + 1]
       /\ heard' = [heard EXCEPT ![s] =
            IF conn.open /\ conn.client
              THEN Append(@, [n |-> worker[s].next, kind |-> worker[s].event]) ELSE @]
       /\ conn' = conn \/ conn' = [conn EXCEPT !.open = @ /\ conn.client]
       /\ UNCHANGED <<life, outcome, lastSeq, produced, acked, server, reader, inbox>>
  <2>1. conn' \in {conn, [conn EXCEPT !.open = @ /\ conn.client]}
    BY Zenon DEF SendEvent
  <2>2. conn' = conn \/ conn' = [conn EXCEPT !.open = @ /\ conn.client]
    BY <2>1, Zenon
  <2> QED BY <1>4, <2>2, Zenon DEF SendEvent, tableVars
<1>11. worker' = [worker EXCEPT ![s] = w2] /\ heard' = [heard EXCEPT ![s] = h2]
  BY <1>1, <1>5, <1>7, <1>8, <1>9, <1>10, Zenon
<1>12. /\ w2 \in WorkerRecords /\ w2.pc = a.pc /\ w2.next = n2 /\ w2.event = a.event
       /\ w2.full = w.full
  <2>1. w2 = [pc |-> a.pc, next |-> n2, event |-> a.event, full |-> w.full]
    BY <1>7 DEF WorkerRecords
  <2>2. a.pc \in WorkerPcs /\ a.event \in EventKinds
    BY <1>6 DEF WorkerPcs, EventKinds
  <2> QED BY <2>1, <2>2, WorkerFields, WorkerRecord
<1>13. /\ conn \in ConnRecords /\ Dimmed(conn) /\ ~(conn.made = FALSE) /\ InboxOK
  <2>1. worker[s].pc # "none"
    BY <1>1, <1>3
  <2> QED BY <2>1, SameIsDimmed, TypedStream
<1>14. Dimmed(conn')
  <2>1. CASE conn' = [conn EXCEPT !.open = @ /\ conn.client]
    <3>1. PICK o \in BOOLEAN, cl \in BOOLEAN, lt \in BOOLEAN :
            o = (conn.open /\ conn.client) /\ cl = conn.client /\ lt = conn.listed
      BY <1>13, ConnFields
    <3>2. conn' = [conn EXCEPT !.open = o]
      BY <2>1, <3>1, Zenon
    <3>3. conn' = [conn EXCEPT !.open = o, !.client = cl, !.listed = lt]
      <4>1. [conn EXCEPT !.open = o] = [conn EXCEPT !.open = o, !.client = cl, !.listed = lt]
        BY <1>13, <3>1 DEF ConnRecords
      <4> QED BY <3>2, <4>1
    <3>4. o = TRUE => conn.open = TRUE
      <4>1. conn.open \in BOOLEAN
        BY <1>13, ConnFields
      <4> QED BY <3>1, <4>1
    <3> QED BY <1>13, <3>1, <3>3, <3>4, ConnDims
  <2> QED BY <1>10, <1>13, <2>1
<1>15. /\ (conn.open /\ conn.client) <=> (conn.open = TRUE /\ conn.client = TRUE)
       /\ Whole' => Whole
  <2>1. conn.open \in BOOLEAN /\ conn.client \in BOOLEAN
    BY <1>13, ConnFields
  <2>2. Whole' => Whole
    BY <1>14, Zenon DEF Dimmed, Whole
  <2> QED BY <2>1, <2>2
<1>16. PICK m \in Nat : m = Len(h)
  OBVIOUS
<1>17. /\ m <= n - 1 /\ DOMAIN h = 1..m /\ \A i \in 1..m : h[i].n = i /\ h[i].kind = "data"
  <2>1. m <= n - 1 /\ DOMAIN h = 1..m /\ \A i \in 1..m : h[i].n = i
    BY <1>3, <1>5, <1>16 DEF HeardOK
  <2>2. w.pc # "done"
    BY <1>3
  <2>3. \A i \in DOMAIN h : h[i].kind = "data"
    BY <1>3, <2>2, Zenon DEF HeardOK
  <2> QED BY <2>1, <2>3
<1>18. ev # "data" => oc = ev \/ w.full = TRUE
  BY <1>3, <1>5, Zenon DEF RowOK
<1>19. h2 \in Seq(HeardRecords) /\ HeardOK(oc, w2, h2) /\ (Whole' => Len(h2) = n2 - 1)
  <2>1. CASE conn.open /\ conn.client
    <3>1. m = n - 1
      <4>1. Whole
        BY <1>15, <2>1, Zenon DEF Whole
      <4> QED BY <1>3, <1>5, <1>16, <4>1
    <3>2. h2 = Append(h, f)
      BY <1>9, <2>1
    <3>3. PICK g \in Seq(HeardRecords) : g = Append(h, f)
      <4>1. Append(h, f) \in Seq(HeardRecords)
        BY ONLY h \in Seq(HeardRecords), f \in HeardRecords
      <4> QED BY <4>1, Zenon
    <3>4. /\ Len(g) = m + 1 /\ DOMAIN g = 1..(m + 1) /\ g[m + 1] = f
          /\ \A i \in 1..m : g[i] = h[i]
      BY <1>16, <3>3
    <3>5. Len(g) = n /\ Len(g) <= n2 - 1 /\ Len(g) = n2 - 1
      BY <1>5, <3>1, <3>4, SMTT(30)
    <3>6. f.n = n /\ f.kind = ev
      BY <1>8
    <3>7. ASSUME NEW i \in DOMAIN g
          PROVE  /\ g[i].n = i
                 /\ g[i].kind # "data" => i = Len(g) /\ a.pc = "done" /\ (oc = g[i].kind \/ w.full = TRUE)
      <4>1. CASE i \in 1..m
        <5>1. g[i] = h[i] /\ h[i].n = i /\ h[i].kind = "data"
          BY <1>17, <3>4, <4>1
        <5> QED BY <5>1
      <4>2. CASE i = m + 1
        <5>1. g[i] = f /\ i = n
          BY <3>1, <3>4, <4>2
        <5> QED BY <1>6, <1>18, <3>5, <3>6, <5>1, Zenon
      <4>3. i \in 1..m \/ i = m + 1
        BY <3>4
      <4> QED BY <4>1, <4>2, <4>3
    <3>8. HeardOK(oc, w2, g)
      BY <1>12, <3>5, <3>7, Zenon DEF HeardOK
    <3> QED BY <3>2, <3>3, <3>5, <3>8, Zenon
  <2>2. CASE ~(conn.open /\ conn.client)
    <3>1. h2 = h
      BY <1>9, <2>2
    <3>2. ~Whole
      BY <1>13, <1>15, <2>2, Zenon DEF Whole
    <3>3. Len(h) <= n2 - 1
      BY <1>5, <1>16, <1>17
    <3>4. \A i \in DOMAIN h : h[i].n = i /\ ~(h[i].kind # "data")
      BY <1>17
    <3>5. HeardOK(oc, w2, h)
      BY <1>12, <3>3, <3>4, Zenon DEF HeardOK
    <3> QED BY <1>15, <3>1, <3>2, <3>5, Zenon
  <2> QED BY <2>1, <2>2
<1>20. RowOK(li, oc, ls, w2)
  <2>1. /\ li # "absent" /\ ls <= n /\ (li = "terminal" => ev # "data")
    BY <1>3, <1>5 DEF RowOK
  <2>2. ls \in Nat
    BY <1>2, TypedStream
  <2>3. ls < n2
    BY <1>5, <2>1, <2>2
  <2>4. a.pc # "none" /\ a.pc # "sending"
    BY <1>6
  <2> QED BY <1>6, <1>12, <2>1, <2>3, <2>4, Zenon DEF RowOK
<1>21. /\ life' \in [Streams -> Lifes] /\ lastSeq' \in [Streams -> Nat]
       /\ produced' \in [Streams -> Nat] /\ acked' \in [Streams -> Nat]
       /\ DOMAIN outcome' = Streams /\ outcome' = [r \in Streams |-> outcome'[r]]
       /\ \A r \in Streams \ {s} :
            life'[r] = life[r] /\ outcome'[r] = outcome[r] /\ lastSeq'[r] = lastSeq[r]
  BY <1>10, Zenon DEF TrunkInv, TrunkTypes
<1>22. /\ RowOK(life'[s], outcome'[s], lastSeq'[s], w2) /\ HeardOK(outcome'[s], w2, h2)
       /\ Whole' => Len(h2) = w2.next - 1
  BY <1>2, <1>10, <1>12, <1>19, <1>20, Zenon
<1>23. UNCHANGED server /\ InboxOK'
  BY <1>10, <1>13 DEF InboxOK
<1> QED BY <1>11, <1>12, <1>13, <1>14, <1>19, <1>21, <1>22, <1>23, OneStreamKeeps, Zenon

-----------------------------------------------------------------------------
(* Trunk: the invariant and what follows from it *)

LEMMA TrunkInitHolds ==
  ASSUME TrunkInit
  PROVE  TrunkInv
<1>1. PICK no \in BOOLEAN : no = FALSE
  OBVIOUS
<1>2. PICK w0, c0 : /\ w0 = [pc |-> "none", next |-> 1, event |-> "none", full |-> no]
                    /\ c0 = [made |-> no, open |-> no, client |-> no, listed |-> no]
  OBVIOUS
<1>3. /\ w0 \in WorkerRecords /\ w0.pc = "none" /\ w0.next = 1
  <2>1. "none" \in WorkerPcs /\ "none" \in EventKinds
    BY DEF WorkerPcs, EventKinds
  <2> QED BY ONLY <1>2, <2>1, no \in BOOLEAN DEF WorkerRecords
<1>4. c0 \in ConnRecords
  BY ONLY <1>2, no \in BOOLEAN DEF ConnRecords
<1>5. /\ worker = [s \in Streams |-> w0] /\ conn = c0 /\ reader = "none" /\ inbox = <<>>
      /\ heard = [s \in Streams |-> <<>>]
  BY <1>1, <1>2, Zenon DEF TrunkInit
<1>6. /\ life = [s \in Streams |-> "absent"] /\ outcome = [s \in Streams |-> "none"]
      /\ lastSeq = [s \in Streams |-> 0] /\ produced = [s \in Streams |-> 0]
      /\ acked = [s \in Streams |-> 0]
  BY Zenon DEF TrunkInit, Table!Init
<1>7. ServerOK /\ server.acceptor = "accepting"
  <2>1. PICK yes : yes = TRUE
    OBVIOUS
  <2>2. server = [running |-> yes, acceptor |-> "accepting", owner |-> "idle"]
    BY <2>1, Zenon DEF TrunkInit
  <2> QED BY ONLY <2>2 DEF ServerOK
<1>8. TrunkTypes
  <2>1. /\ life \in [Streams -> Lifes] /\ lastSeq \in [Streams -> Nat]
        /\ produced \in [Streams -> Nat] /\ acked \in [Streams -> Nat]
        /\ DOMAIN outcome = Streams /\ outcome = [s \in Streams |-> outcome[s]]
    BY ONLY <1>6 DEF Lifes
  <2>2. InboxOK
    BY <1>5 DEF InboxOK
  <2>3. heard \in [Streams -> Seq(HeardRecords)]
    BY <1>5
  <2>4. worker \in [Streams -> WorkerRecords]
    BY <1>3, <1>5
  <2> QED BY <1>4, <1>5, <1>7, <2>1, <2>2, <2>3, <2>4 DEF TrunkTypes
<1>9. MadeFirst
  BY <1>3, <1>5, <1>7 DEF MadeFirst
<1>10. ASSUME NEW s \in Streams
       PROVE  /\ RowOK(life[s], outcome[s], lastSeq[s], worker[s])
              /\ HeardOK(outcome[s], worker[s], heard[s])
              /\ Len(heard[s]) = worker[s].next - 1
  <2>1. /\ life[s] = "absent" /\ lastSeq[s] = 0 /\ worker[s] = w0 /\ heard[s] = <<>>
    BY <1>5, <1>6
  <2>2. RowOK("absent", outcome[s], 0, w0)
    BY <1>3 DEF RowOK
  <2>3. HeardOK(outcome[s], w0, <<>>) /\ Len(<<>>) = w0.next - 1
    BY <1>3 DEF HeardOK
  <2> QED BY <2>1, <2>2, <2>3, Zenon
<1> QED BY <1>8, <1>9, <1>10, Zenon DEF TrunkInv

LEMMA TrunkStep ==
  ASSUME TrunkInv, [TrunkNext]_trunkVars
  PROVE  TrunkInv'
<1>1. CASE UNCHANGED trunkVars
  <2>1. /\ UNCHANGED <<life, outcome, lastSeq, produced, acked, server, conn, reader, inbox,
                       worker, heard>>
    BY <1>1 DEF trunkVars, tableVars, threadVars
  <2>2. Calm /\ Dimmed(conn') /\ ServerOK' /\ InboxOK'
    BY <2>1, RestIsCalm, SameIsDimmed DEF ServerOK, InboxOK
  <2>3. conn.made = FALSE =>
          reader' = "none" /\ server'.acceptor \notin {"accepted", "listing"}
    BY <2>1, Zenon DEF TrunkInv, MadeFirst
  <2> QED BY <2>1, <2>2, <2>3, QuietKeeps
<1>2. CASE Reader
  <2>1. CASE SubmitRequest
    <3>1. PICK s : StartWorker(s) \/ RefuseRequest(s)
      BY <2>1, Zenon DEF SubmitRequest
    <3>2. reader = "submitting" /\ inbox' = Tail(inbox)
      BY <2>1, Zenon DEF SubmitRequest
    <3> QED BY <2>1, <3>1, <3>2, StartWorkerKeeps, ReaderStepKeeps
  <2> QED BY <1>2, <2>1, ReaderStepKeeps, Zenon DEF Reader
<1>3. ASSUME NEW s \in Streams, Worker(s)
      PROVE  TrunkInv'
  BY <1>3, DecidesKeeps, RecordEventKeeps, SendEventKeeps, Zenon DEF Worker
<1> QED BY <1>1, <1>2, <1>3, ClientKeeps, AcceptorStepKeeps, Zenon DEF TrunkNext

\* For any requests, limits, configurations and leases (mock_runtime.cpp).
THEOREM TrunkInvariant == TrunkSpec => []TrunkInv
<1>1. TrunkInit => TrunkInv
  BY TrunkInitHolds
<1>2. TrunkInv /\ [TrunkNext]_trunkVars => TrunkInv'
  BY TrunkStep
<1> QED BY <1>1, <1>2, PTL DEF TrunkSpec

\* What a client hears of a stream is numbered without a gap and ends, if it ends, as the
\* session has recorded, unless the window had no room (execute_single_output).
THEOREM TrunkAnswersAreSound == TrunkSpec => []AnswersAreSound
<1>1. ASSUME TrunkInv
      PROVE  AnswersAreSound
  <2>1. ASSUME NEW s \in Streams
        PROVE  HeardOK(outcome[s], worker[s], heard[s]) /\ worker[s].full \in BOOLEAN
    BY <1>1, TypedStream, WorkerFields
  <2>2. \A s \in Streams : worker[s].full = TRUE => worker[s].full
    OBVIOUS
  <2> QED BY <2>1, <2>2, Zenon DEF AnswersAreSound, Ends, HeardOK
<1> QED BY <1>1, TrunkInvariant, PTL

-----------------------------------------------------------------------------
(* SignedWire: a frame that is signed *)

\* A frame as it is on the wire: signed or not, whatever happened to it.
Formed(f) ==
  /\ f = FrameOf(f.type, f.stream, f.len, f.ext, f.payload)
  /\ f.payload \in Seq(Nat) /\ f.len \in Nat
  /\ \/ f.ext = NoExt
     \/ f.ext = [on |-> TRUE, seq |-> f.ext.seq, keyId |-> 1, mac |-> f.ext.mac]

\* What a receiver reads of a frame beside the MAC.
Words(f) == <<f.type, f.stream, f.len, f.ext.seq, f.payload>>

\* The MAC on the frame is the signer's, of a frame that was whole; this is that frame as
\* long as nothing has happened to it, and another one ever after.
SignedOnce(f, was) ==
  \E type, stream, len, seq, payload :
    /\ payload \in Seq(Nat) /\ len = Len(payload)
    /\ f.ext.mac = <<Key, type, stream, len, seq, 1, Signer.bind, Signer.dir, payload>>
    /\ was = "none" <=> Words(f) = <<type, stream, len, seq, payload>>

\* A connection has one chance to harm a frame; a frame is signed before it or not at all,
\* and a receiver that decodes has verified a signature there is.
WireInv ==
  /\ sent \in Inputs /\ Formed(frame)
  /\ frame.ext.on => SignedOnce(frame, harm)
  /\ stage \in {"encoded", "received"} \/ (frame = Unsent /\ harm = "none")
  /\ stage # "received" => got = Refused
  /\ SignedIsUntouched

\* Before a frame is sent.
LEMMA UnsentFormed == Formed(Unsent) /\ ~Unsent.ext.on
BY DEF Formed, Unsent, FrameOf, NoExt

\* The fields of a frame.
LEMMA FrameFields ==
  ASSUME NEW type, NEW stream, NEW len, NEW ext, NEW payload, NEW f,
         f = FrameOf(type, stream, len, ext, payload)
  PROVE  /\ f.type = type /\ f.stream = stream /\ f.len = len /\ f.ext = ext
         /\ f.payload = payload
BY DEF FrameOf

\* Body of a frame of the right length.
LEMMA WholePayload ==
  ASSUME NEW s \in Seq(Nat), NEW n, n = Len(s)
  PROVE  SubSeq(s, 1, n) = s
OBVIOUS

\* sign_envelope_buffer: the MAC is the signer's.
LEMMA SignedStep ==
  ASSUME WireInv, NEW seq \in {0, 1}, SignFrame(seq)
  PROVE  Formed(frame') /\ frame'.ext.on /\ SignedOnce(frame', harm')
<1>1. PICK type, stream, len, ext, payload :
    /\ frame = FrameOf(type, stream, len, ext, payload) /\ payload \in Seq(Nat)
    /\ len \in Nat /\ harm' = "none"
    /\ Len(payload) = len
    /\ type = frame.type /\ stream = frame.stream /\ len = frame.len /\ payload = frame.payload
  BY DEF WireInv, Formed, SignFrame, MaySign
<1>2. SubSeq(payload, 1, len) = payload
  BY <1>1, WholePayload
<1>3. PICK mac : mac = <<Key, type, stream, len, seq, 1, Signer.bind, Signer.dir, payload>>
  OBVIOUS
<1>4. Mac(frame, [key |-> Key, seq |-> seq, keyId |-> 1], Signer) = mac
  BY <1>1, <1>2, <1>3 DEF Mac, Body
<1>5. PICK x : x = [on |-> TRUE, seq |-> seq, keyId |-> 1, mac |-> mac]
  OBVIOUS
<1>6. frame' = [frame EXCEPT !.ext = x]
  BY <1>4, <1>5 DEF SignFrame, Signed
<1>7. frame' = FrameOf(type, stream, len, x, payload)
  BY <1>1, <1>6 DEF FrameOf
<1>8. PICK f : f = frame'
  OBVIOUS
<1>9. f = FrameOf(type, stream, len, x, payload)
  BY <1>7, <1>8
<1>10. /\ f.type = type /\ f.stream = stream /\ f.len = len /\ f.ext = x
       /\ f.payload = payload
  BY <1>9, FrameFields
<1>11. f.ext.on /\ f.ext.seq = seq /\ f.ext.mac = mac
  BY <1>5, <1>10
<1>12. Formed(f)
  BY <1>1, <1>5, <1>9, <1>10, <1>11 DEF Formed
<1>13. Words(f) = <<type, stream, len, seq, payload>>
  BY <1>10, <1>11 DEF Words
<1>14. f.ext.mac = <<Key, type, stream, len, seq, 1, Signer.bind, Signer.dir, payload>>
  BY <1>3, <1>11
<1>15. SignedOnce(f, "none")
  <2>1. payload \in Seq(Nat) /\ len = Len(payload)
    BY <1>1
  <2> QED BY ONLY <1>13, <1>14, <2>1 DEF SignedOnce
<1> QED BY <1>1, <1>8, <1>11, <1>12, <1>15

\* What a connection does to a frame leaves its MAC, and makes another frame of it.
LEMMA HarmedStep ==
  ASSUME WireInv, NEW kind, kind # "none", NEW f, Harm(kind, f), Formed(f),
         f.ext = frame.ext \/ (frame.ext.on /\ f.ext = [frame.ext EXCEPT !.seq = f.ext.seq])
  PROVE  WireInv'
<1>1. /\ stage = "encoded" /\ harm = "none" /\ f # frame /\ harm' = kind /\ frame' = f
      /\ UNCHANGED <<sent, stage, got, verifiedAs>> /\ got = Refused /\ Formed(frame)
  BY DEF Harm, WireInv
<1>2. f.ext.on = frame.ext.on /\ (frame.ext.on => f.ext.mac = frame.ext.mac)
  BY <1>1 DEF Formed, NoExt
<1>3. CASE frame.ext.on
  <2>1. PICK type, stream, len, seq, payload :
    /\ payload \in Seq(Nat) /\ len = Len(payload)
    /\ frame.ext.mac = <<Key, type, stream, len, seq, 1, Signer.bind, Signer.dir, payload>>
    /\ Words(frame) = <<type, stream, len, seq, payload>>
    BY <1>1, <1>3 DEF WireInv, SignedOnce
  <2>2. Words(f) # Words(frame)
    <3>1. ASSUME Words(f) = Words(frame)
          PROVE  FALSE
      <4>1. f.type = frame.type /\ f.stream = frame.stream /\ f.len = frame.len
            /\ f.ext.seq = frame.ext.seq /\ f.payload = frame.payload
        BY <3>1 DEF Words
      <4>2. frame.ext = [on |-> TRUE, seq |-> frame.ext.seq, keyId |-> 1, mac |-> frame.ext.mac]
            /\ f.ext = [on |-> TRUE, seq |-> f.ext.seq, keyId |-> 1, mac |-> f.ext.mac]
        BY <1>1, <1>2, <1>3 DEF Formed, NoExt
      <4>3. f.ext = frame.ext
        BY <1>2, <1>3, <4>1, <4>2
      <4>4. f = frame
        BY <1>1, <4>1, <4>3 DEF Formed
      <4> QED BY <1>1, <4>4
    <3> QED BY <3>1
  <2>3. SignedOnce(f, kind)
    BY <1>2, <1>3, <2>1, <2>2 DEF SignedOnce
  <2> QED BY <1>1, <2>3 DEF WireInv, SignedIsUntouched, Refused
<1>4. CASE ~frame.ext.on
  BY <1>1, <1>2, <1>4 DEF WireInv, SignedIsUntouched, Refused
<1> QED BY <1>3, <1>4

\* The ways a connection changes a frame.
LEMMA HarmedFormed ==
  ASSUME Formed(frame), NEW f,
         \/ \E n \in 0..(Len(frame.payload) - 1) : f = [frame EXCEPT !.payload = SubSeq(@, 1, n)]
         \/ \E g \in Garbage : f \in {Trailed(g), [Trailed(g) EXCEPT !.len = @ + Len(g)]}
         \/ \E i \in DOMAIN frame.payload, d \in {0, 1} : f = [frame EXCEPT !.payload[i] = d]
         \/ \E s : f = [frame EXCEPT !.stream = s]
  PROVE  Formed(f) /\ f.ext = frame.ext
<1>1. PICK type, stream, len, ext, payload :
    /\ frame = FrameOf(type, stream, len, ext, payload) /\ payload \in Seq(Nat) /\ len \in Nat
    /\ ext = NoExt \/ ext = [on |-> TRUE, seq |-> ext.seq, keyId |-> 1, mac |-> ext.mac]
  BY DEF Formed
<1>2. frame.payload = payload /\ frame.len = len /\ frame.ext = ext
  BY <1>1, FrameFields
<1>3. ASSUME NEW s, NEW n \in Nat, NEW w \in Seq(Nat), f = FrameOf(type, s, n, ext, w)
      PROVE  Formed(f) /\ f.ext = frame.ext
  <2>1. f.type = type /\ f.stream = s /\ f.len = n /\ f.ext = ext /\ f.payload = w
    BY <1>3, FrameFields
  <2> QED BY <1>1, <1>2, <1>3, <2>1 DEF Formed
<1>4. ASSUME NEW n \in 0..(Len(frame.payload) - 1), f = [frame EXCEPT !.payload = SubSeq(@, 1, n)]
      PROVE  Formed(f) /\ f.ext = frame.ext
  <2>1. PICK w : w = SubSeq(payload, 1, n)
    OBVIOUS
  <2>2. w \in Seq(Nat)
    BY <1>1, <1>2, <1>4, <2>1
  <2>3. f = [frame EXCEPT !.payload = w]
    BY <1>2, <1>4, <2>1
  <2>4. f = FrameOf(type, stream, len, ext, w)
    BY <1>1, <2>3 DEF FrameOf
  <2> QED BY <1>1, <1>3, <2>2, <2>4
<1>5. ASSUME NEW g \in Garbage, f \in {Trailed(g), [Trailed(g) EXCEPT !.len = @ + Len(g)]}
      PROVE  Formed(f) /\ f.ext = frame.ext
  <2>1. PICK h, w, n : h = Trailed(g) /\ w = payload \o g /\ n = len + Len(g)
    OBVIOUS
  <2>2. w \in Seq(Nat) /\ n \in Nat
    BY <1>1, <2>1, WireAssumption
  <2>3. h = [frame EXCEPT !.payload = w]
    BY <1>2, <2>1 DEF Trailed
  <2>4. h = FrameOf(type, stream, len, ext, w)
    BY <1>1, <2>3 DEF FrameOf
  <2>5. CASE f = Trailed(g)
    <3>1. f = FrameOf(type, stream, len, ext, w)
      BY ONLY <2>1, <2>4, <2>5
    <3> QED BY <1>1, <1>3, <2>2, <3>1
  <2>6. CASE f = [Trailed(g) EXCEPT !.len = @ + Len(g)]
    <3>1. h.len = len
      BY <2>4, FrameFields
    <3>2. f = [h EXCEPT !.len = n]
      BY <2>1, <2>6, <3>1
    <3>3. f = FrameOf(type, stream, n, ext, w)
      BY <2>4, <3>2 DEF FrameOf
    <3> QED BY <1>3, <2>2, <3>3
  <2> QED BY <1>5, <2>5, <2>6
<1>6. ASSUME NEW i \in DOMAIN frame.payload, NEW d \in {0, 1}, f = [frame EXCEPT !.payload[i] = d]
      PROVE  Formed(f) /\ f.ext = frame.ext
  <2>1. PICK w : w = [payload EXCEPT ![i] = d]
    OBVIOUS
  <2>2. w \in Seq(Nat)
    BY <1>1, <1>2, <2>1
  <2>3. f = [frame EXCEPT !.payload = w]
    BY <1>2, <1>6, <2>1
  <2>4. f = FrameOf(type, stream, len, ext, w)
    BY <1>1, <2>3 DEF FrameOf
  <2> QED BY <1>1, <1>3, <2>2, <2>4
<1>7. ASSUME NEW s, f = [frame EXCEPT !.stream = s]
      PROVE  Formed(f) /\ f.ext = frame.ext
  <2>1. f = FrameOf(type, s, len, ext, payload)
    BY <1>1, <1>7 DEF FrameOf
  <2> QED BY <1>1, <1>3, <2>1
<1> QED BY <1>4, <1>5, <1>6, <1>7

\* The same of the sequence number in its extension.
LEMMA RenumberedFormed ==
  ASSUME Formed(frame), frame.ext.on, NEW n
  PROVE  \E f : /\ f = [frame EXCEPT !.ext.seq = n]
               /\ Formed(f) /\ f.ext = [frame.ext EXCEPT !.seq = f.ext.seq]
<1>1. PICK type, stream, len, ext, payload :
    /\ frame = FrameOf(type, stream, len, ext, payload) /\ payload \in Seq(Nat) /\ len \in Nat
    /\ ext = NoExt \/ ext = [on |-> TRUE, seq |-> ext.seq, keyId |-> 1, mac |-> ext.mac]
  BY DEF Formed
<1>2. frame.ext = ext
  BY <1>1, FrameFields
<1>3. ext.on
  BY <1>2
<1>4. PICK on, seq, keyId, mac :
    on = TRUE /\ keyId = 1 /\ ext = [on |-> on, seq |-> seq, keyId |-> keyId, mac |-> mac]
  BY <1>1, <1>3 DEF NoExt
<1>5. PICK x : x = [on |-> on, seq |-> n, keyId |-> keyId, mac |-> mac]
  OBVIOUS
<1>6. x.seq = n /\ x = [on |-> TRUE, seq |-> x.seq, keyId |-> 1, mac |-> x.mac]
  BY <1>4, <1>5
<1>7. [ext EXCEPT !.seq = n] = x
  <2>1. ext = [on |-> on, seq |-> seq, keyId |-> keyId, mac |-> mac]
    BY <1>4
  <2> QED BY ONLY <1>5, <2>1
<1>8. PICK f : f = FrameOf(type, stream, len, x, payload)
  OBVIOUS
<1>9. f.type = type /\ f.stream = stream /\ f.len = len /\ f.ext = x /\ f.payload = payload
  BY <1>8, FrameFields
<1>10. Formed(f)
  BY <1>1, <1>6, <1>8, <1>9 DEF Formed
<1>11. f = [frame EXCEPT !.ext.seq = n]
  <2>1. [frame EXCEPT !.ext.seq = n] = [frame EXCEPT !.ext = x]
    BY <1>2, <1>7
  <2> QED BY <1>1, <1>8, <2>1 DEF FrameOf
<1>12. f.ext = [frame.ext EXCEPT !.seq = f.ext.seq]
  BY <1>2, <1>6, <1>7, <1>9
<1> QED BY ONLY <1>10, <1>11, <1>12

\* verify_envelope_buffer: the MAC that verifies is the one of the frame at hand.
LEMMA VerifiedIsSigned ==
  ASSUME WireInv, NEW end \in Receivers, Verified(frame, Key, end)
  PROVE  harm = "none" /\ end = Signer
<1>1. /\ frame.ext.on /\ Len(frame.payload) = frame.len /\ frame.payload \in Seq(Nat)
      /\ frame.ext.mac = Mac(frame, [key |-> Key, seq |-> frame.ext.seq,
                                     keyId |-> frame.ext.keyId], end)
      /\ SignedOnce(frame, harm)
  BY DEF Verified, WireInv, Formed
<1>2. PICK type, stream, len, seq, payload :
    /\ payload \in Seq(Nat) /\ len = Len(payload)
    /\ frame.ext.mac = <<Key, type, stream, len, seq, 1, Signer.bind, Signer.dir, payload>>
    /\ harm = "none" <=> Words(frame) = <<type, stream, len, seq, payload>>
  BY <1>1 DEF SignedOnce
<1>3. SubSeq(frame.payload, 1, frame.len) = frame.payload
  BY <1>1, WholePayload
<1>4. frame.ext.mac = <<Key, frame.type, frame.stream, frame.len, frame.ext.seq,
                        frame.ext.keyId, end.bind, end.dir, frame.payload>>
  BY <1>1, <1>3 DEF Mac, Body
<1>5. /\ frame.type = type /\ frame.stream = stream /\ frame.len = len /\ frame.ext.seq = seq
      /\ frame.payload = payload /\ end.bind = Signer.bind /\ end.dir = Signer.dir
  BY <1>2, <1>4
<1>6. end = Signer
  BY <1>5, WireAssumption
<1> QED BY <1>2, <1>5, <1>6 DEF Words

\* Every step of a frame from sender to receiver.
LEMMA WireStep ==
  ASSUME WireInv, [WireNext]_wireVars
  PROVE  WireInv'
<1>1. Formed(frame)
  BY DEF WireInv
<1>2. CASE EncodeSent
  <2>1. stage = "given" /\ harm = "none" /\ UNCHANGED <<sent, harm, got, verifiedAs>>
        /\ got = Refused /\ sent \in Inputs
    BY <1>2 DEF EncodeSent, WireInv
  <2>2. CASE CanEncode(sent)
    <3>1. stage' = "encoded" /\ frame' = Encode(sent)
      BY <1>2, <2>2 DEF EncodeSent
    <3>2. PICK f : f = frame'
      OBVIOUS
    <3>3. f = FrameOf(f.type, f.stream, Len(f.payload), NoExt, f.payload)
          /\ f.payload \in Seq(Nat)
      BY <2>1, <2>2, <3>1, <3>2, WireAssumption
    <3>4. f.len = Len(f.payload) /\ f.ext = NoExt
      BY <3>3, FrameFields
    <3>5. Formed(f) /\ ~f.ext.on
      BY <3>3, <3>4 DEF Formed, NoExt
    <3> QED BY <2>1, <3>1, <3>2, <3>5 DEF WireInv, SignedIsUntouched
  <2>3. CASE ~CanEncode(sent)
    <3>1. stage' = "refused" /\ frame' = Unsent
      BY <1>2, <2>3 DEF EncodeSent
    <3> QED BY <2>1, <3>1, UnsentFormed DEF WireInv, SignedIsUntouched
  <2> QED BY <2>2, <2>3
<1>3. ASSUME NEW seq \in {0, 1}, SignFrame(seq)
      PROVE  WireInv'
  <2>1. Formed(frame') /\ frame'.ext.on /\ SignedOnce(frame', harm')
    BY <1>3, SignedStep
  <2>2. stage = "encoded" /\ harm = "none" /\ UNCHANGED <<sent, stage, harm, got, verifiedAs>>
        /\ got = Refused /\ sent \in Inputs
    BY <1>3 DEF SignFrame, WireInv
  <2> QED BY <2>1, <2>2 DEF WireInv, SignedIsUntouched, Refused
<1>4. CASE Receive
  <2>1. stage' = "received" /\ UNCHANGED <<sent, frame, harm>>
    BY <1>4 DEF Receive
  <2>2. PICK end \in Receivers :
          /\ got' = IF frame.ext.on /\ ~Verified(frame, Key, end) THEN Refused ELSE Decode(frame)
          /\ verifiedAs' = IF Verified(frame, Key, end) THEN end ELSE verifiedAs
    BY <1>4 DEF Receive
  <2>3. CASE Verified(frame, Key, end)
    <3>1. harm = "none" /\ end = Signer
      BY <2>3, VerifiedIsSigned
    <3> QED BY <2>1, <2>2, <2>3, <3>1 DEF WireInv, SignedIsUntouched
  <2>4. CASE ~Verified(frame, Key, end)
    BY <2>1, <2>2, <2>4 DEF WireInv, SignedIsUntouched, Refused
  <2> QED BY <2>3, <2>4
<1>5. ASSUME NEW n \in 0..(Len(frame.payload) - 1), CutFrame(n)
      PROVE  WireInv'
  <2>1. PICK f : f = [frame EXCEPT !.payload = SubSeq(@, 1, n)] /\ Harm("cut", f)
    BY <1>5 DEF CutFrame
  <2>2. Formed(f) /\ f.ext = frame.ext
    BY <1>1, <2>1, HarmedFormed
  <2> QED BY <2>1, <2>2, HarmedStep
<1>6. ASSUME NEW g \in Garbage, PadFrame(g)
      PROVE  WireInv'
  <2>1. PICK f : f = [Trailed(g) EXCEPT !.len = @ + Len(g)] /\ Harm("padded", f)
    BY <1>6 DEF PadFrame
  <2>2. Formed(f) /\ f.ext = frame.ext
    BY <1>1, <2>1, HarmedFormed
  <2> QED BY <2>1, <2>2, HarmedStep
<1>7. ASSUME NEW g \in Garbage, TrailFrame(g)
      PROVE  WireInv'
  <2>1. PICK f : f = Trailed(g) /\ Harm("trailed", f)
    BY <1>7 DEF TrailFrame
  <2>2. Formed(f) /\ f.ext = frame.ext
    BY <1>1, <2>1, HarmedFormed
  <2> QED BY <2>1, <2>2, HarmedStep
<1>8. ASSUME NEW i \in DOMAIN frame.payload, NEW d \in {0, 1}, AlterFrame(i, d)
      PROVE  WireInv'
  <2>1. PICK f : f = [frame EXCEPT !.payload[i] = d] /\ Harm("altered", f)
    BY <1>8 DEF AlterFrame
  <2>2. Formed(f) /\ f.ext = frame.ext
    BY <1>1, <2>1, HarmedFormed
  <2> QED BY <2>1, <2>2, HarmedStep
<1>9. ASSUME NEW s, RestreamFrame(s)
      PROVE  WireInv'
  <2>1. PICK f : f = [frame EXCEPT !.stream = s] /\ Harm("altered", f)
    BY <1>9 DEF RestreamFrame
  <2>2. Formed(f) /\ f.ext = frame.ext
    BY <1>1, <2>1, HarmedFormed
  <2> QED BY <2>1, <2>2, HarmedStep
<1>10. ASSUME NEW n, RenumberFrame(n)
       PROVE  WireInv'
  <2>1. frame.ext.on
    BY <1>10 DEF RenumberFrame
  <2>2. PICK f : /\ f = [frame EXCEPT !.ext.seq = n]
                 /\ Formed(f) /\ f.ext = [frame.ext EXCEPT !.seq = f.ext.seq]
    BY <1>1, <2>1, RenumberedFormed
  <2>3. Harm("altered", f)
    BY <1>10, <2>2 DEF RenumberFrame
  <2> QED BY <2>1, <2>2, <2>3, HarmedStep
<1>11. CASE UNCHANGED wireVars
  BY <1>11 DEF wireVars, WireInv, SignedIsUntouched
<1> QED
  BY <1>2, <1>3, <1>4, <1>5, <1>6, <1>7, <1>8, <1>9, <1>10, <1>11 DEF WireNext

\* A signed frame is accepted only untouched, under the binding and the direction it was
\* signed for, whatever the codec, the envelopes and the receivers.
THEOREM SignedStaysUntouched == WireSpec => []SignedIsUntouched
<1>1. WireInit => WireInv
  BY UnsentFormed DEF WireInit, WireInv, SignedIsUntouched, Refused
<1>2. WireInv /\ [WireNext]_wireVars => WireInv'
  BY WireStep
<1>3. WireInv => SignedIsUntouched
  BY DEF WireInv
<1> QED BY <1>1, <1>2, <1>3, PTL DEF WireSpec
=============================================================================
