------------------------------ MODULE TaskLink ------------------------------
(***************************************************************************)
(* The V0.1 task transport over TCP (LiNeP/src/tcp/tcp.cpp): calls of one  *)
(* task sender, each over a connection of its own, against one task        *)
(* receiver with its accept thread, its handler threads and stop().        *)
(*                                                                         *)
(* A task travels as several sends, the header and then the rest of it;    *)
(* what the worker answers is a frame per send of stream_writer_func, or   *)
(* one.  A connection may break at any time: what was sent last is lost,   *)
(* and a send on it fails or vanishes.  A frame that arrives in part fails *)
(* the receive like one that does not arrive.  Headers, tags and bodies    *)
(* are abstract: a frame shows its sequence number, whether it is the      *)
(* final one and whether it has a body.  TIMEOUT and MODEL_ERROR, the two  *)
(* results of a transport that failed, are one status.  Both sides share   *)
(* an SL1 session.                                                         *)
(*                                                                         *)
(* stop() and the accept loop both close the listening socket.  The system *)
(* hands out its number again after the first close, so the second one may *)
(* close a connection; that it may also close something outside of this    *)
(* module is left out.  No timeout is set for connecting or receiving: a   *)
(* worker of SilentCalls that took a task may keep its caller for ever.    *)
(***************************************************************************)
EXTENDS Integers, Sequences, FiniteSets

CONSTANTS
  Calls,        \* calls of send_task or send_task_stream
  CallsOf,      \* bound: mode -> the calls that are made
  SilentCalls,  \* calls whose callback at the worker may never return
  MaxChunks,    \* bound: chunks a stream callback writes
  MaxRuns       \* bound: calls of start() of the receiver

VARIABLES
  mode,      \* "task" or "stream": start and send_task, or start_stream and send_task_stream
  call,      \* call -> [pc, expected, status, got, auth]
  link,      \* call -> [up, down, client, server, cut]
  handler,   \* call -> [pc, seq, wrote, status, cancelled]
  receiver,  \* [running, accept, listen, reused, owner, lastAuth, runs]; listen: the
             \* listening socket, `held' when accept() alone keeps it; reused: the call
             \* whose connection got its number
  nextAuth,  \* sl1_auth_seq_ of the sender
  overlapped \* history: the calls that were under way together with another one

linkVars == <<mode, call, link, handler, receiver, nextAuth, overlapped>>

Frame(n, final, body, status) == [n |-> n, final |-> final, body |-> body, status |-> status]

LinkInit ==
  /\ mode \in {"task", "stream"}
  /\ call = [c \in Calls |-> [pc |-> IF c \in CallsOf[mode] THEN "idle" ELSE "unused",
                              expected |-> 1, status |-> "none", got |-> <<>>, auth |-> 0]]
  /\ link = [c \in Calls |-> [up |-> 0, down |-> <<>>, client |-> FALSE, server |-> FALSE,
                              cut |-> FALSE]]
  /\ handler = [c \in Calls |-> [pc |-> "none", seq |-> 1, wrote |-> <<>>, status |-> "none",
                                 cancelled |-> FALSE]]
  /\ receiver = [running |-> FALSE, accept |-> "off", listen |-> "closed", reused |-> {},
                 owner |-> "idle", lastAuth |-> 0, runs |-> 0]
  /\ nextAuth = 1 /\ overlapped = {}

-----------------------------------------------------------------------------
(* The sender *)

Listening == receiver.listen # "closed"

\* A call that has begun and whose connection is not yet through on both sides.
UnderWay(c) ==
  \/ call[c].pc \in {"sending", "waiting"}
  \/ link[c].server \/ handler[c].pc \notin {"none", "closed"}

\* tcp_connect; the sequence number of the authentication is drawn right after it.
Connect(c) ==
  /\ call[c].pc = "idle" /\ Listening
  /\ call' = [call EXCEPT ![c].pc = "sending", ![c].auth = nextAuth]
  /\ link' = [link EXCEPT ![c].client = TRUE, ![c].server = TRUE]
  /\ nextAuth' = nextAuth + 1
  /\ LET others == {d \in Calls \ {c} : UnderWay(d)} IN
     overlapped' = overlapped \cup others \cup (IF others = {} THEN {} ELSE {c})
  /\ UNCHANGED <<mode, handler, receiver>>

Return(c, status) ==
  /\ call' = [call EXCEPT ![c].pc = "done", ![c].status = status]
  /\ link' = [link EXCEPT ![c].client = FALSE]
  /\ UNCHANGED <<mode, handler, receiver, nextAuth, overlapped>>

ConnectFails(c) == call[c].pc = "idle" /\ Return(c, "FAILED")

Broken(c) == link[c].cut \/ ~link[c].server

\* The header, then extension and payload.
SendPart(c) ==
  /\ call[c].pc = "sending"
  /\ link' = [link EXCEPT ![c].up = IF link[c].cut THEN @ ELSE @ + 1]
  /\ call' = [call EXCEPT ![c].pc = IF link[c].up = 1 \/ Broken(c) THEN "waiting" ELSE @]
  /\ UNCHANGED <<mode, handler, receiver, nextAuth, overlapped>>

SendFails(c) == call[c].pc = "sending" /\ Broken(c) /\ Return(c, "FAILED")

\* Nothing more can come: a receive returns short.
AtEnd(c) == link[c].down = <<>> /\ Broken(c)

ReceiveFails(c) == call[c].pc = "waiting" /\ AtEnd(c) /\ Return(c, "FAILED")

Incoming(c) == call[c].pc = "waiting" /\ link[c].down # <<>>

ReceiveResult(c) ==
  /\ mode = "task" /\ Incoming(c)
  /\ Return(c, Head(link[c].down).status)

\* Mutant of Delivered: a chunk that is not the next one is delivered, too.
MutantDelivered(c, f) == Append(call[c].got, IF f.body THEN f.n ELSE f.n - 1)

\* The chunks the callback was given: those with a body.
Delivered(c, f) == IF f.body THEN Append(call[c].got, f.n) ELSE call[c].got

\* send_task_stream takes the next frame; a final one ends the call.
ReceiveChunk(c) ==
  /\ mode = "stream" /\ Incoming(c)
  /\ LET f == Head(link[c].down)
         old == f.n < call[c].expected
     IN /\ call' = [call EXCEPT
             ![c].expected = IF old THEN @ ELSE f.n + 1,
             ![c].got = IF old THEN @ ELSE Delivered(c, f),
             ![c].pc = IF f.final THEN "done" ELSE @,
             ![c].status = IF f.final THEN "OK" ELSE @]
        /\ link' = [link EXCEPT ![c].down = Tail(@), ![c].client = ~f.final]
  /\ UNCHANGED <<mode, handler, receiver, nextAuth, overlapped>>

-----------------------------------------------------------------------------
(* The network *)

\* The connection breaks: of what is under way down some frames still arrive.
Break(c) ==
  /\ link[c].client /\ link[c].server /\ ~link[c].cut
  /\ \E n \in 0..Len(link[c].down) :
       link' = [link EXCEPT ![c].cut = TRUE, ![c].down = SubSeq(@, 1, n)]
  /\ UNCHANGED <<mode, call, handler, receiver, nextAuth, overlapped>>

-----------------------------------------------------------------------------
(* The accept thread and the owner of the receiver *)

Receiver(r) ==
  receiver' = r /\ UNCHANGED <<mode, call, link, handler, nextAuth, overlapped>>

\* start() or start_stream().  After a failed listen the thread object is still
\* joinable and start() would terminate the process: the owner calls stop() first.
StartReceiver ==
  /\ ~receiver.running /\ receiver.owner = "idle" /\ receiver.accept = "off"
  /\ receiver.runs < MaxRuns
  /\ Receiver([receiver EXCEPT !.running = TRUE, !.accept = "open", !.runs = @ + 1])

\* tcp_listen; a stop() before listen_socket_ is stored finds nothing to close, as before
\* the listen.
ListenSucceeds ==
  receiver.accept = "open" /\ Receiver([receiver EXCEPT !.accept = "check", !.listen = "open"])

ListenFails ==
  receiver.accept = "open" /\ Receiver([receiver EXCEPT !.running = FALSE, !.accept = "ended"])

Waiting == {c \in Calls : link[c].server /\ handler[c].pc = "none"}

\* The receiver's ends of these connections are closed.
Reset(set) ==
  link' = [c \in Calls |-> IF c \in set THEN [link[c] EXCEPT !.server = FALSE] ELSE link[c]]

CheckRunning ==
  /\ receiver.accept = "check" /\ receiver.running
  /\ Receiver([receiver EXCEPT !.accept = "accepting"])

\* The loop closes the number of its listening socket, whoever has it by now.  A
\* connection nobody accepted is reset with the socket.
AcceptLoopEnds ==
  /\ receiver.accept = "check" /\ ~receiver.running
  /\ receiver' = [receiver EXCEPT !.accept = "ended", !.listen = "closed"]
  /\ Reset(Waiting \cup receiver.reused)
  /\ UNCHANGED <<mode, call, handler, nextAuth, overlapped>>

\* Nobody came, or the socket is closed; one that only accept() kept is gone with it.
AcceptTimesOut ==
  /\ receiver.accept = "accepting" /\ Waiting = {}
  /\ Receiver([receiver EXCEPT !.accept = "check",
                               !.listen = IF @ = "held" THEN "closed" ELSE @])

\* A handler thread per connection; reap_finished_handlers() finds every thread still
\* joinable, so none is taken off the list before stop().
Accept(c) ==
  /\ receiver.accept = "accepting" /\ c \in Waiting /\ receiver.listen = "open"
  /\ receiver' = [receiver EXCEPT !.accept = "check"]
  /\ handler' = [handler EXCEPT ![c].pc = "reading"]
  /\ UNCHANGED <<mode, call, link, nextAuth, overlapped>>

\* The last connection of a socket that stop() has closed: it may get the number.
AcceptLast(c) ==
  /\ receiver.accept = "accepting" /\ c \in Waiting /\ receiver.listen = "held"
  /\ \E reused \in SUBSET {c} :
       receiver' = [receiver EXCEPT !.accept = "check", !.listen = "closed", !.reused = reused]
  /\ handler' = [handler EXCEPT ![c].pc = "reading"]
  /\ Reset(Waiting \ {c})
  /\ UNCHANGED <<mode, call, nextAuth, overlapped>>

StopReceiver ==
  /\ receiver.owner = "idle" /\ receiver.accept # "off"
  /\ Receiver([receiver EXCEPT !.running = FALSE, !.owner = "closing"])

\* stop() closes listen_socket_: on POSIX the socket lives on while another thread is
\* blocked in accept().
CloseListener ==
  /\ receiver.owner = "closing"
  /\ \E left \in {"closed"} \cup {l \in {"held"} : Listening /\ receiver.accept = "accepting"} :
       /\ receiver' = [receiver EXCEPT !.owner = "joining", !.listen = left]
       /\ Reset(IF left = "held" THEN {} ELSE Waiting)
  /\ UNCHANGED <<mode, call, handler, nextAuth, overlapped>>

ReceiverJoined ==
  /\ receiver.owner = "joining" /\ receiver.accept = "ended"
  /\ Receiver([receiver EXCEPT !.owner = "handlers"])

HandlersDone == \A c \in Calls : handler[c].pc \in {"none", "closed"}

ReceiverStops ==
  /\ receiver.owner = "handlers" /\ HandlersDone
  /\ Receiver([receiver EXCEPT !.owner = "idle", !.accept = "off", !.reused = {}])

-----------------------------------------------------------------------------
(* handle_connection *)

HandlerGoes(c, pc) ==
  /\ handler' = [handler EXCEPT ![c].pc = pc]
  /\ UNCHANGED <<mode, call, link, receiver, nextAuth, overlapped>>

\* Mutant of HandlerCloses: the thread ends and the socket stays open.
MutantHandlerCloses(c) ==
  /\ handler' = [handler EXCEPT ![c].pc = "closed"]
  /\ UNCHANGED <<mode, call, link, receiver, nextAuth, overlapped>>

\* socket_close and the end of the thread.
HandlerCloses(c) ==
  /\ handler' = [handler EXCEPT ![c].pc = "closed"]
  /\ link' = [link EXCEPT ![c].server = FALSE]
  /\ UNCHANGED <<mode, call, receiver, nextAuth, overlapped>>

ReadTask(c) == handler[c].pc = "reading" /\ link[c].up = 2 /\ HandlerGoes(c, "checking")

\* The sender left, the connection broke, or the timeout the listening socket passes
\* on to its connections (where it does) went by; or the socket was closed under the
\* handler.
ReadFails(c) ==
  /\ handler[c].pc = "reading" /\ (link[c].up < 2 \/ ~link[c].server)
  /\ HandlerCloses(c)

\* The replay check reads the last sequence number, the MAC is verified, and then the
\* number is stored.
CheckAuth(c) ==
  /\ handler[c].pc = "checking"
  /\ IF call[c].auth > receiver.lastAuth THEN HandlerGoes(c, "storing") ELSE HandlerCloses(c)

\* Mutant of StoreAuth: the next number is stored, not the one that was verified.
MutantStoreAuth(c) ==
  /\ handler[c].pc = "storing"
  /\ receiver' = [receiver EXCEPT !.lastAuth = call[c].auth + 1]
  /\ handler' = [handler EXCEPT ![c].pc = "running"]
  /\ UNCHANGED <<mode, call, link, nextAuth, overlapped>>

StoreAuth(c) ==
  /\ handler[c].pc = "storing"
  /\ receiver' = [receiver EXCEPT !.lastAuth = call[c].auth]
  /\ handler' = [handler EXCEPT ![c].pc = "running"]
  /\ UNCHANGED <<mode, call, link, nextAuth, overlapped>>

\* What a send does to a connection: it arrives, or it fails or vanishes on a broken one;
\* on a socket that was closed it fails.
Gone(c) == link[c].cut \/ ~link[c].client \/ ~link[c].server

\* The callback returned: one RESULT frame, whatever becomes of it, and the end.
AnswerTask(c) ==
  /\ mode = "task" /\ handler[c].pc = "running"
  /\ \E status \in {"OK", "REJECTED"} :
       /\ handler' = [handler EXCEPT ![c].pc = "closed", ![c].status = status]
       /\ link' = [link EXCEPT ![c].server = FALSE,
                     ![c].down = IF Gone(c) THEN @
                                 ELSE Append(@, Frame(1, TRUE, TRUE, status))]
  /\ UNCHANGED <<mode, call, receiver, nextAuth, overlapped>>

\* stream_writer_func; once a send failed the stream is cancelled.  Nothing keeps a
\* callback from writing behind its final chunk.
WriteChunk(c) ==
  /\ mode = "stream" /\ handler[c].pc = "running" /\ ~handler[c].cancelled
  /\ Len(handler[c].wrote) < MaxChunks
  /\ \E final, body, fails \in BOOLEAN :
       LET f == Frame(handler[c].seq, final, body, "OK") IN
       /\ fails => Gone(c)
       /\ ~link[c].server => fails
       /\ handler' = [handler EXCEPT ![c].seq = @ + 1, ![c].wrote = Append(@, f),
                                     ![c].cancelled = fails]
       /\ link' = [link EXCEPT ![c].down = IF Gone(c) THEN @ ELSE Append(@, f)]
  /\ UNCHANGED <<mode, call, receiver, nextAuth, overlapped>>

\* The stream callback returns, with or without a final chunk.
StreamEnds(c) == mode = "stream" /\ handler[c].pc = "running" /\ HandlerCloses(c)

Sender(c) ==
  SendPart(c) \/ SendFails(c) \/ ReceiveFails(c) \/ ReceiveResult(c)
    \/ ReceiveChunk(c)

Handler(c) == ReadTask(c) \/ ReadFails(c) \/ CheckAuth(c) \/ StoreAuth(c)

Callback(c) == AnswerTask(c) \/ WriteChunk(c) \/ StreamEnds(c)

AcceptLoop ==
  \/ ListenSucceeds \/ ListenFails \/ CheckRunning \/ AcceptLoopEnds \/ AcceptTimesOut
  \/ \E c \in Calls : Accept(c) \/ AcceptLast(c)

LinkNext ==
  \/ \E c \in Calls : Connect(c) \/ ConnectFails(c) \/ Sender(c) \/ Break(c)
                       \/ Handler(c) \/ Callback(c)
  \/ AcceptLoop \/ StartReceiver \/ StopReceiver \/ CloseListener \/ ReceiverJoined
  \/ ReceiverStops

LinkSpec == LinkInit /\ [][LinkNext]_linkVars

\* Threads run, a connection that breaks is noticed, and callbacks return unless they are
\* silent.  A break that is not noticed is, for the caller, a silent worker.
LinkFairness ==
  /\ WF_linkVars(AcceptLoop) /\ WF_linkVars(CloseListener \/ ReceiverJoined \/ ReceiverStops)
  /\ \A c \in Calls : WF_linkVars(Sender(c)) /\ WF_linkVars(Handler(c))
  /\ \A c \in Calls \ SilentCalls : WF_linkVars(Callback(c))

FairLinkSpec == LinkSpec /\ LinkFairness

-----------------------------------------------------------------------------
(* Properties *)

\* `taken' are the numbers of those with a body among the first k frames, in order.
AreFirst(taken, frames, k) ==
  /\ \A i, j \in DOMAIN taken : i < j => taken[i] < taken[j]
  /\ {taken[i] : i \in DOMAIN taken} = {n \in 1..k : frames[n].body}

\* The frame that ends a stream: its first final one.
EndsAt(frames, k) ==
  k \in DOMAIN frames /\ frames[k].final /\ \A n \in 1..(k - 1) : ~frames[n].final

\* What a call reports is what the worker's callback did: frames are numbered as they
\* are written, and the chunks the call was given are, in order, those of the first of
\* them; OK for a stream means all of them up to the first final one, whatever the
\* callback writes after it, and a task's status is the callback's (send_task,
\* send_task_stream, stream_writer_func, over connections that break anywhere).
ResultIsTheWorkers ==
  \A c \in Calls :
    LET wrote == handler[c].wrote IN
    /\ \A n \in DOMAIN wrote : wrote[n].n = n
    /\ \E k \in 0..Len(wrote) :
         /\ AreFirst(call[c].got, wrote, k)
         /\ mode = "stream" /\ call[c].status = "OK" => EndsAt(wrote, k)
    /\ mode = "task" /\ call[c].status = "OK" => handler[c].status = "OK"
    /\ call[c].status = "REJECTED" => handler[c].status = "REJECTED"

\* The replay check refuses no genuine task but those that were sent while another one
\* was under way: numbers are drawn by the senders' threads and checked by the handlers',
\* in any order (handle_connection, sl1_last_auth_seq_).
RefusedOnlyWhenOverlapped ==
  \A c \in Calls :
    handler[c].pc = "checking" /\ call[c].auth <= receiver.lastAuth => c \in overlapped

\* No call waits but one whose callback is silent, and stop() for nothing but its end.
NobodyWaits ==
  /\ \A c \in Calls \ SilentCalls : call[c].pc \notin {"sending", "waiting"}
  /\ receiver.owner = "idle" \/ \E c \in SilentCalls : handler[c].pc = "running"

\* Whichever side stops, breaks or leaves first, the other one sees it: every call returns
\* whose worker's callback does, and stop() returns unless it waits for a callback that
\* never does; one silent worker holds up its own caller and its own receiver's stop(),
\* and no other call (send_task, handle_connection, accept_loop, stop).
CallsAndStopReturn == []<>NobodyWaits

\* tcp.hpp:20-24: "Send a TASK frame and block until a RESULT arrives or timeout", and
\* "RESULT_TIMEOUT if no answer arrived within timeout_ms": the call returns whatever the
\* worker does (send_task; tcp_connect ignores the timeout, tcp_recv_all has none).
SendTaskReturns ==
  \A c \in Calls : call[c].pc \in {"sending", "waiting"} ~> call[c].pc = "done"
=============================================================================
