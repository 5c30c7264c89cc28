------------------------------- MODULE Trunk -------------------------------
(***************************************************************************)
(* A trunk as the reference runtime serves it: mock_runtime_server         *)
(* (LiNeP/src/v0_2/mock_runtime.cpp) with its accept thread, the reader    *)
(* thread of one envelope_connection (transport.cpp), a worker thread per  *)
(* request and stop(), over the session_manager of module Session.         *)
(*                                                                         *)
(* Reader and workers share the session and the connection, each with a    *)
(* lock of its own: an event is recorded first and sent then, and between  *)
(* two steps of a worker the reader, the client and stop() go on.          *)
(*                                                                         *)
(* Abstractions.  One client, one connection, one output per request, no   *)
(* SL1.  A delta takes one unit of the window and the text of a terminal   *)
(* event two (it is longer).  Frames do not get malformed.  The texts, the *)
(* embed profile and the delays are left out; a worker that waited for     *)
(* room may find at any time that it waited for too long.                  *)
(***************************************************************************)
EXTENDS Integers, Sequences, FiniteSets

CONSTANTS
  Streams,     \* identities of the requests
  MaxInflight, \* limits.max_inflight_streams
  MaxBuffered, \* limits.max_buffered_bytes_per_stream
  Configs,     \* [thoughts, tokens, failAfter, ignoreCancel, disconnect]
  Leases,      \* the bind the client presents, a set of one
  MaxInbound   \* bound: frames the client sends

ASSUME TrunkAssumption == MaxBuffered \in Nat

VARIABLES
  life, outcome, lastSeq, produced, acked, binding, bound, generation, auth,
  config,  \* mock_runtime_config
  lease,   \* the router still knows the client's lease
  server,  \* [running, acceptor, owner]
  conn,    \* [made, open, client, listed]: open is is_connected(), client the other end
  reader,  \* the reader thread: its place in client_loop
  inbox,   \* frames on their way to the runtime
  inbound, \* number of frames sent by the client
  worker,  \* stream -> [pc, next, event, full]; full is history: no room for an event
  heard    \* stream -> events that reached the client

tableVars == <<life, outcome, lastSeq, produced, acked, binding, bound, generation, auth>>
threadVars == <<server, conn, reader, worker>>
trunkVars == <<tableVars, config, lease, threadVars, inbox, inbound, heard>>

MaxEvents == 6

OneExecution(s) == 1

Table == INSTANCE Session WITH
  ExecutionOf <- OneExecution, RequireLease <- TRUE, RequireSl1 <- FALSE,
  Seqs <- 1..MaxEvents, Sizes <- {1, 2}, Drains <- {}, Offsets <- 0..MaxEvents,
  OffsetModulus <- 100, Binds <- Leases, MaxAuthSeq <- 2, MaxProduced <- 99,
  MaxGeneration <- 9

TrunkInit ==
  /\ Table!Init
  /\ config \in Configs
  /\ lease = TRUE
  /\ server = [running |-> TRUE, acceptor |-> "accepting", owner |-> "idle"]
  /\ conn = [made |-> FALSE, open |-> FALSE, client |-> FALSE, listed |-> FALSE]
  /\ reader = "none"
  /\ inbox = <<>> /\ inbound = 0
  /\ worker = [s \in Streams |-> [pc |-> "none", next |-> 1, event |-> "none", full |-> FALSE]]
  /\ heard = [s \in Streams |-> <<>>]

-----------------------------------------------------------------------------
(* The client and its lease *)

ClientConnects ==
  /\ ~conn.made /\ server.acceptor = "accepting"
  /\ conn' = [conn EXCEPT !.made = TRUE, !.open = TRUE, !.client = TRUE]
  /\ UNCHANGED <<tableVars, config, lease, server, reader, worker, inbox, inbound, heard>>

\* What the client has heard of a stream is what it acknowledges.
ClientFrames ==
  [kind : {"bind"}, stream : {CHOOSE s \in Streams : TRUE}, offset : {0}]
    \cup [kind : {"request", "cancel"}, stream : Streams, offset : {0}]
    \cup {[kind |-> "window_update", stream |-> s, offset |-> Len(heard[s])] : s \in Streams}

ClientSends ==
  /\ conn.client /\ inbound < MaxInbound
  /\ \E f \in ClientFrames :
       /\ f.kind = "window_update" => f.offset > 0
       /\ inbox' = Append(inbox, f)
  /\ inbound' = inbound + 1
  /\ UNCHANGED <<tableVars, config, lease, threadVars, heard>>

ClientLeaves ==
  /\ conn.client
  /\ conn' = [conn EXCEPT !.client = FALSE]
  /\ UNCHANGED <<tableVars, config, lease, server, reader, worker, inbox, inbound, heard>>

LeaseDrops ==
  /\ lease /\ lease' = FALSE
  /\ UNCHANGED <<tableVars, config, threadVars, inbox, inbound, heard>>

-----------------------------------------------------------------------------
(* The accept thread and stop() *)

Serving(new, c, r) ==
  /\ server' = new /\ conn' = c /\ reader' = r
  /\ UNCHANGED <<tableVars, config, lease, worker, inbox, inbound, heard>>

\* accept_connection returns the client's connection.
AcceptConnection ==
  /\ server.acceptor = "accepting" /\ conn.made /\ conn.open /\ reader = "none"
  /\ Serving([server EXCEPT !.acceptor = "accepted"], conn, reader)

\* ... or, once stop() is under way, the connection stop() makes to wake it.
AcceptWakeUp ==
  /\ server.acceptor = "accepting" /\ ~server.running
  /\ Serving([server EXCEPT !.acceptor = "ending"],
             IF reader = "none" THEN [conn EXCEPT !.open = FALSE] ELSE conn, reader)

LookAtRunning ==
  /\ server.acceptor = "accepted"
  /\ IF server.running THEN Serving([server EXCEPT !.acceptor = "listing"], conn, reader)
     ELSE Serving([server EXCEPT !.acceptor = "ending"], [conn EXCEPT !.open = FALSE], reader)

\* The connection goes into active_conns_ and its reader starts, although stop() may
\* have emptied active_conns_ meanwhile.
StartReader ==
  /\ server.acceptor = "listing"
  /\ Serving([server EXCEPT !.acceptor = IF server.running THEN "accepting" ELSE "ending"],
             [conn EXCEPT !.listed = TRUE], "loop")

ReadersJoined ==
  /\ server.acceptor = "ending" /\ reader \in {"none", "ended"}
  /\ Serving([server EXCEPT !.acceptor = "ended"], conn, reader)

Stop ==
  /\ server.owner = "idle"
  /\ Serving([server EXCEPT !.running = FALSE, !.owner = "stopping"], conn, reader)

CloseConnections ==
  /\ server.owner = "stopping"
  /\ Serving([server EXCEPT !.owner = "joining"],
             IF conn.listed THEN [conn EXCEPT !.open = FALSE, !.listed = FALSE] ELSE conn,
             reader)

StopReturns ==
  /\ server.owner = "joining" /\ server.acceptor = "ended"
  /\ Serving([server EXCEPT !.owner = "stopped"], conn, reader)

-----------------------------------------------------------------------------
(* client_loop *)

ReaderGoes(pc) ==
  reader' = pc /\ UNCHANGED <<config, lease, server, inbound, heard>>

Alive == server.running /\ conn.open

ReaderLoops ==
  /\ reader = "loop"
  /\ ReaderGoes(IF Alive THEN "receiving" ELSE "joining")
  /\ UNCHANGED <<tableVars, conn, worker, inbox>>

\* close() of another thread does not end a receive that waits (POSIX); the client does.
ConnectionEnds ==
  /\ reader = "receiving"
  /\ IF inbox = <<>> THEN ~conn.client ELSE ~conn.open
  /\ conn' = [conn EXCEPT !.open = FALSE]
  /\ ReaderGoes("joining")
  /\ UNCHANGED <<tableVars, worker, inbox>>

Receives(kind) == reader = "receiving" /\ inbox # <<>> /\ Head(inbox).kind = kind

\* A bind the router does not know ends the connection.
ReceiveBind ==
  /\ Receives("bind") /\ inbox' = Tail(inbox)
  /\ \E b \in Leases :
       \/ /\ lease /\ Table!ProcessSessionBind(b)
          /\ ReaderGoes("loop") /\ UNCHANGED conn
       \/ /\ lease /\ Table!IsCurrentBind(b)
          /\ ReaderGoes("loop") /\ UNCHANGED <<conn, tableVars>>
       \/ /\ ~lease
          /\ conn' = [conn EXCEPT !.open = FALSE]
          /\ ReaderGoes("joining") /\ UNCHANGED tableVars
  /\ UNCHANGED worker

\* The router is asked about the lease before, and apart from, submit_request.
ReceiveRequest ==
  /\ Receives("request") /\ UNCHANGED inbox
  /\ IF lease THEN UNCHANGED tableVars
     ELSE Table!MarkBindingStale \/ (binding # "bound_current" /\ UNCHANGED tableVars)
  /\ ReaderGoes("submitting")
  /\ UNCHANGED <<conn, worker>>

StartWorker(s) ==
  /\ Table!SubmitRequest(s)
  /\ worker' = [worker EXCEPT ![s].pc = "top"]
  /\ ReaderGoes("loop") /\ UNCHANGED conn

\* FAILED goes out under the identity of the request, whoever has it; a connection
\* that never was bound ends.
RefuseRequest(s) ==
  /\ ~Table!CanSubmit(s)
  /\ conn' = [conn EXCEPT !.open = @ /\ binding # "unbound"]
  /\ ReaderGoes(IF binding = "unbound" THEN "joining" ELSE "loop")
  /\ UNCHANGED <<tableVars, worker>>

SubmitRequest ==
  /\ reader = "submitting" /\ inbox' = Tail(inbox)
  /\ LET s == Head(inbox).stream IN StartWorker(s) \/ RefuseRequest(s)

ReceiveCancel ==
  /\ Receives("cancel") /\ inbox' = Tail(inbox)
  /\ LET s == Head(inbox).stream IN
     \/ Table!ProcessControlCancel(s)
     \/ (~Table!Cancellable(s) /\ UNCHANGED tableVars)
  /\ ReaderGoes("loop") /\ UNCHANGED <<conn, worker>>

ReceiveWindowUpdate ==
  /\ Receives("window_update") /\ inbox' = Tail(inbox)
  /\ LET s == Head(inbox).stream  k == Head(inbox).offset IN
     \/ Table!ProcessControlWindowUpdate(s, k)
     \/ ((k <= acked[s] \/ k > produced[s]) /\ UNCHANGED tableVars)
  /\ ReaderGoes("loop") /\ UNCHANGED <<conn, worker>>

WorkersJoined ==
  /\ reader = "joining" /\ \A s \in Streams : worker[s].pc \in {"none", "done"}
  /\ conn' = [conn EXCEPT !.open = FALSE]
  /\ ReaderGoes("ended")
  /\ UNCHANGED <<tableVars, worker, inbox>>

-----------------------------------------------------------------------------
(* execute_single_output *)

WorkerGoes(s, pc, event) ==
  /\ worker' = [worker EXCEPT ![s].pc = pc, ![s].event = event]
  /\ UNCHANGED <<config, lease, server, reader, inbox, inbound>>

Emit(s, event) ==
  WorkerGoes(s, "recording", event) /\ UNCHANGED <<tableVars, conn, heard>>

MustCancel(s) == ~Alive \/ (~config.ignoreCancel /\ life[s] = "cancel_requested")

Emitted(s) == worker[s].next - 1

\* The end of the answer: completed, or the connection dropped before it.
AnswerEnds(s) ==
  /\ worker[s].pc = "top" /\ Emitted(s) = config.thoughts + config.tokens
  /\ IF config.disconnect
       THEN /\ WorkerGoes(s, "done", "none")
            /\ conn' = [conn EXCEPT !.open = FALSE]
            /\ UNCHANGED <<tableVars, heard>>
       ELSE Emit(s, "completed")

\* A thought is sent without regard to the window.
NextChunk(s) ==
  /\ worker[s].pc = "top" /\ Emitted(s) < config.thoughts + config.tokens
  /\ IF MustCancel(s) THEN Emit(s, "cancelled")
     ELSE IF Emitted(s) < config.thoughts THEN Emit(s, "data")
     ELSE WorkerGoes(s, "waiting", "none") /\ UNCHANGED <<tableVars, conn, heard>>

HasRoom(s) == Table!Unacked(s) + 1 <= MaxBuffered

\* Room, or no one left to send to; a cancel; or too long a wait.
WaitEnds(s) ==
  \/ (HasRoom(s) \/ ~Alive) /\ Emit(s, "data")
  \/ ~HasRoom(s) /\ MustCancel(s) /\ Emit(s, "cancelled")
  \/ ~HasRoom(s) /\ Emit(s, "failed")

EventOf(s) ==
  LET kind == worker[s].event IN
  IF kind = "data" THEN [kind |-> kind, seq |-> worker[s].next, size |-> 1, outcome |-> "unknown"]
  ELSE [kind |-> kind, seq |-> worker[s].next, size |-> 2, outcome |-> kind]

\* session.dispatch_event; whether it took the event is not looked at.
RecordEvent(s) ==
  /\ worker[s].pc = "recording"
  /\ LET e == EventOf(s) IN
     /\ \/ Table!DispatchData(s, e) \/ Table!DispatchTerminal(s, e)
        \/ (~Table!AcceptsEvent(s, e) /\ UNCHANGED tableVars)
     /\ worker' = [worker EXCEPT ![s].pc = "sending",
                     ![s].full = @ \/ Table!Unacked(s) + e.size > MaxBuffered]
  /\ UNCHANGED <<config, lease, server, conn, reader, inbox, inbound, heard>>

\* Mutant of AfterSend: the worker goes on after a failure, too.
MutantAfterSend(s) ==
  IF worker[s].event \in {"completed", "cancelled"} THEN [pc |-> "done", event |-> "none"]
  ELSE [pc |-> "top", event |-> "none"]

\* A terminal event is the last one; a forced failure follows on the chunk it is set for.
AfterSend(s) ==
  IF worker[s].event # "data" THEN [pc |-> "done", event |-> "none"]
  ELSE IF worker[s].next = config.failAfter THEN [pc |-> "recording", event |-> "failed"]
  ELSE [pc |-> "top", event |-> "none"]

\* send_event: on a connection the client has left the send fails, which closes it, or
\* goes nowhere.
SendEvent(s) ==
  /\ worker[s].pc = "sending"
  /\ worker' = [worker EXCEPT ![s].pc = AfterSend(s).pc, ![s].event = AfterSend(s).event,
                              ![s].next = @ + 1]
  /\ heard' = [heard EXCEPT ![s] =
       IF conn.open /\ conn.client
         THEN Append(@, [n |-> worker[s].next, kind |-> worker[s].event]) ELSE @]
  /\ conn' \in {conn, [conn EXCEPT !.open = @ /\ conn.client]}
  /\ UNCHANGED <<tableVars, config, lease, server, reader, inbox, inbound>>

Worker(s) ==
  AnswerEnds(s) \/ NextChunk(s) \/ (worker[s].pc = "waiting" /\ WaitEnds(s))
    \/ RecordEvent(s) \/ SendEvent(s)

Reader ==
  \/ ReaderLoops \/ ConnectionEnds \/ ReceiveBind \/ ReceiveRequest \/ SubmitRequest
  \/ ReceiveCancel \/ ReceiveWindowUpdate \/ WorkersJoined

\* Mutant of Acceptor: stop() closes the listener and makes no connection to wake it.
MutantAcceptor == AcceptConnection \/ LookAtRunning \/ StartReader \/ ReadersJoined

Acceptor ==
  AcceptConnection \/ AcceptWakeUp \/ LookAtRunning \/ StartReader \/ ReadersJoined

TrunkNext ==
  \/ ClientConnects \/ ClientSends \/ ClientLeaves \/ LeaseDrops
  \/ Acceptor \/ Stop \/ CloseConnections \/ StopReturns
  \/ Reader \/ \E s \in Streams : Worker(s)

TrunkSpec == TrunkInit /\ [][TrunkNext]_trunkVars

\* Threads run; a client leaves in the end.
TrunkFairness ==
  /\ WF_trunkVars(Acceptor \/ CloseConnections \/ StopReturns)
  /\ WF_trunkVars(Reader) /\ WF_trunkVars(ClientLeaves)
  /\ \A s \in Streams : WF_trunkVars(Worker(s))

-----------------------------------------------------------------------------
(* Properties *)

Ends(s) == {i \in DOMAIN heard[s] : heard[s][i].kind # "data"}

\* What a client hears of a stream from its worker are events numbered from 1 without
\* a gap, the last of which, and no other, may be terminal; and the end it is told is
\* the end the session has recorded, or the window had no room for one of the events,
\* and then the stream may stay in flight for good (execute_single_output, dispatch_event).
AnswersAreSound ==
  \A s \in Streams :
    /\ \A i \in DOMAIN heard[s] : heard[s][i].n = i
    /\ \A i \in Ends(s) :
         /\ i = Len(heard[s])
         /\ outcome[s] = heard[s][i].kind \/ worker[s].full

\* Workers end, whatever the client does about its window, and stop() returns: the
\* accept thread is woken and every reader sees that the connection or its client is
\* gone (stop, accept_loop, client_loop).
TrunkEnds ==
  (server.owner \in {"stopping", "joining"} \/ \E s \in Streams : worker[s].pc = "top")
    ~> (server.owner \in {"idle", "stopped"}
          /\ \A s \in Streams : worker[s].pc \in {"none", "done"})
=============================================================================
