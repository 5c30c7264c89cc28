# LiNeP V0.2 in TLA+

LiNeP is a network protocol library for distributing inference work over a local
network, written in C++ with Python bindings and a second, Python implementation.
`src/LiNeP` is the transport, scheduling and session layer (V0.1 baseline and the V0.2
dual-plane protocol), `src/LiNeP-SL` the security layers on top of it.

This directory models both in TLA+, checks the models with TLC on small instances, and
proves what matters most for every instance with TLAPS. Every definition is a
translation of the C++ source; `PROJECT.json` maps each to its lines.

    tlc -workers 2 -config MCPlanes.cfg MCPlanes     # a run
    tlapm PlanesProofs.tla                           # a proof module

## 1. Inventory

In V0.2 a **node** (worker) and a **scheduler/router** talk over two planes. The UDP
*control plane* carries presence, health and leases: `NODE_HELLO -> INVITE -> LEASE_ACK`,
then heartbeats. The TCP *trunk* carries work: after a `SESSION_BIND` naming a lease of
the control plane, requests open *streams*, events flow back, control envelopes cancel
and grant credit. V0.1 remains beside it: a task scheduler that sends tasks over a TCP
connection each. LiNeP-SL protects the planes: a handshake that makes sessions, per-plane
authentication, groups, policies and governance. Modules are named in brackets.

| Component | State | Operations | Interacts with | Hard part | Must be true |
| --- | --- | --- | --- | --- | --- |
| `control_plane_router` (control_plane.cpp) [ControlPlane, LeaseContract] | per identity: lifecycle, epoch, sequence numbers, lease token, last seen; capability cache | ingest_datagram (6 kinds), issue/reissue_invite, sweep_stale_nodes, validate_tcp_session_binding | called by the lease issuer, read by every trunk server that binds | replays, reordering, restarts of nodes, sweeps between datagrams | a lease belongs to one incarnation; stale traffic changes nothing |
| `lease_client`, `lease_issuer` (lease.cpp) [LeaseHandshake; bind: SecureTrunk] | client: epoch, seq, token, active; issuer: token counter and its thread | acquire, renew, request_invite, ack_lease, bind, heartbeat; serve_loop | UDP; router; trunk | lost and late datagrams, no answer to LEASE_ACK, retries | both sides agree; calls return |
| `session_manager` (session.cpp, lifecycle.hpp) [Session] | streams (lifecycle, event_seq, produced and acknowledged bytes), binding and generation, SL1 numbering | submit_request, dispatch_event, process_control, acknowledgements, cancel, terminate_all, bind, mark stale, verify/sign | reader thread, worker threads, registration | cancel against events, teardown against dispatch, limits | one final outcome; bounded buffers; visible binding changes |
| `runtime_registration_session` (registration.cpp) [Registration] | registered, draining, closed, slots, advertised models, copy of binding and generation | receive_worker_frame, send_router_frame | wraps one session; application's authorizer | cached binding that changes underneath; every error path must tear down | admissions follow the worker's last word under the present binding |
| `stream_send_scheduler` (transport.cpp) [SendScheduler] | per-stream frame queues, byte counters, rotation and cursor | enqueue, peek, commit, pull, flush, drop_stream | envelope_connection, producers | peek, transmit and commit are three critical sections | no frame lost, repeated or starved; exact counters |
| `envelope_connection`, listener (transport.cpp) [Trunk, SecureTrunk] | socket, SL1 key, outbound number, confirmed | send_*, set_sl1_auth, receive_envelope_raw, close | session, scheduler, many threads | numbering restarts under concurrent senders | both ends number alike |
| `mock_runtime_server` (mock_runtime.cpp) [Trunk, SecureTrunk] | accept, reader and worker threads over a session | start, stop, client_loop, execute_single_output | all of the above | threads on one session; lease validated before submit; joins in stop | events belong to their request; stop ends |
| envelope codec (envelopes.cpp, registration.cpp, vision.cpp) [SignedWire, Envelopes] | none | encode_*, decode_*, sign, verify | every frame of the trunk | length prefixes, two capability layouts, cut or altered frames | read as sent, or refused |
| task scheduler (scheduler/*.cpp) [Dispatch, TaskQueue, BoundedFifo] | bounded MPSC queue, job table, slots, cooldowns, threads | submit, run_loop, dispatch, complete, retry, start, stop | workers over TcpTransport | first answer wins, retries against late answers, stop, two-step pushes | one verdict per task; FIFO |
| V0.1 TCP (tcp.cpp) [TaskLink] | sockets, accept thread, handlers, SL1 number | send_task, send_task_stream, start, stop, handle_connection | task scheduler, workers | connections that break anywhere; workers that never answer; a socket number closed twice; replay check across threads | results are the worker's; calls return |
| SL2 handshake, session registry (sl2_handshake.cpp, session.cpp, negotiation.cpp) [SecureHandshake] | per object: state, transcript, keys; per host: session records | the four messages, establish, rotate, revoke, expire, close | hosts' registries | frames of other runs, garbled offers, ended sessions | same session on both sides, no downgrade |
| plane authenticator, replay window (plane_authenticator.cpp, replay_window.cpp) [PlaneGuard] | bitmap of two words, event tracker | sign/verify of datagrams, events, calls | sessions | reordering, shifts by whole words, rotation on one side first | nothing twice, nothing genuine refused |
| groups (group_security.cpp) [GroupSecurity] | members, epoch, leaf secrets, ratchets, windows | create, add, remove, rotate, commit, close, protect, unprotect | endpoints | old epochs, removed members, late and altered messages | what is accepted is a member's; a member is heard inside the window |
| policies (authorization.cpp) [Authorization] | subject and role policies | add, clear, authorize, validate_against_advertised | sessions | aggregation of several roles | no role lifts another's limit |
| governance (governance.cpp) [Governance] | revisions, profile, domains, audit chain, sinks | set, update, evaluate_federation_admission, emit_audit_event | any thread; sinks | sinks are called outside the lock | the trail is complete |
| heartbeat, framing, CRC, SHA-256, platform layer, C ABI, conformance driver, crypto providers, V0.1 SL, Python mirrors, Hailo runtime | - | - | - | - | not modelled, see section 7 |

The hazards of this code, each at its line, are listed in `PROJECT.json` under
`hazards` with the properties that would catch them.

## 2. The modules

**LeaseContract** is the abstract promise: per identity an incarnation and at most one
lease, offered with a fresh token, granted only after an offer, never revived.

**ControlPlane** is `control_plane_router`. Each public method holds the mutex, so each is
an action; inbound datagrams are arbitrary members of `Datagram`, which covers
replay, loss and reordering. Time is the age of the last accepted datagram. Load figures,
used only by candidate selection, are left out. `LeaseContractHolds` is the refinement:
`LeaseContract` instantiated with `phase` read off the lifecycle and the token.

**LeaseHandshake** puts `lease_client` and the issuer's `serve_loop` around an instance of
ControlPlane, with UDP between them as two sets of datagrams. A client call spans several
steps (`pc`), the mutex it holds keeps calls apart. Loss, repetition and windows that close
too early each have a budget (`MaxLost`, `MaxRepeated`, `MaxLate`), and together they have
`MaxFaults`, of which a late window takes two; reordering is free.

**Session** is `session_manager`. A call that fails leaves the state alone and is no action.
Keys and MACs are a verdict. `Feed`, `Finish`, `Advance` and `EndAll` are the effects on
streams, shared with Registration.

**Registration** EXTENDS Session with `runtime_registration_session`. `Synced` is
`synchronize_binding`; each worker frame is one action that includes verification, dispatch
and, on the error paths, the teardown. The owner's own calls on the session interleave.
`told` and `admittedAt` are history variables used by properties only.

**SendScheduler** keeps peek, transmission and commit apart, as the code does. A `program`
says which streams may be dropped, who consumes, and whether consumers and drops take turns
(`exclusive`) or come in every gap. Frames carry a number modulo `NumModulus`, history for
the properties, which keeps the state space finite over runs of any length.

**Trunk** is the mock runtime serving one connection: acceptor, reader thread, a worker per
stream and `stop()`, with the session_manager as an instance of Session and the two locks
(session, connection) as separate steps: an event is recorded, then sent. A lease may drop
in any gap.

**SecureTrunk** is SL1 on such a connection. Three places number frames: each end's
connection numbers what it sends, the session what it verifies; a bind restarts all three in
separate critical sections, which are separate actions here (`BindSetsAuth`, `BindSends`,
`ReceiveBind`, `ServerSetsAuth`, `ServerConfirms`), with other threads' requests and the
workers' events in between. `bind()` copies the lease before it takes the mutex
(`ReadBinds`): a renewal in between leaves it with the lease that was replaced. A MAC is the
bind it was made under.

**SignedWire** is one frame on its way: it is encoded, signed or not, delivered whole, cut,
padded, followed by more bytes, or with one byte or header word altered, and verified under
the binding and direction of some receiver. A MAC is the tuple of what goes into it. The
codec is a parameter (`CanEncode`, `Encode`, `Decode`), so that this part can be proved about.
**Envelopes** is the codec, `Encodable`, `Framed` and `Decoded`. A layout is a sequence of field
kinds, shared by encoder and decoder as far as the code shares them; a byte is a digit to the
base `Radix`. `Fits` says when an envelope is within the widths of its fields, `AsRead` what a
reader makes of it.

**TaskLink** is the V0.1 task transport: senders, accept loop, one handler thread per
connection, `stop()`. A connection may break between any two sends, and a worker of
`SilentCalls` may keep its connection open and never answer. A stream callback may go on
writing behind its own final chunk. The listening socket is closed by `stop()` and again by
the accept loop; in between its number may go to a connection, which the second close then
ends. Other users of that number, in the same process, are left out.

**BoundedFifo** is the promise of the queue, **TaskQueue** the queue cell by cell, with
claim and publication as two steps and positions modulo `Modulus`; `QueueIsFifo` is the
refinement. **Dispatch** is the scheduler over such a FIFO: submitters, `run_loop`, one
detached thread per selected slot, completion, retry and stop. Scores are abstracted to the
choices they could make.

**SecureHandshake** is the SL2 handshake with negotiation and the hosts' registries. Any
frame ever sent may reach any object at any time, as it is or garbled, and owners call
methods in any order; cryptography is symbolic.

**PlaneGuard** is one direction of an established session: what the sender signs and the
receiver verifies on the three planes, with the replay window as the two words of bits it
is. **GroupSecurity** is one group with its members, epochs and messages. Replay protection is
the sliding window of the code, of width `GroupWindow` (128 there); a message's mode decides
whether its body is decrypted and is no part of what the tag covers; `unprotect` does not
look at who receives, so there is no receiver. **Authorization**
has the policy maps as state and the verdicts as operators. **Governance** splits each call
into its critical sections, so two threads interleave between a change, its audit record and
the delivery to a sink.

Proofs are in modules of their own: **PlanesProofs** (ControlPlane, SendScheduler),
**LeaseHandshakeProofs**, **SessionProofs**, **RegistrationProofs**, **DispatchProofs**
(Dispatch, TaskQueue), **LinkProofs** (TaskLink, Trunk, SignedWire), **ChannelProofs** (PlaneGuard,
SecureHandshake, SecureTrunk) and **AdmissionProofs** (Governance, GroupSecurity, Authorization).

The `MC*` modules give constants their values. To check many components in few runs, four
of them put components *side by side*: a behaviour picks a `part` in its initial state and
the other parts stay in their initial states. Nothing is composed by that; compositions are
Registration over Session, Trunk and SecureTrunk over Session, LeaseHandshake over
ControlPlane.

| MC module | Parts |
| --- | --- |
| MCPlanes (MCControlPlane, MCSendScheduler) | control, trunk |
| MCDispatch | dispatch, queue |
| MCLinks (MCEnvelopes) | task, trunk, wire |
| MCSecureChannel (MCSession, MCSecureTrunk, MCSecureHandshake) | streams, sl1, handshake, datagrams, events, calls |
| MCAdmission (MCRegistration) | registration, group, policies, governance |

## 3. The runs

| Run | Instance | Shows |
| --- | --- | --- |
| planes | router: 1 node, epochs 0-1, seqs 0-3, 2 capabilities, 3 reports, sweep thresholds 1 and 2, 2 leases. Send queues: 2 or 3 streams, 2 frames and 3 bytes each, 5 bytes in all | TypeOK, LeasesAreGranted, AdvancesOnlyByFreshTraffic, LeaseContractHolds (refinement); FramesArriveInOrder, QueuesAreConsistent, NoStarvation (two streams) |
| handshake | 1 client, 2 attempts, 2 epochs, at most one datagram lost, one repeated and one late window, together 2 faults, where a late window counts as two | LeaseAgreement, CallsReturn, AcquireSucceeds |
| dispatch | 2 tasks (one is retried), pending capacity 1, 2 slots, the worker of one of them may be silent, fanout 3, 1 external event, 1 start; queue: 2 producers, 2 cells, positions modulo 12 | VerdictsAreSound, QuietAfterStop, SubmissionsAnswered; QueueIsFifo (refinement) |
| links | 2 task calls, the worker of the second may be silent, or 1 stream of up to 3 chunks; trunk: 2 streams, 1 in flight, buffer 2, 3 inbound frames, 3 behaviours of the runtime; wire: 129 envelopes, every cut, padding, and altered digit | ResultIsTheWorkers, RefusedOnlyWhenOverlapped, CallsAndStopReturn; AnswersAreSound, TrunkEnds; FramesSayWhatWasSent, AcceptedIsCanonical, SignedIsUntouched |
| channel | 3 streams of 2 executions, 2 in flight, buffer 2; SL1: two leases with and without SL1, 3 requests, 2 events, last number 4; handshake: 2 initiators, 2 responders, 3 nodes, of which the responders' rotates keys; window words of 2 bits, numbers to 8, 2 events of 2 fragments, 2 epochs | TypeOK, StreamTableSound, StreamsOnlyAdvance; TrunkAgrees; SessionsAreSound, SessionsOnlyEnd; NoReplay, GenuineIsAccepted, DeliveredAsSigned |
| admission | registration: 2 streams, 3 binds, 3 generations, 2 models, slots 1 and 2; group: 2 endpoints, 3 epochs, 2 messages of both modes with numbers 1 to 3, window 2; 2 subject and 3 role policies; 2 threads, 2 domains, 2 records | RegTypeOK, AdmissionFollowsWorker, AdvertisedIsPermitted, StreamsHaveWorker, Sl1FollowsBinding, BindingChangesAreVisible; MembersAreHeard; NoRoleLoosens; AuditTrail |
| handshake_silence | two losses | **violation** of SilenceMeansActive |
| send_loss | drops inside a flush | **violation** of ZeroSilentLoss |
| send_starve | 3 streams, fair flusher, no drops | **violation** of NoStarvation |
| task_silence | one task, a silent worker | **violation** of SendTaskReturns |
| sl1_rebind | one lease, bound twice | **violation** of HonestFramesAreServed |
| sl2_reconnect | one node connects twice to another | **violation** of ReconnectEstablishes |

Several properties are conjunctions with named parts, stated where they are defined:
LeasesAreGranted (LeaseBoundToIncarnation, BindingIsGranted), StreamTableSound
(BufferBounded, InflightBounded, OutcomeIffTerminal), StreamsOnlyAdvance (TerminalIsFinal,
StreamsMoveForward, AckMonotonic), StreamsHaveWorker (ClosedIsDead, NoOrphanedStreams),
FramesArriveInOrder (ZeroSilentLoss, HandIsNext), QueuesAreConsistent, VerdictsAreSound,
TrunkAgrees (BothEndsAgree, HonestFramesAreServed), SessionsAreSound (Agreement,
NoDowngrade), MembersAreHeard. Where a type invariant is not listed by itself it is such a
part.

*Why the bounds are enough.* The router compares epochs and sequence numbers only with the
stored ones, so a smaller, an equal and a larger value of each are present. Two attempts
exercise first try, retry and exhaustion of the client's loops; a second incarnation gives
old datagrams someone to confuse. In the handshake a lost and a repeated datagram are what the
client's retries are for; a late window makes a whole exchange void, so it takes the budget
of two. With a budget of three the model has 926 000 states, LeaseAgreement holds in them,
and the theorem covers every budget. Streams interact only through the in-flight count and
through executions: three streams, two of one execution, reach the limit, exceed it and free
a slot. Byte counts of 0 to 3 around a limit of 2 cover below, at and above it. In
Registration two leases with different permissions, a foreign identity and three generations
give bind, staleness, and rebinding with equal or different contents. Send queues of two
frames and byte limits below two large frames make each limit bind; `send_starve` needs
exactly three streams, and with two the property holds. In Dispatch one task that retries and
one that does not, more slots than one and a full pending queue reach every path of
completion; the queue's two cells and modulus 12 wrap several times. A trunk with one stream in
flight refuses the second. SL1 numbering needs two binds to restart, and a last number of 4
is reached. In the SL2 handshake only one node rotates (`Rotating`), since registries do not
touch each other after `establish`. A group window of two puts number 1 outside it as soon
as 3 was opened. The two-bit words are shifted by less than, exactly and
more than their width. The codec's base 16 makes a two-digit length prefix wrap at 256, and
texts of 255 and 256 digits are among the inputs; one harm per frame suffices because a
decoder keeps no state between frames.

`CHECK_DEADLOCK FALSE` appears where the system may stop: a client with no call under way
and bounded counters, a closed connection, a scheduler that was stopped. `planes` checks
deadlock.

*Symmetry* is used only in runs without liveness properties, over streams the specification
treats alike.

*Fairness.* LeaseHandshake: a client's timeout, its receiving and the issuer's serving are
weakly fair, because the client's wait loop runs on a clock and the issuer's thread polls for
as long as it runs; no call and no fault is ever fair. Faults have budgets: without a
bound on losses no protocol over UDP makes progress. SendScheduler: only the steps of a
flusher that keeps running are fair; producers and drops are not. Dispatch: its threads run,
and workers answer unless they are in `Silent`. The sockets of the scheduler have no timeout
(scheduler.cpp:375), so a silent worker keeps its thread; in the run one of the two workers is
silent, and SubmissionsAnswered says that a task is answered while the scheduler runs unless
a silent worker holds a slot of it (`HeldBySilence`). TaskLink: the accept loop, its handlers
and senders run, one that calls stop() goes on, callbacks of calls outside `SilentCalls`
return, and a broken connection is noticed by both sides; a peer that is gone without a sign is
a silent worker. CallsAndStopReturn excuses the calls that wait for such a worker, and
task_silence shows what they come to. Trunk: acceptor, reader
and workers run, and the client leaves in the end: without that, a reader blocked in a
receive keeps `stop()` waiting (section 4).

## 4. What the runs found

* **handshake_silence** (lease.cpp:158). The client takes silence after its probe for an
  active lease. LEASE_ACK and probe are two datagrams: if both are lost, `acquire` succeeds
  while the issuer is still INVITED and refuses the binding. lease.hpp:25-27 says "silence
  means the lease is active".
* **send_loss** (transport.cpp:473). The commit pops the frame at the cursor as it stands at
  commit time. A `drop_stream` between transmission and commit moves another frame there,
  which is then removed unsent; RUNTIME_CONTRACT.md:76 promises "Zero Silent Loss".
* **send_starve** (transport.cpp:488). A stream that empties leaves the rotation at the cursor,
  a refilled one joins at the end. Two streams that empty and refill in turn keep the
  cursor from wrapping, so a stream before it is not served; transport.hpp:103 says
  "Fair Round-Robin".
* **task_silence** (tcp.cpp:184). tcp.hpp:20-24: "Send a TASK frame and block until a RESULT
  arrives or timeout", with "RESULT_TIMEOUT if no answer arrived within timeout_ms".
  `timeout_ms` goes to `tcp_connect`, which ignores it (socket_posix.cpp:67,
  socket_win.cpp:81), and no receive has a timeout: while a worker keeps the connection and
  does not answer, the call does not return. The scheduler receives in the same way
  (scheduler.cpp:375), so such a worker leaves its task unanswered, although
  PROTOCOL_V0_1_0.md:63 says that the scheduler handles task timeouts.
* **sl1_rebind** (session.cpp:426). A SESSION_BIND with SL1 that repeats the present lease is
  accepted before the session's numbers are reset, while both connections have restarted
  theirs: the client's next frame has number 2, the session expects a later one, refuses it as
  a replay and the connection closes. reference/v0_2/README.md:91 calls the repetition an
  "idempotent no-op", and :202 says that frames start at 2. (Sent with the running
  number, the bind itself is refused: it must have number 1.)
* **sl2_reconnect** (sl2_handshake.cpp:604). The session id is a function of the two node ids
  and an id in the registry, even of an ended session, is refused: a second connection
  completes the handshake and is aborted. SECURITY_CONTRACT.md:118 says that a reconnect
  requires "a new session ID".

Seen while modelling, without a run of their own:

* *Leases and sessions.* `acquire` can report failure although the issuer became ACTIVE (each
  probe overtakes its ACK); a second `acquire` in an epoch that is already ACTIVE gets no
  INVITE, and only `renew` helps; the execution-wide cancel and window update of
  `process_control` cannot be reached, since `control_envelope::is_valid` requires a request
  id; no C++ code in the repository calls `sweep_stale_nodes`; `acknowledge_stream_drain` adds
  in 64 bits without an overflow check; worker frames that arrive while a binding is stale are
  refused without closing, so a terminal event among them is lost and its stream keeps a slot.
* *Trunk.* A terminal event refused with 507 leaves its stream in flight until the connection
  ends; the FAILED event of a repeated REQUEST carries the identity of the stream that is
  running; `stop()` waits for readers, and on POSIX `socket_close` is a plain `close`, which
  does not wake a receive in another thread.
* *SL1.* `bind()` reads the lease before it locks (lease.cpp:222, :226), so a renewal in
  between makes it bind the lease that was replaced. `bind()` takes the first frame that
  arrives for the confirmation: on a trunk with live streams an event before it makes the
  in-band rebind (README.md:132) return false although the runtime has bound; an event between
  the runtime's `set_sl1_auth` and `send_session_bind` takes number 1 from the confirmation.
  README.md:204 and :220 disagree on what follows exhaustion; the session takes the last
  number again instead of refusing it.
* *Codec.* Lengths of texts and lists are cut to 16 bits although all elements are written: a
  `model_id` of 65536 bytes encodes as an empty one and the receiver refuses it; a trailing
  `00 00` after capabilities is read as an empty list although envelopes.cpp:947 rejects
  trailing garbage; an older peer's capabilities with a nameless model and one zero byte more
  also read in the new layout (`Ambiguous`); `encode_capabilities` writes decision models and
  `encode_event` embeddings that the decoders refuse.
* *V0.1.* `reap_finished_handlers` (tcp.cpp:719-729) never reaps; tcp.hpp documents
  RESULT_TIMEOUT where tcp.cpp:191 returns RESULT_MODEL_ERROR; `dispatch_transport` leaves out
  the task-type byte (scheduler.cpp:345-371); tasks pending at `stop()` are never answered;
  `stop()` and the accept loop close the same listening socket (tcp.cpp:448-451, :548), and the
  second close may hit whatever got its number meanwhile; the receiver compares the sequence
  number of a task before its tag is verified and stores it after (tcp.cpp:615, :625), so of two
  overlapping tasks a lower number may be stored over a higher one.
* *Security layers.* `verify_event` advances its tracker before the tag is compared
  (plane_authenticator.cpp:324), and the tracker accepts gaps, unlike
  SL2_WIRE_CONTRACT.md:149; `rotate` changes epoch and key id but derives no key material;
  `unprotect` looks at the first member entry of an endpoint, so one that left and joined again
  is not heard; a group message that is 128 or more behind the highest of its sender and epoch
  is refused although it was never seen (replay_window.cpp:18-20); a group message's `mode`
  decides whether it is decrypted (group_security.cpp:697-709) and is not covered by the tag
  (:58-87), so a message whose mode was altered is accepted and read as noise, or as
  ciphertext; `authorize` copies a subject's constraints without the test for `> 0` it applies
  to a role's, so a negative temperature limit of a subject would end every comparison with the
  limits of its roles (Authorization assumes that there is none); audit sinks are called
  outside the lock, so records may reach a sink in another order than the chain that
  MIGRATION_V0_1_TO_V0_2.md:104 tells readers to verify.

## 5. What is proved

The theorems hold for any sets of nodes, streams, tasks, models and bindings, any limits and
any authorizer. What they assume of constants is in the named ASSUMEs, which TLC evaluates
in every run: bounds are naturals; `Streams` and `Slots` are finite; the modulus of a number
is above the bound that keeps it from wrapping (`SchedulerConstants`, `LimitsAreNatural`); a
replay word has a bit (`GuardAssumption`); an object of the handshake has one role, and a valid
offer names one of the nodes (`HandshakeAssumption`); a client of SecureTrunk has a lease to
start with, and ids of leases differ from the one of no bind (`TrunkAssumption`); a group has an
epoch, a window and numbers above zero (`GroupAssumption`, `WindowAssumption`,
`SendsAssumption`); an encoder makes unsigned frames whose length is that of their
payload (`WireAssumption`); a subject's limits are not negative (`PolicyAssumption`, see
section 4). Where a theorem needs more, it says so: `NoWrap` (no reported drain reaches 2^64),
`TakeTurns` (the program keeps its consumers and its drops apart) and `~Repeats` (the client
binds no lease twice).

Each invariant of a run is the consequence of an inductive one that says what code and
history know of each other; its parts were checked by TLC before they were proved.

* **PlanesProofs, the router**: `TypeCorrect`, `LeaseBound`, `BindingGranted` and both as
  `LeasesGranted`, `FreshTraffic`, and `RouterKeepsContract`: every step of the router maps to a
  step of LeaseContract or a stutter. The argument is one lemma, `StepShape`: either time
  passes, or the step touches one node, in one of a few ways (it greets, its lease is accepted,
  it keeps reporting, it is touched, it is offered a lease). Each theorem follows from that list
  rather than from the actions. LeaseBoundToIncarnation is inductive together with TypeOK
  (`LeaseStep`): it says that a node in a state with a lease (invited, active, degraded or
  cooling) holds a token granted to that identity in its present epoch. COOLING is among those
  states, so a node revived from it keeps the grant it had.
* **PlanesProofs, the send queues**: `QueuesConsistent` for every program, with drops in any
  gap: the rotation holds each stream with frames once and the cursor points into it
  (`Rotation`), and the counters are the bytes queued (`Counters`). The second part sums over
  sets of streams and over queues; the library's folds are CHOSEn functions, so that they exist
  and can be taken apart in any order are lemmas here (`SumExists`, `SumFacts`), by induction
  over a set of numbers. `NoFrameIsLost` assumes `TakeTurns`, which is what send_loss refutes
  without: while a hand is in a gap it holds the frame at the cursor (`Turns`), and what is not
  yet sent is an unbroken series of numbers (`InOrder`).
* **LeaseHandshakeProofs**: `LeaseAgrees`. `HandshakeInv` relates three parties that are never
  read together: nothing under way to the issuer is of a later epoch than its client's
  (`Behind`), nor is the router's record (`RouterOK`), and every INVITE of the router's epoch and
  every client that holds a token has the router's (`OneToken`).
* **SessionProofs**: `TypeCorrect`, `BuffersBounded`, `OutcomesMatch`, `InflightStaysBounded`,
  together `TableIsSound`; `TerminalStaysFinal`, `AcksAdvance`, `StreamsAdvance`, together
  `StreamsNeverGoBack`, assuming `NoWrap`; `Sl1MatchesBinding` and `BindingsVisible` without it.
  The argument is one lemma, `StreamStep`: what a step may do to one stream, from which
  invariants and action properties follow stream by stream.
* **RegistrationProofs**: `RegistrationTyped`, `AdmissionFollows`, `AdvertisedPermitted`,
  `ClosedDead` and `NoOrphans`, together `StreamsKeepWorker`. The strengthening: the
  registration's generation never exceeds the session's; a registration that counts agrees with
  the history of what the worker said (`Faithful`); and nobody drains who is not registered
  (`Rested`). `FrameKinds` and `OtherKinds` sort all actions into seven kinds of steps,
  `Preserved` treats each kind once.
* **DispatchProofs, Dispatch**: `VerdictsSound` and `StopIsFinal`. In `DispatchInv` a task
  waits in the queue or in the loop's snapshot, or is with its threads, or is answered, and in
  one of these only (`TaskOK`); a job's count of remaining slots is the number of its threads
  that have not reported yet (`ThreadsOK`), so the last of them, and it alone, completes. The
  counts are sizes of sets of threads, which is where finiteness of `Slots` is used.
* **DispatchProofs, TaskQueue**: `QueueImplementsFifo`, the refinement of BoundedFifo, for any
  producers, any capacity from two on and any modulus of at least four whole laps, wrap
  included, as long as no producer sleeps through half of all positions
  (`NobodySleepsLong`). The invariant `Stands` speaks of
  places on an unbounded line: `head` and `tail` are the numbers of pushes and pops modulo
  `Modulus`, each push has a place at most half a turn behind, and the cells are the window of
  `Capacity` places from the tail, published exactly where nobody is still storing. The lemmas
  on remainders carry it over: inside the window position and cell are unique (`SameAt`,
  `SameCell`), and the signed 32-bit difference is the true one (`DiffAt`).
* **LinkProofs, TaskLink**: `AloneIsNotRefused`, `ReportedIsWritten`. What a handler has written,
  what is under way and what the caller has taken are one sequence cut in two places
  (`Written`, `Carries`), whatever breaks, and as long as nobody closed the connection under
  another name (`Intact`); a status OK stands for all up to the first final chunk, whatever the
  callback writes behind it (`EndsInTime`); a call that is alone has the highest number of all
  (`Numbers`), so the receiver's replay check lets it pass.
* **LinkProofs, Trunk**: `TrunkAnswersAreSound`. Worker, row of the session table and events on the
  wire agree at each point between the two locks (`RowOK`, `HeardOK`): a terminal row has a
  worker that is about to send its last event or has done so, and as long as nobody has closed
  the connection the client has heard exactly what the worker has sent.
* **LinkProofs, SignedWire**: `SignedStaysUntouched`, for any codec, envelopes and receivers, with
  a MAC that no two inputs share. `WireInv` says that the MAC of a signed frame is the signer's, of
  a frame that was whole, and that it is this frame's exactly as long as nothing has happened to
  it (`SignedOnce`): each harm leaves the MAC and changes one of the words it covers
  (`HarmedStep`). So the tuples a receiver compares differ, or the frame and the end are the
  signer's (`VerifiedIsSigned`).
* **ChannelProofs, PlaneGuard**: `ReplayRefused`, `GenuinePasses`, `DeliveryIsSigned`, for any
  width of a word: two words of bits represent the accepted numbers inside the window
  (`Represents`), also after shifts by one, by part of a word, by a word and by more
  (`AdvancedIsSet`).
* **ChannelProofs, SecureHandshake**: `HandshakeRuns`, `SessionsSound`, `SessionsEnd`. `HsInv` ties
  each object, each frame ever sent and each session record to a *run*, one initiator and one
  responder that negotiated with each other's true offers (`Agreed`): frames of other runs,
  repeated or garbled, fit none; and the responder's node keeps the record of the run of every
  record there is (`Kept`), since it establishes first. `StepKinds` sorts the actions into kinds
  of steps, as in RegistrationProofs.
* **ChannelProofs, SecureTrunk**: `TrunkAlwaysAgrees`, assuming `~Repeats`, which is what
  sl1_rebind refutes without. `TrunkInv` follows the frames under way across a bind. Its parts:
  a SESSION_BIND on its way is the only one of its lease, and until it is processed the runtime
  holds nothing under it (`BindsOnce`, `Fresh`); while the reader is between its locks the
  session is one bind ahead of the runtime's connection (`BindingSound`); frames to the runtime
  follow each other, and the last is followed by what the client sends next (`InOrder`, lost by
  an overlap); and while `bind()` waits, its frame is on its way with requests behind it
  (`PendingIn`), or is served (`ServedIn`), or never will be, and what comes down restarts at
  one under it (`RestartsIn`). When the confirmation arrives this becomes two unbroken chains
  (`ServedIn`, `GoesOnIn`), which is TrunkAgrees. `UpMoves`, `DownMoves` and `SessionMoves` say
  once what any step does to either queue and to the session; the lemmas about chains of frames
  know nothing of the actions.
* **AdmissionProofs**: `TrailIsWhole`: whenever no record is on its way, a sink holds every record
  made after it was added exactly once, whatever the order of arrival, each with the one it
  refers to. Between its decision and its sinks a call holds the record of its own decision, and
  each record that is due is in the sink, once, or held by one thread (`Held`, `Sunk`). Nothing is
  said of the order at the sink, nor of a decision whose record is still to be made.
  `GroupIsHeard`: what `unprotect` accepts was protected by a member of the present epoch and is
  as it was but for its mode, each number once; and what a member that never left protects opens
  until its number, or one a `GroupWindow` or more ahead of it, was opened. Members, leaf secrets
  and messages of an epoch agree (`Secrets`, `PostedOK`), so a tag that compares equal was made by
  a member under the present leaf. Who calls `unprotect` is not modelled, so nothing is said of
  who cannot.
  `NoRoleLifts`: policies stay under their own keys (`PoliciesFiled`), and by induction over
  the listed roles the combination so far is within each policy combined (`Within`); the order
  does not matter because a limit, once there, only gets smaller.

Only model-checked:

* Everything under fairness (NoStarvation, CallsReturn, AcquireSucceeds, SubmissionsAnswered,
  CallsAndStopReturn, TrunkEnds): liveness and ENABLED are beyond the prover.
* FramesSayWhatWasSent and AcceptedIsCanonical of Envelopes: its layouts are RECURSIVE operators
  over data, and what they compute for every input takes an induction the provers cannot
  instantiate.

## 6. Next steps

Models: a restart of the lease issuer; multi-output requests in Trunk; candidate selection
in ControlPlane; the UDP heartbeat with the slot registry; the Python mirror where it
differs from C++.

## 7. Not modelled

* UDP heartbeat sender and receiver (heartbeat.cpp): a datagram's effect on a slot is
  the `fit` of Dispatch.
* The control datagram's 80-byte layout (control_plane.cpp:61-170), framing, CRC, SHA-256 and
  SL cryptographic providers: byte arithmetic and primitives that test vectors suit better.
* The mock runtime's multi-output and embedding requests, capabilities reply and some of its
  fault switches; partial socket sends and receive timeouts; `connect_bound`.
* Floating-point scores and the consensus over results.
* `validate_transport_session_binding` and the getters of the security layers; a second group.
* The C ABI (handles around the scheduler and transports), the conformance driver and golden
  frame tool (tests of the other parts), the Python mirror, the frozen V0.1 security layers
  and the Hailo deployment.
