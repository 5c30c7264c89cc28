---------------------------- MODULE SecureTrunk ----------------------------
(***************************************************************************)
(* SL1 on a trunk: SESSION_BIND with mutual confirmation and numbered,     *)
(* signed frames after it.  The client binds with lease_client::bind       *)
(* (LiNeP/src/v0_2/lease.cpp) while other threads of its program send on   *)
(* the same envelope_connection (transport.cpp); the runtime answers as    *)
(* client_loop does (mock_runtime.cpp), while its workers send events.     *)
(*                                                                         *)
(* Three places number frames: each end's connection numbers what it       *)
(* sends, the session (module Session) what it verifies.  A bind restarts  *)
(* all three, in separate critical sections.                               *)
(*                                                                         *)
(* Abstractions.  A MAC is the bind it is made under: nobody else signs.   *)
(* One key.  A request starts no stream here (module Trunk does that), it  *)
(* lets workers send events from then on.  Binds are valid, TCP keeps the  *)
(* order of frames, and the client does not close.                         *)
(***************************************************************************)
EXTENDS Integers, Sequences

CONSTANTS
  LeaseRows,  \* sequences of leases the client gets, one after the other
  Repeats,    \* the client may bind again with a lease it has bound with
  LastSeq,    \* 2^32 - 1: the last auth_seq
  MaxSends,   \* bound: requests the client sends
  MaxAnswers  \* bound: events the workers send

VARIABLES
  leases,  \* the leases of this behaviour: [id, epoch, token, sl1]
  held,    \* the index of the one client and router have at present
  caller,  \* bind(): [pc, told]; told is what the last call returned
  near,    \* the client's connection: [active, bind, next, confirmed]
  far,     \* the runtime's connection, the same
  up,      \* frames on their way to the runtime
  down,    \* frames on their way to the client
  reader,  \* the reader thread's place in client_loop
  closed,  \* why the connection is closed, "no" while it is open
  sBinding, sBound, sGeneration, sAuth, \* the session's binding and SL1 state
  tally,   \* requests sent, requests served, events sent
  tried,   \* history: binds the client has sent
  overlapped, \* history: a request was sent while bind() set the connection up
  hears    \* history: the number of the next frame the client has to hear

secureVars ==
  <<leases, held, caller, near, far, up, down, reader, closed,
    sBinding, sBound, sGeneration, sAuth, tally, tried, overlapped, hears>>
sessionVars == <<sBinding, sBound, sGeneration, sAuth>>
historyVars == <<tried, overlapped, hears>>

Table == INSTANCE Session WITH
  Streams <- {}, ExecutionOf <- LAMBDA s : 1, MaxInflight <- 0, MaxBuffered <- 0,
  RequireLease <- TRUE, RequireSl1 <- FALSE, Seqs <- {}, Sizes <- {}, Drains <- {},
  Offsets <- {}, OffsetModulus <- 1, MaxProduced <- 0, MaxGeneration <- 9,
  Binds <- {}, MaxAuthSeq <- LastSeq,
  life <- <<>>, outcome <- <<>>, lastSeq <- <<>>, produced <- <<>>, acked <- <<>>,
  binding <- sBinding, bound <- sBound, generation <- sGeneration, auth <- sAuth

NoBind == [id |-> "none", epoch |-> 0, token |-> 0, sl1 |-> FALSE]

\* The client has a lease to start with; NoBind is none.
ASSUME TrunkAssumption ==
  /\ LastSeq \in Nat /\ LastSeq > 1 /\ Repeats \in BOOLEAN
  /\ \A row \in LeaseRows :
       /\ Len(row) \in Nat \ {0} /\ DOMAIN row = 1..Len(row)
       /\ \A i \in DOMAIN row : row[i].id # NoBind.id /\ row[i].sl1 \in BOOLEAN

Unsecured == [active |-> FALSE, bind |-> NoBind, next |-> 1, confirmed |-> FALSE]

SecureInit ==
  /\ leases \in LeaseRows /\ held = 1
  /\ caller = [pc |-> "idle", told |-> "nothing"]
  /\ near = Unsecured /\ far = Unsecured
  /\ up = <<>> /\ down = <<>>
  /\ reader = "loop" /\ closed = "no"
  /\ sBinding = "unbound" /\ sBound = {} /\ sGeneration = 0
  /\ sAuth = [active |-> FALSE, out |-> 1, in |-> 1]
  /\ tally = [sent |-> 0, served |-> 0, answers |-> 0]
  /\ tried = {} /\ overlapped = FALSE /\ hears = 2

Lease == leases[held]
Open == closed = "no"

-----------------------------------------------------------------------------
(* envelope_connection *)

\* send_*: signed with the next number under the connection's bind once SL1 is active;
\* 0 is the number of a frame without the extension.
Frame(kind, bind, end) ==
  [kind |-> kind, bind |-> bind, under |-> IF end.active THEN end.bind ELSE NoBind,
   seq |-> IF end.active THEN end.next ELSE 0]

CanSign(end) == end.active => end.next < LastSeq

Numbered(end) == IF end.active THEN [end EXCEPT !.next = @ + 1] ELSE end

\* Mutant of WithAuth: the numbering goes on.
MutantWithAuth(end, b) == [end EXCEPT !.active = TRUE, !.bind = b]

\* set_sl1_auth
WithAuth(end, b) == [end EXCEPT !.active = TRUE, !.bind = b, !.next = 1]

\* receive_envelope_raw: once confirmed, a frame without the extension ends the
\* connection; a signed SESSION_BIND confirms.
Refuses(end, f) == end.confirmed /\ f.seq = 0

Heard(end, f) == [end EXCEPT !.confirmed = @ \/ (f.kind = "bind" /\ f.seq # 0)]

-----------------------------------------------------------------------------
(* The client *)

\* acquire and renew exclude bind by the client's mutex; the router has the new lease at
\* once (module LeaseHandshake has the way there).
Renew ==
  /\ caller.pc = "idle" /\ held < Len(leases) /\ held' = held + 1
  /\ UNCHANGED <<leases, caller, near, far, up, down, reader, closed, sessionVars,
                 tally, historyVars>>

Calls(pc, told) == caller' = [pc |-> pc, told |-> told]

\* bind() reads the lease before it takes the client's mutex, where renewals may keep it
\* waiting, and the SL1 settings under the mutex.
ReadBinds ==
  {[id |-> leases[i].id, epoch |-> leases[i].epoch, token |-> leases[i].token,
    sl1 |-> Lease.sl1] : i \in 1..held}

MayBind(b) == caller.pc = "idle" /\ Open /\ (Repeats \/ b \notin tried)

BindWithoutSl1 == \E b \in ReadBinds :
  /\ MayBind(b) /\ ~b.sl1
  /\ up' = Append(up, [kind |-> "bind", bind |-> b, under |-> NoBind, seq |-> 0])
  /\ tried' = tried \cup {b}
  /\ Calls("idle", "sent")
  /\ UNCHANGED <<leases, held, near, far, down, reader, closed, sessionVars, tally,
                 overlapped, hears>>

BindSetsAuth == \E b \in ReadBinds :
  /\ MayBind(b) /\ b.sl1
  /\ near' = WithAuth(near, b)
  /\ tried' = tried \cup {b}
  /\ Calls("keyed", "nothing")
  /\ UNCHANGED <<leases, held, far, up, down, reader, closed, sessionVars, tally,
                 overlapped, hears>>

BindSends ==
  /\ caller.pc = "keyed"
  /\ IF Open /\ CanSign(near)
       THEN /\ up' = Append(up, Frame("bind", near.bind, near))
            /\ near' = Numbered(near) /\ Calls("awaiting", "nothing")
       ELSE Calls("idle", "refused") /\ UNCHANGED <<up, near>>
  /\ UNCHANGED <<leases, held, far, down, reader, closed, sessionVars, tally, historyVars>>

Confirms(f) ==
  f.kind = "bind" /\ f.bind.sl1 /\ f.under = near.bind /\ f.seq = 1

\* bind() takes the first frame that arrives for the confirmation.
BindReturns ==
  /\ caller.pc = "awaiting"
  /\ IF down = <<>>
       THEN ~Open /\ Calls("idle", "refused") /\ UNCHANGED <<near, down, closed>>
       ELSE LET f == Head(down) IN
            /\ down' = Tail(down)
            /\ near' = Heard(near, f)
            /\ Calls("idle", IF Confirms(f) /\ ~Refuses(near, f) THEN "bound" ELSE "refused")
            /\ closed' = IF Open /\ Refuses(near, f) THEN "unsigned" ELSE closed
  /\ hears' = 2
  /\ UNCHANGED <<leases, held, far, up, reader, sessionVars, tally, tried, overlapped>>

\* Another thread of the client reads the trunk while bind() does not.
ClientHears ==
  /\ caller.pc # "awaiting" /\ down # <<>>
  /\ down' = Tail(down)
  /\ near' = Heard(near, Head(down))
  /\ closed' = IF Open /\ Refuses(near, Head(down)) THEN "unsigned" ELSE closed
  /\ hears' = hears + 1
  /\ UNCHANGED <<leases, held, caller, far, up, reader, sessionVars, tally, tried, overlapped>>

\* ... and sends requests at any time.
ClientSendsRequest ==
  /\ Open /\ tally.sent < MaxSends /\ CanSign(near)
  /\ up' = Append(up, Frame("request", NoBind, near))
  /\ near' = Numbered(near)
  /\ tally' = [tally EXCEPT !.sent = @ + 1]
  /\ overlapped' = (overlapped \/ caller.pc = "keyed")
  /\ UNCHANGED <<leases, held, caller, far, down, reader, closed, sessionVars, tried, hears>>

-----------------------------------------------------------------------------
(* The runtime *)

\* The last event says why, then the connection closes.
Close(why) ==
  /\ closed' = why
  /\ down' = IF CanSign(far) THEN Append(down, Frame("failed", NoBind, far)) ELSE down
  /\ far' = IF CanSign(far) THEN Numbered(far) ELSE far
  /\ reader' = "ended"

Takes(kind) == reader = "loop" /\ Open /\ up # <<>> /\ Head(up).kind = kind

ReceiveUnsigned ==
  /\ reader = "loop" /\ Open /\ up # <<>> /\ Refuses(far, Head(up))
  /\ up' = Tail(up) /\ closed' = "unsigned" /\ reader' = "ended"
  /\ UNCHANGED <<leases, held, caller, near, far, down, sessionVars, tally, historyVars>>

\* The number and the MAC are verified before the bind is processed.
BindVerifies(f) == f.bind.sl1 => f.seq = 1 /\ f.under = f.bind

ReceiveBind ==
  /\ Takes("bind") /\ ~Refuses(far, Head(up)) /\ up' = Tail(up)
  /\ LET f == Head(up) IN
     IF BindVerifies(f) /\ f.bind = Lease /\ Table!AcceptsBind(f.bind)
       THEN /\ \/ Table!ProcessSessionBind(f.bind)
               \/ Table!IsCurrentBind(f.bind) /\ UNCHANGED sessionVars
            /\ far' = Heard(far, f)
            /\ reader' = IF f.bind.sl1 THEN "bound" ELSE "loop"
            /\ UNCHANGED <<down, closed>>
       ELSE /\ Close(IF BindVerifies(f) THEN "lease" ELSE "auth")
            /\ UNCHANGED sessionVars
  /\ UNCHANGED <<leases, held, caller, near, tally, historyVars>>

\* The reader is the only one to bind: it still holds the bind it has processed.
TheBind == CHOOSE b \in sBound : TRUE

ServerSetsAuth ==
  /\ reader = "bound" /\ reader' = "keyed"
  /\ far' = [WithAuth(far, TheBind) EXCEPT !.confirmed = TRUE]
  /\ UNCHANGED <<leases, held, caller, near, up, down, closed, sessionVars, tally, historyVars>>

ServerConfirms ==
  /\ reader = "keyed" /\ reader' = "loop"
  /\ down' = IF CanSign(far) THEN Append(down, Frame("bind", TheBind, far)) ELSE down
  /\ far' = IF CanSign(far) THEN Numbered(far) ELSE far
  /\ UNCHANGED <<leases, held, caller, near, up, closed, sessionVars, tally, historyVars>>

\* While SL1 is active the session verifies number and MAC of every frame; a request under
\* a lease the router has replaced finds the binding stale and is refused with an event.
Verifies(f) == sAuth.active => f.seq = sAuth.in /\ f.under \in sBound

CountsFrame ==
  IF sAuth.active THEN [sAuth EXCEPT !.in = IF @ < LastSeq THEN @ + 1 ELSE @] ELSE sAuth

ReceiveRequest ==
  /\ Takes("request") /\ ~Refuses(far, Head(up)) /\ up' = Tail(up)
  /\ IF ~Verifies(Head(up)) THEN Close("auth") /\ UNCHANGED <<sessionVars, tally>>
     ELSE IF sBinding = "unbound" THEN Close("unbound") /\ UNCHANGED <<sessionVars, tally>>
     ELSE LET fresh == sBinding = "bound_current" /\ sBound = {Lease} IN
          /\ sAuth' = CountsFrame
          /\ sBinding' = IF fresh THEN sBinding ELSE "bound_stale"
          /\ sGeneration' = IF sBinding = sBinding' THEN sGeneration ELSE sGeneration + 1
          /\ tally' = IF fresh THEN [tally EXCEPT !.served = @ + 1] ELSE tally
          /\ far' = IF fresh \/ ~CanSign(far) THEN far ELSE Numbered(far)
          /\ down' = IF fresh \/ ~CanSign(far) THEN down
                     ELSE Append(down, Frame("failed", NoBind, far))
          /\ UNCHANGED <<sBound, closed, reader>>
  /\ UNCHANGED <<leases, held, caller, near, historyVars>>

\* A worker of a request that was served, between any two steps of the reader.
WorkerSends ==
  /\ Open /\ tally.served > 0 /\ tally.answers < MaxAnswers /\ CanSign(far)
  /\ down' = Append(down, Frame("event", NoBind, far))
  /\ far' = Numbered(far)
  /\ tally' = [tally EXCEPT !.answers = @ + 1]
  /\ UNCHANGED <<leases, held, caller, near, up, reader, closed, sessionVars, historyVars>>

SecureNext ==
  \/ Renew \/ BindWithoutSl1 \/ BindSetsAuth \/ BindSends \/ BindReturns
  \/ ClientHears \/ ClientSendsRequest
  \/ ReceiveUnsigned \/ ReceiveBind \/ ServerSetsAuth \/ ServerConfirms
  \/ ReceiveRequest \/ WorkerSends

SecureSpec == SecureInit /\ [][SecureNext]_secureVars

-----------------------------------------------------------------------------
(* Properties *)

\* The runtime refuses no signed frame of this client for its number or its MAC, whatever
\* else goes on, unless a request of another thread got between the two steps of bind()
\* and took the bind's number (set_sl1_auth, send_session_bind, process_session_bind,
\* verify_inbound_frame).  In particular a repeated SESSION_BIND changes nothing.
HonestFramesAreServed == closed = "auth" => overlapped

\* When bind() has returned true both ends are at the same place: every frame on its way
\* to the client verifies under its bind with the number that follows, and so does every
\* frame on its way to the runtime (bind, send_session_bind, client_loop).
BothEndsAgree ==
  caller.told = "bound" =>
    /\ sBound = {near.bind} /\ sAuth.active
    /\ \A i \in DOMAIN down : down[i].under = near.bind /\ down[i].seq = hears + i - 1
    /\ \A i \in DOMAIN up :
         up[i].seq # 0 => up[i].under = near.bind /\ up[i].seq = sAuth.in + i - 1

\* The two ends of a trunk number alike after every bind, and no honest frame is refused
\* (bind, set_sl1_auth, send_session_bind, verify_inbound_frame).
TrunkAgrees == BothEndsAgree /\ HonestFramesAreServed
=============================================================================
