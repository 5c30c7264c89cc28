---------------------------- MODULE Registration ----------------------------
(***************************************************************************)
(* The router's side of a worker connection: runtime_registration_session  *)
(* (LiNeP/src/v0_2/registration.cpp) over the session_manager of module    *)
(* Session.  Worker frames are verified, decoded and dispatched by         *)
(* receive_worker_frame; send_router_frame admits what the router sends.   *)
(*                                                                         *)
(* Calls are serialized by the connection's event loop (registration.hpp), *)
(* so each is one action; between them the owner rebinds, marks the        *)
(* binding stale, signs frames and acknowledges or cancels streams.        *)
(*                                                                         *)
(* The registration learns of a changed binding only when it is called     *)
(* next: `Synced' is what synchronize_binding makes of its state.  Frames  *)
(* are their auth_seq (0: unsigned) and the fields dispatch looks at.      *)
(* `told' and `admittedAt' are history: what the worker said since it was  *)
(* registered under the present binding, and the generation of the last    *)
(* admission.                                                              *)
(***************************************************************************)
EXTENDS Session

CONSTANTS
  Models,           \* model ids
  Slots,            \* concurrent_slots of registrations and updates
  Authorizes(_, _)  \* the application's authorizer: binding, advertised models

ASSUME SlotsAreNatural == Slots \subseteq Nat

VARIABLES
  reg,        \* the members of runtime_registration_session
  told,       \* history: [registered, draining, slots]
  admittedAt  \* history: generation of the last admitted request

regVars == <<reg, told, admittedAt>>
allVars == <<vars, reg, told, admittedAt>>

Silent == [registered |-> FALSE, draining |-> FALSE, slots |-> 0]

RegInit ==
  /\ Init
  /\ reg = [registered |-> FALSE, draining |-> FALSE, closed |-> FALSE, slots |-> 0,
            models |-> {}, bound |-> {}, generation |-> 0]
  /\ told = Silent
  /\ admittedAt = 0

\* Mutant of IsSynced: only the contents of the binding are compared.
MutantSameBindIsSynced == binding = "bound_current" /\ reg.bound = bound

IsSynced ==
  /\ binding = "bound_current"
  /\ reg.bound = bound /\ reg.generation = generation

Unregistered(r) ==
  [r EXCEPT !.registered = FALSE, !.draining = FALSE, !.slots = 0, !.models = {}]

\* synchronize_binding: a registration made under another binding is void.
Synced ==
  IF IsSynced THEN reg
  ELSE [Unregistered(reg) EXCEPT !.bound = bound, !.generation = generation]

\* Mutant of Close: the streams are left to themselves.
MutantCloseKeepsStreams(r) ==
  reg' = [r EXCEPT !.closed = TRUE, !.registered = FALSE] /\ UNCHANGED streamVars

\* A protocol error closes this state for good and fails the live streams.
Close(r) ==
  /\ reg' = [r EXCEPT !.closed = TRUE, !.registered = FALSE]
  /\ EndAll("failed")

Keep(r) == reg' = r /\ UNCHANGED streamVars

(***************************************************************************)
(* receive_worker_frame.                                                   *)
(***************************************************************************)
Authentic(k) == IF auth.active THEN k = auth.in ELSE k = 0

Counted ==
  IF auth.active
    THEN [auth EXCEPT !.in = IF auth.in < MaxAuthSeq THEN auth.in + 1 ELSE auth.in]
    ELSE auth

\* A frame with auth_seq k passed every check before its dispatch.
Take(k) ==
  /\ ~reg.closed /\ binding = "bound_current" /\ Authentic(k)
  /\ auth' = Counted
  /\ UNCHANGED <<binding, bound, generation>>

\* Without a current binding a frame is refused; the connection stays.
ReceiveUnbound ==
  /\ ~reg.closed /\ binding # "bound_current"
  /\ reg' = Synced
  /\ UNCHANGED <<vars, told, admittedAt>>

\* A malformed frame, or one that verify_inbound_frame refuses.
ReceiveInvalid ==
  /\ ~reg.closed /\ binding = "bound_current"
  /\ Close(Synced)
  /\ UNCHANGED <<bindingVars, told, admittedAt>>

Permitted(models) == \A b \in bound : Authorizes(b, models)

Register(k, slots, models) ==
  /\ Take(k)
  /\ IF Synced.registered
       THEN Close(Synced) /\ told' = told
     ELSE IF Permitted(models)
       THEN /\ Keep([Synced EXCEPT !.registered = TRUE, !.slots = slots, !.models = models])
            /\ told' = [registered |-> TRUE, draining |-> FALSE, slots |-> slots]
     ELSE Keep(Synced) /\ told' = told
  /\ UNCHANGED admittedAt

\* Any other frame needs a registration.
TakeUnregistered(k) ==
  /\ Take(k) /\ ~Synced.registered
  /\ Close(Synced)
  /\ UNCHANGED <<told, admittedAt>>

TakeRegistered(k) == Take(k) /\ Synced.registered /\ UNCHANGED admittedAt

Draining(k) ==
  /\ TakeRegistered(k)
  /\ Keep([Synced EXCEPT !.draining = TRUE])
  /\ told' = [told EXCEPT !.draining = TRUE]

\* Mutant of CapacityUpdate: the slots are added to those declared before.
MutantCapacityAdds(k, slots) ==
  /\ TakeRegistered(k)
  /\ Keep([Synced EXCEPT !.slots = reg.slots + slots])
  /\ told' = [told EXCEPT !.slots = slots]

CapacityUpdate(k, slots) ==
  /\ TakeRegistered(k)
  /\ Keep([Synced EXCEPT !.slots = slots])
  /\ told' = [told EXCEPT !.slots = slots]

MayLeave == InFlight = {}

Deregister(k) ==
  /\ TakeRegistered(k)
  /\ IF MayLeave THEN Keep(Unregistered(Synced)) /\ told' = Silent
                 ELSE Close(Synced) /\ told' = told

\* An event the session refuses ends the connection.
Event(k, s, e) ==
  /\ TakeRegistered(k)
  /\ IF AcceptsEvent(s, e) THEN (Feed(s, e) \/ Finish(s, e)) /\ reg' = Synced
                           ELSE Close(Synced)
  /\ told' = told

WindowUpdate(k, s, offset) ==
  /\ TakeRegistered(k)
  /\ IF life[s] = "absent" \/ offset > produced[s] THEN Close(Synced)
     ELSE IF acked[s] < offset THEN Advance(s, offset) /\ reg' = Synced
     ELSE Keep(Synced)
  /\ told' = told

\* Mutant of CapabilitiesReply: the reply is taken without asking the authorizer.
MutantReplyUnchecked(k, models) ==
  /\ TakeRegistered(k)
  /\ Keep([Synced EXCEPT !.models = models])
  /\ told' = told

CapabilitiesReply(k, models) ==
  /\ TakeRegistered(k)
  /\ IF Permitted(models) THEN Keep([Synced EXCEPT !.models = models])
                          ELSE Close(Synced)
  /\ told' = told

\* Contents that do not decode, or an envelope only the router may send.
WrongDirection(k) == TakeRegistered(k) /\ Close(Synced) /\ told' = told

ReceiveWorkerFrame ==
  \/ ReceiveUnbound \/ ReceiveInvalid
  \/ \E k \in 0..MaxAuthSeq :
       \/ TakeUnregistered(k)
       \/ Draining(k) \/ Deregister(k) \/ WrongDirection(k)
       \/ \E n \in Slots : CapacityUpdate(k, n)
       \/ \E models \in SUBSET Models \ {{}} :
            \/ CapabilitiesReply(k, models)
            \/ \E n \in Slots \ {0} : Register(k, n, models)
       \/ \E s \in Streams, e \in Events : Event(k, s, e)
       \/ \E s \in Streams, offset \in Offsets : WindowUpdate(k, s, offset)

\* receive_worker: the socket is gone.
Disconnect ==
  /\ ~reg.closed
  /\ Close(reg)
  /\ UNCHANGED <<bindingVars, told, admittedAt>>

(***************************************************************************)
(* send_router_frame and registered().                                     *)
(***************************************************************************)
MayAdmit(m) ==
  /\ Synced.registered /\ ~Synced.closed /\ ~Synced.draining
  /\ Cardinality(InFlight) < Synced.slots
  /\ m \in Synced.models

Request(s, m) ==
  /\ MayAdmit(m)
  /\ SubmitRequest(s)
  /\ reg' = Synced
  /\ admittedAt' = generation
  /\ UNCHANGED told

CancelRequest(s) ==
  /\ Synced.registered /\ ~Synced.closed
  /\ ProcessControlCancel(s)
  /\ reg' = Synced
  /\ UNCHANGED <<told, admittedAt>>

\* A malformed frame, a signed one, or one only a worker may send.
RouterMisuse ==
  /\ Synced.registered /\ ~Synced.closed
  /\ Close(Synced)
  /\ UNCHANGED <<bindingVars, told, admittedAt>>

\* registered(), or a frame refused without closing.
Observe == reg' = Synced /\ UNCHANGED <<vars, told, admittedAt>>

SendRouterFrame ==
  \/ \E s \in Streams : CancelRequest(s) \/ \E m \in Models : Request(s, m)
  \/ RouterMisuse \/ Observe

(***************************************************************************)
(* The owner of the connection, on the session directly.                   *)
(***************************************************************************)
Rebind ==
  /\ (\E b \in Binds : ProcessSessionBind(b)) \/ MarkBindingStale
  /\ told' = Silent
  /\ UNCHANGED <<reg, admittedAt>>

UseSession ==
  /\ \/ \E s \in Streams, k \in Offsets : AcknowledgeOffset(s, k)
     \/ \E s \in Streams, n \in Drains : AcknowledgeDrain(s, n)
     \/ \E s \in Streams : CancelExecution(ExecutionOf(s))
     \/ SignOutboundFrame
  /\ UNCHANGED regVars

RegNext == ReceiveWorkerFrame \/ Disconnect \/ SendRouterFrame \/ Rebind \/ UseSession

RegSpec == RegInit /\ [][RegNext]_allVars

(***************************************************************************)
(* Properties.                                                             *)
(***************************************************************************)

\* The registration's members have their types.
RegTypeOK ==
  /\ TypeOK
  /\ reg \in [registered : BOOLEAN, draining : BOOLEAN, closed : BOOLEAN,
              slots : Slots \cup {0}, models : SUBSET Models, bound : SUBSET Binds,
              generation : Nat]
  /\ told \in [registered : BOOLEAN, draining : BOOLEAN, slots : Slots \cup {0}]
  /\ admittedAt \in Nat

\* A request starts only on a worker that registered under the binding of this
\* very moment, has not said it drains, and has a slot left of those it last
\* declared: "Any stale or changed binding invalidates registration, even if a
\* subsequent re-bind repeats the same token/epoch" (RUNTIME_REGISTRATION.md;
\* synchronize_binding and send_router_frame).
AdmissionFollowsWorker ==
  [][\A s \in Streams : life[s] = "absent" /\ life'[s] = "accepted" =>
       /\ binding = "bound_current"
       /\ told.registered /\ ~told.draining
       /\ Cardinality(InFlight) < told.slots]_allVars

\* Nothing is served that the authorizer would refuse to the present binding:
\* the models of a registration that still counts are permitted now, whatever
\* rebinds and CAPABILITIES replies came in between.
AdvertisedIsPermitted ==
  Synced.registered => Permitted(Synced.models)

\* "Protocol errors permanently close this state and terminate in-flight
\* streams": on a closed connection nothing is live and nothing starts again.
ClosedIsDead == reg.closed => ~reg.registered /\ InFlight = {}

\* While streams admitted under the present binding are live, their worker is
\* registered: it cannot leave them behind by deregistering or registering anew
\* ("Deregistration is legal only after all streams are terminal").
NoOrphanedStreams ==
  InFlight # {} /\ admittedAt = generation => Synced.registered

\* Streams and their worker live and die together: a closed connection has none, and
\* those admitted under the present binding have a registered worker (reject,
\* receive_worker_frame).
StreamsHaveWorker == ClosedIsDead /\ NoOrphanedStreams
=============================================================================
