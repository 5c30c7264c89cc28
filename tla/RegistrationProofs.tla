------------------------- MODULE RegistrationProofs -------------------------
(***************************************************************************)
(* What Registration promises, for any authorizer, any models, limits and  *)
(* bindings.  The argument: binding_generation_ only grows, and grows with *)
(* every change of the binding, so a registration whose generation is the  *)
(* session's was made under the present binding; and while it counts, it   *)
(* is what the worker said last.                                           *)
(***************************************************************************)
EXTENDS Registration, TLAPS

LifeType == life \in [Streams -> Lifecycle]

RegRecords ==
  [registered : BOOLEAN, draining : BOOLEAN, closed : BOOLEAN,
   slots : Slots \cup {0}, models : SUBSET Models, bound : SUBSET Binds,
   generation : Nat]

Types ==
  /\ LifeType
  /\ binding \in {"unbound", "bound_current", "bound_stale"}
  /\ bound \in SUBSET Binds
  /\ generation \in Nat
  /\ reg \in RegRecords
  /\ told \in [registered : BOOLEAN, draining : BOOLEAN, slots : Slots \cup {0}]
  /\ admittedAt \in Nat

Generations == reg.generation <= generation /\ admittedAt <= generation

\* A registration that counts is what the worker said last.
Faithful ==
  Synced.registered =>
    told.registered /\ told.draining = reg.draining /\ told.slots = reg.slots

\* Nobody drains who is not registered.
Rested == ~reg.registered /\ ~reg.closed => ~reg.draining

RegInv ==
  /\ Types /\ Generations /\ Faithful /\ Rested
  /\ AdvertisedIsPermitted /\ ClosedIsDead /\ NoOrphanedStreams

\* Synced is reg or an unregistered record of the same type.
LEMMA SyncedFacts ==
  ASSUME Types, Generations
  PROVE  /\ Synced \in RegRecords
         /\ Synced.closed = reg.closed
         /\ Synced.bound = bound /\ Synced.generation = generation
         /\ Synced.registered => Synced = reg /\ IsSynced
         /\ ~IsSynced => ~Synced.registered
  BY DEF Types, RegRecords, Generations, Synced, IsSynced, Unregistered

\* The updates of a registration, field by field.
LEMMA ClosedRecord ==
  ASSUME NEW r \in RegRecords
  PROVE  LET c == [r EXCEPT !.closed = TRUE, !.registered = FALSE]
         IN  /\ c \in RegRecords /\ c.closed /\ ~c.registered
             /\ c.generation = r.generation
  BY DEF RegRecords

LEMMA JoinedRecord ==
  ASSUME NEW r \in RegRecords, NEW n \in Slots, NEW models \in SUBSET Models
  PROVE  LET c == [r EXCEPT !.registered = TRUE, !.slots = n, !.models = models]
         IN  /\ c \in RegRecords /\ c.registered /\ c.slots = n /\ c.models = models
             /\ c.closed = r.closed /\ c.draining = r.draining
             /\ c.bound = r.bound /\ c.generation = r.generation
  BY DEF RegRecords

LEMMA UnregisteredRecord ==
  ASSUME NEW r \in RegRecords
  PROVE  /\ Unregistered(r) \in RegRecords
         /\ ~Unregistered(r).registered /\ ~Unregistered(r).draining
         /\ Unregistered(r).closed = r.closed
         /\ Unregistered(r).generation = r.generation
  BY DEF RegRecords, Unregistered

LEMMA KeepLive ==
  ASSUME LifeType, UNCHANGED streamVars
  PROVE  LifeType' /\ InFlight' = InFlight
  BY DEF LifeType, streamVars, InFlight

LEMMA EventLive ==
  ASSUME LifeType, NEW s \in Streams, NEW e \in Events, Feed(s, e) \/ Finish(s, e)
  PROVE  LifeType' /\ InFlight' \subseteq InFlight
  BY DEF LifeType, Feed, Finish, AcceptsEvent, InFlight, Lifecycle

LEMMA AdvanceLive ==
  ASSUME LifeType, UNCHANGED life
  PROVE  LifeType' /\ InFlight' = InFlight
  BY DEF LifeType, InFlight

LEMMA CancelLive ==
  ASSUME LifeType, NEW group, Cancel(group)
  PROVE  LifeType' /\ InFlight' \subseteq InFlight
  BY DEF LifeType, Cancel, Cancellable, InFlight, Lifecycle

LEMMA EndLive ==
  ASSUME LifeType, NEW o, EndAll(o)
  PROVE  LifeType' /\ InFlight' = {}
  BY DEF LifeType, EndAll, InFlight, Lifecycle

\* The kinds of steps, as far as the invariant can tell.
SameBinding == UNCHANGED <<binding, bound, generation>>

Looked ==
  /\ SameBinding /\ LifeType' /\ InFlight' \subseteq InFlight
  /\ reg' = reg \/ reg' = Synced
  /\ UNCHANGED <<told, admittedAt>>

Closed ==
  /\ SameBinding /\ LifeType' /\ InFlight' = {}
  /\ \E r \in {reg, Synced} : reg' = [r EXCEPT !.closed = TRUE, !.registered = FALSE]
  /\ UNCHANGED <<told, admittedAt>>

Admitted ==
  /\ SameBinding /\ LifeType' /\ ~reg.closed /\ Synced.registered /\ ~reg.draining
  /\ Cardinality(InFlight) < reg.slots
  /\ reg' = Synced /\ told' = told /\ admittedAt' = generation

Rebound ==
  /\ LifeType' /\ InFlight' = InFlight
  /\ binding' \in {"unbound", "bound_current", "bound_stale"}
  /\ bound' \in SUBSET Binds /\ generation' \in Nat /\ generation' > generation
  /\ told' = Silent /\ UNCHANGED <<reg, admittedAt>>

Heard ==
  /\ SameBinding /\ LifeType' /\ InFlight' = InFlight
  /\ ~reg.closed /\ Synced.registered /\ UNCHANGED admittedAt
  /\ \/ reg' = [Synced EXCEPT !.draining = TRUE] /\ told' = [told EXCEPT !.draining = TRUE]
     \/ \E n \in Slots : /\ reg' = [Synced EXCEPT !.slots = n]
                         /\ told' = [told EXCEPT !.slots = n]
     \/ \E models \in SUBSET Models :
          Permitted(models) /\ reg' = [Synced EXCEPT !.models = models] /\ told' = told

Joined ==
  /\ SameBinding /\ LifeType' /\ InFlight' = InFlight
  /\ ~reg.closed /\ ~Synced.registered /\ binding = "bound_current"
  /\ UNCHANGED admittedAt
  /\ \E n \in Slots, models \in SUBSET Models :
       /\ Permitted(models)
       /\ reg' = [Synced EXCEPT !.registered = TRUE, !.slots = n, !.models = models]
       /\ told' = [registered |-> TRUE, draining |-> FALSE, slots |-> n]

Left ==
  /\ SameBinding /\ LifeType' /\ InFlight' = {}
  /\ ~reg.closed /\ reg' = Unregistered(Synced) /\ told' = Silent
  /\ UNCHANGED admittedAt

StepKind ==
  Looked \/ Closed \/ Admitted \/ Rebound \/ Heard \/ Joined \/ Left

LEMMA Closing ==
  ASSUME LifeType, SameBinding, UNCHANGED <<told, admittedAt>>,
         NEW r \in {reg, Synced}, Close(r)
  PROVE  Closed
  BY EndLive DEF Close, Closed

LEMMA TakeIsQuiet ==
  ASSUME NEW k, Take(k)
  PROVE  SameBinding /\ ~reg.closed /\ binding = "bound_current"
  BY DEF Take, SameBinding

\* Every frame of a worker is a step of one of the kinds.
LEMMA FrameKinds ==
  ASSUME RegInv, ReceiveWorkerFrame
  PROVE  StepKind
<1> USE DEF StepKind
<1>0. LifeType /\ Types /\ Generations
  BY DEF RegInv, Types
<1>1. CASE ReceiveUnbound
  BY <1>0, <1>1, KeepLive DEF ReceiveUnbound, vars, streamVars, Looked, SameBinding
<1>2. CASE ReceiveInvalid
  BY <1>0, <1>2, Closing DEF ReceiveInvalid, bindingVars, SameBinding
<1>3. ASSUME NEW k \in 0..MaxAuthSeq, TakeUnregistered(k)
      PROVE  StepKind
  BY <1>0, <1>3, TakeIsQuiet, Closing DEF TakeUnregistered
<1>4. ASSUME NEW k \in 0..MaxAuthSeq, Draining(k)
      PROVE  StepKind
  BY <1>0, <1>4, TakeIsQuiet, KeepLive DEF Draining, TakeRegistered, Keep, Heard
<1>5. ASSUME NEW k \in 0..MaxAuthSeq, Deregister(k)
      PROVE  StepKind
  <2>1. CASE MayLeave
    BY <1>0, <1>5, <2>1, TakeIsQuiet, KeepLive
       DEF Deregister, TakeRegistered, Keep, MayLeave, Left
  <2>2. CASE ~MayLeave
    BY <1>0, <1>5, <2>2, TakeIsQuiet, Closing DEF Deregister, TakeRegistered
  <2> QED BY <2>1, <2>2
<1>6. ASSUME NEW k \in 0..MaxAuthSeq, WrongDirection(k)
      PROVE  StepKind
  BY <1>0, <1>6, TakeIsQuiet, Closing DEF WrongDirection, TakeRegistered
<1>7. ASSUME NEW k \in 0..MaxAuthSeq, NEW n \in Slots, CapacityUpdate(k, n)
      PROVE  StepKind
  BY <1>0, <1>7, TakeIsQuiet, KeepLive DEF CapacityUpdate, TakeRegistered, Keep, Heard
<1>8. ASSUME NEW k \in 0..MaxAuthSeq, NEW models \in SUBSET Models,
             CapabilitiesReply(k, models)
      PROVE  StepKind
  <2>1. CASE Permitted(models)
    BY <1>0, <1>8, <2>1, TakeIsQuiet, KeepLive
       DEF CapabilitiesReply, TakeRegistered, Keep, Heard
  <2>2. CASE ~Permitted(models)
    BY <1>0, <1>8, <2>2, TakeIsQuiet, Closing DEF CapabilitiesReply, TakeRegistered
  <2> QED BY <2>1, <2>2
<1>9. ASSUME NEW k \in 0..MaxAuthSeq, NEW n \in Slots, NEW models \in SUBSET Models,
             Register(k, n, models)
      PROVE  StepKind
  <2>1. CASE Synced.registered
    BY <1>0, <1>9, <2>1, TakeIsQuiet, Closing DEF Register
  <2>2. CASE ~Synced.registered /\ Permitted(models)
    BY <1>0, <1>9, <2>2, TakeIsQuiet, KeepLive DEF Register, Keep, Joined
  <2>3. CASE ~Synced.registered /\ ~Permitted(models)
    BY <1>0, <1>9, <2>3, TakeIsQuiet, KeepLive DEF Register, Keep, Looked
  <2> QED BY <2>1, <2>2, <2>3
<1>10. ASSUME NEW k \in 0..MaxAuthSeq, NEW s \in Streams, NEW e \in Events, Event(k, s, e)
       PROVE  StepKind
  <2>1. CASE AcceptsEvent(s, e)
    BY <1>0, <1>10, <2>1, TakeIsQuiet, EventLive DEF Event, TakeRegistered, Looked
  <2>2. CASE ~AcceptsEvent(s, e)
    BY <1>0, <1>10, <2>2, TakeIsQuiet, Closing DEF Event, TakeRegistered
  <2> QED BY <2>1, <2>2
<1>11. ASSUME NEW k \in 0..MaxAuthSeq, NEW s \in Streams, NEW offset \in Offsets,
              WindowUpdate(k, s, offset)
       PROVE  StepKind
  <2>1. CASE life[s] = "absent" \/ offset > produced[s]
    BY <1>0, <1>11, <2>1, TakeIsQuiet, Closing DEF WindowUpdate, TakeRegistered
  <2>2. CASE ~(life[s] = "absent" \/ offset > produced[s])
    BY <1>0, <1>11, <2>2, TakeIsQuiet, AdvanceLive
       DEF WindowUpdate, TakeRegistered, Advance, Keep, streamVars, Looked
  <2> QED BY <2>1, <2>2
<1> QED BY <1>1, <1>2, <1>3, <1>4, <1>5, <1>6, <1>7, <1>8, <1>9, <1>10, <1>11
        DEF ReceiveWorkerFrame

\* So is everything else.
LEMMA OtherKinds ==
  ASSUME RegInv, Disconnect \/ SendRouterFrame \/ Rebind \/ UseSession \/ UNCHANGED allVars
  PROVE  StepKind
<1> USE DEF StepKind
<1>0. LifeType /\ Types /\ Generations
  BY DEF RegInv, Types
<1>1. CASE Disconnect
  BY <1>0, <1>1, Closing DEF Disconnect, bindingVars, SameBinding
<1>2. ASSUME NEW s \in Streams, CancelRequest(s)
      PROVE  StepKind
  BY <1>0, <1>2, CancelLive
     DEF CancelRequest, ProcessControlCancel, Cancel, bindingVars, SameBinding, Looked
<1>3. ASSUME NEW s \in Streams, NEW m \in Models, Request(s, m)
      PROVE  StepKind
  <2>1. LifeType'
    BY <1>0, <1>3 DEF Request, SubmitRequest, LifeType, Lifecycle
  <2>2. Synced = reg
    BY <1>0, <1>3, SyncedFacts DEF Request, MayAdmit
  <2> QED BY <1>3, <2>1, <2>2
          DEF Request, MayAdmit, SubmitRequest, bindingVars, SameBinding, Admitted
<1>4. CASE RouterMisuse
  BY <1>0, <1>4, Closing DEF RouterMisuse, bindingVars, SameBinding
<1>5. CASE Observe
  BY <1>0, <1>5, KeepLive DEF Observe, vars, streamVars, Looked, SameBinding
<1>6. CASE Rebind
  BY <1>0, <1>6, KeepLive
     DEF Rebind, ProcessSessionBind, MarkBindingStale, Rebound, Types, streamVars
<1>7. CASE UseSession
  <2>1. ASSUME NEW s \in Streams, CancelExecution(ExecutionOf(s))
        PROVE  Looked
    BY <1>0, <1>7, <2>1, CancelLive
       DEF UseSession, CancelExecution, Cancel, bindingVars, regVars, SameBinding, Looked
  <2>2. ASSUME NEW s \in Streams, NEW k \in Offsets, AcknowledgeOffset(s, k)
        PROVE  Looked
    BY <1>0, <1>7, <2>2, AdvanceLive
       DEF UseSession, AcknowledgeOffset, Advance, bindingVars, regVars, SameBinding, Looked
  <2>3. ASSUME NEW s \in Streams, NEW n \in Drains, AcknowledgeDrain(s, n)
        PROVE  Looked
    BY <1>0, <1>7, <2>3, AdvanceLive
       DEF UseSession, AcknowledgeDrain, bindingVars, regVars, SameBinding, Looked
  <2>4. CASE SignOutboundFrame
    BY <1>0, <1>7, <2>4, KeepLive
       DEF UseSession, SignOutboundFrame, streamVars, regVars, SameBinding, Looked
  <2> QED BY <1>7, <2>1, <2>2, <2>3, <2>4 DEF UseSession
<1>8. CASE UNCHANGED allVars
  BY <1>0, <1>8, KeepLive DEF allVars, vars, streamVars, regVars, SameBinding, Looked
<1> QED BY <1>1, <1>2, <1>3, <1>4, <1>5, <1>6, <1>7, <1>8 DEF SendRouterFrame

\* A step that leaves the binding alone and does not register keeps the invariant
\* if what still counts is what was there before.
LEMMA Preserved ==
  ASSUME RegInv, StepKind
  PROVE  RegInv'
<1> USE DEF RegInv, RegRecords
<1>0. Types /\ Generations
  OBVIOUS
<1>t. /\ reg.registered \in BOOLEAN /\ reg.draining \in BOOLEAN /\ reg.slots \in Slots \cup {0}
      /\ reg.generation \in Nat /\ generation \in Nat /\ admittedAt \in Nat
  BY DEF Types
<1>1. CASE Looked
  <2>1. Types' /\ Generations'
    BY <1>0, <1>1, SyncedFacts DEF Looked, Types, Generations, SameBinding
  <2>2. Synced' = Synced
    BY <1>0, <1>1 DEF Looked, SameBinding, Synced, IsSynced, Unregistered, Types
  <2>3. Synced.registered => reg' = reg
    BY <1>0, <1>1, SyncedFacts DEF Looked
  <2>4. reg.closed => reg'.closed /\ ~reg'.registered
    BY <1>0, <1>1, SyncedFacts DEF Looked, ClosedIsDead
  <2>5. Faithful' /\ AdvertisedIsPermitted'
    BY <1>1, <2>2, <2>3
       DEF Looked, SameBinding, Faithful, AdvertisedIsPermitted, Permitted
  <2>6. ClosedIsDead'
    BY <1>0, <1>1, <2>4, SyncedFacts DEF Looked, ClosedIsDead
  <2>7. NoOrphanedStreams'
    BY <1>1, <2>2 DEF Looked, SameBinding, NoOrphanedStreams
  <2>8. Rested'
    BY <1>0, <1>1 DEF Looked, Rested, Synced, Unregistered, Types
  <2> QED BY <2>1, <2>5, <2>6, <2>7, <2>8
<1>2. CASE Closed
  <2>1. PICK r \in {reg, Synced} : reg' = [r EXCEPT !.closed = TRUE, !.registered = FALSE]
    BY <1>2 DEF Closed
  <2>2. r \in RegRecords /\ r.generation <= generation
    BY <1>0, <2>1, SyncedFacts DEF Types, Generations
  <2>3. /\ reg' \in RegRecords /\ ~reg'.registered /\ reg'.closed
        /\ reg'.generation = r.generation
    BY <2>1, <2>2, ClosedRecord
  <2>4. Types' /\ Generations'
    BY <1>0, <1>2, <2>2, <2>3 DEF Closed, Types, Generations, SameBinding
  <2>5. ~Synced'.registered
    BY <2>3, <2>4 DEF Synced, Unregistered, Types
  <2> QED BY <1>2, <2>3, <2>5, <2>4
          DEF Closed, Faithful, Rested, AdvertisedIsPermitted, ClosedIsDead, NoOrphanedStreams
<1>3. CASE Admitted
  <2>1. Synced = reg /\ IsSynced
    BY <1>0, <1>3, SyncedFacts DEF Admitted
  <2>2. Types' /\ Generations'
    BY <1>0, <1>3, <2>1 DEF Admitted, Types, Generations, SameBinding
  <2>3. Synced' = Synced
    BY <1>3, <2>1 DEF Admitted, SameBinding, Synced, IsSynced
  <2> QED BY <1>3, <2>1, <2>2, <2>3
          DEF Admitted, SameBinding, Faithful, Rested, AdvertisedIsPermitted, Permitted,
              ClosedIsDead, NoOrphanedStreams
<1>4. CASE Rebound
  <2>1. Types'
    BY <1>0, <1>4 DEF Rebound, Types, Silent
  <2>2. Generations' /\ admittedAt' < generation' /\ reg'.generation < generation'
    BY <1>0, <1>4, <1>t DEF Rebound, Generations
  <2>3. ~Synced'.registered
    BY <2>1, <2>2, <1>t DEF Synced, IsSynced, Unregistered, Types
  <2>4. NoOrphanedStreams'
    BY <2>1, <2>2 DEF NoOrphanedStreams, Types
  <2> QED BY <1>4, <2>1, <2>2, <2>3, <2>4
          DEF Rebound, Faithful, Rested, AdvertisedIsPermitted, ClosedIsDead
<1>5. CASE Heard
  <2>1. Synced = reg /\ IsSynced
    BY <1>0, <1>5, SyncedFacts DEF Heard
  <2>2. Types' /\ Generations'
    BY <1>0, <1>5, <2>1 DEF Heard, Types, Generations, SameBinding
  <2>3. /\ reg'.registered = reg.registered /\ reg'.closed = reg.closed
        /\ reg'.bound = reg.bound /\ reg'.generation = reg.generation
        /\ Permitted(reg'.models)
    BY <1>0, <1>5, <2>1 DEF Heard, Types, AdvertisedIsPermitted
  <2>4. Synced' = reg'
    BY <1>5, <2>1, <2>3 DEF Heard, SameBinding, Synced, IsSynced
  <2>5. told'.registered /\ told'.draining = reg'.draining /\ told'.slots = reg'.slots
    BY <1>0, <1>5, <2>1 DEF Heard, Types, Faithful
  <2>6. AdvertisedIsPermitted'
    BY <1>5, <2>3, <2>4 DEF Heard, SameBinding, AdvertisedIsPermitted, Permitted
  <2>7. Rested'
    BY <1>5, <2>1, <2>3 DEF Heard, Rested
  <2> QED BY <1>5, <2>1, <2>2, <2>3, <2>4, <2>5, <2>6, <2>7
          DEF Heard, Faithful, ClosedIsDead, NoOrphanedStreams
<1>6. CASE Joined
  <2>1. PICK n \in Slots, models \in SUBSET Models :
          /\ Permitted(models)
          /\ reg' = [Synced EXCEPT !.registered = TRUE, !.slots = n, !.models = models]
          /\ told' = [registered |-> TRUE, draining |-> FALSE, slots |-> n]
    BY <1>6 DEF Joined
  <2>2. /\ reg'.registered /\ reg'.closed = reg.closed /\ reg'.slots = n
        /\ reg'.models = models /\ reg'.draining = Synced.draining
        /\ reg'.bound = bound /\ reg'.generation = generation
        /\ reg' \in RegRecords
    BY <1>0, <2>1, SyncedFacts, JoinedRecord
  <2>3. Types' /\ Generations'
    BY <1>0, <1>6, <2>1, <2>2 DEF Joined, Types, Generations, SameBinding
  <2>4. Synced' = reg'
    BY <1>6, <2>2 DEF Joined, SameBinding, Synced, IsSynced
  <2>5. ~Synced.draining
    <3>1. CASE IsSynced
      BY <1>6, <3>1 DEF Joined, Rested, Synced
    <3>2. CASE ~IsSynced
      BY <1>0, <3>2 DEF Synced, Unregistered, Types
    <3> QED BY <3>1, <3>2
  <2> QED BY <1>6, <2>1, <2>3, <2>2, <2>4, <2>5
          DEF Joined, SameBinding, Faithful, Rested, AdvertisedIsPermitted, Permitted,
              ClosedIsDead, NoOrphanedStreams
<1>7. CASE Left
  <2>1. /\ ~reg'.registered /\ reg'.closed = reg.closed /\ ~reg'.draining
        /\ reg' \in RegRecords /\ reg'.generation = generation
    BY <1>0, <1>7, SyncedFacts, UnregisteredRecord DEF Left
  <2>2. Types' /\ Generations'
    BY <1>0, <1>7, <2>1 DEF Left, Types, Generations, SameBinding, Silent
  <2>3. ~Synced'.registered
    BY <2>2, <2>1 DEF Synced, Unregistered, Types
  <2> QED BY <1>7, <2>2, <2>1, <2>3
          DEF Left, Faithful, Rested, AdvertisedIsPermitted, ClosedIsDead, NoOrphanedStreams
<1> QED BY <1>1, <1>2, <1>3, <1>4, <1>5, <1>6, <1>7 DEF StepKind

LEMMA RegInvHolds == RegSpec => []RegInv
<1>1. RegInit => RegInv
  BY DEF RegInit, Init, RegInv, Types, LifeType, RegRecords, Lifecycle, Generations,
         Faithful, Rested, AdvertisedIsPermitted, ClosedIsDead, NoOrphanedStreams,
         Synced, IsSynced, Unregistered, Silent, InFlight
<1>2. RegInv /\ [RegNext]_allVars => RegInv'
  BY FrameKinds, OtherKinds, Preserved DEF RegNext
<1> QED BY <1>1, <1>2, PTL DEF RegSpec

\* The models of a registration that counts are permitted to the present binding.
THEOREM AdvertisedPermitted == RegSpec => []AdvertisedIsPermitted
<1>1. RegInv => AdvertisedIsPermitted
  BY DEF RegInv
<1> QED BY <1>1, RegInvHolds, PTL

\* On a closed connection nothing is live (receive_worker_frame, reject).
THEOREM ClosedDead == RegSpec => []ClosedIsDead
<1>1. RegInv => ClosedIsDead
  BY DEF RegInv
<1> QED BY <1>1, RegInvHolds, PTL

\* Streams of the present binding have a registered worker.
THEOREM NoOrphans == RegSpec => []NoOrphanedStreams
<1>1. RegInv => NoOrphanedStreams
  BY DEF RegInv
<1> QED BY <1>1, RegInvHolds, PTL

\* Requests start only on a worker that registered under the present binding and
\* said nothing since that forbids it (synchronize_binding, send_router_frame).
THEOREM AdmissionFollows == RegSpec => AdmissionFollowsWorker
<1> DEFINE Starts(s) == life[s] = "absent" /\ life'[s] = "accepted"
<1>1. ASSUME NEW s \in Streams, Starts(s), LifeType, NEW r \in Streams, NEW e \in Events
      PROVE  ~Feed(r, e) /\ ~Finish(r, e)
  BY <1>1 DEF LifeType, Feed, Finish, AcceptsEvent
<1>2. ASSUME NEW s \in Streams, Starts(s), LifeType, NEW o
      PROVE  ~EndAll(o)
  BY <1>2 DEF EndAll, InFlight
<1>3. ASSUME NEW s \in Streams, Starts(s), RegInv, RegNext
      PROVE  \E r \in Streams, m \in Models : Request(r, m)
  <2> USE <1>3
  <2>0. LifeType
    BY DEF RegInv, Types
  <2>1. ~UNCHANGED life
    OBVIOUS
  <2>2. ASSUME NEW group PROVE ~Cancel(group)
    BY DEF Cancel
  <2>3. ~Rebind /\ ~UseSession
    BY <2>1, <2>2
       DEF Rebind, ProcessSessionBind, MarkBindingStale, streamVars, UseSession,
           AcknowledgeOffset, Advance, AcknowledgeDrain, CancelExecution, SignOutboundFrame
  <2>4. ASSUME NEW x PROVE ~Close(x) /\ ~Keep(x)
    BY <2>0, <2>1, <1>2 DEF Close, Keep, streamVars
  <2>5. ~Disconnect /\ ~ReceiveWorkerFrame
    BY <2>0, <2>1, <2>4, <1>1
       DEF Disconnect, ReceiveWorkerFrame, ReceiveUnbound, vars, ReceiveInvalid,
           TakeUnregistered, Draining, CapacityUpdate, Deregister, Event, Register,
           WindowUpdate, Advance, CapabilitiesReply, WrongDirection
  <2>6. ~RouterMisuse /\ ~Observe /\ \A r \in Streams : ~CancelRequest(r)
    BY <2>1, <2>2, <2>4 DEF RouterMisuse, Observe, vars, CancelRequest, ProcessControlCancel
  <2> QED BY <2>3, <2>5, <2>6 DEF RegNext, SendRouterFrame
<1>4. ASSUME RegInv, NEW r \in Streams, NEW m \in Models, Request(r, m)
      PROVE  /\ binding = "bound_current" /\ told.registered /\ ~told.draining
             /\ Cardinality(InFlight) < told.slots
  BY <1>4, SyncedFacts DEF Request, MayAdmit, RegInv, Faithful, IsSynced
<1>5. RegInv /\ [RegNext]_allVars =>
        [\A s \in Streams : life[s] = "absent" /\ life'[s] = "accepted" =>
           /\ binding = "bound_current"
           /\ told.registered /\ ~told.draining
           /\ Cardinality(InFlight) < told.slots]_allVars
  BY <1>3, <1>4
<1> QED BY <1>5, RegInvHolds, PTL DEF RegSpec, AdmissionFollowsWorker

\* Streams and their worker live and die together.
THEOREM StreamsKeepWorker == RegSpec => []StreamsHaveWorker
<1>1. ClosedIsDead /\ NoOrphanedStreams => StreamsHaveWorker
  BY DEF StreamsHaveWorker
<1> QED BY <1>1, ClosedDead, NoOrphans, PTL

-----------------------------------------------------------------------------
(* The types of the tables the registration writes through the session *)

Tables ==
  /\ life \in [Streams -> Lifecycle] /\ outcome \in [Streams -> Outcomes \cup {"none"}]
  /\ lastSeq \in [Streams -> Nat] /\ produced \in [Streams -> Nat]
  /\ acked \in [Streams -> Nat]

SignsOK == auth \in [active : BOOLEAN, out : Nat, in : Nat]

TablesOK == Tables /\ SignsOK

LEMMA TablesUntouched ==
  ASSUME Tables, UNCHANGED streamVars
  PROVE  Tables'
  BY DEF Tables, streamVars

LEMMA TablesAfterEvent ==
  ASSUME Tables, NEW s \in Streams, NEW e \in Events, Feed(s, e) \/ Finish(s, e)
  PROVE  Tables'
<1>1. e.seq \in Nat /\ e.size \in Nat
  BY LimitsAreNatural DEF Events
<1>2. produced[s] + e.size \in Nat
  BY <1>1 DEF Tables
<1>3. CASE Feed(s, e)
  BY <1>1, <1>2, <1>3 DEF Feed, Tables, Lifecycle
<1>4. CASE Finish(s, e)
  <2>1. OutcomeOf(e) \in Outcomes
    BY <1>4 DEF Events, OutcomeOf, Outcomes, TerminalKinds, Finish
  <2> QED BY <1>1, <1>2, <1>4, <2>1 DEF Finish, Tables, Lifecycle
<1> QED BY <1>3, <1>4

LEMMA TablesAfterAck ==
  ASSUME Tables, NEW s \in Streams,
         \/ \E k \in Offsets : Advance(s, k)
         \/ \E n \in Drains : AcknowledgeDrain(s, n)
  PROVE  Tables'
<1>1. ASSUME NEW k \in Offsets, Advance(s, k)
      PROVE  Tables'
  BY <1>1, LimitsAreNatural DEF Advance, Tables
<1>2. ASSUME NEW n \in Drains, AcknowledgeDrain(s, n)
      PROVE  Tables'
  <2>1. DrainTarget(s, n) \in Nat
    <3>1. n \in Nat /\ acked[s] \in Nat /\ OffsetModulus \in Nat \ {0}
      BY LimitsAreNatural DEF Tables
    <3> QED BY <3>1 DEF DrainTarget
  <2> QED BY <1>2, <2>1 DEF AcknowledgeDrain, Tables
<1> QED BY <1>1, <1>2

LEMMA TablesAfterCancel ==
  ASSUME Tables, NEW group, Cancel(group)
  PROVE  Tables'
  BY DEF Cancel, Tables, Lifecycle

LEMMA TablesAfterEnd ==
  ASSUME Tables, EndAll("failed")
  PROVE  Tables'
  BY DEF EndAll, Tables, Lifecycle, Outcomes

LEMMA TablesAfterSubmit ==
  ASSUME Tables, NEW s \in Streams, SubmitRequest(s)
  PROVE  Tables'
  BY DEF SubmitRequest, Tables, Lifecycle

LEMMA SignsAfterTake ==
  ASSUME SignsOK, NEW k, Take(k)
  PROVE  SignsOK'
<1>1. Counted \in [active : BOOLEAN, out : Nat, in : Nat]
  BY DEF SignsOK, Counted
<1> QED BY <1>1 DEF Take, SignsOK

\* A frame of the worker updates the tables through the session, or leaves them.
LEMMA FramesKeepTables ==
  ASSUME TablesOK, ReceiveWorkerFrame
  PROVE  TablesOK'
<1>0. Tables /\ SignsOK
  BY DEF TablesOK
<1> USE DEF TablesOK
<1>e. ASSUME NEW r, Close(r)
      PROVE  Tables'
  BY <1>0, <1>e, TablesAfterEnd DEF Close
<1>k. ASSUME NEW r, Keep(r)
      PROVE  Tables'
  BY <1>0, <1>k, TablesUntouched DEF Keep
<1>1. CASE ReceiveUnbound
  BY <1>0, <1>1, TablesUntouched DEF ReceiveUnbound, vars, streamVars, SignsOK
<1>2. CASE ReceiveInvalid
  BY <1>0, <1>2, <1>e DEF ReceiveInvalid, bindingVars, SignsOK
<1>3. ASSUME NEW k \in 0..MaxAuthSeq,
             \/ TakeUnregistered(k) \/ Draining(k) \/ Deregister(k) \/ WrongDirection(k)
             \/ \E n \in Slots : CapacityUpdate(k, n)
             \/ \E models \in SUBSET Models : CapabilitiesReply(k, models)
             \/ \E n \in Slots, models \in SUBSET Models : Register(k, n, models)
      PROVE  TablesOK'
  <2>1. Take(k) /\ \E r : Close(r) \/ Keep(r)
    BY <1>3, Zenon DEF TakeUnregistered, Draining, Deregister, WrongDirection, CapacityUpdate,
                CapabilitiesReply, Register, TakeRegistered
  <2> QED BY <1>0, <1>e, <1>k, <2>1, SignsAfterTake
<1>4. ASSUME NEW k \in 0..MaxAuthSeq, NEW s \in Streams, NEW e \in Events, Event(k, s, e)
      PROVE  TablesOK'
  <2>1. Take(k) /\ (Feed(s, e) \/ Finish(s, e) \/ \E r : Close(r))
    BY <1>4, Zenon DEF Event, TakeRegistered
  <2> QED BY <1>0, <1>e, <2>1, SignsAfterTake, TablesAfterEvent
<1>5. ASSUME NEW k \in 0..MaxAuthSeq, NEW s \in Streams, NEW offset \in Offsets,
             WindowUpdate(k, s, offset)
      PROVE  TablesOK'
  <2>1. Take(k) /\ (Advance(s, offset) \/ \E r : Close(r) \/ Keep(r))
    BY <1>5, Zenon DEF WindowUpdate, TakeRegistered
  <2> QED BY <1>0, <1>e, <1>k, <2>1, SignsAfterTake, TablesAfterAck
<1> QED BY <1>1, <1>2, <1>3, <1>4, <1>5, Zenon DEF ReceiveWorkerFrame

LEMMA RestKeepsTables ==
  ASSUME TablesOK, bound \in SUBSET Binds,
         Disconnect \/ SendRouterFrame \/ Rebind \/ UseSession \/ UNCHANGED allVars
  PROVE  TablesOK'
<1>0. Tables /\ SignsOK
  BY DEF TablesOK
<1> USE DEF TablesOK
<1>1. CASE Disconnect \/ RouterMisuse
  <2>1. UNCHANGED bindingVars /\ EndAll("failed")
    BY <1>1 DEF Disconnect, RouterMisuse, Close
  <2> QED BY <1>0, <2>1, TablesAfterEnd DEF bindingVars, SignsOK
<1>2. ASSUME NEW s \in Streams,
             CancelRequest(s) \/ CancelExecution(ExecutionOf(s))
      PROVE  TablesOK'
  <2>1. \E group : Cancel(group)
    BY <1>2, Zenon DEF CancelRequest, ProcessControlCancel, CancelExecution
  <2>2. UNCHANGED auth
    BY <2>1 DEF Cancel, bindingVars
  <2> QED BY <1>0, <2>1, <2>2, TablesAfterCancel DEF SignsOK
<1>3. ASSUME NEW s \in Streams, NEW m \in Models, Request(s, m)
      PROVE  TablesOK'
  <2>1. SubmitRequest(s)
    BY <1>3 DEF Request
  <2> QED BY <1>0, <2>1, TablesAfterSubmit DEF SubmitRequest, bindingVars, SignsOK
<1>4. CASE Observe \/ UNCHANGED allVars
  BY <1>0, <1>4, TablesUntouched DEF Observe, allVars, vars, streamVars, SignsOK
<1>5. ASSUME NEW b \in Binds, ProcessSessionBind(b)
      PROVE  TablesOK'
  <2>1. AuthAfterBind(b) \in [active : BOOLEAN, out : Nat, in : Nat]
    BY <1>0 DEF AuthAfterBind, SignsOK
  <2> QED BY <1>0, <1>5, <2>1, TablesUntouched DEF ProcessSessionBind, SignsOK
<1>6. CASE MarkBindingStale
  BY <1>0, <1>6, TablesUntouched DEF MarkBindingStale, SignsOK
<1>7. ASSUME NEW s \in Streams,
             \/ \E k \in Offsets : AcknowledgeOffset(s, k)
             \/ \E n \in Drains : AcknowledgeDrain(s, n)
      PROVE  TablesOK'
  <2>1. UNCHANGED auth
    BY <1>7 DEF AcknowledgeOffset, AcknowledgeDrain, bindingVars
  <2> QED BY <1>0, <1>7, <2>1, TablesAfterAck DEF AcknowledgeOffset, SignsOK
<1>8. CASE SignOutboundFrame
  BY <1>0, <1>8, TablesUntouched DEF SignOutboundFrame, SignsOK
<1> QED BY <1>1, <1>2, <1>3, <1>4, <1>5, <1>6, <1>7, <1>8, Zenon
        DEF SendRouterFrame, Rebind, UseSession

\* Whatever worker, router and owner call in whatever order, the members of the
\* registration and the tables of its session keep their types.
THEOREM RegistrationTyped == RegSpec => []RegTypeOK
<1>1. RegInit => TablesOK
  BY DEF RegInit, Init, TablesOK, Tables, SignsOK, Lifecycle, Outcomes
<1>2. RegInv /\ TablesOK /\ [RegNext]_allVars => TablesOK'
  BY FramesKeepTables, RestKeepsTables DEF RegNext, RegInv, Types
<1>3. RegInv /\ TablesOK => RegTypeOK
  BY DEF RegInv, Types, TablesOK, Tables, SignsOK, RegTypeOK, TypeOK, RegRecords
<1> QED BY <1>1, <1>2, <1>3, RegInvHolds, PTL DEF RegSpec
=============================================================================
