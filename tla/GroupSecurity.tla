---------------------------- MODULE GroupSecurity ----------------------------
(***************************************************************************)
(* A cryptographic execution group of LiNeP-SL V0.2 (group_security.cpp):  *)
(* its members and epochs, the per-sender keys and ratchets, and the       *)
(* messages protected and unprotected by the reference provider, which     *)
(* holds the whole group.  Messages arrive late, again, out of order or    *)
(* altered.                                                                *)
(*                                                                         *)
(* Secrets are symbolic.  Every commit mixes fresh entropy into the epoch  *)
(* secret, so the secret is the number of its epoch, and a leaf secret is  *)
(* its owner and the epoch that made it; the key of a message is the leaf  *)
(* secret, the epoch and the generation of the sender's ratchet.  Trust    *)
(* domains, subjects and hashes are left out.  A body is its text and      *)
(* whether the keystream of its epoch, sender and generation lies over it: *)
(* encrypting and decrypting are one XOR.  unprotect() never reads its     *)
(* receiver_endpoint: whoever can call it is answered alike, a member or   *)
(* not, so the actions have no receiver.                                   *)
(***************************************************************************)
EXTENDS Integers, Sequences, FiniteSets

CONSTANTS
  Endpoints,    \* node_endpoint_identity values
  Roles,        \* member_role, without unknown
  LastGroupEpoch, \* bound: group_epoch
  GroupWindow,  \* sliding_replay_window::window_size
  Sends,        \* bound: <<mode, class, message_seq>> the callers of protect() pass
  MaxMessages,  \* bound: messages protected
  MaxRatchet    \* bound: ratchet generations

\* group_protection_mode without unknown, and the classes a binding may have.
Modes == {"authenticated_only", "confidential_and_authenticated"}
Classes == {"request", "event"}

ASSUME GroupAssumption == LastGroupEpoch \in Nat \ {0}
ASSUME WindowAssumption == GroupWindow \in Nat \ {0}
ASSUME SendsAssumption ==
  Sends \subseteq Modes \X (Classes \cup {"unknown"}) \X (Nat \ {0})

VARIABLES
  group,    \* [st, epoch, members, leafs, ratchets]; members as context.members
  posted,   \* the messages protect() returned, with their tags and texts
  opened,   \* replay_windows_: [epoch, sender, seq] of the accepted
  accepted  \* history: [msg, class, epoch, member, read, nth]: what unprotect() returned
            \* ok for, whether is_member_active said so of its sender, out_payload, and
            \* how many of its number were accepted by then

groupVars == <<group, posted, opened, accepted>>

ActiveEntries(e) ==
  {n \in DOMAIN group.members : group.members[n].endpoint = e /\ group.members[n].status = "active"}

\* is_member_active
IsMemberActive(e) == group.st = "active" /\ ActiveEntries(e) # {}

ActiveMembers == {e \in Endpoints : ActiveEntries(e) # {}}

Entry(e, role) == [endpoint |-> e, status |-> "active", role |-> role]

With(f, e, v) == [x \in DOMAIN f \cup {e} |-> IF x = e THEN v ELSE f[x]]
Without(f, e) == [x \in DOMAIN f \ {e} |-> f[x]]

Leaf(e, epoch) == [owner |-> e, made |-> epoch]

NoGroup == [st |-> "none", epoch |-> 0, members |-> <<>>, leafs |-> <<>>, ratchets |-> <<>>]

GroupInit == group = NoGroup /\ posted = {} /\ opened = {} /\ accepted = {}

-----------------------------------------------------------------------------
(* Membership *)

\* A group id is never used again, also after close_group.
CreateGroup(e) ==
  /\ group.st = "none"
  /\ group' = [st |-> "active", epoch |-> 1, members |-> <<Entry(e, "coordinator")>>,
               leafs |-> With(<<>>, e, Leaf(e, 1)), ratchets |-> With(<<>>, e, 0)]
  /\ UNCHANGED <<posted, opened, accepted>>

\* A member that comes back gets a further entry behind its old ones.
AddMember(e, role) ==
  /\ group.st = "active" /\ ActiveEntries(e) = {} /\ group.epoch < LastGroupEpoch
  /\ group' = [group EXCEPT
       !.members = Append(@, Entry(e, role)), !.epoch = @ + 1,
       !.leafs = With(@, e, Leaf(e, group.epoch + 1)), !.ratchets = With(@, e, 0)]
  /\ UNCHANGED <<posted, opened, accepted>>

RemoveMember(e) ==
  /\ group.st = "active" /\ ActiveEntries(e) # {} /\ group.epoch < LastGroupEpoch
  /\ group' = [group EXCEPT
       !.members = [n \in DOMAIN @ |-> IF n \in ActiveEntries(e)
                                       THEN [@[n] EXCEPT !.status = "removed"] ELSE @[n]],
       !.leafs = Without(@, e), !.ratchets = Without(@, e), !.epoch = @ + 1]
  /\ UNCHANGED <<posted, opened, accepted>>

\* A role is not part of the key schedule: the epoch stays.
UpdateMemberRole(e, role) ==
  /\ group.st = "active" /\ ActiveEntries(e) # {}
  /\ group' = [group EXCEPT
       !.members = [n \in DOMAIN @ |-> IF n \in ActiveEntries(e)
                                       THEN [@[n] EXCEPT !.role = role] ELSE @[n]]]
  /\ UNCHANGED <<posted, opened, accepted>>

\* The ratchet of the updating member goes on.
RekeyGroup(e) ==
  /\ group.st = "active" /\ ActiveEntries(e) # {} /\ group.epoch < LastGroupEpoch
  /\ group' = [group EXCEPT !.leafs[e] = Leaf(e, group.epoch + 1), !.epoch = @ + 1]
  /\ UNCHANGED <<posted, opened, accepted>>

CloseGroup ==
  /\ group.st = "active"
  /\ group' = [group EXCEPT !.st = "closed", !.leafs = <<>>, !.ratchets = <<>>]
  /\ UNCHANGED <<posted, opened, accepted>>

-----------------------------------------------------------------------------
(* Messages *)

\* What the tag of a message stands for: its key, and the binding it signs.  The mode
\* is no part of it.
TagOf(leaf, m, class) ==
  <<leaf, m.epoch, m.sender, m.generation, m.seq, m.body, class>>

Body(text, veiled) == [text |-> text, veiled |-> veiled]

\* What the callers of protect() have to say.
Plain == Body(1, FALSE)

\* The XOR with the keystream, which only one mode asks for.
Veils(mode) == mode = "confidential_and_authenticated"

Veil(mode, body) == IF Veils(mode) THEN Body(body.text, ~body.veiled) ELSE body

\* protect(): the ratchet moves on also when the binding turns out invalid (an
\* unknown class).
Protect(e, mode, class, seq) ==
  /\ IsMemberActive(e) /\ group.ratchets[e] < MaxRatchet
  /\ group' = [group EXCEPT !.ratchets[e] = @ + 1]
  /\ LET m == [epoch |-> group.epoch, sender |-> e, seq |-> seq, mode |-> mode,
               body |-> Veil(mode, Plain),
               generation |-> group.ratchets[e] + 1, class |-> class]
     IN posted' = IF class \in Classes
                  THEN posted \cup {[msg |-> m, tag |-> TagOf(group.leafs[e], m, class)]}
                  ELSE posted
  /\ UNCHANGED <<opened, accepted>>

\* The entry unprotect() and is_member_active() differ on: the first, whatever its status.
FirstEntry(e) ==
  CHOOSE n \in DOMAIN group.members :
    /\ group.members[n].endpoint = e
    /\ \A k \in 1..(n - 1) : group.members[k].endpoint # e

Number(m) == [epoch |-> m.epoch, sender |-> m.sender, seq |-> m.seq]

\* sliding_replay_window::check, of the window of the message's epoch and sender: a number
\* is refused when it was accepted, or lies the window's width or more behind one that was.
InWindow(m) ==
  /\ m.seq # 0 /\ Number(m) \notin opened
  /\ \A k \in opened : k.epoch = m.epoch /\ k.sender = m.sender => k.seq - m.seq < GroupWindow

\* Mutant of Unprotect: the replay window is not asked.
MutantUnprotect(m, tag, class) ==
  IF group.st # "active" THEN "group_inactive"
  ELSE IF m.epoch # group.epoch THEN "wrong_epoch"
  ELSE IF m.sender \notin DOMAIN group.leafs THEN "member_not_active"
  ELSE IF tag # TagOf(group.leafs[m.sender], m, class) THEN "signature_invalid"
  ELSE "ok"

\* The verdict of unprotect() on a message and the class its receiver expects.
Unprotect(m, tag, class) ==
  IF group.st # "active" THEN "group_inactive"
  ELSE IF m.epoch < group.epoch THEN "stale_epoch"
  ELSE IF m.epoch > group.epoch THEN "future_epoch"
  ELSE IF \A n \in DOMAIN group.members : group.members[n].endpoint # m.sender THEN "member_not_found"
  ELSE IF group.members[FirstEntry(m.sender)].status # "active" THEN "member_not_active"
  ELSE IF m.sender \notin DOMAIN group.leafs THEN "impersonation_detected"
  ELSE IF ~InWindow(m) THEN "replay_rejected"
  ELSE IF tag # TagOf(group.leafs[m.sender], m, class) THEN "signature_invalid"
  ELSE "ok"

Opens(m, tag, class) ==
  /\ Unprotect(m, tag, class) = "ok"
  /\ opened' = opened \cup {Number(m)}
  /\ accepted' = accepted \cup
       {[msg |-> m, class |-> class, epoch |-> group.epoch, member |-> IsMemberActive(m.sender),
         read |-> Veil(m.mode, m.body),
         nth |-> 1 + Cardinality({a \in accepted : Number(a.msg) = Number(m)})]}
  /\ UNCHANGED <<group, posted>>

\* A message as it may arrive: as it was posted, or with one field altered.
Altered(p) ==
  {p} \cup {[p EXCEPT !.msg.body = b] : b \in {Body(1, ~p.msg.body.veiled), Body(2, FALSE)}}
      \cup {[p EXCEPT !.msg.mode = m] : m \in Modes \cup {"unknown"}}
      \cup {[p EXCEPT !.msg.seq = s] : s \in {0} \cup {send[3] : send \in Sends}}
      \cup {[p EXCEPT !.msg.sender = e] : e \in Endpoints}
      \cup {[p EXCEPT !.msg.epoch = n] : n \in 1..LastGroupEpoch}

UnprotectGroupMessage(p, class) == Opens(p.msg, p.tag, class)

\* verify_group_message is told no generation and no mode: it takes the message_seq for
\* the one and leaves the payload as it is.
VerifyGroupMessage(p, class) ==
  Opens([p.msg EXCEPT !.generation = p.msg.seq, !.mode = "authenticated_only"], p.tag, class)

GroupNext ==
  \/ \E e \in Endpoints : CreateGroup(e) \/ RemoveMember(e) \/ RekeyGroup(e)
  \/ \E e \in Endpoints, role \in Roles : AddMember(e, role) \/ UpdateMemberRole(e, role)
  \/ CloseGroup
  \/ Cardinality(posted) < MaxMessages
     /\ \E e \in Endpoints, send \in Sends : Protect(e, send[1], send[2], send[3])
  \/ \E p \in posted : \E q \in Altered(p), class \in Classes :
       UnprotectGroupMessage(q, class) \/ VerifyGroupMessage(q, class)

GroupSpec == GroupInit /\ [][GroupNext]_groupVars

-----------------------------------------------------------------------------
(* Properties *)

\* Secrets and ratchets exist for exactly the active members of a live group, an
\* endpoint has one active entry at most, and the epoch counts the commits.
SecretsOfMembers ==
  /\ group.st \in {"none", "active", "closed"} /\ group.epoch \in 0..LastGroupEpoch
  /\ \A e \in Endpoints : Cardinality(ActiveEntries(e)) <= 1
  /\ DOMAIN group.leafs = IF group.st = "active" THEN ActiveMembers ELSE {}
  /\ DOMAIN group.ratchets = DOMAIN group.leafs
  /\ \A e \in DOMAIN group.leafs : group.leafs[e].owner = e /\ group.leafs[e].made <= group.epoch

\* What a receiver accepts was protected as it is but for its mode, for the class it
\* expects, in the epoch of that moment by an endpoint that is a member at that moment.
\* It reads the sender's text if the mode says of the encryption what the sender's said,
\* and noise if not: the tag does not cover the mode.  No sequence number of a sender is
\* accepted twice in an epoch (unprotect, encode_group_authenticator_input,
\* replay_windows_).
AcceptedFromMember ==
  /\ \A a \in accepted :
       /\ a.class = a.msg.class /\ a.member /\ a.epoch = a.msg.epoch
       /\ \E p \in posted :
            /\ [a.msg EXCEPT !.mode = p.msg.mode] = p.msg
            /\ a.read = Plain <=> (Veils(a.msg.mode) <=> Veils(p.msg.mode))
  /\ \A a, b \in accepted : Number(a.msg) = Number(b.msg) => a = b

Joined(e) == Cardinality({n \in DOMAIN group.members : group.members[n].endpoint = e})

\* Numbers of the message's sender that were accepted in its epoch.
Heard(m) ==
  {a.msg.seq : a \in {x \in accepted : x.msg.epoch = m.epoch /\ x.msg.sender = m.sender}}

\* A member that never left is heard: what it protects in this epoch can be opened, in
\* whatever order it comes and whatever altered or repeated messages came before it,
\* until one message of its number was opened or one GroupWindow or more ahead of it
\* (unprotect updates the window only after the tag; sliding_replay_window).
FirstMembersAreHeard ==
  \A p \in posted :
    /\ p.msg.epoch = group.epoch /\ IsMemberActive(p.msg.sender)
    /\ Joined(p.msg.sender) = 1
    => LET late == \E n \in Heard(p.msg) : n = p.msg.seq \/ n >= p.msg.seq + GroupWindow IN
       Unprotect(p.msg, p.tag, p.msg.class) = (IF late THEN "replay_rejected" ELSE "ok")

\* A receiver takes nothing but what members sent, each message once, and of a member that
\* never left all that comes no later than its window allows (unprotect); the secrets are
\* those of exactly the members.
MembersAreHeard == SecretsOfMembers /\ AcceptedFromMember /\ FirstMembersAreHeard
=============================================================================
