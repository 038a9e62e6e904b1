----------------------------- MODULE Membership -----------------------------
(***************************************************************************)
(* The life of nodes in a connectivity group: Node and NodeStorage of      *)
(* wispers-connect/src/node.rs on every device, the endorsing state of     *)
(* their serving sessions, and the hub they all talk to.                   *)
(*                                                                         *)
(* Every call to the hub is a step of its own, so other devices act        *)
(* between the calls of one operation; answers get lost, calls time out    *)
(* while the hub still works on them, saving and deleting local state can  *)
(* fail, and a device can crash anywhere and be restored from disk.        *)
(*                                                                         *)
(* The hub is not part of the repository.  It is modelled from how the     *)
(* client uses it: it assigns fresh node numbers, refuses callers that are *)
(* not registered, verifies a submitted roster, has the endorser cosign an *)
(* activation, and stores a roster only if its version is the successor of *)
(* the stored one ("a stale local roster yields a version conflict").      *)
(***************************************************************************)
EXTENDS GroupMembership, SequencesExt

CONSTANTS
    Devices,        \* machines that run a node
    MaxNumber,      \* bound on the node numbers the hub assigns
    MaxAttempts,    \* bound on the pairings that are started
    MaxFaults,      \* bound on crashes, failed calls and removals at the hub
    NoRoster        \* no roster has been fetched

ASSUME MembershipAssumption ==
    /\ {MaxNumber, MaxAttempts, MaxFaults} \subseteq Nat
    /\ Numbers = 1..MaxNumber

\* log of GroupMembership is the roster that the hub stores.
VARIABLES
    registered,     \* hub: the numbers with a valid registration
    owner,          \* owner[k] is the device number k was assigned to
    requests,       \* hub: UpdateRoster calls it works on
    cosigned,       \* hub: those for which it has the endorser's signature
    disk,           \* disk[d]: the registration in d's NodeStateStore
    node,           \* node[d]: the Node in memory
    op,             \* op[d]: the operation in progress on it
    peek,           \* peek[d]: the roster find_peer_in_roster has fetched
    session,        \* session[d]: the number d's serving session serves
    pending,        \* pending_endorsements of all serving sessions
    attempts,       \* pairings started so far
    faults,         \* crashes, failed calls and removals so far
    removed         \* numbers whose registration was removed at the hub

bounds == <<attempts, faults, removed>>
hubVars == <<log, registered, owner, requests, cosigned>>
vars == <<log, registered, owner, requests, cosigned, disk, node, op, peek,
          session, pending, attempts, faults, removed>>

NoNumber == 0
Assigned == 1..Len(owner)

Down == [state |-> "Down", number |-> NoNumber, cache |-> <<>>]
PendingNode == [state |-> "Pending", number |-> NoNumber, cache |-> <<>>]
RegisteredNode(k) == [state |-> "Registered", number |-> k, cache |-> <<>>]
ActivatedNode(k, roster) == [state |-> "Activated", number |-> k, cache |-> roster]
RevokedNode(k) == [state |-> "Revoked", number |-> k, cache |-> <<>>]

Idle == [pc |-> "idle"]
\* Waiting for the hub's answer to UpdateRoster; then names the operation.
Await(q, then) == [pc |-> "await", req |-> q, then |-> then, answer |-> "none"]

Init ==
    /\ log = <<>>
    /\ registered = {}
    /\ owner = <<>>
    /\ requests = {}
    /\ cosigned = {}
    /\ disk = [d \in Devices |-> NoNumber]
    /\ node = [d \in Devices |-> PendingNode]
    /\ op = [d \in Devices |-> Idle]
    /\ peek = [d \in Devices |-> NoRoster]
    /\ session = [d \in Devices |-> NoNumber]
    /\ pending = {}
    /\ attempts = 0
    /\ faults = 0
    /\ removed = {}

-----------------------------------------------------------------------------
(* Restoring, refreshing, crashing. *)

\* Mutant: a number that is not active counts as revoked.
ClassifiedByActivity(k, roster) ==
    IF k \in Active(roster) THEN ActivatedNode(k, roster) ELSE RevokedNode(k)

\* The state in which restore_or_init_node and refresh_membership put a node
\* of number k after reading a roster.
Classified(k, roster) ==
    IF k \notin Listed(roster) THEN RegisteredNode(k)
    ELSE IF k \in Active(roster) THEN ActivatedNode(k, roster)
    ELSE RevokedNode(k)

\* No operation that needs the Node to itself (&mut self) is possible while
\* another one runs on it.
Exclusive(d) == op[d] = Idle /\ peek[d] = NoRoster

\* NodeStorage::restore_or_init_node.  A registration the hub no longer knows
\* is an error and leaves no node.
Restore(d) ==
    /\ node[d].state = "Down"
    /\ disk[d] # NoNumber => disk[d] \in registered
    /\ node' = [node EXCEPT ![d] =
                  IF disk[d] = NoNumber THEN PendingNode ELSE Classified(disk[d], log)]
    /\ UNCHANGED <<hubVars, disk, op, peek, session, pending, bounds>>

\* NodeStorage::delete_state, when the node cannot be restored.
DeleteState(d) ==
    /\ node[d].state = "Down"
    /\ disk[d] \notin registered \cup {NoNumber}
    /\ disk' = [disk EXCEPT ![d] = NoNumber]
    /\ UNCHANGED <<hubVars, node, op, peek, session, pending, bounds>>

\* Node::refresh_membership
Refresh(d) ==
    /\ node[d].number \in registered
    /\ Exclusive(d)
    /\ node' = [node EXCEPT ![d] = Classified(node[d].number, log)]
    /\ UNCHANGED <<hubVars, disk, op, peek, session, pending, bounds>>

\* The pairings that do not live in d's serving session.
PendingElsewhere(d) == {p \in pending : p.endorser # session[d]}

Fault == faults < MaxFaults /\ faults' = faults + 1

\* The process ends: the Node, its operation and its serving session are gone.
\* What the hub was asked to do goes on.
Crash(d) ==
    /\ node[d].state # "Down"
    /\ node' = [node EXCEPT ![d] = Down]
    /\ op' = [op EXCEPT ![d] = Idle]
    /\ peek' = [peek EXCEPT ![d] = NoRoster]
    /\ session' = [session EXCEPT ![d] = NoNumber]
    /\ pending' = PendingElsewhere(d)
    /\ Fault
    /\ UNCHANGED <<hubVars, disk, attempts, removed>>

\* A hub call fails or times out, or local state cannot be saved or deleted: the
\* operation returns the error and the Node keeps the state it had.  The hub may
\* have done, or may still do, what it was asked; a failed save or delete may or
\* may not have reached the disk.
Fail(d) ==
    /\ op[d] # Idle
    /\ Fault
    /\ op' = [op EXCEPT ![d] = Idle]
    /\ \/ UNCHANGED disk
       \/ op[d].pc = "save" /\ disk' = [disk EXCEPT ![d] = op[d].number]
       \/ op[d].pc = "delete" /\ disk' = [disk EXCEPT ![d] = NoNumber]
    /\ UNCHANGED <<hubVars, node, peek, session, pending, attempts, removed>>

\* The hub refused the roster, and the operation returns its error.
ReturnRefusal(d) ==
    /\ op[d].pc = "await"
    /\ \/ op[d].answer = "error"
       \/ op[d].answer = "unauthenticated" /\ op[d].then # "logout"
    /\ op' = [op EXCEPT ![d] = Idle]
    /\ UNCHANGED <<hubVars, disk, node, peek, session, pending, bounds>>

-----------------------------------------------------------------------------
(* register *)

\* Node::register: the hub assigns a number and answers with the registration.
Register(d) ==
    /\ node[d].state = "Pending"
    /\ Exclusive(d)
    /\ Len(owner) < MaxNumber
    /\ owner' = Append(owner, d)
    /\ registered' = registered \cup {Len(owner) + 1}
    /\ op' = [op EXCEPT ![d] = [pc |-> "save", number |-> Len(owner) + 1]]
    /\ UNCHANGED <<log, requests, cosigned, disk, node, peek, session, pending, bounds>>

\* The registration is saved, then the node becomes Registered.
SaveRegistration(d) ==
    /\ op[d].pc = "save"
    /\ disk' = [disk EXCEPT ![d] = op[d].number]
    /\ node' = [node EXCEPT ![d] = RegisteredNode(op[d].number)]
    /\ op' = [op EXCEPT ![d] = Idle]
    /\ UNCHANGED <<hubVars, peek, session, pending, bounds>>

-----------------------------------------------------------------------------
(* activate *)

\* Node::activate with a fresh code of endorser e: the pairing request leaves.
StartActivation(d, e) ==
    /\ node[d].state = "Registered"
    /\ Exclusive(d)
    /\ attempts < MaxAttempts
    /\ attempts' = attempts + 1
    /\ op' = [op EXCEPT ![d] = [pc |-> "pair", endorser |-> e, nonce |-> attempts + 1]]
    /\ UNCHANGED <<hubVars, disk, node, peek, session, pending, faults, removed>>

\* Node::start_serving.  A new session replaces the old one and starts with an
\* empty endorsing state; it holds its own copy of the registration and outlives
\* the Node's state.
StartServing(d) ==
    /\ node[d].state \in {"Registered", "Activated"}
    /\ node[d].number \in registered
    /\ session' = [session EXCEPT ![d] = node[d].number]
    /\ pending' = PendingElsewhere(d)
    /\ UNCHANGED <<hubVars, disk, node, op, peek, bounds>>

\* The serving session of e, reached through the hub.
Serving(e) == e \in registered /\ \E d \in Devices : session[d] = e

\* pair_nodes at the endorser, which replaces an older pairing of the node, and
\* the answer to the new node.
Pair(d) ==
    /\ op[d].pc = "pair"
    /\ node[d].number \in registered
    /\ Serving(op[d].endorser)
    /\ pending' =
         {p \in pending : p.endorser # op[d].endorser \/ p.node # node[d].number}
         \cup {[endorser |-> op[d].endorser, node |-> node[d].number,
                nonce |-> op[d].nonce]}
    /\ op' = [op EXCEPT ![d].pc = "fetch"]
    /\ UNCHANGED <<hubVars, disk, node, peek, session, bounds>>

\* verify_roster of the base roster with the endorser as the verifier.
BaseVerifies(roster, e) == roster = <<>> \/ e \in Active(roster)

\* The new node fetches the roster, verifies it, and submits the successor
\* with its signature.
SubmitActivation(d) ==
    /\ op[d].pc = "fetch"
    /\ node[d].number \in registered
    /\ BaseVerifies(log, op[d].endorser)
    /\ LET q == [device |-> d, number |-> node[d].number, base |-> log,
                 change |-> Activated(node[d].number, op[d].endorser),
                 nonce |-> op[d].nonce]
       IN  /\ requests' = requests \cup {q}
           /\ op' = [op EXCEPT ![d] = Await(q, "activate")]
    /\ UNCHANGED <<log, registered, owner, cosigned, disk, node, peek, session,
                   pending, bounds>>

\* The cosigned roster arrives and verifies: the node is Activated.
FinishActivation(d) ==
    /\ op[d].pc = "await" /\ op[d].then = "activate" /\ op[d].answer = "ok"
    /\ node' = [node EXCEPT ![d] =
                  ActivatedNode(@.number, Append(op[d].req.base, op[d].req.change))]
    /\ op' = [op EXCEPT ![d] = Idle]
    /\ UNCHANGED <<hubVars, disk, peek, session, pending, bounds>>

-----------------------------------------------------------------------------
(* The hub's UpdateRoster. *)

Answered(q, answer) ==
    [op EXCEPT ![q.device] =
        IF @.pc = "await" /\ @.req = q THEN [@ EXCEPT !.answer = answer] ELSE @]

Acceptable(q) ==
    /\ q.number \in registered
    /\ Len(q.base) = Len(log)
    /\ LegalChange(q.base, q.change)

\* The pairing an activation rests on.
PairingOf(q) == [endorser |-> q.change.by, node |-> q.number, nonce |-> q.nonce]

\* The endorser's part, roster_cosign: the pairing matches, it is used up, and
\* the signature goes to the hub.
CosignAtEndorser(q) ==
    /\ q \in requests \ cosigned
    /\ q.change.kind = "activation"
    /\ Acceptable(q)
    /\ Serving(q.change.by)
    /\ PairingOf(q) \in pending
    /\ pending' = pending \ {PairingOf(q)}
    /\ cosigned' = cosigned \cup {q}
    /\ UNCHANGED <<log, registered, owner, requests, disk, node, op, peek, session,
                   bounds>>

\* The fully signed roster becomes the group's roster.
StoreRoster(q) ==
    /\ q \in requests
    /\ q.change.kind = "activation" => q \in cosigned
    /\ Acceptable(q)
    /\ Len(log) < MaxVersion
    /\ log' = Append(q.base, q.change)
    /\ requests' = requests \ {q}
    /\ cosigned' = cosigned \ {q}
    /\ op' = Answered(q, "ok")
    /\ UNCHANGED <<registered, owner, disk, node, peek, session, pending, bounds>>

\* The hub refuses: caller unknown, version conflict, illegal change, or the
\* endorser is away or refuses to sign.
RefuseRoster(q) ==
    /\ q \in requests
    /\ \/ ~Acceptable(q)
       \/ /\ q.change.kind = "activation" /\ q \notin cosigned
          /\ ~Serving(q.change.by) \/ PairingOf(q) \notin pending
    /\ requests' = requests \ {q}
    /\ cosigned' = cosigned \ {q}
    /\ op' = Answered(q, IF q.number \in registered THEN "error" ELSE "unauthenticated")
    /\ UNCHANGED <<log, registered, owner, disk, node, peek, session, pending, bounds>>

\* A registration is removed at the hub, as the client allows for ("the node was
\* removed server-side").
RemoveNode(k) ==
    /\ k \in registered
    /\ registered' = registered \ {k}
    /\ removed' = removed \cup {k}
    /\ Fault
    /\ UNCHANGED <<log, owner, requests, cosigned, disk, node, op, peek, session,
                   pending, attempts>>

-----------------------------------------------------------------------------
(* revoke_node, logout *)

\* submit_revocation from the cached roster.
SubmitRevocation(d, x, then) ==
    LET q == [device |-> d, number |-> node[d].number, base |-> node[d].cache,
              change |-> RevokedBy(x, node[d].number), nonce |-> 0]
    IN  /\ requests' = requests \cup {q}
        /\ op' = [op EXCEPT ![d] = Await(q, then)]
        /\ UNCHANGED <<log, registered, owner, cosigned, disk, node, peek, session,
                       pending, bounds>>

\* Node::revoke_node(x).  It takes &self: a peer lookup may be under way.
StartRevoke(d, x) ==
    /\ node[d].state = "Activated"
    /\ op[d] = Idle
    /\ x # node[d].number
    /\ x \in Active(node[d].cache)
    /\ SubmitRevocation(d, x, "revoke")

\* Mutant: the submitted roster is cached whatever the hub answered.
FinishRevokeUnanswered(d) ==
    /\ op[d].pc = "await" /\ op[d].then = "revoke" /\ op[d].answer # "none"
    /\ node' = [node EXCEPT ![d].cache = Append(op[d].req.base, op[d].req.change)]
    /\ op' = [op EXCEPT ![d] = Idle]
    /\ UNCHANGED <<hubVars, disk, peek, session, pending, bounds>>

\* The cached roster becomes the one submitted, whatever it was in between.
FinishRevoke(d) ==
    /\ op[d].pc = "await" /\ op[d].then = "revoke" /\ op[d].answer = "ok"
    /\ node' = [node EXCEPT ![d].cache = Append(op[d].req.base, op[d].req.change)]
    /\ op' = [op EXCEPT ![d] = Idle]
    /\ UNCHANGED <<hubVars, disk, peek, session, pending, bounds>>

\* Mutant: the check counts the listed nodes, revoked ones included.
LastListedNode(roster) == Cardinality(Listed(roster)) <= 1

LastActiveNode(roster) == Cardinality(Active(roster)) <= 1

\* Node::logout.  Pending only deletes local state; Registered and Revoked
\* deregister first; Activated revokes itself before that.
StartLogout(d) ==
    /\ node[d].state # "Down"
    /\ Exclusive(d)
    /\ CASE node[d].state = "Pending" ->
              /\ op' = [op EXCEPT ![d] = [pc |-> "delete"]]
              /\ UNCHANGED <<hubVars, disk, node, peek, session, pending, bounds>>
         [] node[d].state \in {"Registered", "Revoked"} ->
              /\ op' = [op EXCEPT ![d] = [pc |-> "deregister"]]
              /\ UNCHANGED <<hubVars, disk, node, peek, session, pending, bounds>>
         [] node[d].state = "Activated" ->
              /\ ~LastActiveNode(node[d].cache)
              /\ SubmitRevocation(d, node[d].number, "logout")

\* Mutant: a version conflict is taken for "already removed".
AlreadyRemovedOnAnyError(answer) == answer \in {"unauthenticated", "error"}

\* is_unauthenticated or is_not_found
AlreadyRemoved(answer) == answer = "unauthenticated"

\* The self-revocation is stored: go on to deregister.  A caller the hub does
\* not know was removed already: skip to the local cleanup.
ContinueLogout(d) ==
    /\ op[d].pc = "await" /\ op[d].then = "logout"
    /\ \/ /\ op[d].answer = "ok"
          /\ op' = [op EXCEPT ![d] = [pc |-> "deregister"]]
       \/ /\ AlreadyRemoved(op[d].answer)
          /\ op' = [op EXCEPT ![d] = [pc |-> "delete"]]
    /\ UNCHANGED <<hubVars, disk, node, peek, session, pending, bounds>>

\* DeregisterNode; a caller the hub does not know counts as done.  When the answer
\* gets lost, Fail follows.
Deregister(d) ==
    /\ op[d].pc = "deregister"
    /\ registered' = registered \ {node[d].number}
    /\ op' = [op EXCEPT ![d] = [pc |-> "delete"]]
    /\ UNCHANGED <<log, owner, requests, cosigned, disk, node, peek, session, pending,
                   bounds>>

\* Local state is deleted and the node is Pending again.
FinishLogout(d) ==
    /\ op[d].pc = "delete"
    /\ disk' = [disk EXCEPT ![d] = NoNumber]
    /\ node' = [node EXCEPT ![d] = PendingNode]
    /\ op' = [op EXCEPT ![d] = Idle]
    /\ UNCHANGED <<hubVars, peek, session, pending, bounds>>

-----------------------------------------------------------------------------
(* find_peer_in_roster, for connect_udp and connect_quic *)

\* A peer that the cached roster does not list as active is looked for in a
\* fresh one, which must verify.  &self: a revoke_node may be under way.
FetchPeer(d) ==
    /\ node[d].state = "Activated"
    /\ op[d].pc = "idle" \/ (op[d].pc = "await" /\ op[d].then = "revoke")
    /\ peek[d] = NoRoster
    /\ node[d].number \in registered \cap Active(log)
    /\ Active(log) \ Active(node[d].cache) # {}
    /\ peek' = [peek EXCEPT ![d] = log]
    /\ UNCHANGED <<hubVars, disk, node, op, session, pending, bounds>>

\* Mutant: a lookup that fetched nothing still writes the cache.
CacheUnfetched(d) ==
    /\ node[d].state = "Activated"
    /\ node' = [node EXCEPT ![d].cache = peek[d]]
    /\ peek' = [peek EXCEPT ![d] = NoRoster]
    /\ UNCHANGED <<hubVars, disk, op, session, pending, bounds>>

\* The fetched roster lists the peer and replaces the cached one.
CacheFetched(d) ==
    /\ peek[d] # NoRoster
    /\ node' = [node EXCEPT ![d].cache = peek[d]]
    /\ peek' = [peek EXCEPT ![d] = NoRoster]
    /\ UNCHANGED <<hubVars, disk, op, session, pending, bounds>>

-----------------------------------------------------------------------------
Next ==
    \/ \E d \in Devices :
         \/ Restore(d) \/ DeleteState(d) \/ Refresh(d)
         \/ Crash(d) \/ Fail(d) \/ ReturnRefusal(d)
         \/ StartServing(d)
         \/ Register(d) \/ SaveRegistration(d)
         \/ Pair(d) \/ SubmitActivation(d) \/ FinishActivation(d)
         \/ FinishRevoke(d)
         \/ StartLogout(d) \/ ContinueLogout(d) \/ Deregister(d) \/ FinishLogout(d)
         \/ FetchPeer(d) \/ CacheFetched(d)
    \/ \E d \in Devices, k \in Assigned : StartActivation(d, k) \/ StartRevoke(d, k)
    \/ \E k \in Assigned : RemoveNode(k)
    \/ \E q \in requests : CosignAtEndorser(q) \/ StoreRoster(q) \/ RefuseRoster(q)

Spec == Init /\ [][Next]_vars

-----------------------------------------------------------------------------
(* Properties. *)

IsRoster(roster) ==
    /\ roster \in Seq(Changes(Assigned))
    /\ Len(roster) <= MaxVersion

\* Every variable has its type, and a device only ever holds numbers that the
\* hub assigned to it (register, node.rs:481-501).
TypeOK ==
    /\ IsRoster(log)
    /\ registered \subseteq Assigned /\ removed \subseteq Assigned \ registered
    /\ owner \in Seq(Devices) /\ Len(owner) <= MaxNumber
    /\ cosigned \subseteq requests
    /\ \A q \in requests : IsRoster(q.base) /\ owner[q.number] = q.device
    /\ \A d \in Devices :
         /\ \A k \in {disk[d], node[d].number, session[d]} \ {NoNumber} :
              k \in Assigned /\ owner[k] = d
         /\ IsRoster(node[d].cache)
         /\ (node[d].number = NoNumber) = (node[d].state \in {"Down", "Pending"})
         /\ op[d].pc \in {"idle", "save", "pair", "fetch", "await", "deregister", "delete"}
         /\ peek[d] = NoRoster \/ IsRoster(peek[d])
    /\ attempts \in 0..MaxAttempts /\ faults \in 0..MaxFaults
    /\ \A p \in pending : p.endorser \in Assigned /\ p.node \in Assigned

\* The roster an activated node caches, and the one a lookup is about to cache,
\* are versions the group really had and in which this node is active: no error
\* path of activate, revoke_node or find_peer_in_roster leaves a roster that was
\* built but not accepted.
CacheIsHistory ==
    \A d \in Devices :
        node[d].state = "Activated" =>
            \A roster \in {node[d].cache, peek[d]} \ {NoRoster} :
                IsPrefix(roster, log) /\ node[d].number \in Active(roster)

\* A node that calls itself Revoked has been revoked for good (the Revoked state
\* is terminal for its number: node.rs:1053, "permanently retired").
RevokedIsRetired ==
    \A d \in Devices :
        node[d].state = "Revoked" => node[d].number \in Retired(log)

\* When logout gets to wiping local state, the hub no longer knows the
\* registration, and a node that was Activated has left the roster, unless the
\* registration was removed at the hub first.  Nothing that was lost, timed out,
\* repeated or overtaken on the way leaves a zombie behind.
LogoutIsComplete ==
    \A d \in Devices :
        (op[d].pc = "delete" /\ node[d].number # NoNumber) =>
            /\ node[d].number \notin registered
            /\ node[d].state = "Activated" =>
                 node[d].number \in Retired(log) \cup removed

\* The version check alone makes the group's roster evolve as promised: each
\* stored roster extends the previous one by a change that was legal there, and
\* the last member never leaves, although every client decided on a cached or
\* fetched copy.  (GroupMembership has its state in the variable log, and
\* log here is the one that the hub stores: the mapping is the identity.)
RefinesGroupMembership == GroupSpec

\* What the comment in logout (node.rs:1241-1244) says of the nodes it goes on
\* to deregister without revoking them: Registered and Revoked are both
\* "registered with the hub but not an active roster member".
DeregistersOnlyNonMembers ==
    [][\A d \in Devices :
          /\ op[d].pc # "deregister" /\ op'[d].pc = "deregister"
          /\ node[d].state \in {"Registered", "Revoked"}
          => node[d].number \notin Active(log)]_vars
=============================================================================
