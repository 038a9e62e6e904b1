----------------------------- MODULE Endorsing -----------------------------
(***************************************************************************)
(* The endorsing side of node activation: EndorsingState of                *)
(* wispers-connect/src/serving.rs.  An activated node (the endorser) hands *)
(* out activation codes, pairs with the nodes that prove knowledge of one, *)
(* and signs the roster that adds a paired node.                           *)
(*                                                                         *)
(* Everything between the endorser and the joining nodes goes through the  *)
(* hub, which may lose, delay, repeat, reorder and misdirect messages and  *)
(* may ask for a signature under any roster it likes.  It cannot compute a *)
(* MAC without the secret: a message carries in mac the secret its MAC was *)
(* computed with, and its payload cannot be changed after that.            *)
(*                                                                         *)
(* Secrets and nonces are random bytes in the code; here they are numbers  *)
(* drawn in order and never drawn twice.  The Vec of secrets is a set: the *)
(* code only searches it, counts it and swap_removes from it.              *)
(***************************************************************************)
EXTENDS Integers, FiniteSets

CONSTANTS
    Joiners,        \* node numbers of the nodes that want to be activated
    Self,           \* node number of the endorser
    MaxActive,      \* MAX_ACTIVE_ACTIVATIONS
    Profiles,       \* TtlProfile
    Ttl,            \* Ttl[p] is the lifetime of a code of profile p, in ticks
    MaxTime,        \* bound on the clock
    MaxSecrets,     \* bound on the activation codes ever generated
    MaxNonces,      \* bound on the nonces ever generated
    HubKey,         \* a public key that belongs to no node
    NoEntry         \* stands for a node that a roster's nodes list omits

ASSUME EndorsingAssumption ==
    /\ IsFiniteSet(Joiners)
    /\ Self \notin Joiners
    /\ {HubKey, NoEntry} \cap (Joiners \cup {Self}) = {}
    /\ HubKey # NoEntry
    /\ MaxActive \in Nat
    /\ Ttl \in [Profiles -> Nat]
    /\ MaxTime \in Nat
    /\ MaxSecrets \in Nat
    /\ MaxNonces \in Nat

VARIABLES
    now,                    \* Instant::now()
    pairing_secrets,        \* the TimedSecrets
    pending_endorsements,   \* new node number -> PendingEndorsement
    issued,                 \* number of secrets generated
    nonces,                 \* number of nonces generated
    sent,                   \* PairNodesMessages the hub has seen
    paired,                 \* history: the pairings that succeeded
    cosigned                \* history: the signatures handed out

vars == <<now, pairing_secrets, pending_endorsements, issued, nonces, sent,
          paired, cosigned>>

Numbers == Joiners \cup {Self}
\* A node's public key is named by its number: numbers and key pairs are
\* assigned one to one.
PublicKey(n) == n
Keys == Numbers \cup {HubKey}

TimedSecret == [secret : 1..MaxSecrets, expires_at : Int]
PendingEndorsement ==
    [new_node_pubkey : Keys, new_node_nonce : 1..MaxNonces, our_nonce : 1..MaxNonces]
PairNodesMessage ==
    [sender : Numbers, receiver : Numbers, key : Keys, nonce : 1..MaxNonces,
     reply_nonce : 0..MaxNonces, mac : 1..MaxSecrets]
\* A successful pairing: the code, its expiry, the time, and what was agreed.
Pairing ==
    [secret : 1..MaxSecrets, expires_at : Int, at : 0..MaxTime, sender : Numbers,
     key : Keys, new_node_nonce : 1..MaxNonces, our_nonce : 1..MaxNonces]
\* The roster that roster_cosign is asked to sign for a new node: of its latest
\* addendum the kind, the nonces, the endorser and the number it activates, and
\* the keys that the nodes list holds for the paired node and for the endorser.
\* It never looks at the number the addendum activates, which may be another one
\* than the node it is asked to sign for, nor at the rest of the roster, which
\* is left out.
CosignRoster ==
    [kind : {"activation", "revocation"}, new_node_nonce : 1..MaxNonces,
     endorser_nonce : 1..MaxNonces, endorser : Numbers, activates : Numbers,
     new_node_key : Keys \cup {NoEntry}, endorser_key : Keys \cup {NoEntry}]

Init ==
    /\ now = 0
    /\ pairing_secrets = {}
    /\ pending_endorsements = [n \in {} |-> {}]
    /\ issued = 0
    /\ nonces = 0
    /\ sent = {}
    /\ paired = {}
    /\ cosigned = {}

-----------------------------------------------------------------------------
(* Operations of EndorsingState. *)

\* prune_expired: the secrets that survive.
Unexpired == {ts \in pairing_secrets : ts.expires_at > now}

\* Codes plus pending cosigns, the number MAX_ACTIVE_ACTIVATIONS limits.
ActiveActivations(secrets, pending) ==
    Cardinality(secrets) + Cardinality(DOMAIN pending)

\* Mutant: the limit is compared with > instead of >=.
TooManyOffByOne ==
    ActiveActivations(Unexpired, pending_endorsements) > MaxActive

TooManyActivationSessions ==
    ActiveActivations(Unexpired, pending_endorsements) >= MaxActive

\* generate_activation_code_with_ttl returns TooManyActivationSessions.
RefuseActivationCode ==
    /\ TooManyActivationSessions
    /\ pairing_secrets' = Unexpired
    /\ UNCHANGED <<now, pending_endorsements, issued, nonces, sent, paired, cosigned>>

\* generate_activation_code_with_ttl succeeds.
GenerateActivationCode(profile) ==
    /\ ~TooManyActivationSessions
    /\ issued < MaxSecrets
    /\ issued' = issued + 1
    /\ pairing_secrets' =
         Unexpired \cup {[secret |-> issued + 1, expires_at |-> now + Ttl[profile]]}
    /\ UNCHANGED <<now, pending_endorsements, nonces, sent, paired, cosigned>>

\* Mutant: an entry that is already there is kept.
InsertIfAbsent(pending, n, entry) ==
    [m \in DOMAIN pending \cup {n} |->
        IF m \in DOMAIN pending THEN pending[m] ELSE entry]

\* HashMap::insert: the entry of node n replaces an older one.
Insert(pending, n, entry) ==
    [m \in DOMAIN pending \cup {n} |-> IF m = n THEN entry ELSE pending[m]]

\* Mutant: the pending endorsement stays after the signature.
RemoveNothing(pending, n) == pending

\* HashMap::remove.
Remove(pending, n) == [m \in DOMAIN pending \ {n} |-> pending[m]]

\* Mutant: secrets that have expired are still searched.
VerifyingUnpruned(m) == {ts \in pairing_secrets : ts.secret = m.mac}

\* The secret that pair_nodes finds for message m, if any (verify_mac).
Verifying(m) == {ts \in Unexpired : ts.secret = m.mac}

\* Mutant: the secret stays usable after a pairing.
ConsumeNothing(ts) == Unexpired

\* swap_remove of the secret that verified.
Consume(ts) == Unexpired \ {ts}

\* Mutant: the nonce the sender echoes is stored instead of the one it drew.
PendingOfEchoedNonce(m, our_nonce) ==
    [new_node_pubkey |-> m.key, new_node_nonce |-> m.reply_nonce,
     our_nonce |-> our_nonce]

\* What pair_nodes remembers of a message it accepted.
PendingOf(m, our_nonce) ==
    [new_node_pubkey |-> m.key, new_node_nonce |-> m.nonce, our_nonce |-> our_nonce]

\* pair_nodes returns an error: no live secret verifies the MAC.  Expired
\* secrets are pruned all the same.
RejectPairNodes(m) ==
    /\ Verifying(m) = {}
    /\ pairing_secrets' = Unexpired
    /\ UNCHANGED <<now, pending_endorsements, issued, nonces, sent, paired, cosigned>>

\* pair_nodes succeeds: the secret is consumed, the joiner's key and nonce are
\* remembered with a fresh nonce of ours, and the reply, MACed with the same
\* secret, goes back to the hub.
PairNodes(m) ==
    /\ nonces < MaxNonces
    /\ nonces' = nonces + 1
    /\ \E ts \in Verifying(m) :
         /\ pairing_secrets' = Consume(ts)
         /\ paired' = paired \cup
              {[secret |-> ts.secret, expires_at |-> ts.expires_at, at |-> now,
                sender |-> m.sender, key |-> m.key, new_node_nonce |-> m.nonce,
                our_nonce |-> nonces + 1]}
    /\ pending_endorsements' =
         Insert(pending_endorsements, m.sender, PendingOf(m, nonces + 1))
    /\ sent' = sent \cup
         {[sender |-> Self, receiver |-> m.sender, key |-> PublicKey(Self),
           nonce |-> nonces + 1, reply_nonce |-> m.nonce, mac |-> m.mac]}
    /\ UNCHANGED <<now, issued, cosigned>>

\* roster_cosign for new node n passes every check and signs; any failed check
\* returns an error and changes nothing.
RosterCosign(n, roster) ==
    /\ n \in DOMAIN pending_endorsements
    /\ roster.kind = "activation"
    /\ roster.new_node_nonce = pending_endorsements[n].new_node_nonce
    /\ roster.endorser_nonce = pending_endorsements[n].our_nonce
    /\ roster.endorser = Self
    /\ roster.new_node_key = pending_endorsements[n].new_node_pubkey
    /\ roster.endorser_key = PublicKey(Self)
    /\ cosigned' = cosigned \cup {[new_node |-> n, roster |-> roster]}
    /\ pending_endorsements' = Remove(pending_endorsements, n)
    /\ UNCHANGED <<now, pairing_secrets, issued, nonces, sent, paired>>

-----------------------------------------------------------------------------
(* The environment. *)

\* A joining node was told code s and calls Node::activate: it sends its key
\* and a fresh nonce under that code's MAC.  The same code may be typed into
\* several nodes and a node may try again.
SendPairNodes(n, s) ==
    /\ s \in 1..issued
    /\ nonces < MaxNonces
    /\ nonces' = nonces + 1
    /\ sent' = sent \cup
         {[sender |-> n, receiver |-> Self, key |-> PublicKey(n),
           nonce |-> nonces + 1, reply_nonce |-> 0, mac |-> s]}
    /\ UNCHANGED <<now, pairing_secrets, pending_endorsements, issued, paired, cosigned>>

Tick ==
    /\ now < MaxTime
    /\ now' = now + 1
    /\ UNCHANGED <<pairing_secrets, pending_endorsements, issued, nonces, sent,
                   paired, cosigned>>

Next ==
    \/ Tick
    \/ \E p \in Profiles : GenerateActivationCode(p)
    \/ RefuseActivationCode
    \/ \E n \in Joiners, s \in 1..MaxSecrets : SendPairNodes(n, s)
    \/ \E m \in sent : PairNodes(m)
    \/ \E m \in sent : RejectPairNodes(m)
    \/ \E n \in DOMAIN pending_endorsements :
         \E roster \in CosignRoster : RosterCosign(n, roster)

Spec == Init /\ [][Next]_vars

-----------------------------------------------------------------------------
(* Properties. *)

\* Every variable has its type: in particular a pending endorsement holds a nonce
\* that somebody drew.
TypeOK ==
    /\ now \in 0..MaxTime
    /\ pairing_secrets \in SUBSET TimedSecret
    /\ IsFiniteSet(pairing_secrets)
    /\ DOMAIN pending_endorsements \subseteq Numbers
    /\ pending_endorsements \in [DOMAIN pending_endorsements -> PendingEndorsement]
    /\ issued \in 0..MaxSecrets
    /\ nonces \in 0..MaxNonces
    /\ sent \in SUBSET PairNodesMessage
    /\ paired \in SUBSET Pairing
    /\ cosigned \in SUBSET [new_node : Numbers, roster : CosignRoster]

\* Codes and pending cosigns together never exceed MAX_ACTIVE_ACTIVATIONS,
\* although only generate_activation_code_with_ttl looks at the limit: pair_nodes
\* adds a pending endorsement without a check of its own (serving.rs:169-238).
WithinCapacity ==
    ActiveActivations(pairing_secrets, pending_endorsements) <= MaxActive

\* An activation code is good for one pairing, however often and in whatever
\* order the hub delivers the messages MACed with it, the endorser's own reply
\* included (swap_remove, serving.rs:205).
CodesAreSingleUse ==
    \A p, q \in paired : p.secret = q.secret => p = q

\* The endorser never ends up endorsing itself: its replies carry a MAC under
\* the code too, and are refused when the hub hands them back as a request.
NeverPairsWithItself ==
    Self \notin DOMAIN pending_endorsements

\* A code pairs only while it is alive (prune_expired before the search).
PairsOnlyBeforeExpiry ==
    \A p \in paired : p.at < p.expires_at

\* A pairing buys one signature, and nothing else does.  Every signature uses up
\* a pairing that succeeded: the addendum carries its two nonces and the roster
\* lists its node with the key that was paired; no two signatures share one,
\* whatever rosters the hub asks for and in whatever order.  It is not said that
\* the addendum activates the paired node: roster_cosign does not compare the
\* two numbers (serving.rs:272-299), and the hub may ask for another.
OneSignaturePerPairing ==
    /\ \A c \in cosigned : \E p \in paired :
         /\ c.new_node = p.sender
         /\ c.roster.new_node_key = p.key
         /\ c.roster.new_node_nonce = p.new_node_nonce
         /\ c.roster.endorser_nonce = p.our_nonce
    /\ \A c, d \in cosigned :
         c.roster.endorser_nonce = d.roster.endorser_nonce => c = d

\* A node that pairs again supersedes its earlier pairing: from then on the
\* endorser signs for the later key and nonces only.
SignsLatestPairing ==
    [][\A c \in cosigned' \ cosigned : \A p \in paired :
          p.sender = c.new_node => p.our_nonce <= c.roster.endorser_nonce]_vars
=============================================================================
