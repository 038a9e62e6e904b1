---------------------------- MODULE RosterChain ----------------------------
(***************************************************************************)
(* Nodes that extend the roster, and a hub that is trusted with nothing    *)
(* but storing it.                                                         *)
(*                                                                         *)
(* hub is the roster the hub shows.  It may show any roster it has been    *)
(* given, an empty one, or one it has edited: entries and addenda dropped, *)
(* repeated, reordered or rewritten, keys replaced by its own, signatures  *)
(* moved, additions signed with a key of its own.  The nodes act on what   *)
(* they are shown after the checks that their code makes of it, and after  *)
(* no others: a joining node and a revoker verify the roster they add to,  *)
(* an endorser does not verify the roster it is asked to cosign.           *)
(*                                                                         *)
(* Pairing is one step here, the two nodes agreeing on their nonces and    *)
(* keys; Endorsing models how it comes about.  A pairing is named by its   *)
(* position in pairings, which stands for its two nonces.                  *)
(***************************************************************************)
EXTENDS Roster, FiniteSets

CONSTANTS
    Numbers,        \* node numbers; a node's own public key is its number
    HubKey,         \* the hub's own key
    HubNode,        \* the number under which the hub tries to slip a node in
    MaxVersion,     \* bound on the version of the rosters that nodes build
    MaxPairings,    \* bound on the pairings
    MaxSigned,      \* bound on the signatures the nodes give
    MaxEdits        \* bound on the hub's edits

ASSUME RosterChainAssumption ==
    /\ HubKey \notin Numbers /\ HubNode \notin Numbers /\ HubKey # HubNode
    /\ MaxVersion \in Nat /\ MaxPairings \in Nat /\ MaxSigned \in Nat /\ MaxEdits \in Nat

VARIABLES
    hub,        \* the roster the hub shows
    kept,       \* the rosters the nodes gave it, or that it completed with a signature
    signed,     \* the signatures the nodes gave
    pairings,   \* the pairings, each with what its two nodes may still do with it
    edits       \* edits the hub made to the roster it shows

vars == <<hub, kept, signed, pairings, edits>>

\* A node's public key is named by its number.
KeyOf(n) == n

Init ==
    /\ hub = EmptyRoster
    /\ kept = {}
    /\ signed = {}
    /\ pairings = <<>>
    /\ edits = 0

-----------------------------------------------------------------------------
(* The nodes. *)

\* Node::activate of n up to the answer of e's pair_nodes: they know each
\* other's key and nonce.  activating is n's call, of which a node has one at a
\* time, and pending is the entry for n among e's pending_endorsements.
PairNodes(n, e) ==
    /\ n # e
    /\ Len(pairings) < MaxPairings
    /\ pairings' =
         Append([p \in DOMAIN pairings |->
                   LET old == pairings[p]
                   IN  [old EXCEPT !.activating = @ /\ old.new_node # n,
                                   !.pending = @ /\ ~(old.new_node = n /\ old.endorser = e)]],
                [new_node |-> n, endorser |-> e, activating |-> TRUE, pending |-> TRUE])
    /\ UNCHANGED <<hub, kept, signed, edits>>

\* The hub is given signature s, and roster r with s in its place.
Given(s, r) ==
    /\ Cardinality(signed \cup {s}) <= MaxSigned
    /\ signed' = signed \cup {s}
    /\ hub' = r
    /\ kept' = kept \cup {r}
    /\ UNCHANGED edits

\* The rest of Node::activate: the roster shown is verified with the endorser as
\* the verifier unless it is empty; the new node builds the successor, signs it
\* and submits it.  It may be in the roster already: the answer to an earlier
\* attempt can be lost.  What it is answered it verifies for itself.
Activate(p) ==
    LET n == pairings[p].new_node
        e == pairings[p].endorser
        next == IF hub.version = 0
                THEN CreateBootstrapRoster(n, KeyOf(n), e, KeyOf(e), p)
                ELSE AddActivation(hub, n, KeyOf(n), e, p)
        signature == Sign(KeyOf(n), next)
    IN  /\ pairings[p].activating
        /\ hub.version < MaxVersion
        /\ hub.version > 0 => VerifyRoster(hub, e, KeyOf(e)) = "Ok"
        /\ Given(signature, SetNewNodeSignature(next, signature))
        /\ pairings' = [pairings EXCEPT ![p].activating = FALSE]

\* The first entry for a node number has this key.
Lists(r, number, key) ==
    PositionOf(r.nodes, number) # 0 /\ r.nodes[PositionOf(r.nodes, number)].key = key

\* Mutant: the paired node's entry in the nodes list is not checked.
ListsPairedUnchecked(r, n) == TRUE

ListsPaired(r, n) == Lists(r, n, KeyOf(n))

\* roster_cosign of e for the node of pairing p.  The latest addendum must be an
\* activation with the nonces of p and e as the endorser, and the nodes list must
\* hold the two nodes' keys.  Whom the addendum activates, and whether the roster
\* under it verifies, is not looked at.
RosterCosign(p) ==
    LET n == pairings[p].new_node
        e == pairings[p].endorser
        a == Last(hub.addenda)
        signature == Sign(KeyOf(e), ClearLatestSignatures(hub))
    IN  /\ pairings[p].pending
        /\ hub.addenda # <<>>
        /\ a.kind = "activation" /\ a.nonces = p /\ a.endorser = e
        /\ ListsPaired(hub, n) /\ Lists(hub, e, KeyOf(e))
        /\ Given(signature, SetEndorserSignature(hub, signature))
        /\ pairings' = [pairings EXCEPT ![p].pending = FALSE]

\* Node::revoke_node by r, or logout when r = x: from a roster r verified, r
\* marks x, which must be active in it, and signs.
Revoke(r, x) ==
    LET next == AddRevocation(hub, x, r)
        signature == Sign(KeyOf(r), next)
    IN  /\ hub.version < MaxVersion
        /\ VerifyRoster(hub, r, KeyOf(r)) = "Ok"
        /\ x \in ActiveNumbers(hub)
        /\ Given(signature, SetRevokerSignature(next, signature))
        /\ UNCHANGED pairings

-----------------------------------------------------------------------------
(* The hub. *)

EditNode(r) ==
    {[r EXCEPT !.nodes = Append(@, Node(HubNode, HubKey))]}
    \cup UNION {{[r EXCEPT !.nodes[i].revoked = ~@],
                 [r EXCEPT !.nodes[i].key = HubKey],
                 [r EXCEPT !.nodes[i].number = HubNode],
                 [r EXCEPT !.nodes = RemoveAt(@, i)],
                 [r EXCEPT !.nodes = Append(@, r.nodes[i])],
                 [r EXCEPT !.nodes = <<r.nodes[i]>> \o RemoveAt(@, i)]} : i \in DOMAIN r.nodes}

EditAddendum(r) ==
    UNION {LET a == r.addenda[i] IN
             {[r EXCEPT !.addenda = RemoveAt(@, i), !.version = @ - 1],
              [r EXCEPT !.addenda = Append(@, a), !.version = @ + 1]}
             \cup {[r EXCEPT !.addenda[i].version = v] : v \in {a.version - 1, a.version + 1}}
             \cup IF a.kind = "activation"
                  THEN {[r EXCEPT !.addenda[i].new_node_signature = s] : s \in signed}
                       \cup {[r EXCEPT !.addenda[i].endorser_signature = s] : s \in signed}
                       \cup {[r EXCEPT !.addenda[i].nonces = p] : p \in DOMAIN pairings}
                       \cup {[r EXCEPT !.addenda[i].endorser = HubNode],
                             [r EXCEPT !.addenda[i].new_node = HubNode]}
                  ELSE {[r EXCEPT !.addenda[i].revoker_signature = s] : s \in signed}
                       \cup {[r EXCEPT !.addenda[i].revoked = n] : n \in Numbers}
           : i \in DOMAIN r.addenda}

\* Additions the hub signs itself: its own node endorsed by itself or by a
\* member, with the nonces of a pairing; a member endorsed by it, a member
\* revoked by it.
Forge(r) ==
    LET Signed(next) == SetActivationSignatures(next, Sign(HubKey, next), Sign(HubKey, next))
    IN  {Signed(AddActivation(r, HubNode, HubKey, e, p)) : e \in Numbers, p \in DOMAIN pairings}
        \cup {Signed(CreateBootstrapRoster(n, KeyOf(n), HubNode, HubKey, p)) :
                n \in Numbers, p \in DOMAIN pairings}
        \cup {Signed(CreateBootstrapRoster(HubNode, HubKey, n, KeyOf(n), p)) :
                n \in Numbers, p \in DOMAIN pairings}
        \cup {LET next == AddRevocation(r, x, v) IN
                SetRevokerSignature(next, Sign(HubKey, next)) : x, v \in Numbers}

\* The hub edits the roster it shows.
Edit ==
    /\ edits < MaxEdits
    /\ hub' \in EditNode(hub) \cup EditAddendum(hub) \cup Forge(hub)
                  \cup {[hub EXCEPT !.version = @ - 1]}
    /\ edits' = edits + 1
    /\ UNCHANGED <<kept, signed, pairings>>

\* The hub shows an earlier roster, another branch, or none at all.
Show ==
    /\ hub' \in kept \cup {EmptyRoster}
    /\ UNCHANGED <<kept, signed, pairings, edits>>

Next ==
    \/ \E n, e \in Numbers : PairNodes(n, e)
    \/ \E p \in DOMAIN pairings : Activate(p)
    \/ \E p \in DOMAIN pairings : RosterCosign(p)
    \/ \E r, x \in Numbers : Revoke(r, x)
    \/ Edit
    \/ Show

Spec == Init /\ [][Next]_vars

-----------------------------------------------------------------------------
(* What a roster's history says, without a walk. *)

\* The activations of a roster, as positions in its addenda.
Activations(r) == {i \in DOMAIN r.addenda : r.addenda[i].kind = "activation"}

\* Numbers that the first i addenda bring in, and those they revoke.
Introduced(r, i) ==
    {r.addenda[j].new_node : j \in {k \in Activations(r) : k <= i}}
    \cup {r.addenda[j].endorser : j \in {k \in Activations(r) : k = 1 /\ k <= i}}
RevokedIn(r, i) ==
    {r.addenda[j].revoked : j \in {k \in DOMAIN r.addenda \ Activations(r) : k <= i}}
ActiveAfter(r, i) == Introduced(r, i) \ RevokedIn(r, i)

\* The roster as it stood when addendum i was signed: the nodes list is append
\* only, so it is a prefix of the present one with the flags of that time.
AsSigned(r, i) ==
    LET count == Cardinality(Introduced(r, i))
    IN  ClearLatestSignatures(
          [version |-> i,
           nodes   |-> [k \in 1..count |->
                          [r.nodes[k] EXCEPT !.revoked = (@ /\ r.nodes[k].number \in RevokedIn(r, i))]],
           addenda |-> SubSeq(r.addenda, 1, i)])

\* The nodes list holds the founder and each activated node, once.
NodesMatchAddenda(r) ==
    /\ Len(r.nodes) = Cardinality(Introduced(r, r.version))
    /\ \A k \in DOMAIN r.nodes :
         /\ r.nodes[k].number \in Introduced(r, r.version)
         /\ \A j \in DOMAIN r.nodes : j < k => r.nodes[j].number # r.nodes[k].number
         /\ r.nodes[k].revoked = (r.nodes[k].number \in RevokedIn(r, r.version))

\* Each addendum was allowed when it was made, brought in the next node of the
\* list if it is an activation, and is signed by the nodes it names, with the
\* keys the roster lists for them.
LegitimateStep(r, i) ==
    LET a == r.addenda[i]
        key(n) == r.nodes[PositionOf(r.nodes, n)].key
    IN  /\ a.version = i
        /\ IF a.kind = "activation"
           THEN /\ i = 1 \/ a.endorser \in ActiveAfter(r, i - 1)
                /\ a.new_node \notin Introduced(r, i - 1) \cup {a.endorser}
                /\ r.nodes[Cardinality(Introduced(r, i))].number = a.new_node
                /\ i = 1 => r.nodes[1].number = a.endorser
                /\ a.new_node_signature = Sign(key(a.new_node), AsSigned(r, i))
                /\ a.endorser_signature = Sign(key(a.endorser), AsSigned(r, i))
           ELSE /\ {a.revoker, a.revoked} \subseteq ActiveAfter(r, i - 1)
                /\ a.revoker_signature = Sign(key(a.revoker), AsSigned(r, i))

Legitimate(r) ==
    /\ r.version >= 1
    /\ Len(r.addenda) = r.version
    /\ NodesMatchAddenda(r)
    /\ \A i \in 1..r.version : LegitimateStep(r, i)

-----------------------------------------------------------------------------
(* Properties. *)

\* verify_roster's forward walk gives every caller the answer that the
\* roster's history deserves: Ok to the active members and to nobody else,
\* VerifierRevoked and VerifierNotInRoster to those who should hear it, and an
\* error for every roster that was not made by legitimate steps.
VerifyMatchesHistory ==
    \A n \in Numbers :
        VerifyRoster(hub, n, KeyOf(n)) =
            IF ~Legitimate(hub) THEN "Invalid"
            ELSE IF n \in RevokedIn(hub, hub.version) THEN "VerifierRevoked"
            ELSE IF n \notin Introduced(hub, hub.version) THEN "VerifierNotInRoster"
            ELSE IF hub.nodes[PositionOf(hub.nodes, n)].key = KeyOf(n)
                 THEN "Ok" ELSE "VerifierKeyMismatch"

\* Node k itself gave a signature for step i of r.
SignedBy(k, r, i) == k \in Numbers /\ Sign(KeyOf(k), AsSigned(r, i)) \in signed

\* The addendum's nonces are those of a pairing of n with e.
NoncesOf(a, n, e) ==
    /\ a.nonces \in DOMAIN pairings
    /\ pairings[a.nonces].new_node = n /\ pairings[a.nonces].endorser = e

\* The nodes that step i names have signed it; an activation follows their pairing.
OwnStep(r, i) ==
    LET a == r.addenda[i]
    IN  IF a.kind = "activation"
        THEN /\ SignedBy(a.new_node, r, i) /\ SignedBy(a.endorser, r, i)
             /\ NoncesOf(a, a.new_node, a.endorser)
        ELSE SignedBy(a.revoker, r, i)

\* Step i carries the nonces of a pairing of its endorser with a node that was
\* in the roster already, and activates another.
Misdirected(r, i) ==
    LET a == r.addenda[i]
    IN  /\ a.kind = "activation"
        /\ SignedBy(a.endorser, r, i)
        /\ \E n \in Introduced(r, i - 1) \ {a.new_node} : NoncesOf(a, n, a.endorser)

\* Whatever the hub shows, a roster that an honest member accepts was signed
\* step by step by the nodes that it names, activations after a pairing of the
\* two, and gives the member the nodes' own keys.  There is one way out of this:
\* a node that is in the roster pairs once more, because its activation was
\* never answered, and the endorser, which compares nonces but not the number
\* that is activated (serving.rs:272-299), is shown another addendum under the
\* nonces of that pairing.  The first roster cannot be had that way.
MembersAcceptOnlySigned ==
    \A n \in Numbers : VerifyRoster(hub, n, KeyOf(n)) = "Ok" =>
        \/ /\ \A i \in 1..hub.version : OwnStep(hub, i)
           /\ \A m \in DOMAIN VerifiedKeys(hub) : VerifiedKeys(hub)[m] = KeyOf(m)
        \/ \E i \in 2..hub.version :
              Misdirected(hub, i) /\ \A j \in 1..(i - 1) : OwnStep(hub, j)

\* verify_roster returns the keys of exactly the nodes that the roster lists
\* as not revoked, which is what callers take from active_nodes.
VerifiedKeysAreActive ==
    \A n \in Numbers : VerifyRoster(hub, n, KeyOf(n)) = "Ok" =>
        DOMAIN VerifiedKeys(hub) = ActiveNumbers(hub)
=============================================================================
