------------------------------- MODULE Roster -------------------------------
(***************************************************************************)
(* The cryptographic roster of a connectivity group: the operators of      *)
(* wispers-connect/src/roster.rs that build new roster versions and verify *)
(* a roster by replaying its addenda.                                      *)
(*                                                                         *)
(* A signature is a record of the key that made it and of what it signs;   *)
(* nobody can make one without the key.  compute_signing_hash covers the   *)
(* whole encoded roster, so the hash is the roster itself.  The two nonces *)
(* of an activation are one value, the pairing they come from: they are    *)
(* signed with the rest, but verification does not look at them.  The      *)
(* errors that callers do not tell apart are one result, "Invalid".        *)
(***************************************************************************)
EXTENDS Integers, Sequences, SequencesExt

\* An empty signature field: no bytes at all.
NoSignature == <<>>

EmptyRoster == [version |-> 0, nodes |-> <<>>, addenda |-> <<>>]

Node(number, key) == [number |-> number, key |-> key, revoked |-> FALSE]

Activation(version, new_node, endorser, nonces) ==
    [kind |-> "activation", version |-> version, new_node |-> new_node,
     endorser |-> endorser, nonces |-> nonces, new_node_signature |-> NoSignature,
     endorser_signature |-> NoSignature]

Revocation(version, revoked, revoker) ==
    [kind |-> "revocation", version |-> version, revoked |-> revoked,
     revoker |-> revoker, revoker_signature |-> NoSignature]

\* Position of the first entry for a node number, 0 if there is none.
PositionOf(nodes, number) == SelectInSeq(nodes, LAMBDA n : n.number = number)

\* The numbers of the nodes a roster lists as not revoked (active_nodes).
ActiveNumbers(roster) == {n.number : n \in {m \in ToSet(roster.nodes) : ~m.revoked}}

-----------------------------------------------------------------------------
(* Signing. *)

WithoutSignatures(a) ==
    IF a.kind = "activation"
    THEN Activation(a.version, a.new_node, a.endorser, a.nonces)
    ELSE Revocation(a.version, a.revoked, a.revoker)

\* clear_latest_addendum_signatures
ClearLatestSignatures(roster) ==
    [roster EXCEPT !.addenda[Len(roster.addenda)] = WithoutSignatures(@)]

\* sign over compute_signing_hash of a roster whose latest addendum is unsigned.
Sign(key, roster) == [by |-> key, over |-> roster]

VerifySignature(key, roster, signature) == signature = Sign(key, roster)

SetNewNodeSignature(roster, signature) ==
    [roster EXCEPT !.addenda[Len(roster.addenda)].new_node_signature = signature]

SetEndorserSignature(roster, signature) ==
    [roster EXCEPT !.addenda[Len(roster.addenda)].endorser_signature = signature]

SetActivationSignatures(roster, new_node_signature, endorser_signature) ==
    SetEndorserSignature(SetNewNodeSignature(roster, new_node_signature), endorser_signature)

SetRevokerSignature(roster, signature) ==
    [roster EXCEPT !.addenda[Len(roster.addenda)].revoker_signature = signature]

-----------------------------------------------------------------------------
(* Builders. *)

MarkRevoked(nodes, number) ==
    LET i == PositionOf(nodes, number)
    IN  IF i = 0 THEN nodes ELSE [nodes EXCEPT ![i].revoked = TRUE]

CreateBootstrapRoster(new_node, new_key, endorser, endorser_key, nonces) ==
    [version |-> 1,
     nodes   |-> <<Node(endorser, endorser_key), Node(new_node, new_key)>>,
     addenda |-> <<Activation(1, new_node, endorser, nonces)>>]

AddActivation(base, new_node, new_key, endorser, nonces) ==
    [version |-> base.version + 1,
     nodes   |-> Append(base.nodes, Node(new_node, new_key)),
     addenda |-> Append(base.addenda,
                        Activation(base.version + 1, new_node, endorser, nonces))]

AddRevocation(base, revoked, revoker) ==
    [version |-> base.version + 1,
     nodes   |-> MarkRevoked(base.nodes, revoked),
     addenda |-> Append(base.addenda, Revocation(base.version + 1, revoked, revoker))]

-----------------------------------------------------------------------------
(* Verification: a forward walk over the addenda that rebuilds the roster. *)

\* The walk keeps the working roster and the keys of the nodes active in it.
\* Once an addendum is refused, ok is FALSE for good.
WalkStart == [ok |-> TRUE, roster |-> EmptyRoster, keys |-> [n \in {} |-> n]]

Refused(walk) == [walk EXCEPT !.ok = FALSE]

SetKey(keys, n, key) ==
    [m \in DOMAIN keys \cup {n} |-> IF m = n THEN key ELSE keys[m]]

\* Mutant: only nodes that are still active count as duplicates.
DuplicateActive(walk, number) == number \in DOMAIN walk.keys

\* A node number may be activated once, even if it was revoked since.
Duplicate(walk, number) == PositionOf(walk.roster.nodes, number) # 0

\* apply_and_verify_activation.  The new node's key, and at version 1 the
\* endorser's too, is taken from the input roster's nodes list; from version 2
\* on the endorser must be active in the walk.
ApplyActivation(input, a, version, walk) ==
    LET new == PositionOf(input.nodes, a.new_node)
        end == PositionOf(input.nodes, a.endorser)
        sound ==
            /\ a.version = version
            /\ a.new_node # a.endorser
            /\ ~Duplicate(walk, a.new_node)
            /\ new # 0
            /\ IF version = 1 THEN end # 0 ELSE a.endorser \in DOMAIN walk.keys
    IN  IF ~sound THEN Refused(walk)
        ELSE LET new_key == input.nodes[new].key
                 endorser_key == IF version = 1 THEN input.nodes[end].key
                                 ELSE walk.keys[a.endorser]
                 founders == IF version = 1 THEN <<Node(a.endorser, endorser_key)>> ELSE <<>>
                 working ==
                    [version |-> version,
                     nodes   |-> walk.roster.nodes \o founders
                                   \o <<Node(a.new_node, new_key)>>,
                     addenda |-> Append(walk.roster.addenda, WithoutSignatures(a))]
             IN  IF /\ VerifySignature(new_key, working, a.new_node_signature)
                    /\ VerifySignature(endorser_key, working, a.endorser_signature)
                 THEN [ok |-> TRUE,
                       roster |-> SetActivationSignatures(
                                    working, a.new_node_signature, a.endorser_signature),
                       keys |-> SetKey(SetKey(walk.keys, a.endorser, endorser_key),
                                       a.new_node, new_key)]
                 ELSE Refused(walk)

\* Mutant: the revoked node keeps its key and may go on endorsing.
DropNoKey(keys, n) == keys

DropKey(keys, n) == [m \in DOMAIN keys \ {n} |-> keys[m]]

\* apply_and_verify_revocation.  Revoker and revoked must both be active; they
\* may be the same node.
ApplyRevocation(a, version, walk) ==
    IF ~(/\ a.version = version
         /\ a.revoker \in DOMAIN walk.keys
         /\ a.revoked \in DOMAIN walk.keys)
    THEN Refused(walk)
    ELSE LET working == [version |-> version,
                         nodes   |-> MarkRevoked(walk.roster.nodes, a.revoked),
                         addenda |-> Append(walk.roster.addenda, WithoutSignatures(a))]
         IN  IF VerifySignature(walk.keys[a.revoker], working, a.revoker_signature)
             THEN [ok |-> TRUE,
                   roster |-> SetRevokerSignature(working, a.revoker_signature),
                   keys |-> DropKey(walk.keys, a.revoked)]
             ELSE Refused(walk)

\* One turn of the loop: the walk over the first i addenda of the input, from
\* the walk over the first i - 1.
Advance(input, i, walk) ==
    LET a == input.addenda[i]
    IN  IF ~walk.ok THEN walk
        ELSE IF a.kind = "activation" THEN ApplyActivation(input, a, i, walk)
             ELSE ApplyRevocation(a, i, walk)

\* The walks over the first i addenda of a roster, for every i.
Walks(input) ==
    LET walks[i \in 0..Len(input.addenda)] ==
            IF i = 0 THEN WalkStart ELSE Advance(input, i, walks[i - 1])
    IN  walks

Walk(input) == Walks(input)[Len(input.addenda)]

Reconstructed(input, walk) == walk.ok /\ walk.roster = input

\* verify_roster: "Ok" with the keys of the active nodes, or why not.
VerifyRoster(roster, number, key) ==
    IF roster.version < 1 \/ Len(roster.addenda) # roster.version
    THEN "Invalid"
    ELSE LET walk == Walk(roster) IN
         IF ~Reconstructed(roster, walk) THEN "Invalid"
         ELSE IF number \in DOMAIN walk.keys
              THEN IF walk.keys[number] = key THEN "Ok" ELSE "VerifierKeyMismatch"
              ELSE IF PositionOf(walk.roster.nodes, number) # 0
                   THEN "VerifierRevoked" ELSE "VerifierNotInRoster"

\* The keys verify_roster returns with "Ok".
VerifiedKeys(roster) == Walk(roster).keys
=============================================================================
