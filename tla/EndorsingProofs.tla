-------------------------- MODULE EndorsingProofs --------------------------
(***************************************************************************)
(* TLAPS proofs of the safety properties of Endorsing, for every number of *)
(* joining nodes, every limit and every bound.                             *)
(***************************************************************************)
EXTENDS Endorsing, FiniteSetTheorems, TLAPS

USE EndorsingAssumption

-----------------------------------------------------------------------------
(* Facts about the helpers. *)

\* Remove deletes one key and keeps the other entries (HashMap::remove in
\* roster_cosign).
LEMMA RemoveFacts ==
    ASSUME NEW pending, NEW n
    PROVE  /\ DOMAIN Remove(pending, n) = DOMAIN pending \ {n}
           /\ \A m \in DOMAIN pending \ {n} : Remove(pending, n)[m] = pending[m]
  BY DEF Remove

\* Adding an element adds at most one to the cardinality.
LEMMA CardinalityAdd ==
    ASSUME NEW S, IsFiniteSet(S), NEW x
    PROVE  /\ Cardinality(S) \in Nat
           /\ Cardinality(S \cup {x}) \in Nat
           /\ Cardinality(S \cup {x}) <= Cardinality(S) + 1
  <1>1. Cardinality(S) \in Nat
    BY FS_CardinalityType
  <1>2. Cardinality(S \cup {x}) = IF x \in S THEN Cardinality(S) ELSE Cardinality(S) + 1
    BY FS_AddElement
  <1>3. QED
    BY <1>1, <1>2

-----------------------------------------------------------------------------
(* Type correctness. *)

\* There are finitely many node numbers.
LEMMA NumbersFinite == IsFiniteSet(Numbers)
  BY FS_AddElement DEF Numbers

\* The secrets that survive pruning are secrets, and finitely many.
LEMMA UnexpiredType ==
    ASSUME TypeOK
    PROVE  /\ Unexpired \subseteq pairing_secrets
           /\ IsFiniteSet(Unexpired)
           /\ Cardinality(Unexpired) <= Cardinality(pairing_secrets)
           /\ Cardinality(Unexpired) \in Nat
           /\ Cardinality(pairing_secrets) \in Nat
           /\ IsFiniteSet(DOMAIN pending_endorsements)
           /\ Cardinality(DOMAIN pending_endorsements) \in Nat
  <1>1. Unexpired \subseteq pairing_secrets
    BY DEF Unexpired
  <1>2. IsFiniteSet(pairing_secrets)
    BY DEF TypeOK
  <1>3. DOMAIN pending_endorsements \subseteq Numbers
    BY DEF TypeOK
  <1>4. QED
    BY <1>1, <1>2, <1>3, NumbersFinite, FS_Subset, FS_CardinalityType

\* Every variable keeps its type (all operations of EndorsingState).
THEOREM EndorsingTypeOK == Spec => []TypeOK
  <1>1. Init => TypeOK
    BY FS_EmptySet DEF Init, TypeOK
  <1>2. TypeOK /\ [Next]_vars => TypeOK'
    <2> SUFFICES ASSUME TypeOK, [Next]_vars PROVE TypeOK'
      OBVIOUS
    <2> USE DEF TypeOK
    <2>1. CASE Tick
      BY <2>1 DEF Tick
    <2>2. ASSUME NEW p \in Profiles, GenerateActivationCode(p) PROVE TypeOK'
      <3>1. pairing_secrets' \in SUBSET TimedSecret
        <4>1. [secret |-> issued + 1, expires_at |-> now + Ttl[p]] \in TimedSecret
          BY <2>2 DEF GenerateActivationCode, TimedSecret
        <4>2. QED
          BY <4>1, <2>2 DEF GenerateActivationCode, Unexpired
      <3>2. IsFiniteSet(pairing_secrets')
        BY <2>2, UnexpiredType, FS_AddElement DEF GenerateActivationCode
      <3>3. QED
        BY <3>1, <3>2, <2>2 DEF GenerateActivationCode
    <2>3. CASE RefuseActivationCode
      BY <2>3, UnexpiredType DEF RefuseActivationCode
    <2>4. ASSUME NEW n \in Joiners, NEW s \in 1..MaxSecrets, SendPairNodes(n, s)
          PROVE  TypeOK'
      <3>1. [sender |-> n, receiver |-> Self, key |-> PublicKey(n),
             nonce |-> nonces + 1, reply_nonce |-> 0, mac |-> s] \in PairNodesMessage
        BY <2>4 DEF SendPairNodes, PairNodesMessage, Numbers, Keys, PublicKey
      <3>2. QED
        BY <3>1, <2>4 DEF SendPairNodes
    <2>5. ASSUME NEW m \in sent, PairNodes(m) PROVE TypeOK'
      <3>1. m \in PairNodesMessage /\ nonces + 1 \in 1..MaxNonces
        BY <2>5 DEF PairNodes
      <3>2. PICK ts \in Verifying(m) :
              /\ pairing_secrets' = Consume(ts)
              /\ paired' = paired \cup
                   {[secret |-> ts.secret, expires_at |-> ts.expires_at, at |-> now,
                     sender |-> m.sender, key |-> m.key, new_node_nonce |-> m.nonce,
                     our_nonce |-> nonces + 1]}
        BY <2>5 DEF PairNodes
      <3>3. ts \in TimedSecret
        BY <3>2 DEF Verifying, Unexpired
      <3>4. paired' \in SUBSET Pairing
        BY <3>1, <3>2, <3>3 DEF Pairing, PairNodesMessage, TimedSecret
      <3>5. pairing_secrets' \in SUBSET TimedSecret /\ IsFiniteSet(pairing_secrets')
        BY <3>2, UnexpiredType, FS_RemoveElement DEF Consume
      <3>6. sent' \in SUBSET PairNodesMessage
        <4>1. [sender |-> Self, receiver |-> m.sender, key |-> PublicKey(Self),
               nonce |-> nonces + 1, reply_nonce |-> m.nonce, mac |-> m.mac]
                 \in PairNodesMessage
          BY <3>1 DEF PairNodesMessage, Numbers, Keys, PublicKey
        <4>2. QED
          BY <4>1, <2>5 DEF PairNodes
      <3>7. /\ DOMAIN pending_endorsements' \subseteq Numbers
            /\ pending_endorsements' \in [DOMAIN pending_endorsements' -> PendingEndorsement]
        <4>1. PendingOf(m, nonces + 1) \in PendingEndorsement
          BY <3>1 DEF PendingOf, PendingEndorsement, PairNodesMessage
        <4>2. m.sender \in Numbers
          BY <3>1 DEF PairNodesMessage
        <4>3. pending_endorsements' =
                Insert(pending_endorsements, m.sender, PendingOf(m, nonces + 1))
          BY <2>5 DEF PairNodes
        <4>4. QED
          BY <4>1, <4>2, <4>3 DEF Insert
      <3>8. QED
        BY <2>5, <3>4, <3>5, <3>6, <3>7 DEF PairNodes
    <2>6. ASSUME NEW m \in sent, RejectPairNodes(m) PROVE TypeOK'
      BY <2>6, UnexpiredType DEF RejectPairNodes
    <2>7. ASSUME NEW n \in DOMAIN pending_endorsements, NEW roster \in CosignRoster,
                 RosterCosign(n, roster)
          PROVE  TypeOK'
      BY <2>7 DEF RosterCosign, Remove
    <2>8. CASE UNCHANGED vars
      BY <2>8 DEF vars
    <2>9. QED
      BY <2>1, <2>2, <2>3, <2>4, <2>5, <2>6, <2>7, <2>8 DEF Next
  <1>3. QED
    BY <1>1, <1>2, PTL DEF Spec

-----------------------------------------------------------------------------
(* The inductive invariant.  The properties are not inductive alone: a code *)
(* is single-use because consumed codes are gone and new ones are fresh, and *)
(* a pairing is signed once because the pending entry it left is the only    *)
(* way to its nonce.                                                         *)

\* A live code was issued, is alone in carrying its secret and was not redeemed.
LiveCodesUnused ==
    /\ \A ts \in pairing_secrets : ts.secret <= issued
    /\ \A ts, us \in pairing_secrets : ts.secret = us.secret => ts = us
    /\ \A p \in paired : p.secret <= issued
    /\ \A p \in paired, ts \in pairing_secrets : p.secret # ts.secret

\* The endorser's own replies carry codes that are redeemed.
RepliesRedeemed ==
    \A m \in sent : m.sender = Self => \E p \in paired : p.secret = m.mac

\* Every pairing drew a nonce of its own.
PairingNonces ==
    /\ \A p \in paired : p.our_nonce <= nonces
    /\ \A p, q \in paired : p.our_nonce = q.our_nonce => p = q

\* A pending endorsement is the latest pairing of its node ...
PendingIsLatest ==
    \A n \in DOMAIN pending_endorsements :
        /\ \E p \in paired :
             /\ p.sender = n
             /\ p.key = pending_endorsements[n].new_node_pubkey
             /\ p.new_node_nonce = pending_endorsements[n].new_node_nonce
             /\ p.our_nonce = pending_endorsements[n].our_nonce
        /\ \A p \in paired :
             p.sender = n => p.our_nonce <= pending_endorsements[n].our_nonce

\* ... and has not been signed.
PendingUnsigned ==
    \A c \in cosigned, n \in DOMAIN pending_endorsements :
        c.roster.endorser_nonce # pending_endorsements[n].our_nonce

EndorsingInv ==
    /\ TypeOK
    /\ WithinCapacity
    /\ LiveCodesUnused
    /\ RepliesRedeemed
    /\ PairingNonces
    /\ PendingIsLatest
    /\ PendingUnsigned
    /\ CodesAreSingleUse
    /\ NeverPairsWithItself
    /\ PairsOnlyBeforeExpiry
    /\ OneSignaturePerPairing

\* The invariant holds before anything happens.
LEMMA InitInv == Init => EndorsingInv
  <1> SUFFICES ASSUME Init PROVE EndorsingInv
    OBVIOUS
  <1> USE DEF Init
  <1>1. TypeOK
    BY FS_EmptySet DEF TypeOK
  <1>2. WithinCapacity
    BY FS_EmptySet DEF WithinCapacity, ActiveActivations
  <1>3. /\ LiveCodesUnused /\ RepliesRedeemed /\ PairingNonces
        /\ PendingIsLatest /\ PendingUnsigned
    BY DEF LiveCodesUnused, RepliesRedeemed, PairingNonces, PendingIsLatest,
           PendingUnsigned
  <1>4. /\ CodesAreSingleUse /\ NeverPairsWithItself /\ PairsOnlyBeforeExpiry
        /\ OneSignaturePerPairing
    BY DEF CodesAreSingleUse, NeverPairsWithItself, PairsOnlyBeforeExpiry,
           OneSignaturePerPairing
  <1>5. QED
    BY <1>1, <1>2, <1>3, <1>4 DEF EndorsingInv

\* Dropping expired codes, which every operation that looks at them does first,
\* preserves the invariant (prune_expired).
LEMMA PruneInv ==
    ASSUME EndorsingInv, TypeOK', pairing_secrets' = Unexpired,
           UNCHANGED <<now, pending_endorsements, issued, nonces, sent, paired, cosigned>>
    PROVE  EndorsingInv'
  <1>1. Unexpired \subseteq pairing_secrets
    BY DEF Unexpired
  <1>2. WithinCapacity'
    BY UnexpiredType DEF EndorsingInv, WithinCapacity, ActiveActivations
  <1>3. LiveCodesUnused'
    BY <1>1 DEF EndorsingInv, LiveCodesUnused
  <1>4. (RepliesRedeemed /\ PairingNonces /\ PendingIsLatest /\ PendingUnsigned)'
    BY DEF EndorsingInv, RepliesRedeemed, PairingNonces, PendingIsLatest, PendingUnsigned
  <1>5. (CodesAreSingleUse /\ NeverPairsWithItself /\ PairsOnlyBeforeExpiry
           /\ OneSignaturePerPairing)'
    BY DEF EndorsingInv, CodesAreSingleUse, NeverPairsWithItself,
           PairsOnlyBeforeExpiry, OneSignaturePerPairing
  <1>6. QED
    BY <1>2, <1>3, <1>4, <1>5 DEF EndorsingInv

\* A new code leaves room: the limit is checked before it is added
\* (generate_activation_code_with_ttl).
LEMMA GenerateInv ==
    ASSUME EndorsingInv, TypeOK', NEW p \in Profiles, GenerateActivationCode(p)
    PROVE  EndorsingInv'
  <1> DEFINE code == [secret |-> issued + 1, expires_at |-> now + Ttl[p]]
  <1>1. /\ pairing_secrets' = Unexpired \cup {code}
        /\ issued' = issued + 1
        /\ UNCHANGED <<now, pending_endorsements, nonces, sent, paired, cosigned>>
        /\ ~TooManyActivationSessions
    BY DEF GenerateActivationCode
  <1>2. Unexpired \subseteq pairing_secrets
    BY DEF Unexpired
  <1>3. issued \in Nat /\ pairing_secrets \subseteq TimedSecret /\ paired \subseteq Pairing
    BY DEF EndorsingInv, TypeOK
  <1>4. WithinCapacity'
    <2>1. TypeOK
      BY DEF EndorsingInv
    <2>2. Cardinality(Unexpired \cup {code}) <= Cardinality(Unexpired) + 1
      BY <2>1, UnexpiredType, CardinalityAdd
    <2>3. Cardinality(Unexpired \cup {code}) \in Nat
      BY <2>1, UnexpiredType, CardinalityAdd
    <2>4. Cardinality(Unexpired) + Cardinality(DOMAIN pending_endorsements) < MaxActive
      BY <1>1, <2>1, UnexpiredType DEF TooManyActivationSessions, ActiveActivations
    <2>5. QED
      BY <1>1, <2>1, <2>2, <2>3, <2>4, UnexpiredType DEF WithinCapacity, ActiveActivations
  <1>5. LiveCodesUnused'
    <2>1. code.secret = issued + 1
      OBVIOUS
    <2>2. \A ts \in pairing_secrets : ts.secret \in Nat
      BY <1>3 DEF TimedSecret
    <2>3. \A q \in paired : q.secret \in Nat
      BY <1>3 DEF Pairing
    <2> HIDE DEF code
    <2>4. QED
      BY <1>1, <1>2, <1>3, <2>1, <2>2, <2>3 DEF EndorsingInv, LiveCodesUnused
  <1>6. (RepliesRedeemed /\ PairingNonces /\ PendingIsLatest /\ PendingUnsigned)'
    BY <1>1 DEF EndorsingInv, RepliesRedeemed, PairingNonces, PendingIsLatest,
                PendingUnsigned
  <1>7. (CodesAreSingleUse /\ NeverPairsWithItself /\ PairsOnlyBeforeExpiry
           /\ OneSignaturePerPairing)'
    BY <1>1 DEF EndorsingInv, CodesAreSingleUse, NeverPairsWithItself,
                PairsOnlyBeforeExpiry, OneSignaturePerPairing
  <1>8. QED
    BY <1>4, <1>5, <1>6, <1>7 DEF EndorsingInv

\* A pairing trades a code for a pending endorsement, so the limit holds without
\* a check, and leaves the code unusable for the reply and for replays
\* (pair_nodes).
LEMMA PairNodesInv ==
    ASSUME EndorsingInv, TypeOK', NEW m \in sent, PairNodes(m)
    PROVE  EndorsingInv'
  <1> DEFINE pairing(ts) ==
        [secret |-> ts.secret, expires_at |-> ts.expires_at, at |-> now,
         sender |-> m.sender, key |-> m.key, new_node_nonce |-> m.nonce,
         our_nonce |-> nonces + 1]
  <1>1. PICK ts \in Verifying(m) :
          pairing_secrets' = Consume(ts) /\ paired' = paired \cup {pairing(ts)}
    BY DEF PairNodes
  <1> DEFINE new == pairing(ts)
  <1>2. /\ nonces' = nonces + 1
        /\ pending_endorsements' =
             Insert(pending_endorsements, m.sender, PendingOf(m, nonces + 1))
        /\ sent' = sent \cup
             {[sender |-> Self, receiver |-> m.sender, key |-> PublicKey(Self),
               nonce |-> nonces + 1, reply_nonce |-> m.nonce, mac |-> m.mac]}
        /\ UNCHANGED <<now, issued, cosigned>>
    BY DEF PairNodes
  <1>3. /\ TypeOK /\ nonces \in Nat /\ m \in PairNodesMessage
        /\ paired \subseteq Pairing
    BY DEF EndorsingInv, TypeOK
  <1>4. ts \in pairing_secrets /\ ts \in Unexpired /\ ts.secret = m.mac /\ ts.expires_at > now
    BY DEF Verifying, Unexpired
  <1>5. pairing_secrets' \subseteq pairing_secrets /\ ts \notin pairing_secrets'
    BY <1>1 DEF Consume, Unexpired
  <1>6. /\ new.secret = ts.secret /\ new.expires_at = ts.expires_at /\ new.at = now
        /\ new.sender = m.sender /\ new.key = m.key
        /\ new.new_node_nonce = m.nonce /\ new.our_nonce = nonces + 1
    OBVIOUS
  <1>7. paired' = paired \cup {new}
    BY <1>1
  <1> HIDE DEF new, pairing
  <1>8. m.sender # Self
    BY <1>4 DEF EndorsingInv, RepliesRedeemed, LiveCodesUnused
  <1>9. /\ DOMAIN pending_endorsements' = DOMAIN pending_endorsements \cup {m.sender}
        /\ pending_endorsements'[m.sender] = PendingOf(m, nonces + 1)
        /\ \A n \in DOMAIN pending_endorsements :
             n # m.sender => pending_endorsements'[n] = pending_endorsements[n]
    BY <1>2 DEF Insert
  <1>10. /\ PendingOf(m, nonces + 1).new_node_pubkey = m.key
         /\ PendingOf(m, nonces + 1).new_node_nonce = m.nonce
         /\ PendingOf(m, nonces + 1).our_nonce = nonces + 1
    BY DEF PendingOf
  <1>11. \A q \in paired : q.our_nonce \in Nat /\ q.our_nonce <= nonces
    BY <1>3 DEF EndorsingInv, PairingNonces, Pairing
  <1>12. WithinCapacity'
    <2>1. Cardinality(pairing_secrets') = Cardinality(Unexpired) - 1
      BY <1>1, <1>3, <1>4, UnexpiredType, FS_RemoveElement DEF Consume
    <2>2. Cardinality(DOMAIN pending_endorsements')
            <= Cardinality(DOMAIN pending_endorsements) + 1
      BY <1>3, <1>9, UnexpiredType, CardinalityAdd
    <2>3. Cardinality(DOMAIN pending_endorsements') \in Nat
      BY <1>3, <1>9, UnexpiredType, CardinalityAdd
    <2>4. QED
      BY <1>3, <2>1, <2>2, <2>3, UnexpiredType
      DEF EndorsingInv, WithinCapacity, ActiveActivations
  <1>13. LiveCodesUnused'
    <2>1. \A us \in pairing_secrets' : us.secret # ts.secret
      BY <1>4, <1>5 DEF EndorsingInv, LiveCodesUnused
    <2>2. QED
      BY <1>2, <1>4, <1>5, <1>6, <1>7, <2>1 DEF EndorsingInv, LiveCodesUnused
  <1>14. RepliesRedeemed'
    BY <1>2, <1>4, <1>6, <1>7 DEF EndorsingInv, RepliesRedeemed
  <1>15. PairingNonces'
    BY <1>2, <1>3, <1>6, <1>7, <1>11 DEF EndorsingInv, PairingNonces
  <1>16. PendingIsLatest'
    <2> SUFFICES ASSUME NEW n \in DOMAIN pending_endorsements'
                 PROVE  /\ \E p \in paired' :
                             /\ p.sender = n
                             /\ p.key = pending_endorsements'[n].new_node_pubkey
                             /\ p.new_node_nonce = pending_endorsements'[n].new_node_nonce
                             /\ p.our_nonce = pending_endorsements'[n].our_nonce
                        /\ \A p \in paired' :
                             p.sender = n => p.our_nonce <= pending_endorsements'[n].our_nonce
      BY DEF PendingIsLatest
    <2>1. CASE n = m.sender
      <3>1. new \in paired'
        BY <1>7
      <3>2. \A p \in paired' : p.our_nonce <= nonces + 1
        BY <1>3, <1>6, <1>7, <1>11
      <3>3. QED
        BY <2>1, <3>1, <3>2, <1>6, <1>9, <1>10
    <2>2. CASE n # m.sender
      <3>1. n \in DOMAIN pending_endorsements
            /\ pending_endorsements'[n] = pending_endorsements[n]
        BY <2>2, <1>9
      <3>2. QED
        BY <2>2, <3>1, <1>6, <1>7 DEF EndorsingInv, PendingIsLatest
    <2>3. QED
      BY <2>1, <2>2
  <1>17. PendingUnsigned'
    <2>1. \A c \in cosigned : c.roster.endorser_nonce # nonces + 1
      BY <1>3, <1>11 DEF EndorsingInv, OneSignaturePerPairing
    <2>2. QED
      BY <2>1, <1>2, <1>9, <1>10 DEF EndorsingInv, PendingUnsigned
  <1>18. CodesAreSingleUse'
    BY <1>4, <1>6, <1>7 DEF EndorsingInv, CodesAreSingleUse, LiveCodesUnused
  <1>19. NeverPairsWithItself'
    BY <1>8, <1>9 DEF EndorsingInv, NeverPairsWithItself
  <1>20. PairsOnlyBeforeExpiry'
    BY <1>2, <1>3, <1>4, <1>6, <1>7 DEF EndorsingInv, PairsOnlyBeforeExpiry, TypeOK
  <1>21. OneSignaturePerPairing'
    BY <1>2, <1>7 DEF EndorsingInv, OneSignaturePerPairing
  <1>22. QED
    BY <1>12, <1>13, <1>14, <1>15, <1>16, <1>17, <1>18, <1>19, <1>20, <1>21
    DEF EndorsingInv

\* A signature uses up the pending endorsement it rests on (roster_cosign).
LEMMA RosterCosignInv ==
    ASSUME EndorsingInv, TypeOK', NEW n \in DOMAIN pending_endorsements,
           NEW roster \in CosignRoster, RosterCosign(n, roster)
    PROVE  EndorsingInv'
  <1> DEFINE c0 == [new_node |-> n, roster |-> roster]
  <1>1. /\ cosigned' = cosigned \cup {c0}
        /\ pending_endorsements' = Remove(pending_endorsements, n)
        /\ UNCHANGED <<now, pairing_secrets, issued, nonces, sent, paired>>
        /\ roster.new_node_nonce = pending_endorsements[n].new_node_nonce
        /\ roster.endorser_nonce = pending_endorsements[n].our_nonce
        /\ roster.new_node_key = pending_endorsements[n].new_node_pubkey
    BY DEF RosterCosign
  <1>2. c0.new_node = n /\ c0.roster = roster
    OBVIOUS
  <1> HIDE DEF c0
  <1>3. /\ DOMAIN pending_endorsements' = DOMAIN pending_endorsements \ {n}
        /\ \A k \in DOMAIN pending_endorsements' :
             pending_endorsements'[k] = pending_endorsements[k]
    BY <1>1, RemoveFacts
  <1>4. TypeOK
    BY DEF EndorsingInv
  <1>5. WithinCapacity'
    <2>1. Cardinality(DOMAIN pending_endorsements')
            = Cardinality(DOMAIN pending_endorsements) - 1
      BY <1>3, <1>4, UnexpiredType, FS_RemoveElement
    <2>2. QED
      BY <2>1, <1>1, <1>4, UnexpiredType DEF EndorsingInv, WithinCapacity, ActiveActivations
  <1>6. (LiveCodesUnused /\ RepliesRedeemed /\ PairingNonces)'
    BY <1>1 DEF EndorsingInv, LiveCodesUnused, RepliesRedeemed, PairingNonces
  <1>7. PendingIsLatest'
    BY <1>1, <1>3 DEF EndorsingInv, PendingIsLatest
  <1>8. PendingUnsigned'
    <2>1. \A k \in DOMAIN pending_endorsements' :
            pending_endorsements[k].our_nonce # pending_endorsements[n].our_nonce
      BY <1>3 DEF EndorsingInv, PendingIsLatest, PairingNonces
    <2>2. QED
      BY <2>1, <1>1, <1>2, <1>3 DEF EndorsingInv, PendingUnsigned
  <1>9. (CodesAreSingleUse /\ NeverPairsWithItself /\ PairsOnlyBeforeExpiry)'
    BY <1>1, <1>3 DEF EndorsingInv, CodesAreSingleUse, NeverPairsWithItself,
                      PairsOnlyBeforeExpiry
  <1>10. OneSignaturePerPairing'
    <2>1. \E p \in paired :
            /\ c0.new_node = p.sender
            /\ c0.roster.new_node_key = p.key
            /\ c0.roster.new_node_nonce = p.new_node_nonce
            /\ c0.roster.endorser_nonce = p.our_nonce
      BY <1>1, <1>2 DEF EndorsingInv, PendingIsLatest
    <2>2. \A d \in cosigned : d.roster.endorser_nonce # c0.roster.endorser_nonce
      BY <1>1, <1>2 DEF EndorsingInv, PendingUnsigned
    <2>3. QED
      BY <2>1, <2>2, <1>1 DEF EndorsingInv, OneSignaturePerPairing
  <1>11. QED
    BY <1>5, <1>6, <1>7, <1>8, <1>9, <1>10 DEF EndorsingInv

\* Every step of the endorser and of its environment preserves the invariant.
LEMMA NextInv == EndorsingInv /\ TypeOK' /\ [Next]_vars => EndorsingInv'
  <1> SUFFICES ASSUME EndorsingInv, TypeOK', [Next]_vars PROVE EndorsingInv'
    OBVIOUS
  <1>1. CASE Tick
    BY <1>1 DEF Tick, EndorsingInv, WithinCapacity, LiveCodesUnused, RepliesRedeemed,
       PairingNonces, PendingIsLatest, PendingUnsigned, CodesAreSingleUse,
       NeverPairsWithItself, PairsOnlyBeforeExpiry, OneSignaturePerPairing
  <1>2. ASSUME NEW p \in Profiles, GenerateActivationCode(p) PROVE EndorsingInv'
    BY <1>2, GenerateInv
  <1>3. CASE RefuseActivationCode
    BY <1>3, PruneInv DEF RefuseActivationCode
  <1>4. ASSUME NEW n \in Joiners, NEW s \in 1..MaxSecrets, SendPairNodes(n, s)
        PROVE  EndorsingInv'
    <2> DEFINE m0 == [sender |-> n, receiver |-> Self, key |-> PublicKey(n),
                      nonce |-> nonces + 1, reply_nonce |-> 0, mac |-> s]
    <2>1. /\ sent' = sent \cup {m0} /\ nonces' = nonces + 1
          /\ UNCHANGED <<now, pairing_secrets, pending_endorsements, issued, paired, cosigned>>
      BY <1>4 DEF SendPairNodes
    <2>2. m0.sender # Self
      OBVIOUS
    <2> HIDE DEF m0
    <2>3. RepliesRedeemed'
      BY <2>1, <2>2 DEF EndorsingInv, RepliesRedeemed
    <2>4. PairingNonces'
      BY <2>1 DEF EndorsingInv, PairingNonces, TypeOK, Pairing
    <2>5. QED
      BY <2>1, <2>3, <2>4
      DEF EndorsingInv, WithinCapacity, LiveCodesUnused, PendingIsLatest,
          PendingUnsigned, CodesAreSingleUse, NeverPairsWithItself,
          PairsOnlyBeforeExpiry, OneSignaturePerPairing
  <1>5. ASSUME NEW m \in sent, PairNodes(m) PROVE EndorsingInv'
    BY <1>5, PairNodesInv
  <1>6. ASSUME NEW m \in sent, RejectPairNodes(m) PROVE EndorsingInv'
    BY <1>6, PruneInv DEF RejectPairNodes
  <1>7. ASSUME NEW n \in DOMAIN pending_endorsements, NEW roster \in CosignRoster,
               RosterCosign(n, roster)
        PROVE  EndorsingInv'
    BY <1>7, RosterCosignInv
  <1>8. CASE UNCHANGED vars
    BY <1>8 DEF vars, EndorsingInv, WithinCapacity, LiveCodesUnused, RepliesRedeemed,
       PairingNonces, PendingIsLatest, PendingUnsigned, CodesAreSingleUse,
       NeverPairsWithItself, PairsOnlyBeforeExpiry, OneSignaturePerPairing
  <1>9. QED
    BY <1>1, <1>2, <1>3, <1>4, <1>5, <1>6, <1>7, <1>8 DEF Next

-----------------------------------------------------------------------------
(* The theorems. *)

\* The inductive invariant holds throughout.
LEMMA EndorsingInvariant == Spec => []EndorsingInv
  BY InitInv, NextInv, EndorsingTypeOK, PTL DEF Spec

\* Codes and pending cosigns stay within MAX_ACTIVE_ACTIVATIONS.
THEOREM EndorsingWithinCapacity == Spec => []WithinCapacity
  <1>1. EndorsingInv => WithinCapacity
    BY DEF EndorsingInv
  <1>2. QED
    BY <1>1, EndorsingInvariant, PTL

\* No message order makes an activation code pair twice.
THEOREM EndorsingCodesAreSingleUse == Spec => []CodesAreSingleUse
  <1>1. EndorsingInv => CodesAreSingleUse
    BY DEF EndorsingInv
  <1>2. QED
    BY <1>1, EndorsingInvariant, PTL

\* The endorser's replies, handed back to it, never make it pair with itself.
THEOREM EndorsingNeverPairsWithItself == Spec => []NeverPairsWithItself
  <1>1. EndorsingInv => NeverPairsWithItself
    BY DEF EndorsingInv
  <1>2. QED
    BY <1>1, EndorsingInvariant, PTL

\* Expired codes do not pair.
THEOREM EndorsingPairsOnlyBeforeExpiry == Spec => []PairsOnlyBeforeExpiry
  <1>1. EndorsingInv => PairsOnlyBeforeExpiry
    BY DEF EndorsingInv
  <1>2. QED
    BY <1>1, EndorsingInvariant, PTL

\* Every signature rests on a pairing with the same key and nonces, and no
\* pairing yields two.
THEOREM EndorsingOneSignaturePerPairing == Spec => []OneSignaturePerPairing
  <1>1. EndorsingInv => OneSignaturePerPairing
    BY DEF EndorsingInv
  <1>2. QED
    BY <1>1, EndorsingInvariant, PTL

\* A superseded pairing is never signed.
THEOREM EndorsingSignsLatestPairing == Spec => SignsLatestPairing
  <1> DEFINE Step == \A c \in cosigned' \ cosigned : \A p \in paired :
                        p.sender = c.new_node => p.our_nonce <= c.roster.endorser_nonce
  <1>1. EndorsingInv /\ [Next]_vars => [Step]_vars
    <2> SUFFICES ASSUME EndorsingInv, Next PROVE Step
      BY DEF vars
    <2>1. ASSUME NEW n \in DOMAIN pending_endorsements, NEW roster \in CosignRoster,
                 RosterCosign(n, roster)
          PROVE  Step
      BY <2>1 DEF RosterCosign, EndorsingInv, PendingIsLatest
    <2>2. CASE cosigned' = cosigned
      BY <2>2
    <2>3. QED
      BY <2>1, <2>2 DEF Next, Tick, GenerateActivationCode, RefuseActivationCode,
         SendPairNodes, PairNodes, RejectPairNodes
  <1>2. QED
    BY <1>1, EndorsingInvariant, PTL DEF Spec, SignsLatestPairing
=============================================================================
