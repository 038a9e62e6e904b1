------------------------- MODULE RosterChainProofs -------------------------
(***************************************************************************)
(* Verification of a roster, for rosters of any length, any nodes and any  *)
(* number of edits at the hub.                                             *)
(*                                                                         *)
(* verify_roster's loop is a recursive function, so what holds of its      *)
(* result is shown by induction over the addenda.  The induction is an     *)
(* instance of the least-element principle for sets of numbers.            *)
(***************************************************************************)
EXTENDS RosterChain, FiniteSetTheorems, SequenceTheorems, WellFoundedInduction, TLAPS

-----------------------------------------------------------------------------
(* Induction over the numbers, for sets of them. *)

LessThan == {pair \in Nat \X Nat : pair[1] < pair[2]}

\* There is no infinite descent.
LEMMA LessThanWellFounded == IsWellFoundedOn(LessThan, Nat)
<1>1. OpToRel(<, Nat) = LessThan
  BY Zenon DEF OpToRel, LessThan
<1> QED  BY <1>1, NatLessThanWellFounded, Zenon

\* Every non-empty set of natural numbers has a least element.
LEMMA LeastElement ==
    ASSUME NEW T \in SUBSET Nat, T # {}
    PROVE  \E x \in T : \A y \in T : x <= y
<1>1. PICK x \in T : \A y \in T : <<y, x>> \notin LessThan
  BY LessThanWellFounded, WFMin
<1>2. ASSUME NEW y \in T, y < x PROVE FALSE
  <2>1. <<y, x>> \in Nat \X Nat  OBVIOUS
  <2>2. <<y, x>>[1] < <<y, x>>[2]  BY <1>2
  <2>3. <<y, x>> \in LessThan  BY <2>1, <2>2 DEF LessThan
  <2> QED  BY <2>3, <1>1
<1> QED  BY <1>2

\* A set with 0 and with the successor of each of its members up to n has all
\* numbers up to n.
LEMMA SetInduction ==
    ASSUME NEW n \in Nat, NEW P, 0 \in P, \A i \in 0..(n - 1) : i \in P => i + 1 \in P
    PROVE  0..n \subseteq P
<1> SUFFICES ASSUME (0..n) \ P # {} PROVE FALSE  OBVIOUS
<1>1. PICK x \in (0..n) \ P : \A y \in (0..n) \ P : x <= y
  <2>1. (0..n) \ P \in SUBSET Nat  OBVIOUS
  <2> QED  BY <2>1, LeastElement
<1>2. x # 0 /\ x - 1 \in 0..(n - 1)  BY <1>1
<1>3. x - 1 \in P  BY <1>1, <1>2
<1>4. (x - 1) + 1 \in P  BY <1>2, <1>3
<1> QED  BY <1>1, <1>4

-----------------------------------------------------------------------------
(* The loop of verify_roster. *)

\* walks satisfies the equation of Walks up to n.
WalksUpTo(input, n, walks) ==
    walks = [i \in 0..n |-> IF i = 0 THEN WalkStart ELSE Advance(input, i, walks[i - 1])]

\* There is such a function, so the recursion of the loop is well defined.
LEMMA WalksExist ==
    ASSUME NEW input, NEW n \in Nat
    PROVE  \E walks : WalksUpTo(input, n, walks)
<1> DEFINE P == {m \in Nat : \E walks : WalksUpTo(input, m, walks)}
<1>1. 0 \in P
  <2>1. WalksUpTo(input, 0, [i \in 0..0 |-> WalkStart])
    BY DEF WalksUpTo
  <2> QED  BY <2>1
<1>2. ASSUME NEW m \in 0..(n - 1), m \in P PROVE m + 1 \in P
  <2>1. PICK walks : WalksUpTo(input, m, walks)
    BY <1>2
  <2> DEFINE next == [i \in 0..(m + 1) |->
                        IF i = m + 1 THEN Advance(input, m + 1, walks[m]) ELSE walks[i]]
  <2>2. \A i \in 0..m : walks[i] = IF i = 0 THEN WalkStart ELSE Advance(input, i, walks[i - 1])
    BY <2>1 DEF WalksUpTo
  <2>3. ASSUME NEW i \in 0..(m + 1)
        PROVE  next[i] = IF i = 0 THEN WalkStart ELSE Advance(input, i, next[i - 1])
    <3>1. CASE i = m + 1
      <4>1. next[i] = Advance(input, m + 1, walks[m]) /\ i # 0  BY <3>1
      <4>2. next[i - 1] = walks[m]  BY <3>1
      <4> QED  BY <4>1, <4>2, <3>1
    <3>2. CASE i = 0
      BY <3>2, <2>2
    <3>3. CASE i # m + 1 /\ i # 0
      <4>1. i \in 0..m /\ i - 1 \in 0..m /\ i - 1 # m + 1  BY <3>3
      <4>2. next[i] = walks[i] /\ next[i - 1] = walks[i - 1]  BY <4>1, <3>3
      <4> QED  BY <4>1, <4>2, <3>3, <2>2
    <3> QED  BY <3>1, <3>2, <3>3
  <2>4. WalksUpTo(input, m + 1, next)
    <3> HIDE DEF next
    <3>1. next = [i \in 0..(m + 1) |-> next[i]]
      BY DEF next
    <3> QED  BY <3>1, <2>3 DEF WalksUpTo
  <2> QED  BY <2>4
<1>3. 0..n \subseteq P
  <2> HIDE DEF P
  <2> QED  BY <1>1, <1>2, SetInduction
<1> QED  BY <1>3

\* The loop starts from the empty roster and takes the addenda one by one.
LEMMA WalksEquation ==
    ASSUME NEW input, Len(input.addenda) \in Nat
    PROVE  /\ Walks(input)[0] = WalkStart
           /\ \A i \in 1..Len(input.addenda) :
                Walks(input)[i] = Advance(input, i, Walks(input)[i - 1])
<1> DEFINE n == Len(input.addenda)
<1>1. PICK f : WalksUpTo(input, n, f)
  BY WalksExist
<1>2. WalksUpTo(input, n, Walks(input))
  BY <1>1 DEF Walks, WalksUpTo
<1>3. \A i \in 0..n : Walks(input)[i] =
          IF i = 0 THEN WalkStart ELSE Advance(input, i, Walks(input)[i - 1])
  <2> DEFINE w == Walks(input)
  <2>1. w = [i \in 0..n |-> IF i = 0 THEN WalkStart ELSE Advance(input, i, w[i - 1])]
    BY <1>2 DEF WalksUpTo
  <2> HIDE DEF w
  <2>2. \A i \in 0..n : w[i] = IF i = 0 THEN WalkStart ELSE Advance(input, i, w[i - 1])
    BY <2>1
  <2> QED  BY <2>2 DEF w
<1>4. 0 \in 0..n /\ \A i \in 1..n : i \in 0..n /\ i # 0
  OBVIOUS
<1> QED  BY <1>3, <1>4

-----------------------------------------------------------------------------
(* The shape of what passes through the hub. *)

AllNumbers == Numbers \cup {HubNode}
AllKeys == Numbers \cup {HubKey}
NodeEntry == [number : AllNumbers, key : AllKeys, revoked : BOOLEAN]

ActivationShape(a) ==
    /\ a = [kind |-> "activation", version |-> a.version, new_node |-> a.new_node,
            endorser |-> a.endorser, nonces |-> a.nonces,
            new_node_signature |-> a.new_node_signature,
            endorser_signature |-> a.endorser_signature]
    /\ a.new_node \in AllNumbers /\ a.endorser \in AllNumbers

RevocationShape(a) ==
    /\ a = [kind |-> "revocation", version |-> a.version, revoked |-> a.revoked,
            revoker |-> a.revoker, revoker_signature |-> a.revoker_signature]
    /\ a.revoked \in AllNumbers /\ a.revoker \in AllNumbers

AddendaShape(addenda) ==
    /\ \E S : addenda \in Seq(S)
    /\ \A i \in 1..Len(addenda) : /\ addenda[i].version \in Int
                                  /\ ActivationShape(addenda[i]) \/ RevocationShape(addenda[i])

RosterShape(r) ==
    /\ r = [version |-> r.version, nodes |-> r.nodes, addenda |-> r.addenda]
    /\ r.version \in Int
    /\ r.nodes \in Seq(NodeEntry)
    /\ AddendaShape(r.addenda)

-----------------------------------------------------------------------------
(* The operators of the walk. *)

\* PositionOf finds the first entry for a number if there is one.
LEMMA PositionFound ==
    ASSUME NEW nodes \in Seq(NodeEntry), NEW number
    PROVE  \/ /\ PositionOf(nodes, number) = 0
              /\ \A i \in 1..Len(nodes) : nodes[i].number # number
           \/ /\ PositionOf(nodes, number) \in 1..Len(nodes)
              /\ nodes[PositionOf(nodes, number)].number = number
<1> DEFINE I == {i \in 1..Len(nodes) : nodes[i].number = number}
<1>1. PositionOf(nodes, number) = IF I # {} THEN Min(I) ELSE 0
  BY DEF PositionOf, SelectInSeq
<1>2. ASSUME I # {} PROVE Min(I) \in I
  <2>1. I \in SUBSET Nat  OBVIOUS
  <2>2. \E x \in I : \A y \in I : x <= y
    <3> HIDE DEF I
    <3> QED  BY <1>2, <2>1, LeastElement
  <2> HIDE DEF I
  <2> QED  BY <2>2 DEF Min
<1> QED  BY <1>1, <1>2

\* Appending puts the new element last and leaves the others; replacing it is
\* the same as appending something else.
LEMMA AppendLast ==
    ASSUME NEW S, NEW base \in Seq(S), NEW x, NEW y
    PROVE  /\ Len(base) \in Nat
           /\ Len(Append(base, x)) = Len(base) + 1
           /\ DOMAIN Append(base, x) = 1..(Len(base) + 1)
           /\ Append(base, x)[Len(base) + 1] = x
           /\ \A i \in 1..Len(base) : Append(base, x)[i] = base[i]
           /\ Append(base, y) = [Append(base, x) EXCEPT ![Len(base) + 1] = y]
<1> DEFINE T == S \cup {x, y}
           s == Append(base, x)
           t == Append(base, y)
           last == Len(base) + 1
<1>1. base \in Seq(T)
  BY SeqMonotonic
<1>2. /\ s \in Seq(T) /\ Len(s) = last /\ s[last] = x
      /\ \A i \in 1..Len(base) : s[i] = base[i]
  <2> HIDE DEF T
  <2> QED  BY <1>1, AppendProperties, x \in T DEF T
<1>3. /\ t \in Seq(T) /\ Len(t) = last /\ t[last] = y
      /\ \A i \in 1..Len(base) : t[i] = base[i]
  <2> HIDE DEF T
  <2> QED  BY <1>1, AppendProperties, y \in T DEF T
<1>4. Len(base) \in Nat /\ last \in 1..last  OBVIOUS
<1> HIDE DEF s, t
<1>5. y \in T /\ last \in 1..Len(s)  BY <1>2, <1>4
<1> HIDE DEF T
<1>6. DOMAIN s = 1..last  BY <1>2
<1>7. t = [s EXCEPT ![last] = y]
  <2>1. /\ [s EXCEPT ![last] = y] \in Seq(T)
        /\ Len([s EXCEPT ![last] = y]) = last
        /\ \A j \in 1..last : [s EXCEPT ![last] = y][j] = IF j = last THEN y ELSE s[j]
    BY <1>2, <1>5, ExceptSeq
  <2>2. \A j \in 1..last : t[j] = [s EXCEPT ![last] = y][j]
    BY <1>2, <1>3, <1>4, <2>1
  <2> QED  BY <1>3, <2>1, <2>2, SeqEqual
<1> QED  BY <1>2, <1>4, <1>6, <1>7 DEF s, t

\* SetNewNodeSignature replaces a field of the last addendum and nothing else.
LEMMA NewNodeSignatureSet ==
    ASSUME NEW S, NEW base \in Seq(S), NEW x, NEW v, NEW nodes, NEW signature
    PROVE  SetNewNodeSignature([version |-> v, nodes |-> nodes, addenda |-> Append(base, x)], signature)
            = [version |-> v, nodes |-> nodes,
               addenda |-> Append(base, [x EXCEPT !.new_node_signature = signature])]
<1> DEFINE s == Append(base, x)
           y == [x EXCEPT !.new_node_signature = signature]
           t == Append(base, y)
           r == [version |-> v, nodes |-> nodes, addenda |-> s]
<1>1. s[Len(s)] = x /\ [s EXCEPT ![Len(s)] = y] = t
  <2> HIDE DEF y
  <2> QED  BY AppendLast
<1> HIDE DEF s, t
<1>2. SetNewNodeSignature(r, signature) = [r EXCEPT !.addenda[Len(s)].new_node_signature = signature]
  BY DEF SetNewNodeSignature
<1>3. [r EXCEPT !.addenda[Len(s)].new_node_signature = signature]
        = [r EXCEPT !.addenda = [s EXCEPT ![Len(s)] = [s[Len(s)] EXCEPT !.new_node_signature = signature]]]
  OBVIOUS
<1>4. [r EXCEPT !.addenda = t] = [version |-> v, nodes |-> nodes, addenda |-> t]
  OBVIOUS
<1> QED  BY <1>1, <1>2, <1>3, <1>4 DEF s, t

\* SetEndorserSignature replaces a field of the last addendum and nothing else.
LEMMA EndorserSignatureSet ==
    ASSUME NEW S, NEW base \in Seq(S), NEW x, NEW v, NEW nodes, NEW signature
    PROVE  SetEndorserSignature([version |-> v, nodes |-> nodes, addenda |-> Append(base, x)], signature)
            = [version |-> v, nodes |-> nodes,
               addenda |-> Append(base, [x EXCEPT !.endorser_signature = signature])]
<1> DEFINE s == Append(base, x)
           y == [x EXCEPT !.endorser_signature = signature]
           t == Append(base, y)
           r == [version |-> v, nodes |-> nodes, addenda |-> s]
<1>1. s[Len(s)] = x /\ [s EXCEPT ![Len(s)] = y] = t
  <2> HIDE DEF y
  <2> QED  BY AppendLast
<1> HIDE DEF s, t
<1>2. SetEndorserSignature(r, signature) = [r EXCEPT !.addenda[Len(s)].endorser_signature = signature]
  BY DEF SetEndorserSignature
<1>3. [r EXCEPT !.addenda[Len(s)].endorser_signature = signature]
        = [r EXCEPT !.addenda = [s EXCEPT ![Len(s)] = [s[Len(s)] EXCEPT !.endorser_signature = signature]]]
  OBVIOUS
<1>4. [r EXCEPT !.addenda = t] = [version |-> v, nodes |-> nodes, addenda |-> t]
  OBVIOUS
<1> QED  BY <1>1, <1>2, <1>3, <1>4 DEF s, t

\* SetRevokerSignature replaces a field of the last addendum and nothing else.
LEMMA RevokerSignatureSet ==
    ASSUME NEW S, NEW base \in Seq(S), NEW x, NEW v, NEW nodes, NEW signature
    PROVE  SetRevokerSignature([version |-> v, nodes |-> nodes, addenda |-> Append(base, x)], signature)
            = [version |-> v, nodes |-> nodes,
               addenda |-> Append(base, [x EXCEPT !.revoker_signature = signature])]
<1> DEFINE s == Append(base, x)
           y == [x EXCEPT !.revoker_signature = signature]
           t == Append(base, y)
           r == [version |-> v, nodes |-> nodes, addenda |-> s]
<1>1. s[Len(s)] = x /\ [s EXCEPT ![Len(s)] = y] = t
  <2> HIDE DEF y
  <2> QED  BY AppendLast
<1> HIDE DEF s, t
<1>2. SetRevokerSignature(r, signature) = [r EXCEPT !.addenda[Len(s)].revoker_signature = signature]
  BY DEF SetRevokerSignature
<1>3. [r EXCEPT !.addenda[Len(s)].revoker_signature = signature]
        = [r EXCEPT !.addenda = [s EXCEPT ![Len(s)] = [s[Len(s)] EXCEPT !.revoker_signature = signature]]]
  OBVIOUS
<1>4. [r EXCEPT !.addenda = t] = [version |-> v, nodes |-> nodes, addenda |-> t]
  OBVIOUS
<1> QED  BY <1>1, <1>2, <1>3, <1>4 DEF s, t

\* Filling in the signatures that a verified activation came with gives back
\* its addendum.
LEMMA SignaturesOfActivation ==
    ASSUME NEW S, NEW base \in Seq(S), NEW a, ActivationShape(a), NEW v, NEW nodes
    PROVE  SetActivationSignatures(
                [version |-> v, nodes |-> nodes, addenda |-> Append(base, WithoutSignatures(a))],
                a.new_node_signature, a.endorser_signature)
            = [version |-> v, nodes |-> nodes, addenda |-> Append(base, a)]
<1> DEFINE bare == WithoutSignatures(a)
           half == [bare EXCEPT !.new_node_signature = a.new_node_signature]
           With(x) == [version |-> v, nodes |-> nodes, addenda |-> Append(base, x)]
<1>1. a.kind = "activation"  BY DEF ActivationShape
<1>2. bare = Activation(a.version, a.new_node, a.endorser, a.nonces)
  BY <1>1 DEF WithoutSignatures
<1>3. half = [kind |-> "activation", version |-> a.version, new_node |-> a.new_node,
              endorser |-> a.endorser, nonces |-> a.nonces,
              new_node_signature |-> a.new_node_signature,
              endorser_signature |-> NoSignature]
  BY <1>2 DEF Activation
<1>4. [half EXCEPT !.endorser_signature = a.endorser_signature]
        = [kind |-> "activation", version |-> a.version, new_node |-> a.new_node,
           endorser |-> a.endorser, nonces |-> a.nonces,
           new_node_signature |-> a.new_node_signature,
           endorser_signature |-> a.endorser_signature]
  <2> HIDE DEF half
  <2> QED  BY <1>3
<1>5. [half EXCEPT !.endorser_signature = a.endorser_signature] = a
  BY <1>4 DEF ActivationShape
<1> HIDE DEF bare
<1>6. SetNewNodeSignature(With(bare), a.new_node_signature) = With(half)
  BY NewNodeSignatureSet DEF half
<1> HIDE DEF half
<1>7. SetEndorserSignature(With(half), a.endorser_signature) = With(a)
  <2> DEFINE full == [half EXCEPT !.endorser_signature = a.endorser_signature]
  <2>1. SetEndorserSignature(With(half), a.endorser_signature) = With(full)
    BY EndorserSignatureSet
  <2>2. full = a  BY <1>5
  <2> HIDE DEF full
  <2> QED  BY <2>1, <2>2
<1> QED  BY <1>6, <1>7 DEF SetActivationSignatures, bare

\* The same for a revocation.
LEMMA SignatureOfRevocation ==
    ASSUME NEW S, NEW base \in Seq(S), NEW a, RevocationShape(a), NEW v, NEW nodes
    PROVE  SetRevokerSignature(
                [version |-> v, nodes |-> nodes, addenda |-> Append(base, WithoutSignatures(a))],
                a.revoker_signature)
            = [version |-> v, nodes |-> nodes, addenda |-> Append(base, a)]
<1> DEFINE bare == WithoutSignatures(a)
           With(x) == [version |-> v, nodes |-> nodes, addenda |-> Append(base, x)]
<1>1. a.kind = "revocation"  BY DEF RevocationShape
<1>2. bare = Revocation(a.version, a.revoked, a.revoker)
  BY <1>1 DEF WithoutSignatures
<1>3. [bare EXCEPT !.revoker_signature = a.revoker_signature]
        = [kind |-> "revocation", version |-> a.version, revoked |-> a.revoked,
           revoker |-> a.revoker, revoker_signature |-> a.revoker_signature]
  BY <1>2 DEF Revocation
<1>4. [bare EXCEPT !.revoker_signature = a.revoker_signature] = a
  BY <1>3 DEF RevocationShape
<1> HIDE DEF bare
<1>5. SetRevokerSignature(With(bare), a.revoker_signature) = With(a)
  <2> DEFINE full == [bare EXCEPT !.revoker_signature = a.revoker_signature]
  <2>1. SetRevokerSignature(With(bare), a.revoker_signature) = With(full)
    BY RevokerSignatureSet
  <2>2. full = a  BY <1>4
  <2> HIDE DEF full
  <2> QED  BY <2>1, <2>2
<1> QED  BY <1>5 DEF bare

-----------------------------------------------------------------------------
(* What a roster's history says, addendum by addendum. *)

\* Before the first addendum nobody is in the group.
LEMMA NobodyBefore ==
    ASSUME NEW r, AddendaShape(r.addenda)
    PROVE  Introduced(r, 0) = {} /\ RevokedIn(r, 0) = {}
<1>1. \A k \in DOMAIN r.addenda : k \in Nat \ {0}
  BY DEF AddendaShape
<1> QED  BY <1>1 DEF Introduced, RevokedIn, Activations

\* An activation brings in its node, the first one its endorser too.
LEMMA ActivationIntroduces ==
    ASSUME NEW r, AddendaShape(r.addenda), NEW i \in 1..Len(r.addenda),
           r.addenda[i].kind = "activation"
    PROVE  /\ Introduced(r, i) = Introduced(r, i - 1) \cup {r.addenda[i].new_node}
                                    \cup (IF i = 1 THEN {r.addenda[i].endorser} ELSE {})
           /\ RevokedIn(r, i) = RevokedIn(r, i - 1)
<1>1. DOMAIN r.addenda = 1..Len(r.addenda) /\ Len(r.addenda) \in Nat
  BY DEF AddendaShape
<1>2. i \in Activations(r) /\ Activations(r) \subseteq Nat \ {0}
  BY <1>1 DEF Activations
<1>3. {k \in Activations(r) : k <= i} = {k \in Activations(r) : k <= i - 1} \cup {i}
  BY <1>2
<1>4. {k \in Activations(r) : k = 1 /\ k <= i}
        = {k \in Activations(r) : k = 1 /\ k <= i - 1} \cup (IF i = 1 THEN {i} ELSE {})
  BY <1>2
<1>5. {k \in DOMAIN r.addenda \ Activations(r) : k <= i}
        = {k \in DOMAIN r.addenda \ Activations(r) : k <= i - 1}
  BY <1>1, <1>2
<1>6. RevokedIn(r, i) = RevokedIn(r, i - 1)
  BY <1>5 DEF RevokedIn
<1>7. Introduced(r, i) = Introduced(r, i - 1) \cup {r.addenda[i].new_node}
                           \cup (IF i = 1 THEN {r.addenda[i].endorser} ELSE {})
  BY <1>3, <1>4 DEF Introduced
<1> QED  BY <1>6, <1>7

\* A revocation takes out its node and brings in nobody.
LEMMA RevocationRevokes ==
    ASSUME NEW r, AddendaShape(r.addenda), NEW i \in 1..Len(r.addenda),
           r.addenda[i].kind # "activation"
    PROVE  /\ Introduced(r, i) = Introduced(r, i - 1)
           /\ RevokedIn(r, i) = RevokedIn(r, i - 1) \cup {r.addenda[i].revoked}
<1>1. DOMAIN r.addenda = 1..Len(r.addenda) /\ Len(r.addenda) \in Nat
  BY DEF AddendaShape
<1>2. i \notin Activations(r) /\ Activations(r) \subseteq Nat \ {0}
  BY <1>1 DEF Activations
<1>3. {k \in Activations(r) : k <= i} = {k \in Activations(r) : k <= i - 1}
  BY <1>2
<1>4. {k \in Activations(r) : k = 1 /\ k <= i}
        = {k \in Activations(r) : k = 1 /\ k <= i - 1}
  BY <1>2
<1>5. {k \in DOMAIN r.addenda \ Activations(r) : k <= i}
        = {k \in DOMAIN r.addenda \ Activations(r) : k <= i - 1} \cup {i}
  BY <1>1, <1>2
<1>6. RevokedIn(r, i) = RevokedIn(r, i - 1) \cup {r.addenda[i].revoked}
  BY <1>5 DEF RevokedIn
<1>7. Introduced(r, i) = Introduced(r, i - 1)
  BY <1>3, <1>4 DEF Introduced
<1> QED  BY <1>6, <1>7

-----------------------------------------------------------------------------
(* Lists of nodes. *)

\* No number is listed twice.
DistinctNumbers(nodes) ==
    \A i, j \in 1..Len(nodes) : nodes[i].number = nodes[j].number => i = j

\* In a list without duplicates, MarkRevoked marks the entry of its number and
\* changes nothing else.
LEMMA MarkRevokedMarks ==
    ASSUME NEW nodes \in Seq(NodeEntry), NEW x, DistinctNumbers(nodes)
    PROVE  /\ MarkRevoked(nodes, x) \in Seq(NodeEntry)
           /\ Len(MarkRevoked(nodes, x)) = Len(nodes)
           /\ \A k \in 1..Len(nodes) :
                /\ MarkRevoked(nodes, x)[k].number = nodes[k].number
                /\ MarkRevoked(nodes, x)[k].key = nodes[k].key
                /\ MarkRevoked(nodes, x)[k].revoked = (nodes[k].revoked \/ nodes[k].number = x)
<1> DEFINE i == PositionOf(nodes, x)
<1>1. CASE i = 0
  <2>1. MarkRevoked(nodes, x) = nodes  BY <1>1 DEF MarkRevoked
  <2>2. \A k \in 1..Len(nodes) : nodes[k].number # x  BY <1>1, PositionFound
  <2>3. \A k \in 1..Len(nodes) : nodes[k] \in NodeEntry  OBVIOUS
  <2>4. \A k \in 1..Len(nodes) : nodes[k].revoked \in BOOLEAN  BY <2>3 DEF NodeEntry
  <2> QED  BY <2>1, <2>2, <2>4
<1>2. CASE i # 0
  <2>1. i \in 1..Len(nodes) /\ nodes[i].number = x  BY <1>2, PositionFound
  <2> HIDE DEF i
  <2> DEFINE marked == [nodes[i] EXCEPT !.revoked = TRUE]
  <2>2. nodes[i] \in NodeEntry  BY <2>1
  <2>3. /\ marked \in NodeEntry /\ marked.number = nodes[i].number
        /\ marked.key = nodes[i].key /\ marked.revoked = TRUE
    BY <2>2 DEF NodeEntry
  <2>4. MarkRevoked(nodes, x) = [nodes EXCEPT ![i] = marked]
    BY <1>2 DEF MarkRevoked, i
  <2> HIDE DEF marked
  <2>5. /\ [nodes EXCEPT ![i] = marked] \in Seq(NodeEntry)
        /\ Len([nodes EXCEPT ![i] = marked]) = Len(nodes)
        /\ \A j \in 1..Len(nodes) :
              [nodes EXCEPT ![i] = marked][j] = IF j = i THEN marked ELSE nodes[j]
    BY <2>1, <2>3, ExceptSeq
  <2>6. ASSUME NEW k \in 1..Len(nodes)
        PROVE  /\ MarkRevoked(nodes, x)[k].number = nodes[k].number
               /\ MarkRevoked(nodes, x)[k].key = nodes[k].key
               /\ MarkRevoked(nodes, x)[k].revoked = (nodes[k].revoked \/ nodes[k].number = x)
    <3>1. nodes[k] \in NodeEntry  OBVIOUS
    <3>2. nodes[k].revoked \in BOOLEAN  BY <3>1 DEF NodeEntry
    <3>3. CASE k = i
      BY <3>3, <2>1, <2>3, <2>4, <2>5
    <3>4. CASE k # i
      <4>1. nodes[k].number # x  BY <3>4, <2>1 DEF DistinctNumbers
      <4>2. MarkRevoked(nodes, x)[k] = nodes[k]  BY <3>4, <2>4, <2>5
      <4> QED  BY <4>1, <4>2, <3>2
    <3> QED  BY <3>3, <3>4
  <2> QED  BY <2>4, <2>5, <2>6
<1> QED  BY <1>1, <1>2

-----------------------------------------------------------------------------
(* One addendum of the walk: what is asked of it, and what it leads to. *)

NewKey(r, a) == r.nodes[PositionOf(r.nodes, a.new_node)].key
EndorserKey(r, a, i, w) ==
    IF i = 1 THEN r.nodes[PositionOf(r.nodes, a.endorser)].key ELSE w.keys[a.endorser]

ActivationSound(r, a, i, w) ==
    /\ a.version = i
    /\ a.new_node # a.endorser
    /\ ~Duplicate(w, a.new_node)
    /\ PositionOf(r.nodes, a.new_node) # 0
    /\ IF i = 1 THEN PositionOf(r.nodes, a.endorser) # 0 ELSE a.endorser \in DOMAIN w.keys

RevocationSound(a, i, w) ==
    /\ a.version = i
    /\ a.revoker \in DOMAIN w.keys
    /\ a.revoked \in DOMAIN w.keys

\* The nodes after an activation, the roster it is signed over, and the keys.
NodesWith(r, a, i, w) ==
    w.roster.nodes
      \o (IF i = 1 THEN <<Node(a.endorser, EndorserKey(r, a, i, w))>> ELSE <<>>)
      \o <<Node(a.new_node, NewKey(r, a))>>
ActivationContent(r, a, i, w) ==
    [version |-> i, nodes |-> NodesWith(r, a, i, w),
     addenda |-> Append(w.roster.addenda, WithoutSignatures(a))]
KeysWith(r, a, i, w) ==
    SetKey(SetKey(w.keys, a.endorser, EndorserKey(r, a, i, w)), a.new_node, NewKey(r, a))
RevocationContent(a, i, w) ==
    [version |-> i, nodes |-> MarkRevoked(w.roster.nodes, a.revoked),
     addenda |-> Append(w.roster.addenda, WithoutSignatures(a))]

ActivationSigned(r, a, i, w) ==
    /\ a.new_node_signature = Sign(NewKey(r, a), ActivationContent(r, a, i, w))
    /\ a.endorser_signature = Sign(EndorserKey(r, a, i, w), ActivationContent(r, a, i, w))
RevocationSigned(a, i, w) ==
    a.revoker_signature = Sign(w.keys[a.revoker], RevocationContent(a, i, w))

ActivationResult(r, a, i, w) ==
    [ok |-> TRUE,
     roster |-> [version |-> i, nodes |-> NodesWith(r, a, i, w),
                 addenda |-> Append(w.roster.addenda, a)],
     keys |-> KeysWith(r, a, i, w)]
RevocationResult(a, i, w) ==
    [ok |-> TRUE,
     roster |-> [version |-> i, nodes |-> MarkRevoked(w.roster.nodes, a.revoked),
                 addenda |-> Append(w.roster.addenda, a)],
     keys |-> DropKey(w.keys, a.revoked)]

\* An activation is applied if it is sound and signed, and refused otherwise.
LEMMA ActivationApplied ==
    ASSUME NEW r, NEW a, ActivationShape(a), NEW i, NEW w, NEW S, w.roster.addenda \in Seq(S)
    PROVE  ApplyActivation(r, a, i, w) =
             IF ActivationSound(r, a, i, w) /\ ActivationSigned(r, a, i, w)
             THEN ActivationResult(r, a, i, w) ELSE Refused(w)
<1> DEFINE content == ActivationContent(r, a, i, w)
           applied == [ok |-> TRUE,
                       roster |-> SetActivationSignatures(content, a.new_node_signature,
                                                          a.endorser_signature),
                       keys |-> KeysWith(r, a, i, w)]
<1>1. CASE ~ActivationSound(r, a, i, w)
  BY <1>1 DEF ApplyActivation, ActivationSound
<1>2. CASE ActivationSound(r, a, i, w)
  <2>1. ApplyActivation(r, a, i, w) =
          IF /\ VerifySignature(NewKey(r, a), content, a.new_node_signature)
             /\ VerifySignature(EndorserKey(r, a, i, w), content, a.endorser_signature)
          THEN applied ELSE Refused(w)
    BY <1>2 DEF ApplyActivation, ActivationSound, NewKey, EndorserKey, ActivationContent,
                NodesWith, KeysWith
  <2>2. applied = ActivationResult(r, a, i, w)
    <3>1. SetActivationSignatures(content, a.new_node_signature, a.endorser_signature)
            = [version |-> i, nodes |-> NodesWith(r, a, i, w),
               addenda |-> Append(w.roster.addenda, a)]
      <4> DEFINE ns == NodesWith(r, a, i, w)
                 base == w.roster.addenda
      <4>1. content = [version |-> i, nodes |-> ns, addenda |-> Append(base, WithoutSignatures(a))]
        BY DEF ActivationContent
      <4>2. base \in Seq(S)  OBVIOUS
      <4> HIDE DEF ns, base, content
      <4>3. SetActivationSignatures(content, a.new_node_signature, a.endorser_signature)
              = [version |-> i, nodes |-> ns, addenda |-> Append(base, a)]
        BY <4>1, <4>2, SignaturesOfActivation
      <4> QED  BY <4>3 DEF ns, base
    <3> QED  BY <3>1 DEF ActivationResult
  <2> HIDE DEF applied, content
  <2> QED  BY <1>2, <2>1, <2>2 DEF VerifySignature, ActivationSigned, content
<1> QED  BY <1>1, <1>2

\* The same for a revocation.
LEMMA RevocationApplied ==
    ASSUME NEW a, RevocationShape(a), NEW i, NEW w, NEW S, w.roster.addenda \in Seq(S)
    PROVE  ApplyRevocation(a, i, w) =
             IF RevocationSound(a, i, w) /\ RevocationSigned(a, i, w)
             THEN RevocationResult(a, i, w) ELSE Refused(w)
<1> DEFINE content == RevocationContent(a, i, w)
           applied == [ok |-> TRUE,
                       roster |-> SetRevokerSignature(content, a.revoker_signature),
                       keys |-> DropKey(w.keys, a.revoked)]
<1>1. CASE ~RevocationSound(a, i, w)
  BY <1>1 DEF ApplyRevocation, RevocationSound
<1>2. CASE RevocationSound(a, i, w)
  <2>1. ApplyRevocation(a, i, w) =
          IF VerifySignature(w.keys[a.revoker], content, a.revoker_signature)
          THEN applied ELSE Refused(w)
    BY <1>2 DEF ApplyRevocation, RevocationSound, RevocationContent
  <2>2. applied = RevocationResult(a, i, w)
    <3>1. SetRevokerSignature(content, a.revoker_signature)
            = [version |-> i, nodes |-> MarkRevoked(w.roster.nodes, a.revoked),
               addenda |-> Append(w.roster.addenda, a)]
      BY SignatureOfRevocation DEF RevocationContent
    <3> QED  BY <3>1 DEF RevocationResult
  <2> HIDE DEF applied, content
  <2> QED  BY <1>2, <2>1, <2>2 DEF VerifySignature, RevocationSigned, content
<1> QED  BY <1>1, <1>2

-----------------------------------------------------------------------------
(* What the walk knows after i addenda that it did not refuse. *)

NodesFacts(r, i, nodes) ==
    /\ nodes \in Seq(NodeEntry)
    /\ DistinctNumbers(nodes)
    /\ IsFiniteSet(Introduced(r, i))
    /\ Len(nodes) = Cardinality(Introduced(r, i))
    /\ \A k \in 1..Len(nodes) : nodes[k].number \in Introduced(r, i)
    /\ \A n \in Introduced(r, i) : \E k \in 1..Len(nodes) : nodes[k].number = n
    /\ \A k \in 1..Len(nodes) : nodes[k].revoked <=> nodes[k].number \in RevokedIn(r, i)

KeysFacts(r, i, nodes, keys) ==
    /\ DOMAIN keys = ActiveAfter(r, i)
    /\ \A k \in 1..Len(nodes) :
         nodes[k].number \in DOMAIN keys => keys[nodes[k].number] = nodes[k].key

WalkFacts(r, i, w) ==
    /\ w = [ok |-> TRUE,
            roster |-> [version |-> i, nodes |-> w.roster.nodes,
                        addenda |-> SubSeq(r.addenda, 1, i)],
            keys |-> w.keys]
    /\ NodesFacts(r, i, w.roster.nodes)
    /\ KeysFacts(r, i, w.roster.nodes, w.keys)
    /\ RevokedIn(r, i) \subseteq Introduced(r, i)

NodesGrow(r, a, i, w, old, new) ==
    /\ NodesFacts(r, i, new)
    /\ Len(new) = Len(old) + 1 + (IF i = 1 THEN 1 ELSE 0)
    /\ \A k \in 1..Len(old) : new[k] = old[k]
    /\ new[Len(new)] = Node(a.new_node, NewKey(r, a))
    /\ i = 1 => Len(old) = 0 /\ new[1] = Node(a.endorser, EndorserKey(r, a, i, w))
    /\ a.new_node \notin Introduced(r, i - 1)
    /\ i # 1 => a.endorser \in ActiveAfter(r, i - 1)
    /\ NewKey(r, a) \in AllKeys
    /\ i = 1 => EndorserKey(r, a, i, w) \in AllKeys

\* A list with an activated node, and before it the founder if it is the first,
\* is the list after the activation.
LEMMA NodesAfterActivation ==
    ASSUME NEW r, RosterShape(r), NEW i \in 1..Len(r.addenda), NEW a, a = r.addenda[i],
           ActivationShape(a), NEW w, WalkFacts(r, i - 1, w), ActivationSound(r, a, i, w)
    PROVE  NodesGrow(r, a, i, w, w.roster.nodes, NodesWith(r, a, i, w))
<1> DEFINE old == w.roster.nodes
           nk == NewKey(r, a)
           ek == EndorserKey(r, a, i, w)
           first == IF i = 1 THEN <<Node(a.endorser, ek)>> ELSE <<>>
           last == <<Node(a.new_node, nk)>>
           new == NodesWith(r, a, i, w)
           was == Introduced(r, i - 1)
           now == Introduced(r, i)
<1>0. /\ AddendaShape(r.addenda) /\ r.nodes \in Seq(NodeEntry)
      /\ a.kind = "activation" /\ a.new_node \in AllNumbers /\ a.endorser \in AllNumbers
      /\ a.new_node # a.endorser
  BY DEF RosterShape, ActivationShape, ActivationSound
<1>1. NodesFacts(r, i - 1, old) /\ DOMAIN w.keys = ActiveAfter(r, i - 1)
      /\ RevokedIn(r, i - 1) \subseteq was
  BY DEF WalkFacts, KeysFacts
<1>2. old \in Seq(NodeEntry)  BY <1>1 DEF NodesFacts
<1>3. nk \in AllKeys
  <2>1. PositionOf(r.nodes, a.new_node) \in 1..Len(r.nodes)
    BY <1>0, PositionFound DEF ActivationSound
  <2>2. r.nodes[PositionOf(r.nodes, a.new_node)] \in NodeEntry
    BY <1>0, <2>1, ElementOfSeq
  <2> QED  BY <2>2 DEF NewKey, NodeEntry
<1>4. i = 1 => ek \in AllKeys
  <2> SUFFICES ASSUME i = 1 PROVE ek \in AllKeys  OBVIOUS
  <2>1. PositionOf(r.nodes, a.endorser) \in 1..Len(r.nodes)
    BY <1>0, PositionFound DEF ActivationSound
  <2>2. r.nodes[PositionOf(r.nodes, a.endorser)] \in NodeEntry
    BY <1>0, <2>1, ElementOfSeq
  <2> QED  BY <2>2 DEF EndorserKey, NodeEntry
<1>5. /\ now = was \cup {a.new_node} \cup (IF i = 1 THEN {a.endorser} ELSE {})
      /\ RevokedIn(r, i) = RevokedIn(r, i - 1)
  BY <1>0, ActivationIntroduces
<1>6. i = 1 => was = {} /\ RevokedIn(r, i - 1) = {}
  BY <1>0, NobodyBefore
<1>7. i = 1 => Len(old) = 0
  BY <1>1, <1>6, FS_EmptySet DEF NodesFacts
<1>8. a.new_node \notin was
  <2>1. \A k \in 1..Len(old) : old[k].number # a.new_node
    BY <1>2, PositionFound DEF ActivationSound, Duplicate
  <2> QED  BY <1>1, <2>1 DEF NodesFacts
<1>9. i # 1 => a.endorser \in ActiveAfter(r, i - 1)
  BY <1>1 DEF ActivationSound
<1>10. \A n \in AllNumbers, key \in AllKeys :
         /\ Node(n, key) \in NodeEntry /\ Node(n, key).number = n
         /\ Node(n, key).key = key /\ Node(n, key).revoked = FALSE
  BY DEF Node, NodeEntry
<1>11. /\ first \in Seq(NodeEntry) /\ Len(first) = IF i = 1 THEN 1 ELSE 0
       /\ i = 1 => first[1] = Node(a.endorser, ek)
       /\ last \in Seq(NodeEntry) /\ Len(last) = 1 /\ last[1] = Node(a.new_node, nk)
  <2>1. Node(a.new_node, nk) \in NodeEntry  BY <1>0, <1>3, <1>10
  <2>2. i = 1 => Node(a.endorser, ek) \in NodeEntry  BY <1>0, <1>4, <1>10
  <2> HIDE DEF nk, ek
  <2> QED  BY <2>1, <2>2
<1>12. new = (old \o first) \o last
  BY DEF NodesWith
<1> HIDE DEF first, last, old, nk, ek
<1>13. /\ old \o first \in Seq(NodeEntry) /\ Len(old \o first) = Len(old) + Len(first)
       /\ \A k \in 1..Len(old) + Len(first) :
             (old \o first)[k] = IF k <= Len(old) THEN old[k] ELSE first[k - Len(old)]
  BY <1>2, <1>11, ConcatProperties
<1>14. /\ new \in Seq(NodeEntry) /\ Len(new) = Len(old) + Len(first) + 1
       /\ \A k \in 1..Len(old) + Len(first) : new[k] = (old \o first)[k]
       /\ new[Len(new)] = Node(a.new_node, nk)
  <2> DEFINE mid == old \o first
  <2>1. /\ mid \o last \in Seq(NodeEntry) /\ Len(mid \o last) = Len(mid) + 1
        /\ \A k \in 1..Len(mid) + 1 : (mid \o last)[k] =
              IF k <= Len(mid) THEN mid[k] ELSE last[k - Len(mid)]
    <3>1. mid \in Seq(NodeEntry)  BY <1>13
    <3>2. last \in Seq(NodeEntry) /\ Len(last) = 1  BY <1>11
    <3> HIDE DEF mid
    <3>3. /\ mid \o last \in Seq(NodeEntry) /\ Len(mid \o last) = Len(mid) + Len(last)
          /\ \A k \in 1..Len(mid) + Len(last) : (mid \o last)[k] =
                IF k <= Len(mid) THEN mid[k] ELSE last[k - Len(mid)]
      BY <3>1, <3>2, ConcatProperties
    <3> QED  BY <3>2, <3>3
  <2>2. Len(mid) \in Nat  BY <1>13
  <2>3. (mid \o last)[Len(mid) + 1] = last[1]  BY <2>1, <2>2
  <2> HIDE DEF mid
  <2>4. \A k \in 1..Len(mid) : (mid \o last)[k] = mid[k]  BY <2>1, <2>2
  <2> QED  BY <1>11, <1>12, <1>13, <2>1, <2>2, <2>3, <2>4 DEF mid
<1> HIDE DEF new
<1>15. /\ Len(old) \in Nat
       /\ Len(new) = Len(old) + 1 + (IF i = 1 THEN 1 ELSE 0)
       /\ \A k \in 1..Len(old) : new[k] = old[k]
       /\ i = 1 => new[1] = Node(a.endorser, ek)
  BY <1>2, <1>7, <1>11, <1>13, <1>14
<1>16. NodesFacts(r, i, new)
  <2>1. ASSUME NEW k \in 1..Len(new)
        PROVE  \/ k \in 1..Len(old) /\ new[k] = old[k]
               \/ i = 1 /\ k = 1 /\ new[k] = Node(a.endorser, ek)
               \/ k = Len(new) /\ new[k] = Node(a.new_node, nk)
    BY <1>7, <1>14, <1>15
  <2>2. \A k \in 1..Len(old) : old[k].number \in was
    BY <1>1 DEF NodesFacts
  <2>3. Node(a.new_node, nk).number = a.new_node /\ Node(a.new_node, nk).revoked = FALSE
    BY <1>0, <1>3, <1>10
  <2>4. i = 1 => Node(a.endorser, ek).number = a.endorser /\ Node(a.endorser, ek).revoked = FALSE
    BY <1>0, <1>4, <1>10
  <2>5. DistinctNumbers(new)
    <3> SUFFICES ASSUME NEW j \in 1..Len(new), NEW k \in 1..Len(new),
                        new[j].number = new[k].number, j < k
                 PROVE  FALSE
      BY <1>14 DEF DistinctNumbers
    <3>1. CASE i = 1
      BY <3>1, <1>0, <1>7, <1>15, <2>1, <2>3, <2>4
    <3>2. CASE i # 1
      <4>1. j \in 1..Len(old) /\ new[j] = old[j]  BY <3>2, <1>15
      <4>2. CASE k \in 1..Len(old)
        <5>1. new[k] = old[k]  BY <4>2, <1>15
        <5>2. DistinctNumbers(old)  BY <1>1 DEF NodesFacts
        <5> QED  BY <4>1, <4>2, <5>1, <5>2 DEF DistinctNumbers
      <4>3. CASE k = Len(new)
        <5>1. new[k].number = a.new_node  BY <4>3, <1>14, <2>3
        <5> QED  BY <4>1, <5>1, <2>2, <1>8
      <4> QED  BY <3>2, <4>2, <4>3, <1>15
    <3> QED  BY <3>1, <3>2
  <2>6. IsFiniteSet(now) /\ Len(new) = Cardinality(now)
    <3>1. IsFiniteSet(was) /\ Len(old) = Cardinality(was)  BY <1>1 DEF NodesFacts
    <3>2. /\ IsFiniteSet(was \cup {a.new_node})
          /\ Cardinality(was \cup {a.new_node}) = Cardinality(was) + 1
      BY <3>1, <1>8, FS_AddElement
    <3>3. CASE i # 1
      <4>1. now = was \cup {a.new_node}  BY <3>3, <1>5
      <4> QED  BY <3>1, <3>2, <3>3, <4>1, <1>15
    <3>4. CASE i = 1
      <4>1. a.endorser \notin was \cup {a.new_node}  BY <3>4, <1>0, <1>6
      <4>2. now = (was \cup {a.new_node}) \cup {a.endorser}  BY <3>4, <1>5
      <4>3. /\ IsFiniteSet(now)
            /\ Cardinality(now) = Cardinality(was \cup {a.new_node}) + 1
        <5> DEFINE mid == was \cup {a.new_node}
        <5>1. IsFiniteSet(mid) /\ a.endorser \notin mid  BY <3>2, <4>1
        <5>2. now = mid \cup {a.endorser}  BY <4>2
        <5> HIDE DEF mid, now
        <5>3. IsFiniteSet(now) /\ Cardinality(now) = Cardinality(mid) + 1
          BY <5>1, <5>2, FS_AddElement
        <5> QED  BY <5>3 DEF mid
      <4> QED  BY <3>1, <3>2, <3>4, <4>3, <1>15
    <3> QED  BY <3>3, <3>4
  <2>7. \A k \in 1..Len(new) : new[k].number \in now
    BY <1>5, <2>1, <2>2, <2>3, <2>4
  <2>8. ASSUME NEW n \in now PROVE \E k \in 1..Len(new) : new[k].number = n
    <3>1. CASE n \in was
      <4>1. PICK k \in 1..Len(old) : old[k].number = n  BY <3>1, <1>1 DEF NodesFacts
      <4>2. k \in 1..Len(new) /\ new[k] = old[k]  BY <4>1, <1>15
      <4> QED  BY <4>1, <4>2
    <3>2. CASE n = a.new_node
      <4>1. Len(new) \in 1..Len(new)  BY <1>15
      <4> QED  BY <3>2, <4>1, <1>14, <2>3
    <3>3. CASE i = 1 /\ n = a.endorser
      <4>1. 1 \in 1..Len(new)  BY <3>3, <1>15
      <4> QED  BY <3>3, <4>1, <1>15, <2>4
    <3> QED  BY <3>1, <3>2, <3>3, <1>5
  <2>9. ASSUME NEW k \in 1..Len(new)
        PROVE  new[k].revoked <=> new[k].number \in RevokedIn(r, i)
    <3>1. CASE k \in 1..Len(old) /\ new[k] = old[k]
      BY <3>1, <1>1, <1>5 DEF NodesFacts
    <3>2. CASE i = 1 /\ k = 1 /\ new[k] = Node(a.endorser, ek)
      <4>1. new[k].revoked = FALSE /\ RevokedIn(r, i) = {}  BY <3>2, <1>5, <1>6, <2>4
      <4> QED  BY <4>1
    <3>3. CASE k = Len(new) /\ new[k] = Node(a.new_node, nk)
      <4>1. new[k].revoked = FALSE /\ new[k].number = a.new_node  BY <3>3, <2>3
      <4>2. a.new_node \notin RevokedIn(r, i)  BY <1>1, <1>5, <1>8
      <4> QED  BY <4>1, <4>2
    <3> QED  BY <2>1, <3>1, <3>2, <3>3
  <2> QED  BY <1>14, <2>5, <2>6, <2>7, <2>8, <2>9 DEF NodesFacts
<1> QED  BY <1>3, <1>4, <1>7, <1>8, <1>9, <1>14, <1>15, <1>16
         DEF NodesGrow, old, new, nk, ek

\* The first i addenda are the first i - 1 and the next one.
LEMMA AddendaGrow ==
    ASSUME NEW addenda, AddendaShape(addenda), NEW i \in 1..Len(addenda)
    PROVE  /\ SubSeq(addenda, 1, i) = Append(SubSeq(addenda, 1, i - 1), addenda[i])
           /\ \E S : SubSeq(addenda, 1, i) \in Seq(S)
           /\ Len(SubSeq(addenda, 1, i)) = i
           /\ \A j \in 1..i : SubSeq(addenda, 1, i)[j] = addenda[j]
<1>1. PICK S : addenda \in Seq(S)  BY DEF AddendaShape
<1>2. /\ Len(addenda) \in Nat /\ i \in Nat \ {0} /\ i <= Len(addenda)
      /\ \A j \in 1..Len(addenda) : addenda[j] \in S
  BY <1>1
<1>3. /\ SubSeq(addenda, 1, i) \in Seq(S) /\ Len(SubSeq(addenda, 1, i)) = i
      /\ \A j \in 1..i : SubSeq(addenda, 1, i)[j] = addenda[j]
  BY <1>1, <1>2
<1>4. /\ SubSeq(addenda, 1, i - 1) \in Seq(S) /\ Len(SubSeq(addenda, 1, i - 1)) = i - 1
      /\ \A j \in 1..(i - 1) : SubSeq(addenda, 1, i - 1)[j] = addenda[j]
  BY <1>1, <1>2
<1> DEFINE t == SubSeq(addenda, 1, i)
           u == SubSeq(addenda, 1, i - 1)
<1>5. /\ Append(u, addenda[i]) \in Seq(S) /\ Len(Append(u, addenda[i])) = i
      /\ \A j \in 1..i : Append(u, addenda[i])[j] = addenda[j]
  <2>1. u \in Seq(S) /\ addenda[i] \in S /\ Len(u) = i - 1  BY <1>2, <1>4
  <2>2. \A j \in 1..(i - 1) : u[j] = addenda[j]  BY <1>4
  <2> HIDE DEF u
  <2> QED  BY <1>2, <2>1, <2>2, AppendProperties
<1>6. t = Append(u, addenda[i])
  <2>1. t \in Seq(S) /\ Len(t) = i /\ \A j \in 1..i : t[j] = addenda[j]  BY <1>3
  <2> HIDE DEF t, u
  <2> QED  BY <1>5, <2>1, SeqEqual
<1> QED  BY <1>3, <1>6

\* The walk after a sound activation.
LEMMA FactsAfterActivation ==
    ASSUME NEW r, RosterShape(r), NEW i \in 1..Len(r.addenda), NEW a, a = r.addenda[i],
           ActivationShape(a), NEW w, WalkFacts(r, i - 1, w), ActivationSound(r, a, i, w)
    PROVE  WalkFacts(r, i, ActivationResult(r, a, i, w))
<1> DEFINE old == w.roster.nodes
           nk == NewKey(r, a)
           ek == EndorserKey(r, a, i, w)
           new == NodesWith(r, a, i, w)
           keys == KeysWith(r, a, i, w)
           result == ActivationResult(r, a, i, w)
           was == Introduced(r, i - 1)
<1>0. /\ AddendaShape(r.addenda) /\ a.kind = "activation" /\ a.new_node # a.endorser
      /\ a.new_node \in AllNumbers /\ a.endorser \in AllNumbers
  BY DEF RosterShape, ActivationShape, ActivationSound
<1>1. /\ NodesFacts(r, i, new)
      /\ Len(old) \in Nat
      /\ Len(new) = Len(old) + 1 + (IF i = 1 THEN 1 ELSE 0)
      /\ \A k \in 1..Len(old) : new[k] = old[k]
      /\ new[Len(new)] = Node(a.new_node, nk)
      /\ i = 1 => Len(old) = 0 /\ new[1] = Node(a.endorser, ek)
      /\ a.new_node \notin was
      /\ i # 1 => a.endorser \in ActiveAfter(r, i - 1)
  <2>1. Len(old) \in Nat  BY DEF WalkFacts, NodesFacts
  <2>2. NodesGrow(r, a, i, w, w.roster.nodes, NodesWith(r, a, i, w))
    BY NodesAfterActivation
  <2> QED  BY <2>1, <2>2 DEF NodesGrow
<1>2. /\ Introduced(r, i) = was \cup {a.new_node} \cup (IF i = 1 THEN {a.endorser} ELSE {})
      /\ RevokedIn(r, i) = RevokedIn(r, i - 1)
      /\ RevokedIn(r, i - 1) \subseteq was
  BY <1>0, ActivationIntroduces DEF WalkFacts
<1>3. i = 1 => was = {} /\ RevokedIn(r, i - 1) = {}
  BY <1>0, NobodyBefore
<1>4. /\ DOMAIN w.keys = ActiveAfter(r, i - 1)
      /\ \A k \in 1..Len(old) : old[k].number \in DOMAIN w.keys =>
             w.keys[old[k].number] = old[k].key
  BY DEF WalkFacts, KeysFacts
<1>5. /\ DOMAIN keys = DOMAIN w.keys \cup {a.endorser} \cup {a.new_node}
      /\ keys[a.new_node] = nk
      /\ keys[a.endorser] = ek
      /\ \A m \in DOMAIN w.keys : m # a.new_node /\ m # a.endorser => keys[m] = w.keys[m]
  BY <1>0 DEF KeysWith, SetKey
<1>6. i # 1 => ek = w.keys[a.endorser]
  BY DEF EndorserKey
<1>7. \A n, key : Node(n, key).number = n /\ Node(n, key).key = key
  BY DEF Node
<1> HIDE DEF old, nk, ek, new, keys
<1>8. DOMAIN keys = ActiveAfter(r, i)
  BY <1>1, <1>2, <1>3, <1>4, <1>5 DEF ActiveAfter
<1>9. ASSUME NEW k \in 1..Len(new), new[k].number \in DOMAIN keys
      PROVE  keys[new[k].number] = new[k].key
  <2>1. CASE i # 1 /\ k \in 1..Len(old)
    <3>1. new[k] = old[k]  BY <2>1, <1>1
    <3>2. old[k].number \in was
      BY <2>1 DEF WalkFacts, NodesFacts, old
    <3>3. old[k].number # a.new_node  BY <3>2, <1>1
    <3>4. old[k].number \in DOMAIN w.keys
      BY <3>1, <3>3, <2>1, <1>1, <1>4, <1>5, <1>9
    <3>5. w.keys[old[k].number] = old[k].key  BY <2>1, <3>4, <1>4
    <3> QED  BY <3>1, <3>3, <3>4, <3>5, <2>1, <1>5, <1>6
  <2>2. CASE k = Len(new)
    BY <2>2, <1>1, <1>5, <1>7
  <2>3. CASE i = 1 /\ k = 1
    BY <2>3, <1>1, <1>5, <1>7
  <2> QED  BY <2>1, <2>2, <2>3, <1>1
<1>10. KeysFacts(r, i, new, keys)
  BY <1>8, <1>9 DEF KeysFacts
<1>11. Append(w.roster.addenda, a) = SubSeq(r.addenda, 1, i)
  BY <1>0, AddendaGrow DEF WalkFacts
<1>12. result = [ok |-> TRUE,
                 roster |-> [version |-> i, nodes |-> new, addenda |-> SubSeq(r.addenda, 1, i)],
                 keys |-> keys]
  BY <1>11 DEF ActivationResult, new, keys
<1> HIDE DEF result
<1>13. result.roster.nodes = new /\ result.keys = keys
  BY <1>12
<1> QED  BY <1>1, <1>2, <1>10, <1>12, <1>13 DEF WalkFacts, result

\* The walk after a sound revocation.
LEMMA FactsAfterRevocation ==
    ASSUME NEW r, RosterShape(r), NEW i \in 1..Len(r.addenda), NEW a, a = r.addenda[i],
           RevocationShape(a), NEW w, WalkFacts(r, i - 1, w), RevocationSound(a, i, w)
    PROVE  WalkFacts(r, i, RevocationResult(a, i, w))
<1> DEFINE old == w.roster.nodes
           new == MarkRevoked(old, a.revoked)
           keys == DropKey(w.keys, a.revoked)
           result == RevocationResult(a, i, w)
<1>0. AddendaShape(r.addenda) /\ a.kind # "activation"
  BY DEF RosterShape, RevocationShape
<1>1. /\ Introduced(r, i) = Introduced(r, i - 1)
      /\ RevokedIn(r, i) = RevokedIn(r, i - 1) \cup {a.revoked}
      /\ RevokedIn(r, i - 1) \subseteq Introduced(r, i - 1)
  BY <1>0, RevocationRevokes DEF WalkFacts
<1>2. NodesFacts(r, i - 1, old) /\ KeysFacts(r, i - 1, old, w.keys)
  BY DEF WalkFacts
<1>3. a.revoked \in DOMAIN w.keys /\ a.revoked \in Introduced(r, i - 1)
  BY <1>2 DEF RevocationSound, KeysFacts, ActiveAfter
<1>4. /\ new \in Seq(NodeEntry)
      /\ Len(new) = Len(old)
      /\ \A k \in 1..Len(old) :
           /\ new[k].number = old[k].number
           /\ new[k].key = old[k].key
           /\ new[k].revoked = (old[k].revoked \/ old[k].number = a.revoked)
  BY <1>2, MarkRevokedMarks DEF NodesFacts
<1>5. /\ DOMAIN keys = DOMAIN w.keys \ {a.revoked}
      /\ \A m \in DOMAIN keys : keys[m] = w.keys[m]
  BY DEF DropKey
<1> HIDE DEF old, new, keys
<1>6. NodesFacts(r, i, new)
  <2>1. DistinctNumbers(new)
    BY <1>2, <1>4 DEF NodesFacts, DistinctNumbers
  <2>2. \A k \in 1..Len(new) : new[k].revoked <=> new[k].number \in RevokedIn(r, i)
    BY <1>1, <1>2, <1>4 DEF NodesFacts
  <2>3. \A n \in Introduced(r, i) : \E k \in 1..Len(new) : new[k].number = n
    <3> SUFFICES ASSUME NEW n \in Introduced(r, i)
                 PROVE  \E k \in 1..Len(new) : new[k].number = n
      OBVIOUS
    <3>1. PICK k \in 1..Len(old) : old[k].number = n  BY <1>1, <1>2 DEF NodesFacts
    <3> QED  BY <3>1, <1>4
  <2>4. \A k \in 1..Len(new) : new[k].number \in Introduced(r, i)
    BY <1>1, <1>2, <1>4 DEF NodesFacts
  <2>5. IsFiniteSet(Introduced(r, i)) /\ Len(new) = Cardinality(Introduced(r, i))
    BY <1>1, <1>2, <1>4 DEF NodesFacts
  <2> QED  BY <1>4, <2>1, <2>2, <2>3, <2>4, <2>5 DEF NodesFacts
<1>7. KeysFacts(r, i, new, keys)
  <2>1. DOMAIN keys = ActiveAfter(r, i)
    BY <1>1, <1>2, <1>5 DEF KeysFacts, ActiveAfter
  <2>2. ASSUME NEW k \in 1..Len(new), new[k].number \in DOMAIN keys
        PROVE  keys[new[k].number] = new[k].key
    BY <2>2, <1>2, <1>4, <1>5 DEF KeysFacts
  <2> QED  BY <2>1, <2>2 DEF KeysFacts
<1>8. Append(w.roster.addenda, a) = SubSeq(r.addenda, 1, i)
  BY <1>0, AddendaGrow DEF WalkFacts
<1>9. result = [ok |-> TRUE,
                roster |-> [version |-> i, nodes |-> new, addenda |-> SubSeq(r.addenda, 1, i)],
                keys |-> keys]
  BY <1>8 DEF RevocationResult, new, keys, old
<1> HIDE DEF result
<1>10. result.roster.nodes = new /\ result.keys = keys
  BY <1>9
<1>11. RevokedIn(r, i) \subseteq Introduced(r, i)
  BY <1>1, <1>3
<1> QED  BY <1>6, <1>7, <1>9, <1>10, <1>11 DEF WalkFacts, result

-----------------------------------------------------------------------------
(* The loop as a whole. *)

WalkShape(w) == w = [ok |-> w.ok, roster |-> w.roster, keys |-> w.keys] /\ w.ok \in BOOLEAN

ActivationTaken(r, i, w) ==
    LET a == r.addenda[i]
    IN  a.kind = "activation" /\ ActivationSound(r, a, i, w) /\ ActivationSigned(r, a, i, w)
RevocationTaken(r, i, w) ==
    LET a == r.addenda[i]
    IN  a.kind # "activation" /\ RevocationSound(a, i, w) /\ RevocationSigned(a, i, w)

\* An addendum is one of the two kinds.
LEMMA AddendumKinds ==
    ASSUME NEW r, RosterShape(r), NEW i \in 1..Len(r.addenda)
    PROVE  /\ r.addenda[i].kind = "activation" => ActivationShape(r.addenda[i])
           /\ r.addenda[i].kind # "activation" => RevocationShape(r.addenda[i])
<1>1. ActivationShape(r.addenda[i]) \/ RevocationShape(r.addenda[i])
  BY DEF RosterShape, AddendaShape
<1>2. ActivationShape(r.addenda[i]) => r.addenda[i].kind = "activation"
  BY DEF ActivationShape
<1>3. RevocationShape(r.addenda[i]) => r.addenda[i].kind = "revocation"
  BY DEF RevocationShape
<1> QED  BY <1>1, <1>2, <1>3

\* One turn of the loop, from a walk that was not refused.
LEMMA AdvanceOnce ==
    ASSUME NEW r, RosterShape(r), NEW i \in 1..Len(r.addenda), NEW w, WalkFacts(r, i - 1, w)
    PROVE  Advance(r, i, w) =
             IF ActivationTaken(r, i, w) THEN ActivationResult(r, r.addenda[i], i, w)
             ELSE IF RevocationTaken(r, i, w) THEN RevocationResult(r.addenda[i], i, w)
             ELSE Refused(w)
<1> DEFINE a == r.addenda[i]
<1>1. w.ok /\ w.roster.addenda = SubSeq(r.addenda, 1, i - 1)
  BY DEF WalkFacts
<1>2. PICK S : r.addenda \in Seq(S)
  BY DEF RosterShape, AddendaShape
<1>3. w.roster.addenda \in Seq(S)
  BY <1>1, <1>2
<1>4. CASE a.kind = "activation"
  <2>1. ActivationShape(a)  BY <1>4, AddendumKinds
  <2>2. Advance(r, i, w) = ApplyActivation(r, a, i, w)
    BY <1>1, <1>4 DEF Advance
  <2> HIDE DEF a
  <2>3. ApplyActivation(r, a, i, w) =
          IF ActivationSound(r, a, i, w) /\ ActivationSigned(r, a, i, w)
          THEN ActivationResult(r, a, i, w) ELSE Refused(w)
    BY <1>3, <2>1, ActivationApplied
  <2> QED  BY <1>4, <2>2, <2>3 DEF ActivationTaken, RevocationTaken, a
<1>5. CASE a.kind # "activation"
  <2>1. RevocationShape(a)  BY <1>5, AddendumKinds
  <2>2. Advance(r, i, w) = ApplyRevocation(a, i, w)
    BY <1>1, <1>5 DEF Advance
  <2> HIDE DEF a
  <2>3. ApplyRevocation(a, i, w) =
          IF RevocationSound(a, i, w) /\ RevocationSigned(a, i, w)
          THEN RevocationResult(a, i, w) ELSE Refused(w)
    BY <1>3, <2>1, RevocationApplied
  <2> QED  BY <1>5, <2>2, <2>3 DEF ActivationTaken, RevocationTaken, a
<1> QED  BY <1>4, <1>5

\* The facts hold after one more turn, unless the addendum is refused.
LEMMA AdvanceKeepsFacts ==
    ASSUME NEW r, RosterShape(r), NEW i \in 1..Len(r.addenda), NEW w, WalkFacts(r, i - 1, w)
    PROVE  /\ WalkShape(Advance(r, i, w))
           /\ Advance(r, i, w).ok <=> ActivationTaken(r, i, w) \/ RevocationTaken(r, i, w)
           /\ Advance(r, i, w).ok => WalkFacts(r, i, Advance(r, i, w))
<1> DEFINE a == r.addenda[i]
           next == Advance(r, i, w)
<1>1. CASE ActivationTaken(r, i, w)
  <2>1. next = ActivationResult(r, a, i, w)  BY <1>1, AdvanceOnce
  <2>2. ActivationShape(a) /\ ActivationSound(r, a, i, w)
    BY <1>1, AddendumKinds DEF ActivationTaken
  <2>3. WalkFacts(r, i, next)
    <3> HIDE DEF next
    <3> QED  BY <2>1, <2>2, FactsAfterActivation
  <2>4. WalkShape(next) /\ next.ok
    <3> HIDE DEF next
    <3> QED  BY <2>1 DEF ActivationResult, WalkShape
  <2> QED  BY <1>1, <2>3, <2>4
<1>2. CASE RevocationTaken(r, i, w)
  <2>0. ~ActivationTaken(r, i, w)  BY <1>2 DEF ActivationTaken, RevocationTaken
  <2>1. next = RevocationResult(a, i, w)  BY <1>2, <2>0, AdvanceOnce
  <2>2. RevocationShape(a) /\ RevocationSound(a, i, w)
    BY <1>2, AddendumKinds DEF RevocationTaken
  <2>3. WalkFacts(r, i, next)
    <3> HIDE DEF next
    <3> QED  BY <2>1, <2>2, FactsAfterRevocation
  <2>4. WalkShape(next) /\ next.ok
    <3> HIDE DEF next
    <3> QED  BY <2>1 DEF RevocationResult, WalkShape
  <2> QED  BY <1>2, <2>3, <2>4
<1>3. CASE ~ActivationTaken(r, i, w) /\ ~RevocationTaken(r, i, w)
  <2>1. next = Refused(w)  BY <1>3, AdvanceOnce
  <2> HIDE DEF next
  <2>2. next = [ok |-> FALSE, roster |-> w.roster, keys |-> w.keys]
    BY <2>1 DEF Refused, WalkFacts
  <2>3. WalkShape(next) /\ ~next.ok
    BY <2>2 DEF WalkShape
  <2> QED  BY <1>3, <2>3 DEF next
<1> QED  BY <1>1, <1>2, <1>3

\* The walk over no addenda.
LEMMA FactsAtStart ==
    ASSUME NEW r, RosterShape(r)
    PROVE  WalkFacts(r, 0, WalkStart) /\ WalkShape(WalkStart)
<1>1. Introduced(r, 0) = {} /\ RevokedIn(r, 0) = {}
  BY NobodyBefore DEF RosterShape
<1>2. IsFiniteSet({}) /\ Cardinality({}) = 0
  BY FS_EmptySet
<1>3. NodesFacts(r, 0, <<>>)
  BY <1>1, <1>2 DEF NodesFacts, DistinctNumbers
<1>4. KeysFacts(r, 0, <<>>, [n \in {} |-> n])
  BY <1>1 DEF KeysFacts, ActiveAfter
<1>5. SubSeq(r.addenda, 1, 0) = <<>>
  BY SubSeqEmpty
<1>6. WalkStart = [ok |-> TRUE,
                   roster |-> [version |-> 0, nodes |-> <<>>, addenda |-> SubSeq(r.addenda, 1, 0)],
                   keys |-> [n \in {} |-> n]]
  BY <1>5 DEF WalkStart, EmptyRoster
<1> QED  BY <1>1, <1>3, <1>4, <1>6 DEF WalkFacts, WalkShape

\* The facts hold of every walk that was not refused.
LEMMA WalkInduction ==
    ASSUME NEW r, RosterShape(r), NEW j \in 0..Len(r.addenda)
    PROVE  /\ WalkShape(Walks(r)[j])
           /\ Walks(r)[j].ok => WalkFacts(r, j, Walks(r)[j])
<1> DEFINE n == Len(r.addenda)
           P == {i \in 0..n : /\ WalkShape(Walks(r)[i])
                              /\ Walks(r)[i].ok => WalkFacts(r, i, Walks(r)[i])}
<1>0. n \in Nat
  BY DEF RosterShape, AddendaShape
<1>1. 0 \in P
  BY <1>0, WalksEquation, FactsAtStart
<1>2. ASSUME NEW i \in 0..(n - 1), i \in P PROVE i + 1 \in P
  <2> DEFINE w == Walks(r)[i]
             next == Walks(r)[i + 1]
  <2>1. i + 1 \in 1..n /\ (i + 1) - 1 = i
    BY <1>0
  <2>2. next = Advance(r, i + 1, w)
    BY <1>0, <2>1, WalksEquation
  <2>3. WalkShape(w) /\ (w.ok => WalkFacts(r, i, w))
    BY <1>2
  <2> HIDE DEF w, next
  <2>4. CASE w.ok
    <3>1. WalkFacts(r, (i + 1) - 1, w)  BY <2>1, <2>3, <2>4
    <3>2. WalkShape(next) /\ (next.ok => WalkFacts(r, i + 1, next))
      BY <2>1, <2>2, <3>1, AdvanceKeepsFacts
    <3> QED  BY <1>0, <2>1, <3>2 DEF next
  <2>5. CASE ~w.ok
    <3>1. next = w  BY <2>2, <2>5 DEF Advance
    <3>2. WalkShape(next) /\ ~next.ok  BY <2>3, <2>5, <3>1
    <3> QED  BY <1>0, <2>1, <3>2 DEF next
  <2> QED  BY <2>4, <2>5
<1>3. 0..n \subseteq P
  <2> HIDE DEF P
  <2> QED  BY <1>0, <1>1, <1>2, SetInduction
<1> QED  BY <1>3

-----------------------------------------------------------------------------
(* A walk that was not refused. *)

\* The turn that took addendum i: w before it, v after it.
StepTaken(r, i, w, v) ==
    /\ w.ok /\ WalkFacts(r, i - 1, w) /\ WalkFacts(r, i, v)
    /\ \/ ActivationTaken(r, i, w) /\ v = ActivationResult(r, r.addenda[i], i, w)
       \/ RevocationTaken(r, i, w) /\ v = RevocationResult(r.addenda[i], i, w)

\* A walk that was not refused took its last addendum.
LEMMA LastTaken ==
    ASSUME NEW r, RosterShape(r), NEW i \in 1..Len(r.addenda), Walks(r)[i].ok
    PROVE  StepTaken(r, i, Walks(r)[i - 1], Walks(r)[i])
<1> DEFINE w == Walks(r)[i - 1]
           v == Walks(r)[i]
<1>0. Len(r.addenda) \in Nat /\ i \in 0..Len(r.addenda) /\ i - 1 \in 0..Len(r.addenda)
  BY DEF RosterShape, AddendaShape
<1>1. v = Advance(r, i, w)
  BY <1>0, WalksEquation
<1>2. (w.ok => WalkFacts(r, i - 1, w)) /\ WalkFacts(r, i, v)
  BY <1>0, WalkInduction
<1> HIDE DEF w, v
<1>3. w.ok
  BY <1>1 DEF Advance, v
<1>4. ActivationTaken(r, i, w) \/ RevocationTaken(r, i, w)
  BY <1>1, <1>2, <1>3, AdvanceKeepsFacts DEF v
<1>5. RevocationTaken(r, i, w) => ~ActivationTaken(r, i, w)
  BY DEF ActivationTaken, RevocationTaken
<1>6. \/ ActivationTaken(r, i, w) /\ v = ActivationResult(r, r.addenda[i], i, w)
      \/ RevocationTaken(r, i, w) /\ v = RevocationResult(r.addenda[i], i, w)
  BY <1>1, <1>2, <1>3, <1>4, <1>5, AdvanceOnce
<1> QED  BY <1>2, <1>3, <1>6 DEF StepTaken, w, v

\* Nor was it refused before.
LEMMA NeverRefused ==
    ASSUME NEW r, RosterShape(r), NEW j \in 0..Len(r.addenda), Walks(r)[j].ok, NEW i \in 0..j
    PROVE  Walks(r)[i].ok
<1> DEFINE P == {k \in 0..j : Walks(r)[j - k].ok}
<1>0. Len(r.addenda) \in Nat
  BY DEF RosterShape, AddendaShape
<1>1. 0 \in P
  BY <1>0
<1>2. ASSUME NEW k \in 0..(j - 1), k \in P PROVE k + 1 \in P
  <2> DEFINE m == j - k
  <2>1. m \in 1..Len(r.addenda) /\ Walks(r)[m].ok /\ j - (k + 1) = m - 1
    BY <1>0, <1>2
  <2> HIDE DEF m
  <2>2. StepTaken(r, m, Walks(r)[m - 1], Walks(r)[m])
    BY <2>1, LastTaken
  <2>3. Walks(r)[j - (k + 1)].ok
    BY <2>1, <2>2 DEF StepTaken
  <2> QED  BY <1>0, <2>3
<1>3. 0..j \subseteq P
  <2> HIDE DEF P
  <2> QED  BY <1>0, <1>1, <1>2, SetInduction
<1>4. j - i \in 0..j /\ j - (j - i) = i
  BY <1>0
<1> QED  BY <1>3, <1>4

\* So it took every addendum.
LEMMA AllTaken ==
    ASSUME NEW r, RosterShape(r), Walk(r).ok, NEW i \in 1..Len(r.addenda)
    PROVE  StepTaken(r, i, Walks(r)[i - 1], Walks(r)[i])
<1>1. Len(r.addenda) \in 0..Len(r.addenda) /\ i \in 0..Len(r.addenda)
  BY DEF RosterShape, AddendaShape
<1>2. Walks(r)[i].ok
  BY <1>1, NeverRefused DEF Walk
<1> QED  BY <1>2, LastTaken

\* The roster that a full walk rebuilds, if it is the roster walked over.
LEMMA FullWalk ==
    ASSUME NEW r, RosterShape(r), Reconstructed(r, Walk(r))
    PROVE  /\ r.version = Len(r.addenda)
           /\ NodesFacts(r, r.version, r.nodes)
           /\ KeysFacts(r, r.version, r.nodes, VerifiedKeys(r))
           /\ RevokedIn(r, r.version) \subseteq Introduced(r, r.version)
<1> DEFINE n == Len(r.addenda)
           w == Walks(r)[n]
<1>1. n \in 0..n
  BY DEF RosterShape, AddendaShape
<1>2. w.ok /\ w.roster = r /\ w.keys = VerifiedKeys(r)
  BY DEF Reconstructed, Walk, VerifiedKeys
<1>3. WalkFacts(r, n, w)
  BY <1>1, <1>2, WalkInduction
<1> HIDE DEF w, n
<1>4. r.version = n
  BY <1>2, <1>3 DEF WalkFacts
<1> QED  BY <1>2, <1>3, <1>4 DEF WalkFacts, n

\* verify_roster returns the keys of the nodes listed as not revoked.
LEMMA KeysOfActiveNodes ==
    ASSUME NEW r, RosterShape(r), Reconstructed(r, Walk(r))
    PROVE  DOMAIN VerifiedKeys(r) = ActiveNumbers(r)
<1> DEFINE N == r.version
<1>1. /\ NodesFacts(r, N, r.nodes)
      /\ KeysFacts(r, N, r.nodes, VerifiedKeys(r))
  BY FullWalk
<1> HIDE DEF N
<1>2. DOMAIN r.nodes = 1..Len(r.nodes)
  BY <1>1 DEF NodesFacts
<1>3. ActiveNumbers(r) = {n.number : n \in {m \in {r.nodes[k] : k \in 1..Len(r.nodes)} : ~m.revoked}}
  BY <1>2 DEF ActiveNumbers, ToSet
<1>4. ASSUME NEW n \in ActiveNumbers(r) PROVE n \in ActiveAfter(r, N)
  <2>1. PICK k \in 1..Len(r.nodes) : ~r.nodes[k].revoked /\ r.nodes[k].number = n
    BY <1>3
  <2> QED  BY <1>1, <2>1 DEF NodesFacts, ActiveAfter
<1>5. ASSUME NEW n \in ActiveAfter(r, N) PROVE n \in ActiveNumbers(r)
  <2>1. PICK k \in 1..Len(r.nodes) : r.nodes[k].number = n
    BY <1>1 DEF NodesFacts, ActiveAfter
  <2>2. ~r.nodes[k].revoked
    BY <1>1, <2>1 DEF NodesFacts, ActiveAfter
  <2> QED  BY <1>3, <2>1, <2>2
<1> QED  BY <1>1, <1>4, <1>5 DEF KeysFacts

\* "Ok" means that the roster is the one its addenda rebuild, and that the
\* verifier's key is among the keys returned.
LEMMA OkMeans ==
    ASSUME NEW r, NEW n, NEW key, VerifyRoster(r, n, key) = "Ok"
    PROVE  /\ r.version >= 1 /\ Len(r.addenda) = r.version
           /\ Reconstructed(r, Walk(r))
           /\ n \in DOMAIN VerifiedKeys(r) /\ VerifiedKeys(r)[n] = key
<1>1. ~(r.version < 1 \/ Len(r.addenda) # r.version)
  BY DEF VerifyRoster
<1>2. Reconstructed(r, Walk(r))
  BY <1>1 DEF VerifyRoster
<1>3. n \in DOMAIN VerifiedKeys(r) /\ VerifiedKeys(r)[n] = key
  BY <1>1, <1>2 DEF VerifyRoster, VerifiedKeys
<1> QED  BY <1>1, <1>2, <1>3

-----------------------------------------------------------------------------
(* Signatures of the nodes; made is the set of those that they gave. *)

\* The nodes list holds a node under its number with its own key.
Has(nodes, m) == \E k \in 1..Len(nodes) : nodes[k].number = m /\ nodes[k].key = KeyOf(m)

LastAddendum(w) == w.addenda[Len(w.addenda)]

\* k signed a roster that activates it, on a base with its endorser in it.
JoinerSigned(k, w) ==
    LastAddendum(w).new_node = k /\ Has(w.nodes, LastAddendum(w).endorser)

\* k signed a roster that it endorses, for a node it has paired with: both are in
\* the list, but whether that node is the one that is activated is left open.
EndorserSigned(ps, k, w) ==
    LET p == LastAddendum(w).nonces
    IN  /\ LastAddendum(w).endorser = k /\ Has(w.nodes, k)
        /\ p \in DOMAIN ps /\ ps[p].endorser = k /\ ps[p].new_node # k
        /\ Has(w.nodes, ps[p].new_node)

\* What a node looked at before it signed an activation.
SignatureFact(ps, s) ==
    (s.over.version >= 1 /\ LastAddendum(s.over).kind = "activation") =>
        JoinerSigned(s.by, s.over) \/ EndorserSigned(ps, s.by, s.over)

\* No signature of a node is found that it did not give.
Unforged(made, signature) ==
    signature = NoSignature \/ signature.by \notin Numbers \/ signature \in made

UnforgedAddendum(made, a) ==
    IF a.kind = "activation"
    THEN Unforged(made, a.new_node_signature) /\ Unforged(made, a.endorser_signature)
    ELSE Unforged(made, a.revoker_signature)

\* A signature with a node's key was given by the node.
LEMMA SignedByNode ==
    ASSUME NEW made, NEW k \in Numbers, NEW w, Unforged(made, Sign(k, w))
    PROVE  Sign(k, w) \in made
<1>1. Sign(k, w).by = k
  BY DEF Sign
<1>2. "by" \in DOMAIN Sign(k, w) /\ DOMAIN NoSignature = {}
  BY DEF Sign, NoSignature
<1>3. Sign(k, w) # NoSignature
  BY <1>2
<1> QED  BY <1>1, <1>3 DEF Unforged

\* A roster with one more addendum, before and after it is signed.
Unsigned(v, nodes, base, a) ==
    [version |-> v, nodes |-> nodes, addenda |-> Append(base, WithoutSignatures(a))]
Complete(v, nodes, base, a) ==
    [version |-> v, nodes |-> nodes, addenda |-> Append(base, a)]

\* An activation that only the new node has signed.
HalfSigned(v, n, e, p, s) ==
    [kind |-> "activation", version |-> v, new_node |-> n, endorser |-> e, nonces |-> p,
     new_node_signature |-> s, endorser_signature |-> NoSignature]

\* SetNewNodeSignature on a roster with a new activation, for a signature that is
\* a field of another record.
LEMMA HalfSignedIs ==
    ASSUME NEW S, NEW base \in Seq(S), NEW v, NEW nodes, NEW n, NEW e, NEW p, NEW a
    PROVE  SetNewNodeSignature(Complete(v, nodes, base, Activation(v, n, e, p)),
                               a.new_node_signature)
            = Complete(v, nodes, base, HalfSigned(v, n, e, p, a.new_node_signature))
<1> DEFINE bare == Activation(v, n, e, p)
           half == [bare EXCEPT !.new_node_signature = a.new_node_signature]
           With(x) == [version |-> v, nodes |-> nodes, addenda |-> Append(base, x)]
<1>1. half = HalfSigned(v, n, e, p, a.new_node_signature)
  BY DEF Activation, HalfSigned
<1> HIDE DEF bare
<1>2. SetNewNodeSignature(With(bare), a.new_node_signature) = With(half)
  BY NewNodeSignatureSet DEF half
<1> HIDE DEF half
<1> QED  BY <1>1, <1>2 DEF bare, Complete

\* And for any signature.
LEMMA ActivationHalfSigned ==
    ASSUME NEW S, NEW base \in Seq(S), NEW v, NEW nodes, NEW n, NEW e, NEW p, NEW s
    PROVE  SetNewNodeSignature(Complete(v, nodes, base, Activation(v, n, e, p)), s)
            = Complete(v, nodes, base, HalfSigned(v, n, e, p, s))
<1> DEFINE a == [new_node_signature |-> s]
<1>1. a.new_node_signature = s
  OBVIOUS
<1> HIDE DEF a
<1> QED  BY <1>1, HalfSignedIs

-----------------------------------------------------------------------------
(* What the hub shows, and what the nodes sign. *)

GoodAddendum(made, a) ==
    /\ a.version \in Int
    /\ ActivationShape(a) \/ RevocationShape(a)
    /\ UnforgedAddendum(made, a)

GoodAddenda(made, addenda) == \E S : addenda \in Seq(S) /\ \A a \in S : GoodAddendum(made, a)

GoodRoster(made, r) ==
    /\ r = [version |-> r.version, nodes |-> r.nodes, addenda |-> r.addenda]
    /\ r.version \in Int
    /\ r.nodes \in Seq(NodeEntry)
    /\ GoodAddenda(made, r.addenda)

\* A pairing is of two different nodes.
Pairing == [new_node : Numbers, endorser : Numbers, activating : BOOLEAN, pending : BOOLEAN]
GoodPairings(ps) ==
    ps \in Seq(Pairing) /\ \A p \in 1..Len(ps) : ps[p].new_node # ps[p].endorser

\* The inductive invariant: the hub's rosters carry no signature of a node that
\* the node did not give, and the nodes gave theirs after their checks.
ChainInv ==
    /\ GoodRoster(signed, hub)
    /\ \A r \in kept : GoodRoster(signed, r)
    /\ \A s \in signed : SignatureFact(pairings, s)
    /\ GoodPairings(pairings)

\* A good roster has the shape the lemmas on the walk ask for.
LEMMA GoodShape ==
    ASSUME NEW made, NEW r, GoodRoster(made, r)
    PROVE  /\ RosterShape(r)
           /\ \A i \in 1..Len(r.addenda) : GoodAddendum(made, r.addenda[i])
           /\ \A i \in 1..Len(r.addenda) : UnforgedAddendum(made, r.addenda[i])
<1>1. PICK S : r.addenda \in Seq(S) /\ \A a \in S : GoodAddendum(made, a)
  BY DEF GoodRoster, GoodAddenda
<1>2. \A i \in 1..Len(r.addenda) : r.addenda[i] \in S
  BY <1>1
<1>3. \A i \in 1..Len(r.addenda) : GoodAddendum(made, r.addenda[i])
  BY <1>1, <1>2
<1>4. AddendaShape(r.addenda)
  BY <1>1, <1>3 DEF AddendaShape, GoodAddendum
<1> QED  BY <1>3, <1>4 DEF RosterShape, GoodRoster, GoodAddendum

-----------------------------------------------------------------------------
(* The hub's edits leave good rosters good. *)

\* Taking an element out of a sequence.
LEMMA RemoveStays ==
    ASSUME NEW S, NEW s \in Seq(S), NEW i \in 1..Len(s)
    PROVE  RemoveAt(s, i) \in Seq(S)
<1>1. SubSeq(s, 1, i - 1) \in Seq(S) /\ SubSeq(s, i + 1, Len(s)) \in Seq(S)
  OBVIOUS
<1> DEFINE t == SubSeq(s, 1, i - 1)
           u == SubSeq(s, i + 1, Len(s))
<1>2. RemoveAt(s, i) = t \o u
  BY DEF RemoveAt
<1> HIDE DEF t, u
<1>3. t \o u \in Seq(S)
  BY <1>1 DEF t, u
<1> QED  BY <1>2, <1>3

\* Addenda dropped, repeated, added and replaced.
LEMMA GoodAddendaEdited ==
    ASSUME NEW made, NEW addenda, GoodAddenda(made, addenda)
    PROVE  /\ \A i \in 1..Len(addenda) : GoodAddenda(made, RemoveAt(addenda, i))
           /\ \A a : GoodAddendum(made, a) => GoodAddenda(made, Append(addenda, a))
           /\ \A i \in 1..Len(addenda) : \A a :
                GoodAddendum(made, a) => GoodAddenda(made, [addenda EXCEPT ![i] = a])
<1>1. PICK S : addenda \in Seq(S) /\ \A a \in S : GoodAddendum(made, a)
  BY DEF GoodAddenda
<1>2. \A i \in 1..Len(addenda) : GoodAddenda(made, RemoveAt(addenda, i))
  <2>1. \A i \in 1..Len(addenda) : RemoveAt(addenda, i) \in Seq(S)
    BY <1>1, RemoveStays
  <2> QED  BY <1>1, <2>1 DEF GoodAddenda
<1>3. ASSUME NEW a, GoodAddendum(made, a)
      PROVE  /\ GoodAddenda(made, Append(addenda, a))
             /\ \A i \in 1..Len(addenda) : GoodAddenda(made, [addenda EXCEPT ![i] = a])
  <2> DEFINE T == S \cup {a}
  <2>1. addenda \in Seq(T) /\ a \in T /\ \A b \in T : GoodAddendum(made, b)
    BY <1>1, <1>3, SeqMonotonic
  <2> HIDE DEF T
  <2>2. Append(addenda, a) \in Seq(T)
    BY <2>1, AppendProperties
  <2>3. \A i \in 1..Len(addenda) : [addenda EXCEPT ![i] = a] \in Seq(T)
    BY <2>1, ExceptSeq
  <2> QED  BY <2>1, <2>2, <2>3 DEF GoodAddenda
<1> QED  BY <1>2, <1>3

\* A good roster with other nodes, other addenda or another version.
LEMMA GoodRosterEdited ==
    ASSUME NEW made, NEW r, GoodRoster(made, r)
    PROVE  /\ \A nodes \in Seq(NodeEntry) : GoodRoster(made, [r EXCEPT !.nodes = nodes])
           /\ \A addenda : GoodAddenda(made, addenda) =>
                GoodRoster(made, [r EXCEPT !.addenda = addenda])
           /\ \A v \in Int : GoodRoster(made, [r EXCEPT !.version = v])
<1>0. r = [version |-> r.version, nodes |-> r.nodes, addenda |-> r.addenda]
  BY DEF GoodRoster
<1>1. r.version \in Int /\ r.nodes \in Seq(NodeEntry) /\ GoodAddenda(made, r.addenda)
  BY DEF GoodRoster
<1>2. ASSUME NEW nodes \in Seq(NodeEntry) PROVE GoodRoster(made, [r EXCEPT !.nodes = nodes])
  <2>1. [r EXCEPT !.nodes = nodes]
          = [version |-> r.version, nodes |-> nodes, addenda |-> r.addenda]
    BY <1>0
  <2> QED  BY <1>1, <2>1 DEF GoodRoster
<1>3. ASSUME NEW addenda, GoodAddenda(made, addenda)
      PROVE  GoodRoster(made, [r EXCEPT !.addenda = addenda])
  <2>1. [r EXCEPT !.addenda = addenda]
          = [version |-> r.version, nodes |-> r.nodes, addenda |-> addenda]
    BY <1>0
  <2> QED  BY <1>1, <1>3, <2>1 DEF GoodRoster
<1>4. ASSUME NEW v \in Int PROVE GoodRoster(made, [r EXCEPT !.version = v])
  <2>1. [r EXCEPT !.version = v]
          = [version |-> v, nodes |-> r.nodes, addenda |-> r.addenda]
    BY <1>0
  <2> QED  BY <1>1, <2>1 DEF GoodRoster
<1> QED  BY <1>2, <1>3, <1>4

\* The hub's edits of the nodes list.
LEMMA GoodNodeEdits ==
    ASSUME NEW made, NEW r, GoodRoster(made, r), NEW e \in EditNode(r)
    PROVE  GoodRoster(made, e)
<1> DEFINE nodes == r.nodes
           Flag(i) == [r EXCEPT !.nodes[i].revoked = ~@]
           Key(i) == [r EXCEPT !.nodes[i].key = HubKey]
           Number(i) == [r EXCEPT !.nodes[i].number = HubNode]
           Drop(i) == [r EXCEPT !.nodes = RemoveAt(@, i)]
           Repeat(i) == [r EXCEPT !.nodes = Append(@, r.nodes[i])]
           First(i) == [r EXCEPT !.nodes = <<r.nodes[i]>> \o RemoveAt(@, i)]
           Slip == [r EXCEPT !.nodes = Append(@, Node(HubNode, HubKey))]
<1>1. nodes \in Seq(NodeEntry) /\ DOMAIN nodes = 1..Len(nodes)
  BY DEF GoodRoster
<1>2. \A ns \in Seq(NodeEntry) : GoodRoster(made, [r EXCEPT !.nodes = ns])
  BY GoodRosterEdited
<1>3. GoodRoster(made, Slip)
  <2>1. Node(HubNode, HubKey) \in NodeEntry
    BY DEF Node, NodeEntry, AllNumbers, AllKeys
  <2>2. Append(nodes, Node(HubNode, HubKey)) \in Seq(NodeEntry)
    BY <1>1, <2>1
  <2> QED  BY <1>2, <2>2
<1>4. ASSUME NEW i \in 1..Len(nodes)
      PROVE  /\ GoodRoster(made, Flag(i)) /\ GoodRoster(made, Key(i)) /\ GoodRoster(made, Number(i))
             /\ GoodRoster(made, Drop(i)) /\ GoodRoster(made, Repeat(i)) /\ GoodRoster(made, First(i))
  <2> DEFINE node == nodes[i]
  <2>1. node \in NodeEntry
    BY <1>1, ElementOfSeq
  <2>2. ASSUME NEW x \in NodeEntry
        PROVE  GoodRoster(made, [r EXCEPT !.nodes = [nodes EXCEPT ![i] = x]])
    <3>1. [nodes EXCEPT ![i] = x] \in Seq(NodeEntry)  BY <1>1, ExceptSeq
    <3> QED  BY <1>2, <3>1
  <2>3. GoodRoster(made, Flag(i))
    <3>1. [node EXCEPT !.revoked = ~@] \in NodeEntry  BY <2>1 DEF NodeEntry
    <3> QED  BY <2>2, <3>1
  <2>4. GoodRoster(made, Key(i))
    <3>1. [node EXCEPT !.key = HubKey] \in NodeEntry  BY <2>1 DEF NodeEntry, AllKeys
    <3> QED  BY <2>2, <3>1
  <2>5. GoodRoster(made, Number(i))
    <3>1. [node EXCEPT !.number = HubNode] \in NodeEntry  BY <2>1 DEF NodeEntry, AllNumbers
    <3> QED  BY <2>2, <3>1
  <2>6. RemoveAt(nodes, i) \in Seq(NodeEntry)
    BY <1>1, RemoveStays
  <2>7. GoodRoster(made, Drop(i))
    BY <1>2, <2>6
  <2>8. GoodRoster(made, Repeat(i))
    <3>1. Append(nodes, node) \in Seq(NodeEntry)  BY <1>1, <2>1
    <3> QED  BY <1>2, <3>1
  <2>9. GoodRoster(made, First(i))
    <3> DEFINE rest == RemoveAt(nodes, i)
    <3>1. <<node>> \in Seq(NodeEntry)  BY <2>1
    <3>2. rest \in Seq(NodeEntry)  BY <2>6
    <3>3. <<node>> \o rest \in Seq(NodeEntry)
      <4> HIDE DEF node, rest
      <4> QED  BY <3>1, <3>2, ConcatProperties
    <3> QED  BY <1>2, <3>3
  <2> QED  BY <2>3, <2>4, <2>5, <2>7, <2>8, <2>9
<1>5. EditNode(r) = {Slip} \cup
        UNION {{Flag(i), Key(i), Number(i), Drop(i), Repeat(i), First(i)} : i \in DOMAIN nodes}
  BY DEF EditNode
<1> HIDE DEF nodes, Flag, Key, Number, Drop, Repeat, First, Slip
<1> QED  BY <1>1, <1>3, <1>4, <1>5

\* An addendum with another version, name or unforged signature.
LEMMA GoodAddendumEdited ==
    ASSUME NEW made, NEW a, GoodAddendum(made, a)
    PROVE  /\ \A v \in Int : GoodAddendum(made, [a EXCEPT !.version = v])
           /\ a.kind = "activation" =>
                /\ \A s : Unforged(made, s) =>
                     /\ GoodAddendum(made, [a EXCEPT !.new_node_signature = s])
                     /\ GoodAddendum(made, [a EXCEPT !.endorser_signature = s])
                /\ \A n \in AllNumbers : /\ GoodAddendum(made, [a EXCEPT !.new_node = n])
                                         /\ GoodAddendum(made, [a EXCEPT !.endorser = n])
                /\ \A p : GoodAddendum(made, [a EXCEPT !.nonces = p])
           /\ a.kind # "activation" =>
                /\ \A s : Unforged(made, s) =>
                     GoodAddendum(made, [a EXCEPT !.revoker_signature = s])
                /\ \A n \in AllNumbers : GoodAddendum(made, [a EXCEPT !.revoked = n])
<1>1. CASE ActivationShape(a)
  <2> DEFINE Make(v, n, e, p, s, t) ==
               [kind |-> "activation", version |-> v, new_node |-> n, endorser |-> e, nonces |-> p,
                new_node_signature |-> s, endorser_signature |-> t]
             nsig == a.new_node_signature
             esig == a.endorser_signature
  <2>1. /\ a = Make(a.version, a.new_node, a.endorser, a.nonces, nsig, esig)
        /\ a.kind = "activation"
    BY <1>1 DEF ActivationShape
  <2>2. /\ a.version \in Int /\ a.new_node \in AllNumbers /\ a.endorser \in AllNumbers
        /\ Unforged(made, nsig) /\ Unforged(made, esig)
    BY <1>1, <2>1 DEF GoodAddendum, UnforgedAddendum, ActivationShape
  <2>3. ASSUME NEW v \in Int, NEW n \in AllNumbers, NEW e \in AllNumbers, NEW p, NEW s, NEW t,
               Unforged(made, s), Unforged(made, t)
        PROVE  GoodAddendum(made, Make(v, n, e, p, s, t))
    <3>1. ActivationShape(Make(v, n, e, p, s, t))
      BY DEF ActivationShape
    <3>2. UnforgedAddendum(made, Make(v, n, e, p, s, t))
      BY <2>3 DEF UnforgedAddendum
    <3> QED  BY <3>1, <3>2 DEF GoodAddendum
  <2>4. \A x : /\ [a EXCEPT !.version = x] =
                    Make(x, a.new_node, a.endorser, a.nonces, nsig, esig)
               /\ [a EXCEPT !.new_node = x] =
                    Make(a.version, x, a.endorser, a.nonces, nsig, esig)
               /\ [a EXCEPT !.endorser = x] =
                    Make(a.version, a.new_node, x, a.nonces, nsig, esig)
               /\ [a EXCEPT !.nonces = x] =
                    Make(a.version, a.new_node, a.endorser, x, nsig, esig)
               /\ [a EXCEPT !.new_node_signature = x] =
                    Make(a.version, a.new_node, a.endorser, a.nonces, x, esig)
               /\ [a EXCEPT !.endorser_signature = x] =
                    Make(a.version, a.new_node, a.endorser, a.nonces, nsig, x)
    BY <2>1
  <2> HIDE DEF Make, nsig, esig
  <2> QED  BY <2>1, <2>2, <2>3, <2>4
<1>2. CASE RevocationShape(a)
  <2> DEFINE Make(v, n, e, s) ==
               [kind |-> "revocation", version |-> v, revoked |-> n, revoker |-> e,
                revoker_signature |-> s]
  <2>1. /\ a = Make(a.version, a.revoked, a.revoker, a.revoker_signature)
        /\ a.kind = "revocation"
    BY <1>2 DEF RevocationShape
  <2>2. /\ a.version \in Int /\ a.revoked \in AllNumbers /\ a.revoker \in AllNumbers
        /\ Unforged(made, a.revoker_signature)
    BY <1>2, <2>1 DEF GoodAddendum, UnforgedAddendum, RevocationShape
  <2>3. ASSUME NEW v \in Int, NEW n \in AllNumbers, NEW e \in AllNumbers, NEW s, Unforged(made, s)
        PROVE  GoodAddendum(made, Make(v, n, e, s))
    <3>1. RevocationShape(Make(v, n, e, s))
      BY DEF RevocationShape
    <3>2. UnforgedAddendum(made, Make(v, n, e, s))
      BY <2>3 DEF UnforgedAddendum
    <3> QED  BY <3>1, <3>2 DEF GoodAddendum
  <2>4. \A x : /\ [a EXCEPT !.version = x] = Make(x, a.revoked, a.revoker, a.revoker_signature)
               /\ [a EXCEPT !.revoked = x] = Make(a.version, x, a.revoker, a.revoker_signature)
               /\ [a EXCEPT !.revoker_signature = x] = Make(a.version, a.revoked, a.revoker, x)
    BY <2>1
  <2> HIDE DEF Make
  <2> QED  BY <2>1, <2>2, <2>3, <2>4
<1> QED  BY <1>1, <1>2 DEF GoodAddendum

\* The hub's edits of the addenda.
LEMMA GoodAddendumEdits ==
    ASSUME NEW r, GoodRoster(signed, r), NEW e \in EditAddendum(r)
    PROVE  GoodRoster(signed, e)
<1> DEFINE addenda == r.addenda
           With(x, v) == [r EXCEPT !.addenda = x, !.version = v]
           Drop(i) == [r EXCEPT !.addenda = RemoveAt(@, i), !.version = @ - 1]
           Repeat(i) == [r EXCEPT !.addenda = Append(@, addenda[i]), !.version = @ + 1]
           Version(i, v) == [r EXCEPT !.addenda[i].version = v]
           NewSignature(i, s) == [r EXCEPT !.addenda[i].new_node_signature = s]
           EndSignature(i, s) == [r EXCEPT !.addenda[i].endorser_signature = s]
           Endorser(i) == [r EXCEPT !.addenda[i].endorser = HubNode]
           NewNode(i) == [r EXCEPT !.addenda[i].new_node = HubNode]
           Nonces(i, p) == [r EXCEPT !.addenda[i].nonces = p]
           RevSignature(i, s) == [r EXCEPT !.addenda[i].revoker_signature = s]
           Revoked(i, n) == [r EXCEPT !.addenda[i].revoked = n]
<1>1. /\ \A i \in 1..Len(addenda) : GoodAddendum(signed, addenda[i])
      /\ DOMAIN addenda = 1..Len(addenda)
      /\ r.version \in Int
      /\ GoodAddenda(signed, addenda)
  BY GoodShape DEF GoodRoster, GoodAddenda
<1>2. \A x : GoodAddenda(signed, x) => GoodRoster(signed, [r EXCEPT !.addenda = x])
  BY GoodRosterEdited
<1>0. \A s \in signed : Unforged(signed, s)
  BY DEF Unforged
<1>3. ASSUME NEW x, NEW v \in Int, GoodAddenda(signed, x)
      PROVE  GoodRoster(signed, With(x, v))
  <2> DEFINE t == [r EXCEPT !.addenda = x]
  <2>1. GoodRoster(signed, t)  BY <1>2, <1>3
  <2>2. GoodRoster(signed, [t EXCEPT !.version = v])
    <3> HIDE DEF t
    <3> QED  BY <2>1, GoodRosterEdited
  <2> QED  BY <2>2
<1>4. ASSUME NEW i \in 1..Len(addenda)
      PROVE  /\ GoodRoster(signed, Drop(i)) /\ GoodRoster(signed, Repeat(i))
             /\ \A v \in Int : GoodRoster(signed, Version(i, v))
             /\ addenda[i].kind = "activation" =>
                  /\ \A s \in signed : /\ GoodRoster(signed, NewSignature(i, s))
                                               /\ GoodRoster(signed, EndSignature(i, s))
                  /\ GoodRoster(signed, Endorser(i)) /\ GoodRoster(signed, NewNode(i))
                  /\ \A p : GoodRoster(signed, Nonces(i, p))
             /\ addenda[i].kind # "activation" =>
                  /\ \A s \in signed : GoodRoster(signed, RevSignature(i, s))
                  /\ \A n \in Numbers : GoodRoster(signed, Revoked(i, n))
  <2> DEFINE a == addenda[i]
  <2>1. GoodAddendum(signed, a)
    BY <1>1
  <2>2. GoodAddenda(signed, RemoveAt(addenda, i)) /\ GoodAddenda(signed, Append(addenda, a))
    <3> HIDE DEF a
    <3> QED  BY <1>1, <2>1, GoodAddendaEdited
  <2>3. ASSUME NEW x, GoodAddendum(signed, x)
        PROVE  GoodRoster(signed, [r EXCEPT !.addenda = [addenda EXCEPT ![i] = x]])
    <3>1. GoodAddenda(signed, [addenda EXCEPT ![i] = x])
      BY <1>1, <2>3, GoodAddendaEdited
    <3> QED  BY <1>2, <3>1
  <2>4. GoodRoster(signed, Drop(i))
    <3> DEFINE x == RemoveAt(addenda, i)
               v == r.version - 1
    <3>1. GoodAddenda(signed, x) /\ v \in Int  BY <1>1, <2>2
    <3>2. GoodRoster(signed, With(x, v))
      <4> HIDE DEF x, v, With
      <4> QED  BY <1>3, <3>1
    <3> QED  BY <3>2
  <2>5. GoodRoster(signed, Repeat(i))
    <3> DEFINE x == Append(addenda, a)
               v == r.version + 1
    <3>1. GoodAddenda(signed, x) /\ v \in Int  BY <1>1, <2>2
    <3>2. GoodRoster(signed, With(x, v))
      <4> HIDE DEF x, v, With
      <4> QED  BY <1>3, <3>1
    <3> QED  BY <3>2
  <2>6. ASSUME NEW v \in Int PROVE GoodRoster(signed, Version(i, v))
    <3>1. GoodAddendum(signed, [a EXCEPT !.version = v])
      <4> HIDE DEF a
      <4> QED  BY <2>1, GoodAddendumEdited
    <3> QED  BY <2>3, <3>1
  <2>7. ASSUME a.kind = "activation", NEW s, Unforged(signed, s)
        PROVE  GoodRoster(signed, NewSignature(i, s)) /\ GoodRoster(signed, EndSignature(i, s))
    <3>1. /\ GoodAddendum(signed, [a EXCEPT !.new_node_signature = s])
          /\ GoodAddendum(signed, [a EXCEPT !.endorser_signature = s])
      <4> HIDE DEF a
      <4> QED  BY <2>1, <2>7, GoodAddendumEdited
    <3> QED  BY <2>3, <3>1
  <2>8. ASSUME a.kind = "activation"
        PROVE  GoodRoster(signed, Endorser(i)) /\ GoodRoster(signed, NewNode(i))
    <3>1. /\ GoodAddendum(signed, [a EXCEPT !.endorser = HubNode])
          /\ GoodAddendum(signed, [a EXCEPT !.new_node = HubNode])
      <4> HIDE DEF a
      <4> QED  BY <2>1, <2>8, GoodAddendumEdited DEF AllNumbers
    <3> QED  BY <2>3, <3>1
  <2>9. ASSUME a.kind # "activation", NEW s, Unforged(signed, s)
        PROVE  GoodRoster(signed, RevSignature(i, s))
    <3>1. GoodAddendum(signed, [a EXCEPT !.revoker_signature = s])
      <4> HIDE DEF a
      <4> QED  BY <2>1, <2>9, GoodAddendumEdited
    <3> QED  BY <2>3, <3>1
  <2>10. ASSUME a.kind # "activation", NEW n \in Numbers
         PROVE  GoodRoster(signed, Revoked(i, n))
    <3>1. GoodAddendum(signed, [a EXCEPT !.revoked = n])
      <4> HIDE DEF a
      <4> QED  BY <2>1, <2>10, GoodAddendumEdited DEF AllNumbers
    <3> QED  BY <2>3, <3>1
  <2>11. ASSUME a.kind = "activation", NEW p PROVE GoodRoster(signed, Nonces(i, p))
    <3>1. GoodAddendum(signed, [a EXCEPT !.nonces = p])
      <4> HIDE DEF a
      <4> QED  BY <2>1, <2>11, GoodAddendumEdited
    <3> QED  BY <2>3, <3>1
  <2> HIDE DEF Drop, Repeat, Version, NewSignature, EndSignature, Endorser, NewNode, Nonces,
               RevSignature, Revoked
  <2> QED  BY <1>0, <2>11, <2>4, <2>5, <2>6, <2>7, <2>8, <2>9, <2>10
<1>5. EditAddendum(r) =
        UNION {{Drop(i), Repeat(i)}
               \cup {Version(i, v) : v \in {addenda[i].version - 1, addenda[i].version + 1}}
               \cup IF addenda[i].kind = "activation"
                    THEN {NewSignature(i, s) : s \in signed}
                         \cup {EndSignature(i, s) : s \in signed}
                         \cup {Nonces(i, p) : p \in DOMAIN pairings}
                         \cup {Endorser(i), NewNode(i)}
                    ELSE {RevSignature(i, s) : s \in signed}
                         \cup {Revoked(i, n) : n \in Numbers}
               : i \in DOMAIN addenda}
  BY DEF EditAddendum
<1>6. \A i \in 1..Len(addenda) : addenda[i].version \in Int
  BY <1>1 DEF GoodAddendum
<1> HIDE DEF With, addenda, Drop, Repeat, Version, NewSignature, EndSignature, Endorser, NewNode, Nonces,
             RevSignature, Revoked
<1> QED  BY <1>1, <1>4, <1>5, <1>6

-----------------------------------------------------------------------------
(* Additions, signed by the hub or by the nodes. *)

\* A good roster with a signed activation added.
LEMMA GoodActivation ==
    ASSUME NEW made, NEW base, GoodAddenda(made, base), NEW nodes \in Seq(NodeEntry),
           NEW v \in Int, NEW n \in AllNumbers, NEW e \in AllNumbers, NEW p,
           NEW s, NEW t, Unforged(made, s), Unforged(made, t)
    PROVE  LET next == [version |-> v, nodes |-> nodes,
                        addenda |-> Append(base, Activation(v, n, e, p))]
           IN  /\ GoodRoster(made, SetActivationSignatures(next, s, t))
               /\ GoodRoster(made, SetNewNodeSignature(next, s))
<1> DEFINE b == Activation(v, n, e, p)
           next == [version |-> v, nodes |-> nodes, addenda |-> Append(base, b)]
           half == [b EXCEPT !.new_node_signature = s]
           a == [kind |-> "activation", version |-> v, new_node |-> n, endorser |-> e,
                 nonces |-> p, new_node_signature |-> s, endorser_signature |-> t]
           With(x) == [version |-> v, nodes |-> nodes, addenda |-> Append(base, x)]
<1>1. PICK S : base \in Seq(S)
  BY DEF GoodAddenda
<1>2. \A x : GoodAddendum(made, x) => GoodRoster(made, With(x))
  <2> SUFFICES ASSUME NEW x, GoodAddendum(made, x) PROVE GoodRoster(made, With(x))
    OBVIOUS
  <2>1. GoodAddenda(made, Append(base, x))  BY GoodAddendaEdited
  <2> QED  BY <2>1 DEF GoodRoster
<1>3. /\ ActivationShape(a) /\ WithoutSignatures(a) = b
      /\ a.new_node_signature = s /\ a.endorser_signature = t /\ a.version = v
  BY DEF ActivationShape, WithoutSignatures
<1>4. GoodAddendum(made, a)
  <2>1. UnforgedAddendum(made, a)
    BY DEF UnforgedAddendum
  <2> HIDE DEF a
  <2> QED  BY <1>3, <2>1 DEF GoodAddendum
<1>5. GoodAddendum(made, half)
  <2>1. ActivationShape(b) /\ b.kind = "activation" /\ b.version = v
    BY DEF ActivationShape, Activation
  <2>2. UnforgedAddendum(made, b)
    BY DEF UnforgedAddendum, Activation, Unforged
  <2> HIDE DEF b
  <2>3. GoodAddendum(made, b)
    BY <2>1, <2>2 DEF GoodAddendum
  <2> QED  BY <2>1, <2>3, GoodAddendumEdited
<1> HIDE DEF a, b, half
<1>6. SetActivationSignatures(next, s, t) = With(a)
  <2>1. ActivationShape(a) /\ base \in Seq(S)
    BY <1>1, <1>3
  <2>2. SetActivationSignatures([version |-> v, nodes |-> nodes,
              addenda |-> Append(base, WithoutSignatures(a))],
              a.new_node_signature, a.endorser_signature) = With(a)
    BY <2>1, SignaturesOfActivation
  <2> QED  BY <1>3, <2>2
<1>7. SetNewNodeSignature(next, s) = With(half)
  <2>1. SetNewNodeSignature(Complete(v, nodes, base, Activation(v, n, e, p)), s)
          = Complete(v, nodes, base, HalfSigned(v, n, e, p, s))
    BY <1>1, ActivationHalfSigned
  <2>2. half = HalfSigned(v, n, e, p, s)
    BY DEF half, b, Activation, HalfSigned
  <2> QED  BY <2>1, <2>2 DEF Complete, b
<1>8. GoodRoster(made, With(a)) /\ GoodRoster(made, With(half))
  BY <1>2, <1>4, <1>5
<1> HIDE DEF With, next
<1> QED  BY <1>6, <1>7, <1>8 DEF next, b

\* A good roster with a signed revocation added.
LEMMA GoodRevocation ==
    ASSUME NEW made, NEW base, GoodAddenda(made, base), NEW nodes \in Seq(NodeEntry),
           NEW v \in Int, NEW x \in AllNumbers, NEW by \in AllNumbers, NEW s, Unforged(made, s)
    PROVE  LET next == [version |-> v, nodes |-> nodes,
                        addenda |-> Append(base, Revocation(v, x, by))]
           IN  GoodRoster(made, SetRevokerSignature(next, s))
<1> DEFINE next == [version |-> v, nodes |-> nodes, addenda |-> Append(base, Revocation(v, x, by))]
           a == [kind |-> "revocation", version |-> v, revoked |-> x, revoker |-> by,
                 revoker_signature |-> s]
           done == [version |-> v, nodes |-> nodes, addenda |-> Append(base, a)]
<1>1. PICK S : base \in Seq(S)
  BY DEF GoodAddenda
<1>2. RevocationShape(a) /\ WithoutSignatures(a) = Revocation(v, x, by)
      /\ a.revoker_signature = s /\ a.version = v
  BY DEF RevocationShape, WithoutSignatures
<1>3. UnforgedAddendum(made, a)
  BY DEF UnforgedAddendum
<1>4. GoodAddendum(made, a)
  <2> HIDE DEF a
  <2> QED  BY <1>2, <1>3 DEF GoodAddendum
<1> HIDE DEF a
<1>5. SetRevokerSignature(next, s) = done
  <2>1. SetRevokerSignature([version |-> v, nodes |-> nodes,
              addenda |-> Append(base, WithoutSignatures(a))], a.revoker_signature) = done
    BY <1>1, <1>2, SignatureOfRevocation
  <2> QED  BY <1>2, <2>1
<1>6. GoodAddenda(made, Append(base, a))
  BY <1>4, GoodAddendaEdited
<1>7. GoodRoster(made, done)
  BY <1>6 DEF GoodRoster
<1> QED  BY <1>5, <1>7

\* Marking a node revoked leaves a list of nodes.
LEMMA MarkedNodes ==
    ASSUME NEW nodes \in Seq(NodeEntry), NEW x
    PROVE  MarkRevoked(nodes, x) \in Seq(NodeEntry)
<1> DEFINE i == PositionOf(nodes, x)
<1>1. CASE i = 0
  BY <1>1 DEF MarkRevoked
<1>2. CASE i # 0
  <2>1. i \in 1..Len(nodes)  BY <1>2, PositionFound
  <2> HIDE DEF i
  <2> DEFINE marked == [nodes[i] EXCEPT !.revoked = TRUE]
  <2>2. nodes[i] \in NodeEntry  BY <2>1
  <2>3. marked \in NodeEntry
    BY <2>2 DEF NodeEntry
  <2>4. MarkRevoked(nodes, x) = [nodes EXCEPT ![i] = marked]
    BY <1>2 DEF MarkRevoked, i
  <2> HIDE DEF marked
  <2> QED  BY <2>1, <2>3, <2>4, ExceptSeq
<1> QED  BY <1>1, <1>2

\* The three builders, with signatures filled in.
LEMMA GoodAddActivation ==
    ASSUME NEW made, NEW r, GoodRoster(made, r), NEW n \in AllNumbers, NEW key \in AllKeys,
           NEW e \in AllNumbers, NEW p, NEW s, NEW t, Unforged(made, s), Unforged(made, t)
    PROVE  LET next == AddActivation(r, n, key, e, p)
           IN  /\ GoodRoster(made, SetActivationSignatures(next, s, t))
               /\ GoodRoster(made, SetNewNodeSignature(next, s))
<1> DEFINE nodes == Append(r.nodes, Node(n, key))
           v == r.version + 1
<1>1. /\ r.nodes \in Seq(NodeEntry) /\ r.version \in Int /\ GoodAddenda(made, r.addenda)
  BY DEF GoodRoster
<1>2. Node(n, key) \in NodeEntry
  BY DEF Node, NodeEntry
<1>3. nodes \in Seq(NodeEntry) /\ v \in Int
  BY <1>1, <1>2
<1>4. AddActivation(r, n, key, e, p) =
        [version |-> v, nodes |-> nodes, addenda |-> Append(r.addenda, Activation(v, n, e, p))]
  BY DEF AddActivation
<1> HIDE DEF nodes, v
<1> QED  BY <1>1, <1>3, <1>4, GoodActivation

\* The same for the first roster.
LEMMA GoodBootstrap ==
    ASSUME NEW made, NEW n \in AllNumbers, NEW key \in AllKeys, NEW e \in AllNumbers,
           NEW ekey \in AllKeys, NEW p, NEW s, NEW t, Unforged(made, s), Unforged(made, t)
    PROVE  LET next == CreateBootstrapRoster(n, key, e, ekey, p)
           IN  /\ GoodRoster(made, SetActivationSignatures(next, s, t))
               /\ GoodRoster(made, SetNewNodeSignature(next, s))
<1> DEFINE nodes == <<Node(e, ekey), Node(n, key)>>
           base == << >>
<1>1. Node(n, key) \in NodeEntry /\ Node(e, ekey) \in NodeEntry
  BY DEF Node, NodeEntry
<1>2. nodes \in Seq(NodeEntry)
  BY <1>1
<1>3. GoodAddenda(made, base)
  <2> DEFINE S == {}
  <2>1. base \in Seq(S) /\ \A a \in S : GoodAddendum(made, a)  OBVIOUS
  <2> HIDE DEF S, base
  <2> QED  BY <2>1 DEF GoodAddenda
<1>4. Append(base, Activation(1, n, e, p)) = <<Activation(1, n, e, p)>>
  OBVIOUS
<1>5. CreateBootstrapRoster(n, key, e, ekey, p) =
        [version |-> 1, nodes |-> nodes, addenda |-> Append(base, Activation(1, n, e, p))]
  BY <1>4 DEF CreateBootstrapRoster
<1> DEFINE v == 1
<1>6. v \in Int  OBVIOUS
<1> HIDE DEF nodes, base, v
<1>7. CreateBootstrapRoster(n, key, e, ekey, p) =
        [version |-> v, nodes |-> nodes, addenda |-> Append(base, Activation(v, n, e, p))]
  BY <1>5 DEF v
<1> QED  BY <1>2, <1>3, <1>6, <1>7, GoodActivation

\* The same for a revocation.
LEMMA GoodAddRevocation ==
    ASSUME NEW made, NEW r, GoodRoster(made, r), NEW x \in AllNumbers, NEW by \in AllNumbers,
           NEW s, Unforged(made, s)
    PROVE  GoodRoster(made, SetRevokerSignature(AddRevocation(r, x, by), s))
<1> DEFINE nodes == MarkRevoked(r.nodes, x)
           v == r.version + 1
<1>1. /\ r.nodes \in Seq(NodeEntry) /\ r.version \in Int /\ GoodAddenda(made, r.addenda)
  BY DEF GoodRoster
<1>2. nodes \in Seq(NodeEntry) /\ v \in Int
  BY <1>1, MarkedNodes
<1>3. AddRevocation(r, x, by) =
        [version |-> v, nodes |-> nodes, addenda |-> Append(r.addenda, Revocation(v, x, by))]
  BY DEF AddRevocation
<1> HIDE DEF nodes, v
<1> QED  BY <1>1, <1>2, <1>3, GoodRevocation

\* What the hub signs itself carries no signature of a node.
LEMMA GoodForgeries ==
    ASSUME NEW made, NEW r, GoodRoster(made, r), NEW e \in Forge(r)
    PROVE  GoodRoster(made, e)
<1> DEFINE Signed(next) == SetActivationSignatures(next, Sign(HubKey, next), Sign(HubKey, next))
           Slip(m, p) == Signed(AddActivation(r, HubNode, HubKey, m, p))
           Found(m, p) == Signed(CreateBootstrapRoster(m, KeyOf(m), HubNode, HubKey, p))
           Join(m, p) == Signed(CreateBootstrapRoster(HubNode, HubKey, m, KeyOf(m), p))
           Revoking(x, v) == SetRevokerSignature(AddRevocation(r, x, v),
                                                 Sign(HubKey, AddRevocation(r, x, v)))
<1>1. \A w : Unforged(made, Sign(HubKey, w))
  BY RosterChainAssumption DEF Unforged, Sign
<1>2. /\ Numbers \subseteq AllNumbers /\ HubNode \in AllNumbers
      /\ \A m \in Numbers : KeyOf(m) \in AllKeys
      /\ HubKey \in AllKeys
  BY DEF AllNumbers, AllKeys, KeyOf
<1>3. ASSUME NEW m \in Numbers, NEW p PROVE GoodRoster(made, Slip(m, p))
  BY <1>1, <1>2, GoodAddActivation
<1>4. ASSUME NEW m \in Numbers, NEW p PROVE GoodRoster(made, Found(m, p))
  BY <1>1, <1>2, GoodBootstrap
<1>5. ASSUME NEW m \in Numbers, NEW p PROVE GoodRoster(made, Join(m, p))
  BY <1>1, <1>2, GoodBootstrap
<1>6. ASSUME NEW x \in Numbers, NEW v \in Numbers PROVE GoodRoster(made, Revoking(x, v))
  BY <1>1, <1>2, GoodAddRevocation
<1>7. Forge(r) = {Slip(m, p) : m \in Numbers, p \in DOMAIN pairings}
                   \cup {Found(m, p) : m \in Numbers, p \in DOMAIN pairings}
                   \cup {Join(m, p) : m \in Numbers, p \in DOMAIN pairings}
                   \cup {Revoking(x, v) : x, v \in Numbers}
  BY DEF Forge
<1> HIDE DEF Slip, Found, Join, Revoking
<1> QED  BY <1>3, <1>4, <1>5, <1>6, <1>7

-----------------------------------------------------------------------------
(* The inductive invariant. *)

\* What is good stays so when the nodes sign more.
LEMMA GoodStays ==
    ASSUME NEW made, NEW more, made \subseteq more, NEW r, GoodRoster(made, r)
    PROVE  GoodRoster(more, r)
<1>1. \A s : Unforged(made, s) => Unforged(more, s)
  BY DEF Unforged
<1>2. \A a : GoodAddendum(made, a) => GoodAddendum(more, a)
  BY <1>1 DEF GoodAddendum, UnforgedAddendum
<1> QED  BY <1>2 DEF GoodRoster, GoodAddenda

\* More pairings, or others with the same nodes, change nothing about signatures.
SamePairs(ps, qs) ==
    \A p \in 1..Len(ps) : /\ p \in DOMAIN qs /\ qs[p].new_node = ps[p].new_node
                          /\ qs[p].endorser = ps[p].endorser
\* A signature fact does not depend on what pairings may still be used for.
LEMMA FactStays ==
    ASSUME NEW ps, NEW qs, GoodPairings(ps), SamePairs(ps, qs), NEW s, SignatureFact(ps, s)
    PROVE  SignatureFact(qs, s)
<1>1. DOMAIN ps = 1..Len(ps)
  BY DEF GoodPairings
<1> QED  BY <1>1 DEF SignatureFact, EndorserSigned, SamePairs

\* One of the marks of a pairing is changed.
LEMMA MarkPairing ==
    ASSUME NEW ps, GoodPairings(ps), NEW p \in DOMAIN ps, NEW qs,
           \/ qs = [ps EXCEPT ![p].activating = FALSE]
           \/ qs = [ps EXCEPT ![p].pending = FALSE]
    PROVE  GoodPairings(qs) /\ SamePairs(ps, qs)
<1> DEFINE x == qs[p]
<1>1. /\ ps \in Seq(Pairing) /\ p \in 1..Len(ps) /\ Len(ps) \in Nat /\ DOMAIN ps = 1..Len(ps)
      /\ ps[p] \in Pairing
  BY DEF GoodPairings
<1>2. \/ x = [ps[p] EXCEPT !.activating = FALSE] /\ qs = [ps EXCEPT ![p] = x]
      \/ x = [ps[p] EXCEPT !.pending = FALSE] /\ qs = [ps EXCEPT ![p] = x]
  BY <1>1
<1> HIDE DEF x
<1>3. /\ qs = [ps EXCEPT ![p] = x] /\ x \in Pairing
      /\ x.new_node = ps[p].new_node /\ x.endorser = ps[p].endorser
  BY <1>1, <1>2 DEF Pairing
<1>4. /\ qs \in Seq(Pairing) /\ Len(qs) = Len(ps)
      /\ \A j \in 1..Len(ps) : qs[j] = IF j = p THEN x ELSE ps[j]
  BY <1>1, <1>3, ExceptSeq
<1>5. DOMAIN qs = 1..Len(ps)
  BY <1>1, <1>4
<1> QED  BY <1>3, <1>4, <1>5 DEF GoodPairings, SamePairs

\* Another pairing.
LEMMA PairNodesKeepsInv ==
    ASSUME ChainInv, NEW n \in Numbers, NEW e \in Numbers, PairNodes(n, e)
    PROVE  ChainInv'
<1> DEFINE ps == pairings
           Old(p) == [ps[p] EXCEPT !.activating = @ /\ ps[p].new_node # n,
                                   !.pending = @ /\ ~(ps[p].new_node = n /\ ps[p].endorser = e)]
           old == [p \in DOMAIN ps |-> Old(p)]
           new == [new_node |-> n, endorser |-> e, activating |-> TRUE, pending |-> TRUE]
           qs == Append(old, new)
<1>1. pairings' = qs /\ n # e /\ UNCHANGED <<hub, kept, signed, edits>>
  BY DEF PairNodes
<1>2. ps \in Seq(Pairing) /\ \A p \in 1..Len(ps) : ps[p].new_node # ps[p].endorser
  BY DEF ChainInv, GoodPairings
<1>3. DOMAIN ps = 1..Len(ps) /\ Len(ps) \in Nat
  BY <1>2
<1> HIDE DEF ps
<1>4. ASSUME NEW p \in 1..Len(ps)
      PROVE  /\ Old(p) \in Pairing
             /\ Old(p).new_node = ps[p].new_node /\ Old(p).endorser = ps[p].endorser
  <2>1. ps[p] \in Pairing  BY <1>2
  <2> QED  BY <2>1 DEF Pairing
<1>5. new \in Pairing /\ new.new_node = n /\ new.endorser = e
  BY DEF Pairing
<1> HIDE DEF Old, new
<1>6. old \in Seq(Pairing) /\ Len(old) = Len(ps) /\ \A p \in 1..Len(ps) : old[p] = Old(p)
  <2>1. old = [p \in 1..Len(ps) |-> Old(p)]  BY <1>3
  <2> QED  BY <1>3, <1>4, <2>1
<1> HIDE DEF old
<1>7. /\ qs \in Seq(Pairing) /\ Len(qs) = Len(ps) + 1 /\ qs[Len(ps) + 1] = new
      /\ \A p \in 1..Len(ps) : qs[p] = old[p]
  BY <1>3, <1>5, <1>6
<1> HIDE DEF qs
<1>8. \A p \in 1..Len(qs) : qs[p].new_node # qs[p].endorser
  <2> SUFFICES ASSUME NEW p \in 1..Len(qs) PROVE qs[p].new_node # qs[p].endorser
    OBVIOUS
  <2>1. CASE p \in 1..Len(ps)
    BY <1>2, <1>4, <1>6, <1>7, <2>1
  <2>2. CASE p = Len(ps) + 1
    BY <1>1, <1>5, <1>7, <2>2
  <2> QED  BY <1>3, <1>7, <2>1, <2>2
<1>9. GoodPairings(qs)
  BY <1>7, <1>8 DEF GoodPairings
<1>10. SamePairs(ps, qs)
  BY <1>3, <1>4, <1>6, <1>7 DEF SamePairs
<1>11. \A s \in signed : SignatureFact(qs, s)
  BY <1>10, FactStays DEF ChainInv, ps
<1> QED  BY <1>1, <1>9, <1>11 DEF ChainInv

\* The hub is given a good roster with a signature in it.
LEMMA GivenKeepsInv ==
    ASSUME ChainInv, NEW s, NEW r, Given(s, r), GoodPairings(pairings'),
           SamePairs(pairings, pairings'), SignatureFact(pairings', s),
           GoodRoster(signed \cup {s}, r)
    PROVE  ChainInv'
<1>1. signed' = signed \cup {s} /\ hub' = r /\ kept' = kept \cup {r}
  BY DEF Given
<1>2. \A q \in kept : GoodRoster(signed', q)
  BY <1>1, GoodStays DEF ChainInv
<1>3. \A t \in signed' : SignatureFact(pairings', t)
  BY <1>1, FactStays DEF ChainInv
<1> QED  BY <1>1, <1>2, <1>3 DEF ChainInv

\* A node that verified the roster as its endorser would has it in the list.
LEMMA VerifierListed ==
    ASSUME NEW r, RosterShape(r), NEW n, VerifyRoster(r, n, KeyOf(n)) = "Ok"
    PROVE  Has(r.nodes, n)
<1>1. /\ Reconstructed(r, Walk(r))
      /\ n \in DOMAIN VerifiedKeys(r) /\ VerifiedKeys(r)[n] = KeyOf(n)
  BY OkMeans
<1>2. /\ NodesFacts(r, r.version, r.nodes)
      /\ KeysFacts(r, r.version, r.nodes, VerifiedKeys(r))
  BY <1>1, FullWalk
<1>3. PICK k \in 1..Len(r.nodes) : r.nodes[k].number = n
  BY <1>1, <1>2 DEF NodesFacts, KeysFacts, ActiveAfter
<1> QED  BY <1>1, <1>2, <1>3 DEF KeysFacts, Has

\* A joining node signs what it has built on a verified base.
LEMMA ActivateKeepsInv ==
    ASSUME ChainInv, NEW p \in DOMAIN pairings, Activate(p)
    PROVE  ChainInv'
<1> DEFINE n == pairings[p].new_node
           e == pairings[p].endorser
           next == IF hub.version = 0 THEN CreateBootstrapRoster(n, KeyOf(n), e, KeyOf(e), p)
                   ELSE AddActivation(hub, n, KeyOf(n), e, p)
           s == Sign(KeyOf(n), next)
           made == signed \cup {s}
<1>1. /\ Given(s, SetNewNodeSignature(next, s))
      /\ pairings' = [pairings EXCEPT ![p].activating = FALSE]
  BY DEF Activate
<1>2. GoodPairings(pairings') /\ SamePairs(pairings, pairings')
  BY <1>1, MarkPairing DEF ChainInv
<1>3. n \in Numbers /\ e \in Numbers
  <2>1. pairings[p] \in Pairing  BY DEF ChainInv, GoodPairings
  <2> QED  BY <2>1 DEF Pairing
<1>4. /\ n \in AllNumbers /\ e \in AllNumbers /\ KeyOf(n) \in AllKeys /\ KeyOf(e) \in AllKeys
      /\ GoodRoster(signed, hub) /\ hub.version \in Int /\ hub.nodes \in Seq(NodeEntry)
      /\ GoodAddenda(signed, hub.addenda)
  BY <1>3 DEF AllNumbers, AllKeys, KeyOf, ChainInv, GoodRoster
<1>5. \E S, base, v : base \in Seq(S) /\ next.addenda = Append(base, Activation(v, n, e, p))
  <2>1. CASE hub.version = 0
    <3>1. next.addenda = Append(<< >>, Activation(1, n, e, p))
      BY <2>1 DEF CreateBootstrapRoster
    <3>2. << >> \in Seq({})  OBVIOUS
    <3> QED  BY <3>1, <3>2
  <2>2. CASE hub.version # 0
    <3>1. next.addenda = Append(hub.addenda, Activation(hub.version + 1, n, e, p))
      BY <2>2 DEF AddActivation
    <3>2. PICK S : hub.addenda \in Seq(S)  BY <1>4 DEF GoodAddenda
    <3> QED  BY <3>1, <3>2
  <2> QED  BY <2>1, <2>2
<1>6. LastAddendum(next).new_node = n /\ LastAddendum(next).endorser = e
  <2>1. PICK S, base, v : base \in Seq(S) /\ next.addenda = Append(base, Activation(v, n, e, p))
    BY <1>5
  <2> DEFINE a == Activation(v, n, e, p)
  <2>2. a.new_node = n /\ a.endorser = e
    BY DEF Activation
  <2> HIDE DEF a, next
  <2>3. next.addenda[Len(next.addenda)] = a
    BY <2>1, AppendLast DEF a
  <2> QED  BY <2>2, <2>3 DEF LastAddendum
<1>7. next.version >= 1 => Has(next.nodes, e)
  <2>1. CASE hub.version = 0
    <3>1. next.nodes = <<Node(e, KeyOf(e)), Node(n, KeyOf(n))>>
      BY <2>1 DEF CreateBootstrapRoster
    <3>2. Len(next.nodes) = 2 /\ next.nodes[1].number = e /\ next.nodes[1].key = KeyOf(e)
      BY <3>1 DEF Node
    <3> HIDE DEF next
    <3>3. 1 \in 1..Len(next.nodes)  BY <3>2
    <3> QED  BY <3>2, <3>3 DEF Has
  <2>2. CASE hub.version # 0
    <3> SUFFICES ASSUME next.version >= 1 PROVE Has(next.nodes, e)
      OBVIOUS
    <3> DEFINE x == Node(n, KeyOf(n))
    <3>1. next.version = hub.version + 1 /\ next.nodes = Append(hub.nodes, x)
      BY <2>2 DEF AddActivation
    <3>2. VerifyRoster(hub, e, KeyOf(e)) = "Ok"
      <4>1. hub.version > 0  BY <1>4, <2>2, <3>1
      <4> QED  BY <4>1 DEF Activate
    <3>3. RosterShape(hub)
      BY <1>4, GoodShape
    <3> HIDE DEF next, x, e
    <3>4. Has(hub.nodes, e)
      BY <3>2, <3>3, VerifierListed
    <3>5. PICK k \in 1..Len(hub.nodes) : hub.nodes[k].number = e /\ hub.nodes[k].key = KeyOf(e)
      BY <3>4 DEF Has
    <3>6. /\ Len(hub.nodes) \in Nat /\ Len(next.nodes) = Len(hub.nodes) + 1
          /\ next.nodes[k] = hub.nodes[k]
      BY <1>4, <3>1, AppendLast
    <3>7. k \in 1..Len(next.nodes)  BY <3>6
    <3> QED  BY <3>5, <3>6, <3>7 DEF Has
  <2> QED  BY <2>1, <2>2
<1>8. SignatureFact(pairings', s)
  <2>1. s.by = n /\ s.over = next  BY DEF Sign, KeyOf
  <2> HIDE DEF s, next, n, e
  <2> QED  BY <1>6, <1>7, <2>1 DEF SignatureFact, JoinerSigned
<1>9. Unforged(made, s) /\ signed \subseteq made
  BY DEF Unforged
<1> HIDE DEF n, e, s, made
<1>10. GoodRoster(made, hub)
  BY <1>4, <1>9, GoodStays
<1>11. GoodRoster(made, SetNewNodeSignature(next, s))
  <2>1. CASE hub.version = 0
    BY <1>4, <1>9, <2>1, GoodBootstrap
  <2>2. CASE hub.version # 0
    BY <1>4, <1>9, <1>10, <2>2, GoodAddActivation
  <2> QED  BY <2>1, <2>2
<1> HIDE DEF next
<1> QED  BY <1>1, <1>2, <1>8, <1>11, GivenKeepsInv DEF made

\* Clearing the signatures of the last addendum leaves the rest of a roster.
LEMMA LatestCleared ==
    ASSUME NEW r, RosterShape(r), r.addenda # <<>>
    PROVE  LET c == ClearLatestSignatures(r)
           IN  /\ c.version = r.version /\ c.nodes = r.nodes
               /\ LastAddendum(c) = WithoutSignatures(LastAddendum(r))
<1>1. PICK S : r.addenda \in Seq(S)
  BY DEF RosterShape, AddendaShape
<1> DEFINE s == r.addenda
           y == WithoutSignatures(s[Len(s)])
           t == [s EXCEPT ![Len(s)] = y]
<1>2. Len(s) \in 1..Len(s)
  BY <1>1
<1>3. ClearLatestSignatures(r) = [version |-> r.version, nodes |-> r.nodes, addenda |-> t]
  <2>1. r = [version |-> r.version, nodes |-> r.nodes, addenda |-> s]
    BY DEF RosterShape
  <2>2. ClearLatestSignatures(r) = [r EXCEPT !.addenda = t]
    BY DEF ClearLatestSignatures
  <2> HIDE DEF s, t
  <2> QED  BY <2>1, <2>2
<1> HIDE DEF y, t
<1>4. t[Len(t)] = y
  <2>1. s \in Seq(S \cup {y}) /\ y \in S \cup {y}
    BY <1>1, SeqMonotonic
  <2>2. Len(t) = Len(s) /\ t[Len(s)] = y
    BY <1>2, <2>1, ExceptSeq DEF t
  <2> QED  BY <2>2
<1> QED  BY <1>3, <1>4 DEF LastAddendum, y

\* Whom Lists finds has its key in the list.
LEMMA ListsHas ==
    ASSUME NEW r, RosterShape(r), NEW n, Lists(r, n, KeyOf(n))
    PROVE  Has(r.nodes, n)
<1>1. r.nodes \in Seq(NodeEntry)
  BY DEF RosterShape
<1> QED  BY <1>1, PositionFound DEF Lists, Has

\* An endorser signs after it has compared nonces, its number and two keys.
LEMMA RosterCosignKeepsInv ==
    ASSUME ChainInv, NEW p \in DOMAIN pairings, RosterCosign(p)
    PROVE  ChainInv'
<1> DEFINE n == pairings[p].new_node
           e == pairings[p].endorser
           a == LastAddendum(hub)
           content == ClearLatestSignatures(hub)
           s == Sign(KeyOf(e), content)
           made == signed \cup {s}
           r == SetEndorserSignature(hub, s)
<1>1. /\ Given(s, r)
      /\ pairings' = [pairings EXCEPT ![p].pending = FALSE]
  BY DEF RosterCosign
<1>2. /\ hub.addenda # <<>>
      /\ a.kind = "activation" /\ a.nonces = p /\ a.endorser = e
      /\ Lists(hub, n, KeyOf(n)) /\ Lists(hub, e, KeyOf(e))
  BY DEF RosterCosign, Last, LastAddendum, ListsPaired
<1>3. GoodPairings(pairings') /\ SamePairs(pairings, pairings')
  BY <1>1, MarkPairing DEF ChainInv
<1>4. p \in DOMAIN pairings' /\ pairings'[p].new_node = n /\ pairings'[p].endorser = e /\ n # e
  BY <1>3 DEF ChainInv, GoodPairings, SamePairs
<1>5. GoodRoster(signed, hub) /\ RosterShape(hub)
  BY GoodShape DEF ChainInv
<1>6. content.nodes = hub.nodes /\ LastAddendum(content) = WithoutSignatures(a)
  BY <1>2, <1>5, LatestCleared
<1>7. Has(hub.nodes, n) /\ Has(hub.nodes, e)
  BY <1>2, <1>5, ListsHas
<1>8. WithoutSignatures(a).nonces = p /\ WithoutSignatures(a).endorser = e
  BY <1>2 DEF WithoutSignatures, Activation
<1>9. SignatureFact(pairings', s)
  <2>1. s.by = e /\ s.over = content  BY DEF Sign, KeyOf
  <2> HIDE DEF s, content, n, e, a
  <2> QED  BY <1>4, <1>6, <1>7, <1>8, <2>1 DEF SignatureFact, EndorserSigned
<1>10. Unforged(made, s) /\ signed \subseteq made
  BY DEF Unforged
<1> HIDE DEF s, made
<1>11. GoodRoster(made, hub)
  BY <1>5, <1>10, GoodStays
<1>12. GoodRoster(made, r)
  <2> DEFINE i == Len(hub.addenda)
             addenda == hub.addenda
             x == [addenda[i] EXCEPT !.endorser_signature = s]
  <2>1. /\ i \in 1..Len(addenda) /\ GoodAddenda(made, addenda)
        /\ GoodAddendum(made, addenda[i])
    <3>1. GoodAddenda(made, addenda)
      BY <1>11 DEF GoodRoster
    <3>2. i \in 1..Len(addenda)
      BY <1>2, <3>1 DEF GoodAddenda
    <3> QED  BY <1>11, <3>1, <3>2, GoodShape
  <2>2. GoodAddendum(made, x)
    <3>1. addenda[i].kind = "activation"  BY <1>2 DEF LastAddendum
    <3> HIDE DEF i, addenda
    <3> QED  BY <1>10, <2>1, <3>1, GoodAddendumEdited
  <2>3. r = [hub EXCEPT !.addenda = [addenda EXCEPT ![i] = x]]
    BY DEF SetEndorserSignature
  <2> HIDE DEF i, addenda, x, r
  <2>4. GoodAddenda(made, [addenda EXCEPT ![i] = x])
    BY <2>1, <2>2, GoodAddendaEdited
  <2> QED  BY <1>11, <2>3, <2>4, GoodRosterEdited DEF addenda
<1> HIDE DEF r
<1> QED  BY <1>1, <1>3, <1>9, <1>12, GivenKeepsInv DEF made

\* A revoker adds to a good roster.
LEMMA RevokeKeepsInv ==
    ASSUME ChainInv, NEW v \in Numbers, NEW x \in Numbers, Revoke(v, x)
    PROVE  ChainInv'
<1> DEFINE next == AddRevocation(hub, x, v)
           s == Sign(KeyOf(v), next)
           revoked == SetRevokerSignature(next, s)
           made == signed \cup {s}
<1>1. Given(s, revoked) /\ pairings' = pairings
  BY DEF Revoke
<1>2. /\ v \in AllNumbers /\ x \in AllNumbers
      /\ GoodRoster(signed, hub) /\ GoodAddenda(signed, hub.addenda)
  BY DEF AllNumbers, ChainInv, GoodRoster
<1>3. LastAddendum(next).kind # "activation"
  <2> DEFINE a == Revocation(hub.version + 1, x, v)
  <2>1. a.kind # "activation"
    BY DEF Revocation
  <2>2. next.addenda = Append(hub.addenda, a)
    BY DEF AddRevocation
  <2>3. PICK S : hub.addenda \in Seq(S)  BY <1>2 DEF GoodAddenda
  <2> HIDE DEF a, next
  <2>4. next.addenda[Len(next.addenda)] = a
    BY <2>2, <2>3, AppendLast
  <2> QED  BY <2>1, <2>4 DEF LastAddendum
<1>4. SignatureFact(pairings', s)
  <2>1. s.over = next  BY DEF Sign
  <2> HIDE DEF s, next
  <2> QED  BY <1>3, <2>1 DEF SignatureFact
<1>5. Unforged(made, s) /\ signed \subseteq made
  BY DEF Unforged
<1> HIDE DEF next, revoked, made, s
<1>6. GoodRoster(made, hub)
  BY <1>2, <1>5, GoodStays
<1>7. GoodRoster(made, revoked)
  BY <1>2, <1>5, <1>6, GoodAddRevocation DEF revoked, next
<1>8. GoodPairings(pairings') /\ SamePairs(pairings, pairings')
  BY <1>1 DEF ChainInv, GoodPairings, SamePairs
<1> QED  BY <1>1, <1>4, <1>7, <1>8, GivenKeepsInv DEF made

\* The hub shows what it was given, or something it made of that.
LEMMA EditKeepsInv ==
    ASSUME ChainInv, Edit
    PROVE  ChainInv'
<1>1. GoodRoster(signed, hub)
  BY DEF ChainInv
<1>2. \/ hub' \in EditNode(hub)
      \/ hub' \in EditAddendum(hub)
      \/ hub' \in Forge(hub)
      \/ hub' = [hub EXCEPT !.version = @ - 1]
  BY DEF Edit
<1>3. UNCHANGED <<kept, signed, pairings>>
  BY DEF Edit
<1> DEFINE e == hub'
<1> HIDE DEF e
<1>4. GoodRoster(signed, e)
  <2>1. CASE e \in EditNode(hub)
    BY <1>1, <2>1, GoodNodeEdits
  <2>2. CASE e \in EditAddendum(hub)
    BY <1>1, <2>2, GoodAddendumEdits
  <2>3. CASE e \in Forge(hub)
    BY <1>1, <2>3, GoodForgeries
  <2>4. CASE e = [hub EXCEPT !.version = @ - 1]
    <3> DEFINE v == hub.version - 1
    <3>1. v \in Int  BY <1>1 DEF GoodRoster
    <3>2. GoodRoster(signed, [hub EXCEPT !.version = v])
      <4> HIDE DEF v
      <4> QED  BY <1>1, <3>1, GoodRosterEdited
    <3> QED  BY <2>4, <3>2
  <2> QED  BY <1>2, <2>1, <2>2, <2>3, <2>4 DEF e
<1> QED  BY <1>3, <1>4 DEF ChainInv, e

\* The empty roster is good.
LEMMA GoodEmpty == ASSUME NEW made PROVE GoodRoster(made, EmptyRoster)
<1> DEFINE S == {}
           base == << >>
<1>1. base \in Seq(S) /\ \A a \in S : GoodAddendum(made, a)  OBVIOUS
<1>2. GoodAddenda(made, base)
  <2> HIDE DEF S, base
  <2> QED  BY <1>1 DEF GoodAddenda
<1> QED  BY <1>2 DEF GoodRoster, EmptyRoster

\* Showing an earlier roster.
LEMMA ShowKeepsInv ==
    ASSUME ChainInv, Show
    PROVE  ChainInv'
<1> DEFINE e == hub'
<1>1. e \in kept \cup {EmptyRoster} /\ UNCHANGED <<kept, signed, pairings>>
  BY DEF Show
<1> HIDE DEF e
<1>2. GoodRoster(signed, e)
  BY <1>1, GoodEmpty DEF ChainInv
<1> QED  BY <1>1, <1>2 DEF ChainInv, e

\* The invariant holds at the start.
LEMMA InitInv == Init => ChainInv
<1> SUFFICES ASSUME Init PROVE ChainInv  OBVIOUS
<1>1. GoodPairings(<< >>)
  <2>1. << >> \in Seq(Pairing) /\ Len(<< >>) = 0  OBVIOUS
  <2> QED  BY <2>1 DEF GoodPairings
<1> QED  BY <1>1, GoodEmpty DEF Init, ChainInv

\* Every step keeps it.
LEMMA NextInv == ChainInv /\ [Next]_vars => ChainInv'
<1> SUFFICES ASSUME ChainInv, [Next]_vars PROVE ChainInv'  OBVIOUS
<1>1. CASE \E n, e \in Numbers : PairNodes(n, e)
  BY <1>1, PairNodesKeepsInv
<1>2. CASE \E p \in DOMAIN pairings : Activate(p)
  BY <1>2, ActivateKeepsInv
<1>3. CASE \E p \in DOMAIN pairings : RosterCosign(p)
  BY <1>3, RosterCosignKeepsInv
<1>4. CASE \E v, x \in Numbers : Revoke(v, x)
  BY <1>4, RevokeKeepsInv
<1>5. CASE Edit
  BY <1>5, EditKeepsInv
<1>6. CASE Show
  BY <1>6, ShowKeepsInv
<1>7. CASE UNCHANGED vars
  BY <1>7 DEF vars, ChainInv
<1> QED  BY <1>1, <1>2, <1>3, <1>4, <1>5, <1>6, <1>7 DEF Next

\* No signature of a node appears in a roster unless the node gave it, and what a
\* node has signed as an activation passed its own checks: a joining node's that its
\* endorser is in the roster, an endorser's that the nonces are those of a pairing
\* of its own whose node is in the roster.
THEOREM ChainInvariant == Spec => []ChainInv
BY InitInv, NextInv, PTL DEF Spec

\* verify_roster returns the keys of exactly the nodes a roster lists as not
\* revoked, for every roster the hub can show.
THEOREM KeysAreActive == Spec => []VerifiedKeysAreActive
<1>1. ChainInv => VerifiedKeysAreActive
  <2> SUFFICES ASSUME ChainInv, NEW n \in Numbers, VerifyRoster(hub, n, KeyOf(n)) = "Ok"
               PROVE  DOMAIN VerifiedKeys(hub) = ActiveNumbers(hub)
    BY DEF VerifiedKeysAreActive
  <2>1. RosterShape(hub)
    BY GoodShape DEF ChainInv
  <2> QED  BY <2>1, OkMeans, KeysOfActiveNodes
<1> QED  BY <1>1, ChainInvariant, PTL

-----------------------------------------------------------------------------
(* The walk and the history of a roster say the same. *)

\* nodes are the first nodes that r lists, whatever their flags.
Listed(nodes, r) ==
    /\ Len(nodes) <= Len(r.nodes)
    /\ \A k \in 1..Len(nodes) : /\ nodes[k].number = r.nodes[k].number
                                /\ nodes[k].key = r.nodes[k].key

\* r lists no node twice, and as revoked the nodes that its addenda revoke.
WellListed(r) ==
    /\ r.version = Len(r.addenda)
    /\ DistinctNumbers(r.nodes)
    /\ \A k \in 1..Len(r.nodes) :
         r.nodes[k].revoked <=> r.nodes[k].number \in RevokedIn(r, r.version)

\* The one entry of a number is at its position.
LEMMA PositionIs ==
    ASSUME NEW nodes \in Seq(NodeEntry), DistinctNumbers(nodes), NEW k \in 1..Len(nodes)
    PROVE  PositionOf(nodes, nodes[k].number) = k
BY PositionFound DEF DistinctNumbers

\* History only grows.
LEMMA HistoryGrows ==
    ASSUME NEW r, AddendaShape(r.addenda), NEW j \in Nat, NEW i \in 0..j
    PROVE  Introduced(r, i) \subseteq Introduced(r, j) /\ RevokedIn(r, i) \subseteq RevokedIn(r, j)
<1>1. \A k \in DOMAIN r.addenda : k \in Nat
  BY DEF AddendaShape
<1>2. \A k \in DOMAIN r.addenda : k <= i => k <= j
  BY <1>1
<1>3. Activations(r) \subseteq DOMAIN r.addenda
  BY DEF Activations
<1>4. Introduced(r, i) \subseteq Introduced(r, j)
  BY <1>2, <1>3 DEF Introduced
<1>5. RevokedIn(r, i) \subseteq RevokedIn(r, j)
  BY <1>2 DEF RevokedIn
<1> QED  BY <1>4, <1>5

\* Addenda bring in finitely many nodes.
LEMMA IntroducedFinite ==
    ASSUME NEW r, AddendaShape(r.addenda), NEW i \in 0..Len(r.addenda)
    PROVE  IsFiniteSet(Introduced(r, i))
<1> DEFINE n == Len(r.addenda)
           P == {j \in 0..n : IsFiniteSet(Introduced(r, j))}
<1>0. n \in Nat
  BY DEF AddendaShape
<1>1. 0 \in P
  BY <1>0, NobodyBefore, FS_EmptySet
<1>2. ASSUME NEW j \in 0..(n - 1), j \in P PROVE j + 1 \in P
  <2>1. j + 1 \in 1..n /\ (j + 1) - 1 = j
    BY <1>0
  <2> DEFINE a == r.addenda[j + 1]
             was == Introduced(r, j)
  <2>2. IsFiniteSet(was)
    BY <1>2
  <2>3. \/ Introduced(r, j + 1) = was
        \/ Introduced(r, j + 1) = was \cup {a.new_node} \cup {}
        \/ Introduced(r, j + 1) = was \cup {a.new_node} \cup {a.endorser}
    BY <2>1, ActivationIntroduces, RevocationRevokes
  <2> HIDE DEF a, was
  <2>4. IsFiniteSet(was \cup {a.new_node})
    BY <2>2, FS_AddElement
  <2>5. IsFiniteSet((was \cup {a.new_node}) \cup {a.endorser})
    BY <2>4, FS_AddElement
  <2>6. (was \cup {a.new_node}) \cup {} = was \cup {a.new_node}
    OBVIOUS
  <2>7. IsFiniteSet(Introduced(r, j + 1))
    BY <2>2, <2>3, <2>4, <2>5, <2>6
  <2> QED  BY <1>0, <2>1, <2>7
<1>3. 0..n \subseteq P
  <2> HIDE DEF P
  <2> QED  BY <1>0, <1>1, <1>2, SetInduction
<1> QED  BY <1>3

\* Clearing the signatures of the last addendum.
LEMMA SignaturesCleared ==
    ASSUME NEW S, NEW base \in Seq(S), NEW a, NEW v, NEW nodes
    PROVE  ClearLatestSignatures(Complete(v, nodes, base, a)) = Unsigned(v, nodes, base, a)
<1> DEFINE s == Append(base, a)
           y == WithoutSignatures(a)
           t == Append(base, y)
           r == [version |-> v, nodes |-> nodes, addenda |-> s]
<1>1. s[Len(s)] = a /\ [s EXCEPT ![Len(s)] = y] = t
  <2> HIDE DEF y
  <2> QED  BY AppendLast
<1> HIDE DEF s, t
<1>2. ClearLatestSignatures(r) = [r EXCEPT !.addenda[Len(s)] = WithoutSignatures(@)]
  BY DEF ClearLatestSignatures
<1>3. [r EXCEPT !.addenda[Len(s)] = WithoutSignatures(@)]
        = [r EXCEPT !.addenda = [s EXCEPT ![Len(s)] = WithoutSignatures(s[Len(s)])]]
  OBVIOUS
<1>4. [r EXCEPT !.addenda = t] = [version |-> v, nodes |-> nodes, addenda |-> t]
  OBVIOUS
<1> QED  BY <1>1, <1>2, <1>3, <1>4 DEF s, t, Complete, Unsigned

\* What addendum i was signed over is the walk's list of that time.
LEMMA AsSignedIs ==
    ASSUME NEW r, RosterShape(r), WellListed(r), NEW i \in 1..Len(r.addenda),
           NEW nodes, NodesFacts(r, i, nodes), Listed(nodes, r)
    PROVE  AsSigned(r, i) = Unsigned(i, nodes, SubSeq(r.addenda, 1, i - 1), r.addenda[i])
<1> DEFINE count == Cardinality(Introduced(r, i))
           then == [k \in 1..count |-> [r.nodes[k] EXCEPT
                       !.revoked = (@ /\ r.nodes[k].number \in RevokedIn(r, i))]]
           base == SubSeq(r.addenda, 1, i - 1)
<1>1. /\ r.nodes \in Seq(NodeEntry) /\ AddendaShape(r.addenda) /\ Len(r.addenda) \in Nat
  BY DEF RosterShape, AddendaShape
<1>2. nodes \in Seq(NodeEntry) /\ Len(nodes) = count /\ count \in Nat
  BY DEF NodesFacts
<1>3. RevokedIn(r, i) \subseteq RevokedIn(r, r.version)
  BY <1>1, HistoryGrows DEF WellListed
<1>4. ASSUME NEW k \in 1..count PROVE then[k] = nodes[k]
  <2>1. k \in 1..Len(nodes) /\ k \in 1..Len(r.nodes)
    BY <1>1, <1>2 DEF Listed
  <2> DEFINE x == r.nodes[k]
             y == nodes[k]
  <2>2. x \in NodeEntry /\ y \in NodeEntry
    BY <1>1, <1>2, <2>1, ElementOfSeq
  <2>3. x.number = y.number /\ x.key = y.key
    BY <2>1 DEF Listed
  <2>4. x.revoked <=> x.number \in RevokedIn(r, r.version)
    BY <2>1 DEF WellListed
  <2>5. y.revoked <=> y.number \in RevokedIn(r, i)
    BY <2>1 DEF NodesFacts
  <2>6. then[k] = [x EXCEPT !.revoked = (@ /\ x.number \in RevokedIn(r, i))]
    OBVIOUS
  <2> HIDE DEF x, y, then
  <2>7. (x.revoked /\ x.number \in RevokedIn(r, i)) <=> y.revoked
    BY <1>3, <2>3, <2>4, <2>5
  <2> DEFINE flag == x.revoked /\ x.number \in RevokedIn(r, i)
  <2>8. flag \in BOOLEAN /\ y.revoked \in BOOLEAN /\ (flag <=> y.revoked)
    BY <2>2, <2>7 DEF NodeEntry
  <2>9. then[k] = [x EXCEPT !.revoked = flag]
    BY <2>6
  <2> HIDE DEF flag
  <2>10. flag = y.revoked
    BY <2>8
  <2> QED  BY <2>2, <2>3, <2>9, <2>10 DEF NodeEntry, y
<1>5. then = nodes
  <2>1. DOMAIN nodes = 1..count  BY <1>2
  <2>2. nodes = [k \in 1..count |-> nodes[k]]  BY <1>2, <2>1
  <2>3. then = [k \in 1..count |-> then[k]]  OBVIOUS
  <2> HIDE DEF then
  <2> QED  BY <1>4, <2>2, <2>3
<1>6. PICK S : base \in Seq(S)
  <2>1. PICK S : r.addenda \in Seq(S)  BY <1>1 DEF AddendaShape
  <2>2. base \in Seq(S)  BY <2>1
  <2> QED  BY <2>2
<1>7. SubSeq(r.addenda, 1, i) = Append(base, r.addenda[i])
  BY <1>1, AddendaGrow
<1>8. AsSigned(r, i) = ClearLatestSignatures(Complete(i, nodes, base, r.addenda[i]))
  BY <1>5, <1>7 DEF AsSigned, Complete
<1> QED  BY <1>6, <1>8, SignaturesCleared

\* An activation is signed over what the history says, with the listed keys.
LEMMA ActivationStepMatches ==
    ASSUME NEW r, RosterShape(r), WellListed(r), NEW i \in 1..Len(r.addenda),
           NEW a, a = r.addenda[i], ActivationShape(a), NEW w, WalkFacts(r, i - 1, w),
           ActivationSound(r, a, i, w), Listed(NodesWith(r, a, i, w), r)
    PROVE  /\ AsSigned(r, i) = ActivationContent(r, a, i, w)
           /\ EndorserKey(r, a, i, w) = r.nodes[PositionOf(r.nodes, a.endorser)].key
           /\ a.new_node \notin Introduced(r, i - 1)
           /\ r.nodes[Cardinality(Introduced(r, i))].number = a.new_node
           /\ i = 1 => r.nodes[1].number = a.endorser
<1> DEFINE old == w.roster.nodes
           new == NodesWith(r, a, i, w)
<1>1. NodesGrow(r, a, i, w, w.roster.nodes, NodesWith(r, a, i, w))
  BY NodesAfterActivation
<1>2. /\ NodesFacts(r, i, new)
      /\ Len(new) = Len(old) + 1 + (IF i = 1 THEN 1 ELSE 0)
      /\ \A k \in 1..Len(old) : new[k] = old[k]
      /\ new[Len(new)] = Node(a.new_node, NewKey(r, a))
      /\ i = 1 => new[1] = Node(a.endorser, EndorserKey(r, a, i, w))
      /\ a.new_node \notin Introduced(r, i - 1)
  BY <1>1 DEF NodesGrow
<1>3. w.roster.addenda = SubSeq(r.addenda, 1, i - 1) /\ Len(old) \in Nat
  BY DEF WalkFacts, NodesFacts
<1>4. ActivationContent(r, a, i, w) = Unsigned(i, new, SubSeq(r.addenda, 1, i - 1), a)
  BY <1>3 DEF ActivationContent, Unsigned
<1> HIDE DEF new
<1>5. Listed(new, r)
  BY DEF new
<1>6. AsSigned(r, i) = ActivationContent(r, a, i, w)
  BY <1>2, <1>4, <1>5, AsSignedIs
<1>7. Len(new) \in 1..Len(r.nodes) /\ Len(new) = Cardinality(Introduced(r, i))
      /\ 1 \in 1..Len(new) /\ Len(new) \in 1..Len(new) /\ Len(new) >= Len(old)
  <2>1. Len(r.nodes) \in Nat  BY DEF RosterShape
  <2>2. Len(new) <= Len(r.nodes) /\ Len(new) = Cardinality(Introduced(r, i))
    BY <1>2, <1>5 DEF Listed, NodesFacts
  <2>3. Len(new) = Len(old) + 1 + (IF i = 1 THEN 1 ELSE 0) /\ Len(old) \in Nat
    BY <1>2, <1>3
  <2> HIDE DEF old
  <2>4. Len(new) \in Nat /\ Len(new) >= 1 /\ Len(new) >= Len(old)
    BY <2>3
  <2> QED  BY <2>1, <2>2, <2>4
<1>8. r.nodes[Cardinality(Introduced(r, i))].number = a.new_node
  <2>1. new[Len(new)].number = a.new_node
    BY <1>2 DEF Node
  <2>2. new[Len(new)].number = r.nodes[Len(new)].number
    BY <1>5, <1>7 DEF Listed
  <2> QED  BY <1>7, <2>1, <2>2
<1>9. \E k \in 1..Len(new) : new[k].number = a.endorser /\ new[k].key = EndorserKey(r, a, i, w)
  <2>1. CASE i = 1
    BY <2>1, <1>2, <1>7 DEF Node
  <2>2. CASE i # 1
    <3>1. a.endorser \in DOMAIN w.keys /\ EndorserKey(r, a, i, w) = w.keys[a.endorser]
      BY <2>2 DEF ActivationSound, EndorserKey
    <3>2. a.endorser \in Introduced(r, i - 1)
      BY <3>1 DEF WalkFacts, KeysFacts, ActiveAfter
    <3>3. PICK k \in 1..Len(old) : old[k].number = a.endorser
      BY <3>2 DEF WalkFacts, NodesFacts
    <3>4. old[k].key = w.keys[a.endorser]
      BY <3>1, <3>3 DEF WalkFacts, KeysFacts
    <3>5. k \in 1..Len(new) /\ new[k] = old[k]
      <4>1. new[k] = old[k]  BY <1>2, <3>3
      <4> HIDE DEF old
      <4>2. k \in 1..Len(new)  BY <1>3, <1>7, <3>3
      <4> QED  BY <4>1, <4>2
    <3> QED  BY <3>1, <3>3, <3>4, <3>5
  <2> QED  BY <2>1, <2>2
<1>10. PICK k \in 1..Len(new) : new[k].number = a.endorser /\ new[k].key = EndorserKey(r, a, i, w)
  BY <1>9
<1>11. k \in 1..Len(r.nodes) /\ r.nodes[k].number = a.endorser
       /\ r.nodes[k].key = EndorserKey(r, a, i, w)
  BY <1>5, <1>7, <1>10 DEF Listed
<1>12. PositionOf(r.nodes, a.endorser) = k
  BY <1>11, PositionIs DEF RosterShape, WellListed
<1>13. i = 1 => r.nodes[1].number = a.endorser
  BY <1>2, <1>5, <1>7 DEF Listed, Node
<1> QED  BY <1>2, <1>6, <1>8, <1>11, <1>12, <1>13

\* A revocation too.
LEMMA RevocationStepMatches ==
    ASSUME NEW r, RosterShape(r), WellListed(r), NEW i \in 1..Len(r.addenda),
           NEW a, a = r.addenda[i], RevocationShape(a), NEW w, WalkFacts(r, i - 1, w),
           RevocationSound(a, i, w), Listed(w.roster.nodes, r)
    PROVE  /\ AsSigned(r, i) = RevocationContent(a, i, w)
           /\ w.keys[a.revoker] = r.nodes[PositionOf(r.nodes, a.revoker)].key
           /\ Listed(MarkRevoked(w.roster.nodes, a.revoked), r)
<1> DEFINE old == w.roster.nodes
           new == MarkRevoked(w.roster.nodes, a.revoked)
           v == RevocationResult(a, i, w)
<1>1. NodesFacts(r, i, new)
  <2>1. WalkFacts(r, i, v)
    <3> HIDE DEF v
    <3>1. WalkFacts(r, i, RevocationResult(a, i, w))
      BY FactsAfterRevocation
    <3> QED  BY <3>1 DEF v
  <2>2. v.roster.nodes = new  BY DEF RevocationResult
  <2> HIDE DEF v, new
  <2> QED  BY <2>1, <2>2 DEF WalkFacts
<1>2. /\ old \in Seq(NodeEntry) /\ DistinctNumbers(old)
      /\ w.roster.addenda = SubSeq(r.addenda, 1, i - 1)
  BY DEF WalkFacts, NodesFacts
<1>3. /\ Len(new) = Len(old)
      /\ \A k \in 1..Len(old) : new[k].number = old[k].number /\ new[k].key = old[k].key
  <2> DEFINE x == a.revoked
  <2>1. old \in Seq(NodeEntry) /\ DistinctNumbers(old)  BY <1>2
  <2> HIDE DEF old, x
  <2>2. /\ Len(MarkRevoked(old, x)) = Len(old)
        /\ \A k \in 1..Len(old) : /\ MarkRevoked(old, x)[k].number = old[k].number
                                   /\ MarkRevoked(old, x)[k].key = old[k].key
    BY <2>1, MarkRevokedMarks
  <2> QED  BY <2>2 DEF old, x
<1>4. RevocationContent(a, i, w) = Unsigned(i, new, SubSeq(r.addenda, 1, i - 1), a)
  BY <1>2 DEF RevocationContent, Unsigned
<1> HIDE DEF new
<1>5. Listed(new, r)
  BY <1>3 DEF Listed
<1>6. AsSigned(r, i) = RevocationContent(a, i, w)
  BY <1>1, <1>4, <1>5, AsSignedIs
<1>7. a.revoker \in DOMAIN w.keys
  BY DEF RevocationSound
<1>8. PICK k \in 1..Len(old) : old[k].number = a.revoker
  BY <1>7 DEF WalkFacts, KeysFacts, ActiveAfter, NodesFacts
<1>9. old[k].key = w.keys[a.revoker]
  BY <1>7, <1>8 DEF WalkFacts, KeysFacts
<1>10. k \in 1..Len(r.nodes) /\ r.nodes[k].number = a.revoker /\ r.nodes[k].key = w.keys[a.revoker]
  <2>1. Len(r.nodes) \in Nat  BY DEF RosterShape
  <2>2. Len(old) \in Nat  BY <1>2
  <2>3. k \in 1..Len(r.nodes)
    <3>1. Len(old) <= Len(r.nodes)  BY DEF Listed
    <3> HIDE DEF old
    <3> QED  BY <2>1, <2>2, <3>1, <1>8
  <2> QED  BY <2>3, <1>8, <1>9 DEF Listed
<1>11. PositionOf(r.nodes, a.revoker) = k
  BY <1>10, PositionIs DEF RosterShape, WellListed
<1> QED  BY <1>5, <1>6, <1>10, <1>11 DEF new

\* A turn of the loop adds to the list and changes no number or key in it.
LEMMA StepExtends ==
    ASSUME NEW r, RosterShape(r), NEW i \in 1..Len(r.addenda), NEW w, NEW v, StepTaken(r, i, w, v),
           Listed(v.roster.nodes, r)
    PROVE  Listed(w.roster.nodes, r)
<1> DEFINE a == r.addenda[i]
           old == w.roster.nodes
           new == v.roster.nodes
<1>1. WalkFacts(r, i - 1, w) /\ old \in Seq(NodeEntry) /\ DistinctNumbers(old)
  BY DEF StepTaken, WalkFacts, NodesFacts
<1>2. /\ Len(new) >= Len(old) /\ Len(new) \in Nat /\ Len(old) \in Nat
      /\ \A k \in 1..Len(old) : new[k].number = old[k].number /\ new[k].key = old[k].key
  <2>1. CASE ActivationTaken(r, i, w) /\ v = ActivationResult(r, a, i, w)
    <3>1. ActivationShape(a) /\ ActivationSound(r, a, i, w)
      BY <2>1, AddendumKinds DEF ActivationTaken
    <3>2. new = NodesWith(r, a, i, w)
      BY <2>1 DEF ActivationResult
    <3>3. NodesGrow(r, a, i, w, w.roster.nodes, NodesWith(r, a, i, w))
      BY <1>1, <3>1, NodesAfterActivation
    <3>4. Len(old) \in Nat  BY <1>1
    <3>5. Len(new) = Len(old) + 1 + (IF i = 1 THEN 1 ELSE 0) /\ \A k \in 1..Len(old) : new[k] = old[k]
      BY <3>2, <3>3 DEF NodesGrow
    <3> HIDE DEF old, new
    <3> QED  BY <3>4, <3>5
  <2>2. CASE RevocationTaken(r, i, w) /\ v = RevocationResult(a, i, w)
    <3> DEFINE x == a.revoked
    <3>1. new = MarkRevoked(old, x)
      BY <2>2 DEF RevocationResult
    <3>2. Len(old) \in Nat  BY <1>1
    <3> HIDE DEF old, new, x
    <3>3. /\ Len(MarkRevoked(old, x)) = Len(old)
          /\ \A k \in 1..Len(old) : /\ MarkRevoked(old, x)[k].number = old[k].number
                                    /\ MarkRevoked(old, x)[k].key = old[k].key
      BY <1>1, MarkRevokedMarks
    <3> QED  BY <3>1, <3>2, <3>3
  <2> QED  BY <2>1, <2>2 DEF StepTaken
<1>3. Len(r.nodes) \in Nat
  BY DEF RosterShape
<1>4. Listed(new, r)
  OBVIOUS
<1> HIDE DEF old, new
<1>5. Listed(old, r)
  BY <1>2, <1>3, <1>4 DEF Listed
<1> QED  BY <1>5 DEF old

\* The roster that the walk rebuilds lists its first nodes at every turn.
LEMMA WalksListed ==
    ASSUME NEW r, RosterShape(r), Reconstructed(r, Walk(r)), NEW i \in 0..Len(r.addenda)
    PROVE  Listed(Walks(r)[i].roster.nodes, r)
<1> DEFINE n == Len(r.addenda)
           P == {k \in 0..n : Listed(Walks(r)[n - k].roster.nodes, r)}
<1>0. n \in Nat /\ Len(r.nodes) \in Nat
  BY DEF RosterShape, AddendaShape
<1>1. 0 \in P
  <2>1. Listed(r.nodes, r)  BY <1>0 DEF Listed
  <2>2. Walks(r)[n].roster = r  BY DEF Reconstructed, Walk
  <2>3. n - 0 = n  BY <1>0
  <2>4. Listed(Walks(r)[n - 0].roster.nodes, r)  BY <2>1, <2>2, <2>3
  <2> QED  BY <1>0, <2>4
<1>2. ASSUME NEW k \in 0..(n - 1), k \in P PROVE k + 1 \in P
  <2> DEFINE m == n - k
  <2>1. m \in 1..n /\ n - (k + 1) = m - 1  BY <1>0
  <2>2. Listed(Walks(r)[m].roster.nodes, r)  BY <1>2
  <2> HIDE DEF m
  <2>3. StepTaken(r, m, Walks(r)[m - 1], Walks(r)[m])
    BY <2>1, AllTaken DEF Reconstructed
  <2>4. Listed(Walks(r)[m - 1].roster.nodes, r)
    BY <2>1, <2>2, <2>3, StepExtends
  <2>5. Listed(Walks(r)[n - (k + 1)].roster.nodes, r)
    BY <2>1, <2>4
  <2> QED  BY <1>0, <2>5
<1>3. 0..n \subseteq P
  <2> HIDE DEF P
  <2> QED  BY <1>0, <1>1, <1>2, SetInduction
<1> DEFINE m == n - i
<1>4. m \in 0..n /\ n - m = i
  BY <1>0
<1>5. Listed(Walks(r)[n - m].roster.nodes, r)
  <2> HIDE DEF m
  <2> QED  BY <1>3, <1>4
<1> HIDE DEF m
<1> QED  BY <1>4, <1>5

\* A roster that the walk rebuilds was made by legitimate steps.
LEMMA RebuiltIsLegitimate ==
    ASSUME NEW r, RosterShape(r), r.version >= 1, Reconstructed(r, Walk(r))
    PROVE  Legitimate(r)
<1>1. /\ r.version = Len(r.addenda)
      /\ NodesFacts(r, r.version, r.nodes)
  BY FullWalk
<1>2. WellListed(r)
  BY <1>1 DEF WellListed, NodesFacts
<1>3. NodesMatchAddenda(r)
  <2>1. /\ Len(r.nodes) = Cardinality(Introduced(r, r.version))
        /\ DOMAIN r.nodes = 1..Len(r.nodes) /\ Len(r.nodes) \in Nat
        /\ \A k \in 1..Len(r.nodes) : r.nodes[k] \in NodeEntry
    BY <1>1 DEF NodesFacts
  <2>2. ASSUME NEW k \in 1..Len(r.nodes)
        PROVE  r.nodes[k].revoked = (r.nodes[k].number \in RevokedIn(r, r.version))
    <3> DEFINE flag == r.nodes[k].revoked
               revoked == r.nodes[k].number \in RevokedIn(r, r.version)
    <3>1. flag \in BOOLEAN  BY <2>1 DEF NodeEntry
    <3>2. revoked \in BOOLEAN  OBVIOUS
    <3>3. flag <=> revoked  BY <1>1 DEF NodesFacts
    <3> HIDE DEF flag, revoked
    <3>4. flag = revoked  BY <3>1, <3>2, <3>3
    <3> QED  BY <3>4 DEF flag, revoked
  <2>3. ASSUME NEW k \in 1..Len(r.nodes), NEW j \in 1..Len(r.nodes), j < k
        PROVE  r.nodes[j].number # r.nodes[k].number
    BY <2>1, <2>3, <1>1 DEF NodesFacts, DistinctNumbers
  <2>4. \A k \in 1..Len(r.nodes) : r.nodes[k].number \in Introduced(r, r.version)
    BY <1>1 DEF NodesFacts
  <2> QED  BY <2>1, <2>2, <2>3, <2>4 DEF NodesMatchAddenda
<1>4. ASSUME NEW i \in 1..Len(r.addenda) PROVE LegitimateStep(r, i)
  <2> DEFINE a == r.addenda[i]
             w == Walks(r)[i - 1]
             v == Walks(r)[i]
  <2>1. StepTaken(r, i, w, v)
    BY AllTaken DEF Reconstructed
  <2>2. Listed(w.roster.nodes, r) /\ Listed(v.roster.nodes, r)
    <3>1. i \in 0..Len(r.addenda) /\ i - 1 \in 0..Len(r.addenda)  BY <1>1
    <3> QED  BY <3>1, WalksListed
  <2>3. WalkFacts(r, i - 1, w)
    BY <2>1 DEF StepTaken
  <2> HIDE DEF w, v
  <2>4. CASE ActivationTaken(r, i, w) /\ v = ActivationResult(r, a, i, w)
    <3>1. /\ a.kind = "activation" /\ ActivationShape(a)
          /\ ActivationSound(r, a, i, w) /\ ActivationSigned(r, a, i, w)
      BY <2>4, AddendumKinds DEF ActivationTaken
    <3>2. v.roster.nodes = NodesWith(r, a, i, w)
      BY <2>4 DEF ActivationResult
    <3>3. /\ AsSigned(r, i) = ActivationContent(r, a, i, w)
          /\ EndorserKey(r, a, i, w) = r.nodes[PositionOf(r.nodes, a.endorser)].key
          /\ a.new_node \notin Introduced(r, i - 1)
          /\ r.nodes[Cardinality(Introduced(r, i))].number = a.new_node
          /\ i = 1 => r.nodes[1].number = a.endorser
      BY <1>2, <2>2, <2>3, <3>1, <3>2, ActivationStepMatches
    <3>4. i = 1 \/ a.endorser \in ActiveAfter(r, i - 1)
      BY <2>3, <3>1 DEF ActivationSound, WalkFacts, KeysFacts
    <3>5. a.version = i /\ a.new_node # a.endorser
      BY <3>1 DEF ActivationSound
    <3>6. /\ a.new_node_signature = Sign(r.nodes[PositionOf(r.nodes, a.new_node)].key, AsSigned(r, i))
          /\ a.endorser_signature = Sign(r.nodes[PositionOf(r.nodes, a.endorser)].key, AsSigned(r, i))
      BY <3>1, <3>3 DEF ActivationSigned, NewKey
    <3> QED  BY <3>1, <3>3, <3>4, <3>5, <3>6 DEF LegitimateStep
  <2>5. CASE RevocationTaken(r, i, w) /\ v = RevocationResult(a, i, w)
    <3>1. /\ a.kind # "activation" /\ RevocationShape(a)
          /\ RevocationSound(a, i, w) /\ RevocationSigned(a, i, w)
      BY <2>5, AddendumKinds DEF RevocationTaken
    <3>2. /\ AsSigned(r, i) = RevocationContent(a, i, w)
          /\ w.keys[a.revoker] = r.nodes[PositionOf(r.nodes, a.revoker)].key
      BY <1>2, <2>2, <2>3, <3>1, RevocationStepMatches
    <3>3. a.version = i /\ {a.revoker, a.revoked} \subseteq ActiveAfter(r, i - 1)
      BY <2>3, <3>1 DEF RevocationSound, WalkFacts, KeysFacts
    <3>4. a.revoker_signature = Sign(r.nodes[PositionOf(r.nodes, a.revoker)].key, AsSigned(r, i))
      BY <3>1, <3>2 DEF RevocationSigned
    <3> QED  BY <3>1, <3>3, <3>4 DEF LegitimateStep
  <2> QED  BY <2>1, <2>4, <2>5 DEF StepTaken
<1> QED  BY <1>1, <1>3, <1>4 DEF Legitimate

\* The list that a legitimate activation leads to is the beginning of r's.
LEMMA LegitimateActivationListed ==
    ASSUME NEW r, RosterShape(r), WellListed(r), Legitimate(r), NEW i \in 1..Len(r.addenda),
           NEW a, a = r.addenda[i], ActivationShape(a), NEW w, WalkFacts(r, i - 1, w),
           Listed(w.roster.nodes, r)
    PROVE  ActivationSound(r, a, i, w) /\ Listed(NodesWith(r, a, i, w), r)
<1> DEFINE old == w.roster.nodes
           new == NodesWith(r, a, i, w)
           count == Cardinality(Introduced(r, i))
<1>1. /\ a.kind = "activation" /\ LegitimateStep(r, i) /\ AddendaShape(r.addenda)
      /\ Len(r.addenda) \in Nat /\ r.version = Len(r.addenda)
      /\ r.nodes \in Seq(NodeEntry) /\ DistinctNumbers(r.nodes)
      /\ Len(r.nodes) = Cardinality(Introduced(r, r.version))
  BY DEF Legitimate, NodesMatchAddenda, RosterShape, AddendaShape, ActivationShape, WellListed
<1>2. /\ a.version = i
      /\ i = 1 \/ a.endorser \in ActiveAfter(r, i - 1)
      /\ a.new_node \notin Introduced(r, i - 1) /\ a.new_node # a.endorser
      /\ r.nodes[count].number = a.new_node
      /\ i = 1 => r.nodes[1].number = a.endorser
  BY <1>1 DEF LegitimateStep
<1>3. count \in 1..Len(r.nodes)
  <2>1. Introduced(r, i) \subseteq Introduced(r, r.version)
    BY <1>1, HistoryGrows
  <2>2. IsFiniteSet(Introduced(r, r.version)) /\ IsFiniteSet(Introduced(r, i))
    <3>1. r.version \in 0..Len(r.addenda) /\ i \in 0..Len(r.addenda)  BY <1>1
    <3> QED  BY <1>1, <3>1, IntroducedFinite
  <2>3. a.new_node \in Introduced(r, i)
    BY <1>1, ActivationIntroduces
  <2>4. count \in Nat /\ Cardinality(Introduced(r, r.version)) \in Nat
    BY <2>2, FS_CardinalityType
  <2>5. count <= Cardinality(Introduced(r, r.version))
    BY <2>1, <2>2, FS_Subset
  <2>6. count # 0
    BY <2>2, <2>3, FS_EmptySet
  <2> HIDE DEF count
  <2> QED  BY <1>1, <2>4, <2>5, <2>6
<1>4. PositionOf(r.nodes, a.new_node) = count
  BY <1>1, <1>2, <1>3, PositionIs
<1>5. 1 \in 1..Len(r.nodes) /\ count # 0
  <2> HIDE DEF count
  <2> QED  BY <1>1, <1>3
<1>6. i = 1 => PositionOf(r.nodes, a.endorser) = 1
  BY <1>1, <1>2, <1>5, PositionIs
<1>7. PositionOf(old, a.new_node) = 0
  <2>1. old \in Seq(NodeEntry)  BY DEF WalkFacts, NodesFacts
  <2>2. \A k \in 1..Len(old) : old[k].number # a.new_node
    BY <1>2 DEF WalkFacts, NodesFacts
  <2> QED  BY <2>1, <2>2, PositionFound
<1>8. i # 1 => a.endorser \in DOMAIN w.keys
  BY <1>2 DEF WalkFacts, KeysFacts
<1>9. ActivationSound(r, a, i, w)
  BY <1>2, <1>4, <1>5, <1>6, <1>7, <1>8 DEF ActivationSound, Duplicate
<1>10. NodesGrow(r, a, i, w, w.roster.nodes, NodesWith(r, a, i, w))
  BY <1>9, NodesAfterActivation
<1>11. /\ Len(new) = count
       /\ Len(new) = Len(old) + 1 + (IF i = 1 THEN 1 ELSE 0)
       /\ \A k \in 1..Len(old) : new[k] = old[k]
       /\ new[Len(new)] = Node(a.new_node, NewKey(r, a))
       /\ i = 1 => Len(old) = 0 /\ new[1] = Node(a.endorser, EndorserKey(r, a, i, w))
  BY <1>10 DEF NodesGrow, NodesFacts
<1>12. /\ NewKey(r, a) = r.nodes[count].key
       /\ i = 1 => EndorserKey(r, a, i, w) = r.nodes[1].key
  BY <1>4, <1>6 DEF NewKey, EndorserKey
<1>13. Len(old) \in Nat /\ \A k \in 1..Len(old) : /\ old[k].number = r.nodes[k].number
                                                 /\ old[k].key = r.nodes[k].key
  BY DEF Listed, WalkFacts, NodesFacts
<1> HIDE DEF new, old, count
<1>14. ASSUME NEW k \in 1..count
       PROVE  new[k].number = r.nodes[k].number /\ new[k].key = r.nodes[k].key
  <2>1. CASE k \in 1..Len(old)
    <3>1. new[k] = old[k]  BY <2>1, <1>11
    <3>2. old[k].number = r.nodes[k].number /\ old[k].key = r.nodes[k].key  BY <2>1, <1>13
    <3> QED  BY <3>1, <3>2
  <2>2. CASE k = count
    <3>1. new[k] = Node(a.new_node, NewKey(r, a))  BY <2>2, <1>11
    <3>2. new[k].number = a.new_node /\ new[k].key = NewKey(r, a)  BY <3>1 DEF Node
    <3> QED  BY <2>2, <3>2, <1>2, <1>12
  <2>3. CASE i = 1 /\ k = 1
    BY <2>3, <1>2, <1>11, <1>12 DEF Node
  <2>4. k \in 1..Len(old) \/ k = count \/ (i = 1 /\ k = 1)
    <3>1. CASE i = 1
      <4>1. count = 2 /\ k \in 1..2  BY <3>1, <1>11
      <4> QED  BY <3>1, <4>1
    <3>2. CASE i # 1
      <4>1. count = Len(old) + 1 /\ Len(old) \in Nat  BY <3>2, <1>11, <1>13
      <4> QED  BY <4>1
    <3> QED  BY <3>1, <3>2
  <2> QED  BY <2>1, <2>2, <2>3, <2>4
<1>15. Listed(new, r)
  BY <1>3, <1>11, <1>14 DEF Listed
<1> QED  BY <1>9, <1>15 DEF new

\* A roster made by legitimate steps is rebuilt by the walk.
LEMMA LegitimateIsRebuilt ==
    ASSUME NEW r, RosterShape(r), Legitimate(r)
    PROVE  Reconstructed(r, Walk(r))
<1> DEFINE n == Len(r.addenda)
           P == {i \in 0..n : Walks(r)[i].ok /\ Listed(Walks(r)[i].roster.nodes, r)}
<1>0. /\ n \in Nat /\ Len(r.nodes) \in Nat /\ r.nodes \in Seq(NodeEntry)
      /\ r.version = n /\ NodesMatchAddenda(r) /\ DOMAIN r.nodes = 1..Len(r.nodes)
  BY DEF RosterShape, AddendaShape, Legitimate
<1>1. WellListed(r)
  <2>1. DistinctNumbers(r.nodes)
    BY <1>0 DEF NodesMatchAddenda, DistinctNumbers
  <2>2. \A k \in 1..Len(r.nodes) : r.nodes[k].revoked <=> r.nodes[k].number \in RevokedIn(r, r.version)
    BY <1>0 DEF NodesMatchAddenda
  <2> QED  BY <1>0, <2>1, <2>2 DEF WellListed
<1>2. 0 \in P
  <2>1. Walks(r)[0] = WalkStart  BY <1>0, WalksEquation
  <2>2. WalkStart.ok /\ Listed(WalkStart.roster.nodes, r)
    BY <1>0 DEF WalkStart, EmptyRoster, Listed
  <2> QED  BY <1>0, <2>1, <2>2
<1>3. ASSUME NEW j \in 0..(n - 1), j \in P PROVE j + 1 \in P
  <2> DEFINE i == j + 1
             a == r.addenda[i]
             w == Walks(r)[j]
             v == Walks(r)[i]
  <2>1. i \in 1..n /\ i - 1 = j /\ i \in 0..n /\ j \in 0..n
    BY <1>0
  <2>2. w.ok /\ Listed(w.roster.nodes, r)
    BY <1>3
  <2>3. WalkFacts(r, i - 1, w)
    BY <2>1, <2>2, WalkInduction
  <2>4. v = Advance(r, i, w)
    BY <1>0, <2>1, WalksEquation
  <2>5. LegitimateStep(r, i)
    BY <1>0, <2>1 DEF Legitimate
  <2> HIDE DEF i, a, w, v
  <2>6. CASE a.kind = "activation"
    <3>1. ActivationShape(a)
      BY <2>1, <2>6, AddendumKinds DEF a
    <3>2. ActivationSound(r, a, i, w) /\ Listed(NodesWith(r, a, i, w), r)
      BY <1>1, <2>1, <2>2, <2>3, <3>1, LegitimateActivationListed DEF a
    <3>3. /\ AsSigned(r, i) = ActivationContent(r, a, i, w)
          /\ EndorserKey(r, a, i, w) = r.nodes[PositionOf(r.nodes, a.endorser)].key
      BY <1>1, <2>1, <2>3, <3>1, <3>2, ActivationStepMatches DEF a
    <3>4. ActivationSigned(r, a, i, w)
      BY <2>5, <2>6, <3>3 DEF LegitimateStep, ActivationSigned, NewKey, a
    <3>5. ActivationTaken(r, i, w)
      BY <2>6, <3>2, <3>4 DEF ActivationTaken, a
    <3>6. v = ActivationResult(r, a, i, w)
      BY <2>1, <2>3, <2>4, <3>5, AdvanceOnce DEF a
    <3>7. v.ok /\ v.roster.nodes = NodesWith(r, a, i, w)
      BY <3>6 DEF ActivationResult
    <3> QED  BY <2>1, <3>2, <3>7 DEF i, v
  <2>7. CASE a.kind # "activation"
    <3>1. RevocationShape(a)
      BY <2>1, <2>7, AddendumKinds DEF a
    <3>2. RevocationSound(a, i, w)
      BY <2>3, <2>5, <2>7 DEF LegitimateStep, RevocationSound, WalkFacts, KeysFacts, a
    <3>3. /\ AsSigned(r, i) = RevocationContent(a, i, w)
          /\ w.keys[a.revoker] = r.nodes[PositionOf(r.nodes, a.revoker)].key
          /\ Listed(MarkRevoked(w.roster.nodes, a.revoked), r)
      BY <1>1, <2>1, <2>2, <2>3, <3>1, <3>2, RevocationStepMatches DEF a
    <3>4. RevocationSigned(a, i, w)
      BY <2>5, <2>7, <3>3 DEF LegitimateStep, RevocationSigned, a
    <3>5. RevocationTaken(r, i, w) /\ ~ActivationTaken(r, i, w)
      BY <2>7, <3>2, <3>4 DEF RevocationTaken, ActivationTaken, a
    <3>6. v = RevocationResult(a, i, w)
      BY <2>1, <2>3, <2>4, <3>5, AdvanceOnce DEF a
    <3>7. v.ok /\ v.roster.nodes = MarkRevoked(w.roster.nodes, a.revoked)
      BY <3>6 DEF RevocationResult
    <3> QED  BY <2>1, <3>3, <3>7 DEF i, v
  <2> QED  BY <2>6, <2>7
<1>4. 0..n \subseteq P
  <2> HIDE DEF P
  <2> QED  BY <1>0, <1>2, <1>3, SetInduction
<1> DEFINE w == Walks(r)[n]
           nodes == w.roster.nodes
<1>5. w.ok /\ Listed(nodes, r) /\ n \in 0..n
  BY <1>0, <1>4
<1>6. WalkFacts(r, n, w)
  BY <1>5, WalkInduction
<1>7. NodesFacts(r, n, nodes)
  BY <1>6 DEF WalkFacts
<1>8. w.roster = [version |-> n, nodes |-> nodes, addenda |-> SubSeq(r.addenda, 1, n)]
  <2> HIDE DEF w
  <2>1. w = [ok |-> TRUE,
             roster |-> [version |-> n, nodes |-> w.roster.nodes,
                         addenda |-> SubSeq(r.addenda, 1, n)],
             keys |-> w.keys]
    BY <1>6 DEF WalkFacts
  <2> QED  BY <2>1
<1> HIDE DEF w, nodes
<1>9. nodes = r.nodes
  <2>1. Len(nodes) = Len(r.nodes) /\ nodes \in Seq(NodeEntry)
    BY <1>0, <1>7 DEF NodesFacts, NodesMatchAddenda
  <2>2. ASSUME NEW k \in 1..Len(r.nodes) PROVE nodes[k] = r.nodes[k]
    <3> DEFINE x == r.nodes[k]
               y == nodes[k]
    <3>1. x \in NodeEntry /\ y \in NodeEntry
      BY <1>0, <2>1, ElementOfSeq
    <3>2. x.number = y.number /\ x.key = y.key
      BY <1>5, <2>1 DEF Listed
    <3>3. x.revoked <=> x.number \in RevokedIn(r, n)
      BY <1>0, <1>1 DEF WellListed
    <3>4. y.revoked <=> y.number \in RevokedIn(r, n)
      BY <1>7, <2>1 DEF NodesFacts
    <3> HIDE DEF x, y
    <3>5. x.revoked = y.revoked
      BY <3>1, <3>2, <3>3, <3>4 DEF NodeEntry
    <3>6. x = y
      BY <3>1, <3>2, <3>5 DEF NodeEntry
    <3> QED  BY <3>6 DEF x, y
  <2> QED  BY <1>0, <2>1, <2>2, SeqEqual
<1>10. SubSeq(r.addenda, 1, n) = r.addenda
  <2>1. PICK S : r.addenda \in Seq(S)  BY DEF RosterShape, AddendaShape
  <2> QED  BY <2>1
<1>11. w.roster = r
  BY <1>0, <1>8, <1>9, <1>10 DEF RosterShape
<1> QED  BY <1>5, <1>11 DEF Reconstructed, Walk, w

\* The answer of verify_roster for a roster made by legitimate steps.
LEMMA AnswerOfHistory ==
    ASSUME NEW r, RosterShape(r), Legitimate(r), NEW n
    PROVE  VerifyRoster(r, n, KeyOf(n)) =
             IF n \in RevokedIn(r, r.version) THEN "VerifierRevoked"
             ELSE IF n \notin Introduced(r, r.version) THEN "VerifierNotInRoster"
             ELSE IF r.nodes[PositionOf(r.nodes, n)].key = KeyOf(n)
                  THEN "Ok" ELSE "VerifierKeyMismatch"
<1> DEFINE N == r.version
           keys == VerifiedKeys(r)
<1>1. Reconstructed(r, Walk(r)) /\ r.version >= 1 /\ r.version \in Int /\ Len(r.addenda) = r.version
  BY LegitimateIsRebuilt DEF Legitimate, RosterShape
<1>2. /\ NodesFacts(r, N, r.nodes) /\ KeysFacts(r, N, r.nodes, keys)
      /\ RevokedIn(r, N) \subseteq Introduced(r, N)
  BY <1>1, FullWalk
<1>3. VerifyRoster(r, n, KeyOf(n)) =
        IF n \in DOMAIN keys
        THEN IF keys[n] = KeyOf(n) THEN "Ok" ELSE "VerifierKeyMismatch"
        ELSE IF PositionOf(r.nodes, n) # 0 THEN "VerifierRevoked" ELSE "VerifierNotInRoster"
  <2>1. Walk(r).roster = r  BY <1>1 DEF Reconstructed
  <2>2. ~(r.version < 1 \/ Len(r.addenda) # r.version)  BY <1>1
  <2> QED  BY <1>1, <2>1, <2>2 DEF VerifyRoster, VerifiedKeys
<1> HIDE DEF keys, N
<1>4. r.nodes \in Seq(NodeEntry) /\ DistinctNumbers(r.nodes)
  BY <1>2 DEF NodesFacts
<1>5. n \in DOMAIN keys <=> n \in Introduced(r, N) /\ n \notin RevokedIn(r, N)
  BY <1>2 DEF KeysFacts, ActiveAfter
<1>6. n \in Introduced(r, N) =>
        /\ PositionOf(r.nodes, n) # 0
        /\ n \in DOMAIN keys => keys[n] = r.nodes[PositionOf(r.nodes, n)].key
  <2> SUFFICES ASSUME n \in Introduced(r, N)
               PROVE  /\ PositionOf(r.nodes, n) # 0
                      /\ n \in DOMAIN keys => keys[n] = r.nodes[PositionOf(r.nodes, n)].key
    OBVIOUS
  <2>1. PICK k \in 1..Len(r.nodes) : r.nodes[k].number = n
    BY <1>2 DEF NodesFacts
  <2>2. PositionOf(r.nodes, n) = k
    BY <1>4, <2>1, PositionIs
  <2> QED  BY <1>2, <2>1, <2>2 DEF KeysFacts
<1>7. n \notin Introduced(r, N) => PositionOf(r.nodes, n) = 0
  <2>1. n \notin Introduced(r, N) => \A k \in 1..Len(r.nodes) : r.nodes[k].number # n
    BY <1>2 DEF NodesFacts
  <2> QED  BY <1>4, <2>1, PositionFound
<1> QED  BY <1>2, <1>3, <1>5, <1>6, <1>7 DEF N

-----------------------------------------------------------------------------
(* Who signed an accepted roster. *)

\* The key that r lists for a node.
KeyIn(r, m) == r.nodes[PositionOf(r.nodes, m)].key

\* Nodes that the roster signed at step i has with their own keys came in by
\* then, and r lists them with these keys.
LEMMA StepContent ==
    ASSUME NEW r, RosterShape(r), r.version >= 1, Reconstructed(r, Walk(r)),
           NEW i \in 1..Len(r.addenda)
    PROVE  /\ AsSigned(r, i).version = i
           /\ LastAddendum(AsSigned(r, i)) = WithoutSignatures(r.addenda[i])
           /\ \A m \in AllNumbers : Has(AsSigned(r, i).nodes, m) =>
                 m \in Introduced(r, i) /\ KeyIn(r, m) = KeyOf(m) /\ m \in Numbers
<1> DEFINE a == r.addenda[i]
           v == Walks(r)[i]
           nodes == v.roster.nodes
           base == SubSeq(r.addenda, 1, i - 1)
<1>1. /\ r.version = Len(r.addenda) /\ NodesFacts(r, r.version, r.nodes)
      /\ i \in 0..Len(r.addenda) /\ AddendaShape(r.addenda)
  BY FullWalk DEF RosterShape
<1>2. WellListed(r)
  BY <1>1 DEF WellListed, NodesFacts
<1>3. NodesFacts(r, i, nodes)
  BY AllTaken DEF Reconstructed, StepTaken, WalkFacts
<1>4. Listed(nodes, r)
  BY <1>1, WalksListed
<1> HIDE DEF nodes
<1>5. AsSigned(r, i) = Unsigned(i, nodes, base, a)
  BY <1>2, <1>3, <1>4, AsSignedIs
<1>6. AsSigned(r, i).version = i /\ AsSigned(r, i).nodes = nodes
  BY <1>5 DEF Unsigned
<1>7. LastAddendum(AsSigned(r, i)) = WithoutSignatures(a)
  <2>1. PICK S : r.addenda \in Seq(S)  BY <1>1 DEF AddendaShape
  <2>2. base \in Seq(S)  BY <2>1
  <2> DEFINE b == WithoutSignatures(a)
             s == Append(base, b)
  <2>3. AsSigned(r, i).addenda = s  BY <1>5 DEF Unsigned
  <2> HIDE DEF b, base
  <2>4. s[Len(s)] = b  BY <2>2, AppendLast
  <2> QED  BY <2>3, <2>4 DEF LastAddendum, b
<1>8. ASSUME NEW m \in AllNumbers, Has(nodes, m)
      PROVE  m \in Introduced(r, i) /\ KeyIn(r, m) = KeyOf(m) /\ m \in Numbers
  <2>1. PICK k \in 1..Len(nodes) : nodes[k].number = m /\ nodes[k].key = KeyOf(m)
    BY <1>8 DEF Has
  <2>2. m \in Introduced(r, i)
    BY <1>3, <2>1 DEF NodesFacts
  <2>3. /\ r.nodes \in Seq(NodeEntry) /\ DistinctNumbers(r.nodes) /\ nodes \in Seq(NodeEntry)
    BY <1>1, <1>3 DEF NodesFacts
  <2>4. k \in 1..Len(r.nodes) /\ r.nodes[k].number = m /\ r.nodes[k].key = KeyOf(m)
    BY <1>4, <2>1, <2>3 DEF Listed
  <2>5. PositionOf(r.nodes, m) = k
    BY <2>3, <2>4, PositionIs
  <2>6. r.nodes[k] \in NodeEntry
    BY <2>3, <2>4, ElementOfSeq
  <2>7. m \in Numbers
    BY <2>4, <2>6, RosterChainAssumption DEF NodeEntry, AllKeys, AllNumbers, KeyOf
  <2> QED  BY <2>2, <2>4, <2>5, <2>7 DEF KeyIn
<1> QED  BY <1>6, <1>7, <1>8

\* What signing step i says of node k: it joined, or it endorsed somebody it had
\* paired with.
Joined(r, i, k) ==
    LET a == r.addenda[i]
    IN  a.new_node = k /\ a.endorser \in Numbers /\ KeyIn(r, a.endorser) = a.endorser
Endorsed(r, i, k) ==
    LET a == r.addenda[i]
    IN  /\ a.endorser = k /\ KeyIn(r, k) = k
        /\ \E n \in Introduced(r, i) \cap Numbers :
              n # k /\ KeyIn(r, n) = n /\ NoncesOf(a, n, k)

\* A node's signature on an activation was given by it, after its checks.
LEMMA SignerRole ==
    ASSUME ChainInv, NEW r, GoodRoster(signed, r), r.version >= 1, Reconstructed(r, Walk(r)),
           NEW i \in 1..Len(r.addenda), r.addenda[i].kind = "activation",
           NEW k \in Numbers,
           \/ r.addenda[i].new_node_signature = Sign(k, AsSigned(r, i))
           \/ r.addenda[i].endorser_signature = Sign(k, AsSigned(r, i))
    PROVE  SignedBy(k, r, i) /\ (Joined(r, i, k) \/ Endorsed(r, i, k))
<1> DEFINE a == r.addenda[i]
           w == AsSigned(r, i)
<1>1. RosterShape(r)
  BY GoodShape
<1>2. ActivationShape(a) /\ a.kind = "activation"
  BY <1>1, AddendumKinds
<1>3. UnforgedAddendum(signed, a)
  <2>1. PICK S : r.addenda \in Seq(S) /\ \A x \in S : GoodAddendum(signed, x)
    BY DEF GoodRoster, GoodAddenda
  <2>2. a \in S  BY <2>1
  <2> QED  BY <2>1, <2>2 DEF GoodAddendum
<1>4. Sign(k, w) \in signed
  <2>1. Unforged(signed, Sign(k, w))
    BY <1>2, <1>3 DEF UnforgedAddendum
  <2> QED  BY <2>1, SignedByNode
<1>5. /\ w.version = i /\ LastAddendum(w) = WithoutSignatures(a)
      /\ \A m \in AllNumbers : Has(w.nodes, m) =>
            m \in Introduced(r, i) /\ KeyIn(r, m) = KeyOf(m) /\ m \in Numbers
  BY <1>1, StepContent
<1> HIDE DEF w
<1>6. /\ LastAddendum(w).kind = "activation" /\ LastAddendum(w).new_node = a.new_node
      /\ LastAddendum(w).endorser = a.endorser /\ LastAddendum(w).nonces = a.nonces
  BY <1>2, <1>5 DEF WithoutSignatures, Activation
<1>7. a.new_node \in AllNumbers /\ a.endorser \in AllNumbers /\ Numbers \subseteq AllNumbers
  BY <1>2 DEF ActivationShape, AllNumbers
<1>8. SignatureFact(pairings, Sign(k, w)) /\ GoodPairings(pairings)
  BY <1>4 DEF ChainInv
<1>9. JoinerSigned(k, w) \/ EndorserSigned(pairings, k, w)
  <2>1. Sign(k, w).by = k /\ Sign(k, w).over = w  BY DEF Sign
  <2>2. w.version >= 1  BY <1>5
  <2> QED  BY <1>6, <1>8, <2>1, <2>2 DEF SignatureFact
<1>10. CASE JoinerSigned(k, w)
  BY <1>4, <1>5, <1>6, <1>7, <1>10 DEF JoinerSigned, Joined, SignedBy, KeyOf, w
<1>11. CASE EndorserSigned(pairings, k, w)
  <2> DEFINE p == a.nonces
             n == pairings[p].new_node
  <2>1. /\ a.endorser = k /\ Has(w.nodes, k) /\ p \in DOMAIN pairings
        /\ pairings[p].endorser = k /\ n # k /\ Has(w.nodes, n)
    BY <1>6, <1>11 DEF EndorserSigned
  <2>2. n \in Numbers
    <3>1. pairings \in Seq(Pairing)  BY <1>8 DEF GoodPairings
    <3>2. p \in 1..Len(pairings)  BY <2>1, <3>1
    <3>3. pairings[p] \in Pairing  BY <3>1, <3>2, ElementOfSeq
    <3> QED  BY <3>3 DEF Pairing
  <2>3. KeyIn(r, k) = k /\ n \in Introduced(r, i) /\ KeyIn(r, n) = n
    BY <1>5, <1>7, <2>1, <2>2 DEF KeyOf
  <2>4. NoncesOf(a, n, k)
    BY <2>1 DEF NoncesOf
  <2> HIDE DEF n, p
  <2>5. Endorsed(r, i, k)
    BY <2>1, <2>2, <2>3, <2>4 DEF Endorsed
  <2> QED  BY <1>4, <2>5 DEF SignedBy, KeyOf, w
<1> QED  BY <1>9, <1>10, <1>11

\* After its first i addenda a roster has only members with their own keys and
\* steps that they signed, or a step went astray before, or none of its members
\* has a node's key.
Clean(r, i) ==
    /\ \A k \in 1..i : OwnStep(r, k)
    /\ \A m \in Introduced(r, i) : m \in Numbers /\ KeyIn(r, m) = m
Astray(r, i) ==
    \E k \in 2..i : Misdirected(r, k) /\ \A j \in 1..(k - 1) : OwnStep(r, j)
Alien(r, i) == \A m \in Introduced(r, i) : KeyIn(r, m) \notin Numbers

\* What a legitimate activation names, and the signatures it carries.
LEMMA ActivationNames ==
    ASSUME NEW r, RosterShape(r), Legitimate(r), NEW i \in 1..Len(r.addenda),
           NEW a, a = r.addenda[i], a.kind = "activation"
    PROVE  /\ a.new_node # a.endorser
           /\ i # 1 => a.endorser \in Introduced(r, i - 1)
           /\ Introduced(r, i) = Introduced(r, i - 1) \cup {a.new_node}
                                    \cup (IF i = 1 THEN {a.endorser} ELSE {})
           /\ a.new_node_signature = Sign(KeyIn(r, a.new_node), AsSigned(r, i))
           /\ a.endorser_signature = Sign(KeyIn(r, a.endorser), AsSigned(r, i))
<1>1. LegitimateStep(r, i) /\ AddendaShape(r.addenda)
  BY DEF Legitimate, RosterShape
<1>2. /\ a.new_node \notin Introduced(r, i - 1) \cup {a.endorser}
      /\ i = 1 \/ a.endorser \in ActiveAfter(r, i - 1)
      /\ a.new_node_signature = Sign(KeyIn(r, a.new_node), AsSigned(r, i))
      /\ a.endorser_signature = Sign(KeyIn(r, a.endorser), AsSigned(r, i))
  BY <1>1 DEF LegitimateStep, KeyIn
<1>3. i # 1 => a.endorser \in Introduced(r, i - 1)
  BY <1>2 DEF ActiveAfter
<1>4. Introduced(r, i) = Introduced(r, i - 1) \cup {a.new_node}
                            \cup (IF i = 1 THEN {a.endorser} ELSE {})
  BY <1>1, ActivationIntroduces
<1> QED  BY <1>2, <1>3, <1>4

\* The first roster is the work of the two nodes it names, or of no node.
LEMMA FirstStep ==
    ASSUME ChainInv, NEW r, GoodRoster(signed, r), Legitimate(r), Reconstructed(r, Walk(r)),
           1 \in 1..Len(r.addenda)
    PROVE  Clean(r, 1) \/ Alien(r, 1)
<1> DEFINE a == r.addenda[1]
           ek == KeyIn(r, a.endorser)
           nk == KeyIn(r, a.new_node)
<1>1. RosterShape(r) /\ r.version >= 1 /\ LegitimateStep(r, 1) /\ AddendaShape(r.addenda)
  BY GoodShape DEF Legitimate, RosterShape
<1>2. Introduced(r, 0) = {} /\ 1 - 1 = 0
  BY <1>1, NobodyBefore
<1>3. a.kind = "activation"
  BY <1>1, <1>2 DEF LegitimateStep, ActiveAfter
<1>4. /\ a.new_node # a.endorser
      /\ Introduced(r, 1) = {a.new_node, a.endorser}
      /\ a.new_node_signature = Sign(nk, AsSigned(r, 1))
      /\ a.endorser_signature = Sign(ek, AsSigned(r, 1))
  BY <1>1, <1>2, <1>3, ActivationNames
<1> HIDE DEF ek, nk
<1>5. CASE ek \in Numbers
  <2>1. SignedBy(ek, r, 1) /\ (Joined(r, 1, ek) \/ Endorsed(r, 1, ek))
    BY <1>1, <1>3, <1>4, <1>5, SignerRole
  <2>2. ~Joined(r, 1, ek)
    BY <1>4 DEF Joined, ek
  <2>3. PICK n \in Introduced(r, 1) \cap Numbers :
           a.endorser = ek /\ n # ek /\ KeyIn(r, n) = n /\ NoncesOf(a, n, ek)
    BY <2>1, <2>2 DEF Endorsed
  <2>4. n = a.new_node /\ nk = n
    BY <1>4, <2>3 DEF nk
  <2>5. SignedBy(nk, r, 1)
    BY <1>1, <1>3, <1>4, <2>3, <2>4, SignerRole
  <2>6. OwnStep(r, 1)
    BY <1>3, <2>1, <2>3, <2>4, <2>5 DEF OwnStep
  <2>7. \A m \in Introduced(r, 1) : m \in Numbers /\ KeyIn(r, m) = m
    BY <1>4, <1>5, <2>3, <2>4 DEF ek
  <2> QED  BY <2>6, <2>7 DEF Clean
<1>6. CASE nk \in Numbers /\ ek \notin Numbers
  <2>1. Joined(r, 1, nk) \/ Endorsed(r, 1, nk)
    BY <1>1, <1>3, <1>4, <1>6, SignerRole
  <2> QED  BY <1>6, <2>1 DEF Joined, Endorsed, ek
<1>7. CASE nk \notin Numbers /\ ek \notin Numbers
  BY <1>4, <1>7 DEF Alien, nk, ek
<1> QED  BY <1>5, <1>6, <1>7

\* A clean roster stays clean, unless an endorser signs for another node.
LEMMA CleanStep ==
    ASSUME ChainInv, NEW r, GoodRoster(signed, r), Legitimate(r), Reconstructed(r, Walk(r)),
           NEW i \in 2..Len(r.addenda), Clean(r, i - 1)
    PROVE  Clean(r, i) \/ Astray(r, i)
<1> DEFINE a == r.addenda[i]
<1>1. /\ RosterShape(r) /\ r.version >= 1 /\ LegitimateStep(r, i) /\ AddendaShape(r.addenda)
      /\ i \in 1..Len(r.addenda) /\ i # 1 /\ Len(r.addenda) \in Nat
  BY GoodShape DEF Legitimate, RosterShape, AddendaShape
<1>2. /\ \A k \in 1..(i - 1) : OwnStep(r, k)
      /\ \A m \in Introduced(r, i - 1) : m \in Numbers /\ KeyIn(r, m) = m
  BY DEF Clean
<1>3. OwnStep(r, i) => \A k \in 1..i : OwnStep(r, k)
  BY <1>1, <1>2
<1>4. CASE a.kind = "activation"
  <2> DEFINE e == a.endorser
             new == a.new_node
  <2>1. /\ new # e /\ e \in Introduced(r, i - 1)
        /\ Introduced(r, i) = Introduced(r, i - 1) \cup {new}
        /\ a.new_node_signature = Sign(KeyIn(r, new), AsSigned(r, i))
        /\ a.endorser_signature = Sign(KeyIn(r, e), AsSigned(r, i))
    BY <1>1, <1>4, ActivationNames
  <2>2. e \in Numbers /\ KeyIn(r, e) = e
    BY <1>2, <2>1
  <2>3. SignedBy(e, r, i) /\ (Joined(r, i, e) \/ Endorsed(r, i, e))
    BY <1>1, <1>4, <2>1, <2>2, SignerRole
  <2>4. PICK n \in Introduced(r, i) \cap Numbers : KeyIn(r, n) = n /\ NoncesOf(a, n, e)
    BY <2>1, <2>3 DEF Joined, Endorsed
  <2>5. CASE n = new
    <3>1. SignedBy(new, r, i)
      BY <1>1, <1>4, <2>1, <2>4, <2>5, SignerRole
    <3>2. OwnStep(r, i)
      BY <1>4, <2>3, <2>4, <2>5, <3>1 DEF OwnStep
    <3>3. \A m \in Introduced(r, i) : m \in Numbers /\ KeyIn(r, m) = m
      BY <1>2, <2>1, <2>4, <2>5
    <3> QED  BY <1>3, <3>2, <3>3 DEF Clean
  <2>6. CASE n # new
    <3>1. n \in Introduced(r, i - 1) \ {new}
      BY <2>1, <2>4, <2>6
    <3>2. Misdirected(r, i)
      BY <1>4, <2>3, <2>4, <3>1 DEF Misdirected
    <3>3. i \in 2..i  BY <1>1
    <3> QED  BY <1>2, <3>2, <3>3 DEF Astray
  <2> QED  BY <2>5, <2>6
<1>5. CASE a.kind # "activation"
  <2> DEFINE k == a.revoker
  <2>1. k \in Introduced(r, i - 1) /\ a.revoker_signature = Sign(KeyIn(r, k), AsSigned(r, i))
    BY <1>1, <1>5 DEF LegitimateStep, ActiveAfter, KeyIn
  <2>2. k \in Numbers /\ KeyIn(r, k) = k
    BY <1>2, <2>1
  <2>3. UnforgedAddendum(signed, a)
    <3>1. PICK S : r.addenda \in Seq(S) /\ \A x \in S : GoodAddendum(signed, x)
      BY DEF GoodRoster, GoodAddenda
    <3>2. a \in S  BY <1>1, <3>1
    <3> QED  BY <3>1, <3>2 DEF GoodAddendum
  <2>4. Sign(k, AsSigned(r, i)) \in signed
    BY <1>5, <2>1, <2>2, <2>3, SignedByNode DEF UnforgedAddendum
  <2>5. OwnStep(r, i)
    BY <1>5, <2>2, <2>4 DEF OwnStep, SignedBy, KeyOf
  <2>6. Introduced(r, i) = Introduced(r, i - 1)
    BY <1>1, <1>5, RevocationRevokes
  <2> QED  BY <1>2, <1>3, <2>5, <2>6 DEF Clean
<1> QED  BY <1>4, <1>5

\* No node comes into a roster without members it could have paired with.
LEMMA AlienStep ==
    ASSUME ChainInv, NEW r, GoodRoster(signed, r), Legitimate(r), Reconstructed(r, Walk(r)),
           NEW i \in 2..Len(r.addenda), Alien(r, i - 1)
    PROVE  Alien(r, i)
<1> DEFINE a == r.addenda[i]
<1>1. /\ RosterShape(r) /\ r.version >= 1 /\ AddendaShape(r.addenda)
      /\ i \in 1..Len(r.addenda) /\ i # 1
  BY GoodShape DEF Legitimate, RosterShape, AddendaShape
<1>2. CASE a.kind = "activation"
  <2> DEFINE ek == KeyIn(r, a.endorser)
             nk == KeyIn(r, a.new_node)
  <2>1. /\ a.endorser \in Introduced(r, i - 1)
        /\ Introduced(r, i) = Introduced(r, i - 1) \cup {a.new_node}
        /\ a.new_node_signature = Sign(nk, AsSigned(r, i))
    BY <1>1, <1>2, ActivationNames
  <2>2. ek \notin Numbers
    BY <2>1 DEF Alien
  <2>3. nk \in Numbers => Joined(r, i, nk) \/ Endorsed(r, i, nk)
    <3> HIDE DEF nk
    <3> QED  BY <1>1, <1>2, <2>1, SignerRole
  <2>4. nk \notin Numbers
    <3> HIDE DEF nk
    <3> QED  BY <2>2, <2>3 DEF Joined, Endorsed
  <2> QED  BY <2>1, <2>4 DEF Alien
<1>3. CASE a.kind # "activation"
  BY <1>1, <1>3, RevocationRevokes DEF Alien
<1> QED  BY <1>2, <1>3

\* So it is with every accepted roster, addendum by addendum.
LEMMA StepsSigned ==
    ASSUME ChainInv, NEW r, GoodRoster(signed, r), r.version >= 1, Reconstructed(r, Walk(r)),
           r.version = Len(r.addenda)
    PROVE  Clean(r, r.version) \/ Astray(r, r.version) \/ Alien(r, r.version)
<1> DEFINE n == r.version
           P == {i \in 0..n : Clean(r, i) \/ Astray(r, i) \/ Alien(r, i)}
<1>0. RosterShape(r) /\ Legitimate(r) /\ n \in Nat /\ n >= 1 /\ n = Len(r.addenda)
  <2>1. RosterShape(r)  BY GoodShape
  <2>2. Len(r.addenda) \in Nat  BY <2>1 DEF RosterShape, AddendaShape
  <2> QED  BY <2>1, <2>2, RebuiltIsLegitimate
<1>1. 0 \in P
  <2>1. Alien(r, 0)
    BY <1>0, NobodyBefore DEF Alien, RosterShape
  <2> QED  BY <1>0, <2>1
<1>2. ASSUME NEW i \in 0..(n - 1), i \in P PROVE i + 1 \in P
  <2>1. i + 1 \in 0..n /\ (i + 1) - 1 = i
    BY <1>0
  <2>2. CASE i = 0
    <3>1. 1 \in 1..Len(r.addenda)  BY <1>0
    <3>2. Clean(r, 1) \/ Alien(r, 1)  BY <1>0, <3>1, FirstStep
    <3> QED  BY <2>1, <2>2, <3>2
  <2>3. CASE i # 0
    <3> DEFINE j == i + 1
    <3>1. j \in 2..Len(r.addenda) /\ j - 1 = i  BY <1>0, <2>3
    <3> HIDE DEF j
    <3>2. Clean(r, i) => Clean(r, j) \/ Astray(r, j)
      BY <1>0, <3>1, CleanStep
    <3>3. Alien(r, i) => Alien(r, j)
      BY <1>0, <3>1, AlienStep
    <3>4. Astray(r, i) => Astray(r, j)
      <4>1. 2..i \subseteq 2..j  BY <3>1
      <4> QED  BY <4>1 DEF Astray
    <3>5. Clean(r, j) \/ Astray(r, j) \/ Alien(r, j)
      BY <1>2, <3>2, <3>3, <3>4
    <3> QED  BY <2>1, <3>5 DEF j
  <2> QED  BY <2>2, <2>3
<1>3. 0..n \subseteq P
  <2> HIDE DEF P
  <2> QED  BY <1>0, <1>1, <1>2, SetInduction
<1>4. n \in 0..n
  BY <1>0
<1> QED  BY <1>3, <1>4

\* The keys that verify_roster returns are those the roster lists.
LEMMA KeysReturned ==
    ASSUME NEW r, RosterShape(r), Reconstructed(r, Walk(r)), NEW m \in DOMAIN VerifiedKeys(r)
    PROVE  m \in Introduced(r, r.version) /\ VerifiedKeys(r)[m] = KeyIn(r, m)
<1> DEFINE N == r.version
           keys == VerifiedKeys(r)
<1>1. NodesFacts(r, N, r.nodes) /\ KeysFacts(r, N, r.nodes, keys)
  BY FullWalk
<1> HIDE DEF N, keys
<1>2. m \in Introduced(r, N) /\ m \in DOMAIN keys
  BY <1>1 DEF KeysFacts, ActiveAfter, keys
<1>3. PICK k \in 1..Len(r.nodes) : r.nodes[k].number = m
  BY <1>1, <1>2 DEF NodesFacts
<1>4. PositionOf(r.nodes, m) = k
  BY <1>1, <1>3, PositionIs DEF NodesFacts
<1> QED  BY <1>1, <1>2, <1>3, <1>4 DEF KeysFacts, KeyIn, N, keys

\* Whatever the hub shows, a roster that a member accepts was signed by the nodes
\* it names, step by step, each activation after a pairing of the two; or else an
\* endorser signed under the nonces of a second pairing of a node that was already
\* in the roster, at the first step that was not so signed.
THEOREM OnlySignedAccepted == Spec => []MembersAcceptOnlySigned
<1>1. ChainInv => MembersAcceptOnlySigned
  <2> SUFFICES ASSUME ChainInv, NEW n \in Numbers, VerifyRoster(hub, n, KeyOf(n)) = "Ok"
               PROVE  \/ /\ \A i \in 1..hub.version : OwnStep(hub, i)
                         /\ \A m \in DOMAIN VerifiedKeys(hub) : VerifiedKeys(hub)[m] = KeyOf(m)
                      \/ \E i \in 2..hub.version :
                            Misdirected(hub, i) /\ \A j \in 1..(i - 1) : OwnStep(hub, j)
    BY DEF MembersAcceptOnlySigned
  <2>1. GoodRoster(signed, hub) /\ RosterShape(hub)
    BY GoodShape DEF ChainInv
  <2>2. /\ hub.version >= 1 /\ Len(hub.addenda) = hub.version
        /\ Reconstructed(hub, Walk(hub))
        /\ n \in DOMAIN VerifiedKeys(hub) /\ VerifiedKeys(hub)[n] = n
    BY OkMeans DEF KeyOf
  <2>3. \A m \in DOMAIN VerifiedKeys(hub) :
           m \in Introduced(hub, hub.version) /\ VerifiedKeys(hub)[m] = KeyIn(hub, m)
    BY <2>1, <2>2, KeysReturned
  <2>4. ~Alien(hub, hub.version)
    BY <2>2, <2>3 DEF Alien
  <2>5. Clean(hub, hub.version) \/ Astray(hub, hub.version)
    BY <2>1, <2>2, <2>4, StepsSigned
  <2>6. CASE Clean(hub, hub.version)
    BY <2>3, <2>6 DEF Clean, KeyOf
  <2>7. CASE Astray(hub, hub.version)
    BY <2>7 DEF Astray
  <2> QED  BY <2>5, <2>6, <2>7
<1> QED  BY <1>1, ChainInvariant, PTL

\* verify_roster refuses a roster that was not made by legitimate steps.
LEMMA RefusesOthers ==
    ASSUME NEW r, RosterShape(r), ~Legitimate(r), NEW n, NEW key
    PROVE  VerifyRoster(r, n, key) = "Invalid"
<1>1. r.version < 1 \/ Len(r.addenda) # r.version \/ ~Reconstructed(r, Walk(r))
  <2> SUFFICES ASSUME ~(r.version < 1), Reconstructed(r, Walk(r)) PROVE FALSE
    OBVIOUS
  <2>1. r.version >= 1  BY DEF RosterShape
  <2> QED  BY <2>1, RebuiltIsLegitimate
<1> QED  BY <1>1 DEF VerifyRoster

\* The forward walk of verify_roster answers every verifier what the roster's
\* history deserves, for every roster the hub can show.
THEOREM WalkMatchesHistory == Spec => []VerifyMatchesHistory
<1>1. ChainInv => VerifyMatchesHistory
  <2> SUFFICES ASSUME ChainInv, NEW n \in Numbers
               PROVE  VerifyRoster(hub, n, KeyOf(n)) =
                        IF ~Legitimate(hub) THEN "Invalid"
                        ELSE IF n \in RevokedIn(hub, hub.version) THEN "VerifierRevoked"
                        ELSE IF n \notin Introduced(hub, hub.version) THEN "VerifierNotInRoster"
                        ELSE IF hub.nodes[PositionOf(hub.nodes, n)].key = KeyOf(n)
                             THEN "Ok" ELSE "VerifierKeyMismatch"
    BY DEF VerifyMatchesHistory
  <2>1. RosterShape(hub)
    BY GoodShape DEF ChainInv
  <2>2. CASE Legitimate(hub)
    BY <2>1, <2>2, AnswerOfHistory
  <2>3. CASE ~Legitimate(hub)
    BY <2>1, <2>3, RefusesOthers
  <2> QED  BY <2>2, <2>3
<1> QED  BY <1>1, ChainInvariant, PTL
=============================================================================
