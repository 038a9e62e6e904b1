-------------------------- MODULE MembershipProofs --------------------------
(***************************************************************************)
(* Nodes and their hub, for any number of devices, numbers, versions,      *)
(* pairings and faults.                                                    *)
(*                                                                         *)
(* Every roster that a device keeps, has fetched or has built upon is a    *)
(* prefix of the one that the hub stores, so a request whose base has the  *)
(* length of the stored roster is built on just that one.  What a device   *)
(* knows of its number stays true: a prefix remains one, a retired number  *)
(* is retired for good, a number that was taken off the hub's register     *)
(* does not return to it, and no other device ever holds it.               *)
(*                                                                         *)
(* The first part is about the abstract specification that the devices and *)
(* the hub implement: what it guarantees of a group's membership.          *)
(***************************************************************************)
EXTENDS Membership, FiniteSetTheorems, SequenceTheorems, TLAPS

-----------------------------------------------------------------------------
(* The abstract specification: how one more change affects what a roster says. *)

\* An activation lists its node, and the endorser too if it comes first; nobody
\* is retired by it.
LEMMA AfterActivation ==
    ASSUME NEW S, NEW seq \in Seq(Changes(S)), NEW n \in S, NEW e \in S
    PROVE  /\ Listed(Append(seq, Activated(n, e))) =
                Listed(seq) \cup {n} \cup (IF seq = <<>> THEN {e} ELSE {})
           /\ Retired(Append(seq, Activated(n, e))) = Retired(seq)
<1> DEFINE next == Append(seq, Activated(n, e))
<1>1. /\ DOMAIN next = 1..(Len(seq) + 1)
      /\ DOMAIN seq = 1..Len(seq)
      /\ Len(seq) \in Nat
      /\ \A i \in 1..Len(seq) : next[i] = seq[i]
      /\ next[Len(seq) + 1] = Activated(n, e)
      /\ seq = <<>> <=> Len(seq) = 0
  BY DEF Activated, Changes
<1>2. Activated(n, e).kind = "activation" /\ Activated(n, e).node = n
      /\ Activated(n, e).by = e
  BY DEF Activated
<1> HIDE DEF next
<1>3. Listed(next) = Listed(seq) \cup {n} \cup (IF seq = <<>> THEN {e} ELSE {})
  BY <1>1, <1>2 DEF Listed
<1>4. Retired(next) = Retired(seq)
  BY <1>1, <1>2 DEF Retired
<1> QED  BY <1>3, <1>4 DEF next

\* A revocation that is not the first change lists nobody and retires its node.
LEMMA AfterRevocation ==
    ASSUME NEW S, NEW seq \in Seq(Changes(S)), seq # <<>>, NEW x \in S, NEW r \in S
    PROVE  /\ Listed(Append(seq, RevokedBy(x, r))) = Listed(seq)
           /\ Retired(Append(seq, RevokedBy(x, r))) = Retired(seq) \cup {x}
<1> DEFINE next == Append(seq, RevokedBy(x, r))
<1>1. /\ DOMAIN next = 1..(Len(seq) + 1)
      /\ DOMAIN seq = 1..Len(seq)
      /\ Len(seq) \in Nat \ {0}
      /\ \A i \in 1..Len(seq) : next[i] = seq[i]
      /\ next[Len(seq) + 1] = RevokedBy(x, r)
  BY DEF RevokedBy, Changes
<1>2. RevokedBy(x, r).kind = "revocation" /\ RevokedBy(x, r).node = x
  BY DEF RevokedBy
<1> HIDE DEF next
<1>3. Listed(next) = Listed(seq)
  BY <1>1, <1>2 DEF Listed
<1>4. Retired(next) = Retired(seq) \cup {x}
  BY <1>1, <1>2 DEF Retired
<1> QED  BY <1>3, <1>4 DEF next

\* An empty roster lists nobody.
LEMMA NobodyAtFirst == Listed(<<>>) = {} /\ Retired(<<>>) = {}
  BY DEF Listed, Retired

-----------------------------------------------------------------------------
(* The inductive invariant. *)

GroupInv == LogTypeOK /\ NeverEmpty /\ OneLife

\* The initial state satisfies the invariant.
LEMMA GroupInvAtFirst == GroupInit => GroupInv
<1> SUFFICES ASSUME GroupInit PROVE GroupInv  OBVIOUS
<1>1. log = <<>> /\ Len(log) = 0  BY DEF GroupInit
<1>2. LogTypeOK  BY <1>1, GroupAssumption DEF LogTypeOK
<1>3. NeverEmpty  BY <1>1 DEF NeverEmpty
<1>4. OneLife  BY <1>1 DEF OneLife
<1> QED  BY <1>2, <1>3, <1>4 DEF GroupInv

\* Appending an activation of a number that is not listed preserves it.
LEMMA ActivationKeepsInv ==
    ASSUME GroupInv, Len(log) < MaxVersion, NEW n \in Numbers, NEW e \in Numbers, n # e,
           n \notin Listed(log), log = <<>> \/ e \in Active(log),
           log' = Append(log, Activated(n, e))
    PROVE  GroupInv'
<1>1. /\ log \in Seq(Changes(Numbers)) /\ Len(log) \in Nat
      /\ Activated(n, e) \in Changes(Numbers)
      /\ Activated(n, e).kind = "activation"
      /\ Activated(n, e).node = n /\ Activated(n, e).by = e
  BY DEF GroupInv, LogTypeOK, Activated, Changes
<1>2. /\ log' \in Seq(Changes(Numbers))
      /\ Len(log') = Len(log) + 1
      /\ \A i \in 1..Len(log) : log'[i] = log[i]
      /\ log'[Len(log) + 1] = Activated(n, e)
  BY <1>1
<1>3. LogTypeOK'
  BY <1>1, <1>2, GroupAssumption DEF LogTypeOK
<1>4. e \in Active(log')
  <2>1. /\ Listed(log') = Listed(log) \cup {n} \cup (IF log = <<>> THEN {e} ELSE {})
        /\ Retired(log') = Retired(log)
    BY <1>1, AfterActivation
  <2> QED  BY <2>1, NobodyAtFirst DEF Active
<1>5. NeverEmpty'
  BY <1>4 DEF NeverEmpty
<1>6. \A i \in 1..Len(log) : log[i].kind = "activation" => log[i].node # n
  BY <1>1 DEF Listed
<1>7. log # <<>> => log[1].by # n /\ 1 \in 1..Len(log)
  BY <1>1 DEF Listed
<1>8. OneLife'
  <2>1. ASSUME NEW i \in 1..Len(log'), NEW j \in 1..Len(log'), i < j,
               log'[i].kind = log'[j].kind
        PROVE  log'[i].node # log'[j].node
    <3>1. i \in 1..Len(log) /\ log'[i] = log[i]
      BY <1>1, <1>2, <2>1
    <3>2. CASE j \in 1..Len(log)
      BY <3>1, <3>2, <1>2, <2>1 DEF GroupInv, OneLife
    <3>3. CASE j = Len(log) + 1
      BY <3>1, <3>3, <1>1, <1>2, <1>6, <2>1
    <3> QED  BY <3>2, <3>3, <1>1, <1>2
  <2>2. ASSUME NEW i \in 1..Len(log'), log'[i].kind = "activation"
        PROVE  log'[i].node # log'[1].by
    <3>1. CASE log = <<>>
      <4>1. i = 1 /\ log'[1] = Activated(n, e)  BY <3>1, <1>2
      <4> QED  BY <4>1, <1>1
    <3>2. CASE log # <<>>
      <4>1. log'[1] = log[1]  BY <3>2, <1>2, <1>7
      <4>2. CASE i \in 1..Len(log)
        BY <4>1, <4>2, <1>2, <2>2 DEF GroupInv, OneLife
      <4>3. CASE i = Len(log) + 1
        BY <4>1, <4>3, <3>2, <1>1, <1>2, <1>7
      <4> QED  BY <4>2, <4>3, <1>1, <1>2
    <3> QED  BY <3>1, <3>2
  <2> QED  BY <2>1, <2>2 DEF OneLife
<1> QED  BY <1>3, <1>5, <1>8 DEF GroupInv

\* Appending a revocation of a member, with another member left, preserves it.
LEMMA RevocationKeepsInv ==
    ASSUME GroupInv, Len(log) < MaxVersion, NEW x \in Numbers, NEW r \in Numbers,
           x \in Active(log), Active(log) # {x},
           log' = Append(log, RevokedBy(x, r))
    PROVE  GroupInv'
<1>1. /\ log \in Seq(Changes(Numbers)) /\ Len(log) \in Nat
      /\ RevokedBy(x, r) \in Changes(Numbers)
      /\ RevokedBy(x, r).kind = "revocation" /\ RevokedBy(x, r).node = x
  BY DEF GroupInv, LogTypeOK, RevokedBy, Changes
<1>2. /\ log' \in Seq(Changes(Numbers))
      /\ Len(log') = Len(log) + 1
      /\ \A i \in 1..Len(log) : log'[i] = log[i]
      /\ log'[Len(log) + 1] = RevokedBy(x, r)
  BY <1>1
<1>3. log # <<>> /\ 1 \in 1..Len(log)
  BY <1>1, NobodyAtFirst DEF Active
<1>4. LogTypeOK'
  BY <1>1, <1>2, GroupAssumption DEF LogTypeOK
<1>5. NeverEmpty'
  <2>1. Listed(log') = Listed(log) /\ Retired(log') = Retired(log) \cup {x}
    BY <1>1, <1>3, AfterRevocation
  <2>2. PICK y \in Active(log) : y # x
    OBVIOUS
  <2>3. y \in Active(log')
    BY <2>1, <2>2 DEF Active
  <2> QED  BY <2>3 DEF NeverEmpty
<1>6. \A i \in 1..Len(log) : log[i].kind = "revocation" => log[i].node # x
  BY <1>1 DEF Active, Retired
<1>7. OneLife'
  <2>1. ASSUME NEW i \in 1..Len(log'), NEW j \in 1..Len(log'), i < j,
               log'[i].kind = log'[j].kind
        PROVE  log'[i].node # log'[j].node
    <3>1. i \in 1..Len(log) /\ log'[i] = log[i]
      BY <1>1, <1>2, <2>1
    <3>2. CASE j \in 1..Len(log)
      BY <3>1, <3>2, <1>2, <2>1 DEF GroupInv, OneLife
    <3>3. CASE j = Len(log) + 1
      BY <3>1, <3>3, <1>1, <1>2, <1>6, <2>1
    <3> QED  BY <3>2, <3>3, <1>1, <1>2
  <2>2. ASSUME NEW i \in 1..Len(log'), log'[i].kind = "activation"
        PROVE  log'[i].node # log'[1].by
    <3>1. i \in 1..Len(log)
      BY <1>1, <1>2, <2>2
    <3> QED  BY <3>1, <1>2, <1>3, <2>2 DEF GroupInv, OneLife
  <2> QED  BY <2>1, <2>2 DEF OneLife
<1> QED  BY <1>4, <1>5, <1>7 DEF GroupInv

\* Every step, and a stuttering one, preserves the invariant.
LEMMA GroupStepKeepsInv == GroupInv /\ [GroupNext]_log => GroupInv'
<1> SUFFICES ASSUME GroupInv, [GroupNext]_log PROVE GroupInv'  OBVIOUS
<1>1. CASE UNCHANGED log
  BY <1>1 DEF GroupInv, LogTypeOK, NeverEmpty, OneLife
<1>2. CASE GroupNext
  <2> USE <1>2
  <2>0. Len(log) < MaxVersion  BY DEF GroupNext
  <2>1. ASSUME NEW n \in Numbers, NEW e \in Numbers, Found(n, e) PROVE GroupInv'
    <3>1. n \notin Listed(log) /\ log' = Append(log, Activated(n, e))
      BY <2>1, NobodyAtFirst DEF Found
    <3> QED  BY <2>0, <2>1, <3>1, ActivationKeepsInv DEF Found
  <2>2. ASSUME NEW n \in Numbers, NEW e \in Numbers, Endorse(n, e) PROVE GroupInv'
    <3>1. n # e  BY <2>2 DEF Endorse, Active
    <3> QED  BY <2>0, <2>2, <3>1, ActivationKeepsInv DEF Endorse
  <2>3. ASSUME NEW x \in Numbers, NEW r \in Numbers, Expel(x, r) PROVE GroupInv'
    <3>1. x \in Active(log) /\ Active(log) # {x}  BY <2>3 DEF Expel
    <3> QED  BY <2>0, <2>3, <3>1, RevocationKeepsInv DEF Expel
  <2>4. ASSUME NEW x \in Numbers, Leave(x) PROVE GroupInv'
    BY <2>0, <2>4, RevocationKeepsInv DEF Leave
  <2> QED  BY <2>1, <2>2, <2>3, <2>4 DEF GroupNext
<1> QED  BY <1>1, <1>2

-----------------------------------------------------------------------------
\* The roster always has its type (a sequence of changes within the bound).
THEOREM GroupTypeOK == GroupSpec => []LogTypeOK
<1>1. GroupInv => LogTypeOK  BY DEF GroupInv
<1> QED  BY <1>1, GroupInvAtFirst, GroupStepKeepsInv, PTL DEF GroupSpec

\* A founded group never loses its last member, whoever leaves or is expelled
\* (the LastActiveNode check of logout).
THEOREM GroupNeverEmpty == GroupSpec => []NeverEmpty
<1>1. GroupInv => NeverEmpty  BY DEF GroupInv
<1> QED  BY <1>1, GroupInvAtFirst, GroupStepKeepsInv, PTL DEF GroupSpec

\* A number is activated once and revoked at most once: a retired number never
\* returns.
THEOREM GroupOneLife == GroupSpec => []OneLife
<1>1. GroupInv => OneLife  BY DEF GroupInv
<1> QED  BY <1>1, GroupInvAtFirst, GroupStepKeepsInv, PTL DEF GroupSpec

-----------------------------------------------------------------------------
(* The devices and the hub. *)

USE MembershipAssumption, GroupAssumption

States == {"Down", "Pending", "Registered", "Activated", "Revoked"}
Places == {"idle", "save", "pair", "fetch", "await", "deregister", "delete"}

\* Number k was assigned to device d.
Owned(k, d) == k \in Assigned /\ owner[k] = d

\* The roster is an older version of the group's, and k is active in it.
MemberIn(k, roster) == IsRoster(roster) /\ IsPrefix(roster, log) /\ k \in Active(roster)

\* A request is built on an older version of the roster by the device that owns
\* its number; one that asks to leave is built on a roster with another member.
RequestOK(q) ==
    /\ q.device \in Devices /\ Owned(q.number, q.device)
    /\ IsRoster(q.base) /\ IsPrefix(q.base, log)
    /\ q.change \in Changes(Assigned)
    /\ q.change.kind = "revocation" /\ q.change.node = q.change.by =>
         Active(q.base) # {q.change.node}

HubOK ==
    /\ IsRoster(log) /\ Retired(log) \subseteq Listed(log)
    /\ registered \subseteq Assigned /\ removed \subseteq Assigned \ registered
    /\ owner \in Seq(Devices) /\ Len(owner) <= MaxNumber
    /\ cosigned \subseteq requests
    /\ \A q \in requests : RequestOK(q)
    /\ attempts \in 0..MaxAttempts /\ faults \in 0..MaxFaults
    /\ \A p \in pending : p.endorser \in Assigned /\ p.node \in Assigned

\* The device holds only numbers that were assigned to it, and its node is what
\* the hub's roster says of its number, or once said.
NodeOK(d) ==
    /\ \A k \in {disk[d], node[d].number, session[d]} \ {NoNumber} : Owned(k, d)
    /\ DOMAIN node[d] = {"state", "number", "cache"}
    /\ node[d].state \in States /\ IsRoster(node[d].cache)
    /\ node[d].number = NoNumber <=> node[d].state \in {"Down", "Pending"}
    /\ node[d].state = "Revoked" => node[d].number \in Retired(log)
    /\ node[d].state = "Activated" =>
         /\ MemberIn(node[d].number, node[d].cache)
         /\ node[d].number \in registered \cup removed \cup Retired(log)

\* A lookup is under way only at an activated node that does nothing else, or
\* revokes a node.
PeekOK(d) ==
    peek[d] # NoRoster =>
        /\ node[d].state = "Activated" /\ MemberIn(node[d].number, peek[d])
        /\ op[d].pc = "idle" \/ (op[d].pc = "await" /\ op[d].then = "revoke")

\* What the operation waits for is its own request; an answer that it gets is true.
AwaitOK(d) ==
    LET q == op[d].req
        k == node[d].number
    IN  /\ RequestOK(q) /\ q.device = d /\ q.number = k
        /\ op[d].then \in {"activate", "revoke", "logout"}
        /\ op[d].answer \in {"none", "ok", "error", "unauthenticated"}
        /\ op[d].then = "activate" =>
             /\ node[d].state = "Registered" /\ k \in registered \cup removed
             /\ q.change.kind = "activation" /\ q.change.node = k
        /\ op[d].then # "activate" =>
             node[d].state = "Activated" /\ q.change.kind = "revocation" /\ q.change.by = k
        /\ op[d].then = "revoke" => q.change.node # k
        /\ op[d].then = "logout" => q.change.node = k
        /\ op[d].answer = "ok" =>
             /\ IsRoster(Append(q.base, q.change))
             /\ IsPrefix(Append(q.base, q.change), log)
             /\ k \in IF op[d].then = "logout" THEN Retired(log)
                      ELSE Active(Append(q.base, q.change))
        /\ op[d].answer = "unauthenticated" => k \notin registered

Fields(pc) ==
    {"pc"} \cup CASE pc = "save" -> {"number"}
                   [] pc \in {"pair", "fetch"} -> {"endorser", "nonce"}
                   [] pc = "await" -> {"req", "then", "answer"}
                   [] OTHER -> {}

\* The operation in progress fits the state of the node.
OpOK(d) ==
    /\ op[d].pc \in Places /\ DOMAIN op[d] = Fields(op[d].pc)
    /\ op[d].pc = "idle" => op[d] = Idle
    /\ node[d].state = "Down" => op[d] = Idle
    /\ op[d].pc = "save" =>
         node[d].state = "Pending" /\ op[d].number # NoNumber /\ Owned(op[d].number, d)
    /\ op[d].pc \in {"pair", "fetch"} =>
         node[d].state = "Registered" /\ op[d].endorser \in Assigned
    /\ op[d].pc = "await" => AwaitOK(d)
    /\ op[d].pc = "deregister" =>
         /\ node[d].state \in {"Registered", "Activated", "Revoked"}
         /\ node[d].state = "Activated" => node[d].number \in Retired(log)
    /\ op[d].pc = "delete" /\ node[d].number # NoNumber =>
         /\ node[d].number \notin registered
         /\ node[d].state = "Activated" => node[d].number \in Retired(log) \cup removed

\* The variables that have a value for each device.
Shape ==
    /\ DOMAIN disk = Devices /\ DOMAIN node = Devices /\ DOMAIN op = Devices
    /\ DOMAIN peek = Devices /\ DOMAIN session = Devices

DeviceOK(d) == NodeOK(d) /\ PeekOK(d) /\ OpOK(d)

MembershipInv == HubOK /\ Shape /\ \A d \in Devices : DeviceOK(d)

-----------------------------------------------------------------------------
(* Rosters and their prefixes *)

\* A prefix of a sequence has its elements as far as it goes.
LEMMA PrefixElements ==
    ASSUME NEW S, NEW s \in Seq(S), NEW t \in Seq(S)
    PROVE  IsPrefix(s, t) <=> Len(s) <= Len(t) /\ \A i \in 1..Len(s) : s[i] = t[i]
<1>1. /\ Len(s) \in Nat /\ Len(t) \in Nat
      /\ \A i \in 1..Len(s) : s[i] \in S
      /\ \A i \in 1..Len(t) : t[i] \in S
  OBVIOUS
<1>2. SubSeq(s, 1, Len(s)) = s  BY SubSeqFull
<1>3. ASSUME Len(s) <= Len(t)
      PROVE  /\ SubSeq(t, 1, Len(s)) \in Seq(S) /\ Len(SubSeq(t, 1, Len(s))) = Len(s)
             /\ \A i \in 1..Len(s) : SubSeq(t, 1, Len(s))[i] = t[i]
  BY <1>1, <1>3
<1>4. ASSUME IsPrefix(s, t) PROVE Len(s) <= Len(t) /\ \A i \in 1..Len(s) : s[i] = t[i]
  <2>1. Len(s) <= Len(t) /\ s = SubSeq(t, 1, Len(s))  BY <1>2, <1>4 DEF IsPrefix
  <2> QED  BY <1>3, <2>1
<1>5. ASSUME Len(s) <= Len(t), \A i \in 1..Len(s) : s[i] = t[i] PROVE IsPrefix(s, t)
  <2>1. SubSeq(t, 1, Len(s)) = s  BY <1>1, <1>3, <1>5, SeqEqual
  <2> QED  BY <1>2, <1>5, <2>1 DEF IsPrefix
<1> QED  BY <1>4, <1>5

\* A roster is a version of itself, an older version is one of every later one too,
\* and the only one of the same length is the roster itself.
LEMMA PrefixFacts ==
    ASSUME NEW S, NEW s \in Seq(S), NEW t \in Seq(S), NEW c \in S
    PROVE  /\ IsPrefix(t, t)
           /\ IsPrefix(s, t) => IsPrefix(s, Append(t, c))
           /\ IsPrefix(s, t) /\ Len(s) = Len(t) => s = t
<1>1. /\ Append(t, c) \in Seq(S) /\ Len(Append(t, c)) = Len(t) + 1
      /\ Len(s) \in Nat /\ Len(t) \in Nat
      /\ \A i \in 1..Len(t) : Append(t, c)[i] = t[i]
  OBVIOUS
<1>2. IsPrefix(t, t)  BY <1>1, PrefixElements
<1>3. ASSUME IsPrefix(s, t) PROVE IsPrefix(s, Append(t, c))
  <2>1. Len(s) <= Len(t) /\ \A i \in 1..Len(s) : s[i] = t[i]  BY <1>3, PrefixElements
  <2>2. Len(s) <= Len(Append(t, c)) /\ \A i \in 1..Len(s) : s[i] = Append(t, c)[i]
    BY <1>1, <2>1
  <2> QED  BY <1>1, <2>2, PrefixElements
<1>4. ASSUME IsPrefix(s, t), Len(s) = Len(t) PROVE s = t
  <2>1. \A i \in 1..Len(s) : s[i] = t[i]  BY <1>4, PrefixElements
  <2> QED  BY <1>4, <2>1, SeqEqual
<1> QED  BY <1>2, <1>3, <1>4

\* A change has one of two forms.
LEMMA ChangeForms ==
    ASSUME NEW S, NEW c \in Changes(S)
    PROVE  /\ c.node \in S /\ c.by \in S
           /\ \/ c.kind = "activation" /\ c = Activated(c.node, c.by)
              \/ c.kind = "revocation" /\ c = RevokedBy(c.node, c.by)
  BY DEF Changes, Activated, RevokedBy

\* What a legal change does to the membership: nobody that was retired returns.
LEMMA AfterLegalChange ==
    ASSUME NEW S, NEW seq \in Seq(Changes(S)), NEW c \in Changes(S), LegalChange(seq, c),
           Retired(seq) \subseteq Listed(seq)
    PROVE  /\ Retired(seq) \subseteq Retired(Append(seq, c))
           /\ Retired(Append(seq, c)) \subseteq Listed(Append(seq, c))
           /\ c.kind = "activation" => c.node \in Active(Append(seq, c))
           /\ c.kind = "revocation" =>
                /\ c.node \in Retired(Append(seq, c))
                /\ c.by # c.node => c.by \in Active(Append(seq, c))
<1>1. /\ c.node \in S /\ c.by \in S
      /\ \/ c.kind = "activation" /\ c = Activated(c.node, c.by)
         \/ c.kind = "revocation" /\ c = RevokedBy(c.node, c.by)
  BY ChangeForms
<1>2. CASE c.kind = "activation"
  <2>1. /\ Listed(Append(seq, c)) =
                Listed(seq) \cup {c.node} \cup (IF seq = <<>> THEN {c.by} ELSE {})
        /\ Retired(Append(seq, c)) = Retired(seq)
    BY <1>1, <1>2, AfterActivation
  <2> QED  BY <1>2, <2>1 DEF LegalChange, Active
<1>3. CASE c.kind = "revocation"
  <2>1. {c.node, c.by} \subseteq Active(seq)  BY <1>3 DEF LegalChange
  <2>2. seq # <<>>  BY <2>1, NobodyAtFirst DEF Active
  <2>3. /\ Listed(Append(seq, c)) = Listed(seq)
        /\ Retired(Append(seq, c)) = Retired(seq) \cup {c.node}
    BY <1>1, <1>3, <2>2, AfterRevocation
  <2> QED  BY <1>3, <2>1, <2>3 DEF Active
<1> QED  BY <1>1, <1>2, <1>3

-----------------------------------------------------------------------------
(* What a step of the hub leaves true *)

\* Numbers are not assigned again, the roster only gains versions, and a number that
\* is not registered does not become so.
HubFollows ==
    /\ Assigned \subseteq Assigned' /\ \A k \in Assigned : owner'[k] = owner[k]
    /\ \A r : IsRoster(r) /\ IsPrefix(r, log) => IsPrefix(r, log')
    /\ Retired(log) \subseteq Retired(log')
    /\ removed \subseteq removed'
    /\ \A k \in Assigned : k \notin registered => k \notin registered'

\* The number stays registered, or was removed at the hub.
Kept(k) == k \in registered => k \in registered' \cup removed'

\* A roster is one still when more numbers have been assigned.
LEMMA RosterStays ==
    ASSUME HubFollows, NEW r, IsRoster(r)
    PROVE  r \in Seq(Changes(Assigned')) /\ Len(r) <= MaxVersion
<1>1. Changes(Assigned) \subseteq Changes(Assigned')  BY DEF HubFollows, Changes
<1> QED  BY <1>1, SeqMonotonic DEF IsRoster

\* So is what is known of a member,
LEMMA MemberStays ==
    ASSUME HubFollows, NEW k, NEW r, MemberIn(k, r) PROVE MemberIn(k, r)'
<1>1. IsRoster(r)'  BY RosterStays DEF MemberIn, IsRoster
<1> QED  BY <1>1 DEF MemberIn, HubFollows

\* and of a request.
LEMMA RequestStays ==
    ASSUME HubFollows, NEW q, RequestOK(q) PROVE RequestOK(q)'
<1>1. IsRoster(q.base)'  BY RosterStays DEF RequestOK, IsRoster
<1>2. Owned(q.number, q.device)'  BY DEF RequestOK, Owned, HubFollows
<1>3. q.change \in Changes(Assigned')  BY DEF RequestOK, HubFollows, Changes
<1> QED  BY <1>1, <1>2, <1>3 DEF RequestOK, HubFollows

\* What a device holds remains its own,
LEMMA NodeStays ==
    ASSUME HubFollows, NEW d \in Devices, NodeOK(d), Kept(node[d].number),
           disk'[d] = disk[d], node'[d] = node[d], session'[d] = session[d]
    PROVE  NodeOK(d)'
<1>1. \A k : Owned(k, d) => Owned(k, d)'  BY DEF Owned, HubFollows
<1>2. IsRoster(node[d].cache)'  BY RosterStays DEF NodeOK, IsRoster
<1>3. node[d].state = "Activated" => MemberIn(node[d].number, node[d].cache)'
  BY MemberStays DEF NodeOK, MemberIn
<1>4. node[d].state = "Activated" =>
        node[d].number \in registered' \cup removed' \cup Retired(log')
  BY <1>1 DEF NodeOK, HubFollows, Kept
<1>5. node[d].state = "Revoked" => node[d].number \in Retired(log')
  BY DEF NodeOK, HubFollows
<1> QED  BY <1>1, <1>2, <1>3, <1>4, <1>5 DEF NodeOK, IsRoster, MemberIn

\* the roster that a lookup has fetched remains one in which the node is active,
LEMMA PeekStays ==
    ASSUME HubFollows, NEW d \in Devices, PeekOK(d),
           node'[d] = node[d], peek'[d] = peek[d], op'[d] = op[d]
    PROVE  PeekOK(d)'
<1>1. peek[d] # NoRoster => MemberIn(node[d].number, peek[d])'
  BY MemberStays DEF PeekOK, MemberIn
<1> QED  BY <1>1 DEF PeekOK, MemberIn

\* and an operation goes on as before.
LEMMA OpStays ==
    ASSUME HubFollows, NEW d \in Devices, NodeOK(d), OpOK(d), Kept(node[d].number),
           node'[d] = node[d], op'[d] = op[d]
    PROVE  OpOK(d)'
<1>1. node[d].number # NoNumber => node[d].number \in Assigned  BY DEF NodeOK, Owned
<1>2. CASE op[d].pc = "await"
  <2>1. AwaitOK(d)  BY <1>2 DEF OpOK
  <2> DEFINE q == op[d].req
             k == node[d].number
  <2>2. RequestOK(q)' /\ k \in Assigned
    BY <1>1, <2>1, RequestStays DEF AwaitOK, RequestOK, Owned
  <2>3. op[d].answer = "ok" =>
          /\ IsRoster(Append(q.base, q.change))'
          /\ IsPrefix(Append(q.base, q.change), log')
          /\ k \in IF op[d].then = "logout" THEN Retired(log')
                   ELSE Active(Append(q.base, q.change))
    <3> SUFFICES ASSUME op[d].answer = "ok"
                 PROVE  /\ IsRoster(Append(q.base, q.change))'
                        /\ IsPrefix(Append(q.base, q.change), log')
                        /\ k \in IF op[d].then = "logout" THEN Retired(log')
                                 ELSE Active(Append(q.base, q.change))
      OBVIOUS
    <3>1. PICK r : r = Append(q.base, q.change)  OBVIOUS
    <3>2. /\ IsRoster(r) /\ IsPrefix(r, log)
          /\ k \in IF op[d].then = "logout" THEN Retired(log) ELSE Active(r)
      BY <2>1, <3>1 DEF AwaitOK
    <3>3. IsRoster(r)'  BY <3>2, RosterStays DEF IsRoster
    <3>4. IsPrefix(r, log') /\ Retired(log) \subseteq Retired(log')
      BY <3>2 DEF HubFollows
    <3> QED  BY <3>1, <3>2, <3>3, <3>4 DEF IsRoster
  <2>4. op[d].then = "activate" => k \in registered' \cup removed'
    BY <2>1 DEF AwaitOK, HubFollows, Kept
  <2>5. op[d].answer = "unauthenticated" => k \notin registered'
    BY <2>1, <2>2 DEF AwaitOK, HubFollows
  <2>6. AwaitOK(d)'
    BY <2>1, <2>2, <2>3, <2>4, <2>5 DEF AwaitOK, IsRoster, RequestOK
  <2> QED  BY <1>2, <2>6 DEF OpOK
<1>3. CASE op[d].pc = "save"  BY <1>3 DEF OpOK, Owned, HubFollows
<1>4. CASE op[d].pc \in {"pair", "fetch"}  BY <1>4 DEF OpOK, HubFollows
<1>5. CASE op[d].pc \in {"deregister", "delete"}
  BY <1>1, <1>5 DEF OpOK, HubFollows
<1>6. CASE op[d].pc = "idle"  BY <1>6 DEF OpOK
<1> QED  BY <1>2, <1>3, <1>4, <1>5, <1>6 DEF OpOK, Places

\* A step of one device, with what the hub does for it, leaves all in order if it
\* leaves that device in order, the hub too, and the numbers of the others alone.
LEMMA StepOfDevice ==
    ASSUME MembershipInv, HubFollows, HubOK', Shape', NEW d \in Devices, DeviceOK(d)',
           \A e \in Devices \ {d} :
                /\ disk'[e] = disk[e] /\ node'[e] = node[e] /\ op'[e] = op[e]
                /\ peek'[e] = peek[e] /\ session'[e] = session[e]
                /\ Kept(node[e].number)
    PROVE  MembershipInv'
<1>1. ASSUME NEW e \in Devices, e # d PROVE DeviceOK(e)'
  <2>1. DeviceOK(e)  BY DEF MembershipInv
  <2>2. /\ disk'[e] = disk[e] /\ node'[e] = node[e] /\ op'[e] = op[e]
        /\ peek'[e] = peek[e] /\ session'[e] = session[e]
        /\ Kept(node[e].number)
    BY <1>1
  <2> QED  BY <2>1, <2>2, NodeStays, PeekStays, OpStays DEF DeviceOK
<1> QED  BY <1>1 DEF MembershipInv

\* The hub at most takes requests on or drops them; a number keeps its registration.
LEMMA HubQuiet ==
    ASSUME MembershipInv, UNCHANGED <<log, registered, owner, removed>>,
           \A q \in requests' : RequestOK(q), cosigned' \subseteq requests',
           attempts' \in 0..MaxAttempts, faults' \in 0..MaxFaults,
           \A p \in pending' : p.endorser \in Assigned /\ p.node \in Assigned
    PROVE  HubOK' /\ HubFollows /\ \A k : Kept(k)
<1>1. HubFollows /\ \A k : Kept(k)  BY DEF HubFollows, Kept, Assigned
<1>2. \A q \in requests' : RequestOK(q)'  BY <1>1, RequestStays
<1> QED  BY <1>1, <1>2 DEF MembershipInv, HubOK, IsRoster, Assigned

\* The state in which a node is put by a fresh roster is what the roster says.
LEMMA ClassifiedOK ==
    ASSUME HubOK, NEW k, NEW n, n = Classified(k, log)
    PROVE  /\ DOMAIN n = {"state", "number", "cache"} /\ n.number = k
           /\ n.state \in {"Registered", "Activated", "Revoked"} /\ IsRoster(n.cache)
           /\ n.state = "Revoked" => k \in Retired(log)
           /\ n.state = "Activated" => MemberIn(k, n.cache)
<1>1. IsRoster(<<>>)  BY DEF IsRoster
<1>2. IsRoster(log) /\ IsPrefix(log, log)
  <2>1. log \in Seq(Changes(Assigned)) /\ IsRoster(log)  BY DEF HubOK, IsRoster
  <2>2. Len(log) = Len(log) /\ SubSeq(log, 1, Len(log)) = SubSeq(log, 1, Len(log))  OBVIOUS
  <2> QED  BY <2>1, PrefixElements
<1>3. CASE k \notin Listed(log)  BY <1>1, <1>3 DEF Classified, RegisteredNode
<1>4. CASE k \in Active(log)
  BY <1>2, <1>4 DEF Classified, ActivatedNode, MemberIn, Active
<1>5. CASE k \in Listed(log) /\ k \notin Active(log)
  BY <1>1, <1>5 DEF Classified, RevokedNode, Active
<1> QED  BY <1>3, <1>4, <1>5

-----------------------------------------------------------------------------
(* The steps of a device *)

\* Restoring and refreshing: the number is registered, and the roster is the hub's.
LEMMA RestoreInv ==
    ASSUME MembershipInv, NEW d \in Devices, Restore(d) \/ Refresh(d)
    PROVE  MembershipInv'
<1>1. /\ UNCHANGED <<log, registered, owner, requests, cosigned, removed>>
      /\ UNCHANGED <<disk, op, peek, session, pending, attempts, faults>>
  BY DEF Restore, Refresh, hubVars, bounds
<1>2. HubOK' /\ HubFollows /\ \A k : Kept(k)
  BY <1>1, HubQuiet DEF MembershipInv, HubOK
<1>3. DeviceOK(d) /\ HubOK  BY DEF MembershipInv
<1>4. PICK n : node' = [node EXCEPT ![d] = n] /\
               \/ n = PendingNode /\ node[d].state = "Down" /\ disk[d] = NoNumber
               \/ \E k \in registered : /\ n = Classified(k, log) /\ Owned(k, d) /\ k # NoNumber
                                        /\ node[d].state # "Pending"
  <2>1. CASE Restore(d)
    BY <1>3, <2>1 DEF Restore, DeviceOK, NodeOK
  <2>2. CASE Refresh(d)
    <3>1. node[d].number \in registered /\ node[d].number # NoNumber
      BY <1>3, <2>2 DEF Refresh, HubOK, Assigned, NoNumber
    <3>2. Owned(node[d].number, d) /\ node[d].state # "Pending"
      BY <1>3, <3>1 DEF DeviceOK, NodeOK
    <3> QED  BY <2>2, <3>1, <3>2 DEF Refresh
  <2> QED  BY <2>1, <2>2
<1>5. /\ DOMAIN node' = Devices /\ node'[d] = n
      /\ \A e \in Devices \ {d} : node'[e] = node[e]
  BY <1>4 DEF MembershipInv, Shape
<1>6. Shape'  BY <1>1, <1>5 DEF MembershipInv, Shape
<1>7. NodeOK(d)' /\ node'[d].state # "Down"
  <2>1. CASE n = PendingNode /\ disk[d] = NoNumber
    BY <1>1, <1>3, <1>5, <2>1
       DEF PendingNode, NodeOK, DeviceOK, IsRoster, States, Owned, Assigned
  <2>2. ASSUME NEW k \in registered, n = Classified(k, log), Owned(k, d), k # NoNumber
        PROVE  NodeOK(d)' /\ node'[d].state # "Down"
    <3>1. /\ DOMAIN n = {"state", "number", "cache"} /\ n.number = k
          /\ n.state \in {"Registered", "Activated", "Revoked"} /\ IsRoster(n.cache)
          /\ n.state = "Revoked" => k \in Retired(log)
          /\ n.state = "Activated" => MemberIn(k, n.cache)
      BY <1>3, <2>2, ClassifiedOK
    <3>2. \A j \in {disk[d], session[d]} \ {NoNumber} : Owned(j, d)
      BY <1>3 DEF DeviceOK, NodeOK
    <3> QED  BY <1>1, <1>5, <2>2, <3>1, <3>2 DEF NodeOK, IsRoster, MemberIn, Owned, Assigned, States
  <2> QED  BY <1>4, <2>1, <2>2
<1>8. op[d] = Idle /\ peek[d] = NoRoster
  BY <1>3 DEF Restore, Refresh, Exclusive, DeviceOK, OpOK, PeekOK, NodeOK
<1>9. PeekOK(d)' /\ OpOK(d)'
  BY <1>1, <1>3, <1>7, <1>8 DEF PeekOK, OpOK, DeviceOK, Idle, Places, Fields
<1> QED  BY <1>1, <1>2, <1>5, <1>6, <1>7, <1>9, StepOfDevice DEF DeviceOK

\* A node that is Down does nothing.
LEMMA DeleteStateInv ==
    ASSUME MembershipInv, NEW d \in Devices, DeleteState(d) PROVE MembershipInv'
<1>1. /\ UNCHANGED <<log, registered, owner, requests, cosigned, removed>>
      /\ UNCHANGED <<node, op, peek, session, pending, attempts, faults>>
      /\ disk' = [disk EXCEPT ![d] = NoNumber]
  BY DEF DeleteState, hubVars, bounds
<1>2. HubOK' /\ HubFollows /\ \A k : Kept(k)
  BY <1>1, HubQuiet DEF MembershipInv, HubOK
<1>3. /\ disk'[d] = NoNumber /\ \A e \in Devices \ {d} : disk'[e] = disk[e]
      /\ Shape' /\ DeviceOK(d)
  BY <1>1 DEF MembershipInv, Shape
<1>4. NodeOK(d)'
  BY <1>1, <1>3 DEF DeviceOK, NodeOK, MemberIn, IsRoster, Owned, Assigned
<1>5. PeekOK(d)' /\ OpOK(d)'  BY <1>1, <1>2, <1>3, PeekStays, OpStays DEF DeviceOK
<1> QED  BY <1>1, <1>2, <1>3, <1>4, <1>5, StepOfDevice DEF DeviceOK

\* A crash leaves what is on the disk.
LEMMA CrashInv == ASSUME MembershipInv, NEW d \in Devices, Crash(d) PROVE MembershipInv'
<1>1. /\ UNCHANGED <<log, registered, owner, requests, cosigned, removed, disk, attempts>>
      /\ pending' \subseteq pending /\ faults' \in 0..MaxFaults
      /\ node' = [node EXCEPT ![d] = Down] /\ op' = [op EXCEPT ![d] = Idle]
      /\ peek' = [peek EXCEPT ![d] = NoRoster] /\ session' = [session EXCEPT ![d] = NoNumber]
  BY DEF Crash, Fault, PendingElsewhere, hubVars, MembershipInv, HubOK
<1>2. HubOK' /\ HubFollows /\ \A k : Kept(k)
  BY <1>1, HubQuiet DEF MembershipInv, HubOK
<1>3. /\ node'[d] = Down /\ op'[d] = Idle /\ peek'[d] = NoRoster /\ session'[d] = NoNumber
      /\ \A e \in Devices \ {d} :
           /\ node'[e] = node[e] /\ op'[e] = op[e]
           /\ peek'[e] = peek[e] /\ session'[e] = session[e]
      /\ Shape' /\ DeviceOK(d)
  BY <1>1 DEF MembershipInv, Shape
<1>4. NodeOK(d)'
  <2>1. IsRoster(<<>>)'  BY DEF IsRoster
  <2>2. \A k \in {disk[d]} \ {NoNumber} : Owned(k, d)  BY <1>3 DEF DeviceOK, NodeOK
  <2>3. /\ DOMAIN Down = {"state", "number", "cache"} /\ Down.number = NoNumber
        /\ Down.state = "Down" /\ Down.cache = <<>>
    BY DEF Down
  <2> QED  BY <1>1, <1>3, <2>1, <2>2, <2>3 DEF NodeOK, Owned, Assigned, States
<1>5. PeekOK(d)' /\ OpOK(d)'  BY <1>3 DEF PeekOK, OpOK, Idle, Down, Places, Fields
<1> QED  BY <1>1, <1>2, <1>3, <1>4, <1>5, StepOfDevice DEF DeviceOK

\* An operation that is given up leaves the node as it was.
LEMMA GiveUpInv ==
    ASSUME MembershipInv, NEW d \in Devices, Fail(d) \/ ReturnRefusal(d)
    PROVE  MembershipInv'
<1>1. /\ UNCHANGED <<log, registered, owner, requests, cosigned, removed>>
      /\ UNCHANGED <<node, peek, session, pending, attempts>>
      /\ faults' \in 0..MaxFaults /\ op' = [op EXCEPT ![d] = Idle]
      /\ \/ disk' = disk
         \/ disk' = [disk EXCEPT ![d] = NoNumber]
         \/ op[d].pc = "save" /\ disk' = [disk EXCEPT ![d] = op[d].number]
  BY DEF Fail, ReturnRefusal, Fault, hubVars, bounds, MembershipInv, HubOK
<1>2. HubOK' /\ HubFollows /\ \A k : Kept(k)
  BY <1>1, HubQuiet DEF MembershipInv, HubOK
<1>3. /\ op'[d] = Idle /\ \A e \in Devices \ {d} : disk'[e] = disk[e] /\ op'[e] = op[e]
      /\ Shape' /\ DeviceOK(d)
      /\ \/ disk'[d] \in {disk[d], NoNumber}
         \/ op[d].pc = "save" /\ disk'[d] = op[d].number
  BY <1>1 DEF MembershipInv, Shape
<1>4. disk'[d] # NoNumber => Owned(disk'[d], d)
  BY <1>3 DEF DeviceOK, NodeOK, OpOK
<1>5. NodeOK(d)'
  BY <1>1, <1>3, <1>4 DEF DeviceOK, NodeOK, MemberIn, IsRoster, Owned, Assigned
<1>6. PeekOK(d)' /\ OpOK(d)'
  BY <1>1, <1>3
     DEF DeviceOK, PeekOK, OpOK, Idle, Places, Fields, MemberIn, IsRoster, Assigned
<1> QED  BY <1>1, <1>2, <1>3, <1>5, <1>6, StepOfDevice DEF DeviceOK

\* A new session serves the number that the node has.
LEMMA StartServingInv ==
    ASSUME MembershipInv, NEW d \in Devices, StartServing(d) PROVE MembershipInv'
<1>1. /\ UNCHANGED <<log, registered, owner, requests, cosigned, removed>>
      /\ UNCHANGED <<disk, node, op, peek, attempts, faults>>
      /\ pending' \subseteq pending
      /\ session' = [session EXCEPT ![d] = node[d].number]
  BY DEF StartServing, PendingElsewhere, hubVars, bounds
<1>2. HubOK' /\ HubFollows /\ \A k : Kept(k)
  BY <1>1, HubQuiet DEF MembershipInv, HubOK
<1>3. /\ session'[d] = node[d].number
      /\ \A e \in Devices \ {d} : session'[e] = session[e]
      /\ Shape' /\ DeviceOK(d)
  BY <1>1 DEF MembershipInv, Shape
<1>4. NodeOK(d)'
  BY <1>1, <1>3 DEF DeviceOK, NodeOK, MemberIn, IsRoster, Owned, Assigned
<1>5. PeekOK(d)' /\ OpOK(d)'  BY <1>1, <1>2, <1>3, PeekStays, OpStays DEF DeviceOK
<1> QED  BY <1>1, <1>2, <1>3, <1>4, <1>5, StepOfDevice DEF DeviceOK

\* A step that only moves a device's operation on, and asks the hub at most.
LEMMA StepOfOperation ==
    ASSUME MembershipInv, HubFollows, HubOK', NEW d \in Devices, Kept(node[d].number),
           UNCHANGED <<disk, node, peek, session>>, NEW o, op' = [op EXCEPT ![d] = o],
           OpOK(d)', \A e \in Devices \ {d} : Kept(node[e].number),
           peek[d] = NoRoster \/ o.pc = "idle" \/ (o.pc = "await" /\ o.then = "revoke")
    PROVE  MembershipInv'
<1>1. /\ op'[d] = o /\ \A e \in Devices \ {d} : op'[e] = op[e]
      /\ Shape' /\ DeviceOK(d)
  BY DEF MembershipInv, Shape
<1>2. NodeOK(d)'  BY <1>1, NodeStays DEF DeviceOK
<1>3. PeekOK(d)'
  <2>1. peek[d] # NoRoster => MemberIn(node[d].number, peek[d])'
    BY <1>1, MemberStays DEF DeviceOK, PeekOK, MemberIn
  <2> QED  BY <1>1, <2>1 DEF DeviceOK, PeekOK, MemberIn
<1> QED  BY <1>1, <1>2, <1>3, StepOfDevice DEF DeviceOK

\* The number that the hub assigns is new.
LEMMA RegisterInv ==
    ASSUME MembershipInv, NEW d \in Devices, Register(d) PROVE MembershipInv'
<1>1. PICK k : k = Len(owner) + 1  OBVIOUS
<1>2. /\ UNCHANGED <<log, requests, cosigned, removed, pending, attempts, faults>>
      /\ UNCHANGED <<disk, node, peek, session>>
      /\ owner' = Append(owner, d) /\ registered' = registered \cup {k}
      /\ op' = [op EXCEPT ![d] = [pc |-> "save", number |-> k]]
      /\ node[d].state = "Pending" /\ peek[d] = NoRoster /\ Len(owner) < MaxNumber
  BY <1>1 DEF Register, Exclusive, bounds
<1>3. /\ Assigned' = Assigned \cup {k} /\ k \notin Assigned /\ k # NoNumber
      /\ owner' \in Seq(Devices) /\ Len(owner') <= MaxNumber
      /\ owner'[k] = d /\ \A j \in Assigned : owner'[j] = owner[j]
  BY <1>1, <1>2 DEF MembershipInv, HubOK, Assigned, NoNumber
<1>4. HubFollows /\ \A j : Kept(j)  BY <1>2, <1>3 DEF HubFollows, Kept
<1>5. HubOK'
  <2>1. \A q \in requests' : RequestOK(q)'
    BY <1>2, <1>4, RequestStays DEF MembershipInv, HubOK
  <2>2. IsRoster(log)'  BY <1>2, <1>4, RosterStays DEF MembershipInv, HubOK, IsRoster
  <2> QED  BY <1>2, <1>3, <2>1, <2>2 DEF MembershipInv, HubOK
<1>6. PICK o : o = [pc |-> "save", number |-> k]  OBVIOUS
<1>7. /\ op'[d] = o /\ o.pc = "save" /\ o.number = k /\ DOMAIN o = {"pc", "number"}
  BY <1>2, <1>6 DEF MembershipInv, Shape
<1>8. OpOK(d)'
  <2>1. DOMAIN o = Fields("save")  BY <1>7 DEF Fields
  <2>2. Owned(k, d)' /\ node'[d].state = "Pending"  BY <1>2, <1>3 DEF Owned
  <2> QED  BY <1>3, <1>7, <2>1, <2>2 DEF OpOK, Places
<1> QED  BY <1>2, <1>4, <1>5, <1>6, <1>8, StepOfOperation

\* Pairing: the endorser's number is an assigned one.
LEMMA PairingInv ==
    ASSUME MembershipInv, NEW d \in Devices,
           (\E e \in Assigned : StartActivation(d, e)) \/ Pair(d)
    PROVE  MembershipInv'
<1>1. DeviceOK(d) /\ HubOK /\ op[d] \in {op[d]}  BY DEF MembershipInv
<1>2. PICK o : /\ op' = [op EXCEPT ![d] = o] /\ o.pc \in {"pair", "fetch"}
               /\ o.endorser \in Assigned /\ DOMAIN o = {"pc", "endorser", "nonce"}
               /\ node[d].state = "Registered"
  <2>1. ASSUME NEW e \in Assigned, StartActivation(d, e)
        PROVE  \E o : /\ op' = [op EXCEPT ![d] = o] /\ o.pc \in {"pair", "fetch"}
                      /\ o.endorser \in Assigned /\ DOMAIN o = {"pc", "endorser", "nonce"}
                      /\ node[d].state = "Registered"
    <3>1. PICK o : o = [pc |-> "pair", endorser |-> e, nonce |-> attempts + 1]  OBVIOUS
    <3>2. o.pc = "pair" /\ o.endorser = e /\ DOMAIN o = {"pc", "endorser", "nonce"}
      BY <3>1
    <3>3. op' = [op EXCEPT ![d] = o] /\ node[d].state = "Registered"
      BY <2>1, <3>1 DEF StartActivation
    <3> QED  BY <3>2, <3>3
  <2>2. CASE Pair(d)
    <3>1. PICK o : o = [op[d] EXCEPT !.pc = "fetch"]  OBVIOUS
    <3>2. /\ DOMAIN op[d] = {"pc", "endorser", "nonce"} /\ op[d].endorser \in Assigned
          /\ node[d].state = "Registered"
      BY <1>1, <2>2 DEF Pair, DeviceOK, OpOK, Fields
    <3>3. o.pc = "fetch" /\ o.endorser = op[d].endorser /\ DOMAIN o = DOMAIN op[d]
      BY <3>1, <3>2
    <3>4. op' = [op EXCEPT ![d] = o]  BY <2>2, <3>1 DEF Pair
    <3> QED  BY <3>2, <3>3, <3>4
  <2> QED  BY <2>1, <2>2
<1>3. peek[d] = NoRoster
  BY <1>1, <1>2 DEF DeviceOK, PeekOK
<1>4. /\ UNCHANGED <<log, registered, owner, requests, cosigned, removed>>
      /\ UNCHANGED <<disk, node, peek, session>>
      /\ attempts' \in 0..MaxAttempts /\ faults' \in 0..MaxFaults
      /\ \A p \in pending' : p.endorser \in Assigned /\ p.node \in Assigned
  <2>1. CASE \E e \in Assigned : StartActivation(d, e)
    BY <1>1, <2>1 DEF StartActivation, hubVars, HubOK
  <2>2. CASE Pair(d)
    BY <1>1, <2>2 DEF Pair, hubVars, bounds, HubOK, DeviceOK, OpOK
  <2> QED  BY <2>1, <2>2
<1>5. HubOK' /\ HubFollows /\ \A k : Kept(k)
  BY <1>1, <1>4, HubQuiet DEF HubOK
<1>6. op'[d] = o  BY <1>2 DEF MembershipInv, Shape
<1>7. DOMAIN o = Fields(o.pc)  BY <1>2 DEF Fields
<1>8. OpOK(d)'  BY <1>2, <1>4, <1>6, <1>7 DEF OpOK, Places, Assigned
<1> QED  BY <1>2, <1>3, <1>4, <1>5, <1>8, StepOfOperation

\* A request is submitted.
LEMMA SubmitInv ==
    ASSUME MembershipInv, NEW d \in Devices, NEW q, RequestOK(q), q.device = d,
           q.number = node[d].number, NEW then \in {"activate", "revoke", "logout"},
           requests' = requests \cup {q}, op' = [op EXCEPT ![d] = Await(q, then)],
           UNCHANGED <<log, registered, owner, cosigned, disk, node, peek, session,
                       pending, bounds>>,
           then = "activate" =>
             /\ node[d].state = "Registered" /\ node[d].number \in registered
             /\ q.change.kind = "activation" /\ q.change.node = node[d].number,
           then # "activate" =>
             /\ node[d].state = "Activated"
             /\ q.change.kind = "revocation" /\ q.change.by = node[d].number,
           then = "revoke" => q.change.node # node[d].number,
           then = "logout" => q.change.node = node[d].number,
           peek[d] = NoRoster \/ then = "revoke"
    PROVE  MembershipInv'
<1>1. UNCHANGED <<removed, attempts, faults>>  BY DEF bounds
<1>2. HubOK' /\ HubFollows /\ \A k : Kept(k)
  BY <1>1, HubQuiet DEF MembershipInv, HubOK
<1>3. PICK o : o = Await(q, then)  OBVIOUS
<1>4. /\ o.pc = "await" /\ o.req = q /\ o.then = then /\ o.answer = "none"
      /\ DOMAIN o = {"pc", "req", "then", "answer"}
  BY <1>3 DEF Await
<1>5. op' = [op EXCEPT ![d] = o] /\ op'[d] = o  BY <1>3 DEF MembershipInv, Shape
<1>6. RequestOK(q)'  BY <1>2, RequestStays
<1>7. AwaitOK(d)'  BY <1>4, <1>5, <1>6 DEF AwaitOK
<1>8. DOMAIN o = Fields("await")  BY <1>4 DEF Fields
<1>9. OpOK(d)'
  <2>1. node[d].state # "Down"  OBVIOUS
  <2> QED  BY <1>4, <1>5, <1>7, <1>8, <2>1 DEF OpOK, Places
<1> QED  BY <1>2, <1>4, <1>5, <1>9, StepOfOperation

\* An activation is built on the roster that the hub has just sent.
LEMMA SubmitActivationInv ==
    ASSUME MembershipInv, NEW d \in Devices, SubmitActivation(d) PROVE MembershipInv'
<1>1. DeviceOK(d) /\ HubOK  BY DEF MembershipInv
<1>2. /\ op[d].pc = "fetch" /\ node[d].number \in registered
      /\ node[d].state = "Registered" /\ op[d].endorser \in Assigned
      /\ Owned(node[d].number, d)
  BY <1>1 DEF SubmitActivation, DeviceOK, OpOK, NodeOK, HubOK, Assigned, NoNumber
<1>3. PICK c : c = Activated(node[d].number, op[d].endorser)  OBVIOUS
<1>4. /\ c \in Changes(Assigned) /\ c.kind = "activation" /\ c.node = node[d].number
  BY <1>2, <1>3 DEF Activated, Changes, Owned
<1>5. PICK q : q = [device |-> d, number |-> node[d].number, base |-> log,
                    change |-> c, nonce |-> op[d].nonce]
  OBVIOUS
<1>6. /\ q.device = d /\ q.number = node[d].number /\ q.base = log /\ q.change = c
  BY <1>5
<1>7. /\ requests' = requests \cup {q} /\ op' = [op EXCEPT ![d] = Await(q, "activate")]
      /\ UNCHANGED <<log, registered, owner, cosigned, disk, node, peek, session,
                     pending, bounds>>
  BY <1>3, <1>5 DEF SubmitActivation
<1>8. IsPrefix(log, log)
  <2>1. log \in Seq(Changes(Assigned))  BY <1>1 DEF HubOK, IsRoster
  <2> QED  BY <1>4, <2>1, PrefixFacts
<1>9. RequestOK(q)  BY <1>1, <1>2, <1>4, <1>6, <1>8 DEF RequestOK, HubOK
<1>10. peek[d] = NoRoster  BY <1>1, <1>2 DEF DeviceOK, PeekOK
<1> QED  BY <1>2, <1>4, <1>6, <1>7, <1>9, <1>10, SubmitInv

\* A revocation is built on the cached roster; a node leaves only if that roster has
\* another active member.
LEMMA SubmitRevocationInv ==
    ASSUME MembershipInv, NEW d \in Devices, NEW x \in Assigned,
           NEW then \in {"revoke", "logout"}, SubmitRevocation(d, x, then),
           node[d].state = "Activated",
           then = "revoke" => x # node[d].number,
           then = "logout" => /\ x = node[d].number /\ ~LastActiveNode(node[d].cache)
                              /\ peek[d] = NoRoster
    PROVE  MembershipInv'
<1>1. DeviceOK(d) /\ HubOK  BY DEF MembershipInv
<1>2. /\ Owned(node[d].number, d) /\ IsRoster(node[d].cache)
      /\ IsPrefix(node[d].cache, log)
  BY <1>1 DEF DeviceOK, NodeOK, MemberIn
<1>3. PICK c : c = RevokedBy(x, node[d].number)  OBVIOUS
<1>4. /\ c \in Changes(Assigned) /\ c.kind = "revocation"
      /\ c.node = x /\ c.by = node[d].number
  BY <1>2, <1>3 DEF RevokedBy, Changes, Owned
<1>5. PICK q : q = [device |-> d, number |-> node[d].number, base |-> node[d].cache,
                    change |-> c, nonce |-> 0]
  OBVIOUS
<1>6. /\ q.device = d /\ q.number = node[d].number /\ q.base = node[d].cache
      /\ q.change = c
  BY <1>5
<1>7. /\ requests' = requests \cup {q} /\ op' = [op EXCEPT ![d] = Await(q, then)]
      /\ UNCHANGED <<log, registered, owner, cosigned, disk, node, peek, session,
                     pending, bounds>>
  BY <1>3, <1>5 DEF SubmitRevocation
<1>8. then = "logout" => Active(node[d].cache) # {x}
  <2>1. Cardinality({x}) <= 1
    <3>1. Cardinality({x}) = 1  BY FS_Singleton
    <3> QED  BY <3>1
  <2>2. Active(node[d].cache) = {x} => LastActiveNode(node[d].cache)
    BY <2>1 DEF LastActiveNode
  <2> QED  BY <2>2
<1>9. RequestOK(q)  BY <1>2, <1>4, <1>6, <1>8 DEF RequestOK
<1> QED  BY <1>4, <1>6, <1>7, <1>9, SubmitInv

\* Revoking and leaving begin, the latter without a request unless the node is active.
LEMMA StartRevocationInv ==
    ASSUME MembershipInv, NEW d \in Devices,
           (\E x \in Assigned : StartRevoke(d, x)) \/ StartLogout(d)
    PROVE  MembershipInv'
<1>1. DeviceOK(d) /\ HubOK  BY DEF MembershipInv
<1>2. ASSUME NEW x \in Assigned, StartRevoke(d, x) PROVE MembershipInv'
  BY <1>2, SubmitRevocationInv DEF StartRevoke
<1>3. CASE StartLogout(d)
  <2>1. peek[d] = NoRoster /\ node[d].state # "Down"
    BY <1>3 DEF StartLogout, Exclusive
  <2>2. CASE node[d].state = "Activated"
    <3>1. ~LastActiveNode(node[d].cache) /\ SubmitRevocation(d, node[d].number, "logout")
      BY <1>3, <2>2 DEF StartLogout
    <3>2. node[d].number \in Assigned  BY <1>1, <2>2 DEF DeviceOK, NodeOK, Owned
    <3> QED  BY <2>1, <2>2, <3>1, <3>2, SubmitRevocationInv
  <2>3. CASE node[d].state # "Activated"
    <3>1. PICK pc \in {"delete", "deregister"} :
            /\ op' = [op EXCEPT ![d] = [pc |-> pc]]
            /\ pc = "delete" => node[d].state = "Pending"
            /\ pc = "deregister" => node[d].state \in {"Registered", "Revoked"}
            /\ UNCHANGED <<hubVars, disk, node, peek, session, pending, bounds>>
      <4>1. node[d].state \in {"Pending", "Registered", "Revoked"}
        BY <1>1, <2>1, <2>3 DEF DeviceOK, NodeOK, States
      <4>2. CASE node[d].state = "Pending"  BY <1>3, <4>2 DEF StartLogout
      <4>3. CASE node[d].state \in {"Registered", "Revoked"}
        BY <1>3, <4>3 DEF StartLogout
      <4> QED  BY <4>1, <4>2, <4>3
    <3>2. UNCHANGED <<log, registered, owner, requests, cosigned, removed, attempts, faults>>
      BY <3>1 DEF hubVars, bounds
    <3>3. HubOK' /\ HubFollows /\ \A k : Kept(k)
      BY <1>1, <3>1, <3>2, HubQuiet DEF HubOK
    <3>4. PICK o : o = [pc |-> pc]  OBVIOUS
    <3>5. o.pc = pc /\ DOMAIN o = {"pc"} /\ op' = [op EXCEPT ![d] = o] /\ op'[d] = o
      BY <3>1, <3>4 DEF MembershipInv, Shape
    <3>6. DOMAIN o = Fields(pc)  BY <3>5 DEF Fields
    <3>7. OpOK(d)'
      <4>1. node[d].state = "Pending" => node[d].number = NoNumber
        BY <1>1 DEF DeviceOK, NodeOK
      <4> QED  BY <2>1, <2>3, <3>1, <3>5, <3>6, <4>1 DEF OpOK, Places
    <3> QED  BY <2>1, <3>1, <3>3, <3>5, <3>7, StepOfOperation
  <2> QED  BY <2>2, <2>3
<1> QED  BY <1>2, <1>3

\* A node whose self-revocation was stored is retired; one that the hub does not
\* know has left its register, and the roster unless it was removed.
LEMMA ContinueLogoutInv ==
    ASSUME MembershipInv, NEW d \in Devices, ContinueLogout(d) PROVE MembershipInv'
<1>1. DeviceOK(d) /\ HubOK  BY DEF MembershipInv
<1>2. /\ UNCHANGED <<log, registered, owner, requests, cosigned, removed, attempts, faults>>
      /\ UNCHANGED <<disk, node, peek, session, pending>>
      /\ op[d].pc = "await" /\ op[d].then = "logout"
  BY DEF ContinueLogout, hubVars, bounds
<1>3. HubOK' /\ HubFollows /\ \A k : Kept(k)  BY <1>1, <1>2, HubQuiet DEF HubOK
<1>4. AwaitOK(d) /\ peek[d] = NoRoster  BY <1>1, <1>2 DEF DeviceOK, OpOK, PeekOK
<1>5. PICK pc \in {"delete", "deregister"} :
        /\ op' = [op EXCEPT ![d] = [pc |-> pc]]
        /\ pc = "delete" => op[d].answer = "unauthenticated"
        /\ pc = "deregister" => op[d].answer = "ok"
  BY DEF ContinueLogout, AlreadyRemoved
<1>6. /\ node[d].state = "Activated"
      /\ pc = "deregister" => node[d].number \in Retired(log)
      /\ pc = "delete" =>
           /\ node[d].number \notin registered
           /\ node[d].number \in Retired(log) \cup removed
  <2>1. node[d].state = "Activated"  BY <1>2, <1>4 DEF AwaitOK
  <2>2. pc = "deregister" => node[d].number \in Retired(log)
    BY <1>2, <1>4, <1>5 DEF AwaitOK
  <2>3. pc = "delete" => node[d].number \notin registered
    BY <1>4, <1>5 DEF AwaitOK
  <2> QED  BY <1>1, <2>1, <2>2, <2>3 DEF DeviceOK, NodeOK
<1>7. PICK o : o = [pc |-> pc]  OBVIOUS
<1>8. o.pc = pc /\ DOMAIN o = {"pc"} /\ op' = [op EXCEPT ![d] = o] /\ op'[d] = o
  BY <1>5, <1>7 DEF MembershipInv, Shape
<1>9. DOMAIN o = Fields(pc)  BY <1>8 DEF Fields
<1>10. OpOK(d)'  BY <1>2, <1>6, <1>8, <1>9 DEF OpOK, Places
<1> QED  BY <1>2, <1>3, <1>4, <1>8, <1>10, StepOfOperation

\* The number that leaves the register is that of no other device, and retired if the
\* node is active.
LEMMA DeregisterInv ==
    ASSUME MembershipInv, NEW d \in Devices, Deregister(d) PROVE MembershipInv'
<1>1. DeviceOK(d) /\ HubOK  BY DEF MembershipInv
<1>2. /\ UNCHANGED <<log, owner, requests, cosigned, removed, attempts, faults>>
      /\ UNCHANGED <<disk, node, peek, session, pending>>
      /\ registered' = registered \ {node[d].number}
      /\ op[d].pc = "deregister" /\ op' = [op EXCEPT ![d] = [pc |-> "delete"]]
  BY DEF Deregister, bounds
<1>3. HubFollows  BY <1>2 DEF HubFollows, Assigned
<1>4. HubOK'
  <2>1. \A q \in requests' : RequestOK(q)'  BY <1>1, <1>2, <1>3, RequestStays DEF HubOK
  <2> QED  BY <1>1, <1>2, <2>1 DEF HubOK, IsRoster, Assigned
<1>5. /\ node[d].state \in {"Registered", "Activated", "Revoked"}
      /\ node[d].state = "Activated" => node[d].number \in Retired(log)
      /\ Owned(node[d].number, d) /\ peek[d] = NoRoster
  BY <1>1, <1>2 DEF DeviceOK, OpOK, NodeOK, PeekOK
<1>6. ASSUME NEW e \in Devices, e # d PROVE Kept(node[e].number)
  <2>1. node[e].number # NoNumber => Owned(node[e].number, e)
    BY DEF MembershipInv, DeviceOK, NodeOK
  <2>2. node[e].number # node[d].number
    BY <1>5, <1>6, <2>1 DEF Owned, Assigned, NoNumber
  <2> QED  BY <1>2, <2>2 DEF Kept
<1>7. PICK o : o = [pc |-> "delete"]  OBVIOUS
<1>8. o.pc = "delete" /\ DOMAIN o = {"pc"} /\ op' = [op EXCEPT ![d] = o] /\ op'[d] = o
      /\ (\A e \in Devices \ {d} : op'[e] = op[e]) /\ Shape'
  BY <1>2, <1>7 DEF MembershipInv, Shape
<1>9. DOMAIN o = Fields("delete")  BY <1>8 DEF Fields
<1>10. OpOK(d)'  BY <1>2, <1>5, <1>8, <1>9 DEF OpOK, Places
<1>11. NodeOK(d)'
  BY <1>1, <1>2, <1>5 DEF DeviceOK, NodeOK, MemberIn, IsRoster, Owned, Assigned
<1>12. PeekOK(d)'  BY <1>2, <1>5 DEF PeekOK
<1> QED  BY <1>2, <1>3, <1>4, <1>6, <1>8, <1>10, <1>11, <1>12, StepOfDevice DEF DeviceOK

\* Registration and logout end: the node has the number on the disk, or none.
LEMMA LocalStateInv ==
    ASSUME MembershipInv, NEW d \in Devices, SaveRegistration(d) \/ FinishLogout(d)
    PROVE  MembershipInv'
<1>1. DeviceOK(d) /\ HubOK  BY DEF MembershipInv
<1>2. PICK k, n :
        /\ UNCHANGED <<hubVars, peek, session, pending, bounds>>
        /\ disk' = [disk EXCEPT ![d] = k] /\ node' = [node EXCEPT ![d] = n]
        /\ op' = [op EXCEPT ![d] = Idle]
        /\ \/ k = NoNumber /\ n = PendingNode /\ op[d].pc = "delete"
           \/ k # NoNumber /\ n = RegisteredNode(k) /\ Owned(k, d) /\ op[d].pc = "save"
  <2>1. CASE SaveRegistration(d)
    BY <1>1, <2>1 DEF SaveRegistration, DeviceOK, OpOK
  <2>2. CASE FinishLogout(d)  BY <2>2 DEF FinishLogout
  <2> QED  BY <2>1, <2>2
<1>3. UNCHANGED <<log, registered, owner, requests, cosigned, removed, attempts, faults>>
  BY <1>2 DEF hubVars, bounds
<1>4. HubOK' /\ HubFollows /\ \A j : Kept(j)
  BY <1>1, <1>2, <1>3, HubQuiet DEF HubOK
<1>5. /\ disk'[d] = k /\ node'[d] = n /\ op'[d] = Idle
      /\ \A e \in Devices \ {d} :
           disk'[e] = disk[e] /\ node'[e] = node[e] /\ op'[e] = op[e]
      /\ Shape'
  BY <1>2 DEF MembershipInv, Shape
<1>6. /\ DOMAIN n = {"state", "number", "cache"} /\ n.number = k /\ n.cache = <<>>
      /\ n.state \in {"Pending", "Registered"}
      /\ n.state = "Pending" <=> k = NoNumber
      /\ k # NoNumber => Owned(k, d)
  BY <1>2 DEF PendingNode, RegisteredNode
<1>7. IsRoster(<<>>)'  BY DEF IsRoster
<1>8. \A j \in {session[d]} \ {NoNumber} : Owned(j, d)  BY <1>1 DEF DeviceOK, NodeOK
<1>9. NodeOK(d)'
  <2>1. \A j \in {k, session[d]} \ {NoNumber} : Owned(j, d)'
    BY <1>3, <1>6, <1>8 DEF Owned, Assigned
  <2>2. \A j \in {disk'[d], node'[d].number, session'[d]} \ {NoNumber} : Owned(j, d)'
    BY <1>2, <1>5, <1>6, <2>1
  <2> QED  BY <1>5, <1>6, <1>7, <2>2 DEF NodeOK, IsRoster, States
<1>10. PeekOK(d)'  BY <1>1, <1>2 DEF DeviceOK, PeekOK
<1>11. OpOK(d)'  BY <1>5, <1>6 DEF OpOK, Idle, Places, Fields
<1> QED  BY <1>2, <1>4, <1>5, <1>9, <1>10, <1>11, StepOfDevice DEF DeviceOK

\* The roster that was accepted becomes the cached one, or the fetched one does.
LEMMA NewCacheInv ==
    ASSUME MembershipInv, NEW d \in Devices,
           FinishActivation(d) \/ FinishRevoke(d) \/ CacheFetched(d)
    PROVE  MembershipInv'
<1>1. DeviceOK(d) /\ HubOK  BY DEF MembershipInv
<1>2. CASE FinishActivation(d) \/ FinishRevoke(d)
  <2>1. /\ UNCHANGED <<hubVars, disk, peek, session, pending, bounds>>
        /\ op[d].pc = "await" /\ op[d].then \in {"activate", "revoke"}
        /\ op[d].answer = "ok" /\ op' = [op EXCEPT ![d] = Idle]
    BY <1>2 DEF FinishActivation, FinishRevoke
  <2>2. AwaitOK(d)  BY <1>1, <2>1 DEF DeviceOK, OpOK
  <2>3. PICK r : r = Append(op[d].req.base, op[d].req.change)  OBVIOUS
  <2>4. /\ MemberIn(node[d].number, r) /\ node[d].state \in {"Registered", "Activated"}
        /\ node[d].number \in registered \cup removed \cup Retired(log)
    <3>1. MemberIn(node[d].number, r)  BY <2>1, <2>2, <2>3 DEF AwaitOK, MemberIn
    <3>2. CASE op[d].then = "activate"  BY <2>2, <3>1, <3>2 DEF AwaitOK
    <3>3. CASE op[d].then = "revoke"
      BY <1>1, <2>2, <3>1, <3>3 DEF AwaitOK, DeviceOK, NodeOK
    <3> QED  BY <2>1, <3>2, <3>3
  <2>5. PICK n : /\ node' = [node EXCEPT ![d] = n] /\ n.number = node[d].number
                 /\ n.state = "Activated" /\ n.cache = r
                 /\ DOMAIN n = {"state", "number", "cache"}
    <3>1. CASE FinishActivation(d)
      <4>1. PICK n : n = ActivatedNode(node[d].number, r)  OBVIOUS
      <4>2. /\ n.number = node[d].number /\ n.state = "Activated" /\ n.cache = r
            /\ DOMAIN n = {"state", "number", "cache"}
        BY <4>1 DEF ActivatedNode
      <4>3. node' = [node EXCEPT ![d] = n]  BY <2>3, <3>1, <4>1 DEF FinishActivation
      <4> QED  BY <4>2, <4>3
    <3>2. CASE FinishRevoke(d)
      <4>1. PICK n : n = [node[d] EXCEPT !.cache = r]  OBVIOUS
      <4>2. /\ DOMAIN node[d] = {"state", "number", "cache"}
            /\ node[d].state = "Activated"
        BY <1>1, <2>2, <3>2 DEF DeviceOK, NodeOK, AwaitOK, FinishRevoke
      <4>3. /\ n.number = node[d].number /\ n.state = "Activated" /\ n.cache = r
            /\ DOMAIN n = {"state", "number", "cache"}
        BY <4>1, <4>2
      <4>4. node' = [node EXCEPT ![d] = n]  BY <2>3, <3>2, <4>1 DEF FinishRevoke
      <4> QED  BY <4>3, <4>4
    <3> QED  BY <1>2, <3>1, <3>2
  <2>6. UNCHANGED <<log, registered, owner, requests, cosigned, removed, attempts, faults>>
    BY <2>1 DEF hubVars, bounds
  <2>7. HubOK' /\ HubFollows /\ \A j : Kept(j)
    BY <1>1, <2>1, <2>6, HubQuiet DEF HubOK
  <2>8. /\ node'[d] = n /\ op'[d] = Idle
        /\ \A e \in Devices \ {d} : node'[e] = node[e] /\ op'[e] = op[e]
        /\ Shape'
    BY <2>1, <2>5 DEF MembershipInv, Shape
  <2>9. NodeOK(d)'
    BY <1>1, <2>1, <2>4, <2>5, <2>6, <2>8
       DEF DeviceOK, NodeOK, MemberIn, IsRoster, Owned, Assigned, States
  <2>10. PeekOK(d)'
    BY <1>1, <2>1, <2>5, <2>6, <2>8 DEF DeviceOK, PeekOK, MemberIn, IsRoster, Assigned, Idle
  <2>11. OpOK(d)'  BY <2>5, <2>8 DEF OpOK, Idle, Places, Fields
  <2> QED  BY <2>1, <2>7, <2>8, <2>9, <2>10, <2>11, StepOfDevice DEF DeviceOK
<1>3. CASE CacheFetched(d)
  <2>1. /\ UNCHANGED <<log, registered, owner, requests, cosigned, removed, attempts, faults>>
        /\ UNCHANGED <<disk, op, session, pending>>
        /\ peek[d] # NoRoster /\ peek' = [peek EXCEPT ![d] = NoRoster]
    BY <1>3 DEF CacheFetched, hubVars, bounds
  <2>2. /\ node[d].state = "Activated" /\ MemberIn(node[d].number, peek[d])
        /\ op[d].pc = "idle" \/ (op[d].pc = "await" /\ op[d].then = "revoke")
    BY <1>1, <2>1 DEF DeviceOK, PeekOK
  <2>3. PICK n : n = [node[d] EXCEPT !.cache = peek[d]]  OBVIOUS
  <2>4. /\ n.number = node[d].number /\ n.state = "Activated" /\ n.cache = peek[d]
        /\ DOMAIN n = {"state", "number", "cache"}
    <3>1. DOMAIN node[d] = {"state", "number", "cache"}  BY <1>1 DEF DeviceOK, NodeOK
    <3> QED  BY <2>2, <2>3, <3>1
  <2>5. node' = [node EXCEPT ![d] = n]  BY <1>3, <2>3 DEF CacheFetched
  <2>6. HubOK' /\ HubFollows /\ \A j : Kept(j)
    BY <1>1, <2>1, HubQuiet DEF HubOK
  <2>7. /\ node'[d] = n /\ peek'[d] = NoRoster
        /\ \A e \in Devices \ {d} : node'[e] = node[e] /\ peek'[e] = peek[e]
        /\ Shape'
    BY <2>1, <2>5 DEF MembershipInv, Shape
  <2>8. NodeOK(d)'
    BY <1>1, <2>1, <2>2, <2>4, <2>7
       DEF DeviceOK, NodeOK, MemberIn, IsRoster, Owned, Assigned, States
  <2>9. PeekOK(d)'  BY <2>7 DEF PeekOK
  <2>10. OpOK(d)'
    <3>1. op[d].pc = "await" => AwaitOK(d)'
      BY <1>1, <2>1, <2>2, <2>4, <2>7
         DEF DeviceOK, OpOK, AwaitOK, RequestOK, IsRoster, Owned, Assigned
    <3> QED  BY <1>1, <2>1, <2>2, <2>4, <2>7, <3>1 DEF DeviceOK, OpOK
  <2> QED  BY <2>1, <2>6, <2>7, <2>8, <2>9, <2>10, StepOfDevice DEF DeviceOK
<1> QED  BY <1>2, <1>3

\* The roster that a lookup fetches is the hub's, and the node is active in it.
LEMMA FetchPeerInv ==
    ASSUME MembershipInv, NEW d \in Devices, FetchPeer(d) PROVE MembershipInv'
<1>1. DeviceOK(d) /\ HubOK  BY DEF MembershipInv
<1>2. /\ UNCHANGED <<log, registered, owner, requests, cosigned, removed, attempts, faults>>
      /\ UNCHANGED <<disk, node, op, session, pending>>
      /\ node[d].state = "Activated" /\ node[d].number \in Active(log)
      /\ op[d].pc = "idle" \/ (op[d].pc = "await" /\ op[d].then = "revoke")
      /\ peek' = [peek EXCEPT ![d] = log]
  BY DEF FetchPeer, hubVars, bounds
<1>3. HubOK' /\ HubFollows /\ \A k : Kept(k)  BY <1>1, <1>2, HubQuiet DEF HubOK
<1>4. peek'[d] = log /\ (\A e \in Devices \ {d} : peek'[e] = peek[e]) /\ Shape'
  BY <1>2 DEF MembershipInv, Shape
<1>5. IsRoster(log) /\ IsPrefix(log, log)  BY <1>1 DEF HubOK, IsPrefix
<1>6. PeekOK(d)'  BY <1>2, <1>4, <1>5 DEF PeekOK, MemberIn, IsRoster, Assigned
<1>7. NodeOK(d)' /\ OpOK(d)'  BY <1>1, <1>2, <1>3, NodeStays, OpStays DEF DeviceOK
<1> QED  BY <1>2, <1>3, <1>4, <1>6, <1>7, StepOfDevice DEF DeviceOK

-----------------------------------------------------------------------------
(* The steps of the hub *)

\* The endorser uses a pairing up, and the hub has its signature.
LEMMA CosignInv ==
    ASSUME MembershipInv, NEW q \in requests, CosignAtEndorser(q) PROVE MembershipInv'
<1>1. /\ UNCHANGED <<log, registered, owner, requests, removed, attempts, faults>>
      /\ UNCHANGED <<disk, node, op, peek, session>>
      /\ cosigned' = cosigned \cup {q} /\ pending' \subseteq pending
  BY DEF CosignAtEndorser, bounds
<1>2. HubOK' /\ HubFollows /\ \A k : Kept(k)
  BY <1>1, HubQuiet DEF MembershipInv, HubOK
<1>3. \A d \in Devices : DeviceOK(d)'
  BY <1>1, <1>2, NodeStays, PeekStays, OpStays DEF MembershipInv, DeviceOK
<1> QED  BY <1>1, <1>2, <1>3 DEF MembershipInv, Shape

\* The registration of a number is removed at the hub.
LEMMA RemoveNodeInv ==
    ASSUME MembershipInv, NEW k \in Assigned, RemoveNode(k) PROVE MembershipInv'
<1>1. /\ UNCHANGED <<log, owner, requests, cosigned, attempts, pending>>
      /\ UNCHANGED <<disk, node, op, peek, session>>
      /\ registered' = registered \ {k} /\ removed' = removed \cup {k}
      /\ k \in registered /\ faults' \in 0..MaxFaults
  BY DEF RemoveNode, Fault, MembershipInv, HubOK
<1>2. HubFollows /\ \A j : Kept(j)  BY <1>1 DEF HubFollows, Kept, Assigned
<1>3. HubOK'
  <2>1. \A q \in requests' : RequestOK(q)'
    BY <1>1, <1>2, RequestStays DEF MembershipInv, HubOK
  <2> QED  BY <1>1, <2>1 DEF MembershipInv, HubOK, IsRoster, Assigned
<1>4. \A d \in Devices : DeviceOK(d)'
  BY <1>1, <1>2, NodeStays, PeekStays, OpStays DEF MembershipInv, DeviceOK
<1> QED  BY <1>1, <1>3, <1>4 DEF MembershipInv, Shape

\* The hub answers: only the operation that waits for the request gets the answer.
LEMMA AnsweredInv ==
    ASSUME MembershipInv, HubFollows, HubOK', \A k : Kept(k), NEW q, RequestOK(q),
           UNCHANGED <<disk, node, peek, session>>,
           NEW answer \in {"ok", "error", "unauthenticated"}, op' = Answered(q, answer),
           answer = "unauthenticated" => q.number \notin registered',
           answer = "ok" =>
             /\ IsRoster(Append(q.base, q.change))'
             /\ IsPrefix(Append(q.base, q.change), log')
             /\ q.change.kind = "activation" =>
                  q.change.node \in Active(Append(q.base, q.change))
             /\ q.change.kind = "revocation" =>
                  /\ q.change.node \in Retired(log')
                  /\ q.change.by # q.change.node =>
                       q.change.by \in Active(Append(q.base, q.change))
    PROVE  MembershipInv'
<1>1. PICK d \in Devices : d = q.device  BY DEF RequestOK
<1>2. DeviceOK(d)  BY DEF MembershipInv
<1>3. PICK o : o = IF op[d].pc = "await" /\ op[d].req = q
                   THEN [op[d] EXCEPT !.answer = answer] ELSE op[d]
  OBVIOUS
<1>4. op' = [op EXCEPT ![d] = o]  BY <1>1, <1>3 DEF Answered
<1>5. op'[d] = o  BY <1>4 DEF MembershipInv, Shape
<1>6. CASE op[d].pc = "await" /\ op[d].req = q
  <2>1. DOMAIN op[d] = {"pc", "req", "then", "answer"} /\ AwaitOK(d)
    BY <1>2, <1>6 DEF DeviceOK, OpOK, Fields
  <2>2. /\ o.pc = "await" /\ o.req = q /\ o.then = op[d].then /\ o.answer = answer
        /\ DOMAIN o = {"pc", "req", "then", "answer"}
    BY <1>3, <1>6, <2>1
  <2>3. RequestOK(q)'  BY RequestStays
  <2>4. /\ q.device = d /\ q.number = node[d].number
        /\ op[d].then \in {"activate", "revoke", "logout"}
        /\ op[d].then = "activate" =>
             /\ node[d].state = "Registered" /\ node[d].number \in registered \cup removed
             /\ q.change.kind = "activation" /\ q.change.node = node[d].number
        /\ op[d].then # "activate" =>
             /\ node[d].state = "Activated"
             /\ q.change.kind = "revocation" /\ q.change.by = node[d].number
        /\ op[d].then = "revoke" => q.change.node # node[d].number
        /\ op[d].then = "logout" => q.change.node = node[d].number
    BY <1>6, <2>1 DEF AwaitOK
  <2>5. op[d].then = "activate" => node[d].number \in registered' \cup removed'
    BY <2>4 DEF HubFollows, Kept
  <2>6. AwaitOK(d)'
    BY <1>5, <2>2, <2>3, <2>4, <2>5 DEF AwaitOK, IsRoster
  <2>7. DOMAIN o = Fields("await")  BY <2>2 DEF Fields
  <2>8. node[d].state # "Down"  BY <2>4
  <2>9. OpOK(d)'  BY <1>5, <2>2, <2>6, <2>7, <2>8 DEF OpOK, Places
  <2>10. peek[d] = NoRoster \/ op[d].then = "revoke"
    BY <1>2, <1>6 DEF DeviceOK, PeekOK
  <2> QED  BY <1>4, <2>2, <2>9, <2>10, StepOfOperation
<1>7. CASE ~(op[d].pc = "await" /\ op[d].req = q)
  <2>1. op'[d] = op[d]  BY <1>3, <1>5, <1>7
  <2>2. OpOK(d)'  BY <1>2, <2>1, OpStays DEF DeviceOK
  <2>3. peek[d] = NoRoster \/ o.pc = "idle" \/ (o.pc = "await" /\ o.then = "revoke")
    BY <1>2, <1>3, <1>7 DEF DeviceOK, PeekOK
  <2> QED  BY <1>4, <2>2, <2>3, StepOfOperation
<1> QED  BY <1>6, <1>7

\* A refusal leaves the roster alone.
LEMMA RefuseRosterInv ==
    ASSUME MembershipInv, NEW q \in requests, RefuseRoster(q) PROVE MembershipInv'
<1>1. /\ UNCHANGED <<log, registered, owner, removed, attempts, faults, pending>>
      /\ UNCHANGED <<disk, node, peek, session>>
      /\ requests' = requests \ {q} /\ cosigned' = cosigned \ {q}
  BY DEF RefuseRoster, bounds
<1>2. HubOK' /\ HubFollows /\ \A k : Kept(k)
  BY <1>1, HubQuiet DEF MembershipInv, HubOK
<1>3. PICK answer \in {"error", "unauthenticated"} :
        /\ op' = Answered(q, answer)
        /\ answer = "unauthenticated" => q.number \notin registered
  BY DEF RefuseRoster
<1>4. RequestOK(q)  BY DEF MembershipInv, HubOK
<1> QED  BY <1>1, <1>2, <1>3, <1>4, AnsweredInv

\* A request that the hub accepts is built on the roster that it stores.
LEMMA AcceptableBase ==
    ASSUME HubOK, NEW q \in requests, Acceptable(q)
    PROVE  /\ q.base = log /\ LegalChange(log, q.change)
           /\ q.change \in Changes(Assigned) /\ log \in Seq(Changes(Assigned))
           /\ q.change.kind = "revocation" /\ q.change.node = q.change.by =>
                Active(log) # {q.change.node}
<1>1. RequestOK(q) /\ IsRoster(log)  BY DEF HubOK
<1>2. q.base = log
  BY <1>1, PrefixFacts DEF RequestOK, IsRoster, Acceptable
<1> QED  BY <1>1, <1>2 DEF RequestOK, IsRoster, Acceptable

\* The stored roster is legal, so whoever was retired stays so.
LEMMA StoreRosterInv ==
    ASSUME MembershipInv, NEW q \in requests, StoreRoster(q) PROVE MembershipInv'
<1>1. HubOK /\ RequestOK(q) /\ Acceptable(q)  BY DEF MembershipInv, HubOK, StoreRoster
<1>2. /\ q.base = log /\ LegalChange(log, q.change)
      /\ q.change \in Changes(Assigned) /\ log \in Seq(Changes(Assigned))
  BY <1>1, AcceptableBase
<1>3. /\ UNCHANGED <<registered, owner, removed, attempts, faults, pending>>
      /\ UNCHANGED <<disk, node, peek, session>>
      /\ requests' = requests \ {q} /\ cosigned' = cosigned \ {q}
      /\ log' = Append(log, q.change) /\ Len(log) < MaxVersion
      /\ op' = Answered(q, "ok")
  BY <1>2 DEF StoreRoster, bounds
<1>4. /\ Retired(log) \subseteq Retired(log') /\ Retired(log') \subseteq Listed(log')
      /\ q.change.kind = "activation" => q.change.node \in Active(log')
      /\ q.change.kind = "revocation" =>
           /\ q.change.node \in Retired(log')
           /\ q.change.by # q.change.node => q.change.by \in Active(log')
  BY <1>1, <1>2, <1>3, AfterLegalChange DEF HubOK
<1>5. IsRoster(log)' /\ IsPrefix(log', log')
  <2>1. log' \in Seq(Changes(Assigned)) /\ Len(log') = Len(log) + 1  BY <1>2, <1>3
  <2>2. Len(log') <= MaxVersion  BY <1>2, <1>3, <2>1
  <2>3. Assigned' = Assigned  BY <1>3 DEF Assigned
  <2> QED  BY <2>1, <2>2, <2>3 DEF IsRoster, IsPrefix
<1>6. HubFollows /\ \A k : Kept(k)
  <2>1. ASSUME NEW r, IsRoster(r), IsPrefix(r, log) PROVE IsPrefix(r, log')
    BY <1>2, <1>3, <2>1, PrefixFacts DEF IsRoster
  <2> QED  BY <1>3, <1>4, <2>1 DEF HubFollows, Kept, Assigned
<1>7. HubOK'
  <2>1. \A p \in requests' : RequestOK(p)'
    BY <1>1, <1>3, <1>6, RequestStays DEF HubOK
  <2> QED  BY <1>1, <1>3, <1>4, <1>5, <2>1 DEF HubOK, Assigned
<1>8. Append(q.base, q.change) = log'  BY <1>2, <1>3
<1>9. /\ IsRoster(Append(q.base, q.change))'
      /\ IsPrefix(Append(q.base, q.change), log')
      /\ q.change.kind = "activation" =>
           q.change.node \in Active(Append(q.base, q.change))
      /\ q.change.kind = "revocation" =>
           /\ q.change.node \in Retired(log')
           /\ q.change.by # q.change.node =>
                q.change.by \in Active(Append(q.base, q.change))
  BY <1>4, <1>5, <1>8 DEF IsRoster
<1> QED  BY <1>1, <1>3, <1>6, <1>7, <1>9, AnsweredInv

-----------------------------------------------------------------------------
\* Nothing has been assigned, asked for or stored.
LEMMA MembershipInit == Init => MembershipInv
<1> SUFFICES ASSUME Init PROVE MembershipInv  OBVIOUS
<1>1. IsRoster(<<>>) /\ owner \in Seq(Devices) /\ Len(owner) = 0
  BY DEF Init, IsRoster
<1>2. HubOK
  <2>1. Retired(log) \subseteq Listed(log)  BY NobodyAtFirst DEF Init
  <2> QED  BY <1>1, <2>1 DEF Init, HubOK
<1>3. Shape  BY DEF Init, Shape
<1>4. ASSUME NEW d \in Devices PROVE DeviceOK(d)
  <2>1. /\ disk[d] = NoNumber /\ node[d] = PendingNode /\ op[d] = Idle
        /\ peek[d] = NoRoster /\ session[d] = NoNumber
    BY DEF Init
  <2>2. NodeOK(d)  BY <1>1, <2>1 DEF NodeOK, PendingNode, States
  <2>3. PeekOK(d) /\ OpOK(d)
    BY <2>1 DEF PeekOK, OpOK, Idle, PendingNode, Places, Fields
  <2> QED  BY <2>2, <2>3 DEF DeviceOK
<1> QED  BY <1>2, <1>3, <1>4 DEF MembershipInv

\* The invariant is inductive.
LEMMA MembershipNext == MembershipInv /\ [Next]_vars => MembershipInv'
<1> SUFFICES ASSUME MembershipInv, [Next]_vars PROVE MembershipInv'  OBVIOUS
<1>1. CASE UNCHANGED vars
  <2>1. /\ UNCHANGED <<log, registered, owner, requests, cosigned, removed, attempts>>
        /\ UNCHANGED <<disk, node, op, peek, session, pending, faults>>
    BY <1>1 DEF vars
  <2>2. HubOK' /\ HubFollows /\ \A k : Kept(k)
    BY <2>1, HubQuiet DEF MembershipInv, HubOK
  <2>3. \A d \in Devices : DeviceOK(d)'
    BY <2>1, <2>2, NodeStays, PeekStays, OpStays DEF MembershipInv, DeviceOK
  <2> QED  BY <2>1, <2>2, <2>3 DEF MembershipInv, Shape
<1>2. CASE Next
  <2>1. ASSUME NEW d \in Devices,
               \/ Restore(d) \/ DeleteState(d) \/ Refresh(d)
               \/ Crash(d) \/ Fail(d) \/ ReturnRefusal(d) \/ StartServing(d)
        PROVE  MembershipInv'
    BY <2>1, RestoreInv, DeleteStateInv, CrashInv, GiveUpInv, StartServingInv
  <2>2. ASSUME NEW d \in Devices,
               \/ Register(d) \/ SaveRegistration(d)
               \/ Pair(d) \/ SubmitActivation(d) \/ FinishActivation(d) \/ FinishRevoke(d)
        PROVE  MembershipInv'
    BY <2>2, RegisterInv, LocalStateInv, PairingInv, SubmitActivationInv, NewCacheInv
  <2>3. ASSUME NEW d \in Devices,
               \/ StartLogout(d) \/ ContinueLogout(d) \/ Deregister(d) \/ FinishLogout(d)
               \/ FetchPeer(d) \/ CacheFetched(d)
        PROVE  MembershipInv'
    BY <2>3, StartRevocationInv, ContinueLogoutInv, DeregisterInv, LocalStateInv,
       FetchPeerInv, NewCacheInv
  <2>4. ASSUME NEW d \in Devices, NEW k \in Assigned, StartActivation(d, k) \/ StartRevoke(d, k)
        PROVE  MembershipInv'
    BY <2>4, PairingInv, StartRevocationInv
  <2>5. ASSUME NEW k \in Assigned, RemoveNode(k) PROVE MembershipInv'
    BY <2>5, RemoveNodeInv
  <2>6. ASSUME NEW q \in requests, CosignAtEndorser(q) \/ StoreRoster(q) \/ RefuseRoster(q)
        PROVE  MembershipInv'
    BY <2>6, CosignInv, StoreRosterInv, RefuseRosterInv
  <2> QED  BY <1>2, <2>1, <2>2, <2>3, <2>4, <2>5, <2>6 DEF Next
<1> QED  BY <1>1, <1>2

\* The invariant holds in every state.
LEMMA MembershipInvariant == Spec => []MembershipInv
  BY MembershipInit, MembershipNext, PTL DEF Spec

-----------------------------------------------------------------------------
\* Every variable has its type, and a device only ever holds numbers that register
\* gave it.
THEOREM MembershipTypeCorrect == Spec => []TypeOK
<1>1. MembershipInv => TypeOK
  <2> SUFFICES ASSUME MembershipInv PROVE TypeOK  OBVIOUS
  <2>1. \A q \in requests : IsRoster(q.base) /\ owner[q.number] = q.device
    BY DEF MembershipInv, HubOK, RequestOK, Owned
  <2>2. ASSUME NEW d \in Devices
        PROVE  /\ \A k \in {disk[d], node[d].number, session[d]} \ {NoNumber} :
                    k \in Assigned /\ owner[k] = d
               /\ IsRoster(node[d].cache)
               /\ (node[d].number = NoNumber) = (node[d].state \in {"Down", "Pending"})
               /\ op[d].pc \in Places
               /\ peek[d] = NoRoster \/ IsRoster(peek[d])
    BY DEF MembershipInv, DeviceOK, NodeOK, OpOK, PeekOK, MemberIn, Owned
  <2> QED  BY <2>1, <2>2 DEF MembershipInv, HubOK, TypeOK, Places
<1> QED  BY <1>1, MembershipInvariant, PTL

\* No error path of activate, revoke_node or find_peer_in_roster leaves a roster that
\* the group never had, or in which this node was not active.
THEOREM MembershipCacheIsHistory == Spec => []CacheIsHistory
<1>1. MembershipInv => CacheIsHistory
  BY DEF MembershipInv, DeviceOK, NodeOK, PeekOK, MemberIn, CacheIsHistory
<1> QED  BY <1>1, MembershipInvariant, PTL

\* A node that restore_or_init_node or refresh_membership calls Revoked is retired in
\* the hub's roster, and stays so.
THEOREM MembershipRevokedIsRetired == Spec => []RevokedIsRetired
<1>1. MembershipInv => RevokedIsRetired
  BY DEF MembershipInv, DeviceOK, NodeOK, RevokedIsRetired
<1> QED  BY <1>1, MembershipInvariant, PTL

\* logout wipes the local state only of a node that the hub no longer knows, and that
\* has left the roster if it was in it, unless the hub had removed it.
THEOREM MembershipLogoutIsComplete == Spec => []LogoutIsComplete
<1>1. MembershipInv => LogoutIsComplete
  BY DEF MembershipInv, DeviceOK, OpOK, LogoutIsComplete
<1> QED  BY <1>1, MembershipInvariant, PTL

\* The roster that the hub stores evolves as the abstract group does, by founding,
\* endorsing, expelling and leaving: the version check is enough.
THEOREM MembershipImplementsGroup == Spec => RefinesGroupMembership
<1>1. Init => GroupInit  BY DEF Init, GroupInit
<1>2. MembershipInv /\ [Next]_vars => [GroupNext]_log
  <2> SUFFICES ASSUME MembershipInv, Next, log' # log PROVE GroupNext
    BY DEF vars
  <2>1. PICK q \in requests : StoreRoster(q)
    <3>1. ASSUME NEW d \in Devices,
                 \/ Restore(d) \/ DeleteState(d) \/ Refresh(d)
                 \/ Crash(d) \/ Fail(d) \/ ReturnRefusal(d) \/ StartServing(d)
          PROVE  log' = log
      BY <3>1 DEF Restore, DeleteState, Refresh, Crash, Fail, ReturnRefusal, StartServing,
                  hubVars
    <3>2. ASSUME NEW d \in Devices,
                 \/ Register(d) \/ SaveRegistration(d)
                 \/ Pair(d) \/ SubmitActivation(d) \/ FinishActivation(d)
                 \/ FinishRevoke(d) \/ \E k \in Assigned : StartActivation(d, k)
          PROVE  log' = log
      BY <3>2 DEF Register, SaveRegistration, Pair, SubmitActivation, FinishActivation,
                  FinishRevoke, StartActivation, hubVars
    <3>3. ASSUME NEW d \in Devices,
                 \/ ContinueLogout(d) \/ Deregister(d) \/ FinishLogout(d)
                 \/ FetchPeer(d) \/ CacheFetched(d)
          PROVE  log' = log
      BY <3>3 DEF ContinueLogout, Deregister, FinishLogout, FetchPeer, CacheFetched, hubVars
    <3>4. ASSUME NEW d \in Devices, StartLogout(d) PROVE log' = log
      <4>1. node[d].state \in States /\ node[d].state # "Down"
        BY <3>4 DEF StartLogout, MembershipInv, DeviceOK, NodeOK
      <4>2. CASE node[d].state = "Activated"
        BY <3>4, <4>2 DEF StartLogout, SubmitRevocation
      <4>3. CASE node[d].state = "Pending"
        BY <3>4, <4>3 DEF StartLogout, hubVars
      <4>4. CASE node[d].state \in {"Registered", "Revoked"}
        BY <3>4, <4>4 DEF StartLogout, hubVars
      <4> QED  BY <4>1, <4>2, <4>3, <4>4 DEF States
    <3>5. ASSUME NEW d \in Devices, NEW k \in Assigned, StartRevoke(d, k) PROVE log' = log
      BY <3>5 DEF StartRevoke, SubmitRevocation
    <3>6. ASSUME NEW k \in Assigned, RemoveNode(k) PROVE log' = log  BY <3>6 DEF RemoveNode
    <3>7. ASSUME NEW q \in requests, CosignAtEndorser(q) \/ RefuseRoster(q) PROVE log' = log
      BY <3>7 DEF CosignAtEndorser, RefuseRoster
    <3> QED  BY <3>1, <3>2, <3>3, <3>4, <3>5, <3>6, <3>7 DEF Next
  <2>2. HubOK /\ Acceptable(q)  BY <2>1 DEF MembershipInv, StoreRoster
  <2>3. PICK c : c = q.change  OBVIOUS
  <2>4. /\ LegalChange(log, c) /\ c \in Changes(Assigned)
        /\ log' = Append(log, c) /\ Len(log) < MaxVersion
        /\ c.kind = "revocation" /\ c.node = c.by => Active(log) # {c.node}
    BY <2>1, <2>2, <2>3, AcceptableBase DEF StoreRoster
  <2>5. /\ c.node \in Numbers /\ c.by \in Numbers
        /\ \/ c.kind = "activation" /\ c = Activated(c.node, c.by)
           \/ c.kind = "revocation" /\ c = RevokedBy(c.node, c.by)
    <3>1. Assigned \subseteq Numbers  BY <2>2 DEF HubOK, Assigned
    <3> QED  BY <2>4, <3>1, ChangeForms
  <2>6. CASE c.kind = "activation" /\ log = <<>>
    <3>1. Found(c.node, c.by)  BY <2>4, <2>5, <2>6 DEF Found, LegalChange
    <3> QED  BY <2>4, <2>5, <3>1 DEF GroupNext
  <2>7. CASE c.kind = "activation" /\ log # <<>>
    <3>1. Endorse(c.node, c.by)  BY <2>4, <2>5, <2>7 DEF Endorse, LegalChange
    <3> QED  BY <2>4, <2>5, <3>1 DEF GroupNext
  <2>8. CASE c.kind = "revocation" /\ c.node # c.by
    <3>1. Expel(c.node, c.by)  BY <2>4, <2>5, <2>8 DEF Expel, LegalChange
    <3> QED  BY <2>4, <2>5, <3>1 DEF GroupNext
  <2>9. CASE c.kind = "revocation" /\ c.node = c.by
    <3>1. Leave(c.node)  BY <2>4, <2>5, <2>9 DEF Leave, LegalChange
    <3> QED  BY <2>4, <2>5, <3>1 DEF GroupNext
  <2> QED  BY <2>5, <2>6, <2>7, <2>8, <2>9
<1> QED
  BY <1>1, <1>2, MembershipInit, MembershipNext, PTL
     DEF Spec, RefinesGroupMembership, GroupSpec

\* So what the abstract group promises holds of the stored roster: it never loses its
\* last member, and a number has one life.
THEOREM MembershipKeepsGroup == Spec => [](NeverEmpty /\ OneLife)
  BY MembershipImplementsGroup, GroupNeverEmpty, GroupOneLife, PTL
     DEF RefinesGroupMembership

-----------------------------------------------------------------------------
(* What a node's step may do to its standing and to its cached roster *)

\* Only these steps change a node.
LEMMA NodeChanges ==
    ASSUME MembershipInv, Next, NEW d \in Devices, node'[d] # node[d]
    PROVE  \/ Restore(d) \/ Refresh(d) \/ Crash(d) \/ SaveRegistration(d) \/ FinishLogout(d)
           \/ FinishActivation(d) \/ FinishRevoke(d) \/ CacheFetched(d)
<1>1. DOMAIN node = Devices  BY DEF MembershipInv, Shape
<1>2. ASSUME NEW e \in Devices,
             \/ Restore(e) \/ Refresh(e) \/ Crash(e) \/ SaveRegistration(e) \/ FinishLogout(e)
             \/ FinishActivation(e) \/ FinishRevoke(e) \/ CacheFetched(e)
      PROVE  e = d
  BY <1>1, <1>2 DEF Restore, Refresh, Crash, SaveRegistration, FinishLogout,
                    FinishActivation, FinishRevoke, CacheFetched
<1>3. ASSUME NEW e \in Devices,
             \/ DeleteState(e) \/ Fail(e) \/ ReturnRefusal(e) \/ StartServing(e) \/ Register(e)
             \/ Pair(e) \/ SubmitActivation(e) \/ ContinueLogout(e) \/ Deregister(e)
             \/ FetchPeer(e)
      PROVE  FALSE
  BY <1>3 DEF DeleteState, Fail, ReturnRefusal, StartServing, Register, Pair,
              SubmitActivation, ContinueLogout, Deregister, FetchPeer
<1>4. ASSUME NEW e \in Devices, StartLogout(e) PROVE FALSE
  <2>1. node[e].state \in States /\ node[e].state # "Down"
    BY <1>4 DEF StartLogout, MembershipInv, DeviceOK, NodeOK
  <2>2. node[e].state # "Activated"  BY <1>4 DEF StartLogout, SubmitRevocation
  <2>3. node[e].state # "Pending"  BY <1>4 DEF StartLogout
  <2>4. node[e].state \notin {"Registered", "Revoked"}  BY <1>4 DEF StartLogout
  <2> QED  BY <2>1, <2>2, <2>3, <2>4 DEF States
<1>5. ASSUME NEW e \in Devices, NEW k \in Assigned, StartActivation(e, k) \/ StartRevoke(e, k)
      PROVE  FALSE
  BY <1>5 DEF StartActivation, StartRevoke, SubmitRevocation
<1>6. ASSUME NEW k \in Assigned, RemoveNode(k) PROVE FALSE  BY <1>6 DEF RemoveNode
<1>7. ASSUME NEW q \in requests, CosignAtEndorser(q) \/ StoreRoster(q) \/ RefuseRoster(q)
      PROVE  FALSE
  BY <1>7 DEF CosignAtEndorser, StoreRoster, RefuseRoster
<1> QED  BY <1>2, <1>3, <1>4, <1>5, <1>6, <1>7 DEF Next

\* A member of an older version of the roster is listed in the present one, which is at
\* least as long.
LEMMA MembersStayListed ==
    ASSUME HubOK, NEW k, NEW r, MemberIn(k, r) PROVE k \in Listed(log) /\ Len(r) <= Len(log)
<1>1. r \in Seq(Changes(Assigned)) /\ log \in Seq(Changes(Assigned))
  BY DEF HubOK, MemberIn, IsRoster
<1>2. Len(r) <= Len(log) /\ \A i \in 1..Len(r) : r[i] = log[i]
  BY <1>1, PrefixElements DEF MemberIn
<1>3. DOMAIN r = 1..Len(r) /\ DOMAIN log = 1..Len(log) /\ Len(r) \in Nat /\ Len(log) \in Nat
  BY <1>1
<1>4. DOMAIN r \subseteq DOMAIN log  BY <1>2, <1>3
<1>5. k \in Listed(r)  BY DEF MemberIn, Active
<1> QED  BY <1>2, <1>3, <1>4, <1>5 DEF Listed

\* As long as it keeps its number, a node that was admitted is not turned back into one
\* that was not, and a revoked one does not return.
KeepsStanding(d) ==
    (node[d].number # NoNumber /\ node'[d].number = node[d].number) =>
        /\ node[d].state = "Activated" => node'[d].state \in {"Activated", "Revoked"}
        /\ node[d].state = "Revoked" => node'[d].state = "Revoked"

\* The roster of an activated node becomes an older one.
CacheGoesBack(d) ==
    /\ node[d].state = "Activated" /\ node'[d].state = "Activated"
    /\ Len(node'[d].cache) < Len(node[d].cache)

\* What a step does to a node, by the step.
LEMMA NodeSteps ==
    ASSUME MembershipInv, Next, NEW d \in Devices
    PROVE  KeepsStanding(d) /\ (CacheGoesBack(d) => FinishRevoke(d) \/ CacheFetched(d))
<1>1. HubOK /\ NodeOK(d) /\ OpOK(d) /\ PeekOK(d) /\ d \in DOMAIN node
  BY DEF MembershipInv, DeviceOK, Shape
<1>2. Len(node[d].cache) \in Nat /\ Len(log) \in Nat
  BY <1>1 DEF NodeOK, HubOK, IsRoster
<1>3. CASE node'[d] = node[d]
  BY <1>2, <1>3 DEF KeepsStanding, CacheGoesBack
<1>4. CASE Restore(d) \/ Crash(d) \/ FinishLogout(d) \/ SaveRegistration(d)
  <2>1. node[d].state \in {"Down", "Pending"} \/ node'[d] \in {Down, PendingNode}
    BY <1>1, <1>4 DEF Restore, Crash, FinishLogout, SaveRegistration, OpOK
  <2> QED
    BY <1>1, <2>1 DEF NodeOK, Down, PendingNode, KeepsStanding, CacheGoesBack
<1>5. CASE Refresh(d)
  <2>1. node'[d] = Classified(node[d].number, log)  BY <1>1, <1>5 DEF Refresh
  <2>2. CASE node[d].state = "Activated"
    <3>1. node[d].number \in Listed(log) /\ Len(node[d].cache) <= Len(log)
      BY <1>1, <2>2, MembersStayListed DEF NodeOK
    <3>2. node'[d] \in {ActivatedNode(node[d].number, log), RevokedNode(node[d].number)}
      BY <2>1, <3>1 DEF Classified
    <3> QED
      BY <1>2, <2>2, <3>1, <3>2
         DEF ActivatedNode, RevokedNode, KeepsStanding, CacheGoesBack
  <2>3. CASE node[d].state = "Revoked"
    <3>1. node[d].number \in Listed(log) \ Active(log)
      BY <1>1, <2>3 DEF NodeOK, HubOK, Active
    <3> QED
      BY <2>1, <2>3, <3>1 DEF Classified, RevokedNode, KeepsStanding, CacheGoesBack
  <2> QED  BY <2>2, <2>3 DEF KeepsStanding, CacheGoesBack
<1>6. CASE FinishActivation(d)
  <2>1. node[d].state = "Registered"
    BY <1>1, <1>6 DEF FinishActivation, OpOK, AwaitOK
  <2> QED  BY <2>1 DEF KeepsStanding, CacheGoesBack
<1>7. CASE FinishRevoke(d) \/ CacheFetched(d)
  <2>1. DOMAIN node[d] = {"state", "number", "cache"}  BY <1>1 DEF NodeOK
  <2>2. node'[d].state = node[d].state
    BY <1>1, <1>7, <2>1 DEF FinishRevoke, CacheFetched
  <2> QED  BY <1>7, <2>2 DEF KeepsStanding
<1> QED  BY <1>3, <1>4, <1>5, <1>6, <1>7, NodeChanges

\* refresh_membership, and every other step, leaves a node its standing: Activated only
\* turns into Revoked, which is terminal for the number (node.rs:1053).
THEOREM MembershipKeepsStanding == Spec => [][\A d \in Devices : KeepsStanding(d)]_vars
<1>1. MembershipInv /\ [Next]_vars => [\A d \in Devices : KeepsStanding(d)]_vars
  BY NodeSteps
<1> QED  BY <1>1, MembershipInvariant, PTL DEF Spec

\* With a hub that keeps its roster, an activated node replaces its cached roster by an
\* older one in two places only, both behind &self and so able to overtake each other: at
\* the end of revoke_node and at the end of find_peer_in_roster.
THEOREM MembershipCacheGoesBack ==
    Spec => [][\A d \in Devices :
                   CacheGoesBack(d) => FinishRevoke(d) \/ CacheFetched(d)]_vars
<1>1. MembershipInv /\ [Next]_vars =>
        [\A d \in Devices : CacheGoesBack(d) => FinishRevoke(d) \/ CacheFetched(d)]_vars
  BY NodeSteps
<1> QED  BY <1>1, MembershipInvariant, PTL DEF Spec
=============================================================================
