-------------------------- MODULE GroupMembership --------------------------
(***************************************************************************)
(* The promise of the roster protocol: membership changes one step at a    *)
(* time, every step is taken by a member, nobody returns once revoked, and *)
(* the group never loses its last member.                                  *)
(*                                                                         *)
(* The actions name their outcome before their guards: a step of a         *)
(* detailed specification is then matched against the outcome first, which *)
(* is what makes checking the refinement affordable.                       *)
(***************************************************************************)
EXTENDS Group

CONSTANTS
    Numbers,        \* node numbers
    MaxVersion      \* bound on the roster's version

ASSUME GroupAssumption == MaxVersion \in Nat

VARIABLE log        \* the changes the group has agreed on

GroupInit == log = <<>>

\* Two nodes that paired start the group.
Found(n, e) ==
    /\ log = <<>>
    /\ n # e
    /\ log' = <<Activated(n, e)>>

\* A member brings in a node that never was one.
Endorse(n, e) ==
    /\ log' = Append(log, Activated(n, e))
    /\ e \in Active(log)
    /\ n \notin Listed(log)

\* A member removes another.
Expel(x, r) ==
    /\ log' = Append(log, RevokedBy(x, r))
    /\ {x, r} \subseteq Active(log)
    /\ x # r

\* A member leaves, others remain.
Leave(x) ==
    /\ log' = Append(log, RevokedBy(x, x))
    /\ x \in Active(log)
    /\ Active(log) # {x}

GroupNext ==
    /\ Len(log) < MaxVersion
    /\ \/ \E n, e \in Numbers : Found(n, e) \/ Endorse(n, e) \/ Expel(n, e)
       \/ \E x \in Numbers : Leave(x)

GroupSpec == GroupInit /\ [][GroupNext]_log

-----------------------------------------------------------------------------
\* The roster is a sequence of changes, within the bound.
LogTypeOK == log \in Seq(Changes(Numbers)) /\ Len(log) <= MaxVersion

\* A group that was founded keeps a member, so somebody can endorse the next
\* node (LastActiveNode, node.rs:1270-1272).
NeverEmpty == log # <<>> => Active(log) # {}

\* A number has one life: it is brought in once, as a founder or by an
\* endorsement, and removed once at most ("a revoked node number is permanently
\* retired", node.rs:1053).
OneLife ==
    /\ \A i, j \in 1..Len(log) :
         i < j /\ log[i].kind = log[j].kind => log[i].node # log[j].node
    /\ \A i \in 1..Len(log) :
         log[i].kind = "activation" => log[i].node # log[1].by
=============================================================================
