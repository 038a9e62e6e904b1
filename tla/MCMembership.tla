---------------------------- MODULE MCMembership ----------------------------
(* Membership on a few devices, from the beginning or from a founded group. *)
EXTENDS Membership

CONSTANTS d1, d2, d3

MCSymmetry == Permutations(Devices)

\* d1 and d2 have founded the group, where d1 endorsed d2 and does not know yet
\* that it is a member; d3 has registered.
FoundedInit ==
    /\ log = <<Activated(2, 1)>>
    /\ registered = 1..3
    /\ owner = <<d1, d2, d3>>
    /\ requests = {}
    /\ cosigned = {}
    /\ disk = (d1 :> 1) @@ (d2 :> 2) @@ (d3 :> 3)
    /\ node = (d1 :> RegisteredNode(1)) @@ (d2 :> ActivatedNode(2, log))
                @@ (d3 :> RegisteredNode(3))
    /\ op = [d \in Devices |-> Idle]
    /\ peek = [d \in Devices |-> NoRoster]
    /\ session = (d1 :> 1) @@ (d2 :> NoNumber) @@ (d3 :> NoNumber)
    /\ pending = {}
    /\ attempts = 1
    /\ faults = 0
    /\ removed = {}

FoundedSpec == FoundedInit /\ [][Next]_vars
=============================================================================
