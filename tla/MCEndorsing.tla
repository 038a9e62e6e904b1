---------------------------- MODULE MCEndorsing ----------------------------
(* Endorsing with two joining nodes, two code lifetimes and a limit of two. *)
EXTENDS Endorsing, TLC

MCTtl == [p \in Profiles |-> IF p = "interactive" THEN 1 ELSE 2]
MCSymmetry == Permutations(Joiners)
=============================================================================
