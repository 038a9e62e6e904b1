--------------------------- MODULE MCRosterChain ---------------------------
(* RosterChain with three nodes. *)
EXTENDS RosterChain, TLC

MCSymmetry == Permutations(Numbers)
=============================================================================
