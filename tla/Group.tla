------------------------------- MODULE Group -------------------------------
(***************************************************************************)
(* What a connectivity group's roster says about its members.  A verified  *)
(* roster is determined by its addenda, so it is kept as the sequence of   *)
(* its changes; its version is the length of that sequence.  The first     *)
(* change is the bootstrap, which brings in both nodes it names.           *)
(***************************************************************************)
EXTENDS Integers, Sequences, FiniteSets

Activated(n, e) == [kind |-> "activation", node |-> n, by |-> e]
RevokedBy(x, r) == [kind |-> "revocation", node |-> x, by |-> r]
Changes(numbers) ==
    [kind : {"activation", "revocation"}, node : numbers, by : numbers]

\* The node numbers a roster lists, revoked or not (roster.nodes).
Listed(log) ==
    {log[i].node : i \in {j \in DOMAIN log : log[j].kind = "activation"}}
    \cup {log[i].by : i \in {j \in DOMAIN log : j = 1}}

\* The node numbers it marks as revoked.
Retired(log) ==
    {log[i].node : i \in {j \in DOMAIN log : log[j].kind = "revocation"}}

\* active_nodes
Active(log) == Listed(log) \ Retired(log)

\* Mutant: a node that was removed may come back under its old number.
LegalChangeAgain(log, change) ==
    IF change.kind = "activation"
    THEN /\ change.node \notin Active(log) \cup {change.by}
         /\ log = <<>> \/ change.by \in Active(log)
    ELSE {change.node, change.by} \subseteq Active(log)

\* One more change that verify_roster accepts: the signers are active, the new
\* node was never listed, the revoked one is active.
LegalChange(log, change) ==
    IF change.kind = "activation"
    THEN /\ change.node # change.by
         /\ change.node \notin Listed(log)
         /\ log = <<>> \/ change.by \in Active(log)
    ELSE {change.node, change.by} \subseteq Active(log)
=============================================================================
