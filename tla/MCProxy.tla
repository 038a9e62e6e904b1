------------------------------ MODULE MCProxy -------------------------------
(***************************************************************************)
(* Model checking of the data path of wconnect: the pool that the clients  *)
(* of a proxy share, and one forwarded connection from end to end.  A      *)
(* behaviour is of one of the two from its initial state on.               *)
(***************************************************************************)
EXTENDS ConnectionPool, Forwarding

\* Two units of data in each direction: one may arrive and the next be lost.
MCUnits == <<"u1", "u2">>

vars == <<poolVars, forwardVars>>

\* The kinds of front end, each with policies that make a difference to it: what it
\* asks for is allowed or refused, or refused and, cut short, allowed elsewhere.
MCForwardingInit ==
    \/ ForwardingInitFrom("http", {"FORWARD"})
    \/ ForwardingInitFrom("socks", {"CONNECT"})
    \/ \E allowed \in {{}, {"FORWARD"}} : ForwardingInitFrom("forward", allowed)
    \/ ForwardingInitFrom("ping", {})

Init == PoolInit /\ (ForwardingIdle \/ MCForwardingInit)

Next ==
    \/ front.kind = "none" /\ PoolNext /\ UNCHANGED forwardVars
    \/ front.kind # "none" /\ ForwardingNext /\ UNCHANGED poolVars

Spec == Init /\ [][Next]_vars /\ ForwardingFairness
=============================================================================
