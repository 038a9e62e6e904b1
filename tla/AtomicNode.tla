----------------------------- MODULE AtomicNode -----------------------------
(***************************************************************************)
(* What the C interface promises about calls on one node handle that are   *)
(* in flight together: each takes effect at once, at some moment between   *)
(* the call and its callback, and the answer is the one that belongs to    *)
(* the node's state at that moment.  FfiNode implements it with a mutex    *)
(* that is held across calls to the hub.                                   *)
(***************************************************************************)
CONSTANT Calls

VARIABLES
    state,      \* the node's state
    asked,      \* asked[c]: the function call c is in, or "none"
    answer      \* answer[c]: its answer, once it has taken effect

States == {"Pending", "Registered", "Activated", "Revoked"}
Functions == {"register", "activate", "logout", "revoke_node", "refresh_membership",
              "group_info", "connect", "start_serving", "state"}

\* The answers a function may give in state s, each with the state it leaves.
Either(s, t) == {<<"ok", t>>, <<"error", s>>}
Never(s) == {<<"InvalidState", s>>}

Effects(f, s) ==
    CASE f = "register" -> IF s = "Pending" THEN Either(s, "Registered") ELSE Never(s)
      [] f = "activate" -> IF s = "Registered" THEN Either(s, "Activated") ELSE Never(s)
      [] f = "logout" -> Either(s, "Pending")
      [] f = "refresh_membership" ->
            IF s = "Pending" THEN {<<"ok", s>>}
            ELSE UNION {Either(s, t) : t \in States \ {"Pending"}}
      [] f \in {"revoke_node", "connect"} -> IF s = "Activated" THEN Either(s, s) ELSE Never(s)
      [] f = "group_info" -> IF s = "Pending" THEN Never(s) ELSE Either(s, s)
      [] f = "start_serving" -> IF s = "Pending" THEN Never(s) ELSE {<<"ok", s>>}
      [] f = "state" -> {<<s, s>>}

Init ==
    /\ state \in States
    /\ asked = [c \in Calls |-> "none"]
    /\ answer = [c \in Calls |-> "none"]

Ask(c) ==
    /\ asked[c] = "none"
    /\ \E f \in Functions : asked' = [asked EXCEPT ![c] = f]
    /\ UNCHANGED <<state, answer>>

TakeEffect(c) ==
    /\ asked[c] # "none" /\ answer[c] = "none"
    /\ \E e \in Effects(asked[c], state) :
            answer' = [answer EXCEPT ![c] = e[1]] /\ state' = e[2]
    /\ UNCHANGED asked

Answer(c) ==
    /\ answer[c] # "none"
    /\ asked' = [asked EXCEPT ![c] = "none"]
    /\ answer' = [answer EXCEPT ![c] = "none"]
    /\ UNCHANGED state

Next == \E c \in Calls : Ask(c) \/ TakeEffect(c) \/ Answer(c)

Spec == Init /\ [][Next]_<<state, asked, answer>>
=============================================================================
