----------------------------- MODULE FfiServing -----------------------------
(***************************************************************************)
(* The C interface to a serving session (wispers-connect/src/ffi/          *)
(* serving.rs).  Each asynchronous entry point checks its pointers, spawns *)
(* a task on the library's runtime and returns; the task ends by calling   *)
(* the application back.  The application holds three handles, for the     *)
(* session's commands (owned, in ServingSession), for the session that it  *)
(* has not started yet (phase "created") and for the receivers, and may    *)
(* free each of them at any time, also while calls are in flight: the      *)
(* tasks work on clones.                                                   *)
(*                                                                         *)
(* Actions have the names of the entry points.  A task's step ends with    *)
(* its callback, which is the application's code and changes nothing here. *)
(***************************************************************************)
EXTENDS ServingSession

CONSTANT Acceptors   \* accept calls that can be in flight together

VARIABLES
    starting,   \* the start_serving call: "idle", "opening", "reported"
    running,    \* the session_run call: "idle", "accepted", "reported"
    receivers,  \* the application holds the receivers' handle
    accept      \* accept[a]: the accept call a, its transport and its result

ffiVars == <<starting, running, receivers, accept>>

NoAccept == [pc |-> "idle", via |-> "none", got |-> "none"]

FfiIdle ==
    /\ starting = "off" /\ running = "idle" /\ receivers = FALSE
    /\ accept = [a \in Acceptors |-> NoAccept]

FfiInit ==
    /\ SessionInit
    /\ starting = "idle" /\ running = "idle" /\ receivers = FALSE
    /\ accept = [a \in Acceptors |-> NoAccept]

-----------------------------------------------------------------------------
(* Starting and running *)

wispers_node_start_serving_async ==
    /\ starting = "idle"
    /\ starting' = "opening"
    /\ UNCHANGED <<running, receivers, accept, sessionVars>>

\* start_serving_impl, then the callback: with the three handles or with an
\* error, after which the application may try again.
ServingStarts ==
    /\ starting = "opening"
    /\ \/ starting' = "reported" /\ receivers' = TRUE /\ Create
       \/ starting' = "idle" /\ UNCHANGED <<receivers, sessionVars>>
    /\ UNCHANGED <<running, accept>>

\* The session's handle is consumed.
wispers_serving_session_run_async ==
    /\ running = "idle" /\ Run
    /\ running' = "accepted"
    /\ UNCHANGED <<starting, receivers, accept>>

RunReports ==
    /\ running = "accepted" /\ phase = "ended"
    /\ running' = "reported"
    /\ UNCHANGED <<starting, receivers, accept, sessionVars>>

wispers_serving_session_free == DropUnstarted /\ UNCHANGED ffiVars

-----------------------------------------------------------------------------
(* Commands *)

wispers_serving_handle_status_async(c) ==
    /\ owned /\ call[c] = NoCall
    /\ call' = [call EXCEPT ![c] = Calling("status")]
    /\ UNCHANGED <<runVars, hubVars, inHand, commands, owned, connectionVars, ffiVars>>

\* generate_activation_code_impl, for either lifetime.
wispers_serving_handle_generate_activation_code_async(c) ==
    /\ owned /\ call[c] = NoCall
    /\ call' = [call EXCEPT ![c] = Calling("code")]
    /\ UNCHANGED <<runVars, hubVars, inHand, commands, owned, connectionVars, ffiVars>>

wispers_serving_handle_shutdown_async(c) ==
    /\ owned /\ call[c] = NoCall
    /\ call' = [call EXCEPT ![c] = Calling("shutdown")]
    /\ UNCHANGED <<runVars, hubVars, inHand, commands, owned, connectionVars, ffiVars>>

\* The handle's method returns and the callback is made.
CommandReports(c) ==
    /\ starting = "reported" /\ call[c].pc = "returned"
    /\ call' = [call EXCEPT ![c] = NoCall]
    /\ UNCHANGED <<runVars, hubVars, inHand, commands, owned, connectionVars, ffiVars>>

\* Calls in flight keep their own clones.
wispers_serving_handle_free ==
    /\ owned
    /\ owned' = FALSE
    /\ UNCHANGED <<runVars, hubVars, inHand, commands, call, connectionVars, ffiVars>>

-----------------------------------------------------------------------------
(* Incoming connections *)

\* The application calls again and again: a call's record is used anew.
wispers_incoming_accept_udp_async(a) ==
    /\ receivers /\ accept[a].pc # "accepted"
    /\ accept' = [accept EXCEPT ![a] = [pc |-> "accepted", via |-> "udp", got |-> "none"]]
    /\ UNCHANGED <<starting, running, receivers, sessionVars>>

wispers_incoming_accept_quic_async(a) ==
    /\ receivers /\ accept[a].pc # "accepted"
    /\ accept' = [accept EXCEPT ![a] = [pc |-> "accepted", via |-> "quic", got |-> "none"]]
    /\ UNCHANGED <<starting, running, receivers, sessionVars>>

\* Those who keep transport t's receiver after the application's handle or the
\* call of a is gone: each accept in flight has a clone of its Arc.
StillListening(handle, t, a) ==
    handle \/ \E b \in Acceptors \ {a} : accept[b].pc = "accepted" /\ accept[b].via = t

\* recv, by whoever has the receiver's lock, then the callback: a connection,
\* or that the channel is closed.  When nobody keeps the receiver any more the
\* connections in its channel are dropped with it.
AcceptReports(a) ==
    /\ accept[a].pc = "accepted"
    /\ LET t == accept[a].via
       IN  /\ \/ /\ incoming[t] # <<>>
                 /\ accept' = [accept EXCEPT ![a].pc = "reported", ![a].got = "connection"]
                 /\ incoming' = [incoming EXCEPT ![t] =
                                    IF StillListening(receivers, t, a) THEN Tail(@) ELSE <<>>]
              \/ /\ Closed(t)
                 /\ accept' = [accept EXCEPT ![a].pc = "reported", ![a].got = "closed"]
                 /\ UNCHANGED incoming
           /\ listening' = [listening EXCEPT ![t] = StillListening(receivers, t, a)]
    /\ UNCHANGED <<runVars, hubVars, inHand, commandVars, tasks, starting, running, receivers>>

wispers_incoming_connections_free ==
    /\ receivers
    /\ receivers' = FALSE
    /\ listening' = [t \in Transports |-> StillListening(FALSE, t, "none")]
    /\ incoming' = [t \in Transports |-> IF listening'[t] THEN incoming[t] ELSE <<>>]
    /\ UNCHANGED <<runVars, hubVars, inHand, commandVars, tasks, starting, running, accept>>

-----------------------------------------------------------------------------
FfiNext ==
    \/ wispers_node_start_serving_async \/ ServingStarts
    \/ wispers_serving_session_run_async \/ RunReports \/ wispers_serving_session_free
    \/ \E c \in Callers :
        \/ wispers_serving_handle_status_async(c)
        \/ wispers_serving_handle_generate_activation_code_async(c)
        \/ wispers_serving_handle_shutdown_async(c)
        \/ CommandReports(c)
    \/ wispers_serving_handle_free
    \/ \E a \in Acceptors :
        \/ wispers_incoming_accept_udp_async(a) \/ wispers_incoming_accept_quic_async(a)
        \/ AcceptReports(a)
    \/ wispers_incoming_connections_free
    \/ SessionNext /\ UNCHANGED ffiVars

\* The runtime polls the library's tasks; nothing is assumed of the application.
FfiFairness ==
    LET vars == <<sessionVars, ffiVars>>
    IN  /\ WF_vars(ServingStarts \/ RunReports)
        /\ \A c \in Callers : WF_vars(CommandReports(c))
        /\ \A a \in Acceptors : WF_vars(AcceptReports(a))

-----------------------------------------------------------------------------
(* Properties *)

\* The interface's variables have their types.
FfiTypeOK ==
    /\ SessionTypeOK
    /\ starting \in {"off", "idle", "opening", "reported"}
    /\ running \in {"idle", "accepted", "reported"}
    /\ receivers \in BOOLEAN
    /\ accept \in [Acceptors -> [pc : {"idle", "accepted", "reported"},
                                 via : Transports \cup {"none"},
                                 got : {"none", "connection", "closed"}]]

\* An accept call that reports "channel closed (session ended)" is right: no
\* connection is queued, and none that was accepted before the session ended is
\* still to come.  An application stops accepting when it hears this.
ClosedIsFinal ==
    \A a \in Acceptors :
        accept[a].got = "closed" =>
            /\ incoming[accept[a].via] = <<>>
            /\ ~\E k \in tasks : k.via = accept[a].via
            /\ ~(inHand.pc = "respond" /\ inHand.kind = accept[a].via)

\* Once the session has ended no accept call waits forever.
AcceptsEnd ==
    \A a \in Acceptors :
        (accept[a].pc = "accepted" /\ phase = "ended") ~> (accept[a].pc # "accepted")
=============================================================================
