------------------------------- MODULE FfiNode -------------------------------
(***************************************************************************)
(* The C interface to a node, its connections and its streams              *)
(* (wispers-connect/src/ffi/node.rs, p2p.rs, types.rs).                    *)
(*                                                                         *)
(* Every asynchronous entry point works alike: it checks its pointers,     *)
(* takes what it needs of the handle, spawns a task on the library's       *)
(* runtime and returns; the task ends by calling the application back.     *)
(* What tells the entry points apart is written down in one record each.   *)
(* A node's calls share one tokio mutex, first come first served.          *)
(*                                                                         *)
(* The application calls from any number of threads, and may give a handle *)
(* back while calls are in flight, except that of a connection or stream:  *)
(* "safe as long as the caller doesn't free the handle while recv is       *)
(* pending".  Its callbacks return.                                        *)
(***************************************************************************)
EXTENDS Naturals, Sequences, FiniteSets

CONSTANT Calls      \* calls that can be in flight together

ASSUME FfiNodeAssumption == "nobody" \notin Calls

VARIABLES
    nodeState,  \* Node::state()
    handle,     \* handle[h]: the application holds one of kind h
    holder,     \* the call that has the node's mutex, or "nobody"
    queue,      \* the calls that wait for it
    op          \* op[c]: call c

vars == <<nodeState, handle, holder, queue, op>>

HandleKinds == {"node", "udp", "quic", "stream"}
NodeStates == {"Pending", "Registered", "Activated", "Revoked"}
NoOp == [fn |-> "none", pc |-> "idle", seen |-> "none", result |-> "none"]

-----------------------------------------------------------------------------
(* The entry points: the handle each needs, how its task keeps it (a clone of
   an Arc, a raw pointer, or the handle itself, which the call consumes), what
   its callback gives, and whether the callback is made under the node's mutex. *)

EntryPoint(needs, keeps, gives, locked) ==
    [needs |-> needs, keeps |-> keeps, gives |-> gives, locked |-> locked]

\* Mutant: the task reads the node through the caller's pointer.
RegisterBorrowing == EntryPoint("node", "pointer", "nothing", TRUE)

wispers_node_register_async == EntryPoint("node", "clone", "nothing", TRUE)
wispers_node_activate_async == EntryPoint("node", "clone", "nothing", TRUE)
wispers_node_logout_async == EntryPoint("node", "handle", "nothing", FALSE)
wispers_node_revoke_node_async == EntryPoint("node", "clone", "nothing", FALSE)
wispers_node_refresh_membership_async == EntryPoint("node", "clone", "nothing", FALSE)
wispers_node_group_info_async == EntryPoint("node", "clone", "nothing", TRUE)
wispers_node_connect_udp_async == EntryPoint("node", "clone", "udp", TRUE)
wispers_node_connect_quic_async == EntryPoint("node", "clone", "quic", TRUE)
wispers_udp_connection_recv_async == EntryPoint("udp", "pointer", "nothing", FALSE)
wispers_quic_connection_open_stream_async == EntryPoint("quic", "pointer", "stream", FALSE)
wispers_quic_connection_accept_stream_async == EntryPoint("quic", "pointer", "stream", FALSE)
wispers_quic_connection_ping_async == EntryPoint("quic", "pointer", "nothing", FALSE)
wispers_quic_connection_close_async == EntryPoint("quic", "handle", "nothing", FALSE)
wispers_quic_connection_close_with_error_async == EntryPoint("quic", "handle", "nothing", FALSE)
wispers_quic_stream_write_async == EntryPoint("stream", "pointer", "nothing", FALSE)
wispers_quic_stream_read_async == EntryPoint("stream", "pointer", "nothing", FALSE)
wispers_quic_stream_finish_async == EntryPoint("stream", "pointer", "nothing", FALSE)
wispers_quic_stream_shutdown_async == EntryPoint("stream", "pointer", "nothing", FALSE)
\* Two that wait for the mutex on the application's own thread (blocking_lock).
wispers_node_state == EntryPoint("node", "pointer", "nothing", FALSE)
wispers_node_start_serving_async == EntryPoint("node", "clone", "nothing", FALSE)

NodeEntryPoints ==
    [register |-> wispers_node_register_async,
     activate |-> wispers_node_activate_async,
     logout |-> wispers_node_logout_async,
     revoke_node |-> wispers_node_revoke_node_async,
     refresh_membership |-> wispers_node_refresh_membership_async,
     group_info |-> wispers_node_group_info_async,
     connect_udp |-> wispers_node_connect_udp_async,
     connect_quic |-> wispers_node_connect_quic_async,
     state |-> wispers_node_state,
     start_serving |-> wispers_node_start_serving_async]

ConnectionEntryPoints ==
    [recv |-> wispers_udp_connection_recv_async,
     open_stream |-> wispers_quic_connection_open_stream_async,
     accept_stream |-> wispers_quic_connection_accept_stream_async,
     ping |-> wispers_quic_connection_ping_async,
     close |-> wispers_quic_connection_close_async,
     close_with_error |-> wispers_quic_connection_close_with_error_async,
     write |-> wispers_quic_stream_write_async,
     read |-> wispers_quic_stream_read_async,
     finish |-> wispers_quic_stream_finish_async,
     shutdown |-> wispers_quic_stream_shutdown_async]

NodeFunctions == DOMAIN NodeEntryPoints
ConnectionFunctions == DOMAIN ConnectionEntryPoints
Row(f) == IF f \in NodeFunctions THEN NodeEntryPoints[f] ELSE ConnectionEntryPoints[f]
SyncFunctions == {"state", "start_serving"}

\* wispers_storage_restore_or_init_async has given the application a node.
Init ==
    /\ nodeState \in NodeStates
    /\ handle = [h \in HandleKinds |-> h = "node"]
    /\ holder = "nobody" /\ queue = <<>>
    /\ op = [c \in Calls |-> NoOp]

-----------------------------------------------------------------------------
(* Calling *)

\* Call c is over, or was never made.
Over(c) == op[c].pc \in {"idle", "refused", "reported"}

\* Calls that read handle h through the application's pointer.
UsedThroughPointer(h) ==
    \E c \in Calls :
        /\ ~Over(c)
        /\ Row(op[c].fn).needs = h /\ Row(op[c].fn).keeps = "pointer"

\* The application may give h back now: always, for a node.  While it is inside
\* wispers_node_state it keeps the node it asked about.
MayGiveBack(h) ==
    /\ handle[h]
    /\ h = "node" => ~\E c \in Calls : op[c].fn = "state"
    /\ h # "node" => ~UsedThroughPointer(h)

\* A pointer or the callback is NULL, or a string is not UTF-8: the call returns
\* an error, is never called back, and has not consumed its handle.
Refuse(c, f) ==
    /\ Over(c) /\ handle[Row(f).needs]
    /\ f # "state"
    /\ op' = [op EXCEPT ![c] = [NoOp EXCEPT !.pc = "refused"]]
    /\ UNCHANGED <<nodeState, handle, holder, queue>>

\* The call returns Success (a blocking one does not return yet) and its task
\* waits for the node's mutex, or works on the connection.
Invoke(c, f) ==
    /\ Over(c)
    /\ LET row == Row(f)
       IN  /\ IF row.keeps = "handle" THEN MayGiveBack(row.needs) ELSE handle[row.needs]
           /\ handle' = [handle EXCEPT ![row.needs] = row.keeps # "handle"]
           /\ op' = [op EXCEPT ![c] = [NoOp EXCEPT !.fn = f, !.pc =
                        IF f \in NodeFunctions THEN "queued" ELSE "inside"]]
           /\ queue' = IF f \in NodeFunctions THEN Append(queue, c) ELSE queue
    /\ UNCHANGED <<nodeState, holder>>

\* wispers_node_free, wispers_udp_connection_free and _close,
\* wispers_quic_connection_free, wispers_quic_stream_free
Free(h) ==
    /\ MayGiveBack(h)
    /\ handle' = [handle EXCEPT ![h] = FALSE]
    /\ UNCHANGED <<nodeState, holder, queue, op>>

-----------------------------------------------------------------------------
(* The node's operations under its mutex *)

\* Mutant: a task does not wait for the one before it.
LockWithoutWaiting(c) == queue # <<>> /\ Head(queue) = c

LockGranted(c) == queue # <<>> /\ Head(queue) = c /\ holder = "nobody"

\* The state checks of Node's methods: require_pending, require_registered, ...
\* InvalidState also stands for the error Revoked.
Admitted(f) ==
    CASE f = "register" -> {"Pending"}
      [] f = "activate" -> {"Registered"}
      [] f \in {"revoke_node", "connect_udp", "connect_quic"} -> {"Activated"}
      [] f \in {"group_info", "start_serving"} -> NodeStates \ {"Pending"}
      [] OTHER -> NodeStates

\* The mutex is taken and the state looked at.  A blocking call reads what it
\* needs and lets go at once.
Enter(c) ==
    /\ LockGranted(c)
    /\ queue' = Tail(queue)
    /\ LET f == op[c].fn
           done == f \in SyncFunctions \/ nodeState \notin Admitted(f)
           result == IF nodeState \notin Admitted(f) THEN "InvalidState"
                     ELSE IF f = "state" THEN nodeState ELSE "ok"
       IN  /\ op' = [op EXCEPT ![c].pc = IF done THEN "answered" ELSE "inside",
                               ![c].seen = IF done THEN "none" ELSE nodeState,
                               ![c].result = IF done THEN result ELSE "none"]
           /\ holder' = IF done /\ ~Row(f).locked THEN "nobody" ELSE c
    /\ UNCHANGED <<nodeState, handle>>

\* The states in which a method that was admitted in state seen can leave the
\* node when it succeeds.  Only refresh_membership depends on the roster.
Leaves(f, seen) ==
    CASE f = "register" -> {"Registered"}
      [] f = "activate" -> {"Activated"}
      [] f = "logout" -> {"Pending"}
      [] f = "refresh_membership" ->
            IF seen = "Pending" THEN {"Pending"} ELSE NodeStates \ {"Pending"}
      [] OTHER -> {nodeState}

\* The hub and the store have answered.  A method that fails assigns nothing.
\* refresh_membership of a node that is Pending asks nobody and cannot fail.
Finish(c) ==
    /\ op[c].pc = "inside" /\ op[c].fn \in NodeFunctions
    /\ LET f == op[c].fn
       IN  /\ \/ /\ nodeState' \in Leaves(f, op[c].seen)
                 /\ op' = [op EXCEPT ![c] = [@ EXCEPT !.pc = "answered", !.seen = "none", !.result = "ok"]]
              \/ /\ ~(f = "refresh_membership" /\ op[c].seen = "Pending")
                 /\ op' = [op EXCEPT ![c] = [@ EXCEPT !.pc = "answered", !.seen = "none", !.result = "error"]]
                 /\ UNCHANGED nodeState
           /\ holder' = IF Row(f).locked THEN holder ELSE "nobody"
    /\ UNCHANGED <<handle, queue>>

\* An operation of a connection or stream ends.
FinishOnConnection(c) ==
    /\ op[c].pc = "inside" /\ op[c].fn \in ConnectionFunctions
    /\ \E result \in {"ok", "error"} :
            op' = [op EXCEPT ![c].pc = "answered", ![c].result = result]
    /\ UNCHANGED <<nodeState, handle, holder, queue>>

\* Mutant: the guard outlives the task that took it.
ReportKeepingLock(c) ==
    /\ op[c].pc = "answered"
    /\ op' = [op EXCEPT ![c] = [NoOp EXCEPT !.pc = "reported"]]
    /\ LET given == Row(op[c].fn).gives
       IN  IF given # "nothing" /\ op[c].result = "ok"
           THEN handle' = [handle EXCEPT ![given] = TRUE] ELSE UNCHANGED handle
    /\ UNCHANGED <<nodeState, queue, holder>>

\* Mutant: an early return on an error path forgets the callback.
ReportSuccessOnly(c) ==
    /\ op[c].pc = "answered" /\ op[c].result # "error"
    /\ op' = [op EXCEPT ![c] = [NoOp EXCEPT !.pc = "reported"]]
    /\ LET given == Row(op[c].fn).gives
       IN  IF given # "nothing" THEN handle' = [handle EXCEPT ![given] = TRUE]
           ELSE UNCHANGED handle
    /\ holder' = IF holder = c THEN "nobody" ELSE holder
    /\ UNCHANGED <<nodeState, queue>>

\* The callback, or a blocking call's return; then the task ends and with it
\* the guard it still holds.
Report(c) ==
    /\ op[c].pc = "answered"
    /\ op' = [op EXCEPT ![c] = [NoOp EXCEPT !.pc = "reported"]]
    /\ LET given == Row(op[c].fn).gives
       IN  IF given # "nothing" /\ op[c].result = "ok"
           THEN handle' = [handle EXCEPT ![given] = TRUE] ELSE UNCHANGED handle
    /\ holder' = IF holder = c THEN "nobody" ELSE holder
    /\ UNCHANGED <<nodeState, queue>>

-----------------------------------------------------------------------------
Next ==
    \/ \E c \in Calls :
        \/ \E f \in NodeFunctions \cup ConnectionFunctions : Refuse(c, f) \/ Invoke(c, f)
        \/ Enter(c) \/ Finish(c) \/ FinishOnConnection(c) \/ Report(c)
    \/ \E h \in HandleKinds : Free(h)

\* The runtime polls its tasks, the hub's calls end, and callbacks return.
Fairness ==
    \A c \in Calls : WF_vars(Enter(c) \/ Finish(c) \/ Report(c))

Spec == Init /\ [][Next]_vars /\ Fairness

-----------------------------------------------------------------------------
(* Properties *)

\* The variables have their types, the queue holds the calls that wait, and the
\* mutex is held by a task that is still there to release it.
TypeOK ==
    /\ nodeState \in NodeStates
    /\ handle \in [HandleKinds -> BOOLEAN]
    /\ holder \in Calls \cup {"nobody"}
    /\ queue \in Seq(Calls)
    /\ {queue[i] : i \in DOMAIN queue} = {c \in Calls : op[c].pc = "queued"}
    /\ holder # "nobody" => op[holder].pc \in {"inside", "answered"}
    /\ \A c \in Calls :
        /\ op[c].fn \in NodeFunctions \cup ConnectionFunctions \cup {"none"}
        /\ op[c].pc \in {"idle", "refused", "queued", "inside", "answered", "reported"}

\* No task works through a pointer that the application has given back,
\* although it may free or log out a node while calls on it are in flight.
NoDanglingUse ==
    \A h \in HandleKinds : UsedThroughPointer(h) => handle[h]

\* Calls in flight together take effect one at a time: the state checks of a
\* method, the hub calls it awaits and its assignment are one, also against a
\* logout that has consumed the handle.
Asked(c) ==
    IF op[c].fn \in NodeFunctions
    THEN IF op[c].fn \in {"connect_udp", "connect_quic"} THEN "connect" ELSE op[c].fn
    ELSE "none"
Answered(c) == IF Asked(c) # "none" THEN op[c].result ELSE "none"

Atomic == INSTANCE AtomicNode WITH
    state <- nodeState,
    asked <- [c \in Calls |-> Asked(c)],
    answer <- [c \in Calls |-> Answered(c)]

RefinesAtomicNode == Atomic!Spec

\* Every call on a node that was accepted is called back, and every blocking
\* one returns, whatever waits for the mutex before it.
NodeCallsReport ==
    \A c \in Calls :
        (op[c].fn \in NodeFunctions /\ op[c].pc = "queued") ~> (op[c].pc = "reported")
=============================================================================
