---------------------------- MODULE FfiNodeProofs ----------------------------
(***************************************************************************)
(* Calls of the C interface on one node, for any number of them in flight. *)
(*                                                                         *)
(* A call that has been let in still finds the node in the state in which  *)
(* it was let in, because whoever is inside holds the mutex; that is what  *)
(* makes the check, the hub calls and the assignment one effect.           *)
(***************************************************************************)
EXTENDS FfiNode, TLAPS

USE FfiNodeAssumption

Functions == NodeFunctions \cup ConnectionFunctions
Ops == [fn : Functions \cup {"none"},
        pc : {"idle", "refused", "queued", "inside", "answered", "reported"},
        seen : NodeStates \cup {"none"},
        result : NodeStates \cup {"none", "ok", "error", "InvalidState"}]

\* A call that is over, or was never made, has left no trace.
OverIsBlank ==
    \A c \in Calls : Over(c) <=> op[c].fn = "none"

\* Each call waits once in the queue, and it is the node's calls that wait.
QueueOnce ==
    /\ \A i, j \in DOMAIN queue : queue[i] = queue[j] => i = j
    /\ \A c \in Calls : op[c].pc = "queued" => op[c].fn \in NodeFunctions

\* A call inside the node holds the mutex, was admitted, and the node is still
\* in the state that it saw then.
InsideHolds ==
    \A c \in Calls :
        op[c].pc = "inside" /\ op[c].fn \in NodeFunctions =>
            /\ holder = c
            /\ op[c].fn \notin SyncFunctions
            /\ op[c].seen = nodeState /\ nodeState \in Admitted(op[c].fn)

\* A call has an answer exactly from the moment it has taken effect.
AnsweredOnce ==
    \A c \in Calls : op[c].result # "none" <=> op[c].pc = "answered"

Inv ==
    /\ TypeOK /\ op \in [Calls -> Ops]
    /\ OverIsBlank /\ QueueOnce /\ InsideHolds /\ AnsweredOnce /\ NoDanglingUse

-----------------------------------------------------------------------------
(* The table of entry points *)

\* The functions of a node and of connections are different ones.
LEMMA FunctionNames ==
    /\ NodeFunctions = {"register", "activate", "logout", "revoke_node",
                        "refresh_membership", "group_info", "connect_udp",
                        "connect_quic", "state", "start_serving"}
    /\ ConnectionFunctions = {"recv", "open_stream", "accept_stream", "ping", "close",
                              "close_with_error", "write", "read", "finish", "shutdown"}
  BY DEF NodeFunctions, ConnectionFunctions, NodeEntryPoints, ConnectionEntryPoints

\* What a row of the table can say: only the accessor reads a node through the
\* application's pointer.
LEMMA RowFacts ==
    ASSUME NEW f \in Functions
    PROVE  /\ Row(f).needs \in HandleKinds
           /\ Row(f).keeps \in {"clone", "pointer", "handle"}
           /\ Row(f).gives \in HandleKinds \cup {"nothing"}
           /\ Row(f).locked \in BOOLEAN
           /\ f \in SyncFunctions => ~Row(f).locked
           /\ Row(f).needs = "node" /\ Row(f).keeps = "pointer" => f = "state"
           /\ Row(f).needs = "node" <=> f \in NodeFunctions
<1> USE DEF Row, EntryPoint, HandleKinds, SyncFunctions
<1>1. CASE f \in NodeFunctions
  <2>1. CASE f = "register"
    BY <1>1, <2>1 DEF NodeEntryPoints, wispers_node_register_async
  <2>2. CASE f = "activate"
    BY <1>1, <2>2 DEF NodeEntryPoints, wispers_node_activate_async
  <2>3. CASE f = "logout"
    BY <1>1, <2>3 DEF NodeEntryPoints, wispers_node_logout_async
  <2>4. CASE f = "revoke_node"
    BY <1>1, <2>4 DEF NodeEntryPoints, wispers_node_revoke_node_async
  <2>5. CASE f = "refresh_membership"
    BY <1>1, <2>5 DEF NodeEntryPoints, wispers_node_refresh_membership_async
  <2>6. CASE f = "group_info"
    BY <1>1, <2>6 DEF NodeEntryPoints, wispers_node_group_info_async
  <2>7. CASE f = "connect_udp"
    BY <1>1, <2>7 DEF NodeEntryPoints, wispers_node_connect_udp_async
  <2>8. CASE f = "connect_quic"
    BY <1>1, <2>8 DEF NodeEntryPoints, wispers_node_connect_quic_async
  <2>9. CASE f = "state"
    BY <1>1, <2>9 DEF NodeEntryPoints, wispers_node_state
  <2>10. CASE f = "start_serving"
    BY <1>1, <2>10 DEF NodeEntryPoints, wispers_node_start_serving_async
  <2> QED
    BY <1>1, <2>1, <2>2, <2>3, <2>4, <2>5, <2>6, <2>7, <2>8, <2>9, <2>10, FunctionNames
<1>2. CASE f \in ConnectionFunctions
  <2>0. f \notin NodeFunctions  BY <1>2, FunctionNames
  <2>1. CASE f = "recv"
    BY <2>0, <2>1 DEF ConnectionEntryPoints,
       wispers_udp_connection_recv_async
  <2>2. CASE f = "open_stream"
    BY <2>0, <2>2 DEF ConnectionEntryPoints,
       wispers_quic_connection_open_stream_async
  <2>3. CASE f = "accept_stream"
    BY <2>0, <2>3 DEF ConnectionEntryPoints,
       wispers_quic_connection_accept_stream_async
  <2>4. CASE f = "ping"
    BY <2>0, <2>4 DEF ConnectionEntryPoints,
       wispers_quic_connection_ping_async
  <2>5. CASE f = "close"
    BY <2>0, <2>5 DEF ConnectionEntryPoints,
       wispers_quic_connection_close_async
  <2>6. CASE f = "close_with_error"
    BY <2>0, <2>6 DEF ConnectionEntryPoints,
       wispers_quic_connection_close_with_error_async
  <2>7. CASE f = "write"
    BY <2>0, <2>7 DEF ConnectionEntryPoints,
       wispers_quic_stream_write_async
  <2>8. CASE f = "read"
    BY <2>0, <2>8 DEF ConnectionEntryPoints,
       wispers_quic_stream_read_async
  <2>9. CASE f = "finish"
    BY <2>0, <2>9 DEF ConnectionEntryPoints,
       wispers_quic_stream_finish_async
  <2>10. CASE f = "shutdown"
    BY <2>0, <2>10 DEF ConnectionEntryPoints,
       wispers_quic_stream_shutdown_async
  <2> QED
    BY <1>2, <2>1, <2>2, <2>3, <2>4, <2>5, <2>6, <2>7, <2>8, <2>9, <2>10, FunctionNames
<1> QED  BY <1>1, <1>2 DEF Functions

-----------------------------------------------------------------------------
(* Joining and leaving a queue *)

Waiting(q) == {q[i] : i \in DOMAIN q}
Once(q) == \A i, j \in DOMAIN q : q[i] = q[j] => i = j

\* A newcomer is added to those who wait.
LEMMA JoinQueue ==
    ASSUME NEW S, NEW q \in Seq(S), NEW e \in S, Once(q), e \notin Waiting(q)
    PROVE  /\ Append(q, e) \in Seq(S) /\ Once(Append(q, e))
           /\ Waiting(Append(q, e)) = Waiting(q) \cup {e}
<1>1. /\ Append(q, e) \in Seq(S)
      /\ DOMAIN q = 1..Len(q) /\ Len(q) \in Nat
      /\ DOMAIN Append(q, e) = 1..(Len(q) + 1)
  OBVIOUS
<1>2. /\ Append(q, e)[Len(q) + 1] = e
      /\ \A i \in 1..Len(q) : Append(q, e)[i] = q[i]
  OBVIOUS
<1>3. \A i \in 1..(Len(q) + 1) : i \in 1..Len(q) \/ i = Len(q) + 1
  BY <1>1
<1>4. Once(Append(q, e))  BY <1>1, <1>2, <1>3 DEF Once, Waiting
<1>5. Waiting(Append(q, e)) = Waiting(q) \cup {e}  BY <1>1, <1>2, <1>3 DEF Waiting
<1> QED  BY <1>1, <1>4, <1>5

\* The first one leaves, and waits no more.
LEMMA LeaveQueue ==
    ASSUME NEW S, NEW q \in Seq(S), q # <<>>, Once(q)
    PROVE  /\ Tail(q) \in Seq(S) /\ Once(Tail(q)) /\ Head(q) \in Waiting(q)
           /\ Waiting(Tail(q)) = Waiting(q) \ {Head(q)}
<1>1. /\ Tail(q) \in Seq(S) /\ Head(q) = q[1]
      /\ DOMAIN q = 1..Len(q) /\ Len(q) \in Nat \ {0}
      /\ DOMAIN Tail(q) = 1..(Len(q) - 1)
  OBVIOUS
<1>2. \A i \in 1..(Len(q) - 1) : Tail(q)[i] = q[i + 1] /\ i + 1 \in 1..Len(q)
  BY <1>1
<1>3. \A i \in 1..Len(q) : i = 1 \/ (i - 1 \in 1..(Len(q) - 1) /\ (i - 1) + 1 = i)
  BY <1>1
<1>4. Once(Tail(q))  BY <1>1, <1>2 DEF Once
<1>5. Waiting(Tail(q)) = Waiting(q) \ {Head(q)}
  <2>1. Waiting(Tail(q)) \subseteq Waiting(q) \ {Head(q)}
    BY <1>1, <1>2 DEF Waiting, Once
  <2>2. ASSUME NEW x \in Waiting(q) \ {Head(q)} PROVE x \in Waiting(Tail(q))
    <3>1. PICK i \in 1..Len(q) : x = q[i]  BY <1>1 DEF Waiting
    <3>2. i # 1  BY <1>1, <3>1
    <3>3. i - 1 \in 1..(Len(q) - 1) /\ Tail(q)[i - 1] = x  BY <1>2, <1>3, <3>1, <3>2
    <3> QED  BY <1>1, <3>3 DEF Waiting
  <2> QED  BY <2>1, <2>2
<1> QED  BY <1>1, <1>4, <1>5 DEF Waiting

-----------------------------------------------------------------------------
(* The invariant *)

\* The invariant holds initially.
LEMMA InitInv == Init => Inv
<1> SUFFICES ASSUME Init PROVE Inv  OBVIOUS
<1>1. /\ op \in [Calls -> Ops]
      /\ \A c \in Calls : op[c] = NoOp
  BY DEF Init, NoOp, Ops
<1>2. TypeOK  BY <1>1 DEF TypeOK, Init, HandleKinds, NoOp
<1>3. OverIsBlank /\ QueueOnce /\ InsideHolds /\ AnsweredOnce
  BY <1>1, FunctionNames
     DEF Init, OverIsBlank, QueueOnce, InsideHolds, AnsweredOnce, NoOp, Over
<1>4. NoDanglingUse  BY <1>1 DEF NoDanglingUse, UsedThroughPointer, Over, NoOp
<1> QED  BY <1>1, <1>2, <1>3, <1>4 DEF Inv

\* A call that the library refuses leaves everything as it was.
LEMMA RefuseInv ==
    ASSUME Inv, NEW c \in Calls, NEW f \in Functions, Refuse(c, f)
    PROVE  Inv'
<1> USE DEF Inv, Refuse, NoOp
<1>1. /\ op' \in [Calls -> Ops]
      /\ \A d \in Calls \ {c} : op'[d] = op[d]
      /\ op'[c] = [NoOp EXCEPT !.pc = "refused"]
  BY DEF Ops
<1>2. TypeOK'  BY <1>1 DEF TypeOK, Over
<1>3. (OverIsBlank /\ QueueOnce /\ InsideHolds /\ AnsweredOnce)'
  BY <1>1, FunctionNames DEF OverIsBlank, QueueOnce, InsideHolds, AnsweredOnce, Over
<1>4. NoDanglingUse'  BY <1>1 DEF NoDanglingUse, UsedThroughPointer, Over
<1> QED  BY <1>1, <1>2, <1>3, <1>4

\* A call that is accepted joins the queue or starts on its connection, and takes
\* its handle only if nobody works through it.
LEMMA InvokeInv ==
    ASSUME Inv, NEW c \in Calls, NEW f \in Functions, Invoke(c, f)
    PROVE  Inv'
<1> USE DEF Inv, Invoke
<1> DEFINE isNode == f \in NodeFunctions
<1>1. /\ op' \in [Calls -> Ops]
      /\ \A d \in Calls \ {c} : op'[d] = op[d]
      /\ op'[c].fn = f /\ op'[c].result = "none"
      /\ op'[c].pc = IF isNode THEN "queued" ELSE "inside"
  BY DEF Ops, NoOp, Functions
<1>2. c \notin Waiting(queue) /\ Once(queue) /\ queue \in Seq(Calls)
  BY DEF Waiting, Once, TypeOK, QueueOnce, Over
<1>3. /\ queue' \in Seq(Calls) /\ Once(queue')
      /\ Waiting(queue') = IF isNode THEN Waiting(queue) \cup {c} ELSE Waiting(queue)
  BY <1>2, JoinQueue
<1>4. handle' \in [HandleKinds -> BOOLEAN]  BY RowFacts DEF TypeOK
<1>5. TypeOK'
  <2>1. Waiting(queue') = {d \in Calls : op'[d].pc = "queued"}
    <3>1. Waiting(queue) = {d \in Calls : op[d].pc = "queued"}  BY DEF Waiting, TypeOK
    <3> QED  BY <1>1, <1>3, <3>1 DEF Over
  <2>2. holder' # "nobody" => op'[holder'].pc \in {"inside", "answered"}
    BY <1>1 DEF TypeOK, Over
  <2> QED  BY <1>1, <1>3, <1>4, <2>1, <2>2 DEF TypeOK, Waiting, Ops, Functions
<1>6. (OverIsBlank /\ AnsweredOnce)'
  BY <1>1, FunctionNames DEF OverIsBlank, AnsweredOnce, Over, Functions
<1>7. QueueOnce'  BY <1>1, <1>3 DEF QueueOnce, Once
<1>8. InsideHolds'  BY <1>1 DEF InsideHolds
<1>9. NoDanglingUse'
  <2> SUFFICES ASSUME NEW h \in HandleKinds, NEW d \in Calls, ~Over(d)',
                      Row(op'[d].fn).needs = h, Row(op'[d].fn).keeps = "pointer"
               PROVE  handle'[h]
    BY DEF NoDanglingUse, UsedThroughPointer
  <2>1. CASE d = c
    BY <1>1, <2>1, RowFacts DEF TypeOK
  <2>2. CASE d # c
    <3>1. UsedThroughPointer(h) /\ handle[h]
      BY <1>1, <2>2 DEF UsedThroughPointer, Over, NoDanglingUse
    <3>2. h = "node" => op[d].fn = "state"
      BY <1>1, <2>2, RowFacts DEF TypeOK, Over, OverIsBlank, Functions
    <3>3. Row(f).needs = h => Row(f).keeps # "handle"
      BY <3>1, <3>2 DEF MayGiveBack
    <3> QED  BY <3>1, <3>3, RowFacts DEF TypeOK
  <2> QED  BY <2>1, <2>2
<1> QED  BY <1>1, <1>5, <1>6, <1>7, <1>8, <1>9

\* Giving a handle back is refused while somebody works through it.
LEMMA FreeInv == ASSUME Inv, NEW h \in HandleKinds, Free(h) PROVE Inv'
<1> USE DEF Inv, Free
<1>1. TypeOK'  BY DEF TypeOK
<1>2. (OverIsBlank /\ QueueOnce /\ InsideHolds /\ AnsweredOnce)'
  BY DEF OverIsBlank, QueueOnce, InsideHolds, AnsweredOnce, Over
<1>3. NoDanglingUse'
  <2>1. ~UsedThroughPointer(h)
    BY RowFacts
       DEF MayGiveBack, UsedThroughPointer, TypeOK, Over, OverIsBlank, Functions
  <2> QED  BY <2>1 DEF NoDanglingUse, UsedThroughPointer, Over, TypeOK
<1> QED  BY <1>1, <1>2, <1>3

\* The first in the queue is let in, or answered at once.
LEMMA EnterInv == ASSUME Inv, NEW c \in Calls, Enter(c) PROVE Inv'
<1> USE DEF Inv, Enter, LockGranted
<1> DEFINE f == op[c].fn
           done == f \in SyncFunctions \/ nodeState \notin Admitted(f)
<1>0. op[c] \in Ops /\ DOMAIN op = Calls  OBVIOUS
<1>1. op[c].pc = "queued" /\ f \in NodeFunctions /\ f \in Functions
  <2>1. c \in Waiting(queue)  BY LeaveQueue DEF TypeOK, QueueOnce, Once
  <2> QED  BY <2>1 DEF Waiting, TypeOK, QueueOnce, Functions
<1>2. /\ op' \in [Calls -> Ops]
      /\ \A d \in Calls \ {c} : op'[d] = op[d]
      /\ op'[c].fn = f
      /\ op'[c].pc = IF done THEN "answered" ELSE "inside"
      /\ op'[c].seen = IF done THEN "none" ELSE nodeState
      /\ op'[c].result # "none" <=> done
  <2> DEFINE p == IF done THEN "answered" ELSE "inside"
             s == IF done THEN "none" ELSE nodeState
             r == IF ~done THEN "none"
                  ELSE IF nodeState \notin Admitted(f) THEN "InvalidState"
                  ELSE IF f = "state" THEN nodeState ELSE "ok"
             v == [op[c] EXCEPT !.pc = p, !.seen = s, !.result = r]
  <2>1. op' = [op EXCEPT ![c].pc = p, ![c].seen = s, ![c].result = r]  OBVIOUS
  <2>2. /\ p \in {"inside", "answered"} /\ s \in NodeStates \cup {"none"}
        /\ r \in NodeStates \cup {"none", "ok", "InvalidState"}
        /\ r # "none" <=> done
    BY DEF TypeOK, NodeStates
  <2> HIDE DEF p, s, r, done, Inv, Enter
  <2>3. op' = [op EXCEPT ![c] = v]  BY <1>0, <2>1 DEF Ops
  <2>4. v \in Ops /\ v.fn = f /\ v.pc = p /\ v.seen = s /\ v.result = r
    BY <1>0, <2>2 DEF Ops
  <2> HIDE DEF v
  <2>5. /\ op' \in [Calls -> Ops] /\ op'[c] = v
        /\ \A d \in Calls \ {c} : op'[d] = op[d]
    BY <2>3, <2>4 DEF Inv
  <2> QED  BY <2>2, <2>4, <2>5 DEF p, s
<1>3. /\ queue' \in Seq(Calls) /\ Once(queue')
      /\ Waiting(queue') = Waiting(queue) \ {c}
  BY LeaveQueue DEF TypeOK, QueueOnce, Once
<1>4. TypeOK'
  <2>1. Waiting(queue') = {d \in Calls : op'[d].pc = "queued"}
    <3>1. Waiting(queue) = {d \in Calls : op[d].pc = "queued"}  BY DEF Waiting, TypeOK
    <3> QED  BY <1>2, <1>3, <3>1
  <2>2. holder' \in Calls \cup {"nobody"}  BY DEF TypeOK
  <2>3. holder' # "nobody" => op'[holder'].pc \in {"inside", "answered"}
    BY <1>2
  <2>4. \A d \in Calls : op'[d] \in Ops  BY <1>2
  <2> QED  BY <1>3, <2>1, <2>2, <2>3, <2>4 DEF TypeOK, Waiting, Ops, Functions
<1>5. (OverIsBlank /\ AnsweredOnce)'
  BY <1>1, <1>2 DEF OverIsBlank, AnsweredOnce, Over
<1>6. QueueOnce'  BY <1>2, <1>3 DEF QueueOnce, Once
<1>7. InsideHolds'  BY <1>2 DEF InsideHolds
<1>8. NoDanglingUse'  BY <1>1, <1>2 DEF NoDanglingUse, UsedThroughPointer, Over
<1> QED  BY <1>2, <1>4, <1>5, <1>6, <1>7, <1>8

\* A method of the node ends: nobody else is inside to be surprised.
LEMMA FinishInv == ASSUME Inv, NEW c \in Calls, Finish(c) PROVE Inv'
<1> USE DEF Inv, Finish
<1>1. /\ holder = c /\ nodeState \in NodeStates
      /\ op[c].fn \in NodeFunctions /\ op[c].seen = nodeState
  BY DEF InsideHolds, TypeOK
<1>2. nodeState' \in NodeStates  BY <1>1 DEF Leaves, NodeStates
<1>3. /\ op' \in [Calls -> Ops]
      /\ \A d \in Calls \ {c} : op'[d] = op[d]
      /\ op'[c].fn = op[c].fn /\ op'[c].pc = "answered" /\ op'[c].result # "none"
  <2>1. PICK result \in {"ok", "error"} :
            op' = [op EXCEPT ![c] = [@ EXCEPT !.pc = "answered", !.seen = "none",
                                              !.result = result]]
    OBVIOUS
  <2>2. [op[c] EXCEPT !.pc = "answered", !.seen = "none", !.result = result] \in Ops
    BY DEF Ops
  <2> QED  BY <2>1, <2>2 DEF Ops
<1>4. TypeOK'  BY <1>1, <1>2, <1>3 DEF TypeOK
<1>5. (OverIsBlank /\ QueueOnce /\ AnsweredOnce)'
  BY <1>1, <1>3 DEF OverIsBlank, QueueOnce, AnsweredOnce, Over
<1>6. InsideHolds'  BY <1>1, <1>3 DEF InsideHolds
<1>7. NoDanglingUse'  BY <1>3 DEF NoDanglingUse, UsedThroughPointer, Over
<1> QED  BY <1>3, <1>4, <1>5, <1>6, <1>7

\* An operation of a connection ends; the node is not concerned.
LEMMA FinishOnConnectionInv ==
    ASSUME Inv, NEW c \in Calls, FinishOnConnection(c) PROVE Inv'
<1> USE DEF Inv, FinishOnConnection
<1>1. /\ op' \in [Calls -> Ops]
      /\ \A d \in Calls \ {c} : op'[d] = op[d]
      /\ op'[c].fn = op[c].fn /\ op'[c].pc = "answered" /\ op'[c].result # "none"
  <2>1. PICK result \in {"ok", "error"} :
            op' = [op EXCEPT ![c].pc = "answered", ![c].result = result]
    OBVIOUS
  <2>2. [op[c] EXCEPT !.pc = "answered", !.result = result] \in Ops
    BY DEF Ops
  <2>3. op' = [op EXCEPT ![c] = [op[c] EXCEPT !.pc = "answered", !.result = result]]
    BY <2>1 DEF Ops
  <2> QED  BY <2>2, <2>3 DEF Ops
<1>2. TypeOK'  BY <1>1 DEF TypeOK
<1>3. (OverIsBlank /\ QueueOnce /\ InsideHolds /\ AnsweredOnce)'
  BY <1>1 DEF OverIsBlank, QueueOnce, InsideHolds, AnsweredOnce, Over
<1>4. NoDanglingUse'  BY <1>1 DEF NoDanglingUse, UsedThroughPointer, Over
<1> QED  BY <1>1, <1>2, <1>3, <1>4

\* The callback gives a handle at most, and the mutex goes with its holder.
LEMMA ReportInv == ASSUME Inv, NEW c \in Calls, Report(c) PROVE Inv'
<1> USE DEF Inv, Report
<1>1. /\ op' \in [Calls -> Ops]
      /\ \A d \in Calls \ {c} : op'[d] = op[d]
      /\ op'[c].fn = "none" /\ op'[c].pc = "reported" /\ op'[c].result = "none"
  BY DEF Ops, NoOp
<1>2. op[c].fn \in Functions  BY DEF OverIsBlank, Over, TypeOK, Functions
<1>3. /\ handle' \in [HandleKinds -> BOOLEAN]
      /\ \A h \in HandleKinds : handle[h] => handle'[h]
  BY <1>2, RowFacts DEF TypeOK
<1>4. TypeOK'  BY <1>1, <1>3 DEF TypeOK
<1>5. (OverIsBlank /\ QueueOnce /\ InsideHolds /\ AnsweredOnce)'
  BY <1>1 DEF OverIsBlank, QueueOnce, InsideHolds, AnsweredOnce, Over
<1>6. NoDanglingUse'  BY <1>1, <1>3 DEF NoDanglingUse, UsedThroughPointer, Over
<1> QED  BY <1>1, <1>4, <1>5, <1>6

\* The invariant is inductive.
LEMMA NextInv == Inv /\ [Next]_vars => Inv'
<1> SUFFICES ASSUME Inv, [Next]_vars PROVE Inv'  OBVIOUS
<1>1. CASE UNCHANGED vars
  BY <1>1 DEF vars, Inv, TypeOK, OverIsBlank, QueueOnce, InsideHolds, AnsweredOnce,
              NoDanglingUse, UsedThroughPointer, Over
<1>2. CASE Next
  BY <1>2, RefuseInv, InvokeInv, EnterInv, FinishInv, FinishOnConnectionInv, ReportInv,
     FreeInv DEF Next, Functions
<1> QED  BY <1>1, <1>2

-----------------------------------------------------------------------------
\* Every variable keeps its type, the queue holds exactly the calls that wait, and
\* the mutex has a holder that will release it.
THEOREM FfiTypeCorrect == Spec => []TypeOK
<1>1. Inv => TypeOK  BY DEF Inv
<1> QED  BY <1>1, InitInv, NextInv, PTL DEF Spec

\* No task of a C call works through a pointer that the application has given
\* back, however many calls are in flight when it frees or logs out the node.
THEOREM FfiNoDanglingUse == Spec => []NoDanglingUse
<1>1. Inv => NoDanglingUse  BY DEF Inv
<1> QED  BY <1>1, InitInv, NextInv, PTL DEF Spec

-----------------------------------------------------------------------------
(* The refinement: what is asked, and which answers have taken effect *)

asked == [c \in Calls |-> Asked(c)]
answer == [c \in Calls |-> Answered(c)]
abstract == <<nodeState, asked, answer>>

\* What a call asks and was answered depends on its own record only.
LEMMA OwnRecord ==
    ASSUME NEW c \in Calls, op'[c].fn = op[c].fn, op'[c].result = op[c].result
    PROVE  Asked(c)' = Asked(c) /\ Answered(c)' = Answered(c)
  BY DEF Asked, Answered

\* Calls of a node ask for one of the abstract functions, all others for none; an
\* answer is there once the call is answered.
LEMMA AskedFacts ==
    ASSUME NEW c \in Calls
    PROVE  /\ op[c].fn \in NodeFunctions =>
                Asked(c) \in Atomic!Functions /\ Asked(c) # "none" /\ Answered(c) = op[c].result
           /\ op[c].fn \notin NodeFunctions => Asked(c) = "none" /\ Answered(c) = "none"
  BY FunctionNames DEF Asked, Answered, Atomic!Functions

\* A step that takes a call from one record to another changes the abstract state
\* at that call only.
LEMMA OneCall ==
    ASSUME NEW c \in Calls, \A d \in Calls \ {c} : op'[d] = op[d]
    PROVE  /\ asked' = [asked EXCEPT ![c] = Asked(c)']
           /\ answer' = [answer EXCEPT ![c] = Answered(c)']
<1>1. \A d \in Calls \ {c} : Asked(d)' = Asked(d) /\ Answered(d)' = Answered(d)
  BY OwnRecord
<1> QED  BY <1>1 DEF asked, answer

\* Calls that the library refuses are not seen; the others ask.
LEMMA RefuseStutters ==
    ASSUME Inv, NEW c \in Calls, NEW f \in Functions, Refuse(c, f)
    PROVE  UNCHANGED abstract
<1>1. \A d \in Calls \ {c} : op'[d] = op[d]  BY DEF Refuse, Inv
<1>2. op[c].fn = "none" /\ op'[c].fn = "none"
  BY DEF Refuse, Inv, OverIsBlank, NoOp
<1>3. Asked(c)' = Asked(c) /\ Answered(c)' = Answered(c)
  BY <1>2, FunctionNames DEF Asked, Answered
<1>4. asked' = asked /\ answer' = answer  BY <1>1, <1>3, OneCall DEF asked, answer
<1> QED  BY <1>4 DEF abstract, Refuse

\* A call on the node asks; one on a connection is not seen.
LEMMA InvokeAsks ==
    ASSUME Inv, NEW c \in Calls, NEW f \in Functions, Invoke(c, f)
    PROVE  Atomic!Ask(c) \/ UNCHANGED abstract
<1>1. \A d \in Calls \ {c} : op'[d] = op[d]  BY DEF Invoke, Inv
<1>2. /\ op[c].fn = "none"
      /\ op'[c].fn = f /\ op'[c].result = "none"
  BY DEF Invoke, Inv, OverIsBlank, NoOp
<1>3. Asked(c) = "none" /\ Answered(c) = "none" /\ Answered(c)' = "none"
  BY <1>2, FunctionNames DEF Asked, Answered
<1>4. CASE f \in NodeFunctions
  <2>1. Asked(c)' \in Atomic!Functions
    BY <1>2, <1>4, FunctionNames DEF Asked, Atomic!Functions
  <2>2. answer' = answer  BY <1>1, <1>3, OneCall DEF answer
  <2>3. asked' = [asked EXCEPT ![c] = Asked(c)']  BY <1>1, OneCall
  <2>4. asked[c] = "none"  BY <1>3 DEF asked
  <2> QED
    BY <2>1, <2>2, <2>3, <2>4 DEF Atomic!Ask, Invoke, asked, answer
<1>5. CASE f \notin NodeFunctions
  <2>1. Asked(c)' = "none"  BY <1>2, <1>5 DEF Asked
  <2>2. asked' = asked /\ answer' = answer
    BY <1>1, <1>3, <2>1, OneCall DEF asked, answer
  <2> QED  BY <2>2 DEF abstract, Invoke
<1> QED  BY <1>4, <1>5

\* The abstract name of a function of the node.
Name(f) == IF f \in {"connect_udp", "connect_quic"} THEN "connect" ELSE f

\* What a state check answers on the spot is an effect that leaves the node alone.
LEMMA AnsweredAtOnce ==
    ASSUME NEW f \in NodeFunctions, nodeState \in NodeStates
    PROVE  /\ nodeState \notin Admitted(f) =>
                 <<"InvalidState", nodeState>> \in Atomic!Effects(Name(f), nodeState)
           /\ f = "state" => <<nodeState, nodeState>> \in Atomic!Effects(Name(f), nodeState)
           /\ f = "start_serving" /\ nodeState \in Admitted(f) =>
                 <<"ok", nodeState>> \in Atomic!Effects(Name(f), nodeState)
  BY FunctionNames
     DEF Admitted, Name, NodeStates, Atomic!Effects, Atomic!Never, Atomic!Either

\* What an admitted method can do is an effect on the state it was admitted in.
LEMMA AnsweredLater ==
    ASSUME NEW f \in NodeFunctions, nodeState \in NodeStates, f \notin SyncFunctions,
           nodeState \in Admitted(f)
    PROVE  /\ \A t \in Leaves(f, nodeState) :
                 <<"ok", t>> \in Atomic!Effects(Name(f), nodeState)
           /\ ~(f = "refresh_membership" /\ nodeState = "Pending") =>
                 <<"error", nodeState>> \in Atomic!Effects(Name(f), nodeState)
<1> USE DEF Admitted, Name, NodeStates, SyncFunctions, Leaves,
            Atomic!Effects, Atomic!Never, Atomic!Either, Atomic!States
<1>1. CASE f \in {"register", "activate", "logout"}  BY <1>1
<1>2. CASE f = "refresh_membership"  BY <1>2
<1>3. CASE f \in {"revoke_node", "connect_udp", "connect_quic"}  BY <1>3
<1>4. CASE f = "group_info"  BY <1>4
<1> QED  BY <1>1, <1>2, <1>3, <1>4, FunctionNames

\* Entering is no effect of its own unless the call is answered at once.
LEMMA EnterTakesEffect ==
    ASSUME Inv, NEW c \in Calls, Enter(c)
    PROVE  Atomic!TakeEffect(c) \/ UNCHANGED abstract
<1> DEFINE f == op[c].fn
           done == f \in SyncFunctions \/ nodeState \notin Admitted(f)
<1>1. /\ op[c].pc = "queued" /\ f \in NodeFunctions /\ nodeState \in NodeStates
      /\ op[c].result = "none"
  <2>1. c \in Waiting(queue)
    BY LeaveQueue DEF Inv, TypeOK, QueueOnce, Once, Enter, LockGranted
  <2> QED  BY <2>1 DEF Waiting, Inv, TypeOK, QueueOnce, AnsweredOnce
<1>2. \A d \in Calls \ {c} : op'[d] = op[d]  BY DEF Enter, Inv
<1>3. op'[c].fn = f  BY DEF Enter, Inv, Ops
<1>4. Asked(c)' = Asked(c) /\ Asked(c) = Name(f) /\ Name(f) # "none"
  BY <1>1, <1>3, FunctionNames DEF Asked, Name
<1>5. asked' = asked  BY <1>2, <1>4, OneCall DEF asked
<1>6. Answered(c) = "none"  BY <1>1 DEF Answered
<1>7. CASE done
  <2>1. PICK r : /\ r = IF nodeState \notin Admitted(f) THEN "InvalidState"
                          ELSE IF f = "state" THEN nodeState ELSE "ok"
                 /\ op'[c].result = r
    BY <1>7 DEF Enter, Inv, Ops
  <2>2. <<r, nodeState>> \in Atomic!Effects(Name(f), nodeState)
    BY <1>1, <1>7, <2>1, AnsweredAtOnce DEF SyncFunctions
  <2>3. Answered(c)' = r  BY <1>1, <1>3, <1>4, <2>1 DEF Answered, Asked
  <2>4. answer' = [answer EXCEPT ![c] = r]  BY <1>2, <2>3, OneCall
  <2>5. asked[c] = Name(f) /\ answer[c] = "none"  BY <1>4, <1>6 DEF asked, answer
  <2>6. nodeState' = nodeState  BY DEF Enter
  <2>7. \E e \in Atomic!Effects(asked[c], nodeState) :
            answer' = [answer EXCEPT ![c] = e[1]] /\ nodeState' = e[2]
    <3>1. <<r, nodeState>>[1] = r /\ <<r, nodeState>>[2] = nodeState'  BY <2>6
    <3> HIDE DEF f
    <3> QED  BY <2>2, <2>4, <2>5, <3>1, Zenon
  <2> QED  BY <1>4, <1>5, <2>5, <2>7 DEF Atomic!TakeEffect, asked, answer
<1>8. CASE ~done
  <2>1. op'[c].result = "none"  BY <1>8 DEF Enter, Inv, Ops
  <2>2. Answered(c)' = Answered(c)  BY <1>4, <1>6, <2>1 DEF Answered
  <2>3. answer' = answer  BY <1>2, <2>2, OneCall DEF answer
  <2> QED  BY <1>5, <2>3 DEF abstract, Enter
<1> QED  BY <1>7, <1>8

\* A method of the node takes effect when it ends, on the state that it was
\* admitted in.
LEMMA FinishTakesEffect ==
    ASSUME Inv, NEW c \in Calls, Finish(c)
    PROVE  Atomic!TakeEffect(c)
<1> DEFINE f == op[c].fn
<1>1. /\ f \in NodeFunctions /\ f \notin SyncFunctions
      /\ nodeState \in NodeStates /\ nodeState \in Admitted(f)
      /\ op[c].seen = nodeState /\ op[c].result = "none"
  BY DEF Finish, Inv, InsideHolds, TypeOK, AnsweredOnce
<1>2. \A d \in Calls \ {c} : op'[d] = op[d]  BY DEF Finish, Inv
<1>3. PICK r \in {"ok", "error"} :
         /\ op'[c].fn = f /\ op'[c].result = r
         /\ <<r, nodeState'>> \in Atomic!Effects(Name(f), nodeState)
  <2>1. CASE /\ nodeState' \in Leaves(f, op[c].seen)
             /\ op' = [op EXCEPT ![c] = [@ EXCEPT !.pc = "answered", !.seen = "none",
                                                   !.result = "ok"]]
    BY <1>1, <2>1, AnsweredLater DEF Inv, Ops
  <2>2. CASE /\ ~(f = "refresh_membership" /\ op[c].seen = "Pending")
             /\ op' = [op EXCEPT ![c] = [@ EXCEPT !.pc = "answered", !.seen = "none",
                                                   !.result = "error"]]
             /\ UNCHANGED nodeState
    BY <1>1, <2>2, AnsweredLater DEF Inv, Ops
  <2> QED  BY <2>1, <2>2 DEF Finish
<1>4. Asked(c)' = Asked(c) /\ Asked(c) = Name(f) /\ Name(f) # "none"
  BY <1>1, <1>3, FunctionNames DEF Asked, Name
<1>5. asked' = asked  BY <1>2, <1>4, OneCall DEF asked
<1>6. Answered(c)' = r /\ Answered(c) = "none"
  BY <1>1, <1>3, <1>4 DEF Answered
<1>7. answer' = [answer EXCEPT ![c] = r]  BY <1>2, <1>6, OneCall
<1>8. asked[c] = Name(f) /\ answer[c] = "none"  BY <1>4, <1>6 DEF asked, answer
<1>9. \E e \in Atomic!Effects(asked[c], nodeState) :
          answer' = [answer EXCEPT ![c] = e[1]] /\ nodeState' = e[2]
  <2>1. <<r, nodeState'>>[1] = r /\ <<r, nodeState'>>[2] = nodeState'  OBVIOUS
  <2> HIDE DEF f
  <2> QED  BY <1>3, <1>7, <1>8, <2>1, Zenon
<1> QED  BY <1>4, <1>5, <1>8, <1>9 DEF Atomic!TakeEffect, asked, answer

\* The end of an operation of a connection is not seen.
LEMMA FinishOnConnectionStutters ==
    ASSUME Inv, NEW c \in Calls, FinishOnConnection(c)
    PROVE  UNCHANGED abstract
<1>1. \A d \in Calls \ {c} : op'[d] = op[d]  BY DEF FinishOnConnection, Inv
<1>2. op[c].fn \notin NodeFunctions /\ op'[c].fn = op[c].fn
  BY FunctionNames DEF FinishOnConnection, Inv, Ops
<1>3. Asked(c)' = Asked(c) /\ Answered(c)' = Answered(c)
  BY <1>2 DEF Asked, Answered
<1>4. asked' = asked /\ answer' = answer  BY <1>1, <1>3, OneCall DEF asked, answer
<1> QED  BY <1>4 DEF abstract, FinishOnConnection

\* The callback is the answer; that of a connection's operation is not seen.
LEMMA ReportAnswers ==
    ASSUME Inv, NEW c \in Calls, Report(c)
    PROVE  Atomic!Answer(c) \/ UNCHANGED abstract
<1>1. \A d \in Calls \ {c} : op'[d] = op[d]  BY DEF Report, Inv
<1>2. op'[c].fn = "none" /\ op[c].result # "none"
  BY DEF Report, Inv, NoOp, AnsweredOnce
<1>3. Asked(c)' = "none" /\ Answered(c)' = "none"
  BY <1>2, FunctionNames DEF Asked, Answered
<1>4. CASE op[c].fn \in NodeFunctions
  <2>1. answer[c] # "none"  BY <1>2, <1>4, AskedFacts DEF answer
  <2>2. /\ asked' = [asked EXCEPT ![c] = "none"]
        /\ answer' = [answer EXCEPT ![c] = "none"]
    BY <1>1, <1>3, OneCall
  <2> QED  BY <2>1, <2>2 DEF Atomic!Answer, Report, asked, answer
<1>5. CASE op[c].fn \notin NodeFunctions
  <2>1. Asked(c)' = Asked(c) /\ Answered(c)' = Answered(c)  BY <1>3, <1>5, AskedFacts
  <2>2. asked' = asked /\ answer' = answer  BY <1>1, <2>1, OneCall DEF asked, answer
  <2> QED  BY <2>2 DEF abstract, Report
<1> QED  BY <1>4, <1>5

\* Every step of the library is a step of the atomic node, or is not seen.
LEMMA StepRefines ==
    ASSUME Inv, [Next]_vars
    PROVE  [Atomic!Next]_abstract
<1>1. CASE UNCHANGED vars
  <2>1. op' = op /\ nodeState' = nodeState  BY <1>1 DEF vars
  <2>2. asked' = asked /\ answer' = answer  BY <2>1 DEF asked, answer, Asked, Answered
  <2> QED  BY <2>1, <2>2 DEF abstract
<1>2. ASSUME NEW c \in Calls, NEW f \in Functions, Refuse(c, f) \/ Invoke(c, f)
      PROVE  [Atomic!Next]_abstract
  BY <1>2, RefuseStutters, InvokeAsks DEF Atomic!Next
<1>3. ASSUME NEW c \in Calls, Enter(c) \/ Finish(c) \/ FinishOnConnection(c) \/ Report(c)
      PROVE  [Atomic!Next]_abstract
  BY <1>3, EnterTakesEffect, FinishTakesEffect, FinishOnConnectionStutters, ReportAnswers
     DEF Atomic!Next
<1>4. ASSUME NEW h \in HandleKinds, Free(h) PROVE [Atomic!Next]_abstract
  <2>1. op' = op /\ nodeState' = nodeState  BY <1>4 DEF Free
  <2>2. asked' = asked /\ answer' = answer  BY <2>1 DEF asked, answer, Asked, Answered
  <2> QED  BY <2>1, <2>2 DEF abstract
<1> QED  BY <1>1, <1>2, <1>3, <1>4 DEF Next, Functions

\* Calls in flight together take effect one at a time, each between its invocation
\* and its callback, and with the answer that belongs to the state then: the mutex
\* held across the hub calls makes FfiNode implement AtomicNode, whatever is called
\* and freed meanwhile and also under a logout that has consumed the handle.
THEOREM FfiImplementsAtomicNode == Spec => RefinesAtomicNode
<1>1. Init => Atomic!Init
  BY FunctionNames DEF Init, Atomic!Init, Atomic!States, NodeStates, NoOp, Asked, Answered
<1>2. Inv /\ [Next]_vars =>
        [Atomic!Next]_<<nodeState, [c \in Calls |-> Asked(c)], [c \in Calls |-> Answered(c)]>>
  BY StepRefines DEF abstract, asked, answer
<1> QED
  BY <1>1, <1>2, InitInv, NextInv, PTL DEF Spec, RefinesAtomicNode, Atomic!Spec
==============================================================================
