-------------------------- MODULE QuicDriverProofs --------------------------
(***************************************************************************)
(* The waking discipline of a QUIC connection, for any number of tasks.    *)
(*                                                                         *)
(* What a task that waits relies on was established earlier, when it       *)
(* looked at the connection and at driver_exited: the invariant says it of *)
(* every place between that look and the wait.                             *)
(***************************************************************************)
EXTENDS QuicDriver, TLAPS

Served(t) == IF op[t].kind = "handshake" THEN established ELSE t \in supply

\* The flag is up before the final notification.
FlagFirst == driver \in {"wake", "gone"} => driver_exited

\* Which operations pass through which places.
Places ==
    \A t \in Tasks :
        /\ op[t].pc = "exited" => op[t].kind \in {"handshake", "ping", "accept", "read"}
        /\ op[t].pc = "flush" => op[t].kind \in {"open", "accept"}

\* An operation that found nothing and was not notified since is not served, or
\* the driver is about to notify it.
WakeupComing ==
    \A t \in Tasks :
        op[t].pc \in {"exited", "flush", "park"} /\ ~op[t].notified /\ Served(t)
            => driver \in {"notify", "exit", "wake"}

\* An operation that passed the look at driver_exited before the flag went up is
\* notified by the time the driver is gone.
ExitSeen ==
    \A t \in Tasks :
        op[t].pc \in {"flush", "park"} /\ ~op[t].notified /\ op[t].kind # "write_all"
            => driver # "gone"

Inv == TypeOK /\ FlagFirst /\ Places /\ WakeupComing /\ ExitSeen

\* The invariant holds initially.
LEMMA InitInv == Init => Inv
<1> SUFFICES ASSUME Init PROVE Inv  OBVIOUS
<1>1. \A t \in Tasks : op[t].pc = "idle" /\ op[t].notified = FALSE /\ op[t].kind = "none"
  BY DEF Init, NotCalled
<1>2. op \in [Tasks ->
         [kind : Kinds \cup {"none"}, notified : BOOLEAN,
          pc : {"idle", "start", "send", "arm", "check", "exited", "flush", "sent", "park",
                "returned"}]]
  BY DEF Init, NotCalled
<1>3. TypeOK  BY <1>1, <1>2 DEF TypeOK, Init
<1>4. FlagFirst /\ Places /\ WakeupComing /\ ExitSeen
  BY <1>1 DEF Init, FlagFirst, Places, WakeupComing, ExitSeen
<1> QED  BY <1>3, <1>4 DEF Inv

\* A notification moves nobody, forgets nobody and reaches everybody armed.
LEMMA NotifyEffect ==
    ASSUME TypeOK, NotifyStateChange
    PROVE  /\ op' \in [Tasks ->
                 [kind : Kinds \cup {"none"}, notified : BOOLEAN,
                  pc : {"idle", "start", "send", "arm", "check", "exited", "flush",
                        "sent", "park", "returned"}]]
           /\ \A t \in Tasks :
                /\ op'[t].pc = op[t].pc /\ op'[t].kind = op[t].kind
                /\ op[t].notified => op'[t].notified
                /\ op'[t].notified =>
                     op[t].pc \in {"check", "exited", "flush", "sent", "park"}
                /\ op[t].pc \in {"exited", "flush", "park"} => op'[t].notified
  BY DEF TypeOK, NotifyStateChange, Armed

\* Every step of the driver preserves it.
LEMMA DriverInv == ASSUME Inv, DriverStep PROVE Inv'
<1> USE DEF Inv, TypeOK, FlagFirst, Places, WakeupComing, ExitSeen, Served, quiche
<1>1. CASE CheckShutdown  BY <1>1 DEF CheckShutdown
<1>2. CASE DriverFlush  BY <1>2 DEF DriverFlush
<1>3. CASE CheckClosed
  <2>1. CASE phase = "closed"
    BY <1>3, <2>1, NotifyEffect DEF CheckClosed
  <2>2. CASE phase # "closed"
    BY <1>3, <2>2 DEF CheckClosed
  <2> QED  BY <2>1, <2>2
<1>4. CASE ReceivePacket  BY <1>4 DEF ReceivePacket
<1>5. CASE ReceiveFails  BY <1>5 DEF ReceiveFails
<1>6. CASE HandleTimeout  BY <1>6 DEF HandleTimeout
<1>7. CASE SendKeepalive  BY <1>7 DEF SendKeepalive
<1>8. CASE DriverNotify  BY <1>8, NotifyEffect DEF DriverNotify
<1>9. CASE FlagExit  BY <1>9 DEF FlagExit
<1>10. CASE FinalNotify  BY <1>10, NotifyEffect DEF FinalNotify
<1>11. CASE Aborted  BY <1>11 DEF Aborted
<1> QED
  BY <1>1, <1>2, <1>3, <1>4, <1>5, <1>6, <1>7, <1>8, <1>9, <1>10, <1>11 DEF DriverStep

\* Every step of a task preserves it.
LEMMA TaskInv == ASSUME Inv, NEW t \in Tasks, TaskStep(t) PROVE Inv'
<1> USE DEF Inv, TypeOK, FlagFirst, Places, WakeupComing, ExitSeen, Served, quiche,
        Goto, Return
<1>1. CASE Arm(t)  BY <1>1 DEF Arm
<1>2. CASE CheckThenExited(t)  BY <1>2 DEF CheckThenExited
<1>3. CASE CheckExited(t)  BY <1>3 DEF CheckExited
<1>4. CASE CheckOpen(t)  BY <1>4 DEF CheckOpen
<1>5. CASE CheckWriteAll(t)  BY <1>5 DEF CheckWriteAll
<1>6. CASE CheckPoll(t)  BY <1>6 DEF CheckPoll
<1>7. CASE FlushThenPark(t)  BY <1>7 DEF FlushThenPark
<1>8. CASE FlushSent(t)  BY <1>8 DEF FlushSent
<1>9. CASE Wake(t)  BY <1>9 DEF Wake
<1>10. CASE StartPing(t)  BY <1>10 DEF StartPing
<1>11. CASE FlushPing(t)  BY <1>11 DEF FlushPing
<1> QED
  BY <1>1, <1>2, <1>3, <1>4, <1>5, <1>6, <1>7, <1>8, <1>9, <1>10, <1>11 DEF TaskStep

\* So do calls, closing, dropping and the loss of the transport.
LEMMA OtherInv ==
    ASSUME Inv,
           \/ \E t \in Tasks, k \in Kinds : Call(t, k)
           \/ StartClose \/ CloseFlush \/ CloseNotify \/ DropConnection \/ TransportFails
    PROVE  Inv'
<1> USE DEF Inv, TypeOK, FlagFirst, Places, WakeupComing, ExitSeen, Served, quiche
<1>1. ASSUME NEW t \in Tasks, NEW k \in Kinds, Call(t, k) PROVE Inv'
  BY <1>1 DEF Call
<1>2. CASE StartClose  BY <1>2 DEF StartClose, Draining
<1>3. CASE CloseFlush  BY <1>3 DEF CloseFlush, Draining
<1>4. CASE CloseNotify  BY <1>4, NotifyEffect DEF CloseNotify
<1>5. CASE DropConnection  BY <1>5 DEF DropConnection
<1>6. CASE TransportFails  BY <1>6 DEF TransportFails
<1> QED  BY <1>1, <1>2, <1>3, <1>4, <1>5, <1>6

\* The invariant is inductive.
LEMMA NextInv == Inv /\ [Next]_vars => Inv'
<1> SUFFICES ASSUME Inv, [Next]_vars PROVE Inv'  OBVIOUS
<1>1. CASE UNCHANGED vars
  BY <1>1 DEF Inv, TypeOK, FlagFirst, Places, WakeupComing, ExitSeen, Served, vars
<1>2. CASE Next
  BY <1>2, DriverInv, TaskInv, OtherInv DEF Next
<1> QED  BY <1>1, <1>2

-----------------------------------------------------------------------------
\* Every variable keeps its type and only armed operations hold a notification.
THEOREM QuicTypeOK == Spec => []TypeOK
<1>1. Inv => TypeOK  BY DEF Inv
<1> QED  BY <1>1, InitInv, NextInv, PTL DEF Spec

\* No wakeup is lost, however many tasks wait and however the driver's steps
\* fall between a task's look at the connection and its wait.
THEOREM QuicNoLostWakeup == Spec => []NoLostWakeup
<1>1. Inv => NoLostWakeup  BY DEF Inv, WakeupComing, NoLostWakeup, Served
<1> QED  BY <1>1, InitInv, NextInv, PTL DEF Spec

\* After the driver's exit only a write_all can be left waiting.
THEOREM QuicNobodyWaitsForTheGone == Spec => []NobodyWaitsForTheGone
<1>1. Inv => NobodyWaitsForTheGone  BY DEF Inv, ExitSeen, NobodyWaitsForTheGone
<1> QED  BY <1>1, InitInv, NextInv, PTL DEF Spec
=============================================================================
