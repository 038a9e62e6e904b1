----------------------------- MODULE QuicDriver -----------------------------
(***************************************************************************)
(* The background driver of a QUIC connection and the operations that wait *)
(* on it: ConnectionInner, Connection, driver_loop and Stream of           *)
(* wispers-connect/src/quic.rs.                                            *)
(*                                                                         *)
(* An operation arms a notification, looks at the connection under the     *)
(* lock, may look at driver_exited, and then waits.  Only the driver (and  *)
(* close_with_error) wakes it.  The steps of the driver and of the tasks   *)
(* interleave wherever the code gives up the lock or runs on another       *)
(* thread.                                                                 *)
(*                                                                         *)
(* quiche and the ICE transport are external.  What a packet brings is     *)
(* abstracted to supply: the tasks whose data, stream credit, send window, *)
(* acknowledgement or incoming stream has arrived.                         *)
(***************************************************************************)
EXTENDS Naturals

CONSTANTS
    Tasks,      \* application tasks, one operation each
    Kinds       \* the operations they may call

\* Operations on a Connection and operations on a Stream.
ConnectionKinds == {"handshake", "ping", "open", "accept"}
StreamKinds == {"read", "write_all", "poll_read", "poll_write"}

ASSUME QuicDriverAssumption == Kinds \subseteq ConnectionKinds \cup StreamKinds

VARIABLES
    phase,          \* quiche: "open", "draining" or "closed"
    established,    \* quiche: is_established
    supply,         \* quiche: the tasks that can be served
    transport,      \* ICE transport: "up" or "down"
    shutdown,       \* the flag the driver polls
    driver_exited,  \* the flag the driver leaves behind
    driver,         \* where the driver is
    dropped,        \* the Connection was dropped (abort requested)
    closer,         \* where close_with_error is
    op              \* op[t]: kind, place and notification of t's operation

vars == <<phase, established, supply, transport, shutdown, driver_exited, driver,
          dropped, closer, op>>
quiche == <<phase, established, supply>>

NotCalled == [kind |-> "none", pc |-> "idle", notified |-> FALSE]

Init ==
    /\ phase = "open"
    /\ established = FALSE
    /\ supply = {}
    /\ transport = "up"
    /\ shutdown = FALSE
    /\ driver_exited = FALSE
    /\ driver = "top"
    /\ dropped = FALSE
    /\ closer = "idle"
    /\ op = [t \in Tasks |-> NotCalled]

-----------------------------------------------------------------------------
(* Notification. *)

\* Mutant: the notification is armed only when the operation starts to wait.
ArmedWhenParked(t) == op[t].pc = "park"

\* Mutant: a wakeup is also stored for operations that armed nothing.
ArmedAlways(t) == TRUE

\* notified().enable(), or the waker in poll_wakers: from before the look at the
\* connection until the operation returns.
Armed(t) == op[t].pc \in {"check", "exited", "flush", "sent", "park"}

\* Mutant: the wakers of the poll-based operations are forgotten.
NotifyAsyncOnly ==
    op' = [t \in Tasks |->
             IF Armed(t) /\ op[t].kind \notin {"poll_read", "poll_write"}
             THEN [op[t] EXCEPT !.notified = TRUE] ELSE op[t]]

\* notify_state_change: both mechanisms, and only those armed now.
NotifyStateChange ==
    op' = [t \in Tasks |->
             IF Armed(t) THEN [op[t] EXCEPT !.notified = TRUE] ELSE op[t]]

-----------------------------------------------------------------------------
(* driver_loop *)

\* Mutant: the flag is not looked at.
CheckNoShutdown ==
    /\ driver = "top"
    /\ driver' = "flush"
    /\ UNCHANGED <<quiche, transport, shutdown, driver_exited, dropped, closer, op>>

CheckShutdown ==
    /\ driver = "top"
    /\ driver' = IF shutdown THEN "exit" ELSE "flush"
    /\ UNCHANGED <<quiche, transport, shutdown, driver_exited, dropped, closer, op>>

\* flush_send fails only when there is something to send and the transport is
\* down; a full send buffer is not an error.
FlushFails == transport = "down"

DriverFlush ==
    /\ driver = "flush"
    /\ \/ driver' = "closed?"
       \/ FlushFails /\ driver' = "exit"
    /\ UNCHANGED <<quiche, transport, shutdown, driver_exited, dropped, closer, op>>

\* is_closed: notify and break, or go on to select.
CheckClosed ==
    /\ driver = "closed?"
    /\ IF phase = "closed"
       THEN NotifyStateChange /\ driver' = "exit"
       ELSE driver' = "select" /\ UNCHANGED op
    /\ UNCHANGED <<quiche, transport, shutdown, driver_exited, dropped, closer>>

\* transport.recv: a packet is processed under the lock.  It may complete the
\* handshake, serve tasks or carry the peer's close; an error ends the loop.
ReceivePacket ==
    /\ driver = "select"
    /\ transport = "up"
    /\ established' \in {established, TRUE}
    /\ \E served \in SUBSET Tasks : supply' = supply \cup served
    /\ phase' \in IF phase = "open" THEN {"open", "draining"} ELSE {phase}
    /\ driver' \in {"notify", "exit"}
    /\ UNCHANGED <<transport, shutdown, driver_exited, dropped, closer, op>>

ReceiveFails ==
    /\ driver = "select"
    /\ transport = "down"
    /\ driver' = "exit"
    /\ UNCHANGED <<quiche, transport, shutdown, driver_exited, dropped, closer, op>>

\* The timer: on_timeout, which closes an idle or draining connection.
HandleTimeout ==
    /\ driver = "select"
    /\ phase' \in {phase, "closed"}
    /\ driver' = "notify"
    /\ UNCHANGED <<established, supply, transport, shutdown, driver_exited, dropped,
                   closer, op>>

\* The keepalive tick: a PING if established, and a flush.  It notifies nobody.
SendKeepalive ==
    /\ driver = "select"
    /\ driver' \in IF FlushFails THEN {"top", "exit"} ELSE {"top"}
    /\ UNCHANGED <<quiche, transport, shutdown, driver_exited, dropped, closer, op>>

DriverNotify ==
    /\ driver = "notify"
    /\ NotifyStateChange
    /\ driver' = "top"
    /\ UNCHANGED <<quiche, transport, shutdown, driver_exited, dropped, closer>>

\* After the loop: the flag is stored, then everybody is woken once more.
FlagExit ==
    /\ driver = "exit"
    /\ driver_exited' = TRUE
    /\ driver' = "wake"
    /\ UNCHANGED <<quiche, transport, shutdown, dropped, closer, op>>

FinalNotify ==
    /\ driver = "wake"
    /\ NotifyStateChange
    /\ driver' = "gone"
    /\ UNCHANGED <<quiche, transport, shutdown, driver_exited, dropped, closer>>

\* driver_handle.abort() takes effect at an await of the loop.
Aborted ==
    /\ dropped
    /\ driver \in {"flush", "closed?", "select"}
    /\ driver' = "aborted"
    /\ UNCHANGED <<quiche, transport, shutdown, driver_exited, dropped, closer, op>>

DriverStep ==
    \/ CheckShutdown \/ DriverFlush \/ CheckClosed \/ ReceivePacket \/ ReceiveFails
    \/ HandleTimeout \/ SendKeepalive \/ DriverNotify \/ FlagExit \/ FinalNotify
    \/ Aborted

-----------------------------------------------------------------------------
(* The operations. *)

Goto(t, pc) == op' = [op EXCEPT ![t].pc = pc]
Return(t) == op' = [op EXCEPT ![t].pc = "returned", ![t].notified = FALSE]
Running(t) == op[t].pc \notin {"idle", "returned"}

\* A task calls an operation.  The ones of Connection need it to be there, and
\* connect_quic and the answering side hand it out only after the handshake.
Call(t, k) ==
    /\ op[t].pc = "idle"
    /\ established \/ k = "handshake"
    /\ k \in ConnectionKinds => ~dropped
    /\ op' = [op EXCEPT ![t].kind = k, ![t].pc = IF k = "ping" THEN "start" ELSE "arm"]
    /\ UNCHANGED <<quiche, transport, shutdown, driver_exited, driver, dropped, closer>>

\* ping first sends something to acknowledge; what was acknowledged before does
\* not count.
StartPing(t) ==
    /\ op[t].pc = "start"
    /\ IF phase # "open" THEN Return(t) ELSE Goto(t, "send")
    /\ supply' = supply \ {t}
    /\ UNCHANGED <<phase, established, transport, shutdown, driver_exited, driver,
                   dropped, closer>>

FlushPing(t) ==
    /\ op[t].pc = "send"
    /\ \/ Goto(t, "arm")
       \/ FlushFails /\ Return(t)
    /\ UNCHANGED <<quiche, transport, shutdown, driver_exited, driver, dropped, closer>>

\* Arm before checking.
Arm(t) ==
    /\ op[t].pc = "arm"
    /\ Goto(t, "check")
    /\ UNCHANGED <<quiche, transport, shutdown, driver_exited, driver, dropped, closer>>

\* The look under the lock.  handshake, ping, accept_stream, read: served, or an
\* error of the connection, or on to the driver_exited check.
CheckThenExited(t) ==
    LET k == op[t].kind
        served == IF k = "handshake" THEN established ELSE t \in supply
        failed == phase = "closed" \/ (k = "ping" /\ phase = "draining")
    IN  /\ op[t].pc = "check"
        /\ k \in {"handshake", "ping", "accept", "read"}
        /\ IF served \/ failed THEN Return(t) ELSE Goto(t, "exited")
        /\ UNCHANGED <<quiche, transport, shutdown, driver_exited, driver, dropped, closer>>

\* Mutant: the flag is not looked at before waiting.
CheckNoExit(t) ==
    /\ op[t].pc = "exited"
    /\ Goto(t, IF op[t].kind = "accept" THEN "flush" ELSE "park")
    /\ UNCHANGED <<quiche, transport, shutdown, driver_exited, driver, dropped, closer>>

\* Their driver_exited check; accept_stream flushes before it waits.
CheckExited(t) ==
    /\ op[t].pc = "exited"
    /\ IF driver_exited THEN Return(t)
       ELSE Goto(t, IF op[t].kind = "accept" THEN "flush" ELSE "park")
    /\ UNCHANGED <<quiche, transport, shutdown, driver_exited, driver, dropped, closer>>

\* open_stream: closed and exited are errors even if there is credit; it flushes
\* with a new stream and without.
CheckOpen(t) ==
    /\ op[t].pc = "check"
    /\ op[t].kind = "open"
    /\ IF phase = "closed" \/ driver_exited THEN Return(t)
       ELSE Goto(t, IF t \in supply THEN "sent" ELSE "flush")
    /\ UNCHANGED <<quiche, transport, shutdown, driver_exited, driver, dropped, closer>>

\* write_all: a blocked send goes straight to waiting; a send that fails returns,
\* as if everything had been written.
CheckWriteAll(t) ==
    /\ op[t].pc = "check"
    /\ op[t].kind = "write_all"
    /\ Goto(t, IF t \in supply THEN "sent" ELSE "park")
    /\ UNCHANGED <<quiche, transport, shutdown, driver_exited, driver, dropped, closer>>

\* poll_read and poll_write look at driver_exited under the lock; poll_write does
\* not look at is_closed.  A contended try_lock only polls again.
CheckPoll(t) ==
    /\ op[t].pc = "check"
    /\ op[t].kind \in {"poll_read", "poll_write"}
    /\ IF \/ t \in supply \/ driver_exited
          \/ op[t].kind = "poll_read" /\ phase = "closed"
       THEN Return(t) ELSE Goto(t, "park")
    /\ UNCHANGED <<quiche, transport, shutdown, driver_exited, driver, dropped, closer>>

\* flush_send before waiting: an error is returned.
FlushThenPark(t) ==
    /\ op[t].pc = "flush"
    /\ \/ Goto(t, "park")
       \/ FlushFails /\ Return(t)
    /\ UNCHANGED <<quiche, transport, shutdown, driver_exited, driver, dropped, closer>>

\* flush_send of what was accepted: open_stream is done with it; write_all has
\* written everything, or uses up the window and goes round again.
FlushSent(t) ==
    /\ op[t].pc = "sent"
    /\ \/ Return(t) /\ UNCHANGED supply
       \/ /\ op[t].kind = "write_all"
          /\ supply' = supply \ {t}
          /\ op' = [op EXCEPT ![t].pc = "arm", ![t].notified = FALSE]
    /\ UNCHANGED <<phase, established, transport, shutdown, driver_exited, driver,
                   dropped, closer>>

\* notified.await is over, or the task is polled again.
Wake(t) ==
    /\ op[t].pc = "park"
    /\ op[t].notified
    /\ op' = [op EXCEPT ![t].pc = "arm", ![t].notified = FALSE]
    /\ UNCHANGED <<quiche, transport, shutdown, driver_exited, driver, dropped, closer>>

TaskStep(t) ==
    \/ StartPing(t) \/ FlushPing(t) \/ Arm(t) \/ CheckThenExited(t) \/ CheckExited(t)
    \/ CheckOpen(t) \/ CheckWriteAll(t) \/ CheckPoll(t) \/ FlushThenPark(t) \/ FlushSent(t) \/ Wake(t)

-----------------------------------------------------------------------------
(* Closing, dropping, losing the transport. *)

Draining == IF phase = "open" THEN "draining" ELSE phase

\* close_with_error: close under the lock.  The connection drains from the next
\* flush on, which can be anybody's.
StartClose ==
    /\ closer = "idle" /\ established /\ ~dropped
    /\ closer' = "flush"
    /\ phase' \in {phase, Draining}
    /\ UNCHANGED <<established, supply, transport, shutdown, driver_exited, driver,
                   dropped, op>>

\* Its own flush at the latest; an error is returned before the driver is told.
CloseFlush ==
    /\ closer = "flush"
    /\ phase' = Draining
    /\ \/ shutdown' = TRUE /\ closer' = "notify"
       \/ FlushFails /\ closer' = "done" /\ UNCHANGED shutdown
    /\ UNCHANGED <<established, supply, transport, driver_exited, driver, dropped, op>>

CloseNotify ==
    /\ closer = "notify"
    /\ NotifyStateChange
    /\ closer' = "done"
    /\ UNCHANGED <<quiche, transport, shutdown, driver_exited, driver, dropped>>

\* Connection::drop.  Nobody can be inside one of its methods; streams keep the
\* shared state alive.  Dropped before the handshake completes, a connection has
\* no streams and nobody is left to wait.
DropConnection ==
    /\ established /\ ~dropped
    /\ closer \in {"idle", "done"}
    /\ \A t \in Tasks : Running(t) => op[t].kind \in StreamKinds
    /\ dropped' = TRUE
    /\ shutdown' = TRUE
    /\ UNCHANGED <<quiche, transport, driver_exited, driver, closer, op>>

TransportFails ==
    /\ transport = "up"
    /\ transport' = "down"
    /\ UNCHANGED <<quiche, shutdown, driver_exited, driver, dropped, closer, op>>

Next ==
    \/ DriverStep
    \/ \E t \in Tasks : TaskStep(t) \/ \E k \in Kinds : Call(t, k)
    \/ StartClose \/ CloseFlush \/ CloseNotify
    \/ DropConnection
    \/ TransportFails

\* The runtime polls every task that is ready, and the driver's timer fires.
\* Nobody need call anything, no packet need arrive.
Fairness ==
    /\ WF_vars(DriverStep)
    /\ \A t \in Tasks : WF_vars(TaskStep(t))
    /\ WF_vars(CloseFlush \/ CloseNotify)

Spec == Init /\ [][Next]_vars /\ Fairness

-----------------------------------------------------------------------------
(* Properties. *)

\* Every variable has its type; only an armed operation holds a notification.
TypeOK ==
    /\ phase \in {"open", "draining", "closed"}
    /\ supply \in SUBSET Tasks
    /\ transport \in {"up", "down"}
    /\ established \in BOOLEAN /\ shutdown \in BOOLEAN
    /\ driver_exited \in BOOLEAN /\ dropped \in BOOLEAN
    /\ driver \in {"top", "flush", "closed?", "select", "notify", "exit", "wake",
                   "gone", "aborted"}
    /\ closer \in {"idle", "flush", "notify", "done"}
    /\ op \in [Tasks ->
         [kind : Kinds \cup {"none"}, notified : BOOLEAN,
          pc : {"idle", "start", "send", "arm", "check", "exited", "flush", "sent", "park",
                "returned"}]]
    /\ \A t \in Tasks : op[t].notified =>
         op[t].pc \in {"check", "exited", "flush", "sent", "park"}

\* No wakeup is lost: when what a waiting operation waits for is there, either it
\* has been notified or the driver is on its way to notify it, although packets
\* arrive between its look at the connection and its wait (the notification is
\* armed first, quic.rs:999-1003).
NoLostWakeup ==
    \A t \in Tasks :
        /\ op[t].pc = "park" /\ ~op[t].notified
        /\ IF op[t].kind = "handshake" THEN established ELSE t \in supply
        => driver \in {"notify", "exit", "wake"}

\* Once the driver is gone nobody is left waiting for a wakeup that will never
\* come; write_all, which does not look at driver_exited, is the exception.
NobodyWaitsForTheGone ==
    driver = "gone" =>
        \A t \in Tasks : op[t].kind # "write_all" =>
            ~(op[t].pc = "park" /\ ~op[t].notified)

\* Every operation but write_all returns after the driver has exited, in whatever
\* place the exit finds it.
OperationsReturn ==
    \A t \in Tasks :
        (driver_exited /\ Running(t) /\ op[t].kind # "write_all") ~> ~Running(t)

\* Shutting down ends the driver, wherever it is and whatever the peer does.
ShutdownEndsDriver == shutdown ~> driver \in {"gone", "aborted"}

\* What the comment on driver_exited (quic.rs:304-306) promises of a write:
\* "once it is gone, a read/write that would otherwise wait sees this and returns
\* a terminal error instead of hanging forever".
WritersReturn ==
    \A t \in Tasks :
        (driver_exited /\ Running(t) /\ op[t].kind = "write_all") ~> ~Running(t)

\* What the comment at the end of driver_loop (quic.rs:903-906) promises of a
\* read "whatever ended the loop": it returns instead of waiting forever, also
\* when the loop was ended by Connection::drop.
ReadersReturn ==
    \A t \in Tasks :
        (driver \in {"gone", "aborted"} /\ Running(t) /\ op[t].kind = "read")
            ~> ~Running(t)
=============================================================================
