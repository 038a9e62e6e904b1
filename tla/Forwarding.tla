----------------------------- MODULE Forwarding -----------------------------
(***************************************************************************)
(* One TCP connection forwarded through a QUIC stream, from end to end:    *)
(* an application, a front end of wconnect (the HTTP proxy, the SOCKS5     *)
(* proxy, `forward`, or `ping` without an application), the stream, the    *)
(* task of `wconnect serve` on the other node, and the target it dials.    *)
(* proxy_http.rs, proxy_socks.rs, p2p.rs, serving.rs of wconnect, and the  *)
(* closing and dropping of a Stream in wispers-connect/src/quic.rs.        *)
(*                                                                         *)
(* A channel is the sequence of what was written and not yet read: units   *)
(* of data, the pieces of the inner protocol's lines, and how it ends,     *)
(* "FIN" or "RST".  A read takes what has arrived by then: pieces and data *)
(* that were written apart may be read together, and a line that was       *)
(* written at once may be read in part, what is left of it with what       *)
(* follows.  The application and the target read at once: appGot and       *)
(* targetGot are all they have been sent.                                  *)
(*                                                                         *)
(* ConnectionPool models how the stream is opened.  What the front ends    *)
(* write to the application is named by its meaning, not by its HTTP       *)
(* status or SOCKS5 reply code.  The next request on a kept-alive client   *)
(* connection has a stream of its own, and is a behaviour of its own here. *)
(***************************************************************************)
EXTENDS Naturals, Sequences, FiniteSets, SequencesExt

CONSTANTS
    Units,      \* the units of data that either end may send, in this order
    MaxFaults,  \* how many timeouts, aborts and losses of the connection happen
    MaxTorn     \* how many lines of the inner protocol are read in part

VARIABLES
    front,      \* the front end's task: kind, place, mode, keep-alive, two loops
    server,     \* the serving task: place and two loops
    policy,     \* the commands the serving node allows
    near, far,  \* the Stream on either side: halves closed, and whether it is dropped
    up, down,   \* the stream's two channels: front to server, server to front
    stopped,    \* channels whose reader has sent STOP_SENDING
    conn,       \* the QUIC connection: "up" or "dead"
    tcpUp,      \* application to front
    tcpDown,    \* target to server
    appSent, targetSent,    \* units that either end has written
    appGot, targetGot,
    faults,     \* how often something has failed that excuses a missing end
    \* History, which nothing in the code looks at:
    torn,       \* what became of lines that were read in part
    lost        \* units, in either direction, that a read took and threw away

appVars == <<tcpUp, appSent>>
targetVars == <<tcpDown, targetSent>>
history == <<torn, lost>>
streamVars == <<near, far, up, down, stopped, conn>>
forwardVars == <<front, server, policy, streamVars, appVars, targetVars, appGot, targetGot, faults,
                 history>>

Data == Range(Units)

FrontEnds == {"http", "socks", "forward", "ping"}
\* Commands that ask for a connection, and all the words of the inner protocol.
Commands == {"FORWARD", "CONNECT"}
\* "EOL" is the rest of a line with its newline; "ERROR" stands for a whole line.
Words == Commands \cup {"PING", "PONG", "O", "K", "EOL", "ERROR"}
\* What a front end tells the application.
Told == {"malformed", "forbidden", "unreachable", "timeout", "rejected", "accepted", "pong"}
\* How a channel ends, and other marks that are neither data nor words.
Ends == {"FIN", "RST"}
Marks == Ends \cup {"GREETING", "REQUEST", "PART", "HEAD", "DIALLED", "END"}

ASSUME ForwardingAssumption ==
    /\ Units \in Seq(Data) \ {<<>>}
    /\ MaxFaults \in Nat /\ MaxTorn \in Nat
    /\ Data \cap (Words \cup Told \cup Marks) = {}

NewStream == [sent_fin |-> FALSE, recv_fin |-> FALSE, held |-> FALSE, queued |-> FALSE]

FrontOff(kind) ==
    [kind |-> kind, pc |-> "off", mode |-> "none", command |-> "none", keep |-> FALSE,
     count |-> 0, taken |-> FALSE, upLoop |-> "off", downLoop |-> "off"]

ForwardingInitFrom(kind, allowed) ==
    /\ front = FrontOff(kind)
    /\ server = [pc |-> "none", upLoop |-> "off", downLoop |-> "off"]
    /\ policy = allowed
    /\ near = NewStream /\ far = NewStream
    /\ up = <<>> /\ down = <<>> /\ stopped = {} /\ conn = "up"
    /\ tcpUp = <<>> /\ tcpDown = <<>> /\ appSent = 0 /\ targetSent = 0
    /\ appGot = <<>> /\ targetGot = <<>> /\ faults = 0
    /\ torn = {} /\ lost = [up |-> 0, down |-> 0]

ForwardingInit ==
    \E kind \in FrontEnds, allowed \in SUBSET Commands : ForwardingInitFrom(kind, allowed)

\* No client at all.
ForwardingIdle == ForwardingInitFrom("none", {})

-----------------------------------------------------------------------------
(* Channels *)

Ended(ch) == ch # <<>> /\ Last(ch) \in Ends

\* What one read may take of a channel: some of the units in it, in order.
Readable(ch) == {n \in 1..Len(ch) : \A i \in 1..n : ch[i] \notin Ends}
After(ch, n) == SubSeq(ch, n + 1, Len(ch))
\* stream_recv reports the end together with the last data, if it has arrived.
FinSeen(ch, n) == {FALSE} \cup {Len(ch) > n /\ ch[n + 1] = "FIN"}

\* The write half of a channel is usable.
Writable(ch) == conn = "up" /\ ch \notin stopped

\* A read of ch ends without data: at its end, or because the connection is lost.
AtEnd(ch) == (ch # <<>> /\ Head(ch) \in Ends) \/ conn = "dead"
CleanEnd(ch) == ch # <<>> /\ Head(ch) = "FIN"

\* A Stream goes out of scope: it is queued unless both halves closed cleanly.
Dropped(s) ==
    [s EXCEPT !.held = FALSE, !.queued = ~(s.sent_fin /\ s.recv_fin)]

\* A line is read in part, with these consequences.
Tears(what) ==
    /\ Cardinality(torn \cap {"command", "answer"}) < MaxTorn
    /\ torn' = torn \cup what

\* Something fails: a timeout, an abort, or the loss of the QUIC connection.
Fails == faults < MaxFaults /\ faults' = faults + 1

-----------------------------------------------------------------------------
(* The front ends up to the relay *)

\* TCP is closed by the front end: after its answers the application sees the end.
CloseTcp(got) == IF got # <<>> /\ Last(got) = "FIN" THEN got ELSE Append(got, "FIN")

\* The task ends, with an answer to the application if there is one to give,
\* and drops its stream s.
QuitWith(s, answer) ==
    /\ front' = [front EXCEPT !.pc = "closed", !.upLoop = "off", !.downLoop = "off"]
    /\ near' = IF s.held THEN Dropped(s) ELSE s
    /\ appGot' = CloseTcp(appGot \o (IF front.kind = "forward" THEN <<>> ELSE answer))

Quit(answer) == QuitWith(near, answer)

\* What the parsers make of a request: the command for its destination, its mode,
\* and whether the client keeps its connection.
parse_connect_target == [command : Commands, mode : {"tunnel"}, keep : {FALSE}]
parse_proxy_target == [command : Commands, mode : {"request"}, keep : BOOLEAN]
\* parse_request may also refuse: no such method or URL, or a host outside the
\* network without a node for egress.
parse_request == parse_connect_target \cup parse_proxy_target
ParseErrors == {"malformed", "forbidden"}

\* The first n units that the application has sent can be read at once.
Arrived(n) == n <= Len(tcpUp) /\ \A i \in 1..n : tcpUp[i] \notin Ends

\* read_request_bytes reads on until it has the whole head of a request.  Whatever
\* else of the application's has come with it, a body or the first data for a
\* tunnel, is in the same buffer, and is not looked at again.
HttpReadRequest ==
    /\ front.kind = "http" /\ front.pc = "idle" /\ tcpUp # <<>>
    /\ \/ \E n \in 1..Len(tcpUp) :
            /\ Head(tcpUp) = "REQUEST" /\ Arrived(n)
            /\ tcpUp' = After(tcpUp, n) /\ lost' = [lost EXCEPT !.up = n - 1]
            /\ \/ \E answer \in ParseErrors : Quit(<<answer>>)
               \/ /\ \E r \in parse_request :
                       front' = [front EXCEPT !.pc = "open", !.command = r.command,
                                  !.mode = r.mode, !.keep = r.keep, !.count = 1]
                  /\ UNCHANGED <<near, appGot>>
       \* The client ends before its request is complete.  Nothing is said about that
       \* once a request has been served, or if nothing was read.
       \/ /\ Head(tcpUp) # "REQUEST" /\ Ended(tcpUp)
          /\ tcpUp' = <<>> /\ UNCHANGED lost
          /\ Quit(IF tcpUp # <<"FIN">> /\ front.count = 0 THEN <<"malformed">> ELSE <<>>)
       \* On a connection kept alive, what is left of a body is read as a request.
       \/ /\ Head(tcpUp) \in Data
          /\ tcpUp' = <<>> /\ UNCHANGED lost
          /\ Quit(<<"malformed">>)
    /\ UNCHANGED <<server, policy, far, up, down, stopped, conn, appSent, targetVars, targetGot,
                   faults, torn>>

\* handle_auth is one read: what came with the greeting is not looked at again.  The
\* greeting may be cut, or refused with or without an answer.
SocksReadGreeting ==
    /\ front.kind = "socks" /\ front.pc = "idle" /\ tcpUp # <<>>
    /\ \/ \E n \in 1..Len(tcpUp) :
            /\ Head(tcpUp) = "GREETING" /\ Arrived(n)
            /\ tcpUp' = After(tcpUp, n) /\ lost' = [lost EXCEPT !.up = IF n < 2 THEN 0 ELSE n - 2]
            /\ \/ front' = [front EXCEPT !.pc = "negotiate"] /\ UNCHANGED <<near, appGot>>
               \/ \E answer \in {<<>>, <<"malformed">>} : Quit(answer)
       \/ Head(tcpUp) # "GREETING" /\ tcpUp' = <<>> /\ Quit(<<>>) /\ UNCHANGED lost
    /\ UNCHANGED <<server, policy, far, up, down, stopped, conn, appSent, targetVars, targetGot,
                   faults, torn>>

\* handle_connect_request reads exactly a request, and route_connection may refuse
\* it.  Data in its place is no request, and is refused without an answer.
SocksReadRequest ==
    /\ front.kind = "socks" /\ front.pc = "negotiate" /\ tcpUp # <<>>
    /\ \/ /\ Head(tcpUp) = "REQUEST" /\ tcpUp' = Tail(tcpUp)
          /\ \/ \E answer \in {<<>>, <<"malformed">>, <<"forbidden">>} : Quit(answer)
             \/ /\ \E command \in Commands :
                     front' = [front EXCEPT !.pc = "open", !.command = command, !.mode = "relay"]
                /\ UNCHANGED <<near, appGot>>
       \/ Head(tcpUp) # "REQUEST" /\ tcpUp' = <<>> /\ Quit(<<>>)
    /\ UNCHANGED <<server, policy, far, up, down, stopped, conn, appSent, targetVars, targetGot,
                   faults, history>>

\* handle_forward_connection and ping_quic have nothing to read first.
StartForward ==
    /\ front.kind \in {"forward", "ping"} /\ front.pc = "idle"
    /\ front' = [front EXCEPT !.pc = "open", !.mode = "relay",
                   !.command = IF front.kind = "ping" THEN "PING" ELSE "FORWARD"]
    /\ UNCHANGED <<server, policy, streamVars, appVars, targetVars, appGot, targetGot, faults,
                   history>>

\* open_stream, within REQUEST_TIMEOUT for the proxies.
OpenStream ==
    /\ front.pc = "open"
    /\ \/ /\ conn = "up"
          /\ front' = [front EXCEPT !.pc = "command"]
          /\ near' = [near EXCEPT !.held = TRUE]
          /\ UNCHANGED <<appGot, faults>>
       \/ Quit(<<"unreachable">>) /\ UNCHANGED faults
       \/ front.kind \in {"http", "socks"} /\ Quit(<<"timeout">>) /\ Fails
    /\ UNCHANGED <<server, policy, far, up, down, stopped, conn, appVars, targetVars, targetGot,
                   history>>

\* send_command's write, and ping's.
SendCommand ==
    /\ front.pc = "command"
    /\ IF conn = "dead" THEN Quit(<<"rejected">>) /\ UNCHANGED up
       ELSE /\ front' = [front EXCEPT !.pc = IF front.kind = "ping" THEN "finish" ELSE "verdict"]
            /\ up' = up \o <<front.command, "EOL">>
            /\ UNCHANGED <<near, appGot>>
    /\ UNCHANGED <<server, policy, far, down, stopped, conn, appVars, targetVars, targetGot, faults,
                   history>>

\* The finish that follows the write of "PING" and of an HTTP request, an await of
\* its own: the other side may have stopped the stream by then.
FinishSending ==
    /\ front.pc = "finish"
    /\ IF Writable("up")
       THEN /\ front' = [front EXCEPT !.pc = IF front.kind = "ping" THEN "verdict" ELSE "response"]
            /\ up' = Append(up, "FIN")
            /\ near' = [near EXCEPT !.sent_fin = TRUE]
            /\ UNCHANGED appGot
       ELSE Quit(IF front.kind = "ping" THEN <<"rejected">> ELSE <<>>) /\ UNCHANGED up
    /\ UNCHANGED <<server, policy, far, down, stopped, conn, appVars, targetVars, targetGot, faults,
                   history>>

\* The application has given up on the connection: writing to it fails.
AppAborted == tcpUp # <<>> /\ Last(tcpUp) = "RST"

\* The answer is "OK" alone: an HTTP request is written, its head rebuilt and without
\* a body; the other modes tell the application and start to relay.
Accepted(s) ==
    \/ /\ front.mode = "request" /\ Writable("up")
       /\ up' = Append(up, "HEAD")
       /\ front' = [front EXCEPT !.pc = "finish", !.taken = TRUE]
       /\ near' = s
       /\ UNCHANGED appGot
    \/ /\ front.mode = "request" /\ ~Writable("up")
       /\ QuitWith(s, <<>>) /\ UNCHANGED up
    \/ /\ front.mode = "tunnel" /\ AppAborted
       /\ QuitWith(s, <<>>) /\ UNCHANGED up
    \/ /\ front.mode # "request"
       /\ appGot' = IF front.kind = "forward" THEN appGot ELSE Append(appGot, "accepted")
       /\ front' = [front EXCEPT !.pc = "relay", !.taken = TRUE, !.upLoop = "on",
                      !.downLoop = "on"]
       /\ near' = s
       /\ UNCHANGED up

\* Anything else than "OK", or a whole "PONG" for ping, is taken for a refusal.
NotAccepted(s, chunk) ==
    /\ front' = [front EXCEPT !.pc = "closed"]
    /\ near' = Dropped(s)
    /\ appGot' = CASE front.kind = "forward" -> CloseTcp(appGot)
                   [] front.kind = "ping" /\ chunk = <<"PONG", "EOL">> -> <<"pong", "FIN">>
                   [] OTHER -> <<"rejected", "FIN">>
    /\ UNCHANGED up

\* What send_command makes of the chunk it has read, once trimmed: "OK" need not have
\* its newline yet, and may be followed by data of the target's if that is white
\* space, which is thrown away.
IsOk(chunk) == front.kind # "ping" /\ Len(chunk) >= 2 /\ SubSeq(chunk, 1, 2) = <<"O", "K">>
Cut(chunk) == chunk \in {<<"O">>, <<"O", "K">>, <<"PONG">>}

\* send_command's only read, of at most 256 bytes; ping's, within five seconds.
ReadVerdict ==
    /\ front.pc = "verdict"
    /\ \/ \E n \in Readable(down) : \E fin \in FinSeen(down, n) :
            LET chunk == SubSeq(down, 1, n)
                seen == [near EXCEPT !.recv_fin = fin]
            IN  /\ down' = After(down, n)
                /\ IF Cut(chunk) THEN Tears({"answer"}) ELSE UNCHANGED torn
                /\ \/ /\ IsOk(chunk) /\ Accepted(seen)
                      /\ lost' = [lost EXCEPT !.down = IF n < 3 THEN 0 ELSE n - 3]
                   \/ ~(IsOk(chunk) /\ n <= 3) /\ NotAccepted(seen, chunk) /\ UNCHANGED lost
                /\ UNCHANGED faults
       \/ /\ AtEnd(down)
          /\ NotAccepted([near EXCEPT !.recv_fin = CleanEnd(down)], <<>>)
          /\ UNCHANGED <<down, faults, history>>
       \/ /\ front.kind = "ping" /\ Quit(<<"timeout">>) /\ Fails
          /\ UNCHANGED <<up, down, history>>
    /\ UNCHANGED <<server, policy, far, stopped, conn, appVars, targetVars, targetGot>>

-----------------------------------------------------------------------------
(* handle_http_request's response, handle_tunnel, relay *)

\* The loop from the stream to the application ends.  An HTTP response that came
\* to its end leaves the connection open if the client wants it; a relay shuts
\* the application's connection down, however the stream ended.
FrontStopsReading(s, complete) ==
    IF front.pc = "response"
    THEN /\ near' = Dropped(s)
         /\ front' = [front EXCEPT !.pc = IF complete /\ front.keep THEN "idle" ELSE "closed"]
         /\ appGot' = IF complete /\ front.keep THEN Append(appGot, "END") ELSE CloseTcp(appGot)
    ELSE /\ near' = s
         /\ front' = [front EXCEPT !.downLoop = "done"]
         /\ appGot' = CloseTcp(appGot)

\* One turn of that loop.
FrontReads ==
    /\ front.pc = "response" \/ front.downLoop = "on"
    /\ \/ \E n \in Readable(down) : \E fin \in FinSeen(down, n) :
            LET seen == [near EXCEPT !.recv_fin = fin]
            IN  /\ down' = After(down, n)
                /\ \/ /\ appGot' = appGot \o SubSeq(down, 1, n)
                      /\ near' = seen
                      /\ UNCHANGED front
                   \/ AppAborted /\ FrontStopsReading(seen, FALSE)
       \/ /\ AtEnd(down)
          /\ FrontStopsReading([near EXCEPT !.recv_fin = CleanEnd(down)], CleanEnd(down))
          /\ UNCHANGED down
    /\ UNCHANGED <<server, policy, far, up, stopped, conn, appVars, targetVars, targetGot, faults,
                   history>>

\* One turn of the loop from the application to the stream.  The end of the
\* application's data and a read or write error finish the stream.
FrontWrites ==
    /\ front.upLoop = "on" /\ tcpUp # <<>>
    /\ tcpUp' = Tail(tcpUp)
    /\ IF Head(tcpUp) \in Data /\ Writable("up")
       THEN up' = Append(up, Head(tcpUp)) /\ UNCHANGED <<front, near>>
       ELSE /\ front' = [front EXCEPT !.upLoop = "done"]
            /\ near' = [near EXCEPT !.sent_fin = Writable("up")]
            /\ up' = IF Writable("up") THEN Append(up, "FIN") ELSE up
    /\ UNCHANGED <<server, policy, far, down, stopped, conn, appSent, targetVars, appGot, targetGot,
                   faults, history>>

\* Mutant: the relay is over when one direction is.
RelayEndsEarly ==
    /\ front.pc = "relay" /\ (front.upLoop = "done" \/ front.downLoop = "done")
    /\ Quit(<<>>)
    /\ UNCHANGED <<server, policy, far, up, down, stopped, conn, appVars, targetVars, targetGot,
                   faults, history>>

\* join!: both loops have ended, the stream and the TCP connection are dropped.
RelayEnds ==
    /\ front.pc = "relay" /\ front.upLoop = "done" /\ front.downLoop = "done"
    /\ Quit(<<>>)
    /\ UNCHANGED <<server, policy, far, up, down, stopped, conn, appVars, targetVars, targetGot,
                   faults, history>>

\* REQUEST_TIMEOUT on a request and on a tunnel, its relay included: the handler
\* is dropped and the application is sent an error page, whatever it has seen.
RequestTimesOut ==
    /\ front.kind = "http" /\ front.pc \in {"response", "relay"}
    /\ Quit(IF appGot # <<>> /\ Last(appGot) = "FIN" THEN <<>> ELSE <<"timeout">>)
    /\ Fails
    /\ UNCHANGED <<server, policy, far, up, down, stopped, conn, appVars, targetVars, targetGot,
                   history>>

-----------------------------------------------------------------------------
(* The serving side: handle_quic_connection, handle_quic_stream *)

\* accept_stream: a stream of the peer has become readable.
AcceptStream ==
    /\ server.pc = "none" /\ up # <<>> /\ conn = "up"
    /\ server' = [server EXCEPT !.pc = "read"]
    /\ far' = [far EXCEPT !.held = TRUE]
    /\ UNCHANGED <<front, policy, near, up, down, stopped, conn, appVars, targetVars, appGot,
                   targetGot, faults, history>>

\* The task ends with a last line and a finish, if they can be written.  They are
\* two awaits; whoever could stop the stream between them has stopped reading it.
ServerQuits(s, words) ==
    /\ server' = [server EXCEPT !.pc = "gone"]
    /\ down' = IF Writable("down") THEN down \o words ELSE down
    /\ far' = Dropped([s EXCEPT !.sent_fin = words # <<>> /\ Writable("down")])

\* AllowedPorts::is_allowed and allow_egress
Allowed == policy

\* A line cut within its destination names another one, which may be allowed even
\* if the one that was meant is not; egress is allowed for all or for none.
MayDialElsewhere(command) == command = "FORWARD" \/ (command = "CONNECT" /\ command \in Allowed)

\* One read.  Its first line is the command, or all of it if it holds no newline:
\* then the rest of the line is still to come.  A command that is not recognised or
\* not allowed, or whose target does not parse, is answered with an error.
ReadCommand ==
    /\ server.pc = "read"
    /\ \/ \E n \in Readable(up) : \E fin \in FinSeen(up, n) :
            LET command == up[1]
                cut == n = 1
                seen == [far EXCEPT !.recv_fin = fin]
                dials == server' = [server EXCEPT !.pc = "dial"] /\ far' = seen /\ UNCHANGED down
                tears(what) == IF cut THEN Tears(what) ELSE UNCHANGED torn
            IN  /\ up' = After(up, n)
                /\ \/ command = "PING" /\ ServerQuits(seen, <<"PONG", "EOL", "FIN">>)
                      /\ tears({"command"})
                   \/ command \in Allowed /\ dials /\ tears({"command"})
                   \/ cut /\ MayDialElsewhere(command) /\ dials /\ tears({"command", "elsewhere"})
                   \/ /\ cut \/ command \in Commands \ Allowed \/ command = "CONNECT"
                      /\ ServerQuits(seen, <<"ERROR", "FIN">>) /\ tears({"command"})
       \/ /\ AtEnd(up)
          /\ ServerQuits([far EXCEPT !.recv_fin = CleanEnd(up)], <<>>)
          /\ UNCHANGED <<up, torn>>
    /\ UNCHANGED <<front, policy, near, stopped, conn, appVars, targetVars, appGot, targetGot,
                   faults, lost>>

\* TcpStream::connect, then "OK" and the relay, or the error.
Dial ==
    /\ server.pc = "dial"
    /\ \/ /\ Writable("down")
          /\ targetGot' = <<"DIALLED">>
          /\ down' = down \o <<"O", "K", "EOL">>
          /\ server' = [server EXCEPT !.pc = "relay", !.upLoop = "on", !.downLoop = "on"]
          /\ UNCHANGED far
       \/ ~Writable("down") /\ targetGot' = <<"DIALLED", "FIN">> /\ ServerQuits(far, <<>>)
       \/ ServerQuits(far, <<"ERROR", "FIN">>) /\ UNCHANGED targetGot
    /\ UNCHANGED <<front, policy, near, up, stopped, conn, appVars, targetVars, appGot, faults,
                   history>>

\* One turn of quic_to_tcp.
ServerReads ==
    /\ server.upLoop = "on"
    /\ \/ \E n \in Readable(up) : \E fin \in FinSeen(up, n) :
            /\ far' = [far EXCEPT !.recv_fin = fin]
            /\ up' = After(up, n)
            /\ \/ targetGot' = targetGot \o SubSeq(up, 1, n) /\ UNCHANGED server
               \/ /\ tcpDown # <<>> /\ Last(tcpDown) = "RST"
                  /\ server' = [server EXCEPT !.upLoop = "done"]
                  /\ targetGot' = Append(targetGot, "FIN")
       \/ /\ AtEnd(up)
          /\ server' = [server EXCEPT !.upLoop = "done"]
          /\ far' = [far EXCEPT !.recv_fin = CleanEnd(up)]
          /\ targetGot' = Append(targetGot, "FIN")
          /\ UNCHANGED up
    /\ UNCHANGED <<front, policy, near, down, stopped, conn, appVars, targetVars, appGot, faults,
                   history>>

\* One turn of tcp_to_quic.
ServerWrites ==
    /\ server.downLoop = "on" /\ tcpDown # <<>>
    /\ tcpDown' = Tail(tcpDown)
    /\ IF Head(tcpDown) \in Data /\ Writable("down")
       THEN down' = Append(down, Head(tcpDown)) /\ UNCHANGED <<server, far>>
       ELSE /\ server' = [server EXCEPT !.downLoop = "done"]
            /\ far' = [far EXCEPT !.sent_fin = Writable("down")]
            /\ down' = IF Writable("down") THEN Append(down, "FIN") ELSE down
    /\ UNCHANGED <<front, policy, near, up, stopped, conn, appVars, targetSent, appGot, targetGot,
                   faults, history>>

ServerRelayEnds ==
    /\ server.pc = "relay" /\ server.upLoop = "done" /\ server.downLoop = "done"
    /\ server' = [server EXCEPT !.pc = "gone"]
    /\ far' = Dropped(far)
    /\ UNCHANGED <<front, policy, near, up, down, stopped, conn, appVars, targetVars, appGot,
                   targetGot, faults, history>>

-----------------------------------------------------------------------------
(* drain_pending_shutdown: the halves that a dropped Stream left open are shut. *)

\* Shutting the reading half makes the peer's writes fail; shutting the writing
\* half replaces what is under way by a reset.
\* Mutant: both halves are shut, however they ended.
DrainBoth(s, reads, writes) ==
    [stop |-> {reads}, reset |-> {writes}]

\* Mutant: the writing half is left alone.
DrainReadOnly(s, reads, writes) ==
    [stop |-> IF s.recv_fin THEN {} ELSE {reads}, reset |-> {}]

\* What draining s, which reads one channel and writes the other, does to them.
Drain(s, reads, writes) ==
    [stop |-> IF s.recv_fin THEN {} ELSE {reads}, reset |-> IF s.sent_fin THEN {} ELSE {writes}]

\* At the front's next open_stream on this connection, for another client.
DrainNear ==
    /\ near.queued /\ conn = "up"
    /\ near' = [near EXCEPT !.queued = FALSE]
    /\ LET d == Drain(near, "down", "up")
       IN  /\ stopped' = stopped \cup d.stop
           /\ up' = IF "up" \in d.reset THEN <<"RST">> ELSE up
    /\ UNCHANGED <<front, server, policy, far, down, conn, appVars, targetVars, appGot, targetGot,
                   faults, history>>

\* The serving side is always in accept_stream, which looks again at every packet.
DrainFar ==
    /\ far.queued /\ conn = "up"
    /\ far' = [far EXCEPT !.queued = FALSE]
    /\ LET d == Drain(far, "up", "down")
       IN  /\ stopped' = stopped \cup d.stop
           /\ down' = IF "down" \in d.reset THEN <<"RST">> ELSE down
    /\ UNCHANGED <<front, server, policy, near, up, conn, appVars, targetVars, appGot, targetGot,
                   faults, history>>

-----------------------------------------------------------------------------
(* The application, the target and the network *)

AppConnects ==
    /\ front.pc = "off"
    /\ front' = [front EXCEPT !.pc = "idle"]
    /\ IF front.kind \in {"http", "socks"}
       THEN \E request \in {<<"PART">>, IF front.kind = "http" THEN <<"REQUEST">>
                                       ELSE <<"GREETING", "REQUEST">>} : tcpUp' = request
       ELSE UNCHANGED tcpUp
    /\ UNCHANGED <<server, policy, streamVars, appSent, targetVars, appGot, targetGot, faults,
                   history>>

\* The application need not wait to be told that it may send.  What it sends while
\* nobody reads is as if it were sent when the next read is due, and what follows
\* the end of the relay's loop is never read.
AppMaySend ==
    /\ \/ front.pc \in {"idle", "negotiate"} /\ front.kind \in {"http", "socks"}
       \/ front.upLoop = "on"
    /\ ~Ended(tcpUp) /\ tcpUp # <<"PART">>

AppSends ==
    /\ AppMaySend /\ appSent < Len(Units)
    /\ appSent' = appSent + 1
    /\ tcpUp' = Append(tcpUp, Units[appSent'])
    /\ UNCHANGED <<front, server, policy, streamVars, targetVars, appGot, targetGot, faults,
                   history>>

\* It closes its half, or gives up on the connection.
AppEnds ==
    /\ front.kind # "ping" /\ front.pc \notin {"off", "closed"}
    /\ ~Ended(tcpUp) /\ front.upLoop # "done"
    /\ \E how \in Ends :
            /\ tcpUp' = Append(tcpUp, how)
            /\ IF how = "RST" THEN Fails ELSE UNCHANGED faults
    /\ UNCHANGED <<front, server, policy, streamVars, appSent, targetVars, appGot, targetGot,
                   history>>

TargetMaySend == server.pc = "relay" /\ server.downLoop = "on" /\ ~Ended(tcpDown)

TargetSends ==
    /\ TargetMaySend /\ targetSent < Len(Units)
    /\ targetSent' = targetSent + 1
    /\ tcpDown' = Append(tcpDown, Units[targetSent'])
    /\ UNCHANGED <<front, server, policy, streamVars, appVars, appGot, targetGot, faults, history>>

TargetEnds ==
    /\ TargetMaySend
    /\ \E how \in Ends :
            /\ tcpDown' = Append(tcpDown, how)
            /\ IF how = "RST" THEN Fails ELSE UNCHANGED faults
    /\ UNCHANGED <<front, server, policy, streamVars, appVars, targetSent, appGot, targetGot,
                   history>>

TransportFails ==
    /\ conn = "up" /\ front.pc # "off"
    /\ conn' = "dead" /\ Fails
    /\ UNCHANGED <<front, server, policy, near, far, up, down, stopped, appVars, targetVars, appGot,
                   targetGot, history>>

-----------------------------------------------------------------------------
FrontSteps ==
    \/ HttpReadRequest \/ SocksReadGreeting \/ SocksReadRequest \/ StartForward
    \/ OpenStream \/ SendCommand \/ FinishSending \/ ReadVerdict \/ RelayEnds
ServerSteps == AcceptStream \/ ReadCommand \/ Dial \/ ServerRelayEnds

ForwardingNext ==
    \/ FrontSteps \/ FrontReads \/ FrontWrites \/ RequestTimesOut
    \/ ServerSteps \/ ServerReads \/ ServerWrites
    \/ DrainNear \/ DrainFar
    \/ AppConnects \/ AppSends \/ AppEnds \/ TargetSends \/ TargetEnds \/ TransportFails

\* The runtime polls both sides' tasks and loops.  Of the ends it is only
\* assumed that a target which has seen the end of the data closes as well; the
\* queue of dropped streams is drained on the serving side, not on the front's.
ForwardingFairness ==
    /\ WF_forwardVars(FrontSteps)
    /\ WF_forwardVars(FrontReads) /\ WF_forwardVars(FrontWrites)
    /\ WF_forwardVars(ServerSteps)
    /\ WF_forwardVars(ServerReads) /\ WF_forwardVars(ServerWrites)
    /\ WF_forwardVars(DrainFar)
    /\ WF_forwardVars(AppEnds /\ front.downLoop = "done")
    /\ WF_forwardVars(TargetEnds /\ server.upLoop = "done")

\* The connection alone, without any fairness.
ForwardingSpec == ForwardingInit /\ [][ForwardingNext]_forwardVars

-----------------------------------------------------------------------------
(* Properties *)

Within(seq, what) == \E i \in 1..Len(seq) : seq[i] = what
\* The units of data in a sequence.
DataOf(seq) ==
    LET data[i \in 0..Len(seq)] ==
            IF i = 0 THEN <<>>
            ELSE IF seq[i] \in Data THEN Append(data[i - 1], seq[i]) ELSE data[i - 1]
    IN  data[Len(seq)]
Undisturbed == conn = "up" /\ faults = 0

\* The application is told the truth, as far as lines read in part leave it.
\* Success means that a target was dialled, and unless the command was cut within
\* its destination, that the serving node allows the command that was asked for.
\* As long as nothing fails and every line arrives whole, a refusal means that the
\* target was not dialled, although the serving side drops its stream as soon as it
\* has written its answer; the exceptions are a target that speaks first, whose
\* words can arrive in one read with "OK", and a ping whose own finish fails because
\* the other side has already answered and dropped its stream.  A connection that
\* was refused has delivered nothing of the application's to any target.
ToldTheTruth ==
    LET refused == Within(appGot, "rejected")
    IN  /\ (Within(appGot, "accepted") \/ DataOf(appGot) # <<>>) =>
                /\ targetGot # <<>>
                /\ "elsewhere" \in torn \/ front.command \in policy
        /\ (Undisturbed /\ refused /\ torn = {}) =>
                \/ front.kind = "ping" /\ ~near.sent_fin
                \/ front.kind # "ping" /\ (targetGot = <<>> \/ targetSent > 0)
        /\ refused => DataOf(targetGot) = <<>> /\ ~Within(targetGot, "HEAD")

\* A connection that ends cleanly was complete, but for what the first reads threw
\* away.  What either end has received is what the other sent from there on, in
\* order, and of the protocol's own words only the rest of a line that was read in
\* part.  When an end that was accepted sees the end, nothing else is missing, unless
\* a timeout, an abort or the loss of the QUIC connection has cut the relay short.
\* An HTTP request that is not a tunnel reaches its target as its head alone.
EofMeansAll ==
    LET from(n, got) == SubSeq(Units, n + 1, n + Len(DataOf(got)))
        sees == Undisturbed /\ front.taken
    IN  /\ DataOf(appGot) = from(lost.down, appGot)
        /\ DataOf(targetGot) = from(lost.up, targetGot)
        /\ \A w \in Words \ {"EOL"} : ~Within(appGot, w) /\ ~Within(targetGot, w)
        /\ Within(appGot, "EOL") => "answer" \in torn
        /\ Within(targetGot, "EOL") => "command" \in torn
        /\ (sees /\ (Within(appGot, "FIN") \/ Within(appGot, "END"))) =>
                lost.down + Len(DataOf(appGot)) = targetSent
        /\ (sees /\ Within(targetGot, "FIN")) =>
                IF front.mode = "request" THEN Within(targetGot, "HEAD")
                ELSE lost.up + Len(DataOf(targetGot)) = appSent
        /\ front.mode = "request" => DataOf(targetGot) = <<>>

\* A serving task does not outlive its client: once the front end is through,
\* and a stream it left half open has been drained, the task at the other end
\* comes to its end as well.
StreamsReleased ==
    (front.pc = "closed" /\ ~near.queued) ~> (server.pc \in {"none", "gone"} \/ conn = "dead")
=============================================================================
