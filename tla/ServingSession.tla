--------------------------- MODULE ServingSession ---------------------------
(***************************************************************************)
(* ServingSession and ServingHandle of wispers-connect/src/serving.rs: the *)
(* event loop that serves one hub stream after another, the bounded        *)
(* channel on which handles send it commands, and the channels on which    *)
(* it delivers incoming P2P connections.                                   *)
(*                                                                         *)
(* run awaits one thing at a time.  While it handles a hub request it      *)
(* neither takes commands nor notices that the stream has broken, so each  *)
(* await of a handler is a step of its own here.  What the handlers decide *)
(* is abstracted: Endorsing models pairing and cosigning, PeerConnection   *)
(* the checks on a StartConnectionRequest.                                 *)
(*                                                                         *)
(* The module has no specification of its own: the program that embeds the *)
(* session (Daemon, FfiServing) creates it, sends it commands and takes    *)
(* its connections.                                                        *)
(***************************************************************************)
EXTENDS Integers, Sequences, FiniteSets

CONSTANTS
    Callers,            \* tasks that use a clone of the ServingHandle
    MaxRequests,        \* bound on the requests the hub sends
    CommandCapacity,    \* the command channel holds 32 commands
    ResponseCapacity,   \* a stream's response channel holds 32 responses
    IncomingCapacity,   \* an incoming channel holds 16 connections
    Base, Cap,          \* ReconnectBackoff::BASE and CAP, in seconds
    MaxBreaks           \* bound on broken streams

ASSUME SessionAssumption ==
    /\ {CommandCapacity, ResponseCapacity, IncomingCapacity, Base} \subseteq Nat \ {0}
    /\ Cap \in Nat /\ Base =< Cap
    /\ {MaxRequests, MaxBreaks} \subseteq Nat

VARIABLES
    phase,      \* where run is: "none" and "created" before it has started
    outcome,    \* what run returned
    connected,  \* ServingSession.connected, as status reports it
    backoff,    \* ReconnectBackoff.current
    epoch,      \* streams opened so far; the current one has this number
    stream,     \* the current stream: "up", or how it has broken
    inbox,      \* requests the current stream will yield
    sent,       \* how many requests the hub has sent
    inHand,     \* the request or check-in that serve is handling
    outbox,     \* responses that wait in the current stream's channel
    answers,    \* responses that were put on a stream
    commands,   \* the command channel: who sent what
    call,       \* call[c]: the ServingHandle method c is in
    owned,      \* the embedding program keeps a ServingHandle
    tasks,      \* spawned tasks that complete incoming connections
    incoming,   \* incoming[t]: the channel of transport t
    listening   \* listening[t]: somebody keeps its receiver

runVars == <<phase, outcome, connected, backoff>>
hubVars == <<epoch, stream, inbox, sent, outbox, answers>>
commandVars == <<commands, call, owned>>
connectionVars == <<tasks, incoming, listening>>
sessionVars == <<runVars, hubVars, inHand, commandVars, connectionVars>>

Transports == {"udp", "quic"}
\* A Welcome and an unknown request are "unanswered", pairing and cosigning are
\* "endorse"; a StartConnectionRequest asks for a transport.
Kinds == Transports \cup {"unanswered", "endorse"}
NoRequest == [pc |-> "none"]
NoCall == [pc |-> "idle"]

SessionInit ==
    /\ phase = "none" /\ outcome = "none"
    /\ connected = FALSE
    /\ backoff = Base
    /\ epoch = 0 /\ stream = "none" /\ inbox = <<>> /\ sent = 0
    /\ inHand = NoRequest /\ outbox = 0 /\ answers = {}
    /\ commands = <<>> /\ call = [c \in Callers |-> NoCall] /\ owned = FALSE
    /\ tasks = {}
    /\ incoming = [t \in Transports |-> <<>>]
    /\ listening = [t \in Transports |-> FALSE]

-----------------------------------------------------------------------------
(* Creating and ending the session. *)

\* open_serving_connection has succeeded, and new returns the handle, the
\* session and the receivers.
Create ==
    /\ phase = "none"
    /\ phase' = "created"
    /\ epoch' = 1 /\ stream' = "up"
    /\ owned' = TRUE
    /\ listening' = [t \in Transports |-> TRUE]
    /\ UNCHANGED <<outcome, connected, backoff, inbox, sent, outbox, answers, inHand,
                   commands, call, tasks, incoming>>

\* run starts, on the connection that start_serving has opened.
Run ==
    /\ phase = "created"
    /\ phase' = "serving" /\ connected' = TRUE
    /\ UNCHANGED <<outcome, backoff, hubVars, inHand, commandVars, connectionVars>>

\* Calls whose command is dropped with the channel: the reply sender goes away
\* and reply_rx reports SessionShutdown.
Abandoned ==
    [c \in Callers |-> IF call[c].pc = "waiting"
                       THEN [call[c] EXCEPT !.pc = "returned", !.reply = "SessionShutdown"]
                       ELSE call[c]]

\* The session is dropped: with run's result, or without ever having run.
End(result) ==
    /\ phase' = "ended" /\ outcome' = result
    /\ commands' = <<>> /\ call' = Abandoned
    /\ stream' = "none" /\ inbox' = <<>> /\ outbox' = 0
    /\ UNCHANGED <<connected, backoff, epoch, sent, answers, inHand, owned, connectionVars>>

DropUnstarted == phase = "created" /\ End("dropped")

-----------------------------------------------------------------------------
(* ServingHandle: status, generate_activation_code and shutdown. *)

Calling(kind) == [pc |-> "sending", kind |-> kind, reply |-> "none"]
Return(c, reply) == [call EXCEPT ![c].pc = "returned", ![c].reply = reply]

\* Mutant: a command is queued whether or not there is room for it.
SendUnbounded(c) ==
    /\ call[c].pc = "sending" /\ phase # "ended"
    /\ commands' = Append(commands, [from |-> c, kind |-> call[c].kind])
    /\ call' = IF call[c].kind = "shutdown" THEN Return(c, "ok")
               ELSE [call EXCEPT ![c].pc = "waiting"]
    /\ UNCHANGED <<runVars, hubVars, inHand, owned, connectionVars>>

\* cmd_tx.send has room.  shutdown returns at once, the others wait for a reply.
SendCommand(c) ==
    /\ call[c].pc = "sending" /\ phase # "ended"
    /\ Len(commands) < CommandCapacity
    /\ commands' = Append(commands, [from |-> c, kind |-> call[c].kind])
    /\ call' = IF call[c].kind = "shutdown" THEN Return(c, "ok")
               ELSE [call EXCEPT ![c].pc = "waiting"]
    /\ UNCHANGED <<runVars, hubVars, inHand, owned, connectionVars>>

SendFails(c) ==
    /\ call[c].pc = "sending" /\ phase = "ended"
    /\ call' = Return(c, "SessionShutdown")
    /\ UNCHANGED <<runVars, hubVars, inHand, commands, owned, connectionVars>>

\* A sender is left: the owner's handle, or the clone a call in progress uses.
HasHandle == owned \/ \E c \in Callers : call[c].pc \in {"sending", "waiting"}

\* Mutant: commands are only taken while there is a connection.
ListensWhenServing == phase = "serving" /\ inHand = NoRequest

\* serve, reconnect or wait_while_servicing_commands is in its select!, where
\* it takes a command.
Listens ==
    \/ phase = "serving" /\ inHand = NoRequest
    \/ phase \in {"connecting", "waiting"}

\* dispatch_command of a status or a code: answered from local state.  A code
\* may be refused with TooManyActivationSessions.
DispatchReply ==
    /\ Listens /\ commands # <<>>
    /\ LET cmd == Head(commands)
       IN  \/ /\ cmd.kind = "status"
              /\ call' = Return(cmd.from, IF connected THEN "connected" ELSE "disconnected")
           \/ /\ cmd.kind = "code"
              /\ \E reply \in {"code", "TooManyActivationSessions"} :
                    call' = Return(cmd.from, reply)
    /\ commands' = Tail(commands)
    /\ UNCHANGED <<runVars, hubVars, inHand, owned, connectionVars>>

\* Mutant: the end of the command channel is passed over.
BreakOnShutdownOnly ==
    /\ Listens
    /\ commands # <<>> /\ Head(commands).kind = "shutdown"
    /\ End("ok")

\* dispatch_command breaks: a shutdown, or recv found every handle dropped.
DispatchBreak ==
    /\ Listens
    /\ \/ commands # <<>> /\ Head(commands).kind = "shutdown"
       \/ commands = <<>> /\ ~HasHandle
    /\ End("ok")

-----------------------------------------------------------------------------
(* serve *)

Selecting == phase = "serving" /\ inHand = NoRequest

\* The send of a CheckIn or of an answer is awaited.
Responding(id, kind, on) ==
    [pc |-> "respond", id |-> id, kind |-> kind, on |-> on, accepted |-> FALSE]

SendCheckIn ==
    /\ Selecting
    /\ inHand' = Responding(0, "checkIn", epoch)
    /\ UNCHANGED <<runVars, hubVars, commandVars, connectionVars>>

\* handle_hub_request: pairing and cosigning are answered from local state, a
\* StartConnectionRequest first fetches the roster from the hub.
HandleHubRequest ==
    /\ Selecting /\ inbox # <<>>
    /\ inbox' = Tail(inbox)
    /\ LET q == Head(inbox)
       IN  inHand' = CASE q.kind = "unanswered" -> NoRequest
                       [] q.kind = "endorse" -> Responding(q.id, q.kind, q.on)
                       [] OTHER -> [Responding(q.id, q.kind, q.on) EXCEPT !.pc = "fetch"]
    /\ UNCHANGED <<runVars, epoch, stream, sent, outbox, answers, commandVars, connectionVars>>

\* handle_start_connection_request up to its answer: accepted, or one of the
\* errors of the roster fetch and of the checks after it.
FetchRoster ==
    /\ inHand.pc = "fetch"
    /\ \E accepted \in BOOLEAN :
            inHand' = [inHand EXCEPT !.pc = "respond", !.accepted = accepted]
    /\ UNCHANGED <<runVars, hubVars, commandVars, connectionVars>>

\* The answer enters the current stream's channel, waiting for room, and the
\* task that completes an accepted connection is spawned.
Respond ==
    /\ inHand.pc = "respond" /\ stream = "up" /\ outbox < ResponseCapacity
    /\ outbox' = outbox + 1
    /\ answers' = IF inHand.kind = "checkIn" THEN answers
                  ELSE answers \cup {[id |-> inHand.id, asked |-> inHand.on, on |-> epoch]}
    /\ tasks' = IF inHand.accepted
                THEN tasks \cup {[id |-> inHand.id, via |-> inHand.kind, pc |-> "ice"]}
                ELSE tasks
    /\ inHand' = NoRequest
    /\ UNCHANGED <<runVars, epoch, stream, inbox, sent, commandVars, incoming, listening>>

\* The stream is gone, sending fails, and an accepted connection is given up.
RespondFails ==
    /\ inHand.pc = "respond" /\ stream # "up"
    /\ inHand' = NoRequest
    /\ UNCHANGED <<runVars, hubVars, commandVars, connectionVars>>

\* Mutant: the end of the stream is noticed in the middle of a request.
NoticedAnywhere ==
    /\ phase = "serving" /\ stream \in {"ended", "failed"}
    /\ phase' = "connecting" /\ connected' = FALSE /\ backoff' = Base /\ inbox' = <<>>
    /\ UNCHANGED <<outcome, epoch, stream, sent, outbox, answers, inHand, commandVars,
                   connectionVars>>

\* request_stream.message() yields the end of the stream or an error, which
\* overtakes the requests that were not read yet: reconnect begins.
Disconnected ==
    /\ Selecting
    /\ \/ stream = "failed"
       \/ stream = "ended" /\ inbox = <<>>
    /\ phase' = "connecting" /\ connected' = FALSE /\ backoff' = Base /\ inbox' = <<>>
    /\ UNCHANGED <<outcome, epoch, stream, sent, outbox, answers, inHand, commandVars,
                   connectionVars>>

\* The error says the hub does not know this node's credentials.
Unauthenticated == Selecting /\ stream = "refused" /\ End("unauthenticated")

-----------------------------------------------------------------------------
(* reconnect *)

Reconnected ==
    /\ phase = "connecting"
    /\ phase' = "serving" /\ connected' = TRUE
    /\ epoch' = epoch + 1 /\ stream' = "up" /\ outbox' = 0
    /\ UNCHANGED <<outcome, backoff, inbox, sent, answers, inHand, commandVars,
                   connectionVars>>

Lesser(a, b) == IF a < b THEN a ELSE b

\* The attempt fails: next_delay doubles the delay, up to the cap.
AttemptFails ==
    /\ phase = "connecting"
    /\ phase' = "waiting" /\ backoff' = Lesser(2 * backoff, Cap)
    /\ UNCHANGED <<outcome, connected, hubVars, inHand, commandVars, connectionVars>>

AttemptRefused == phase = "connecting" /\ End("unauthenticated")

\* wait_while_servicing_commands has slept for the delay.
WaitElapses ==
    /\ phase = "waiting"
    /\ phase' = "connecting"
    /\ UNCHANGED <<outcome, connected, backoff, hubVars, inHand, commandVars,
                   connectionVars>>

-----------------------------------------------------------------------------
(* The hub's end of the stream, which is not part of the repository. *)

HubSends ==
    /\ stream = "up" /\ sent < MaxRequests
    /\ sent' = sent + 1
    /\ \E k \in Kinds : inbox' = Append(inbox, [id |-> sent', kind |-> k, on |-> epoch])
    /\ UNCHANGED <<runVars, epoch, stream, outbox, answers, inHand, commandVars,
                   connectionVars>>

HubReads ==
    /\ outbox > 0
    /\ outbox' = outbox - 1
    /\ UNCHANGED <<runVars, epoch, stream, inbox, sent, answers, inHand, commandVars,
                   connectionVars>>

StreamBreaks ==
    /\ stream = "up" /\ epoch =< MaxBreaks
    /\ \E how \in {"ended", "failed", "refused"} : stream' = how
    /\ outbox' = 0
    /\ UNCHANGED <<runVars, epoch, inbox, sent, answers, inHand, commandVars, connectionVars>>

-----------------------------------------------------------------------------
(* The spawned tasks: connect_answerer, then the delivery. *)

\* ICE and the handshake end, one way or the other.
TaskConnects(k) ==
    /\ k \in tasks /\ k.pc = "ice"
    /\ tasks' = (tasks \ {k}) \cup {[k EXCEPT !.pc = "deliver"]}
    /\ UNCHANGED <<runVars, hubVars, inHand, commandVars, incoming, listening>>

\* tx.send(result): waits for room, and fails only if the receiver is gone.
TaskDelivers(k) ==
    /\ k \in tasks /\ k.pc = "deliver"
    /\ tasks' = tasks \ {k}
    /\ \/ /\ listening[k.via] /\ Len(incoming[k.via]) < IncomingCapacity
          /\ incoming' = [incoming EXCEPT ![k.via] = Append(@, k.id)]
       \/ ~listening[k.via] /\ UNCHANGED incoming
    /\ UNCHANGED <<runVars, hubVars, inHand, commandVars, listening>>

\* recv yields a delivered connection.
Take(t) ==
    /\ incoming[t] # <<>>
    /\ incoming' = [incoming EXCEPT ![t] = Tail(@)]
    /\ UNCHANGED <<runVars, hubVars, inHand, commandVars, tasks, listening>>

\* Mutant: the tasks borrow the session's sender instead of cloning it.
ClosedWithSession(t) == incoming[t] = <<>> /\ phase = "ended"

\* Mutant: the handle keeps a sender as well.
ClosedWithHandle(t) ==
    /\ incoming[t] = <<>> /\ phase = "ended" /\ ~owned
    /\ ~\E k \in tasks : k.via = t

\* recv yields None: nothing is queued and every sender is gone, the session's
\* and the clones that its tasks hold.
Closed(t) ==
    /\ incoming[t] = <<>> /\ phase = "ended"
    /\ ~\E k \in tasks : k.via = t

-----------------------------------------------------------------------------
\* A step of the session, of a call on its handle, of its tasks or of the hub.
SessionNext ==
    \/ \E c \in Callers : SendCommand(c) \/ SendFails(c)
    \/ DispatchReply \/ DispatchBreak
    \/ SendCheckIn \/ HandleHubRequest \/ FetchRoster \/ Respond \/ RespondFails
    \/ Disconnected \/ Unauthenticated
    \/ Reconnected \/ AttemptFails \/ AttemptRefused \/ WaitElapses
    \/ HubSends \/ HubReads \/ StreamBreaks
    \/ \E k \in tasks : TaskConnects(k) \/ TaskDelivers(k)

\* The runtime polls every task that can go on, and select! starts with a
\* branch chosen at random, so that no ready branch is passed over forever.  An
\* attempt to connect and a roster fetch end, if only because the transport's
\* keepalive gives up; that an attempt ever succeeds is not assumed.  The hub
\* reads what it is sent as long as the stream is up.
SessionFairness ==
    /\ \A c \in Callers : SF_sessionVars(SendCommand(c) \/ SendFails(c))
    /\ SF_sessionVars(DispatchReply \/ DispatchBreak)
    /\ SF_sessionVars(HandleHubRequest \/ Disconnected \/ Unauthenticated)
    /\ WF_sessionVars(\/ FetchRoster \/ Respond \/ RespondFails
                      \/ Reconnected \/ AttemptFails \/ AttemptRefused \/ WaitElapses)
    /\ WF_sessionVars(HubReads)
    /\ \A i \in 1..MaxRequests :
            WF_sessionVars(\E k \in tasks : k.id = i /\ (TaskConnects(k) \/ TaskDelivers(k)))

-----------------------------------------------------------------------------
(* Properties *)

\* The session's variables have their types.
SessionTypeOK ==
    /\ phase \in {"none", "created", "serving", "connecting", "waiting", "ended"}
    /\ outcome \in {"none", "ok", "unauthenticated", "dropped"}
    /\ {connected, owned} \subseteq BOOLEAN
    /\ backoff \in Base..Cap
    /\ stream \in {"none", "up", "ended", "failed", "refused"}
    /\ epoch \in 0..(MaxBreaks + 1) /\ sent \in 0..MaxRequests
    /\ outbox \in 0..ResponseCapacity
    /\ inbox \in Seq([id : 1..MaxRequests, kind : Kinds, on : 1..(MaxBreaks + 1)])
    /\ commands \in Seq([from : Callers, kind : {"status", "code", "shutdown"}])
    /\ Len(commands) =< CommandCapacity
    /\ \A c \in Callers : call[c].pc \in {"idle", "sending", "waiting", "returned"}
    /\ tasks \subseteq [id : 1..MaxRequests, via : Transports, pc : {"ice", "deliver"}]
    /\ \A t \in Transports : Len(incoming[t]) =< IncomingCapacity

\* An answer goes to the stream its request came from, and at most once:
\* request ids mean nothing on another stream, and the session changes streams
\* while requests, roster fetches and full response channels are outstanding.
AnswersOnSameStream ==
    \A a \in answers :
        /\ a.asked = a.on
        /\ \A b \in answers : a.id = b.id => a = b

\* A session that no handle can reach ends by itself, in whatever phase it is
\* and whatever it is handling when the last handle is dropped.
AbandonedSessionEnds ==
    (phase \notin {"none", "created"} /\ ~HasHandle) ~> (phase = "ended" \/ HasHandle)
=============================================================================
