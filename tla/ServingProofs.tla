---------------------------- MODULE ServingProofs ----------------------------
(***************************************************************************)
(* The serving session inside the daemon and behind the C interface, for   *)
(* any number of callers and acceptors, channels of any capacity, and any  *)
(* number of requests and broken streams.                                  *)
(*                                                                         *)
(* An answer belongs to the stream its request came from because nothing   *)
(* of one stream is left when the next one opens: the inbox has been       *)
(* dropped and serve has nothing in hand outside of its own phase.  Ids    *)
(* are given out in order, so a request that waits, the request in hand    *)
(* and the requests answered have different ids.                           *)
(***************************************************************************)
EXTENDS MCServing, TLAPS

\* The bounds, one by one.
LEMMA Bounds ==
    /\ CommandCapacity \in Nat \ {0} /\ ResponseCapacity \in Nat \ {0}
    /\ IncomingCapacity \in Nat \ {0}
    /\ Base \in Nat \ {0} /\ Cap \in Nat /\ Base =< Cap
    /\ MaxRequests \in Nat /\ MaxBreaks \in Nat
  BY SessionAssumption

Ids == 1..MaxRequests
Epochs == 1..(MaxBreaks + 1)
Request == [id : Ids, kind : Kinds, on : Epochs]
Handled == [pc : {"fetch", "respond"}, id : Ids \cup {0}, kind : Kinds \cup {"checkIn"},
            on : Epochs, accepted : BOOLEAN]
Answer == [id : Ids, asked : Epochs, on : Epochs]
CommandKinds == {"status", "code", "shutdown"}
Replies == {"none", "ok", "connected", "disconnected", "code", "TooManyActivationSessions",
            "SessionShutdown"}
Command == [from : Callers, kind : CommandKinds]
Call == {NoCall} \cup [pc : {"returned"}]
        \cup [pc : {"sending", "waiting", "returned"}, kind : CommandKinds, reply : Replies]
Task == [id : Ids, via : Transports, pc : {"ice", "deliver"}]

\* What run keeps besides its phase.
RunOK ==
    /\ phase \in {"none", "created", "serving", "connecting", "waiting", "ended"}
    /\ outcome \in {"none", "ok", "unauthenticated", "dropped"}
    /\ connected \in BOOLEAN /\ owned \in BOOLEAN
    /\ backoff \in Base..Cap

\* The stream in each phase.  Reconnecting starts with a broken stream whose
\* inbox is dropped, so the bound on streams is kept.
StreamOK ==
    /\ stream \in {"none", "up", "ended", "failed", "refused"}
    /\ epoch \in 0..(MaxBreaks + 1) /\ sent \in 0..MaxRequests
    /\ outbox \in 0..ResponseCapacity
    /\ stream # "none" => epoch > 0
    /\ stream \in {"ended", "failed", "refused"} => epoch =< MaxBreaks
    /\ phase = "none" => stream = "none" /\ inbox = <<>>
    /\ phase \in {"created", "serving"} => stream # "none"
    /\ phase \in {"connecting", "waiting"} => stream \in {"ended", "failed"} /\ inbox = <<>>

\* serve alone has something in hand, from the current stream.
HandOK ==
    inHand # NoRequest =>
        /\ phase = "serving"
        /\ inHand \in Handled
        /\ inHand.on = epoch
        /\ inHand.id =< sent
        /\ inHand.kind # "checkIn" => inHand.id \in Ids
        /\ inHand.pc = "fetch" \/ inHand.accepted => inHand.kind \in Transports

\* serve is answering the request with this id.
Handling(id) == inHand # NoRequest /\ inHand.kind # "checkIn" /\ inHand.id = id

\* Requests wait in the order of their ids, after the request in hand and those
\* answered, and all of them came on the current stream.
RequestsOK ==
    /\ inbox \in Seq(Request)
    /\ answers \subseteq Answer
    /\ \A i \in DOMAIN inbox : inbox[i].on = epoch /\ inbox[i].id =< sent
    /\ \A i, j \in DOMAIN inbox : i < j => inbox[i].id < inbox[j].id
    /\ \A i \in DOMAIN inbox, id \in Ids : Handling(id) => id < inbox[i].id
    /\ \A a \in answers :
        /\ a.id =< sent /\ ~Handling(a.id)
        /\ \A i \in DOMAIN inbox : a.id < inbox[i].id

CommandsOK ==
    /\ commands \in Seq(Command) /\ Len(commands) =< CommandCapacity
    /\ call \in [Callers -> Call]

ConnectionsOK ==
    /\ tasks \subseteq Task
    /\ incoming \in [Transports -> Seq(Ids)]
    /\ \A t \in Transports : Len(incoming[t]) =< IncomingCapacity

SessionInv ==
    /\ RunOK /\ StreamOK /\ HandOK /\ RequestsOK
    /\ CommandsOK /\ ConnectionsOK /\ AnswersOnSameStream

\* An accept call that reports the end has seen the end.
FfiOK ==
    /\ starting \in {"off", "idle", "opening", "reported"}
    /\ running \in {"idle", "accepted", "reported"}
    /\ receivers \in BOOLEAN
    /\ accept \in [Acceptors -> [pc : {"idle", "accepted", "reported"},
                                 via : Transports \cup {"none"},
                                 got : {"none", "connection", "closed"}]]
    /\ \A a \in Acceptors :
        /\ accept[a].pc # "idle" => accept[a].via \in Transports
        /\ accept[a].got # "none" => accept[a].pc = "reported"
        /\ accept[a].got = "closed" => Closed(accept[a].via)

ClientKinds == CommandKinds \cup {"none", "invalid"}

Waiter == Callers \cup {"connector", "main"}
Client == [pc : {"off", "connected", "accepted", "locking", "calling", "writing", "answered",
                 "closed"},
           kind : ClientKinds, answer : Replies \cup {"error"}]

\* A client's task is in the queue once, while it waits for the lock.
QueueOK ==
    /\ queue \in Seq(Waiter)
    /\ \A i \in DOMAIN queue : queue[i] \in Callers => client[queue[i]].pc = "locking"
    /\ \A i, j \in DOMAIN queue : queue[i] \in Callers /\ queue[i] = queue[j] => i = j

\* A client that waits for the lock has sent a request.
DaemonOK ==
    /\ main \in {"off", "start", "select", "publish", "exited"}
    /\ connector \in {"off", "opening", "publish", "done", "failed"}
    /\ readers \subseteq Callers
    /\ socket \in {"none", "stale", "other", "ours"}
    /\ client \in [Callers -> Client]
    /\ \A c \in Callers : client[c].pc = "locking" => client[c].kind # "none"
    /\ QueueOK

ServingInv == SessionInv /\ FfiOK /\ DaemonOK

\* The invariant holds initially.
LEMMA SessionInitInv == SessionInit => SessionInv
<1> SUFFICES ASSUME SessionInit PROVE SessionInv
  OBVIOUS
<1> USE DEF SessionInit
<1>1. RunOK /\ HandOK
  <2>1. backoff \in Base..Cap  BY Bounds
  <2> QED  BY <2>1 DEF RunOK, HandOK
<1>2. StreamOK  BY Bounds DEF StreamOK
<1>3. RequestsOK /\ AnswersOnSameStream
  <2>1. inbox \in Seq(Request) /\ DOMAIN inbox = {}  OBVIOUS
  <2> QED  BY <2>1 DEF RequestsOK, AnswersOnSameStream
<1>4. CommandsOK
  <2>1. commands \in Seq(Command) /\ Len(commands) =< CommandCapacity  BY Bounds
  <2>2. call \in [Callers -> Call]  BY DEF Call
  <2> QED  BY <2>1, <2>2 DEF CommandsOK
<1>5. ConnectionsOK
  <2>1. \A t \in Transports : incoming[t] = <<>>  OBVIOUS
  <2> QED  BY <2>1, Bounds DEF ConnectionsOK
<1> QED  BY <1>1, <1>2, <1>3, <1>4, <1>5 DEF SessionInv

-----------------------------------------------------------------------------
(* The steps on the commands and the connections. *)

\* What leaves the hub's side and run alone.
LEMMA HubSideKept ==
    ASSUME SessionInv, UNCHANGED <<phase, hubVars, inHand>>
    PROVE  StreamOK' /\ HandOK' /\ RequestsOK' /\ AnswersOnSameStream'
  BY DEF SessionInv, hubVars, StreamOK, HandOK, RequestsOK, Handling, AnswersOnSameStream

\* A call's record is replaced.
LEMMA CallKept ==
    ASSUME CommandsOK, NEW c \in Callers, NEW r \in Call, call' = [call EXCEPT ![c] = r],
           commands' \in Seq(Command), Len(commands') =< CommandCapacity
    PROVE  CommandsOK'
  BY DEF CommandsOK

\* A record that returns is a call's record.
LEMMA ReturnIsCall ==
    ASSUME NEW r \in Call, NEW reply \in Replies
    PROVE  [r EXCEPT !.pc = "returned", !.reply = reply] \in Call
<1>1. CASE r = NoCall  BY <1>1 DEF Call, NoCall
<1>2. CASE r \in [pc : {"returned"}]  BY <1>2 DEF Call
<1>3. CASE r \in [pc : {"sending", "waiting", "returned"}, kind : CommandKinds,
                  reply : Replies]
  BY <1>3 DEF Call
<1> QED  BY <1>1, <1>2, <1>3 DEF Call

LEMMA CommandOfCall ==
    ASSUME NEW r \in Call, r.pc = "sending"
    PROVE  r.kind \in CommandKinds /\ [r EXCEPT !.pc = "waiting"] \in Call
<1>1. r \in [pc : {"sending", "waiting", "returned"}, kind : CommandKinds, reply : Replies]
  BY DEF Call, NoCall
<1> QED  BY <1>1 DEF Call

\* A command enters the channel while there is room.
LEMMA SendCommandInv ==
    ASSUME SessionInv, NEW c \in Callers, SendCommand(c)
    PROVE  SessionInv'
<1> DEFINE cmd == [from |-> c, kind |-> call[c].kind]
<1>1. call[c] \in Call /\ call[c].pc = "sending"
  BY DEF SessionInv, CommandsOK, SendCommand
<1>2. cmd \in Command  BY <1>1, CommandOfCall DEF Command
<1>3. /\ commands' = Append(commands, cmd) /\ commands \in Seq(Command)
      /\ Len(commands) < CommandCapacity
  BY DEF SendCommand, SessionInv, CommandsOK
<1> HIDE DEF cmd
<1>4. commands' \in Seq(Command) /\ Len(commands') =< CommandCapacity
  BY <1>2, <1>3, Bounds
<1>5. PICK r \in Call : call' = [call EXCEPT ![c] = r]
  <2>1. CASE call[c].kind = "shutdown"
    <3>1. call' = [call EXCEPT ![c].pc = "returned", ![c].reply = "ok"]
      BY <2>1 DEF SendCommand, Return
    <3> DEFINE r == [call[c] EXCEPT !.pc = "returned", !.reply = "ok"]
    <3>2. r \in Call  BY <1>1, ReturnIsCall DEF Replies
    <3>3. call' = [call EXCEPT ![c] = r]  BY <3>1 DEF SessionInv, CommandsOK
    <3> QED  BY <3>2, <3>3
  <2>2. CASE call[c].kind # "shutdown"
    <3> DEFINE r == [call[c] EXCEPT !.pc = "waiting"]
    <3>1. r \in Call  BY <1>1, CommandOfCall
    <3>2. call' = [call EXCEPT ![c] = r]  BY <2>2 DEF SendCommand, SessionInv, CommandsOK
    <3> QED  BY <3>1, <3>2
  <2> QED  BY <2>1, <2>2
<1>6. CommandsOK'  BY <1>4, <1>5, CallKept DEF SessionInv
<1>7. RunOK' /\ ConnectionsOK' /\ UNCHANGED <<phase, hubVars, inHand>>
  BY DEF SendCommand, runVars, connectionVars, SessionInv, RunOK, ConnectionsOK
<1> QED  BY <1>6, <1>7, HubSideKept DEF SessionInv

\* A call returns: the channel is closed, or its command was dispatched.
LEMMA ReturnInv ==
    ASSUME SessionInv, NEW c \in Callers, NEW reply \in Replies, call' = Return(c, reply),
           commands' \in Seq(Command), Len(commands') =< CommandCapacity
    PROVE  CommandsOK'
<1> DEFINE r == [call[c] EXCEPT !.pc = "returned", !.reply = reply]
<1>1. call' = [call EXCEPT ![c].pc = "returned", ![c].reply = reply]  BY DEF Return
<1>2. r \in Call  BY ReturnIsCall DEF SessionInv, CommandsOK
<1>3. call' = [call EXCEPT ![c] = r]  BY <1>1 DEF SessionInv, CommandsOK
<1> HIDE DEF r
<1> QED  BY <1>2, <1>3, CallKept DEF SessionInv

LEMMA SendFailsInv ==
    ASSUME SessionInv, NEW c \in Callers, SendFails(c)
    PROVE  SessionInv'
<1>1. RunOK' /\ ConnectionsOK' /\ UNCHANGED <<phase, hubVars, inHand>>
  BY DEF SendFails, runVars, connectionVars, SessionInv, RunOK, ConnectionsOK
<1>2. CommandsOK'  BY ReturnInv DEF SendFails, SessionInv, CommandsOK, Replies
<1> QED  BY <1>1, <1>2, HubSideKept DEF SessionInv

LEMMA DispatchReplyInv ==
    ASSUME SessionInv, DispatchReply
    PROVE  SessionInv'
<1>1. RunOK' /\ ConnectionsOK' /\ UNCHANGED <<phase, hubVars, inHand>>
  BY DEF DispatchReply, runVars, connectionVars, SessionInv, RunOK, ConnectionsOK
<1>2. /\ commands \in Seq(Command) /\ commands # <<>> /\ commands' = Tail(commands)
      /\ Len(commands) =< CommandCapacity
  BY DEF DispatchReply, SessionInv, CommandsOK
<1>3. commands' \in Seq(Command) /\ Len(commands') =< CommandCapacity
  BY <1>2, Bounds
<1>4. Head(commands) \in Command  BY <1>2
<1>5. Head(commands).from \in Callers  BY <1>4 DEF Command
<1>6. PICK reply \in Replies : call' = Return(Head(commands).from, reply)
  BY DEF DispatchReply, Replies
<1>7. CommandsOK'  BY <1>3, <1>6, <1>5, ReturnInv
<1> QED  BY <1>1, <1>7, HubSideKept DEF SessionInv

\* The calls in progress are answered when the channel is dropped.
LEMMA EndInv ==
    ASSUME SessionInv, NEW result \in {"ok", "unauthenticated", "dropped"}, End(result),
           inHand = NoRequest
    PROVE  SessionInv'
<1> USE DEF End
<1>1. RunOK'  BY DEF SessionInv, RunOK
<1>2. StreamOK'  BY Bounds DEF SessionInv, StreamOK
<1>3. HandOK' /\ ConnectionsOK'
  BY DEF SessionInv, HandOK, ConnectionsOK, connectionVars
<1>4. RequestsOK' /\ AnswersOnSameStream'
  <2>1. inbox' \in Seq(Request) /\ DOMAIN inbox' = {}  OBVIOUS
  <2> QED  BY <2>1 DEF SessionInv, RequestsOK, AnswersOnSameStream, Handling
<1>5. CommandsOK'
  <2>1. commands' \in Seq(Command) /\ Len(commands') =< CommandCapacity  BY Bounds
  <2>2. call' \in [Callers -> Call]
    <3> SUFFICES ASSUME NEW c \in Callers PROVE Abandoned[c] \in Call
      BY DEF Abandoned
    <3>1. call[c] \in Call  BY DEF SessionInv, CommandsOK
    <3>2. [call[c] EXCEPT !.pc = "returned", !.reply = "SessionShutdown"] \in Call
      BY <3>1, ReturnIsCall DEF Replies
    <3> QED  BY <3>1, <3>2 DEF Abandoned
  <2> QED  BY <2>1, <2>2 DEF CommandsOK
<1> QED  BY <1>1, <1>2, <1>3, <1>4, <1>5 DEF SessionInv

\* Nothing is in hand where a command ends run.
LEMMA EndStepsInv ==
    ASSUME SessionInv, DispatchBreak \/ Unauthenticated \/ AttemptRefused \/ DropUnstarted
    PROVE  SessionInv'
<1>1. inHand = NoRequest
  BY DEF DispatchBreak, Unauthenticated, AttemptRefused, DropUnstarted, Listens, Selecting,
         SessionInv, HandOK
<1>2. PICK result \in {"ok", "unauthenticated", "dropped"} : End(result)
  BY DEF DispatchBreak, Unauthenticated, AttemptRefused, DropUnstarted
<1> QED  BY <1>1, <1>2, EndInv

-----------------------------------------------------------------------------
(* The steps of serve and reconnect, and of the hub. *)

\* What leaves the commands and the connections alone.
LEMMA ChannelsKept ==
    ASSUME SessionInv, UNCHANGED <<commands, call, tasks, incoming>>
    PROVE  CommandsOK' /\ ConnectionsOK'
  BY DEF SessionInv, CommandsOK, ConnectionsOK

LEMMA SendCheckInInv == ASSUME SessionInv, SendCheckIn PROVE SessionInv'
<1> USE DEF SendCheckIn, hubVars
<1>1. RunOK' /\ StreamOK'  BY DEF SessionInv, RunOK, StreamOK, runVars, commandVars
<1>2. inHand' = Responding(0, "checkIn", epoch) /\ phase = "serving" /\ phase' = phase
  BY DEF Selecting, runVars
<1>3. epoch \in Epochs /\ sent \in Nat
  BY <1>2, Bounds DEF SessionInv, StreamOK, Epochs
<1>4. HandOK'  BY <1>2, <1>3 DEF HandOK, Responding, Handled
<1>5. RequestsOK' /\ AnswersOnSameStream'
  <2>1. \A id : ~Handling(id)'  BY <1>2 DEF Handling, Responding
  <2> QED  BY <2>1 DEF SessionInv, RequestsOK, AnswersOnSameStream
<1>6. CommandsOK' /\ ConnectionsOK'  BY ChannelsKept DEF commandVars, connectionVars
<1> QED  BY <1>1, <1>4, <1>5, <1>6 DEF SessionInv

\* The first request of the inbox is taken in hand, or dropped.
LEMMA HandleHubRequestInv == ASSUME SessionInv, HandleHubRequest PROVE SessionInv'
<1> DEFINE q == Head(inbox)
<1> USE DEF HandleHubRequest
<1>1. RunOK'  BY DEF SessionInv, RunOK, runVars, commandVars
<1>2. /\ phase = "serving" /\ phase' = phase /\ epoch' = epoch /\ sent' = sent
      /\ answers' = answers /\ stream' = stream /\ outbox' = outbox
      /\ inbox \in Seq(Request) /\ inbox # <<>> /\ inbox' = Tail(inbox)
  BY DEF Selecting, runVars, SessionInv, RequestsOK
<1>3. StreamOK'  BY <1>2 DEF SessionInv, StreamOK
<1>4. /\ q \in Request /\ q.on = epoch /\ q.id =< sent
      /\ \A a \in answers : a.id < q.id
      /\ \A i \in 2..Len(inbox) : q.id < inbox[i].id
  BY <1>2 DEF SessionInv, RequestsOK
<1>5. /\ inbox' \in Seq(Request) /\ DOMAIN inbox' = 1..(Len(inbox) - 1)
      /\ \A i \in DOMAIN inbox' : inbox'[i] = inbox[i + 1] /\ i + 1 \in DOMAIN inbox
  BY <1>2
<1>6. \/ inHand' = NoRequest
      \/ /\ q.kind # "unanswered"
         /\ inHand' = Responding(q.id, q.kind, q.on)
      \/ /\ q.kind \in Transports
         /\ inHand' = [Responding(q.id, q.kind, q.on) EXCEPT !.pc = "fetch"]
  BY <1>4 DEF Request, Kinds
<1> HIDE DEF q
<1>7. HandOK' /\ \A id : Handling(id)' => id = q.id
  <2>1. CASE inHand' = NoRequest  BY <2>1 DEF HandOK, Handling
  <2>2. CASE inHand' # NoRequest
    <3>1. /\ inHand'.pc \in {"fetch", "respond"} /\ inHand'.accepted = FALSE
          /\ inHand'.id = q.id /\ inHand'.kind = q.kind /\ inHand'.on = q.on
          /\ inHand'.pc = "fetch" => q.kind \in Transports
          /\ inHand' \in Handled
      BY <1>4, <1>6, <2>2 DEF Responding, Request, Handled
    <3> QED  BY <1>2, <1>4, <3>1 DEF HandOK, Handling, Request
  <2> QED  BY <2>1, <2>2
<1>8. RequestsOK'
  <2>1. \A i \in DOMAIN inbox' : inbox'[i].on = epoch' /\ inbox'[i].id =< sent'
    BY <1>2, <1>5 DEF SessionInv, RequestsOK
  <2>2. \A i, j \in DOMAIN inbox' : i < j => inbox'[i].id < inbox'[j].id
    BY <1>2, <1>5 DEF SessionInv, RequestsOK
  <2>3. \A i \in DOMAIN inbox' : q.id < inbox'[i].id  BY <1>2, <1>4, <1>5
  <2>4. \A a \in answers' :
            /\ a.id =< sent' /\ ~Handling(a.id)'
            /\ \A i \in DOMAIN inbox' : a.id < inbox'[i].id
    <3> SUFFICES ASSUME NEW a \in answers
                 PROVE  /\ a.id =< sent' /\ ~Handling(a.id)'
                        /\ \A i \in DOMAIN inbox' : a.id < inbox'[i].id
      BY <1>2
    <3>1. a.id =< sent /\ a.id \in Nat  BY Bounds DEF SessionInv, RequestsOK, Answer, Ids
    <3>2. a.id < q.id /\ q.id \in Nat  BY <1>4 DEF Request, Ids
    <3>3. \A i \in DOMAIN inbox' : a.id < inbox'[i].id
      BY <1>2, <1>5 DEF SessionInv, RequestsOK
    <3> QED  BY <1>2, <1>7, <3>1, <3>2, <3>3
  <2> QED  BY <1>2, <1>5, <1>7, <2>1, <2>2, <2>3, <2>4 DEF SessionInv, RequestsOK
<1>9. AnswersOnSameStream'  BY <1>2 DEF SessionInv, AnswersOnSameStream
<1>10. CommandsOK' /\ ConnectionsOK'  BY ChannelsKept DEF commandVars, connectionVars
<1> QED  BY <1>1, <1>3, <1>7, <1>8, <1>9, <1>10 DEF SessionInv

LEMMA FetchRosterInv == ASSUME SessionInv, FetchRoster PROVE SessionInv'
<1> USE DEF FetchRoster
<1>1. /\ RunOK' /\ StreamOK'
      /\ UNCHANGED <<phase, epoch, sent, inbox, answers>>
  BY DEF SessionInv, RunOK, StreamOK, runVars, hubVars, commandVars
<1>2. PICK accepted \in BOOLEAN :
        inHand' = [inHand EXCEPT !.pc = "respond", !.accepted = accepted]
  OBVIOUS
<1>3. /\ phase = "serving" /\ inHand \in Handled /\ inHand.on = epoch /\ inHand.id =< sent
      /\ inHand # NoRequest
      /\ inHand.kind # "checkIn" => inHand.id \in Ids
      /\ inHand.kind \in Transports
  BY DEF SessionInv, HandOK, NoRequest
<1>4. /\ inHand' \in Handled /\ inHand'.id = inHand.id /\ inHand'.kind = inHand.kind
      /\ inHand'.on = inHand.on
  BY <1>2, <1>3 DEF Handled
<1>5. HandOK'  BY <1>1, <1>3, <1>4 DEF HandOK
<1>6. \A id : Handling(id)' => Handling(id)  BY <1>3, <1>4 DEF Handling
<1>7. RequestsOK' /\ AnswersOnSameStream'
  BY <1>1, <1>6 DEF SessionInv, RequestsOK, AnswersOnSameStream
<1>8. CommandsOK' /\ ConnectionsOK'  BY ChannelsKept DEF commandVars, connectionVars
<1> QED  BY <1>1, <1>5, <1>7, <1>8 DEF SessionInv

\* The request in hand becomes an answered one, its connection a task.
LEMMA RespondInv == ASSUME SessionInv, Respond PROVE SessionInv'
<1> DEFINE answer == [id |-> inHand.id, asked |-> inHand.on, on |-> epoch]
<1> USE DEF Respond
<1>1. /\ RunOK' /\ HandOK' /\ CommandsOK'
      /\ UNCHANGED <<phase, epoch, sent, inbox>>
  BY DEF SessionInv, RunOK, HandOK, CommandsOK, runVars, commandVars
<1>2. StreamOK'  BY <1>1, Bounds DEF SessionInv, StreamOK
<1>3. /\ inHand # NoRequest /\ inHand \in Handled /\ inHand.on = epoch
      /\ inHand.id =< sent
      /\ inHand.kind # "checkIn" => inHand.id \in Ids
      /\ inHand.accepted => inHand.kind \in Transports
  BY DEF SessionInv, HandOK, NoRequest
<1>4. \A id : ~Handling(id)'  BY DEF Handling
<1>5. RequestsOK' /\ AnswersOnSameStream'
  <2>1. CASE inHand.kind = "checkIn"
    <3>1. answers' = answers  BY <2>1
    <3> QED  BY <1>1, <1>4, <3>1 DEF SessionInv, RequestsOK, AnswersOnSameStream
  <2>2. CASE inHand.kind # "checkIn"
    <3>1. answers' = answers \cup {answer}  BY <2>2
    <3>2. /\ answer \in Answer /\ answer.asked = answer.on
          /\ answer.id = inHand.id /\ Handling(answer.id) /\ answer.id \in Ids
      BY <1>3, <2>2 DEF Handled, Answer, Handling
    <3> HIDE DEF answer
    <3>3. \A i \in DOMAIN inbox : answer.id < inbox[i].id
      BY <3>2 DEF SessionInv, RequestsOK
    <3>4. \A a \in answers : a.id # answer.id
      BY <3>2 DEF SessionInv, RequestsOK
    <3>5. RequestsOK'
      BY <1>1, <1>3, <1>4, <3>1, <3>2, <3>3 DEF SessionInv, RequestsOK
    <3>6. AnswersOnSameStream'
      BY <3>1, <3>2, <3>4 DEF SessionInv, AnswersOnSameStream
    <3> QED  BY <3>5, <3>6
  <2> QED  BY <2>1, <2>2
<1>6. ConnectionsOK'
  <2>1. CASE ~inHand.accepted
    BY <2>1 DEF SessionInv, ConnectionsOK
  <2>2. CASE inHand.accepted
    <3>1. [id |-> inHand.id, via |-> inHand.kind, pc |-> "ice"] \in Task
      BY <1>3, <2>2 DEF Task, Transports
    <3> QED  BY <2>2, <3>1 DEF SessionInv, ConnectionsOK
  <2> QED  BY <2>1, <2>2
<1> QED  BY <1>1, <1>2, <1>5, <1>6 DEF SessionInv

LEMMA RespondFailsInv == ASSUME SessionInv, RespondFails PROVE SessionInv'
<1> USE DEF RespondFails
<1>1. /\ RunOK' /\ StreamOK' /\ HandOK'
      /\ UNCHANGED <<phase, epoch, sent, inbox, answers>>
  BY DEF SessionInv, RunOK, StreamOK, HandOK, runVars, hubVars, commandVars
<1>2. \A id : ~Handling(id)'  BY DEF Handling
<1>3. RequestsOK' /\ AnswersOnSameStream'
  BY <1>1, <1>2 DEF SessionInv, RequestsOK, AnswersOnSameStream
<1>4. CommandsOK' /\ ConnectionsOK'  BY ChannelsKept DEF commandVars, connectionVars
<1> QED  BY <1>1, <1>3, <1>4 DEF SessionInv

\* An empty inbox has no order to keep.
LEMMA EmptyInbox ==
    ASSUME SessionInv, UNCHANGED <<sent, answers, inHand>>, inbox' = <<>>
    PROVE  RequestsOK' /\ AnswersOnSameStream'
<1>1. inbox' \in Seq(Request) /\ DOMAIN inbox' = {}  OBVIOUS
<1> QED  BY <1>1 DEF SessionInv, RequestsOK, AnswersOnSameStream, Handling

\* The requests of the broken stream are dropped before the next one opens.
LEMMA DisconnectedInv == ASSUME SessionInv, Disconnected PROVE SessionInv'
<1> USE DEF Disconnected, Selecting
<1>1. RunOK'
  <2>1. backoff' \in Base..Cap  BY Bounds
  <2> QED  BY <2>1 DEF SessionInv, RunOK, commandVars
<1>2. StreamOK' /\ HandOK'  BY DEF SessionInv, StreamOK, HandOK
<1>3. RequestsOK' /\ AnswersOnSameStream'  BY EmptyInbox
<1>4. CommandsOK' /\ ConnectionsOK'  BY ChannelsKept DEF commandVars, connectionVars
<1> QED  BY <1>1, <1>2, <1>3, <1>4 DEF SessionInv

LEMMA ReconnectedInv == ASSUME SessionInv, Reconnected PROVE SessionInv'
<1> USE DEF Reconnected
<1>1. inHand = NoRequest /\ inbox = <<>>  BY DEF SessionInv, HandOK, StreamOK
<1>2. RunOK'  BY DEF SessionInv, RunOK, commandVars
<1>3. StreamOK'  BY Bounds DEF SessionInv, StreamOK
<1>4. HandOK'  BY <1>1 DEF HandOK
<1>5. RequestsOK' /\ AnswersOnSameStream'  BY <1>1, EmptyInbox
<1>6. CommandsOK' /\ ConnectionsOK'  BY ChannelsKept DEF commandVars, connectionVars
<1> QED  BY <1>2, <1>3, <1>4, <1>5, <1>6 DEF SessionInv

\* The delay never exceeds the cap.
LEMMA AttemptFailsInv == ASSUME SessionInv, AttemptFails PROVE SessionInv'
<1> USE DEF AttemptFails
<1>1. backoff' \in Base..Cap  BY Bounds DEF SessionInv, RunOK, Lesser
<1>2. RunOK'  BY <1>1 DEF SessionInv, RunOK, commandVars
<1>3. /\ StreamOK' /\ HandOK' /\ RequestsOK' /\ AnswersOnSameStream'
  BY DEF SessionInv, hubVars, StreamOK, HandOK, RequestsOK, Handling, AnswersOnSameStream
<1>4. CommandsOK' /\ ConnectionsOK'  BY ChannelsKept DEF commandVars, connectionVars
<1> QED  BY <1>2, <1>3, <1>4 DEF SessionInv

LEMMA WaitElapsesInv == ASSUME SessionInv, WaitElapses PROVE SessionInv'
<1> USE DEF WaitElapses
<1>1. RunOK'  BY DEF SessionInv, RunOK, commandVars
<1>2. /\ StreamOK' /\ HandOK' /\ RequestsOK' /\ AnswersOnSameStream'
  BY DEF SessionInv, hubVars, StreamOK, HandOK, RequestsOK, Handling, AnswersOnSameStream
<1>3. CommandsOK' /\ ConnectionsOK'  BY ChannelsKept DEF commandVars, connectionVars
<1> QED  BY <1>1, <1>2, <1>3 DEF SessionInv

\* The hub numbers its requests, so a new one comes after all others.
LEMMA HubSendsInv == ASSUME SessionInv, HubSends PROVE SessionInv'
<1> USE DEF HubSends
<1>1. /\ RunOK'
      /\ sent' = sent + 1 /\ sent \in Nat /\ sent' \in Ids /\ epoch \in Epochs
      /\ stream = "up"
      /\ UNCHANGED <<phase, epoch, stream, outbox, answers, inHand>>
  BY Bounds DEF SessionInv, RunOK, StreamOK, runVars, commandVars, Ids, Epochs
<1>2. PICK k \in Kinds : inbox' = Append(inbox, [id |-> sent', kind |-> k, on |-> epoch])
  OBVIOUS
<1> DEFINE q == [id |-> sent', kind |-> k, on |-> epoch]
<1>3. q \in Request /\ q.id = sent' /\ q.on = epoch  BY <1>1 DEF Request
<1>4. inbox' = Append(inbox, q)  BY <1>2
<1> HIDE DEF q
<1>5. inbox \in Seq(Request)  BY DEF SessionInv, RequestsOK
<1>6. /\ inbox' \in Seq(Request)
      /\ DOMAIN inbox' = 1..(Len(inbox) + 1) /\ inbox'[Len(inbox) + 1] = q
      /\ \A i \in DOMAIN inbox : inbox'[i] = inbox[i] /\ inbox[i].id =< sent
      /\ DOMAIN inbox = 1..Len(inbox) /\ Len(inbox) \in Nat
  BY <1>3, <1>4, <1>5 DEF SessionInv, RequestsOK
<1>7. \A i \in DOMAIN inbox : inbox[i].id \in Nat
  <2>1. \A i \in DOMAIN inbox : inbox[i] \in Request  BY <1>5
  <2> QED  BY <2>1, Bounds DEF Request, Ids
<1>8. StreamOK'
  BY <1>1, Bounds DEF SessionInv, StreamOK, Ids
<1>9. HandOK'
  <2>1. inHand # NoRequest => inHand.id \in Nat
    BY Bounds DEF SessionInv, HandOK, Handled, Ids
  <2> QED  BY <1>1, <2>1 DEF SessionInv, HandOK
<1>10. \A id \in Ids : id =< sent => \A i \in DOMAIN inbox' \ DOMAIN inbox : id < inbox'[i].id
  BY <1>1, <1>3, <1>6, Bounds DEF Ids
<1>11. RequestsOK'
  <2>1. \A i \in DOMAIN inbox' : inbox'[i].on = epoch' /\ inbox'[i].id =< sent'
    BY <1>1, <1>3, <1>6, <1>7 DEF SessionInv, RequestsOK
  <2>2. \A i, j \in DOMAIN inbox' : i < j => inbox'[i].id < inbox'[j].id
    BY <1>1, <1>3, <1>6, <1>7 DEF SessionInv, RequestsOK
  <2>3. \A id : Handling(id)' <=> Handling(id)  BY <1>1 DEF Handling
  <2>4. \A id \in Ids : Handling(id) => id =< sent
    BY DEF SessionInv, HandOK, Handling
  <2>5. \A i \in DOMAIN inbox', id \in Ids : Handling(id)' => id < inbox'[i].id
    BY <1>6, <1>10, <2>3, <2>4 DEF SessionInv, RequestsOK
  <2>6. \A a \in answers' :
            /\ a.id =< sent' /\ ~Handling(a.id)'
            /\ \A i \in DOMAIN inbox' : a.id < inbox'[i].id
    <3> SUFFICES ASSUME NEW a \in answers
                 PROVE  /\ a.id =< sent' /\ ~Handling(a.id)'
                        /\ \A i \in DOMAIN inbox' : a.id < inbox'[i].id
      BY <1>1
    <3>1. a.id \in Ids /\ a.id =< sent /\ ~Handling(a.id)
      BY DEF SessionInv, RequestsOK, Answer
    <3>2. \A i \in DOMAIN inbox' : a.id < inbox'[i].id
      BY <1>6, <1>10, <3>1 DEF SessionInv, RequestsOK
    <3>3. a.id =< sent'  BY <1>1, <3>1, Bounds DEF Ids
    <3> QED  BY <2>3, <3>1, <3>2, <3>3
  <2> QED  BY <1>1, <1>6, <2>1, <2>2, <2>5, <2>6 DEF SessionInv, RequestsOK
<1>12. AnswersOnSameStream'  BY <1>1 DEF SessionInv, AnswersOnSameStream
<1>13. CommandsOK' /\ ConnectionsOK'  BY ChannelsKept DEF commandVars, connectionVars
<1> QED  BY <1>1, <1>8, <1>9, <1>11, <1>12, <1>13 DEF SessionInv

LEMMA HubStepsInv == ASSUME SessionInv, HubReads \/ StreamBreaks PROVE SessionInv'
<1> USE DEF HubReads, StreamBreaks
<1>1. RunOK' /\ UNCHANGED <<phase, epoch, sent, inbox, answers, inHand>>
  BY DEF SessionInv, RunOK, runVars, commandVars
<1>2. StreamOK'  BY <1>1, Bounds DEF SessionInv, StreamOK
<1>3. /\ HandOK' /\ RequestsOK' /\ AnswersOnSameStream'
  BY <1>1 DEF SessionInv, HandOK, RequestsOK, Handling, AnswersOnSameStream
<1>4. CommandsOK' /\ ConnectionsOK'  BY ChannelsKept DEF commandVars, connectionVars
<1> QED  BY <1>1, <1>2, <1>3, <1>4 DEF SessionInv

-----------------------------------------------------------------------------
(* The steps of the tasks, and the end of the incoming channels. *)

\* No step opens a closed channel again.
ClosedRemains == \A t \in Transports : Closed(t) => Closed(t)'

USE DEF ClosedRemains

LEMMA TaskConnectsInv ==
    ASSUME SessionInv, NEW k \in tasks, TaskConnects(k)
    PROVE  SessionInv' /\ ClosedRemains
<1> DEFINE d == [k EXCEPT !.pc = "deliver"]
<1>1. k \in Task /\ tasks' = (tasks \ {k}) \cup {d} /\ incoming' = incoming
  BY DEF SessionInv, ConnectionsOK, TaskConnects
<1>2. d \in Task /\ d.via = k.via  BY <1>1 DEF Task
<1> HIDE DEF d
<1>3. ConnectionsOK'  BY <1>1, <1>2 DEF SessionInv, ConnectionsOK
<1>4. RunOK' /\ CommandsOK' /\ UNCHANGED <<phase, hubVars, inHand>>
  BY DEF TaskConnects, SessionInv, RunOK, CommandsOK, runVars, commandVars
<1>5. ClosedRemains
  BY <1>1, <1>2, <1>4 DEF Closed
<1> QED  BY <1>3, <1>4, <1>5, HubSideKept DEF SessionInv

\* A connection enters its transport's channel while there is room, and there
\* is no channel to enter when it is closed.
LEMMA TaskDeliversInv ==
    ASSUME SessionInv, NEW k \in tasks, TaskDelivers(k)
    PROVE  SessionInv' /\ ClosedRemains
<1>1. /\ k \in Task /\ k.via \in Transports /\ k.id \in Ids /\ tasks' = tasks \ {k}
      /\ incoming \in [Transports -> Seq(Ids)]
  BY DEF SessionInv, ConnectionsOK, TaskDelivers, Task
<1>2. \A t \in Transports : t # k.via => incoming'[t] = incoming[t]
  BY <1>1 DEF TaskDelivers
<1>3. incoming' \in [Transports -> Seq(Ids)]
  <2> DEFINE longer == Append(incoming[k.via], k.id)
  <2>1. incoming[k.via] \in Seq(Ids)  BY <1>1
  <2>2. longer \in Seq(Ids)  BY <1>1, <2>1
  <2>3. incoming' = incoming \/ incoming' = [incoming EXCEPT ![k.via] = longer]
    BY DEF TaskDelivers
  <2> QED  BY <1>1, <2>2, <2>3
<1>4. Len(incoming'[k.via]) =< IncomingCapacity
  <2>1. Len(incoming[k.via]) =< IncomingCapacity  BY <1>1 DEF SessionInv, ConnectionsOK
  <2>2. CASE UNCHANGED incoming  BY <2>1, <2>2
  <2>3. CASE /\ Len(incoming[k.via]) < IncomingCapacity
             /\ incoming' = [incoming EXCEPT ![k.via] = Append(@, k.id)]
    <3>1. incoming'[k.via] = Append(incoming[k.via], k.id) /\ incoming[k.via] \in Seq(Ids)
      BY <1>1, <2>3
    <3> QED  BY <1>1, <2>3, <3>1, Bounds
  <2> QED  BY <2>2, <2>3 DEF TaskDelivers
<1>5. ConnectionsOK'
  <2>1. \A t \in Transports : Len(incoming'[t]) =< IncomingCapacity
    BY <1>2, <1>4 DEF SessionInv, ConnectionsOK
  <2> QED  BY <1>1, <1>3, <2>1 DEF SessionInv, ConnectionsOK
<1>6. RunOK' /\ CommandsOK' /\ UNCHANGED <<phase, hubVars, inHand>>
  BY DEF TaskDelivers, SessionInv, RunOK, CommandsOK, runVars, commandVars
<1>7. ClosedRemains
  BY <1>1, <1>2, <1>6 DEF Closed
<1> QED  BY <1>5, <1>6, <1>7, HubSideKept DEF SessionInv

\* A channel's receiver takes a connection or is dropped.
LEMMA IncomingShrinks ==
    ASSUME SessionInv, tasks' = tasks,
           incoming' \in [Transports -> Seq(Ids)],
           \A t \in Transports :
                \/ incoming'[t] = incoming[t] \/ incoming'[t] = <<>>
                \/ incoming[t] # <<>> /\ incoming'[t] = Tail(incoming[t])
    PROVE  ConnectionsOK'
<1> SUFFICES ASSUME NEW t \in Transports PROVE Len(incoming'[t]) =< IncomingCapacity
  BY DEF SessionInv, ConnectionsOK
<1>1. incoming[t] \in Seq(Ids) /\ Len(incoming[t]) =< IncomingCapacity
  BY DEF SessionInv, ConnectionsOK
<1>2. CASE incoming'[t] = incoming[t]  BY <1>1, <1>2
<1>3. CASE incoming'[t] = <<>>  BY <1>3, Bounds
<1>4. CASE incoming[t] # <<>> /\ incoming'[t] = Tail(incoming[t])
  BY <1>1, <1>4, Bounds
<1> QED  BY <1>2, <1>3, <1>4

\* Once a channel is closed no step of the session opens it again: serve has
\* nothing in hand any more that could start a task.
LEMMA ClosedStays ==
    ASSUME SessionInv, SessionNext, NEW t \in Transports, Closed(t)
    PROVE  Closed(t)'
<1>1. phase = "ended" /\ inHand = NoRequest  BY DEF Closed, SessionInv, HandOK
<1>2. CASE \E k \in tasks : TaskConnects(k) \/ TaskDelivers(k)
  BY <1>2, TaskConnectsInv, TaskDeliversInv
<1>3. CASE \E c \in Callers : SendCommand(c) \/ SendFails(c)
  BY <1>1, <1>3 DEF SendCommand, SendFails, Closed, runVars, connectionVars
<1>4. CASE HubSends \/ HubReads \/ StreamBreaks
  BY <1>4 DEF HubSends, HubReads, StreamBreaks, Closed, runVars, connectionVars
<1> QED
  BY <1>1, <1>2, <1>3, <1>4
     DEF SessionNext, NoRequest, DispatchReply, DispatchBreak, Listens, SendCheckIn,
         HandleHubRequest, FetchRoster, Respond, RespondFails, Disconnected,
         Unauthenticated, Selecting, Reconnected, AttemptFails, AttemptRefused, WaitElapses

\* Every step of the session keeps its invariant.
LEMMA SessionNextInv == ASSUME SessionInv, SessionNext PROVE SessionInv'
<1>1. CASE \E c \in Callers : SendCommand(c) \/ SendFails(c)
  BY <1>1, SendCommandInv, SendFailsInv
<1>2. CASE DispatchReply  BY <1>2, DispatchReplyInv
<1>3. CASE DispatchBreak \/ Unauthenticated \/ AttemptRefused  BY <1>3, EndStepsInv
<1>4. CASE SendCheckIn  BY <1>4, SendCheckInInv
<1>5. CASE HandleHubRequest  BY <1>5, HandleHubRequestInv
<1>6. CASE FetchRoster  BY <1>6, FetchRosterInv
<1>7. CASE Respond  BY <1>7, RespondInv
<1>8. CASE RespondFails  BY <1>8, RespondFailsInv
<1>9. CASE Disconnected  BY <1>9, DisconnectedInv
<1>10. CASE Reconnected  BY <1>10, ReconnectedInv
<1>11. CASE AttemptFails  BY <1>11, AttemptFailsInv
<1>12. CASE WaitElapses  BY <1>12, WaitElapsesInv
<1>13. CASE HubSends  BY <1>13, HubSendsInv
<1>14. CASE HubReads \/ StreamBreaks  BY <1>14, HubStepsInv
<1>15. CASE \E k \in tasks : TaskConnects(k) \/ TaskDelivers(k)
  BY <1>15, TaskConnectsInv, TaskDeliversInv
<1> QED
  BY <1>1, <1>2, <1>3, <1>4, <1>5, <1>6, <1>7, <1>8, <1>9, <1>10, <1>11, <1>12, <1>13,
     <1>14, <1>15 DEF SessionNext

-----------------------------------------------------------------------------
(* The steps with which a program embeds the session. *)

LEMMA SessionUnchanged ==
    ASSUME SessionInv, UNCHANGED sessionVars
    PROVE  SessionInv' /\ ClosedRemains
<1>1. UNCHANGED <<phase, hubVars, inHand, runVars, commandVars, connectionVars>>
  BY DEF sessionVars, runVars
<1>2. RunOK' /\ CommandsOK' /\ ConnectionsOK'
  BY <1>1 DEF SessionInv, RunOK, CommandsOK, ConnectionsOK, runVars, commandVars,
              connectionVars
<1>3. ClosedRemains
  BY <1>1 DEF Closed, connectionVars
<1> QED  BY <1>1, <1>2, <1>3, HubSideKept DEF SessionInv

LEMMA CreateInv ==
    ASSUME SessionInv, Create
    PROVE  SessionInv' /\ ClosedRemains
<1> USE DEF Create
<1>1. inHand = NoRequest /\ inbox = <<>>  BY DEF SessionInv, HandOK, StreamOK
<1>2. RunOK' /\ HandOK'  BY <1>1 DEF SessionInv, RunOK, HandOK
<1>3. StreamOK'  BY Bounds DEF SessionInv, StreamOK
<1>4. RequestsOK' /\ AnswersOnSameStream'  BY <1>1, EmptyInbox
<1>5. CommandsOK' /\ ConnectionsOK'  BY ChannelsKept
<1>6. \A t \in Transports : ~Closed(t)  BY DEF Closed
<1> QED  BY <1>2, <1>3, <1>4, <1>5, <1>6 DEF SessionInv

LEMMA RunInv ==
    ASSUME SessionInv, Run
    PROVE  SessionInv' /\ ClosedRemains
<1> USE DEF Run
<1>1. inHand = NoRequest  BY DEF SessionInv, HandOK
<1>2. RunOK' /\ HandOK'  BY <1>1 DEF SessionInv, RunOK, HandOK, commandVars
<1>3. StreamOK' /\ RequestsOK' /\ AnswersOnSameStream'
  BY DEF SessionInv, hubVars, StreamOK, RequestsOK, Handling, AnswersOnSameStream
<1>4. CommandsOK' /\ ConnectionsOK'  BY ChannelsKept DEF commandVars, connectionVars
<1>5. \A t \in Transports : ~Closed(t)  BY DEF Closed
<1> QED  BY <1>2, <1>3, <1>4, <1>5 DEF SessionInv

\* A task calls a method of the handle, or is done with one.
LEMMA CallInv ==
    ASSUME SessionInv, NEW c \in Callers, NEW r,
           r = NoCall \/ \E kind \in CommandKinds : r = Calling(kind),
           call' = [call EXCEPT ![c] = r],
           UNCHANGED <<runVars, hubVars, inHand, commands, owned, connectionVars>>
    PROVE  SessionInv' /\ ClosedRemains
<1>1. r \in Call  BY DEF Call, Calling, Replies
<1>2. commands' \in Seq(Command) /\ Len(commands') =< CommandCapacity
  BY DEF SessionInv, CommandsOK
<1>3. CommandsOK'  BY <1>1, <1>2, CallKept DEF SessionInv
<1>4. RunOK' /\ ConnectionsOK' /\ UNCHANGED phase
  BY DEF SessionInv, RunOK, ConnectionsOK, runVars, connectionVars
<1>5. ClosedRemains
  BY <1>4 DEF Closed, connectionVars
<1> QED  BY <1>3, <1>4, <1>5, HubSideKept DEF SessionInv

-----------------------------------------------------------------------------
(* The C interface *)

\* A step that leaves the accept calls alone.
LEMMA FfiKept ==
    ASSUME FfiOK, UNCHANGED accept,
           starting' \in {"off", "idle", "opening", "reported"},
           running' \in {"idle", "accepted", "reported"},
           receivers' \in BOOLEAN,
           ClosedRemains
    PROVE  FfiOK'
<1>1. \A a \in Acceptors : accept[a].got = "closed" => Closed(accept[a].via)'
  BY DEF FfiOK
<1> QED  BY <1>1 DEF FfiOK

\* An accept call begins.
LEMMA AcceptInv ==
    ASSUME SessionInv, FfiOK, NEW a \in Acceptors, NEW t \in Transports,
           accept' = [accept EXCEPT ![a] = [pc |-> "accepted", via |-> t, got |-> "none"]],
           UNCHANGED <<starting, running, receivers, sessionVars>>
    PROVE  SessionInv' /\ FfiOK' /\ ClosedRemains
<1>1. SessionInv' /\ ClosedRemains  BY SessionUnchanged
<1>2. /\ accept'[a] = [pc |-> "accepted", via |-> t, got |-> "none"]
      /\ \A b \in Acceptors \ {a} : accept'[b] = accept[b]
      /\ accept' \in [Acceptors -> [pc : {"idle", "accepted", "reported"},
                                    via : Transports \cup {"none"},
                                    got : {"none", "connection", "closed"}]]
  BY DEF FfiOK
<1>3. ASSUME NEW b \in Acceptors
      PROVE  /\ accept'[b].pc # "idle" => accept'[b].via \in Transports
             /\ accept'[b].got # "none" => accept'[b].pc = "reported"
             /\ accept'[b].got = "closed" => Closed(accept[b].via)'
  BY <1>1, <1>2 DEF FfiOK
<1> QED  BY <1>1, <1>2, <1>3 DEF FfiOK

\* An accept call reports a connection, or a channel that is closed.
LEMMA AcceptReportsInv ==
    ASSUME SessionInv, FfiOK, NEW a \in Acceptors, AcceptReports(a)
    PROVE  SessionInv' /\ FfiOK' /\ ClosedRemains
<1> PICK t \in Transports : accept[a].via = t
  BY DEF AcceptReports, FfiOK
<1>1. /\ accept[a].via = t /\ accept[a].pc = "accepted"
      /\ UNCHANGED <<tasks, phase, hubVars, inHand, starting, running, receivers>>
      /\ incoming \in [Transports -> Seq(Ids)]
  BY DEF AcceptReports, FfiOK, runVars, SessionInv, ConnectionsOK
<1>2. PICK got \in {"connection", "closed"} :
        /\ accept' = [accept EXCEPT ![a].pc = "reported", ![a].got = got]
        /\ \/ /\ got = "connection" /\ incoming[t] # <<>>
              /\ incoming' = [incoming EXCEPT ![t] =
                                    IF StillListening(receivers, t, a) THEN Tail(@) ELSE <<>>]
           \/ got = "closed" /\ Closed(t) /\ UNCHANGED incoming
  BY DEF AcceptReports
<1>3. PICK rest \in Seq(Ids) :
        /\ incoming' = [incoming EXCEPT ![t] = rest]
        /\ \/ rest = incoming[t] \/ rest = <<>>
           \/ incoming[t] # <<>> /\ rest = Tail(incoming[t])
        /\ incoming[t] = <<>> => rest = <<>>
  <2>1. incoming[t] \in Seq(Ids) /\ <<>> \in Seq(Ids)  BY <1>1
  <2>2. CASE UNCHANGED incoming
    <3>1. incoming' = [incoming EXCEPT ![t] = incoming[t]]  BY <1>1, <2>2
    <3> QED  BY <2>1, <3>1
  <2>3. CASE /\ incoming[t] # <<>>
             /\ incoming' = [incoming EXCEPT ![t] =
                                    IF StillListening(receivers, t, a) THEN Tail(@) ELSE <<>>]
    <3>1. Tail(incoming[t]) \in Seq(Ids)  BY <2>1, <2>3
    <3>2. CASE StillListening(receivers, t, a)  BY <2>3, <3>1, <3>2
    <3>3. CASE ~StillListening(receivers, t, a)  BY <2>1, <2>3, <3>3
    <3> QED  BY <3>2, <3>3
  <2> QED  BY <1>2, <2>2, <2>3
<1>4. /\ incoming' \in [Transports -> Seq(Ids)] /\ incoming'[t] = rest
      /\ \A u \in Transports : u # t => incoming'[u] = incoming[u]
  BY <1>1, <1>3
<1>5. ConnectionsOK'
  <2>1. \A u \in Transports :
            \/ incoming'[u] = incoming[u] \/ incoming'[u] = <<>>
            \/ incoming[u] # <<>> /\ incoming'[u] = Tail(incoming[u])
    BY <1>3, <1>4
  <2> QED  BY <1>1, <1>4, <2>1, IncomingShrinks
<1>6. RunOK' /\ CommandsOK'
  BY DEF AcceptReports, runVars, commandVars, SessionInv, RunOK, CommandsOK
<1>7. SessionInv'  BY <1>1, <1>5, <1>6, HubSideKept DEF SessionInv
<1>8. ClosedRemains
  BY <1>1, <1>3, <1>4 DEF Closed
<1>9. /\ accept'[a].pc = "reported" /\ accept'[a].got = got /\ accept'[a].via = t
      /\ \A b \in Acceptors \ {a} : accept'[b] = accept[b]
      /\ accept' \in [Acceptors -> [pc : {"idle", "accepted", "reported"},
                                    via : Transports \cup {"none"},
                                    got : {"none", "connection", "closed"}]]
  BY <1>2 DEF FfiOK
<1>10. got = "closed" => Closed(t)'  BY <1>1, <1>2, <1>8
<1>11. ASSUME NEW b \in Acceptors
       PROVE  /\ accept'[b].pc # "idle" => accept'[b].via \in Transports
              /\ accept'[b].got # "none" => accept'[b].pc = "reported"
              /\ accept'[b].got = "closed" => Closed(accept[b].via)'
  <2>1. CASE b = a  BY <1>1, <1>9, <1>10, <2>1
  <2>2. CASE b # a  BY <1>8, <1>9, <2>2 DEF FfiOK
  <2> QED  BY <2>1, <2>2
<1>12. FfiOK'  BY <1>1, <1>9, <1>11 DEF FfiOK
<1> QED  BY <1>7, <1>8, <1>12

\* The receivers are freed; those that no accept call keeps lose what is queued.
LEMMA ConnectionsFreeInv ==
    ASSUME SessionInv, FfiOK, wispers_incoming_connections_free
    PROVE  SessionInv' /\ FfiOK' /\ ClosedRemains
<1> USE DEF wispers_incoming_connections_free
<1>1. /\ UNCHANGED <<tasks, phase, hubVars, inHand, starting, running, accept>>
      /\ RunOK' /\ CommandsOK'
  BY DEF runVars, commandVars, SessionInv, RunOK, CommandsOK
<1>2. incoming \in [Transports -> Seq(Ids)]  BY DEF SessionInv, ConnectionsOK
<1>3. \A t \in Transports : incoming'[t] = incoming[t] \/ incoming'[t] = <<>>
  BY <1>2
<1>4. incoming' \in [Transports -> Seq(Ids)]
  <2>1. \A t \in Transports : incoming[t] \in Seq(Ids) /\ <<>> \in Seq(Ids)
    BY <1>2
  <2>2. \A t \in Transports : incoming'[t] \in Seq(Ids)  BY <1>3, <2>1
  <2>3. incoming' = [t \in Transports |-> incoming'[t]]  OBVIOUS
  <2> QED  BY <2>2, <2>3
<1>5. ConnectionsOK'  BY <1>1, <1>3, <1>4, IncomingShrinks
<1>6. ClosedRemains  BY <1>1, <1>3 DEF Closed
<1>7. FfiOK'  BY <1>1, <1>6, FfiKept DEF FfiOK
<1>8. SessionInv'  BY <1>1, <1>5, HubSideKept DEF SessionInv
<1> QED  BY <1>6, <1>7, <1>8

\* Every step behind the C interface keeps the invariant.
LEMMA FfiNextInv ==
    ASSUME SessionInv, FfiOK, FfiNext
    PROVE  SessionInv' /\ FfiOK' /\ ClosedRemains
<1>1. CASE wispers_node_start_serving_async
  BY <1>1, SessionUnchanged, FfiKept DEF wispers_node_start_serving_async, FfiOK
<1>2. CASE ServingStarts
  BY <1>2, SessionUnchanged, CreateInv, FfiKept DEF ServingStarts, FfiOK
<1>3. CASE wispers_serving_session_run_async
  BY <1>3, RunInv, FfiKept DEF wispers_serving_session_run_async, FfiOK
<1>4. CASE RunReports
  BY <1>4, SessionUnchanged, FfiKept DEF RunReports, FfiOK
<1>5. CASE wispers_serving_session_free
  <2>1. SessionInv'  BY <1>5, EndStepsInv DEF wispers_serving_session_free
  <2>2. \A t \in Transports : ~Closed(t)
    BY <1>5 DEF wispers_serving_session_free, DropUnstarted, Closed
  <2> QED
    BY <1>5, <2>1, <2>2, FfiKept DEF wispers_serving_session_free, ffiVars, FfiOK
<1>6. ASSUME NEW c \in Callers,
             \/ wispers_serving_handle_status_async(c)
             \/ wispers_serving_handle_generate_activation_code_async(c)
             \/ wispers_serving_handle_shutdown_async(c)
             \/ CommandReports(c)
      PROVE  SessionInv' /\ FfiOK' /\ ClosedRemains
  <2>1. PICK r :
          /\ r = NoCall \/ \E kind \in CommandKinds : r = Calling(kind)
          /\ call' = [call EXCEPT ![c] = r]
    <3>1. CASE wispers_serving_handle_status_async(c)
      BY <3>1 DEF wispers_serving_handle_status_async, CommandKinds
    <3>2. CASE wispers_serving_handle_generate_activation_code_async(c)
      BY <3>2 DEF wispers_serving_handle_generate_activation_code_async, CommandKinds
    <3>3. CASE wispers_serving_handle_shutdown_async(c)
      BY <3>3 DEF wispers_serving_handle_shutdown_async, CommandKinds
    <3>4. CASE CommandReports(c)  BY <3>4 DEF CommandReports
    <3> QED  BY <1>6, <3>1, <3>2, <3>3, <3>4
  <2>2. /\ UNCHANGED <<runVars, hubVars, inHand, commands, owned, connectionVars>>
        /\ UNCHANGED <<starting, running, receivers, accept>>
    BY <1>6 DEF wispers_serving_handle_status_async,
                wispers_serving_handle_generate_activation_code_async,
                wispers_serving_handle_shutdown_async, CommandReports, ffiVars
  <2>3. SessionInv' /\ ClosedRemains
    BY <2>1, <2>2, CallInv
  <2> QED  BY <2>2, <2>3, FfiKept DEF FfiOK
<1>7. CASE wispers_serving_handle_free
  <2> USE <1>7 DEF wispers_serving_handle_free
  <2>1. RunOK' /\ CommandsOK' /\ ConnectionsOK' /\ UNCHANGED phase
    BY DEF SessionInv, RunOK, CommandsOK, ConnectionsOK, runVars, connectionVars
  <2>2. SessionInv'  BY <2>1, HubSideKept DEF SessionInv
  <2>3. ClosedRemains
    BY <2>1 DEF Closed, connectionVars
  <2> QED  BY <2>2, <2>3, FfiKept DEF FfiOK, ffiVars
<1>8. ASSUME NEW a \in Acceptors,
             \/ wispers_incoming_accept_udp_async(a)
             \/ wispers_incoming_accept_quic_async(a)
      PROVE  SessionInv' /\ FfiOK' /\ ClosedRemains
  <2>1. {"udp", "quic"} = Transports  BY DEF Transports
  <2> QED
    BY <1>8, <2>1, AcceptInv
       DEF wispers_incoming_accept_udp_async, wispers_incoming_accept_quic_async
<1>9. CASE \E a \in Acceptors : AcceptReports(a)  BY <1>9, AcceptReportsInv
<1>10. CASE wispers_incoming_connections_free  BY <1>10, ConnectionsFreeInv
<1>11. CASE SessionNext /\ UNCHANGED ffiVars
  BY <1>11, SessionNextInv, ClosedStays, FfiKept DEF ffiVars, FfiOK
<1> QED
  BY <1>1, <1>2, <1>3, <1>4, <1>5, <1>6, <1>7, <1>8, <1>9, <1>10, <1>11 DEF FfiNext

-----------------------------------------------------------------------------
(* The daemon *)

\* The lock goes to the first in the queue.
LEMMA QueueShortens ==
    ASSUME DaemonOK, queue # <<>>, queue' = Tail(queue),
           \A c \in Callers : client[c].pc = "locking" /\ c # Head(queue)
                                => client'[c].pc = "locking"
    PROVE  QueueOK'
<1>1. queue \in Seq(Waiter)  BY DEF DaemonOK, QueueOK
<1>2. /\ queue' \in Seq(Waiter) /\ DOMAIN queue' = 1..(Len(queue) - 1)
      /\ Head(queue) = queue[1] /\ DOMAIN queue = 1..Len(queue) /\ Len(queue) \in Nat \ {0}
      /\ \A i \in DOMAIN queue' : queue'[i] = queue[i + 1] /\ i + 1 \in DOMAIN queue
  BY <1>1
<1>3. \A i, j \in DOMAIN queue : queue[i] \in Callers /\ queue[i] = queue[j] => i = j
  BY DEF DaemonOK, QueueOK
<1>4. ASSUME NEW i \in DOMAIN queue', queue'[i] \in Callers
      PROVE  client'[queue'[i]].pc = "locking"
  <2>1. queue'[i] # Head(queue)  BY <1>2, <1>3, <1>4
  <2>2. client[queue'[i]].pc = "locking"  BY <1>2, <1>4 DEF DaemonOK, QueueOK
  <2> QED  BY <1>4, <2>1, <2>2
<1>5. \A i, j \in DOMAIN queue' : queue'[i] \in Callers /\ queue'[i] = queue'[j] => i = j
  BY <1>2, <1>3
<1> QED  BY <1>2, <1>4, <1>5 DEF QueueOK

\* A new waiter goes to the end.
LEMMA QueueLengthens ==
    ASSUME DaemonOK, NEW w \in Waiter, queue' = Append(queue, w),
           w \in Callers => client[w].pc # "locking" /\ client'[w].pc = "locking",
           \A c \in Callers : client[c].pc = "locking" => client'[c].pc = "locking"
    PROVE  QueueOK'
<1>1. queue \in Seq(Waiter)  BY DEF DaemonOK, QueueOK
<1>2. /\ queue' \in Seq(Waiter) /\ DOMAIN queue' = 1..(Len(queue) + 1)
      /\ queue'[Len(queue) + 1] = w /\ DOMAIN queue = 1..Len(queue) /\ Len(queue) \in Nat
      /\ \A i \in DOMAIN queue : queue'[i] = queue[i]
  BY <1>1
<1>3. \A i \in DOMAIN queue : queue[i] \in Callers => client[queue[i]].pc = "locking"
  BY DEF DaemonOK, QueueOK
<1>4. \A i, j \in DOMAIN queue : queue[i] \in Callers /\ queue[i] = queue[j] => i = j
  BY DEF DaemonOK, QueueOK
<1>5. \A i \in DOMAIN queue' : queue'[i] \in Callers => client'[queue'[i]].pc = "locking"
  BY <1>2, <1>3
<1>6. \A i, j \in DOMAIN queue' : queue'[i] \in Callers /\ queue'[i] = queue'[j] => i = j
  BY <1>2, <1>3, <1>4
<1> QED  BY <1>2, <1>5, <1>6 DEF QueueOK

LEMMA QueueKept ==
    ASSUME DaemonOK, UNCHANGED queue,
           \A c \in Callers : client[c].pc = "locking" => client'[c].pc = "locking"
    PROVE  QueueOK'
  BY DEF DaemonOK, QueueOK

\* A client's record changes.
LEMMA ClientKept ==
    ASSUME DaemonOK, NEW c \in Callers, NEW r \in Client,
           r.pc = "locking" => r.kind # "none",
           client' = [client EXCEPT ![c] = r],
           readers' \subseteq Callers, UNCHANGED <<main, connector, socket>>, QueueOK'
    PROVE  DaemonOK'
<1>1. /\ client'[c] = r /\ client' \in [Callers -> Client]
      /\ \A d \in Callers \ {c} : client'[d] = client[d]
  BY DEF DaemonOK
<1> QED  BY <1>1 DEF DaemonOK

\* The steps of the start and of the main loop.
LEMMA MainStepsInv ==
    ASSUME SessionInv, DaemonOK,
           \/ Serve \/ ConnectorOpens \/ ConnectorFails \/ ConnectorPublishes
           \/ MainTakesSession \/ MainRunsSession
    PROVE  /\ SessionInv' /\ DaemonOK'
           /\ ClosedRemains
<1>1. {"connector", "main"} \subseteq Waiter /\ "connector" \notin Callers /\ "main" \notin Callers
  BY DaemonAssumption DEF Waiter
<1>2. CASE Serve
  <2>1. QueueOK'  BY <1>2, QueueKept DEF Serve
  <2> QED  BY <1>2, <2>1, SessionUnchanged DEF Serve, DaemonOK
<1>3. CASE ConnectorOpens
  <2>1. QueueOK'  BY <1>1, <1>3, QueueLengthens DEF ConnectorOpens
  <2> QED  BY <1>3, <2>1, CreateInv DEF ConnectorOpens, DaemonOK
<1>4. CASE ConnectorFails
  <2>1. QueueOK'  BY <1>4, QueueKept DEF ConnectorFails
  <2> QED  BY <1>4, <2>1, SessionUnchanged DEF ConnectorFails, DaemonOK
<1>5. CASE ConnectorPublishes
  <2>1. QueueOK'  BY <1>5, QueueShortens DEF ConnectorPublishes, WriteGranted
  <2> QED  BY <1>5, <2>1, SessionUnchanged DEF ConnectorPublishes, DaemonOK
<1>6. CASE MainTakesSession
  <2>1. QueueOK'  BY <1>1, <1>6, QueueLengthens DEF MainTakesSession
  <2> QED  BY <1>6, <2>1, SessionUnchanged DEF MainTakesSession, DaemonOK
<1>7. CASE MainRunsSession
  <2>1. QueueOK'  BY <1>7, QueueShortens DEF MainRunsSession, WriteGranted
  <2> QED  BY <1>7, <2>1, RunInv DEF MainRunsSession, DaemonOK
<1> QED  BY <1>2, <1>3, <1>4, <1>5, <1>6, <1>7

\* Leaving the runtime drops the calls, the tasks and their connections.
LEMMA ExitInv ==
    ASSUME SessionInv, DaemonOK, Exit
    PROVE  /\ SessionInv' /\ DaemonOK'
           /\ ClosedRemains
<1> USE DEF Exit
<1>1. RunOK' /\ UNCHANGED <<phase, hubVars, inHand>>
  BY DEF SessionInv, RunOK, runVars
<1>2. CommandsOK'
  <2>1. NoCall \in Call  BY DEF Call
  <2> QED  BY <2>1 DEF SessionInv, CommandsOK
<1>3. \A t \in Transports : incoming'[t] = <<>>  OBVIOUS
<1>4. ConnectionsOK'
  <2>1. tasks' = {} /\ incoming' \in [Transports -> Seq(Ids)]  OBVIOUS
  <2> QED  BY <1>3, <2>1, Bounds DEF ConnectionsOK
<1>5. ClosedRemains  BY <1>1, <1>3 DEF Closed
<1>6. client' \in [Callers -> Client]
  <2> SUFFICES ASSUME NEW c \in Callers
               PROVE  /\ client[c] \in Client
                      /\ [client[c] EXCEPT !.pc = "closed"] \in Client
    OBVIOUS
  <2>1. client[c] \in Client  BY DEF DaemonOK
  <2> QED  BY <2>1 DEF Client
<1>7. \A c \in Callers : client'[c].pc # "locking"
  <2> SUFFICES ASSUME NEW c \in Callers PROVE client'[c].pc # "locking"
    OBVIOUS
  <2>1. client[c] \in Client  BY DEF DaemonOK
  <2> QED  BY <2>1 DEF Client
<1>8. QueueOK'
  <2>1. queue' \in Seq(Waiter) /\ DOMAIN queue' = {}  OBVIOUS
  <2> QED  BY <2>1 DEF QueueOK
<1> QED  BY <1>1, <1>2, <1>4, <1>5, <1>6, <1>7, <1>8, HubSideKept DEF SessionInv, DaemonOK

LEMMA MainTakesConnectionInv ==
    ASSUME SessionInv, DaemonOK, NEW t \in Transports, MainTakesConnection(t)
    PROVE  /\ SessionInv' /\ DaemonOK'
           /\ ClosedRemains
<1> USE DEF MainTakesConnection, Take
<1>1. RunOK' /\ CommandsOK' /\ UNCHANGED <<phase, hubVars, inHand, tasks>>
  BY DEF SessionInv, RunOK, CommandsOK, runVars, commandVars
<1>2. incoming[t] \in Seq(Ids) /\ incoming \in [Transports -> Seq(Ids)] /\ incoming[t] # <<>>
  BY DEF SessionInv, ConnectionsOK
<1>3. /\ Tail(incoming[t]) \in Seq(Ids)
      /\ incoming' = [incoming EXCEPT ![t] = Tail(incoming[t])]
  BY <1>2
<1>4. /\ incoming' \in [Transports -> Seq(Ids)] /\ incoming'[t] = Tail(incoming[t])
      /\ \A u \in Transports : u # t => incoming'[u] = incoming[u]
  BY <1>2, <1>3
<1>5. ConnectionsOK'  BY <1>1, <1>2, <1>4, IncomingShrinks
<1>6. ClosedRemains  BY <1>1, <1>2, <1>4 DEF Closed
<1>7. DaemonOK'
  <2>1. QueueOK'  BY QueueKept DEF daemonVars
  <2> QED  BY <2>1 DEF daemonVars, DaemonOK
<1> QED  BY <1>1, <1>5, <1>6, <1>7, HubSideKept DEF SessionInv

\* A client that moves on without using the lock or the session.
LEMMA ClientStepsInv ==
    ASSUME SessionInv, DaemonOK, NEW c \in Callers,
           MainAccepts(c) \/ WriteAnswer(c) \/ ClientConnects(c) \/ ClientDone(c)
    PROVE  /\ SessionInv' /\ DaemonOK'
           /\ ClosedRemains
<1>1. /\ client[c].pc # "locking" /\ client[c] \in Client
      /\ UNCHANGED <<main, connector, published, readers, queue, socket, sessionVars>>
  BY DEF MainAccepts, WriteAnswer, ClientConnects, ClientDone, DaemonOK
<1>2. PICK r \in Client : client' = [client EXCEPT ![c] = r] /\ r.pc # "locking"
  <2>1. ASSUME NEW p \in {"accepted", "answered", "connected"},
               client' = [client EXCEPT ![c].pc = p]
        PROVE  \E r \in Client : client' = [client EXCEPT ![c] = r] /\ r.pc # "locking"
    <3> DEFINE r == [client[c] EXCEPT !.pc = p]
    <3>1. r \in Client /\ r.pc # "locking"  BY <1>1 DEF Client
    <3>2. client' = [client EXCEPT ![c] = r]  BY <2>1 DEF DaemonOK
    <3> QED  BY <3>1, <3>2
  <2>2. CASE ClientDone(c)
    <3>1. NoClient \in Client /\ NoClient.pc # "locking"
      BY DEF NoClient, Client, ClientKinds, Replies
    <3> QED  BY <2>2, <3>1 DEF ClientDone
  <2> QED  BY <2>1, <2>2 DEF MainAccepts, WriteAnswer, ClientConnects
<1>3. QueueOK'
  <2>1. \A d \in Callers : client[d].pc = "locking" => client'[d].pc = "locking"
    BY <1>1, <1>2 DEF DaemonOK
  <2> QED  BY <1>1, <2>1, QueueKept
<1>4. readers' \subseteq Callers  BY <1>1 DEF DaemonOK
<1>5. DaemonOK'  BY <1>1, <1>2, <1>3, <1>4, ClientKept
<1> QED  BY <1>1, <1>5, SessionUnchanged

\* A request has been read and its task queues for the lock.
LEMMA ReadRequestInv ==
    ASSUME SessionInv, DaemonOK, NEW c \in Callers, ReadRequest(c)
    PROVE  /\ SessionInv' /\ DaemonOK'
           /\ ClosedRemains
<1>1. /\ client[c].pc = "accepted" /\ client[c] \in Client /\ queue' = Append(queue, c)
      /\ UNCHANGED <<main, connector, published, readers, socket, sessionVars>>
  BY DEF ReadRequest, DaemonOK
<1>2. PICK kind \in {"status", "code", "shutdown", "invalid"} :
        client' = [client EXCEPT ![c].pc = "locking", ![c].kind = kind]
  BY DEF ReadRequest
<1> DEFINE r == [client[c] EXCEPT !.pc = "locking", !.kind = kind]
<1>3. r \in Client /\ r.pc = "locking" /\ r.kind # "none"
  BY <1>1 DEF Client, ClientKinds, CommandKinds
<1>4. client' = [client EXCEPT ![c] = r]  BY <1>2 DEF DaemonOK
<1> HIDE DEF r
<1>5. /\ client'[c] = r
      /\ \A d \in Callers : client[d].pc = "locking" => client'[d].pc = "locking"
  BY <1>3, <1>4 DEF DaemonOK
<1>6. QueueOK'
  <2>1. c \in Waiter /\ client[c].pc # "locking"  BY <1>1 DEF Waiter
  <2> QED  BY <1>1, <1>3, <1>5, <2>1, QueueLengthens
<1>7. readers' \subseteq Callers  BY <1>1 DEF DaemonOK
<1>8. DaemonOK'  BY <1>1, <1>3, <1>4, <1>6, <1>7, ClientKept
<1> QED  BY <1>1, <1>8, SessionUnchanged

\* The lock is granted to a client.
LEMMA Granted ==
    ASSUME DaemonOK, NEW c \in Callers, queue # <<>>, Head(queue) = c, queue' = Tail(queue),
           NEW r \in Client, r.pc # "locking", client' = [client EXCEPT ![c] = r],
           readers' \subseteq Callers, UNCHANGED <<main, connector, socket>>
    PROVE  DaemonOK'
<1>1. \A d \in Callers : client[d].pc = "locking" /\ d # Head(queue)
                            => client'[d].pc = "locking"
  BY DEF DaemonOK
<1>2. QueueOK'  BY <1>1, QueueShortens
<1> QED  BY <1>2, ClientKept

LEMMA AnswerWithoutSessionInv ==
    ASSUME SessionInv, DaemonOK, NEW c \in Callers, AnswerWithoutSession(c)
    PROVE  /\ SessionInv' /\ DaemonOK'
           /\ ClosedRemains
<1>1. /\ queue # <<>> /\ Head(queue) = c /\ queue' = Tail(queue)
      /\ UNCHANGED <<main, connector, published, readers, socket, sessionVars>>
      /\ client[c] \in Client /\ readers \subseteq Callers
  BY DEF AnswerWithoutSession, DaemonOK
<1>2. PICK told \in {"disconnected", "error"} :
        client' = [client EXCEPT ![c].pc = "writing", ![c].answer = told]
  BY DEF AnswerWithoutSession
<1> DEFINE r == [client[c] EXCEPT !.pc = "writing", !.answer = told]
<1>3. r \in Client /\ r.pc # "locking"  BY <1>1 DEF Client, Replies
<1>4. client' = [client EXCEPT ![c] = r]  BY <1>2 DEF DaemonOK
<1> HIDE DEF r
<1>5. readers' \subseteq Callers  BY <1>1
<1>6. DaemonOK'  BY <1>1, <1>3, <1>4, <1>5, Granted
<1> QED  BY <1>1, <1>6, SessionUnchanged

\* The request in the queue is a command of the session's.
LEMMA CallSessionInv ==
    ASSUME SessionInv, DaemonOK, NEW c \in Callers, CallSession(c)
    PROVE  /\ SessionInv' /\ DaemonOK'
           /\ ClosedRemains
<1>1. /\ queue # <<>> /\ Head(queue) = c /\ queue' = Tail(queue)
      /\ readers' = readers \cup {c} /\ readers \subseteq Callers
      /\ client[c].kind # "invalid" /\ client' = [client EXCEPT ![c].pc = "calling"]
      /\ call' = [call EXCEPT ![c] = Calling(client[c].kind)]
      /\ UNCHANGED <<main, connector, published, socket>>
      /\ UNCHANGED <<runVars, hubVars, inHand, commands, owned, connectionVars>>
      /\ client[c] \in Client
  BY DEF CallSession, DaemonOK
<1>2. client[c].kind \in CommandKinds
  <2>1. queue \in Seq(Waiter)  BY DEF DaemonOK, QueueOK
  <2>2. 1 \in DOMAIN queue /\ queue[1] = c  BY <1>1, <2>1
  <2>3. client[c].pc = "locking"  BY <2>2 DEF DaemonOK, QueueOK
  <2>4. client[c].kind # "none"  BY <2>3 DEF DaemonOK
  <2> QED  BY <1>1, <2>4 DEF Client, ClientKinds
<1> DEFINE r == [client[c] EXCEPT !.pc = "calling"]
<1>3. r \in Client /\ r.pc # "locking"  BY <1>1 DEF Client
<1>4. client' = [client EXCEPT ![c] = r]  BY <1>1 DEF DaemonOK
<1> HIDE DEF r
<1>5. readers' \subseteq Callers  BY <1>1
<1>6. DaemonOK'  BY <1>1, <1>3, <1>4, <1>5, Granted
<1> DEFINE begun == Calling(client[c].kind)
<1>7. \E kind \in CommandKinds : begun = Calling(kind)  BY <1>2
<1>8. call' = [call EXCEPT ![c] = begun]  BY <1>1
<1> HIDE DEF begun
<1>9. SessionInv' /\ ClosedRemains
  BY <1>1, <1>7, <1>8, CallInv
<1> QED  BY <1>6, <1>9

LEMMA SessionAnswersInv ==
    ASSUME SessionInv, DaemonOK, NEW c \in Callers, SessionAnswers(c)
    PROVE  /\ SessionInv' /\ DaemonOK'
           /\ ClosedRemains
<1>1. /\ client[c].pc = "calling" /\ client[c] \in Client
      /\ readers' \subseteq Callers
      /\ client' = [client EXCEPT ![c].pc = "writing", ![c].answer = Told(c)]
      /\ call' = [call EXCEPT ![c] = NoCall]
      /\ UNCHANGED <<main, connector, published, queue, socket>>
      /\ UNCHANGED <<runVars, hubVars, inHand, commands, owned, connectionVars>>
  BY DEF SessionAnswers, DaemonOK
<1>2. Told(c) \in Replies \cup {"error"}
  BY DEF Told, Replies
<1> DEFINE r == [client[c] EXCEPT !.pc = "writing", !.answer = Told(c)]
<1>3. r \in Client /\ r.pc # "locking"  BY <1>1, <1>2 DEF Client
<1>4. client' = [client EXCEPT ![c] = r]  BY <1>1 DEF DaemonOK
<1> HIDE DEF r
<1>5. \A d \in Callers : client[d].pc = "locking" => client'[d].pc = "locking"
  BY <1>1, <1>4 DEF DaemonOK
<1>6. QueueOK'  BY <1>1, <1>5, QueueKept
<1>7. DaemonOK'  BY <1>1, <1>3, <1>4, <1>6, ClientKept
<1>8. SessionInv' /\ ClosedRemains
  BY <1>1, CallInv
<1> QED  BY <1>7, <1>8

\* Every step of the daemon keeps the invariant.
LEMMA DaemonNextInv ==
    ASSUME SessionInv, DaemonOK, DaemonNext
    PROVE  /\ SessionInv' /\ DaemonOK'
           /\ ClosedRemains
<1>1. CASE \/ Serve \/ ConnectorOpens \/ ConnectorFails \/ ConnectorPublishes
           \/ MainTakesSession \/ MainRunsSession
  BY <1>1, MainStepsInv
<1>2. CASE Exit  BY <1>2, ExitInv
<1>3. CASE \E t \in Transports : MainTakesConnection(t)  BY <1>3, MainTakesConnectionInv
<1>4. ASSUME NEW c \in Callers,
             MainAccepts(c) \/ WriteAnswer(c) \/ ClientConnects(c) \/ ClientDone(c)
      PROVE  /\ SessionInv' /\ DaemonOK'
             /\ ClosedRemains
  BY <1>4, ClientStepsInv
<1>5. ASSUME NEW c \in Callers,
             \/ ReadRequest(c) \/ AnswerWithoutSession(c) \/ CallSession(c)
             \/ SessionAnswers(c)
      PROVE  /\ SessionInv' /\ DaemonOK'
             /\ ClosedRemains
  BY <1>5, ReadRequestInv, AnswerWithoutSessionInv, CallSessionInv, SessionAnswersInv
<1>6. CASE SessionNext /\ UNCHANGED daemonVars
  <2>1. QueueOK'  BY <1>6, QueueKept DEF daemonVars
  <2>2. DaemonOK'  BY <1>6, <2>1 DEF daemonVars, DaemonOK
  <2> QED  BY <1>6, <2>2, SessionNextInv, ClosedStays
<1> QED  BY <1>1, <1>2, <1>3, <1>4, <1>5, <1>6 DEF DaemonNext

-----------------------------------------------------------------------------
(* The invariant and the theorems *)

\* The invariant holds initially, in either program.
LEMMA InitInv == Init => ServingInv
<1> SUFFICES ASSUME Init PROVE ServingInv
  OBVIOUS
<1>1. SessionInv  BY SessionInitInv DEF Init, DaemonInit, FfiInit
<1>2. FfiOK
  <2>1. /\ starting \in {"off", "idle"} /\ running = "idle" /\ receivers = FALSE
        /\ accept = [a \in Acceptors |-> NoAccept]
    BY DEF Init, FfiInit, FfiIdle
  <2> QED  BY <2>1 DEF FfiOK, NoAccept
<1>3. DaemonOK
  <2>1. /\ main \in {"off", "start"} /\ connector = "off" /\ readers = {}
        /\ queue = <<>> /\ socket \in {"none", "stale", "other"}
        /\ client = [c \in Callers |-> NoClient]
    BY DEF Init, DaemonInit, DaemonIdle
  <2>2. NoClient \in Client /\ NoClient.pc = "off"
    BY DEF NoClient, Client, ClientKinds, Replies
  <2>3. QueueOK
    <3>1. queue \in Seq(Waiter) /\ DOMAIN queue = {}  BY <2>1
    <3> QED  BY <3>1 DEF QueueOK
  <2> QED  BY <2>1, <2>2, <2>3 DEF DaemonOK
<1> QED  BY <1>1, <1>2, <1>3 DEF ServingInv

\* Every step keeps it: one of the two programs moves, or nothing does.
LEMMA NextInv == ServingInv /\ [Next]_vars => ServingInv' /\ ClosedRemains
<1> SUFFICES ASSUME ServingInv, [Next]_vars PROVE ServingInv' /\ ClosedRemains
  OBVIOUS
<1> USE DEF ServingInv
<1>1. CASE DaemonNext /\ UNCHANGED ffiVars
  BY <1>1, DaemonNextInv, FfiKept DEF ffiVars, FfiOK
<1>2. CASE FfiNext /\ UNCHANGED daemonVars
  <2>1. QueueOK'  BY <1>2, QueueKept DEF daemonVars
  <2>2. DaemonOK'  BY <1>2, <2>1 DEF daemonVars, DaemonOK
  <2> QED  BY <1>2, <2>2, FfiNextInv
<1>3. CASE UNCHANGED vars
  <2>1. QueueOK'  BY <1>3, QueueKept DEF vars, daemonVars
  <2>2. DaemonOK'  BY <1>3, <2>1 DEF vars, daemonVars, DaemonOK
  <2>3. UNCHANGED sessionVars /\ UNCHANGED ffiVars  BY <1>3 DEF vars
  <2> QED  BY <2>2, <2>3, SessionUnchanged, FfiKept DEF ffiVars, FfiOK
<1> QED  BY <1>1, <1>2, <1>3 DEF Next

\* The invariant says what the properties say.
LEMMA InvImplies == ServingInv => TypeOK /\ AnswersOnSameStream /\ ClosedIsFinal
<1> SUFFICES ASSUME ServingInv PROVE TypeOK /\ AnswersOnSameStream /\ ClosedIsFinal
  OBVIOUS
<1> USE DEF ServingInv
<1>1. SessionTypeOK
  <2>1. commands \in Seq([from : Callers, kind : {"status", "code", "shutdown"}])
    BY DEF SessionInv, CommandsOK, Command, CommandKinds
  <2>2. inbox \in Seq([id : 1..MaxRequests, kind : Kinds, on : 1..(MaxBreaks + 1)])
    BY DEF SessionInv, RequestsOK, Request, Ids, Epochs
  <2>3. \A c \in Callers : call[c].pc \in {"idle", "sending", "waiting", "returned"}
    <3> SUFFICES ASSUME NEW c \in Callers
                 PROVE  call[c].pc \in {"idle", "sending", "waiting", "returned"}
      OBVIOUS
    <3>1. call[c] \in Call  BY DEF SessionInv, CommandsOK
    <3> QED  BY <3>1 DEF Call, NoCall
  <2>4. tasks \subseteq [id : 1..MaxRequests, via : Transports, pc : {"ice", "deliver"}]
    BY DEF SessionInv, ConnectionsOK, Task, Ids
  <2>5. {connected, owned} \subseteq BOOLEAN  BY DEF SessionInv, RunOK
  <2> QED
    BY <2>1, <2>2, <2>3, <2>4, <2>5
       DEF SessionInv, RunOK, StreamOK, CommandsOK, ConnectionsOK, SessionTypeOK
<1>2. FfiTypeOK  BY <1>1 DEF FfiOK, FfiTypeOK
<1>3. DaemonTypeOK
  <2>1. \A c \in Callers :
            client[c].pc \in {"off", "connected", "accepted", "locking", "calling",
                              "writing", "answered", "closed"}
    BY DEF DaemonOK, Client
  <2> QED  BY <1>1, <2>1 DEF DaemonOK, QueueOK, Waiter, DaemonTypeOK
<1>4. ClosedIsFinal
  <2> SUFFICES ASSUME NEW a \in Acceptors, accept[a].got = "closed"
               PROVE  /\ incoming[accept[a].via] = <<>>
                      /\ ~\E k \in tasks : k.via = accept[a].via
                      /\ ~(inHand.pc = "respond" /\ inHand.kind = accept[a].via)
    BY DEF ClosedIsFinal
  <2>1. Closed(accept[a].via)  BY DEF FfiOK
  <2>2. inHand = NoRequest  BY <2>1 DEF Closed, SessionInv, HandOK
  <2> QED  BY <2>1, <2>2 DEF Closed, NoRequest
<1> QED  BY <1>1, <1>2, <1>3, <1>4 DEF TypeOK, SessionInv

\* The variables of the session and of both programs have their types: the
\* channels never hold more than their capacity, the delay stays between its
\* bounds, and there are no more streams than broken ones and one.
THEOREM ServingTypeCorrect == Spec => []TypeOK
  BY InitInv, NextInv, InvImplies, PTL DEF Spec

\* An answer goes to the stream its request came from, at most once, however
\* often the stream breaks while a request waits, its roster is fetched or its
\* answer has no room.
THEOREM ServingAnswersOnSameStream == Spec => []AnswersOnSameStream
  BY InitInv, NextInv, InvImplies, PTL DEF Spec

\* "Channel closed" is right: when an accept call has reported it no connection is
\* in the channel, with a task, or in serve's hands.
THEOREM ServingClosedIsFinal == Spec => []ClosedIsFinal
  BY InitInv, NextInv, InvImplies, PTL DEF Spec

\* And it is final: no step of the session, of its tasks or of the program that
\* embeds it lets a closed channel yield a connection again.
THEOREM ServingClosedRemains == Spec => [][ClosedRemains]_vars
  BY InitInv, NextInv, PTL DEF Spec
=============================================================================
