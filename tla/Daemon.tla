------------------------------- MODULE Daemon -------------------------------
(***************************************************************************)
(* `wconnect serve` (wconnect/src/serving.rs, ipc.rs): the task that       *)
(* connects to the hub, the main loop, and the tasks that answer the       *)
(* command line's requests over a local socket, around a ServingSession.   *)
(*                                                                         *)
(* handle_state is a tokio RwLock: fair, first come first served, so that  *)
(* a reader waits behind a writer that waits.  A client's task keeps its   *)
(* read guard while process_request awaits the session's answer.  A write  *)
(* guard is a temporary of one assignment: granting it, the assignment and *)
(* its release are one step.                                               *)
(***************************************************************************)
EXTENDS ServingSession

\* The clients' tasks are neither connect_task nor the main loop.
ASSUME DaemonAssumption == Callers \cap {"connector", "main"} = {}

VARIABLES
    main,       \* where serve is: in its select!, waiting to publish the handle, ...
    connector,  \* the spawned connect_task
    published,  \* handle_state holds the handle
    readers,    \* clients' tasks that hold a read guard
    queue,      \* those that wait for handle_state: clients, "connector" or "main"
    client,     \* client[c]: the command line's connection c and the task serving it
    socket      \* the socket file: "none", left by a dead server, of another one, ours

daemonVars == <<main, connector, published, readers, queue, client, socket>>

NoClient == [pc |-> "off", kind |-> "none", answer |-> "none"]

DaemonIdle ==
    /\ main = "off" /\ connector = "off" /\ published = FALSE
    /\ readers = {} /\ queue = <<>>
    /\ client = [c \in Callers |-> NoClient]
    /\ socket = "none"

\* Init as the module's own: whatever an earlier server has left behind.
DaemonInit ==
    /\ SessionInit
    /\ main = "start" /\ connector = "off" /\ published = FALSE
    /\ readers = {} /\ queue = <<>>
    /\ client = [c \in Callers |-> NoClient]
    /\ socket \in {"none", "stale", "other"}

-----------------------------------------------------------------------------
(* Starting *)

\* Server::bind refuses to replace a server that answers, and removes a stale
\* socket.
BindFails == socket = "other"

\* serve spawns the task that connects to the hub once the socket is there.
Serve ==
    /\ main = "start"
    /\ IF BindFails
       THEN main' = "exited" /\ UNCHANGED <<connector, socket>>
       ELSE main' = "select" /\ connector' = "opening" /\ socket' = "ours"
    /\ UNCHANGED <<published, readers, queue, client, sessionVars>>

\* start_serving has opened the serving stream; the task waits to publish.
ConnectorOpens ==
    /\ connector = "opening"
    /\ Create
    /\ connector' = "publish" /\ queue' = Append(queue, "connector")
    /\ UNCHANGED <<main, published, readers, client, socket>>

ConnectorFails ==
    /\ connector = "opening"
    /\ connector' = "failed"
    /\ UNCHANGED <<main, published, readers, queue, client, socket, sessionVars>>

\* A write of handle_state by w goes ahead.
WriteGranted(w) == queue # <<>> /\ Head(queue) = w /\ readers = {}

ConnectorPublishes ==
    /\ WriteGranted("connector")
    /\ published' = TRUE /\ queue' = Tail(queue) /\ connector' = "done"
    /\ UNCHANGED <<main, readers, client, socket, sessionVars>>

-----------------------------------------------------------------------------
(* The main loop.  Its handlers await nothing but the write of handle_state. *)

\* connect_task is done: publish the handle once more.
MainTakesSession ==
    /\ main = "select" /\ connector = "done" /\ phase = "created"
    /\ main' = "publish" /\ queue' = Append(queue, "main")
    /\ UNCHANGED <<connector, published, readers, client, socket, sessionVars>>

\* The session's task is spawned only when the write is done.
MainRunsSession ==
    /\ main = "publish" /\ WriteGranted("main")
    /\ published' = TRUE /\ queue' = Tail(queue) /\ main' = "select"
    /\ Run
    /\ UNCHANGED <<connector, readers, client, socket>>

\* Mutant: only the end of connect_task is awaited.
ExitOnFailure ==
    /\ main = "select" /\ connector = "failed"
    /\ main' = "exited" /\ socket' = "none"
    /\ UNCHANGED <<connector, published, readers, queue, client, sessionVars>>

\* serve returns, the runtime is shut down with every task, and Drop removes
\* the socket file.  A client without an answer sees its connection closed.
Exit ==
    /\ main = "select"
    /\ connector = "failed" \/ phase = "ended"
    /\ main' = "exited" /\ socket' = "none"
    /\ readers' = {} /\ queue' = <<>>
    /\ client' = [c \in Callers |->
                    IF client[c].pc \in {"off", "answered"} THEN client[c]
                    ELSE [client[c] EXCEPT !.pc = "closed"]]
    /\ call' = [c \in Callers |-> NoCall]
    /\ tasks' = {} /\ incoming' = [t \in Transports |-> <<>>]
    /\ listening' = [t \in Transports |-> FALSE]
    /\ UNCHANGED <<connector, published, runVars, hubVars, inHand, commands, owned>>

\* A UDP or QUIC connection is handed to a task of its own.
MainTakesConnection(t) ==
    /\ main = "select" /\ phase # "created" /\ Take(t)
    /\ UNCHANGED daemonVars

MainAccepts(c) ==
    /\ main = "select" /\ client[c].pc = "connected"
    /\ client' = [client EXCEPT ![c].pc = "accepted"]
    /\ UNCHANGED <<main, connector, published, readers, queue, socket, sessionVars>>

-----------------------------------------------------------------------------
(* handle_client_with_optional_handle and process_request *)

\* A line has been read and the task asks for the read guard.
ReadRequest(c) ==
    /\ client[c].pc = "accepted"
    /\ \E kind \in {"status", "code", "shutdown", "invalid"} :
            client' = [client EXCEPT ![c].pc = "locking", ![c].kind = kind]
    /\ queue' = Append(queue, c)
    /\ UNCHANGED <<main, connector, published, readers, socket, sessionVars>>

\* The guard is granted and released at once: there is no handle yet, or the
\* request is not one.
AnswerWithoutSession(c) ==
    /\ queue # <<>> /\ Head(queue) = c
    /\ ~published \/ client[c].kind = "invalid"
    /\ queue' = Tail(queue)
    /\ client' = [client EXCEPT ![c].pc = "writing", ![c].answer =
                    IF client[c].kind = "status" THEN "disconnected" ELSE "error"]
    /\ UNCHANGED <<main, connector, published, readers, socket, sessionVars>>

\* The guard is held while the handle is used.
CallSession(c) ==
    /\ queue # <<>> /\ Head(queue) = c
    /\ published /\ client[c].kind # "invalid"
    /\ queue' = Tail(queue) /\ readers' = readers \cup {c}
    /\ client' = [client EXCEPT ![c].pc = "calling"]
    /\ call' = [call EXCEPT ![c] = Calling(client[c].kind)]
    /\ UNCHANGED <<main, connector, published, socket, runVars, hubVars, inHand, commands,
                   owned, connectionVars>>

\* What the command line is told: a shutdown succeeds whatever the handle says.
Told(c) ==
    IF client[c].kind = "shutdown" THEN "ok"
    ELSE IF call[c].reply \in {"connected", "disconnected", "code"} THEN call[c].reply
    ELSE "error"

SessionAnswers(c) ==
    /\ client[c].pc = "calling" /\ call[c].pc = "returned"
    /\ readers' = readers \ {c}
    /\ client' = [client EXCEPT ![c].pc = "writing", ![c].answer = Told(c)]
    /\ call' = [call EXCEPT ![c] = NoCall]
    /\ UNCHANGED <<main, connector, published, queue, socket, runVars, hubVars, inHand,
                   commands, owned, connectionVars>>

WriteAnswer(c) ==
    /\ client[c].pc = "writing"
    /\ client' = [client EXCEPT ![c].pc = "answered"]
    /\ UNCHANGED <<main, connector, published, readers, queue, socket, sessionVars>>

-----------------------------------------------------------------------------
(* The command line: status, get-activation-code, serve --stop. *)

\* Client::connect: the kernel queues the connection until main accepts it.
ClientConnects(c) ==
    /\ client[c].pc = "off" /\ socket = "ours"
    /\ client' = [client EXCEPT ![c].pc = "connected"]
    /\ UNCHANGED <<main, connector, published, readers, queue, socket, sessionVars>>

\* The command line has its answer, or an error, and another command is run.
ClientDone(c) ==
    /\ client[c].pc \in {"answered", "closed"} /\ main # "exited"
    /\ client' = [client EXCEPT ![c] = NoClient]
    /\ UNCHANGED <<main, connector, published, readers, queue, socket, sessionVars>>

-----------------------------------------------------------------------------
DaemonNext ==
    \/ Serve \/ ConnectorOpens \/ ConnectorFails \/ ConnectorPublishes
    \/ MainTakesSession \/ MainRunsSession \/ Exit
    \/ \E t \in Transports : MainTakesConnection(t)
    \/ \E c \in Callers :
        \/ MainAccepts(c) \/ ReadRequest(c) \/ AnswerWithoutSession(c) \/ CallSession(c)
        \/ SessionAnswers(c) \/ WriteAnswer(c) \/ ClientConnects(c) \/ ClientDone(c)
    \/ SessionNext /\ UNCHANGED daemonVars

\* Every task is polled, no ready branch of the main loop's select! is passed
\* over forever, and the command line sends its request once it is connected.
DaemonFairness ==
    LET vars == <<sessionVars, daemonVars>>
    IN  /\ WF_vars(\/ Serve \/ ConnectorOpens \/ ConnectorFails \/ ConnectorPublishes
                   \/ MainRunsSession)
        /\ WF_vars(MainTakesSession \/ Exit)
        /\ \A t \in Transports : WF_vars(MainTakesConnection(t))
        /\ \A c \in Callers :
            WF_vars(\/ MainAccepts(c) \/ ReadRequest(c) \/ AnswerWithoutSession(c)
                    \/ CallSession(c) \/ SessionAnswers(c) \/ WriteAnswer(c))

-----------------------------------------------------------------------------
(* Properties *)

\* The daemon's variables have their types.
DaemonTypeOK ==
    /\ SessionTypeOK
    /\ main \in {"off", "start", "select", "publish", "exited"}
    /\ connector \in {"off", "opening", "publish", "done", "failed"}
    /\ readers \subseteq Callers
    /\ queue \in Seq(Callers \cup {"connector", "main"})
    /\ socket \in {"none", "stale", "other", "ours"}
    /\ \A c \in Callers :
        client[c].pc \in {"off", "connected", "accepted", "locking", "calling", "writing",
                          "answered", "closed"}

\* A request of the command line that finds the session running is answered, or
\* sees its connection closed, in whatever phase the session is, whether the hub
\* is there or not: commands "work whether or not we currently have a hub
\* connection".  A request that holds the guard before the session runs may
\* wait forever (see the README).
RequestsServedOnceRunning ==
    \A c \in Callers :
        (client[c].pc \in {"locking", "calling"} /\ phase \notin {"none", "created"})
            ~> (client[c].pc \in {"answered", "closed"})

\* `wconnect serve --stop`: once a shutdown is in the channel of a running
\* session the process ends, with or without a connection to the hub.
StopStops ==
    (/\ main # "off" /\ phase \notin {"none", "created"}
     /\ \E i \in DOMAIN commands : commands[i].kind = "shutdown") ~> (main = "exited")
=============================================================================
