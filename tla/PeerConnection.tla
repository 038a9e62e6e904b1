--------------------------- MODULE PeerConnection ---------------------------
(***************************************************************************)
(* How two nodes get a P2P connection: Node::connect_udp and connect_quic  *)
(* on the calling side, handle_start_connection_request of the serving     *)
(* session and the tasks it spawns on the answering side, the ICE agents   *)
(* of both (ice.rs, juice.rs) and the packet cipher of a UDP connection    *)
(* (encryption.rs).                                                        *)
(*                                                                         *)
(* The two sides talk through the hub, which they do not trust with more   *)
(* than delivery: it may lose a request or a response, hand it on late,    *)
(* twice or to the wrong node, and name the wrong caller.  The roster it   *)
(* returns is current; RosterChain is about the rosters a node accepts.    *)
(*                                                                         *)
(* An end is a call of connect_udp or connect_quic, or the handling of a   *)
(* request by a node.  Its X25519 key is fresh, so a pair of ends stands   *)
(* for the secret they share, and an end for its ICE description.          *)
(***************************************************************************)
EXTENDS Naturals, FiniteSets

CONSTANTS
    Nodes,          \* activated nodes
    MaxCalls,       \* bound on the calls made
    MaxAnswers,     \* bound on the requests that reach a node
    MaxPackets,     \* bound on the packets that one end of a UDP connection sends
    MaxFaults       \* bound on the failures, revocations and restarts of a behaviour

ASSUME PeerConnectionAssumption ==
    {MaxCalls, MaxAnswers, MaxPackets, MaxFaults} \subseteq Nat

VARIABLES
    end,        \* end[e]: see NewEnd
    counter,    \* counter[n]: connection_id_counter of n's session
    cached,     \* cached[n]: the active nodes of the roster that n keeps
    revoked,    \* the nodes that the hub's roster says are revoked
    faults      \* the number of faults so far

connectVars == <<end, counter, cached, revoked, faults>>

Calls == {"call"} \X (1..MaxCalls)
Answers == {"answer"} \X (1..MaxAnswers)
Ends == Calls \cup Answers
Transports == {"datagram", "stream"}
Active == Nodes \ revoked
NoPeer == <<"none", 0>>

\* The place in the code, the node, its peer and the transport; the end whose
\* ICE description was given to the agent, and the agent's state; the secret and
\* the connection id; packets sent, and whether one could not be decrypted.
\* roster is what an answer's handler has fetched; for a call it is a record
\* of the active nodes when it was made.
NewEnd ==
    [pc |-> "none", node |-> "none", peer |-> "none", transport |-> "none",
     remote |-> NoPeer, agent |-> "none", secret |-> <<NoPeer, NoPeer>>, id |-> 0,
     sent |-> 0, bad |-> FALSE, roster |-> {}]

ConnectInit ==
    /\ end = [e \in Ends |-> NewEnd]
    /\ counter = [n \in Nodes |-> 1]
    /\ \E known \in {{}, Nodes} : cached = [n \in Nodes |-> known]
    /\ revoked = {} /\ faults = 0

\* Ends are used in the order of their numbers.
NextOf(ends) ==
    {e \in ends : end[e].pc = "none" /\ \A d \in ends : d[2] < e[2] => end[d].pc # "none"}

Fault == faults < MaxFaults /\ faults' = faults + 1

\* What happens to an end's agent: it is made and gathers its candidates, it is
\* given the remote candidates, which starts the checks, and it is destroyed.
\* The caller learns the remote description only then.
NewAgent(r) == [r EXCEPT !.agent = "gathered"]
IceCallerConnect(r, a) == [r EXCEPT !.pc = "ice", !.agent = "checking", !.remote = a]
IceAnswererConnect(r) == [r EXCEPT !.pc = "ice", !.agent = "checking"]
CloseAgent(r) == [r EXCEPT !.agent = IF @ = "none" THEN "none" ELSE "closed"]

\* diffie_hellman: only the ends whose keys went into it can compute it.
SharedSecret(c, a) == <<c, a>>

\* The end gives up; dropping its agent closes it.
Fail(e) == [end EXCEPT ![e] = [CloseAgent(@) EXCEPT !.pc = "failed"]]
\* The request is refused, and nothing is kept of it.
Refuse(a) == [end EXCEPT ![a] = [NewEnd EXCEPT !.pc = "refused"]]

-----------------------------------------------------------------------------
(* The caller: connect_udp, connect_quic *)

Connect(c, n, peer, transport) ==
    /\ c \in NextOf(Calls) /\ peer # n
    /\ end' = [end EXCEPT ![c].pc = "lookup", ![c].node = n, ![c].peer = peer,
                          ![c].transport = transport, ![c].roster = Active]
    /\ UNCHANGED <<counter, cached, revoked, faults>>

\* find_peer_in_roster: the cached roster is asked first, and replaced by a
\* verified one from the hub, unless that fails, if the peer is not active in it.
FindPeer(c) ==
    /\ end[c].pc = "lookup"
    /\ LET n == end[c].node
           found == end[c].peer \in cached[n]
       IN  \/ /\ found \/ {n, end[c].peer} \subseteq Active
              /\ end' = [end EXCEPT ![c].pc = "prepare"]
              /\ cached' = IF found THEN cached ELSE [cached EXCEPT ![n] = Active]
              /\ UNCHANGED faults
           \/ /\ ~found /\ ~({n, end[c].peer} \subseteq Active)
              /\ end' = Fail(c)
              /\ UNCHANGED <<cached, faults>>
           \/ ~found /\ end' = Fail(c) /\ Fault /\ UNCHANGED cached
    /\ UNCHANGED <<counter, revoked>>

\* The STUN servers, IceCaller::new, a fresh key, the signed request.
SendRequest(c) ==
    /\ end[c].pc = "prepare"
    /\ \/ end' = [end EXCEPT ![c] = [NewAgent(@) EXCEPT !.pc = "wait"]] /\ UNCHANGED faults
       \/ end' = Fail(c) /\ Fault
    /\ UNCHANGED <<counter, cached, revoked>>

\* Mutant: any member's signature will do.
VerifyAnyMember(c, a) == end[a].node \in Nodes

\* verify_response: it is signed with the key that the roster has for the peer.
VerifyResponse(c, a) == end[a].node = end[c].peer

\* The hub returns the response of answer a, whoever it was meant for, or an
\* error.  The secret is derived, and after the delay the agent is given the
\* remote description.
ReceiveResponse(c) ==
    /\ end[c].pc = "wait"
    /\ \/ \E a \in Answers :
            /\ end[a].id # 0 /\ VerifyResponse(c, a)
            /\ end' = [end EXCEPT ![c] = [IceCallerConnect(@, a) EXCEPT
                            !.id = end[a].id, !.secret = SharedSecret(c, a)]]
            /\ UNCHANGED faults
       \/ end' = Fail(c) /\ Fault
    /\ UNCHANGED <<counter, cached, revoked>>

-----------------------------------------------------------------------------
(* The answerer: handle_start_connection_request *)

\* Node n's session takes a request off its stream, one that was sent: the agent is
\* made just before.  The hub names a caller, and may pick the wrong node or hand on a request that it has handed on before.
\* The handler fetches the roster before it looks at the request, and the
\* session handles one request at a time.
ReceiveRequest(a, n, c, caller) ==
    /\ a \in NextOf(Answers)
    /\ end[c].agent # "none"
    /\ \A b \in Answers : end[b].node = n => end[b].pc # "roster"
    /\ end' = IF n \in revoked THEN Refuse(a)
              ELSE [end EXCEPT ![a] = [NewEnd EXCEPT
                        !.pc = "roster", !.node = n, !.peer = caller, !.remote = c,
                        !.transport = end[c].transport, !.roster = Active]]
    /\ UNCHANGED <<counter, cached, revoked, faults>>

\* Mutant: a revoked caller is still in the roster, and its signature is good.
VerifyEvenRevoked(a) == end[end[a].remote].node = end[a].peer

\* The caller is in the roster, is not revoked there, and has signed the request.
VerifyRequest(a) ==
    end[a].peer \in end[a].roster /\ end[end[a].remote].node = end[a].peer

\* The connection id is taken before the ICE agent is made and before the
\* response is sent, either of which can fail.  No task is spawned then.
Answer(a) ==
    /\ end[a].pc = "roster"
    /\ LET n == end[a].node
       IN  \/ /\ VerifyRequest(a)
              /\ counter' = [counter EXCEPT ![n] = @ + 1]
              /\ \/ /\ end' = [end EXCEPT ![a] = [NewAgent(@) EXCEPT !.pc = "delay",
                                !.id = counter[n], !.secret = SharedSecret(end[a].remote, a)]]
                    /\ UNCHANGED faults
                 \/ end' = Refuse(a) /\ Fault
           \/ /\ ~VerifyRequest(a)
              /\ end' = Refuse(a)
              /\ UNCHANGED <<counter, faults>>
    /\ UNCHANGED <<cached, revoked>>

\* The spawned task waits for start_checks_at and then feeds the candidates,
\* which starts the checks.
StartChecks(a) ==
    /\ end[a].pc = "delay"
    /\ end' = [end EXCEPT ![a] = IceAnswererConnect(@)]
    /\ UNCHANGED <<counter, cached, revoked, faults>>

\* The session ends, and a new one is started: it counts from one again.  The
\* tasks that the old one has spawned go on.
StartSession(n) ==
    /\ counter[n] > 1 /\ Fault
    /\ \A a \in Answers : end[a].node = n => end[a].pc # "roster"
    /\ counter' = [counter EXCEPT ![n] = 1]
    /\ UNCHANGED <<end, cached, revoked>>

-----------------------------------------------------------------------------
(* ICE *)

\* Two agents reach each other only if each was given the other's description.
Paired(d, e) == end[d].remote = e /\ end[e].remote = d

\* libjuice reports that the agent is connected once its peer checks as well, or
\* that it has failed: at the latest when it has run out of candidate pairs.
AgentChanges(e) ==
    /\ \/ /\ end[e].agent = "checking"
          /\ Paired(e, end[e].remote)
          /\ end[end[e].remote].agent \in {"checking", "connected"}
          /\ end' = [end EXCEPT ![e].agent = "connected"]
          /\ UNCHANGED faults
       \/ /\ end[e].agent \in {"checking", "connected"}
          /\ end' = [end EXCEPT ![e].agent = "failed"]
          /\ Fault
    /\ UNCHANGED <<counter, cached, revoked>>

\* The states on which wait_for_connect returns.
Settled == {"connected", "failed"}

\* A UDP connection is ready then, a QUIC one has its handshake to do.
WaitForConnect(e) ==
    /\ end[e].pc = "ice" /\ end[e].agent \in Settled
    /\ end' = CASE end[e].agent = "failed" -> Fail(e)
                [] end[e].agent = "connected" /\ end[e].transport = "datagram" ->
                        [end EXCEPT ![e].pc = "ready"]
                [] OTHER -> [end EXCEPT ![e].pc = "handshake"]
    /\ UNCHANGED <<counter, cached, revoked, faults>>

\* derive_psk: the TLS key is a function of the secret.
Psk(e) == <<"psk", end[e].secret>>

\* The TLS handshake succeeds with the end that has the same pre-shared key.
Handshake(e) ==
    /\ end[e].pc = "handshake"
    /\ \/ /\ end[end[e].remote].pc \in {"handshake", "ready"}
          /\ Psk(end[e].remote) = Psk(e)
          /\ end' = [end EXCEPT ![e].pc = "ready"]
          /\ UNCHANGED faults
       \/ end' = Fail(e) /\ Fault
    /\ UNCHANGED <<counter, cached, revoked>>

-----------------------------------------------------------------------------
(* UdpConnection *)

\* Mutant: one key serves both directions.
OneKey(e, direction) == <<end[e].secret, end[e].id>>

\* derive_direction_keys
DirectionKey(e, direction) == <<end[e].secret, end[e].id, direction>>

SendKey(e) == DirectionKey(e, IF e \in Calls THEN "c2a" ELSE "a2c")
RecvKey(e) == DirectionKey(e, IF e \in Calls THEN "a2c" ELSE "c2a")

UdpReady(e) ==
    end[e].pc = "ready" /\ end[e].transport = "datagram" /\ end[e].agent = "connected"

\* The number is taken whether or not libjuice then accepts the packet.
Send(e) ==
    /\ UdpReady(e) /\ end[e].sent < MaxPackets
    /\ end' = [end EXCEPT ![e].sent = @ + 1]
    /\ UNCHANGED <<counter, cached, revoked, faults>>

\* A packet of the peer arrives: in any order, any number of times.
Recv(e) ==
    /\ UdpReady(e) /\ end[end[e].remote].sent > 0
    /\ end' = [end EXCEPT ![e].bad = @ \/ SendKey(end[e].remote) # RecvKey(e)]
    /\ UNCHANGED <<counter, cached, revoked, faults>>

\* close, or dropping the connection: juice_destroy, once.
Close(e) ==
    /\ end[e].pc = "ready"
    /\ end' = [end EXCEPT ![e] = [CloseAgent(@) EXCEPT !.pc = "closed"]]
    /\ UNCHANGED <<counter, cached, revoked, faults>>

-----------------------------------------------------------------------------
Revoke(n) ==
    /\ n \in Active /\ Fault
    /\ revoked' = revoked \cup {n}
    /\ UNCHANGED <<end, counter, cached>>

ConnectNext ==
    \/ \E c \in Calls :
        \/ \E n, peer \in Nodes, t \in Transports : Connect(c, n, peer, t)
        \/ FindPeer(c) \/ SendRequest(c) \/ ReceiveResponse(c)
        \/ \E a \in Answers, n, caller \in Nodes : ReceiveRequest(a, n, c, caller)
    \/ \E a \in Answers : Answer(a) \/ StartChecks(a)
    \/ \E e \in Ends :
        AgentChanges(e) \/ WaitForConnect(e) \/ Handshake(e) \/ Send(e) \/ Recv(e) \/ Close(e)
    \/ \E n \in Nodes : StartSession(n) \/ Revoke(n)

ConnectSpec == ConnectInit /\ [][ConnectNext]_connectVars

-----------------------------------------------------------------------------
(* Properties *)

\* Whatever the hub does with requests and responses, the two ends of a
\* connection are each other's: an end that is ready has a peer end at the node
\* it believes to be connected to, which knows it by its own number, and they
\* agree on the secret, the connection id and the transport.  No end is paired
\* with two others, and no packet between them fails to decrypt.
EndsAgree ==
    \A e \in Ends : end[e].pc \in {"ready", "closed"} =>
        LET f == end[e].remote
        IN  /\ Paired(e, f)
            /\ end[e].peer = end[f].node /\ end[f].peer = end[e].node
            /\ end[e].secret = end[f].secret /\ end[e].id = end[f].id
            /\ end[e].transport = end[f].transport
            /\ ~end[e].bad

\* No two packets are encrypted with the same key and number, although both
\* ends count from zero, connection ids start again with every session, and a
\* request may be answered twice.
NonceUsedOnce ==
    \A d, e \in Ends : (end[d].sent > 0 /\ end[e].sent > 0 /\ SendKey(d) = SendKey(e)) => d = e

\* A revoked node is left out: no call that was made when one of its ends was
\* revoked already comes to a connection, or even to ICE checks at the other
\* end.  The caller may still have its peer, and itself, in its cached roster.
RevokedStayOut ==
    \A a \in Answers : end[a].secret # NewEnd.secret =>
        {end[a].node, end[end[a].remote].node} \subseteq end[end[a].remote].roster
=============================================================================
