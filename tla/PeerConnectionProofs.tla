------------------------ MODULE PeerConnectionProofs ------------------------
(***************************************************************************)
(* The ends of P2P connections, for any number of nodes, calls, answers,   *)
(* packets and faults.                                                     *)
(*                                                                         *)
(* What an end knows of another was true when it learned it.  It stays     *)
(* true because an end, once its agent is made, does not change its node,  *)
(* peer, transport or record of the roster, and takes an id, a secret and  *)
(* a remote end once.                                                      *)
(***************************************************************************)
EXTENDS PeerConnection, TLAPS

USE PeerConnectionAssumption

Places == {"none", "lookup", "prepare", "wait", "roster", "refused", "delay", "ice",
           "handshake", "ready", "closed", "failed"}
AgentStates == {"none", "gathered", "checking", "connected", "failed", "closed"}
EndType ==
    [pc : Places,
     node : Nodes \cup {"none"}, peer : Nodes \cup {"none"},
     transport : Transports \cup {"none"}, remote : Ends \cup {NoPeer},
     agent : AgentStates,
     secret : (Ends \cup {NoPeer}) \X (Ends \cup {NoPeer}), id : Nat, sent : Nat,
     bad : BOOLEAN, roster : SUBSET Nodes]

ConnectTypeOK ==
    /\ end \in [Ends -> EndType]
    /\ counter \in [Nodes -> Nat \ {0}]
    /\ cached \in [Nodes -> SUBSET Nodes]
    /\ revoked \subseteq Nodes /\ faults \in Nat

\* A call has its agent once it has a place from which it sends, and what it has
\* taken from a response is true of the answer that gave it.
CallOK(c) ==
    /\ end[c].pc \in {"none", "lookup", "prepare"} => end[c].agent = "none"
    /\ end[c].pc # "none" => Active \subseteq end[c].roster
    /\ end[c].id = 0 =>
        /\ end[c].remote = NoPeer /\ end[c].sent = 0
        /\ end[c].pc \in {"none", "lookup", "prepare", "wait", "failed"}
        /\ end[c].agent \in {"none", "gathered", "closed"}
    /\ end[c].id # 0 =>
        /\ end[c].pc \in {"ice", "handshake", "ready", "closed", "failed"}
        /\ end[c].remote \in Answers /\ end[c].secret = SharedSecret(c, end[c].remote)
        /\ end[end[c].remote].id = end[c].id
        /\ end[end[c].remote].node = end[c].peer

\* An answer is about a request that was sent, and its roster is no older than the
\* call; it has an agent, an id and a secret only if the request was verified.
AnswerOK(a) ==
    /\ end[a].pc \notin {"none", "refused"} =>
        /\ end[a].remote \in Calls /\ end[end[a].remote].agent # "none"
        /\ end[a].transport = end[end[a].remote].transport
        /\ end[a].node \in end[a].roster
        /\ end[a].roster \subseteq end[end[a].remote].roster
    /\ end[a].id = 0 =>
        /\ end[a].pc \in {"none", "refused", "roster"}
        /\ end[a].agent = "none" /\ end[a].secret = NewEnd.secret /\ end[a].sent = 0
    /\ end[a].id # 0 =>
        /\ end[a].pc \in {"delay", "ice", "handshake", "ready", "closed", "failed"}
        /\ end[a].agent # "none" /\ end[a].secret = SharedSecret(end[a].remote, a)
        /\ end[end[a].remote].node = end[a].peer
        /\ end[a].peer \in end[a].roster

\* An end that has been connected is paired with its remote end; only a connection
\* has sent anything, and nothing it received was undecipherable.
EndOK(e) ==
    /\ end[e].agent = "connected" \/ end[e].pc \in {"handshake", "ready", "closed"} =>
        end[e].remote \in Ends /\ Paired(e, end[e].remote) /\ end[e].id # 0
    /\ ~end[e].bad

ConnectInv ==
    /\ ConnectTypeOK
    /\ \A c \in Calls : CallOK(c)
    /\ \A a \in Answers : AnswerOK(a)
    /\ \A e \in Ends : EndOK(e)

-----------------------------------------------------------------------------
(* What one end relies on of another *)

USE DEF Places, AgentStates

\* Calls and answers are different ends, and a secret tells which two it is of.
LEMMA EndFacts ==
    /\ \A c \in Calls : c \notin Answers
    /\ NoPeer \notin Ends
    /\ \A c \in Calls, a \in Answers :
         /\ SharedSecret(c, a) \in (Ends \cup {NoPeer}) \X (Ends \cup {NoPeer})
         /\ SharedSecret(c, a) # NewEnd.secret
    /\ \A c, d, a, b : SharedSecret(c, a) = SharedSecret(d, b) => c = d /\ a = b
<1>1. "call" # "answer" /\ "none" # "call" /\ "none" # "answer"  OBVIOUS
<1>2. \A c \in Calls : c \notin Answers  BY <1>1 DEF Calls, Answers
<1>3. NoPeer \notin Ends  BY <1>1 DEF Calls, Answers, Ends, NoPeer
<1>4. NewEnd.secret = <<NoPeer, NoPeer>>  BY DEF NewEnd
<1>5. \A c \in Calls, a \in Answers :
         /\ SharedSecret(c, a) \in (Ends \cup {NoPeer}) \X (Ends \cup {NoPeer})
         /\ SharedSecret(c, a) # NewEnd.secret
  BY <1>3, <1>4 DEF SharedSecret, Ends
<1> QED  BY <1>2, <1>3, <1>5 DEF SharedSecret

\* The record v may follow that of end e: what others may have learned of e stays.
Follows(e, v) ==
    end[e].agent # "none" =>
        /\ v.agent # "none"
        /\ v.node = end[e].node /\ v.peer = end[e].peer
        /\ v.transport = end[e].transport /\ v.roster = end[e].roster
        /\ end[e].id # 0 => v.id = end[e].id /\ v.remote = end[e].remote

\* A step of one end that may follow, with an end that is in order afterwards,
\* leaves all of them in order.
LEMMA StepOfOneEnd ==
    ASSUME ConnectInv, NEW e \in Ends, NEW v \in EndType,
           end' = [end EXCEPT ![e] = v], Follows(e, v), revoked' = revoked,
           counter' \in [Nodes -> Nat \ {0}], cached' \in [Nodes -> SUBSET Nodes],
           faults' \in Nat,
           e \in Calls => CallOK(e)', e \in Answers => AnswerOK(e)', EndOK(e)'
    PROVE  ConnectInv'
<1>1. /\ end' \in [Ends -> EndType] /\ end'[e] = v
      /\ \A d \in Ends \ {e} : end'[d] = end[d]
  BY DEF ConnectInv, ConnectTypeOK
<1>2. ConnectTypeOK'  BY <1>1 DEF ConnectInv, ConnectTypeOK
<1>3. \A d \in Ends : Follows(d, end'[d])  BY <1>1 DEF Follows
<1>4. ASSUME NEW c \in Calls, c # e PROVE CallOK(c)'
  <2>1. end'[c] = end[c]  BY <1>1, <1>4 DEF Ends
  <2>2. end[c].id # 0 =>
          /\ end'[end[c].remote].id = end[c].id
          /\ end'[end[c].remote].node = end[c].peer
    <3> SUFFICES ASSUME end[c].id # 0
                 PROVE  /\ end'[end[c].remote].id = end[c].id
                        /\ end'[end[c].remote].node = end[c].peer
      OBVIOUS
    <3>1. PICK a \in Answers : a = end[c].remote /\ end[a].id = end[c].id /\ end[a].node = end[c].peer
      BY DEF ConnectInv, CallOK
    <3>2. end[a].agent # "none"  BY <3>1 DEF ConnectInv, AnswerOK
    <3> QED  BY <1>3, <3>1, <3>2 DEF Follows, Ends
  <2> QED  BY <2>1, <2>2 DEF ConnectInv, CallOK, Active
<1>5. ASSUME NEW a \in Answers, a # e PROVE AnswerOK(a)'
  <2>1. end'[a] = end[a]  BY <1>1, <1>5 DEF Ends
  <2>2. CASE end[a].pc \in {"none", "refused"}
    BY <2>1, <2>2 DEF ConnectInv, AnswerOK
  <2>3. CASE end[a].pc \notin {"none", "refused"}
    <3>1. PICK c \in Calls : c = end[a].remote /\ end[c].agent # "none"
      BY <2>3 DEF ConnectInv, AnswerOK
    <3>2. Follows(c, end'[c])  BY <1>3 DEF Ends
    <3> QED  BY <2>1, <2>3, <3>1, <3>2 DEF ConnectInv, AnswerOK, Follows
  <2> QED  BY <2>2, <2>3
<1>6. ASSUME NEW d \in Ends, d # e PROVE EndOK(d)'
  <2>1. end'[d] = end[d]  BY <1>1, <1>6
  <2>2. ASSUME end[d].agent = "connected" \/ end[d].pc \in {"handshake", "ready", "closed"}
        PROVE  end'[end[d].remote].remote = d
    <3>1. PICK f \in Ends : f = end[d].remote /\ end[f].remote = d /\ end[d].id # 0
      BY <2>2 DEF ConnectInv, EndOK, Paired
    <3>2. end[f].agent # "none" /\ end[f].id # 0
      <4>1. CASE d \in Calls
        BY <3>1, <4>1 DEF ConnectInv, CallOK, AnswerOK
      <4>2. CASE d \in Answers
        <5>1. f \in Calls  BY <3>1, <4>2 DEF ConnectInv, AnswerOK
        <5> QED  BY <3>1, <4>2, <5>1, EndFacts DEF ConnectInv, CallOK, AnswerOK, Ends
      <4> QED  BY <4>1, <4>2 DEF Ends
    <3> QED  BY <1>3, <3>1, <3>2 DEF Follows
  <2> QED  BY <2>1, <2>2 DEF ConnectInv, EndOK, Paired
<1> QED  BY <1>2, <1>4, <1>5, <1>6 DEF ConnectInv

\* The record of one end changes.
LEMMA RecordOf ==
    ASSUME ConnectInv, NEW e \in Ends, NEW v, end' = [end EXCEPT ![e] = v]
    PROVE  /\ end[e] \in EndType
           /\ end'[e] = v
           /\ \A d \in Ends \ {e} : end'[d] = end[d]
  BY DEF ConnectInv, ConnectTypeOK

\* An end that gives up keeps what others have learned of it.
LEMMA FailInv ==
    ASSUME ConnectInv, NEW e \in Ends, end' = Fail(e), revoked' = revoked,
           counter' \in [Nodes -> Nat \ {0}], cached' \in [Nodes -> SUBSET Nodes],
           faults' \in Nat,
           end[e].pc \in {"lookup", "prepare", "wait", "ice", "handshake"}
    PROVE  ConnectInv'
<1> DEFINE v == [CloseAgent(end[e]) EXCEPT !.pc = "failed"]
<1>1. end' = [end EXCEPT ![e] = v] /\ end[e] \in EndType
  BY DEF Fail, ConnectInv, ConnectTypeOK
<1>2. /\ v \in EndType /\ v.pc = "failed"
      /\ v.agent = IF end[e].agent = "none" THEN "none" ELSE "closed"
      /\ v.node = end[e].node /\ v.peer = end[e].peer
      /\ v.transport = end[e].transport /\ v.roster = end[e].roster
      /\ v.remote = end[e].remote /\ v.id = end[e].id /\ v.secret = end[e].secret
      /\ v.sent = end[e].sent /\ v.bad = end[e].bad
  <2>1. PICK g \in {"none", "closed"} :
          /\ g = IF end[e].agent = "none" THEN "none" ELSE "closed"
          /\ v = [[end[e] EXCEPT !.agent = g] EXCEPT !.pc = "failed"]
    BY DEF CloseAgent
  <2> QED  BY <1>1, <2>1 DEF EndType
<1> HIDE DEF v
<1>3. end'[e] = v /\ \A d \in Ends \ {e} : end'[d] = end[d]  BY <1>1, RecordOf
<1>4. Follows(e, v)  BY <1>2 DEF Follows
<1>5. e \in Calls => CallOK(e)'
  BY <1>2, <1>3, EndFacts DEF ConnectInv, CallOK, Active, Ends
<1>6. e \in Answers => AnswerOK(e)'
  BY <1>2, <1>3, EndFacts DEF ConnectInv, AnswerOK, Ends
<1>7. EndOK(e)'  BY <1>2, <1>3 DEF ConnectInv, EndOK
<1> QED  BY <1>1, <1>2, <1>4, <1>5, <1>6, <1>7, StepOfOneEnd

\* An answer that is refused leaves nothing; nobody has heard of it.
LEMMA RefuseInv ==
    ASSUME ConnectInv, NEW a \in Answers, end' = Refuse(a), revoked' = revoked,
           counter' \in [Nodes -> Nat \ {0}], cached' \in [Nodes -> SUBSET Nodes],
           faults' \in Nat,
           end[a].pc \in {"none", "roster"}
    PROVE  ConnectInv'
<1> DEFINE v == [NewEnd EXCEPT !.pc = "refused"]
<1>1. end' = [end EXCEPT ![a] = v] /\ a \in Ends  BY DEF Refuse, Ends
<1>2. /\ v \in EndType /\ v.pc = "refused" /\ v.agent = "none" /\ v.id = 0
      /\ v.secret = NewEnd.secret /\ v.sent = 0 /\ v.bad = FALSE
  BY DEF NewEnd, EndType
<1> HIDE DEF v
<1>3. end'[a] = v /\ \A d \in Ends \ {a} : end'[d] = end[d]  BY <1>1, RecordOf
<1>4. Follows(a, v)  BY DEF Follows, ConnectInv, AnswerOK
<1>5. AnswerOK(a)' /\ EndOK(a)'  BY <1>2, <1>3 DEF AnswerOK, EndOK
<1> QED  BY <1>1, <1>2, <1>4, <1>5, EndFacts, StepOfOneEnd

-----------------------------------------------------------------------------
(* The caller's steps *)

\* A call records who is active when it is made.
LEMMA ConnectStepInv ==
    ASSUME ConnectInv, NEW c \in Calls, NEW n \in Nodes, NEW peer \in Nodes,
           NEW t \in Transports, Connect(c, n, peer, t)
    PROVE  ConnectInv'
<1>1. /\ c \in Ends /\ end[c] \in EndType /\ end[c].pc = "none"
      /\ Active \in SUBSET Nodes
  BY DEF Connect, NextOf, ConnectInv, ConnectTypeOK, Ends, Active
<1>2. PICK v : v = [end[c] EXCEPT !.pc = "lookup", !.node = n, !.peer = peer,
                                  !.transport = t, !.roster = Active]
  OBVIOUS
<1>3. end' = [end EXCEPT ![c] = v]
  BY <1>1, <1>2 DEF Connect, ConnectInv, ConnectTypeOK, EndType
<1>4. /\ v \in EndType /\ v.pc = "lookup" /\ v.roster = Active
      /\ v.agent = end[c].agent /\ v.id = end[c].id /\ v.remote = end[c].remote
      /\ v.sent = end[c].sent /\ v.bad = end[c].bad
  BY <1>1, <1>2 DEF EndType
<1>5. end'[c] = v /\ \A d \in Ends \ {c} : end'[d] = end[d]  BY <1>1, <1>3, RecordOf
<1>6. Follows(c, v)  BY <1>1 DEF Follows, ConnectInv, CallOK
<1>7. CallOK(c)' /\ EndOK(c)'
  BY <1>1, <1>4, <1>5 DEF ConnectInv, CallOK, EndOK, Active, Connect
<1>8. UNCHANGED <<counter, cached, revoked, faults>>  BY DEF Connect
<1> QED
  BY <1>1, <1>3, <1>4, <1>6, <1>7, <1>8, EndFacts, StepOfOneEnd DEF ConnectInv, ConnectTypeOK

\* Finding the peer changes the cache, and the place of the call.
LEMMA FindPeerInv == ASSUME ConnectInv, NEW c \in Calls, FindPeer(c) PROVE ConnectInv'
<1>1. c \in Ends /\ end[c] \in EndType /\ end[c].pc = "lookup" /\ Active \in SUBSET Nodes
  BY DEF FindPeer, ConnectInv, ConnectTypeOK, Ends, Active
<1>2. /\ counter' \in [Nodes -> Nat \ {0}] /\ cached' \in [Nodes -> SUBSET Nodes]
      /\ faults' \in Nat /\ revoked' = revoked
  BY <1>1 DEF FindPeer, Fault, ConnectInv, ConnectTypeOK
<1>3. CASE end' = Fail(c)  BY <1>1, <1>2, <1>3, FailInv
<1>4. CASE end' = [end EXCEPT ![c].pc = "prepare"]
  <2>1. PICK v : v = [end[c] EXCEPT !.pc = "prepare"] /\ end' = [end EXCEPT ![c] = v]
    BY <1>4
  <2>2. /\ v \in EndType /\ v.pc = "prepare" /\ v.agent = end[c].agent
        /\ v.roster = end[c].roster /\ v.id = end[c].id /\ v.remote = end[c].remote
        /\ v.sent = end[c].sent /\ v.bad = end[c].bad
    BY <1>1, <2>1 DEF EndType
  <2>3. end'[c] = v /\ \A d \in Ends \ {c} : end'[d] = end[d]  BY <1>1, <2>1, RecordOf
  <2>4. Follows(c, v)  BY <1>1 DEF Follows, ConnectInv, CallOK
  <2>5. CallOK(c)' /\ EndOK(c)'
    BY <1>1, <1>2, <2>2, <2>3 DEF ConnectInv, CallOK, EndOK, Active
  <2> QED  BY <1>1, <1>2, <2>1, <2>2, <2>4, <2>5, EndFacts, StepOfOneEnd
<1> QED  BY <1>3, <1>4 DEF FindPeer

\* The agent is made and the request is sent.
LEMMA SendRequestInv ==
    ASSUME ConnectInv, NEW c \in Calls, SendRequest(c) PROVE ConnectInv'
<1>1. c \in Ends /\ end[c] \in EndType /\ end[c].pc = "prepare"
  BY DEF SendRequest, ConnectInv, ConnectTypeOK, Ends
<1>2. /\ counter' \in [Nodes -> Nat \ {0}] /\ cached' \in [Nodes -> SUBSET Nodes]
      /\ faults' \in Nat /\ revoked' = revoked
  BY DEF SendRequest, Fault, ConnectInv, ConnectTypeOK
<1>3. CASE end' = Fail(c)  BY <1>1, <1>2, <1>3, FailInv
<1>4. CASE end' = [end EXCEPT ![c] = [NewAgent(@) EXCEPT !.pc = "wait"]]
  <2>1. PICK v : v = [NewAgent(end[c]) EXCEPT !.pc = "wait"] /\ end' = [end EXCEPT ![c] = v]
    BY <1>4
  <2>2. /\ v \in EndType /\ v.pc = "wait" /\ v.agent = "gathered"
        /\ v.roster = end[c].roster /\ v.id = end[c].id /\ v.remote = end[c].remote
        /\ v.sent = end[c].sent /\ v.bad = end[c].bad
    BY <1>1, <2>1 DEF NewAgent, EndType
  <2>3. end'[c] = v /\ \A d \in Ends \ {c} : end'[d] = end[d]  BY <1>1, <2>1, RecordOf
  <2>4. Follows(c, v)  BY <1>1 DEF Follows, ConnectInv, CallOK
  <2>5. CallOK(c)' /\ EndOK(c)'
    BY <1>1, <1>2, <2>2, <2>3 DEF ConnectInv, CallOK, EndOK, Active
  <2> QED  BY <1>1, <1>2, <2>1, <2>2, <2>4, <2>5, EndFacts, StepOfOneEnd
<1> QED  BY <1>3, <1>4 DEF SendRequest

\* A response is taken only from an answer of the peer; it settles the id, the
\* secret and the remote end.
LEMMA ReceiveResponseInv ==
    ASSUME ConnectInv, NEW c \in Calls, ReceiveResponse(c) PROVE ConnectInv'
<1>1. /\ c \in Ends /\ end[c] \in EndType /\ end[c].pc = "wait"
      /\ end[c].id = 0 /\ end[c].remote = NoPeer
  BY DEF ReceiveResponse, ConnectInv, ConnectTypeOK, CallOK, Ends
<1>2. /\ counter' \in [Nodes -> Nat \ {0}] /\ cached' \in [Nodes -> SUBSET Nodes]
      /\ faults' \in Nat /\ revoked' = revoked
  <2>1. UNCHANGED <<counter, cached, revoked>> /\ (UNCHANGED faults \/ Fault)
    BY DEF ReceiveResponse
  <2> QED  BY <2>1 DEF Fault, ConnectInv, ConnectTypeOK
<1>3. CASE end' = Fail(c)  BY <1>1, <1>2, <1>3, FailInv
<1>4. ASSUME NEW a \in Answers, end[a].id # 0, VerifyResponse(c, a),
             end' = [end EXCEPT ![c] = [IceCallerConnect(@, a) EXCEPT
                            !.id = end[a].id, !.secret = SharedSecret(c, a)]]
      PROVE  ConnectInv'
  <2>1. PICK v : /\ v = [IceCallerConnect(end[c], a) EXCEPT
                            !.id = end[a].id, !.secret = SharedSecret(c, a)]
                 /\ end' = [end EXCEPT ![c] = v]
    BY <1>4
  <2>2. a \in Ends /\ end[a].id \in Nat /\ a # c
    BY EndFacts DEF ConnectInv, ConnectTypeOK, EndType, Ends
  <2>3. SharedSecret(c, a) \in (Ends \cup {NoPeer}) \X (Ends \cup {NoPeer})  BY EndFacts
  <2>4. /\ v \in EndType /\ v.pc = "ice" /\ v.agent = "checking"
        /\ v.remote = a /\ v.id = end[a].id /\ v.secret = SharedSecret(c, a)
        /\ v.node = end[c].node /\ v.peer = end[c].peer
        /\ v.transport = end[c].transport /\ v.roster = end[c].roster
        /\ v.sent = end[c].sent /\ v.bad = end[c].bad
    <3>1. PICK r : /\ r = [end[c] EXCEPT !.pc = "ice", !.agent = "checking", !.remote = a]
                   /\ v = [r EXCEPT !.id = end[a].id, !.secret = SharedSecret(c, a)]
      BY <2>1 DEF IceCallerConnect
    <3>2. /\ r \in EndType /\ r.pc = "ice" /\ r.agent = "checking" /\ r.remote = a
          /\ r.node = end[c].node /\ r.peer = end[c].peer
          /\ r.transport = end[c].transport /\ r.roster = end[c].roster
          /\ r.sent = end[c].sent /\ r.bad = end[c].bad
      BY <1>1, <2>2, <3>1 DEF EndType
    <3>3. PICK i \in Nat, k \in (Ends \cup {NoPeer}) \X (Ends \cup {NoPeer}) :
            i = end[a].id /\ k = SharedSecret(c, a)
      BY <2>2, <2>3
    <3>4. v = [r EXCEPT !.id = i, !.secret = k]  BY <3>1, <3>3
    <3> QED  BY <3>2, <3>3, <3>4 DEF EndType
  <2>5. end'[c] = v /\ \A d \in Ends \ {c} : end'[d] = end[d]  BY <1>1, <2>1, RecordOf
  <2>6. Follows(c, v)  BY <1>1, <2>4 DEF Follows
  <2>7. CallOK(c)' /\ EndOK(c)'
    <3>1. end'[a] = end[a] /\ end[a].node = end[c].peer
      BY <1>4, <2>2, <2>5 DEF VerifyResponse
    <3>2. Active \subseteq end[c].roster /\ ~end[c].bad
      BY <1>1 DEF ConnectInv, CallOK, EndOK
    <3>3. CallOK(c)'
      BY <1>2, <1>4, <2>4, <2>5, <3>1, <3>2 DEF CallOK, Active
    <3>4. EndOK(c)'  BY <2>4, <2>5, <3>2 DEF EndOK
    <3> QED  BY <3>3, <3>4
  <2> QED  BY <1>1, <1>2, <2>1, <2>4, <2>6, <2>7, EndFacts, StepOfOneEnd
<1> QED  BY <1>3, <1>4 DEF ReceiveResponse

-----------------------------------------------------------------------------
(* The answerer's steps *)

\* The request was sent, and the roster that the handler fetches is no older.
LEMMA ReceiveRequestInv ==
    ASSUME ConnectInv, NEW a \in Answers, NEW n \in Nodes, NEW c \in Calls,
           NEW caller \in Nodes, ReceiveRequest(a, n, c, caller)
    PROVE  ConnectInv'
<1>1. /\ a \in Ends /\ c \in Ends /\ c # a
      /\ end[a].pc = "none" /\ end[c] \in EndType
      /\ Active \in SUBSET Nodes /\ Active \subseteq end[c].roster
      /\ end[c].agent # "none"
  BY EndFacts
     DEF ReceiveRequest, NextOf, ConnectInv, ConnectTypeOK, CallOK, Ends, Active
<1>2. /\ counter' \in [Nodes -> Nat \ {0}] /\ cached' \in [Nodes -> SUBSET Nodes]
      /\ faults' \in Nat /\ revoked' = revoked
  BY DEF ReceiveRequest, ConnectInv, ConnectTypeOK
<1>3. CASE n \in revoked
  BY <1>1, <1>2, <1>3, RefuseInv DEF ReceiveRequest
<1>4. CASE n \notin revoked
  <2>1. PICK v : /\ v = [NewEnd EXCEPT
                        !.pc = "roster", !.node = n, !.peer = caller, !.remote = c,
                        !.transport = end[c].transport, !.roster = Active]
                 /\ end' = [end EXCEPT ![a] = v]
    BY <1>4 DEF ReceiveRequest
  <2>2. end[c].transport \in Transports \cup {"none"}  BY <1>1 DEF EndType
  <2>3. /\ v \in EndType /\ v.pc = "roster" /\ v.agent = "none" /\ v.remote = c
        /\ v.id = 0 /\ v.secret = NewEnd.secret /\ v.transport = end[c].transport
        /\ v.node = n /\ v.roster = Active /\ v.sent = 0 /\ v.bad = FALSE
    BY <1>1, <2>1, <2>2 DEF NewEnd, EndType
  <2>4. end'[a] = v /\ \A d \in Ends \ {a} : end'[d] = end[d]  BY <1>1, <2>1, RecordOf
  <2>5. Follows(a, v)  BY <1>1 DEF Follows, ConnectInv, AnswerOK
  <2>6. AnswerOK(a)' /\ EndOK(a)'
    BY <1>1, <1>4, <2>3, <2>4 DEF AnswerOK, EndOK, Active
  <2> QED  BY <1>1, <1>2, <2>1, <2>3, <2>5, <2>6, EndFacts, StepOfOneEnd
<1> QED  BY <1>3, <1>4

\* A verified request gets an id and the secret that the caller can derive, too.
LEMMA AnswerInv == ASSUME ConnectInv, NEW a \in Answers, Answer(a) PROVE ConnectInv'
<1> DEFINE n == end[a].node
           c == end[a].remote
<1>1. /\ a \in Ends /\ end[a] \in EndType /\ end[a].pc = "roster"
      /\ c \in Calls /\ c \in Ends /\ c # a /\ n \in Nodes
      /\ end[a].id = 0 /\ end[a].agent = "none"
  <2>1. end[a] \in EndType /\ a \in Ends  BY DEF ConnectInv, ConnectTypeOK, Ends
  <2>2. end[a].pc = "roster"  BY DEF Answer
  <2>3. c \in Calls /\ c \in Ends /\ n \in end[a].roster
    BY <2>2 DEF ConnectInv, AnswerOK, Ends
  <2> QED  BY <2>1, <2>2, <2>3, EndFacts DEF ConnectInv, AnswerOK, EndType
<1>2. /\ counter' \in [Nodes -> Nat \ {0}] /\ cached' \in [Nodes -> SUBSET Nodes]
      /\ faults' \in Nat /\ revoked' = revoked
  BY <1>1 DEF Answer, Fault, ConnectInv, ConnectTypeOK
<1>3. CASE end' = Refuse(a)  BY <1>1, <1>2, <1>3, RefuseInv
<1>4. CASE /\ VerifyRequest(a)
           /\ end' = [end EXCEPT ![a] = [NewAgent(@) EXCEPT !.pc = "delay",
                            !.id = counter[n], !.secret = SharedSecret(end[a].remote, a)]]
  <2>1. PICK v : /\ v = [NewAgent(end[a]) EXCEPT !.pc = "delay", !.id = counter[n],
                                                 !.secret = SharedSecret(c, a)]
                 /\ end' = [end EXCEPT ![a] = v]
    BY <1>4
  <2>2. SharedSecret(c, a) \in (Ends \cup {NoPeer}) \X (Ends \cup {NoPeer})
    BY <1>1, EndFacts
  <2>3. counter[n] \in Nat \ {0}  BY <1>1 DEF ConnectInv, ConnectTypeOK
  <2>4. /\ v \in EndType /\ v.pc = "delay" /\ v.agent = "gathered" /\ v.id # 0
        /\ v.secret = SharedSecret(c, a) /\ v.remote = c
        /\ v.node = n /\ v.peer = end[a].peer
        /\ v.transport = end[a].transport /\ v.roster = end[a].roster
        /\ v.sent = end[a].sent /\ v.bad = end[a].bad
    BY <1>1, <2>1, <2>2, <2>3 DEF NewAgent, EndType
  <2>5. end'[a] = v /\ \A d \in Ends \ {a} : end'[d] = end[d]  BY <1>1, <2>1, RecordOf
  <2>6. Follows(a, v)  BY <1>1 DEF Follows
  <2>7. AnswerOK(a)' /\ EndOK(a)'
    <3>1. end'[c] = end[c]  BY <1>1, <2>5
    <3>2. /\ end[c].node = end[a].peer /\ end[a].peer \in end[a].roster
      BY <1>4 DEF VerifyRequest
    <3>3. /\ end[c].agent # "none" /\ end[a].transport = end[c].transport
          /\ n \in end[a].roster /\ end[a].roster \subseteq end[c].roster
      BY <1>1 DEF ConnectInv, AnswerOK
    <3>4. ~end[a].bad  BY <1>1 DEF ConnectInv, EndOK
    <3>5. AnswerOK(a)'  BY <1>1, <2>4, <2>5, <3>1, <3>2, <3>3 DEF AnswerOK
    <3>6. EndOK(a)'  BY <2>4, <2>5, <3>4 DEF EndOK
    <3> QED  BY <3>5, <3>6
  <2> QED  BY <1>1, <1>2, <2>1, <2>4, <2>6, <2>7, EndFacts, StepOfOneEnd
<1> QED  BY <1>3, <1>4 DEF Answer

-----------------------------------------------------------------------------
(* The steps of both ends *)

\* An end that has an id goes on: what it has agreed on stays.
LEMMA ProgressInv ==
    ASSUME ConnectInv, NEW e \in Ends, NEW v \in EndType, end' = [end EXCEPT ![e] = v],
           UNCHANGED <<counter, cached, revoked>>, faults' \in Nat,
           end[e].id # 0, v.id = end[e].id, v.remote = end[e].remote,
           v.secret = end[e].secret, v.node = end[e].node, v.peer = end[e].peer,
           v.transport = end[e].transport, v.roster = end[e].roster,
           v.pc = end[e].pc \/ v.pc \in {"ice", "handshake", "ready", "closed"},
           end[e].agent # "none" => v.agent # "none", ~v.bad,
           v.agent = "connected" \/ v.pc \in {"handshake", "ready", "closed"} =>
                Paired(e, end[e].remote)
    PROVE  ConnectInv'
<1>1. end[e].remote \in Ends /\ end[e].remote # e
  <2>1. CASE e \in Calls  BY <2>1, EndFacts DEF ConnectInv, CallOK, Ends
  <2>2. CASE e \in Answers
    BY <2>2, EndFacts DEF ConnectInv, AnswerOK, Ends
  <2> QED  BY <2>1, <2>2 DEF Ends
<1>2. end'[e] = v /\ \A d \in Ends \ {e} : end'[d] = end[d]  BY RecordOf
<1>3. end'[end[e].remote] = end[end[e].remote]  BY <1>1, <1>2
<1>4. Follows(e, v)  BY DEF Follows
<1>5. e \in Calls => CallOK(e)'
  <2> SUFFICES ASSUME e \in Calls PROVE CallOK(e)'  OBVIOUS
  <2>1. CallOK(e)  BY DEF ConnectInv
  <2>2. end[e].pc \in {"ice", "handshake", "ready", "closed", "failed"}  BY <2>1 DEF CallOK
  <2> QED  BY <1>2, <1>3, <2>1, <2>2 DEF CallOK, Active
<1>6. e \in Answers => AnswerOK(e)'
  <2> SUFFICES ASSUME e \in Answers PROVE AnswerOK(e)'  OBVIOUS
  <2>1. AnswerOK(e)  BY DEF ConnectInv
  <2>2. end[e].pc \in {"delay", "ice", "handshake", "ready", "closed", "failed"}
    BY <2>1 DEF AnswerOK
  <2> QED  BY <1>2, <1>3, <2>1, <2>2 DEF AnswerOK
<1>7. EndOK(e)'  BY <1>1, <1>2, <1>3 DEF EndOK, Paired
<1>8. /\ counter' \in [Nodes -> Nat \ {0}] /\ cached' \in [Nodes -> SUBSET Nodes]
      /\ revoked' = revoked
  BY DEF ConnectInv, ConnectTypeOK
<1> QED  BY <1>4, <1>5, <1>6, <1>7, <1>8, StepOfOneEnd

\* From the state of its agent or its place one sees that an end has an id.
LEMMA HasId ==
    ASSUME ConnectInv, NEW e \in Ends,
           \/ end[e].pc \in {"delay", "ice", "handshake", "ready", "closed"}
           \/ end[e].agent \in {"checking", "connected"}
    PROVE  end[e].id # 0
<1>1. CASE e \in Calls  BY <1>1 DEF ConnectInv, CallOK
<1>2. CASE e \in Answers  BY <1>2 DEF ConnectInv, AnswerOK
<1> QED  BY <1>1, <1>2 DEF Ends

\* Two ends that are paired agree on everything, and send in opposite directions.
LEMMA PairAgrees ==
    ASSUME ConnectInv, NEW e \in Ends, end[e].id # 0, NEW f \in Ends,
           f = end[e].remote, Paired(e, f)
    PROVE  /\ end[e].peer = end[f].node /\ end[f].peer = end[e].node
           /\ end[e].secret = end[f].secret /\ end[e].id = end[f].id
           /\ end[e].transport = end[f].transport
           /\ e \in Calls <=> f \notin Calls
<1>1. ASSUME NEW c \in Calls, NEW a \in Answers, end[c].remote = a, end[a].remote = c
      PROVE  /\ end[c].peer = end[a].node /\ end[a].peer = end[c].node
             /\ end[c].secret = end[a].secret /\ end[c].id = end[a].id
             /\ end[c].transport = end[a].transport
             /\ a \notin Calls
  <2>1. end[c].id # 0  BY <1>1, EndFacts DEF ConnectInv, CallOK, Ends
  <2>2. end[a].id = end[c].id  BY <1>1, <2>1 DEF ConnectInv, CallOK
  <2> QED  BY <1>1, <2>1, <2>2, EndFacts DEF ConnectInv, CallOK, AnswerOK
<1>2. CASE e \in Calls
  <2>1. f \in Answers  BY <1>2 DEF ConnectInv, CallOK
  <2> QED  BY <1>1, <1>2, <2>1 DEF Paired
<1>3. CASE e \in Answers
  <2>1. f \in Calls  BY <1>3 DEF ConnectInv, AnswerOK
  <2> QED  BY <1>1, <1>3, <2>1 DEF Paired
<1> QED  BY <1>2, <1>3 DEF Ends

\* A record with the fields of its progress set.
Progress(r, pc, agent, sent) ==
    [[r EXCEPT !.pc = pc, !.agent = agent] EXCEPT !.sent = sent, !.bad = FALSE]

\* Each step of an end that has been answered, or has answered, is such progress.
LEMMA EndStepInv ==
    ASSUME ConnectInv, NEW e \in Ends,
           \/ e \in Answers /\ StartChecks(e)
           \/ AgentChanges(e) \/ WaitForConnect(e) \/ Handshake(e)
           \/ Send(e) \/ Recv(e) \/ Close(e)
    PROVE  ConnectInv'
<1>1. /\ end[e] \in EndType /\ end[e].sent \in Nat /\ end[e].bad = FALSE
      /\ end[e].pc \in Places /\ end[e].agent \in AgentStates
  BY DEF ConnectInv, ConnectTypeOK, EndOK, EndType
<1>2. /\ UNCHANGED <<counter, cached, revoked>> /\ faults' \in Nat
      /\ counter' \in [Nodes -> Nat \ {0}] /\ cached' \in [Nodes -> SUBSET Nodes]
  <2>1. UNCHANGED <<counter, cached, revoked>> /\ (UNCHANGED faults \/ Fault)
    BY DEF StartChecks, AgentChanges, WaitForConnect, Handshake, Send, Recv, Close
  <2> QED  BY <2>1 DEF Fault, ConnectInv, ConnectTypeOK
<1>3. ASSUME NEW pc \in Places, NEW agent \in AgentStates, NEW sent \in Nat,
             pc = end[e].pc \/ pc \in {"ice", "handshake", "ready", "closed"},
             agent # "none" \/ agent = end[e].agent,
             end' = [end EXCEPT ![e] = Progress(end[e], pc, agent, sent)],
             \/ end[e].pc \in {"delay", "ice", "handshake", "ready", "closed"}
             \/ end[e].agent \in {"checking", "connected"},
             agent = "connected" \/ pc \in {"handshake", "ready", "closed"} =>
                Paired(e, end[e].remote)
      PROVE  ConnectInv'
  <2>1. PICK u : u = [end[e] EXCEPT !.pc = pc, !.agent = agent]  OBVIOUS
  <2>2. PICK v : v = [u EXCEPT !.sent = sent, !.bad = FALSE]  OBVIOUS
  <2>3. /\ u \in EndType /\ u.pc = pc /\ u.agent = agent
        /\ u.id = end[e].id /\ u.remote = end[e].remote /\ u.secret = end[e].secret
        /\ u.node = end[e].node /\ u.peer = end[e].peer
        /\ u.transport = end[e].transport /\ u.roster = end[e].roster
    BY <1>1, <2>1 DEF EndType
  <2>4. /\ v \in EndType /\ v.sent = sent /\ v.bad = FALSE
        /\ v.pc = u.pc /\ v.agent = u.agent
        /\ v.id = u.id /\ v.remote = u.remote /\ v.secret = u.secret
        /\ v.node = u.node /\ v.peer = u.peer
        /\ v.transport = u.transport /\ v.roster = u.roster
    BY <2>2, <2>3 DEF EndType
  <2>5. end' = [end EXCEPT ![e] = v]  BY <1>3, <2>1, <2>2 DEF Progress
  <2>6. end[e].id # 0  BY <1>3, HasId
  <2>7. /\ v \in EndType /\ ~v.bad
        /\ v.id = end[e].id /\ v.remote = end[e].remote /\ v.secret = end[e].secret
        /\ v.node = end[e].node /\ v.peer = end[e].peer
        /\ v.transport = end[e].transport /\ v.roster = end[e].roster
    BY <2>3, <2>4
  <2>8. /\ v.pc = end[e].pc \/ v.pc \in {"ice", "handshake", "ready", "closed"}
        /\ end[e].agent # "none" => v.agent # "none"
        /\ v.agent = "connected" \/ v.pc \in {"handshake", "ready", "closed"} =>
             Paired(e, end[e].remote)
    BY <1>3, <2>3, <2>4
  <2> QED  BY <1>2, <2>5, <2>6, <2>7, <2>8, ProgressInv
<1>4. CASE e \in Answers /\ StartChecks(e)
  <2>1. end' = [end EXCEPT ![e] = Progress(end[e], "ice", "checking", end[e].sent)]
    BY <1>1, <1>4 DEF StartChecks, IceAnswererConnect, Progress, EndType
  <2> QED  BY <1>1, <1>3, <1>4, <2>1 DEF StartChecks
<1>5. CASE AgentChanges(e)
  <2>1. CASE /\ end[e].agent = "checking" /\ Paired(e, end[e].remote)
             /\ end' = [end EXCEPT ![e].agent = "connected"]
    <3>1. end' = [end EXCEPT ![e] = Progress(end[e], end[e].pc, "connected", end[e].sent)]
      BY <1>1, <2>1 DEF Progress, EndType
    <3>2. end[e].agent = "checking" /\ Paired(e, end[e].remote)  BY <2>1
    <3>3. "connected" \in AgentStates /\ "connected" # "none"  OBVIOUS
    <3> HIDE <2>1
    <3> QED  BY <1>1, <1>3, <3>1, <3>2, <3>3
  <2>2. CASE /\ end[e].agent \in {"checking", "connected"}
             /\ end' = [end EXCEPT ![e].agent = "failed"]
    <3>1. end' = [end EXCEPT ![e] = Progress(end[e], end[e].pc, "failed", end[e].sent)]
      BY <1>1, <2>2 DEF Progress, EndType
    <3>2. /\ end[e].agent \in {"checking", "connected"}
          /\ end[e].pc \in {"handshake", "ready", "closed"} => Paired(e, end[e].remote)
      BY <2>2 DEF ConnectInv, EndOK
    <3> HIDE <2>2
    <3> QED  BY <1>1, <1>3, <3>1, <3>2
  <2> QED  BY <1>5, <2>1, <2>2 DEF AgentChanges
<1>6. CASE WaitForConnect(e)
  <2>1. CASE end' = Fail(e)
    BY <1>2, <1>6, <2>1, FailInv DEF WaitForConnect
  <2>2. ASSUME NEW pc \in {"ready", "handshake"}, end' = [end EXCEPT ![e].pc = pc],
               end[e].agent = "connected"
        PROVE  ConnectInv'
    <3>1. end' = [end EXCEPT ![e] = Progress(end[e], pc, end[e].agent, end[e].sent)]
      BY <1>1, <2>2 DEF Progress, EndType
    <3> QED  BY <1>1, <1>3, <1>6, <2>2, <3>1 DEF WaitForConnect, ConnectInv, EndOK
  <2> QED  BY <1>6, <2>1, <2>2 DEF WaitForConnect, Settled
<1>7. CASE Handshake(e)
  <2>1. CASE end' = Fail(e)  BY <1>2, <1>7, <2>1, FailInv DEF Handshake
  <2>2. CASE end' = [end EXCEPT ![e].pc = "ready"]
    <3>1. end' = [end EXCEPT ![e] = Progress(end[e], "ready", end[e].agent, end[e].sent)]
      BY <1>1, <2>2 DEF Progress, EndType
    <3>2. end[e].pc = "handshake" /\ Paired(e, end[e].remote)
      BY <1>7 DEF Handshake, ConnectInv, EndOK
    <3> QED  BY <1>1, <1>3, <3>1, <3>2
  <2> QED  BY <1>7, <2>1, <2>2 DEF Handshake
<1>8. CASE Send(e)
  <2>1. end' = [end EXCEPT ![e] = Progress(end[e], end[e].pc, end[e].agent, end[e].sent + 1)]
    BY <1>1, <1>8 DEF Send, Progress, EndType
  <2>2. end[e].pc = "ready" /\ Paired(e, end[e].remote) /\ end[e].sent + 1 \in Nat
    BY <1>1, <1>8 DEF Send, UdpReady, ConnectInv, EndOK
  <2> QED  BY <1>1, <1>3, <2>1, <2>2
<1>9. CASE Recv(e)
  <2>1. end[e].remote \in Ends /\ Paired(e, end[e].remote) /\ end[e].id # 0
    BY <1>9 DEF Recv, UdpReady, ConnectInv, EndOK
  <2>2. SendKey(end[e].remote) = RecvKey(e)
    BY <2>1, PairAgrees DEF SendKey, RecvKey, DirectionKey
  <2>3. end' = [end EXCEPT ![e] = Progress(end[e], end[e].pc, end[e].agent, end[e].sent)]
    BY <1>1, <1>9, <2>2 DEF Recv, Progress, EndType
  <2> QED  BY <1>1, <1>3, <1>9, <2>1, <2>3 DEF Recv, UdpReady
<1>10. CASE Close(e)
  <2>1. PICK agent \in {"closed", end[e].agent} :
          end' = [end EXCEPT ![e] = [[end[e] EXCEPT !.agent = agent] EXCEPT !.pc = "closed"]]
    BY <1>10 DEF Close, CloseAgent
  <2>2. end' = [end EXCEPT ![e] = Progress(end[e], "closed", agent, end[e].sent)]
    BY <1>1, <2>1 DEF Progress, EndType
  <2>3. end[e].pc = "ready" /\ Paired(e, end[e].remote)
    BY <1>10 DEF Close, ConnectInv, EndOK
  <2> QED  BY <1>1, <1>3, <2>2, <2>3
<1> QED  BY <1>4, <1>5, <1>6, <1>7, <1>8, <1>9, <1>10

\* A new session and a revocation leave the ends alone; a roster that held all the
\* active nodes still does when there are fewer.
LEMMA SurroundingsInv ==
    ASSUME ConnectInv, NEW n \in Nodes, StartSession(n) \/ Revoke(n) PROVE ConnectInv'
<1>1. /\ end' = end /\ cached' = cached /\ faults' \in Nat
      /\ counter' \in [Nodes -> Nat \ {0}] /\ revoked' \subseteq Nodes
      /\ revoked \subseteq revoked'
  BY DEF StartSession, Revoke, Active, Fault, ConnectInv, ConnectTypeOK
<1>2. ConnectTypeOK'  BY <1>1 DEF ConnectInv, ConnectTypeOK
<1>3. Active' \subseteq Active  BY <1>1 DEF Active
<1>4. ASSUME NEW c \in Calls PROVE CallOK(c)'  BY <1>1, <1>3 DEF ConnectInv, CallOK
<1>5. ASSUME NEW a \in Answers PROVE AnswerOK(a)'  BY <1>1 DEF ConnectInv, AnswerOK
<1>6. ASSUME NEW e \in Ends PROVE EndOK(e)'  BY <1>1 DEF ConnectInv, EndOK, Paired
<1> QED  BY <1>2, <1>4, <1>5, <1>6 DEF ConnectInv, Calls, Answers, Ends

\* No end has begun.
LEMMA InitInv == ConnectInit => ConnectInv
<1> SUFFICES ASSUME ConnectInit PROVE ConnectInv  OBVIOUS
<1>1. /\ NewEnd \in EndType /\ NewEnd.pc = "none" /\ NewEnd.agent = "none"
      /\ NewEnd.id = 0 /\ NewEnd.sent = 0 /\ ~NewEnd.bad /\ NewEnd.remote = NoPeer
  BY DEF NewEnd, EndType
<1>2. \A e \in Ends : end[e] = NewEnd  BY DEF ConnectInit
<1>3. ConnectTypeOK  BY <1>1 DEF ConnectInit, ConnectTypeOK
<1>4. ASSUME NEW c \in Calls PROVE CallOK(c)  BY <1>1, <1>2 DEF CallOK, Ends
<1>5. ASSUME NEW a \in Answers PROVE AnswerOK(a)  BY <1>1, <1>2 DEF AnswerOK, Ends
<1>6. ASSUME NEW e \in Ends PROVE EndOK(e)  BY <1>1, <1>2 DEF EndOK
<1> QED  BY <1>3, <1>4, <1>5, <1>6 DEF ConnectInv

\* The invariant is inductive.
LEMMA NextInv == ConnectInv /\ [ConnectNext]_connectVars => ConnectInv'
<1> SUFFICES ASSUME ConnectInv, [ConnectNext]_connectVars PROVE ConnectInv'  OBVIOUS
<1>1. CASE UNCHANGED connectVars
  BY <1>1 DEF connectVars, ConnectInv, ConnectTypeOK, CallOK, AnswerOK, EndOK, Paired, Active
<1>2. CASE ConnectNext
  <2>1. ASSUME NEW c \in Calls, NEW n \in Nodes, NEW peer \in Nodes, NEW t \in Transports,
               Connect(c, n, peer, t)
        PROVE  ConnectInv'
    BY <2>1, ConnectStepInv
  <2>2. ASSUME NEW c \in Calls, FindPeer(c) \/ SendRequest(c) \/ ReceiveResponse(c)
        PROVE  ConnectInv'
    BY <2>2, FindPeerInv, SendRequestInv, ReceiveResponseInv
  <2>3. ASSUME NEW a \in Answers, NEW n \in Nodes, NEW c \in Calls, NEW caller \in Nodes,
               ReceiveRequest(a, n, c, caller)
        PROVE  ConnectInv'
    BY <2>3, ReceiveRequestInv
  <2>4. ASSUME NEW a \in Answers, Answer(a) PROVE ConnectInv'  BY <2>4, AnswerInv
  <2>5. ASSUME NEW a \in Answers, StartChecks(a) PROVE ConnectInv'
    BY <2>5, EndStepInv DEF Ends
  <2>6. ASSUME NEW e \in Ends,
               \/ AgentChanges(e) \/ WaitForConnect(e) \/ Handshake(e)
               \/ Send(e) \/ Recv(e) \/ Close(e)
        PROVE  ConnectInv'
    BY <2>6, EndStepInv
  <2>7. ASSUME NEW n \in Nodes, StartSession(n) \/ Revoke(n) PROVE ConnectInv'
    BY <2>7, SurroundingsInv
  <2> QED  BY <1>2, <2>1, <2>2, <2>3, <2>4, <2>5, <2>6, <2>7 DEF ConnectNext
<1> QED  BY <1>1, <1>2

\* The invariant holds in every state.
LEMMA Invariant == ConnectSpec => []ConnectInv
  BY InitInv, NextInv, PTL DEF ConnectSpec

-----------------------------------------------------------------------------
\* Whatever the hub does with requests and responses, an end that is ready has one
\* other end, which is paired with it and agrees with it.
THEOREM ConnectEndsAgree == ConnectSpec => []EndsAgree
<1>1. ConnectInv => EndsAgree
  <2> SUFFICES ASSUME ConnectInv, NEW e \in Ends, end[e].pc \in {"ready", "closed"}
               PROVE  LET f == end[e].remote
                      IN  /\ Paired(e, f)
                          /\ end[e].peer = end[f].node /\ end[f].peer = end[e].node
                          /\ end[e].secret = end[f].secret /\ end[e].id = end[f].id
                          /\ end[e].transport = end[f].transport
                          /\ ~end[e].bad
    BY DEF EndsAgree
  <2>1. /\ end[e].remote \in Ends /\ Paired(e, end[e].remote) /\ end[e].id # 0
        /\ ~end[e].bad
    BY DEF ConnectInv, EndOK
  <2> QED  BY <2>1, PairAgrees
<1> QED  BY <1>1, Invariant, PTL

\* An end takes one secret, and no other end of its side has the same: a key and
\* number that encrypt a packet do so once, whatever the connection ids are.
THEOREM ConnectNonceUsedOnce == ConnectSpec => []NonceUsedOnce
<1>1. ConnectInv => NonceUsedOnce
  <2> SUFFICES ASSUME ConnectInv, NEW d \in Ends, NEW e \in Ends,
                      end[d].sent > 0, end[e].sent > 0, SendKey(d) = SendKey(e)
               PROVE  d = e
    BY DEF NonceUsedOnce
  <2>1. end[d].id # 0 /\ end[e].id # 0  BY DEF ConnectInv, CallOK, AnswerOK, Ends
  <2>2. /\ end[d].secret = end[e].secret
        /\ d \in Calls <=> e \in Calls
    <3>1. "c2a" # "a2c"  OBVIOUS
    <3> QED  BY <3>1 DEF SendKey, DirectionKey
  <2>3. CASE d \in Calls
    BY <2>1, <2>2, <2>3, EndFacts DEF ConnectInv, CallOK
  <2>4. CASE d \in Answers
    BY <2>1, <2>2, <2>4, EndFacts DEF ConnectInv, AnswerOK, Ends
  <2> QED  BY <2>3, <2>4 DEF Ends
<1> QED  BY <1>1, Invariant, PTL

\* The handler fetches the roster after the call was made and before it looks at the
\* request, so a node that was revoked when the call was made gets no answer.
THEOREM ConnectRevokedStayOut == ConnectSpec => []RevokedStayOut
<1>1. ConnectInv => RevokedStayOut
  BY DEF ConnectInv, AnswerOK, RevokedStayOut
<1> QED  BY <1>1, Invariant, PTL
=============================================================================
