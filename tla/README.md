# Wispers Connect: TLA+ verification

Specifications of the client side of Wispers Connect: how nodes join, leave and
trust each other in a connectivity group, how they connect to each other through
a hub they do not trust, how they talk over QUIC once they are connected, and how
the programs around the library (the `wconnect` daemon and proxies, the C
interface) drive it. Every definition is translated from the Rust sources under `src/`;
`PROJECT.json` maps each one to its lines. Paths below are relative to `src/`.

## The system

A *node* is an application instance with a key pair and a number. The nodes of
one *connectivity group* share a *roster*: the signed list of members together
with the chain of activations and revocations that led to it. A *hub* (a service
outside this repository) assigns numbers, stores the roster and relays messages,
but is not trusted to say who is a member. Nodes then connect peer to peer.

| Component | Source | State | Operations |
|---|---|---|---|
| Endorsing state | `wispers-connect/src/serving.rs` | live activation codes with expiry, pending endorsements | generate code, `pair_nodes`, `roster_cosign` |
| Roster | `wispers-connect/src/roster.rs` | none (pure) | builders, signing hash, `verify_roster` |
| Node lifecycle | `wispers-connect/src/node.rs` | `Pending`/`Registered`/`Activated`/`Revoked`, registration, cached roster | restore, register, activate, start_serving, revoke, refresh, logout, peer lookup, connect |
| Serving session | `wispers-connect/src/serving.rs` | hub stream, endorsing state, queues of incoming connections | run/serve/reconnect, commands, requests from the hub |
| Hub client | `wispers-connect/src/hub.rs` | a channel | RPCs, error mapping |
| QUIC connection | `wispers-connect/src/quic.rs` | quiche connection under a lock, `shutdown`, `driver_exited`, two kinds of waiters | driver loop, handshake, ping, open/accept, read/write, close, drop |
| P2P establishment | `wispers-connect/src/p2p.rs`, `p2p_signing.rs` | ephemeral keys of one exchange | signed StartConnection request and answer |
| UDP cipher, RTT estimator | `encryption.rs`, `rtt.rs` | counter; sample window | encrypt/decrypt; record/estimate |
| ICE | `ice.rs`, `juice.rs` | libjuice agent, callbacks, channels | gather, connect, send, recv |
| Local storage | `storage/*.rs` | root key and registration files | load, save, delete |
| Connection pool | `wconnect/src/proxy_common.rs` | one cell per target node, with the time of its last use | open_stream, cleanup_idle |
| Proxies and forwarding | `wconnect/src/proxy_http.rs`, `proxy_socks.rs`, `p2p.rs`, `serving.rs` | two TCP connections and a QUIC stream | request, inner command, relay in both directions |
| Daemon, IPC | `wconnect/src/serving.rs`, `ipc.rs` | the published handle behind a lock, the local socket | serve, status, activation code, stop |
| C interface | `wispers-connect/src/ffi/*.rs` | handles | calls with callbacks into the above |
| Language wrappers, `wcadm` | `wrappers/`, `wcadm/` | none | marshalling; the hub's admin API |

**How they interact.** `Node::activate` talks through the hub to the *serving
session* of another node, which holds the endorsing state: a pairing
(`PairNodes`) proves knowledge of an activation code in both directions, then the
new node extends the roster, signs it and submits it; the hub asks the endorser
to cosign and stores the result. `revoke_node` and `logout` submit rosters from
the *cached* copy. A session holds its own copy of the registration, so it does
not notice what happens to the `Node` it was started from, and the other way
round. `connect_quic` produces a `Connection` whose driver task runs in the
background; every operation on the connection or its streams waits for
notifications of that driver. To get one, the caller sends a signed
`StartConnection` through the hub to the answerer's serving session, which checks
it, answers on its stream and spawns a task that completes the connection and
delivers it on a bounded channel. The daemon runs one session, takes those
connections, and serves every stream on them with a task that reads a command and
dials a target; the proxies on the other node open such streams from a pool of
connections. The C interface does the same for applications, with handles in
place of Rust's ownership.

**What is hard here.**
- The hub may replay, reorder, reflect, edit and roll back whatever passes through it.
- Every operation of `Node` is several calls to the hub; other nodes act between
  them, and a call can fail after it took effect. Decisions are taken on cached
  rosters, and only the hub's version check orders them.
- A device can stop between any two of those steps; only the registration persists.
- The driver, the waiting tasks, `close` and `drop` interleave freely; a
  notification given before a waiter is armed is lost, and once the driver is
  gone nobody wakes anybody.
- The serving session awaits one thing at a time, in bounded channels, while the
  hub breaks its stream, callers send commands and the last handle may be dropped.
- Both directions of a forwarded connection close on their own, a task drops its
  stream before its peer has read everything, and errors, timeouts and clean ends
  all have to be told apart over a protocol with four words.
- C callers free handles while tasks still work for them.
- Two limits are enforced in one place and relied upon in others: the number of
  live activations, and "not the last active node".

`PROJECT.json` lists each of these at its line under `hazards`, with the property
that would notice it going wrong, or the reason why none does.

## The modules

| Module | Models |
|---|---|
| `Endorsing` | `EndorsingState`: codes, pairing, cosigning, with a hub that repeats, reorders and misdirects messages |
| `EndorsingProofs` | its theorems |
| `Roster` | the roster, its builders, its signing hash, and `verify_roster` as a walk over the addenda |
| `RosterChain` | nodes that extend the roster and a hub that edits, forges and rolls back what it shows; the reference definition of a legitimate roster |
| `RosterChainProofs` | its theorems, and the lemmas about `verify_roster`'s walk |
| `Group` | what a roster says about membership, once verified |
| `GroupMembership` | the abstract specification: what the roster protocol promises |
| `Membership` | `Node`, its storage, its serving session and the hub, with crashes, lost answers, timeouts and failing storage |
| `MembershipProofs` | the theorems of `GroupMembership` and `Membership`, the refinement among them |
| `QuicDriver` | `driver_loop`, the waiting operations of `Connection` and `Stream`, close, drop and transport loss |
| `QuicDriverProofs` | its theorems |
| `ServingSession` | `run`, `serve`, `reconnect`, the command, response and incoming channels |
| `Daemon` | `wconnect serve` and its local socket, around a `ServingSession` |
| `FfiServing` | the C interface to a `ServingSession` |
| `ServingProofs` | the theorems about the session in both programs |
| `FfiNode` | calls of the C interface on a node, its connections and streams, and the ownership of their handles |
| `AtomicNode` | the abstract specification: calls on one node take effect at once, one at a time |
| `FfiNodeProofs` | the theorems of `FfiNode`, the refinement of `AtomicNode` among them |
| `PeerConnection` | `connect_udp` and `connect_quic` against `handle_start_connection_request`, with ICE, the handshake and the packet cipher |
| `PeerConnectionProofs` | its theorems |
| `ConnectionPool` | the pool the proxies share |
| `Forwarding` | one forwarded connection from the application to the target, through both nodes |
| `ProxyProofs` | the theorems of `ConnectionPool` |
| `MC*` | instances for TLC |

`Membership` extends `GroupMembership` and `Roster`'s abstraction `Group`;
`Daemon` and `FfiServing` extend `ServingSession` and are composed in `MCServing`;
`MCProxy` puts `ConnectionPool` and `Forwarding` side by side.

### Endorsing

`pairing_secrets` and `pending_endorsements` are the fields of `EndorsingState`;
`now` is the clock. `sent` is every message the hub has seen, and each can be
delivered at any time and any number of times, the endorser's own replies
included. `paired` and `cosigned` are histories that only the properties read.
Actions: `GenerateActivationCode` and `RefuseActivationCode`
(`generate_activation_code_with_ttl`), `PairNodes` and `RejectPairNodes`
(`pair_nodes`; both prune expired codes), `RosterCosign`; `SendPairNodes` and
`Tick` are the environment. A MAC is the secret it was computed with: the hub
cannot make one. `RosterCosign` is offered every roster the hub could present: of its
latest addendum what the code reads, and also the number it `activates`, which the
code does not read. `roster_cosign` finds the pending endorsement by the number in the
request and compares its nonces, the endorser's number and the two keys in the nodes
list (`serving.rs:272-313`), but never the number that the addendum activates, and it
does not verify the roster underneath.

### Roster and RosterChain

Cryptography is symbolic: the hash of a roster is the roster itself (with the
latest signatures cleared, as the code does), a signature is a pair of key and
roster. `VerifyRoster` is the forward walk of `verify_roster`: `Advance` is one turn
of its loop, and the recursive function `Walks` gives the reconstructed roster and
the active keys after each addendum.

In `RosterChain`, `hub` is the roster the hub shows. It may show any roster it has
been given (`kept`), none, or one it has edited (`Edit`: entries and addenda dropped,
repeated, moved or rewritten, its own key swapped in, signatures moved around,
additions signed with its own key). `pairings` are the agreements of `pair_nodes`,
each standing for its two nonces; `signed` is every signature a node gave. The nodes
act on what they are shown after exactly the checks their code makes: `Activate` and
`Revoke` verify the roster they add to, as `Node::activate` and `revoke_node` do;
`RosterCosign` compares what `roster_cosign` compares and nothing else. `Legitimate`
says, without a walk, what a genuine roster is; it is written independently of
`VerifyRoster`.

**What cosigning does not check.** Since `roster_cosign` does not look at whom the
addendum activates, a signature vouches for a pairing's nonces and listed key, not
for the activation of the paired node. For a node that is not in the roster yet the
difference does not matter: the addendum that lists its key is its own, and carries
its signature. A node that is in the roster and pairs once more, because its
activation was never answered, leaves nonces under which an addendum for another
node can be cosigned. `OneSignaturePerPairing` and `MembersAcceptOnlySigned` are
stated with that limit, and the theorem shows that it is the only one.

### Group, GroupMembership, Membership

A verified roster is determined by its addenda, so here it is the sequence `log`
of changes. `GroupMembership` is the promise: two nodes found the group, a member
brings in a node that was never listed, a member removes another, a member leaves
if others remain.

In `Membership`, `node[d]`, `disk[d]`, `session[d]` and `op[d]` are a device's
`Node`, its stored registration, its serving session and the operation in
progress. Each call to the hub is a step: `StartActivation`, `Pair`,
`SubmitActivation`, `CosignAtEndorser`, `StoreRoster`, `FinishActivation` for
`activate`; `StartLogout`, `ContinueLogout`, `Deregister`, `FinishLogout` for
`logout`; and so on. `Fail` loses an answer or times out (the hub may go on
working on the call), or fails a save or delete with or without effect; `Crash`
loses what is in memory; `RemoveNode` is a removal at the hub's side. Methods that
take `&mut self` exclude each other and a pending peer lookup (`Exclusive`), those
that take `&self` do not. The hub is external and is modelled from the client's
use of it.

### QuicDriver

One `op[t]` per application task: the operation, where it is in the code and
whether its notification fired. `Armed` says from where to where a notification
counts (`notified().enable()`, or a waker in `poll_wakers`). The driver's steps
follow the loop: look at `shutdown`, flush, look at `is_closed`, select (packet,
error, timeout, keepalive), notify; after the loop set `driver_exited`, then
notify. `supply` stands for what quiche can give to which task; `phase` and
`established` are quiche's. `Connection::drop` requests an abort, which takes
effect at one of the loop's awaits and skips the code after the loop.

### ServingSession, Daemon, FfiServing

`ServingSession` has no specification of its own: the program that embeds it
creates it, calls its handle and takes its connections. `phase` is where `run` is:
`serving` in `serve`'s `select!`, `connecting` and `waiting` in `reconnect`. `inHand`
is the request whose handler is at one of its awaits (`FetchRoster`, `Respond`,
`RespondFails`), during which the session neither takes commands nor notices a
broken stream. `epoch` numbers the streams, so that `answers` can record on which
stream a request came and on which it was answered. `Listens` says where commands
are taken, `DispatchReply` and `DispatchBreak` what they do; `AttemptFails` doubles
the back-off, `Reconnected` resets it, `AttemptRefused` and `Unauthenticated` end
the session. `tasks` are the spawned tasks that complete incoming connections; they
hold senders of `incoming`, so `Closed` asks for both the session and them to be
gone.

`Daemon` adds the task that opens the session, the main loop, and per client of the
local socket the task that answers it. `handle_state` is tokio's fair `RwLock`, a
`queue` of those that wait and the set of `readers`; a client's task keeps its read
guard across the session's answer. `FfiServing` has one action per entry point of
`ffi/serving.rs` and one per callback; the application frees its three handles in
any order at any time.

**A lock-up at startup.** `connect_task` publishes the handle, and the main loop
publishes it again (`wconnect/src/serving.rs:148`) before it spawns `run`. A request
that takes the read guard between the two waits for a session that is not running,
and the main loop waits for its guard: neither moves again, and every later request
queues behind the waiting writer. The comment at line 79 ("Start IPC server first
(so it's available while connecting to hub)") promises otherwise.
`RequestsServedOnceRunning` and `StopStops` are therefore stated for a session that
runs.

### FfiNode, AtomicNode

A row of `EntryPoint` says of every asynchronous function which handle it needs,
whether its task keeps a clone, the handle itself or the caller's pointer, what
handle its callback gives, and whether it holds the node's mutex until after the
callback. The actions are the call (`Invoke`, `Refuse`), the mutex (`Enter`), the
end of the operation (`Finish`, `FinishOnConnection`), the callback (`Report`) and
`Free`. What the operations do with hub and store is `Membership`'s matter; here
they end well or not. The header's contract is assumed of the application: it does
not give back a connection or stream while a call on it is in flight, nor a node
while it is inside the blocking `wispers_node_state`.

### PeerConnection

An *end* is one call, or one request handled by a node; its X25519 key is fresh, so
a pair of ends stands for the secret they share and an end for its ICE
description. `ReceiveRequest` lets the hub give any request to any node, again and
late, and name any caller; `ReceiveResponse` lets it return any answer. What each
side then checks is `VerifyRequest` and `VerifyResponse`. The roster is the one
`Membership` and `RosterChain` are about; here it is the set of nodes that are not
revoked, of which a caller may hold an older copy. libjuice connects two agents
only if each was given the other's description (`Paired`). Keys of packets are
terms over the secret, the connection id and the direction.

### ConnectionPool, Forwarding

A cell is a tokio `OnceCell` with its permit; steps are what is done between two
awaits, and `TimeOut` drops the future of `open_stream` at any of them.

In `Forwarding` a channel is a sequence of units of data, pieces of the inner
protocol's lines and an end. A line is written as two or three pieces (`"FORWARD"`
and `"EOL"`; `"O"`, `"K"` and `"EOL"`), and a read takes some prefix of what is there:
a part of a line, all of it, or a line with the data behind it. `Tears` counts the
lines that a read took in part; `torn` remembers what became of them and `lost` how
many units a read took and threw away, for the properties only. Front ends differ in
what they read before (`HttpReadRequest`, `SocksReadGreeting` and `SocksReadRequest`,
`StartForward`) and share the rest; the repository has five copies of the relay loop,
and the map names one of them for each definition. The write of a ping, or of an HTTP
request, and the `finish` behind it are two awaits and two steps (`FinishSending`).
`Drain` is `drain_pending_shutdown`: on the serving side it runs with every packet, on
the proxy's side when somebody opens another stream. A write is one step: that
`write_all` can block on flow control, and then forever, is `QuicDriver`'s subject.

**What the first reads do.** Four places take one read for a whole message, and the
model follows them:
- `handle_quic_stream` (`wconnect/src/serving.rs:300-319`) takes a line without a
  newline for the whole command. Cut within the port or the host it dials another
  destination, and the rest of the line goes to the target as data
  (`ReadCommand`, `MayDialElsewhere`).
- `send_command` (`proxy_common.rs:257-267`) takes its only read for the whole answer: a
  part of `OK`, or `OK` with words of a target that speaks first, is a refusal although
  the target was dialled; white space behind `OK` is trimmed off and lost; and if `OK`
  came without its newline the newline is relayed (`IsOk`, `Cut`, `ReadVerdict`).
- `read_request_bytes` (`proxy_http.rs:301-345`) reads until it has a head; what came
  with it, a body or the first data for a tunnel, is dropped, and `build_http_request`
  sends the head alone (`HttpReadRequest`, `Accepted`). On a connection kept alive, a
  body that comes later is read as the next request.
- `handle_auth` of the SOCKS proxy drops what came with the greeting, the request
  included if it came at once (`SocksReadGreeting`).

## What TLC checks

| Run | Instance | Result |
|---|---|---|
| `endorsing` | 2 joiners, limit 2, 3 codes, lifetimes 1 and 2, clock to 2, 4 nonces | holds; about 210,000 states |
| `roster_chain` | 3 nodes, version 3, 2 pairings, 5 signatures, 1 edit | holds; about 250,000 states |
| `membership` | 2 devices from nothing, 3 numbers, 3 versions, 2 activations, 1 fault | holds; about 930,000 states |
| `membership_three` | 3 devices in a founded group, 3 numbers, 4 versions, 2 activations, no fault | holds; about 340,000 states |
| `logout_of_a_member` | the instance of `membership` | **violated**, see findings |
| `quic_driver` | 1 task, all eight operations | holds; about 24,000 states |
| `quic_writer` | 1 task, `write_all` | **violated**, see findings |
| `quic_dropped` | 1 task, `read` | **violated**, see findings |
| `serving` | 1 caller, 1 acceptor, 1 request, 1 broken stream, all channels of capacity 1, back-off from 1 to 2 | holds; about 126,000 states |
| `ffi` | 2 calls in flight, of any of the 20 functions | holds; about 124,000 states |
| `proxy` | 2 clients, 1 target, 3 cells; and 1 forwarded connection with 2 units of data each way, 1 failure, 1 line read in part, five pairs of a front end and a policy | holds; about 1,020,000 states |
| `connect` | 2 nodes, 2 calls, 2 answers, 1 packet per end, 1 failure, revocation or restart | holds; about 878,000 states |

**endorsing.** A code pairs at most once (`CodesAreSingleUse`) and only before it
expires (`PairsOnlyBeforeExpiry`); codes plus pending cosigns stay within
`MAX_ACTIVE_ACTIVATIONS` although `pair_nodes` adds an entry without looking at
the limit (`WithinCapacity`); a reflected reply never makes the endorser endorse
itself (`NeverPairsWithItself`, left to its theorem); every signature uses up a
pairing, whose nonces the addendum carries and whose key the roster lists
(`OneSignaturePerPairing`; not that the addendum activates the paired node), and
always the latest one of its node (`SignsLatestPairing`). Three codes against a limit of
two, and two lifetimes, let a code expire, be refused, be replaced and be shared
by both joiners; four nonces are two complete pairings.

**roster_chain.** `VerifyMatchesHistory`: on every roster reached, `verify_roster`
answers what the reference definition says, for every caller.
`MembersAcceptOnlySigned`: what a member accepts was signed step by step by the nodes
it names, each activation after a pairing of the two, or else the first step that was
not carries the nonces of a pairing of a node that was in the roster already.
`VerifiedKeysAreActive`: the keys returned are those of the active
nodes. Three versions over three nodes contain every pair of consecutive kinds of
addenda (bootstrap, activation, revocation, a second revocation, a revocation by a
node that was just activated). Two pairings and five signatures are a bootstrap and an
activation, or a bootstrap and a second pairing of the same node, with one signature
left for a branch. Several edits, which could compensate each other, are beyond this
bound and left to the theorems.

**membership, membership_three.** `RefinesGroupMembership`: with clients that act on
stale copies, time out and start again, the roster at the hub only takes the steps
of `GroupMembership`. `NeverEmpty` and `OneLife` are checked on the detailed
specification itself in the founded group: two members that log out at the same
time do not empty it, and no number is activated or revoked twice. `CacheIsHistory`:
what an activated node caches is a roster the group really had. `RevokedIsRetired`:
`Revoked` is final. `LogoutIsComplete`: when logout wipes the local state, the number
is deregistered, and retired if the node was `Activated`, whatever failed on the
way. Two devices and three numbers let a device leave and come back under a new
number; one fault is enough for every error path to be taken once, at every point.
Three devices are the least with which one node's change overtakes another's.
`CacheIsHistory` is stated for the founded instance, where concurrent changes
happen.

**quic_driver.** `NoLostWakeup`: a waiting task has a notification, or one is
coming, whenever there is something for it. `NobodyWaitsForTheGone`: after a
regular exit of the driver nobody is left waiting except `write_all`.
`OperationsReturn`: an operation returns once the driver exits, and
`ShutdownEndsDriver`: once `shutdown` is set the driver ends. One task is enough
for TLC because tasks meet only in the driver; the theorems hold for any number.

**serving.** `AnswersOnSameStream`: no answer goes to another stream than its
request, and none twice, although the stream can break during the roster fetch or
while the response channel is full. `RequestsServedOnceRunning` and `StopStops`:
commands are answered, and a shutdown ends the daemon, whether the session serves,
connects or waits. `AbandonedSessionEnds`: a session nobody can reach ends.
`ClosedIsFinal` and `AcceptsEnd`: an accept learns of the end of the session, and
not before the last connection is delivered. Channels of capacity one are full as
soon as one element is in them, which is when things block; one break gives two
streams to confuse. A second caller changes nothing but the size: callers meet only
in the command channel and in the lock, where the connector and the main loop
compete with the one there is.

**ffi.** `RefinesAtomicNode`: two overlapping calls have the answers and effects of
one after the other. `NoDanglingUse`: a node may be freed or logged out under calls
in flight. `NodeCallsReport`: whatever waits for the mutex, each call is called
back. Two calls are enough for every order of two holders of the mutex.

**proxy.** `SingleFlight`: one connection attempt per target at a time, across
evictions, timeouts and cleanups. `KeepsLiveConnections`: late news of a dead
connection does not evict its replacement. Three cells let a connection die, be
replaced, and die again, with both clients holding different generations.
`ToldTheTruth`: the application's answer agrees with what happened at the target. A
success means that something was dialled which the serving node allows, and, unless the
command was cut within its destination, what was asked for; a refusal delivers nothing
of the application's; and if every line arrived whole, nothing was dialled then either
(the exceptions, a target that speaks first and a ping stopped before its `finish`, are
named in the property). `EofMeansAll`: what arrives is what was sent, in order, from
where the first reads stopped throwing away, with nothing of the protocol in it but
the rest of a line read in part; and an end without a failure means that nothing
behind that is missing, or for a plain HTTP request that its head has arrived, and
never its body. `StreamsReleased`: the serving task does not outlive its client. Two
units each way are one that is thrown away or comes before a half-close, and one
after. One line read in part is the command or the answer; together they would only
add their effects. A failure is a timeout, an abort or the loss of the connection:
`REQUEST_TIMEOUT` is one, because its thirty seconds (`proxy_http.rs:262`) cut off a
tunnel in use and not only its setup. The five pairs are those in which the policy
makes a difference to what the front end asks for.

**connect.** `EndsAgree`: an end that is ready has exactly one peer, at the node it
believes in, with the same secret, id and transport, although neither side checks
everything it could and the hub picks who gets what. `NonceUsedOnce`: no key and
number are used twice, although connection ids restart with each session and a
request may be answered twice. `RevokedStayOut`: a call made when one of its ends
was revoked already comes to nothing, although the caller does not ask the hub.
Two calls and two answers are the least for crossed calls, swapped responses and
one request answered twice; a third node would only add a misdelivery that the
signatures refuse in the same way.

Each property has a mutant in `PROJECT.json`: a definition with a plausible
mistake (a dropped guard, an off-by-one, a reset that is missing), under which
TLC finds the property violated.

Deadlock checking is off where the bounds make a behaviour end, or where the
system may really come to rest. Symmetry is used over interchangeable nodes and
devices in the safety runs only; `membership_three` fixes founders, so it has
none.

**Fairness.** The basis is everywhere that the async runtime polls tasks that are
ready; no packet, call, close, drop, crash or loss need ever happen.
- `QuicDriver`: weak fairness of the driver's steps (its `select` always has a
  timer), of each task's own steps and of a `close` that has begun.
- `SessionFairness`: weak fairness of the steps that end an await on the hub (it
  answers, refuses or the call fails) and of the spawned tasks; strong fairness of
  taking a command, of sending one, and of noticing a request or a broken stream,
  because those compete: tokio's channels serve senders in order, and `select!`
  picks among its ready branches at random.
- `DaemonFairness`, `FfiFairness`: each task's own steps; a client that has
  connected sends its request, and the main loop passes over no ready branch
  forever. The lock is fair by its queue, not by an assumption.
- `FfiNode`: each call's next step; an operation on the hub ends.
- `ForwardingFairness`: each task's own loops; and an application or a target that
  has seen the end of the data closes in turn. Without that a relay may stay half
  open for good, in the model and in the code.

## What is proved

TLAPS checks these for every value of the constants that meets the named
assumptions; `PROJECT.json` lists the theorems.

- **`EndorsingProofs`** (from `EndorsingAssumption`): all seven properties of the
  `endorsing` run, for any joiners, limit, lifetimes and bounds. The inductive
  invariant `EndorsingInv` adds to them: a live code has not been paired with
  (`LiveCodesUnused`); every reply the endorser has sent is MACed with a code that
  is used up (`RepliesRedeemed`, which is why a reflected reply is refused); the
  nonces drawn for pairings are distinct and already drawn (`PairingNonces`);
  a pending endorsement is its node's latest pairing (`PendingIsLatest`) and has
  not been signed for (`PendingUnsigned`). `WithinCapacity` needs the step where
  `pair_nodes` removes a code for the entry it adds.
- **`RosterChainProofs`** (from `RosterChainAssumption`): `VerifyMatchesHistory`,
  `MembersAcceptOnlySigned` and `VerifiedKeysAreActive` for any nodes, any length of
  the chain and any number of pairings, signatures and edits. `ChainInv` is what the
  hub cannot get around: a roster it shows holds no signature of a node that the node
  did not give (`Unforged`), and a node's signature under an activation says what the
  node had checked (`SignatureFact`): a joining node signs only its own activation, in a
  roster that lists its endorser with the endorser's key, and an endorser only under the
  nonces of a pairing of its own whose node the roster lists with its key. Of the
  number that is activated and of the roster underneath it says nothing, because the
  endorser does not look at them. A walk can say that signatures match the keys the roster lists, not who
  made them; `MembersAcceptOnlySigned` follows from both by induction over the
  addenda. After each turn either everybody listed has the node's own key and every
  step was signed by the nodes it names (`Clean`), or a step went astray under the
  nonces of a second pairing (`Astray`), or nobody listed has a node's key (`Alien`):
  a roster that began without the nodes stays without them, because nobody in it has
  a node's signature to give. A verifier that finds its own key is not in the
  last case. The other half is about the walk alone: a walk that is not refused has
  rebuilt at every turn what was signed then (`AsSigned`), lists who was introduced and
  holds the keys of who is active; and it is refused unless each step is legitimate.
  These inductions are done on the set of turns for which the claim holds
  (`SetInduction`), which needs no operator as a parameter.
- **`QuicDriverProofs`** (from `QuicDriverAssumption`): `NoLostWakeup` and
  `NobodyWaitsForTheGone` for any number of tasks. The inductive invariant adds
  that the exit flag is up before the final notification (`FlagFirst`), which
  operations can be at which place (`Places`), that whoever is past its look at
  the connection has a notification coming if it missed something
  (`WakeupComing`), and that whoever is past its look at the flag is notified if
  the driver has gone since (`ExitSeen`).
- **`MembershipProofs`** (from `MembershipAssumption` and `GroupAssumption`): of the
  abstract group, `NeverEmpty` and `OneLife` for any numbers and any bound; of the
  devices,
  `RefinesGroupMembership`, `TypeOK`, `CacheIsHistory`, `RevokedIsRetired` and
  `LogoutIsComplete` for any devices, numbers, versions and faults; and
  `NeverEmpty` and `OneLife` of the detailed specification, which follow from the
  refinement and the theorems about the group (`MembershipKeepsGroup`).
  `MembershipInv` says of every device what its node, its pending lookup and its
  operation know of the hub. Every roster that is cached, fetched or built upon is a
  prefix of the stored one; so a request that passes the hub's version check was built
  on just that roster, and what the client checked on its copy holds of the hub's. The second half is what cannot become false again: a retired
  number stays retired, a deregistered one stays so, and no number changes its
  owner, so an answer that arrives late is still true. Two action properties follow,
  which no run lists: a node keeps its standing while it keeps its number
  (`MembershipKeepsStanding`: no refresh turns an `Activated` node back into a
  `Registered` one, because the cached roster is a prefix of the hub's), and a cached
  roster is replaced by an older one at the end of `revoke_node` or
  `find_peer_in_roster` only (`MembershipCacheGoesBack`).
- **`PeerConnectionProofs`** (from `PeerConnectionAssumption`): `EndsAgree`,
  `NonceUsedOnce` and `RevokedStayOut` for any nodes, calls, answers, packets and
  faults. `ConnectInv` has a part for the calls, one for the answers and one for
  connected ends. What an end takes from a message is true of its sender when the
  message is verified; it remains true because an end with an agent never changes
  its node, peer, transport or roster, and takes id, secret and remote end once
  (`Follows`). That pairs have equal secrets then makes them each other's only
  partner.
- **`FfiNodeProofs`** (from `FfiNodeAssumption`): `TypeOK`,
  `NoDanglingUse` and `RefinesAtomicNode` for any number of calls in flight. A call
  inside the node holds the mutex and still finds the state it was let in with
  (`InsideHolds`), which makes its check, its hub calls and its assignment one
  effect; the rest ties a call's place to its queue entry and its answer.
- **`ProxyProofs`** (from `PoolAssumption`): `SingleFlight` and
  `KeepsLiveConnections` for any clients, targets and generations. Who connects has
  the permit of an empty cell (`PermitHeld`); an empty cell does not leave the map
  under those who wait for it (`EmptyCellsStay`); who evicts has seen its own cell
  dead, and a dead cell stays dead (`ConnectionSeen`).
- **`ServingProofs`** (from `SessionAssumption` and `DaemonAssumption`): `TypeOK` with
  every channel's capacity, `AnswersOnSameStream` and `ClosedIsFinal` for any
  callers, acceptors, capacities, requests and breaks, in the daemon and behind the
  C interface; and the action property `ClosedRemains`: no step of anybody lets a
  closed channel yield a connection again. The invariant says that nothing of one
  stream is left when the next opens (`StreamOK`, `HandOK`), that requests wait in
  the order of their ids after the one in hand and those answered (`RequestsOK`), and
  that a client is in the lock's queue at most once (`QueueOK`).

Each inductive invariant was checked by TLC on the instances of the table as well.
The constants' assumptions name what distinct things are distinct (a task is not
called `free`, a call not `nobody`) and which bounds are natural numbers; none
restricts what the code can do.

Only model-checked:
- the liveness properties, which rest on fairness and `ENABLED`, out of the prover's
  reach (the two refinements are of safety specifications and are proved in full);
- `ToldTheTruth` and `EofMeansAll` of `Forwarding`.

Every other invariant that a passing run checks, every action property among them and
both refinements are also stated by a theorem.

## Findings

1. `logout` (`wispers-connect/src/node.rs:1245`) deregisters a node that calls
   itself `Registered` on the grounds that it is "registered with the hub but not an active
   roster member". The endorser of the bootstrap roster becomes a member in its
   serving session without its `Node` noticing, and so does a node whose
   activation was stored while the answer was lost. Their logout leaves an active
   number behind that nobody owns. Run `logout_of_a_member`.
2. `write_all` (`quic.rs:976`) waits without looking at `driver_exited`, contrary
   to the comment on that field: blocked on flow control when the driver exits,
   it waits forever. `poll_write` does look. Run `quic_writer`.
3. `Connection::drop` (`quic.rs:839`) aborts the driver, which then neither sets
   `driver_exited` nor notifies; a `read` on a stream that outlives its
   `Connection` waits forever, contrary to the comment after the loop. Run
   `quic_dropped`.

## Not modelled

- Cryptography itself, encodings, formatting, logging; gRPC, quiche and libjuice,
  which appear as external steps.
- Argument parsing and printing of `wconnect` and `wcadm`, the Windows variant of the
  local socket (port file and password), daemonizing; the parsers of HTTP and SOCKS
  beyond the outcomes they can have; the UDP ping. A line of the inner protocol is cut
  at one place, not at several.
- The accessors and free functions for plain data in the C interface, its storage
  handle, and the language wrappers: marshalling.
- `analyze_group`, which computes a view and changes nothing; the RTT estimator, on
  whose value only the length of a delay depends.
- The file store: that its two files are written one after the other and in place,
  so that a crash in between leaves one of them. `Membership` has a save take effect
  or not.
- Stream ids and stream credit in `quic.rs`; a `write_all` blocked on flow control in
  `Forwarding`.
- The wrap of the packet counter, and replayed datagrams, which the receiver accepts.

## Plan

Done, in this order: `Endorsing` (the only place where an untrusted message
changes who is trusted), `Roster`/`RosterChain`, `Group`/`GroupMembership`/
`Membership`, `QuicDriver`; then `ServingSession` with `Daemon` and `FfiServing`,
`FfiNode`/`AtomicNode`, `ConnectionPool`, `Forwarding` and `PeerConnection`.

Modules that may follow: `NodeStore` (the two files and a crash between writes) and
`StreamTable` (ids and credit).
