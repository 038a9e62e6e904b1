--------------------------- MODULE ConnectionPool ---------------------------
(***************************************************************************)
(* ConnectionPool of wconnect/src/proxy_common.rs: the QUIC connections    *)
(* that the client connections of a proxy share, and the background task   *)
(* that drops the idle ones.                                               *)
(*                                                                         *)
(* An entry holds a tokio OnceCell.  The first caller to get the cell's    *)
(* permit connects; the others wait for the value, or for the permit if    *)
(* the connecting caller fails or is cancelled by its REQUEST_TIMEOUT.     *)
(* The mutex of the map is never held across an await, so what is done     *)
(* under it is one step.                                                   *)
(*                                                                         *)
(* Cells are numbered in the order in which they are made.  A cell that    *)
(* has left the map lives on in the callers that have cloned it; a stream  *)
(* does not keep its connection.                                           *)
(***************************************************************************)
EXTENDS Naturals, FiniteSets

CONSTANTS
    Tasks,      \* client connections of the proxy
    Targets,    \* node numbers they ask for
    MaxCells    \* bound on the cells ever made

ASSUME PoolAssumption == MaxCells \in Nat \ {0} /\ 0 \notin Targets /\ "free" \notin Tasks

VARIABLES
    pool,       \* pool[n]: the cell in target n's entry, 0 if there is no entry
    idle,       \* targets whose entry was last used IDLE_TIMEOUT ago
    cells,      \* cells[i]: who connects, and the connection's state
    made,       \* number of cells made
    caller      \* caller[k]: task k's call of open_stream

poolVars == <<pool, idle, cells, made, caller>>

Cells == 1..MaxCells
NewCell == [permit |-> "free", conn |-> "none"]
NotCalling == [pc |-> "idle", target |-> 0, cell |-> 0, first |-> 0, result |-> "none"]

PoolInit ==
    /\ pool = [n \in Targets |-> 0] /\ idle = {}
    /\ cells = [i \in Cells |-> NewCell] /\ made = 0
    /\ caller = [k \in Tasks |-> NotCalling]

-----------------------------------------------------------------------------
(* open_stream *)

CallOpenStream(k, n) ==
    /\ caller[k].pc = "idle"
    /\ caller' = [caller EXCEPT ![k] = [NotCalling EXCEPT !.pc = "lookup", !.target = n]]
    /\ UNCHANGED <<pool, idle, cells, made>>

\* The map is locked: the entry is found or made, and marked as used.
Lookup(k) ==
    /\ caller[k].pc = "lookup"
    /\ LET n == caller[k].target
           cell == IF pool[n] # 0 THEN pool[n] ELSE made + 1
       IN  /\ cell =< MaxCells
           /\ pool' = [pool EXCEPT ![n] = cell]
           /\ made' = IF pool[n] # 0 THEN made ELSE cell
           /\ idle' = idle \ {n}
           /\ caller' = [caller EXCEPT ![k].pc = "cell", ![k].cell = cell]
    /\ UNCHANGED cells

\* get_or_try_init: the value is there, or this caller gets the permit.
GetOrInit(k) ==
    /\ caller[k].pc = "cell"
    /\ LET i == caller[k].cell
       IN  \/ /\ cells[i].conn # "none"
              /\ caller' = [caller EXCEPT ![k].pc = "open"]
              /\ UNCHANGED cells
           \/ /\ cells[i] = NewCell
              /\ caller' = [caller EXCEPT ![k].pc = "connect"]
              /\ cells' = [cells EXCEPT ![i].permit = k]
    /\ UNCHANGED <<pool, idle, made>>

\* connect_quic succeeds, or the error is returned and the permit given back:
\* the cell stays in the map, empty.
ConnectQuic(k) ==
    /\ caller[k].pc = "connect"
    /\ LET i == caller[k].cell
       IN  \/ /\ cells' = [cells EXCEPT ![i] = [permit |-> "free", conn |-> "live"]]
              /\ caller' = [caller EXCEPT ![k].pc = "open"]
           \/ /\ cells' = [cells EXCEPT ![i] = NewCell]
              /\ caller' = [caller EXCEPT ![k].pc = "returned", ![k].result = "Connect"]
    /\ UNCHANGED <<pool, idle, made>>

\* conn.open_stream fails if the connection is dead, and waits for credit else.
OpenOnConnection(k) ==
    /\ caller[k].pc = "open"
    /\ caller' = [caller EXCEPT ![k] =
            IF cells[caller[k].cell].conn = "live"
            THEN [@ EXCEPT !.pc = "streaming", !.result = "stream"]
            ELSE [@ EXCEPT !.pc = "evict"]]
    /\ UNCHANGED <<pool, idle, cells, made>>

AfterEviction(k) ==
    IF caller[k].first = 0
    THEN [caller[k] EXCEPT !.pc = "lookup", !.first = caller[k].cell]
    ELSE [caller[k] EXCEPT !.pc = "returned", !.result = "Stream"]

\* Mutant: whatever is in the map now is removed.
EvictAny(k) ==
    /\ caller[k].pc = "evict"
    /\ pool' = [pool EXCEPT ![caller[k].target] = 0]
    /\ caller' = [caller EXCEPT ![k] = AfterEviction(k)]
    /\ UNCHANGED <<idle, cells, made>>

\* The map is locked: the entry is removed if it still holds the cell that
\* failed (Arc::ptr_eq).  One retry, then the error.
Evict(k) ==
    /\ caller[k].pc = "evict"
    /\ LET n == caller[k].target
       IN  pool' = [pool EXCEPT ![n] = IF @ = caller[k].cell THEN 0 ELSE @]
    /\ caller' = [caller EXCEPT ![k] = AfterEviction(k)]
    /\ UNCHANGED <<idle, cells, made>>

\* REQUEST_TIMEOUT drops the future of open_stream at whatever await it is; a
\* connection attempt goes with it and its permit is released.
TimeOut(k) ==
    /\ caller[k].pc \in {"lookup", "cell", "connect", "open", "evict"}
    /\ caller' = [caller EXCEPT ![k].pc = "returned", ![k].result = "timeout"]
    /\ cells' = IF caller[k].pc = "connect"
                THEN [cells EXCEPT ![caller[k].cell] = NewCell] ELSE cells
    /\ UNCHANGED <<pool, idle, made>>

\* The client is served or told of the error, and goes or asks again.
Served(k) ==
    /\ caller[k].pc \in {"streaming", "returned"}
    /\ caller' = [caller EXCEPT ![k] = NotCalling]
    /\ UNCHANGED <<pool, idle, cells, made>>

-----------------------------------------------------------------------------
(* Idle and dead connections *)

\* IDLE_TIMEOUT passes without a lookup of n.
GoesIdle(n) ==
    /\ pool[n] # 0 /\ n \notin idle
    /\ idle' = idle \cup {n}
    /\ UNCHANGED <<pool, cells, made, caller>>

\* Mutant: entries that are still connecting are dropped as well.
CleanupAll ==
    /\ idle # {}
    /\ pool' = [n \in Targets |-> IF n \in idle THEN 0 ELSE pool[n]]
    /\ idle' = {}
    /\ UNCHANGED <<cells, made, caller>>

\* cleanup_idle, every CLEANUP_INTERVAL: an idle entry goes, unless it is still
\* initialising.
CleanupIdle ==
    LET gone == {n \in idle : pool[n] # 0 /\ cells[pool[n]].conn # "none"}
    IN  /\ gone # {}
        /\ pool' = [n \in Targets |-> IF n \in gone THEN 0 ELSE pool[n]]
        /\ idle' = idle \ gone
        /\ UNCHANGED <<cells, made, caller>>

\* The peer closes, the transport fails, or the peer has been silent too long.
ConnectionDies(i) ==
    /\ cells[i].conn = "live"
    /\ cells' = [cells EXCEPT ![i].conn = "dead"]
    /\ UNCHANGED <<pool, idle, made, caller>>

-----------------------------------------------------------------------------
PoolStep(k) ==
    Lookup(k) \/ GetOrInit(k) \/ ConnectQuic(k) \/ OpenOnConnection(k) \/ Evict(k)

PoolNext ==
    \/ \E k \in Tasks :
        \/ \E n \in Targets : CallOpenStream(k, n)
        \/ PoolStep(k) \/ TimeOut(k) \/ Served(k)
    \/ \E n \in Targets : GoesIdle(n)
    \/ CleanupIdle
    \/ \E i \in Cells : ConnectionDies(i)

\* The pool on its own: nothing is promised about when its tasks run.
PoolSpec == PoolInit /\ [][PoolNext]_poolVars

-----------------------------------------------------------------------------
(* Properties *)

\* "This is single-flight": however callers, evictions, timeouts and the cleanup
\* interleave, at most one connection to a target is being established.
SingleFlight ==
    \A j, k \in Tasks :
        (/\ caller[j].pc = "connect" /\ caller[k].pc = "connect"
         /\ caller[j].target = caller[k].target) => j = k

\* A live connection is not lost to the next caller: only the cleanup takes it
\* out of the map, and only if its entry has been idle.  In particular a caller
\* that comes late with the news of a dead connection does not evict the one
\* that has replaced it.
KeepsLiveConnections ==
    [][\A n \in Targets :
        (pool[n] # 0 /\ pool'[n] # pool[n]) => cells[pool[n]].conn = "dead" \/ n \in idle]_poolVars

=============================================================================
