---------------------------- MODULE ProxyProofs ----------------------------
(***************************************************************************)
(* The proxies' connection pool, for any number of clients, targets and    *)
(* generations of connections.                                             *)
(*                                                                         *)
(* The map is unlocked between a caller's steps, so what it knows of its   *)
(* cell must survive the others' steps: a cell that is still being         *)
(* initialised stays in the map, and a cell that failed stays failed.      *)
(***************************************************************************)
EXTENDS ConnectionPool, TLAPS

USE PoolAssumption

Cell == [permit : Tasks \cup {"free"}, conn : {"none", "live", "dead"}]
Caller == [pc : {"idle", "lookup", "cell", "connect", "open", "evict", "streaming",
                 "returned"},
           target : Targets \cup {0}, cell : Cells \cup {0}, first : Cells \cup {0},
           result : {"none", "stream", "Connect", "Stream", "timeout"}]

\* The variables have their types, and a caller that has begun has a target, a
\* caller that has looked it up a cell.
PoolTypeOK ==
    /\ pool \in [Targets -> Cells \cup {0}]
    /\ idle \subseteq Targets
    /\ cells \in [Cells -> Cell]
    /\ made \in 0..MaxCells
    /\ caller \in [Tasks -> Caller]
    /\ \A k \in Tasks :
        /\ caller[k].pc # "idle" => caller[k].target \in Targets
        /\ caller[k].pc \in {"cell", "connect", "open", "evict"} => caller[k].cell \in Cells

\* A caller that connects has the permit of its cell, which is empty.
PermitHeld ==
    \A k \in Tasks :
        caller[k].pc = "connect" =>
            cells[caller[k].cell].permit = k /\ cells[caller[k].cell].conn = "none"

\* A cell without a connection has not left the map under those who wait for it
\* or connect it: eviction and cleanup take connected cells only.
EmptyCellsStay ==
    \A k \in Tasks :
        (/\ caller[k].pc \in {"cell", "connect"}
         /\ cells[caller[k].cell].conn = "none")
            => pool[caller[k].target] = caller[k].cell

\* Who opens a stream found a connection; who evicts found it dead, and dead it is.
ConnectionSeen ==
    \A k \in Tasks :
        /\ caller[k].pc = "open" => cells[caller[k].cell].conn # "none"
        /\ caller[k].pc = "evict" => cells[caller[k].cell].conn = "dead"

PoolInv == PoolTypeOK /\ PermitHeld /\ EmptyCellsStay /\ ConnectionSeen

\* The invariant holds initially.
LEMMA InitInv == PoolInit => PoolInv
  BY DEF PoolInit, PoolInv, PoolTypeOK, PermitHeld, EmptyCellsStay, ConnectionSeen,
         Cells, Cell, Caller, NewCell, NotCalling

-----------------------------------------------------------------------------
(* The steps of a caller.  Each changes its own record only. *)

\* Starting to look up.
LEMMA CallInv ==
    ASSUME PoolInv, NEW k \in Tasks, NEW n \in Targets, CallOpenStream(k, n)
    PROVE  PoolInv'
<1> USE DEF CallOpenStream, NotCalling
<1>1. [NotCalling EXCEPT !.pc = "lookup", !.target = n] \in Caller
  BY DEF Caller, Cells
<1>2. /\ caller' \in [Tasks -> Caller]
      /\ caller'[k].pc = "lookup" /\ caller'[k].target = n
      /\ \A j \in Tasks \ {k} : caller'[j] = caller[j]
  BY <1>1 DEF PoolInv, PoolTypeOK
<1> QED
  BY <1>2 DEF PoolInv, PoolTypeOK, PermitHeld, EmptyCellsStay, ConnectionSeen

\* The entry that is found or made is the caller's cell; it never replaces another.
LEMMA LookupInv == ASSUME PoolInv, NEW k \in Tasks, Lookup(k) PROVE PoolInv'
<1> DEFINE n == caller[k].target
           cell == IF pool[n] # 0 THEN pool[n] ELSE made + 1
<1>1. /\ n \in Targets /\ cell \in Cells /\ n \in DOMAIN pool
      /\ caller[k] \in Caller
  BY DEF Lookup, PoolInv, PoolTypeOK, Cells
<1>2. /\ pool' = [pool EXCEPT ![n] = cell] /\ cells' = cells
      /\ made' = IF pool[n] # 0 THEN made ELSE cell
      /\ idle' = idle \ {n}
      /\ caller' = [caller EXCEPT ![k].pc = "cell", ![k].cell = cell]
  BY DEF Lookup
<1>3. pool[n] # 0 => pool[n] = cell  OBVIOUS
<1>4. made' \in 0..MaxCells  BY <1>1, <1>2 DEF PoolInv, PoolTypeOK, Cells
<1> DEFINE r == [caller[k] EXCEPT !.pc = "cell", !.cell = cell]
<1> HIDE DEF cell
<1>5. caller' = [caller EXCEPT ![k] = r]  BY <1>1, <1>2 DEF PoolInv, PoolTypeOK, Caller
<1>6. r \in Caller /\ r.pc = "cell" /\ r.cell = cell /\ r.target = n
  BY <1>1 DEF Caller
<1> HIDE DEF r
<1>7. /\ caller' \in [Tasks -> Caller] /\ caller'[k] = r
      /\ \A j \in Tasks \ {k} : caller'[j] = caller[j]
  BY <1>5, <1>6 DEF PoolInv, PoolTypeOK
<1>8. pool' \in [Targets -> Cells \cup {0}] /\ pool'[n] = cell
  BY <1>1, <1>2 DEF PoolInv, PoolTypeOK
<1>9. \A m \in Targets : pool[m] # 0 => pool'[m] = pool[m]
  BY <1>1, <1>2, <1>3 DEF PoolInv, PoolTypeOK
<1>10. PoolTypeOK'
  BY <1>1, <1>2, <1>4, <1>6, <1>7, <1>8 DEF PoolInv, PoolTypeOK
<1>11. PermitHeld' /\ ConnectionSeen'
  BY <1>2, <1>6, <1>7 DEF PoolInv, PermitHeld, ConnectionSeen
<1>12. EmptyCellsStay'
  <2> SUFFICES ASSUME NEW j \in Tasks, caller'[j].pc \in {"cell", "connect"},
                      cells'[caller'[j].cell].conn = "none"
               PROVE  pool'[caller'[j].target] = caller'[j].cell
    BY DEF EmptyCellsStay
  <2>1. CASE j = k  BY <1>6, <1>7, <1>8, <2>1
  <2>2. CASE j # k
    <3>1. caller'[j] = caller[j]  BY <1>7, <2>2
    <3>2. /\ pool[caller[j].target] = caller[j].cell
          /\ caller[j].target \in Targets /\ caller[j].cell \in Cells
      BY <1>2, <3>1 DEF PoolInv, PoolTypeOK, EmptyCellsStay
    <3> QED  BY <1>9, <3>1, <3>2 DEF Cells
  <2> QED  BY <2>1, <2>2
<1> QED  BY <1>10, <1>11, <1>12 DEF PoolInv

\* The permit of an empty cell goes to one caller.
LEMMA GetOrInitInv == ASSUME PoolInv, NEW k \in Tasks, GetOrInit(k) PROVE PoolInv'
<1> DEFINE i == caller[k].cell
<1>1. i \in Cells /\ caller[k] \in Caller /\ caller[k].pc = "cell"
  BY DEF GetOrInit, PoolInv, PoolTypeOK
<1>2. ASSUME NEW p \in {"open", "connect"}, caller' = [caller EXCEPT ![k].pc = p]
      PROVE  /\ caller' \in [Tasks -> Caller]
             /\ caller'[k].pc = p /\ caller'[k].cell = i
             /\ caller'[k].target = caller[k].target
             /\ \A j \in Tasks \ {k} : caller'[j] = caller[j]
  BY <1>1, <1>2 DEF PoolInv, PoolTypeOK, Caller
<1>3. CASE /\ cells[i].conn # "none" /\ caller' = [caller EXCEPT ![k].pc = "open"]
           /\ UNCHANGED cells
  BY <1>1, <1>2, <1>3
     DEF GetOrInit, PoolInv, PoolTypeOK, PermitHeld, EmptyCellsStay, ConnectionSeen
<1>4. CASE /\ cells[i] = NewCell /\ caller' = [caller EXCEPT ![k].pc = "connect"]
           /\ cells' = [cells EXCEPT ![i].permit = k]
  <2>1. /\ cells' \in [Cells -> Cell]
        /\ cells'[i].permit = k /\ cells'[i].conn = "none"
        /\ \A c \in Cells \ {i} : cells'[c] = cells[c]
    BY <1>1, <1>4 DEF PoolInv, PoolTypeOK, NewCell, Cell
  <2>2. \A j \in Tasks : caller[j].pc = "connect" => caller[j].cell # i
    BY <1>4 DEF PoolInv, PermitHeld, NewCell
  <2>3. cells[i].conn = "none"  BY <1>4 DEF NewCell
  <2> QED
    BY <1>1, <1>2, <1>4, <2>1, <2>2, <2>3
       DEF GetOrInit, PoolInv, PoolTypeOK, PermitHeld, EmptyCellsStay, ConnectionSeen
<1> QED  BY <1>3, <1>4 DEF GetOrInit

\* Whoever else is at the cell of a caller that connects waits there.
LEMMA ConnectorAlone ==
    ASSUME PoolInv, NEW k \in Tasks, caller[k].pc = "connect",
           NEW j \in Tasks \ {k}, caller[j].cell = caller[k].cell
    PROVE  caller[j].pc \notin {"connect", "open", "evict"}
  BY DEF PoolInv, PermitHeld, ConnectionSeen

\* The attempt succeeds or fails; either way the permit is free again.
LEMMA ConnectInv == ASSUME PoolInv, NEW k \in Tasks, ConnectQuic(k) PROVE PoolInv'
<1> DEFINE i == caller[k].cell
<1>1. /\ i \in Cells /\ caller[k] \in Caller /\ caller[k].pc = "connect"
      /\ caller[k].target \in Targets
      /\ cells[i].conn = "none"
  BY DEF ConnectQuic, PoolInv, PoolTypeOK, PermitHeld
<1>2. pool' = pool /\ idle' = idle /\ made' = made  BY DEF ConnectQuic
<1>3. PICK c \in Cell :
        /\ c.conn \in {"none", "live"} /\ cells' = [cells EXCEPT ![i] = c]
        /\ c.conn = "none" => caller'[k].pc = "returned"
        /\ caller'[k].pc = "open" => c.conn = "live"
  BY <1>1 DEF ConnectQuic, NewCell, Cell, PoolInv, PoolTypeOK, Caller
<1>4. /\ caller' \in [Tasks -> Caller]
      /\ caller'[k].pc \in {"open", "returned"}
      /\ caller'[k].cell = i /\ caller'[k].target = caller[k].target
      /\ \A j \in Tasks \ {k} : caller'[j] = caller[j]
  <2>1. CASE caller' = [caller EXCEPT ![k].pc = "open"]
    BY <1>1, <2>1 DEF PoolInv, PoolTypeOK, Caller
  <2>2. CASE caller' = [caller EXCEPT ![k].pc = "returned", ![k].result = "Connect"]
    <3> DEFINE r == [caller[k] EXCEPT !.pc = "returned", !.result = "Connect"]
    <3>1. r \in Caller /\ r.pc = "returned" /\ r.cell = i /\ r.target = caller[k].target
      BY <1>1 DEF Caller
    <3>2. caller' = [caller EXCEPT ![k] = r]  BY <2>2 DEF PoolInv, PoolTypeOK, Caller
    <3> HIDE DEF r
    <3> QED  BY <3>1, <3>2 DEF PoolInv, PoolTypeOK
  <2> QED  BY <2>1, <2>2 DEF ConnectQuic
<1>5. /\ cells' \in [Cells -> Cell] /\ cells'[i] = c
      /\ \A d \in Cells \ {i} : cells'[d] = cells[d]
  BY <1>1, <1>3 DEF PoolInv, PoolTypeOK
<1>6. PoolTypeOK'  BY <1>1, <1>2, <1>4, <1>5 DEF PoolInv, PoolTypeOK
<1>7. PermitHeld' /\ ConnectionSeen'
  BY <1>1, <1>3, <1>4, <1>5, ConnectorAlone
     DEF PoolInv, PoolTypeOK, PermitHeld, ConnectionSeen
<1>8. EmptyCellsStay'
  BY <1>1, <1>2, <1>4, <1>5 DEF PoolInv, PoolTypeOK, EmptyCellsStay
<1> QED  BY <1>6, <1>7, <1>8 DEF PoolInv

\* What the caller does next depends on whether the connection is still alive.
LEMMA OpenInv == ASSUME PoolInv, NEW k \in Tasks, OpenOnConnection(k) PROVE PoolInv'
<1>1. /\ caller[k] \in Caller /\ caller[k].pc = "open" /\ caller[k].target \in Targets
      /\ caller[k].cell \in Cells /\ cells[caller[k].cell] \in Cell
      /\ cells[caller[k].cell].conn # "none"
  BY DEF OpenOnConnection, PoolInv, PoolTypeOK, ConnectionSeen
<1>2. PICK r \in Caller :
        /\ caller' = [caller EXCEPT ![k] = r]
        /\ r.target = caller[k].target /\ r.cell = caller[k].cell
        /\ \/ r.pc = "streaming"
           \/ r.pc = "evict" /\ cells[caller[k].cell].conn = "dead"
  <2>1. /\ [caller[k] EXCEPT !.pc = "streaming", !.result = "stream"] \in Caller
        /\ [caller[k] EXCEPT !.pc = "evict"] \in Caller
    BY <1>1 DEF Caller
  <2> QED  BY <1>1, <2>1 DEF OpenOnConnection, Caller, Cell
<1>3. /\ caller' \in [Tasks -> Caller] /\ caller'[k] = r
      /\ \A j \in Tasks \ {k} : caller'[j] = caller[j]
  BY <1>2 DEF PoolInv, PoolTypeOK
<1>4. pool' = pool /\ idle' = idle /\ made' = made /\ cells' = cells
  BY DEF OpenOnConnection
<1> QED
  BY <1>1, <1>2, <1>3, <1>4
     DEF PoolInv, PoolTypeOK, PermitHeld, EmptyCellsStay, ConnectionSeen

\* The entry that goes holds a dead connection, hence nobody's empty cell.
LEMMA EvictInv == ASSUME PoolInv, NEW k \in Tasks, Evict(k) PROVE PoolInv'
<1> DEFINE n == caller[k].target
<1>1. /\ caller[k] \in Caller /\ n \in Targets /\ caller[k].cell \in Cells
      /\ cells[caller[k].cell].conn = "dead"
  BY DEF Evict, PoolInv, PoolTypeOK, ConnectionSeen
<1>2. PICK r \in Caller :
        /\ caller' = [caller EXCEPT ![k] = r]
        /\ r.pc \in {"lookup", "returned"} /\ r.target = n
  <2>1. /\ [caller[k] EXCEPT !.pc = "lookup", !.first = caller[k].cell] \in Caller
        /\ [caller[k] EXCEPT !.pc = "returned", !.result = "Stream"] \in Caller
    BY <1>1 DEF Caller
  <2> QED  BY <1>1, <2>1 DEF Evict, AfterEviction, Caller
<1>3. /\ caller' \in [Tasks -> Caller] /\ caller'[k] = r
      /\ \A j \in Tasks \ {k} : caller'[j] = caller[j]
  BY <1>2 DEF PoolInv, PoolTypeOK
<1>4. idle' = idle /\ made' = made /\ cells' = cells  BY DEF Evict
<1>5. /\ pool' \in [Targets -> Cells \cup {0}]
      /\ \A m \in Targets : pool'[m] # pool[m] => pool[m] = caller[k].cell
  BY <1>1 DEF Evict, PoolInv, PoolTypeOK
<1>6. PoolTypeOK'  BY <1>1, <1>2, <1>3, <1>4, <1>5 DEF PoolInv, PoolTypeOK
<1>7. PermitHeld' /\ ConnectionSeen'
  BY <1>2, <1>3, <1>4 DEF PoolInv, PermitHeld, ConnectionSeen
<1>8. EmptyCellsStay'
  BY <1>1, <1>2, <1>3, <1>4, <1>5 DEF PoolInv, PoolTypeOK, EmptyCellsStay
<1> QED  BY <1>6, <1>7, <1>8 DEF PoolInv

\* The timeout drops a caller, and the attempt it was making with it.
LEMMA TimeOutInv == ASSUME PoolInv, NEW k \in Tasks, TimeOut(k) PROVE PoolInv'
<1> DEFINE i == caller[k].cell
           r == [caller[k] EXCEPT !.pc = "returned", !.result = "timeout"]
<1>1. /\ caller[k] \in Caller /\ caller[k].target \in Targets
      /\ caller[k].pc = "connect" => i \in Cells /\ cells[i].conn = "none"
  BY DEF TimeOut, PoolInv, PoolTypeOK, PermitHeld
<1>2. r \in Caller /\ r.pc = "returned" /\ r.target = caller[k].target
  BY <1>1 DEF Caller
<1>3. caller' = [caller EXCEPT ![k] = r]  BY DEF TimeOut, PoolInv, PoolTypeOK, Caller
<1> HIDE DEF r
<1>4. /\ caller' \in [Tasks -> Caller] /\ caller'[k] = r
      /\ \A j \in Tasks \ {k} : caller'[j] = caller[j]
  BY <1>2, <1>3 DEF PoolInv, PoolTypeOK
<1>5. pool' = pool /\ idle' = idle /\ made' = made  BY DEF TimeOut
<1>6. /\ cells' \in [Cells -> Cell]
      /\ \A c \in Cells : cells'[c] # cells[c] => c = i /\ caller[k].pc = "connect"
      /\ \A c \in Cells : cells'[c].conn = cells[c].conn
  BY <1>1 DEF TimeOut, PoolInv, PoolTypeOK, NewCell, Cell
<1>7. PoolTypeOK'  BY <1>1, <1>2, <1>4, <1>5, <1>6 DEF PoolInv, PoolTypeOK
<1>8. PermitHeld' /\ ConnectionSeen'
  BY <1>2, <1>4, <1>6, ConnectorAlone
     DEF PoolInv, PoolTypeOK, PermitHeld, ConnectionSeen
<1>9. EmptyCellsStay'
  BY <1>2, <1>4, <1>5, <1>6 DEF PoolInv, PoolTypeOK, EmptyCellsStay
<1> QED  BY <1>7, <1>8, <1>9 DEF PoolInv

\* A caller that is done may call again.
LEMMA ServedInv == ASSUME PoolInv, NEW k \in Tasks, Served(k) PROVE PoolInv'
<1>1. NotCalling \in Caller /\ NotCalling.pc = "idle"  BY DEF NotCalling, Caller
<1>2. /\ caller' \in [Tasks -> Caller] /\ caller'[k] = NotCalling
      /\ \A j \in Tasks \ {k} : caller'[j] = caller[j]
  BY <1>1 DEF Served, PoolInv, PoolTypeOK
<1> QED
  BY <1>1, <1>2
     DEF Served, PoolInv, PoolTypeOK, PermitHeld, EmptyCellsStay, ConnectionSeen

-----------------------------------------------------------------------------
(* What happens to entries and connections by itself *)

\* Time passes, idle entries go, connections die: none of it touches a cell that
\* is still empty.
LEMMA BackgroundInv ==
    ASSUME PoolInv,
           \/ \E n \in Targets : GoesIdle(n)
           \/ CleanupIdle
           \/ \E i \in Cells : ConnectionDies(i)
    PROVE  PoolInv'
<1> USE DEF PoolInv, PoolTypeOK, PermitHeld, EmptyCellsStay, ConnectionSeen
<1>1. ASSUME NEW n \in Targets, GoesIdle(n) PROVE PoolInv'  BY <1>1 DEF GoesIdle
<1>2. CASE CleanupIdle
  <2>1. /\ pool' \in [Targets -> Cells \cup {0}]
        /\ \A m \in Targets : pool'[m] # pool[m] => cells[pool[m]].conn # "none"
    BY <1>2 DEF CleanupIdle
  <2> QED  BY <1>2, <2>1 DEF CleanupIdle
<1>3. ASSUME NEW i \in Cells, ConnectionDies(i) PROVE PoolInv'
  <2>1. /\ cells' \in [Cells -> Cell]
        /\ \A c \in Cells : /\ cells'[c].permit = cells[c].permit
                            /\ cells'[c].conn = "none" <=> cells[c].conn = "none"
                            /\ cells[c].conn = "dead" => cells'[c].conn = "dead"
    BY <1>3 DEF ConnectionDies, Cell
  <2> QED  BY <1>3, <2>1 DEF ConnectionDies
<1> QED  BY <1>1, <1>2, <1>3

\* The invariant is inductive.
LEMMA NextInv == PoolInv /\ [PoolNext]_poolVars => PoolInv'
<1> SUFFICES ASSUME PoolInv, [PoolNext]_poolVars PROVE PoolInv'  OBVIOUS
<1>1. CASE UNCHANGED poolVars
  BY <1>1 DEF poolVars, PoolInv, PoolTypeOK, PermitHeld, EmptyCellsStay, ConnectionSeen
<1>2. CASE PoolNext
  BY <1>2, CallInv, LookupInv, GetOrInitInv, ConnectInv, OpenInv, EvictInv, TimeOutInv,
     ServedInv, BackgroundInv DEF PoolNext, PoolStep
<1> QED  BY <1>1, <1>2

-----------------------------------------------------------------------------
\* "This is single-flight": two callers never connect to one target at a time, since
\* both would hold the permit of the one cell in its entry.
THEOREM PoolSingleFlight == PoolSpec => []SingleFlight
<1>1. PoolInv => SingleFlight
  BY DEF PoolInv, PoolTypeOK, PermitHeld, EmptyCellsStay, SingleFlight
<1> QED  BY <1>1, InitInv, NextInv, PTL DEF PoolSpec

\* A live connection leaves the map only when its entry was idle: a caller with late
\* news evicts the cell it failed on, which is dead for good.
THEOREM PoolKeepsLiveConnections == PoolSpec => KeepsLiveConnections
<1> DEFINE Kept ==
        \A n \in Targets :
            (pool[n] # 0 /\ pool'[n] # pool[n]) => cells[pool[n]].conn = "dead" \/ n \in idle
<1>1. PoolInv /\ [PoolNext]_poolVars => [Kept]_poolVars
  <2> SUFFICES ASSUME PoolInv, PoolNext, NEW n \in Targets, pool[n] # 0, pool'[n] # pool[n]
               PROVE  cells[pool[n]].conn = "dead" \/ n \in idle
    OBVIOUS
  <2>1. ASSUME NEW k \in Tasks, Lookup(k) PROVE FALSE
    BY <2>1 DEF Lookup, PoolInv, PoolTypeOK
  <2>2. ASSUME NEW k \in Tasks, Evict(k) PROVE cells[pool[n]].conn = "dead"
    BY <2>2 DEF Evict, PoolInv, PoolTypeOK, ConnectionSeen
  <2>3. CASE CleanupIdle  BY <2>3 DEF CleanupIdle, PoolInv, PoolTypeOK
  <2> QED
    BY <2>1, <2>2, <2>3
       DEF PoolNext, PoolStep, CallOpenStream, GetOrInit, ConnectQuic, OpenOnConnection,
           TimeOut, Served, GoesIdle, ConnectionDies
<1> QED  BY <1>1, InitInv, NextInv, PTL DEF PoolSpec, KeepsLiveConnections
=============================================================================
