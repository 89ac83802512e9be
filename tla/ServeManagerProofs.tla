-------------------------- MODULE ServeManagerProofs --------------------------
(***************************************************************************)
(* The worker's sync reaps nothing that the server has kept on this worker *)
(* ever since it was placed: for any number of instances, ports, moves,    *)
(* lost streams and restarts.                                              *)
(***************************************************************************)
EXTENDS ServeManager, TLAPS

Columns == {"live", "at", "port", "state"}
Known == tracked \cup sync.local \cup sync.reap

Kept(i) == Here(rows[i]) /\ i \notin moved

(***************************************************************************)
(* The strengthening of KeptIsNotReaped: whatever was tracked once has     *)
(* been placed, and a row that left this worker is in moved for ever.      *)
(***************************************************************************)
RowsOK ==
    /\ DOMAIN rows = Instances
    /\ \A i \in Instances : /\ DOMAIN rows[i] = Columns
                            /\ rows[i].at \in {"none", "here", "away"}
                            /\ rows[i].live => rows[i].at # "none"
                            /\ rows[i].at = "away" => i \in moved

CacheOK ==
    /\ DOMAIN cache = Instances
    /\ \A i \in Instances : /\ DOMAIN cache[i] = Columns
                            /\ cache[i].live => cache[i].at \in {"here", "away"}

StreamOK ==
    /\ DOMAIN stream = Instances
    /\ \A i \in Instances : stream[i] # <<>> => rows[i].at # "none"

SyncOK ==
    /\ DOMAIN sync = {"at", "local", "items", "reap"}
    /\ Known \subseteq Instances
    /\ \A i \in Known : rows[i].at # "none"
    /\ \A i \in sync.reap : ~Kept(i)

ServeInv == RowsOK /\ CacheOK /\ StreamOK /\ SyncOK

\* A step that adds nothing to what the sync and the tables know.
Narrows ==
    /\ DOMAIN sync' = DOMAIN sync
    /\ sync'.local \subseteq sync.local
    /\ sync'.reap \subseteq sync.reap
    /\ tracked' \subseteq tracked

-----------------------------------------------------------------------------
LEMMA InitServe == Init => ServeInv
<1> SUFFICES ASSUME Init PROVE ServeInv
  OBVIOUS
<1>1. /\ DOMAIN NoRow = Columns /\ NoRow.at = "none" /\ ~NoRow.live
  BY DEF NoRow, Columns
<1>2. /\ DOMAIN sync = {"at", "local", "items", "reap"} /\ Known = {} /\ sync.reap = {}
  BY DEF Init, NoSync, Known
<1> QED
  BY <1>1, <1>2 DEF Init, ServeInv, RowsOK, CacheOK, StreamOK, SyncOK

(***************************************************************************)
(* A write of a row that does not take it for placed here for the first    *)
(* time unless it is.                                                      *)
(***************************************************************************)
LEMMA StoreKeeps ==
    ASSUME ServeInv, NEW i \in Instances, NEW row, NEW type, Store(i, row, type),
           DOMAIN row = Columns, row.at \in {"here", "away"},
           Here(row) /\ i \notin moved => rows[i].at = "none" \/ Here(rows[i]),
           UNCHANGED cache, Narrows
    PROVE  ServeInv'
<1>1. /\ rows' = [rows EXCEPT ![i] = row]
      /\ moved' = IF row.at = "away" THEN moved \cup {i} ELSE moved
      /\ DOMAIN stream' = Instances
      /\ \A j \in Instances : j # i => stream'[j] = stream[j]
  BY DEF Store, ServeInv, StreamOK
<1>2. /\ DOMAIN rows' = Instances /\ rows'[i] = row
      /\ \A j \in Instances : j # i => rows'[j] = rows[j]
  BY <1>1 DEF ServeInv, RowsOK
<1>3. Known' \subseteq Known /\ sync'.reap \subseteq sync.reap /\ DOMAIN sync' = DOMAIN sync
  BY DEF Known, Narrows
<1>4. \A j \in Instances : Kept(j)' /\ j \in sync.reap => Kept(j)
  <2> TAKE j \in Instances
  <2>1. CASE j # i
    BY <1>1, <1>2, <2>1 DEF Kept
  <2>2. CASE j = i
    BY <1>1, <1>2, <2>2 DEF Kept, ServeInv, SyncOK, Known
  <2> QED
    BY <2>1, <2>2
<1>5. RowsOK'
  <2> SUFFICES ASSUME NEW j \in Instances
               PROVE  /\ DOMAIN rows'[j] = Columns
                      /\ rows'[j].at \in {"none", "here", "away"}
                      /\ rows'[j].live => rows'[j].at # "none"
                      /\ rows'[j].at = "away" => j \in moved'
    BY <1>2 DEF RowsOK
  <2>1. CASE j # i
    BY <1>1, <1>2, <2>1 DEF ServeInv, RowsOK
  <2>2. CASE j = i
    BY <1>1, <1>2, <2>2
  <2> QED
    BY <2>1, <2>2
<1>6. StreamOK' /\ CacheOK'
  BY <1>1, <1>2 DEF ServeInv, StreamOK, CacheOK
<1>7. SyncOK'
  BY <1>2, <1>3, <1>4 DEF ServeInv, SyncOK, Known
<1> QED
  BY <1>5, <1>6, <1>7 DEF ServeInv

LEMMA UpdateKeeps ==
    ASSUME ServeInv, NEW i \in Instances, NEW state, NEW port, Update(i, state, port),
           UNCHANGED cache, Narrows
    PROVE  ServeInv'
<1>1. CASE rows[i].live /\ Get(i).live
  <2> DEFINE row == [Get(i) EXCEPT !.state = state, !.port = port]
  <2>1. DOMAIN Get(i) = Columns /\ Get(i).at \in {"here", "away"}
    BY <1>1 DEF Get, ServeInv, RowsOK, CacheOK
  <2>2. DOMAIN row = Columns /\ row.at = Get(i).at
    BY <2>1 DEF Columns
  <2>3. Store(i, row, "UPDATED")
    BY <1>1 DEF Update
  <2>4. i \notin moved => Here(rows[i])
    BY <1>1 DEF ServeInv, RowsOK, Here
  <2> HIDE DEF row
  <2> QED
    BY <2>1, <2>2, <2>3, <2>4, StoreKeeps
<1>2. CASE ~(rows[i].live /\ Get(i).live)
  <2>1. UNCHANGED <<rows, moved, stream>>
    BY <1>2 DEF Update
  <2>2. /\ Known' \subseteq Known /\ sync'.reap \subseteq sync.reap
        /\ DOMAIN sync' = DOMAIN sync
    BY DEF Known, Narrows
  <2> QED
    BY <2>1, <2>2 DEF ServeInv, RowsOK, CacheOK, StreamOK, SyncOK, Kept
<1> QED
  BY <1>1, <1>2

-----------------------------------------------------------------------------
(***************************************************************************)
(* A step that writes no row keeps what it leaves alone.                   *)
(***************************************************************************)
LEMMA RowsKept ==
    ASSUME ServeInv, UNCHANGED <<rows, moved>>
    PROVE  /\ RowsOK'
           /\ UNCHANGED cache => CacheOK'
           /\ UNCHANGED stream => StreamOK'
           /\ Narrows => SyncOK'
<1>1. RowsOK' /\ (UNCHANGED cache => CacheOK') /\ (UNCHANGED stream => StreamOK')
  BY DEF ServeInv, RowsOK, CacheOK, StreamOK
<1>2. ASSUME Narrows PROVE SyncOK'
  <2>1. /\ Known' \subseteq Known /\ sync'.reap \subseteq sync.reap
        /\ DOMAIN sync' = DOMAIN sync
    BY <1>2 DEF Known, Narrows
  <2> QED
    BY <2>1 DEF ServeInv, SyncOK, Kept
<1> QED
  BY <1>1, <1>2

LEMMA CacheCleared == cache' = [i \in Instances |-> NoRow] => CacheOK'
<1>1. DOMAIN NoRow = Columns /\ ~NoRow.live
  BY DEF NoRow, Columns
<1> QED
  BY <1>1 DEF CacheOK

(***************************************************************************)
(* The scheduler and users.                                                *)
(***************************************************************************)
LEMMA ServerKeeps ==
    ASSUME ServeInv, NEW i \in Instances, Assign(i) \/ MoveAway(i) \/ Delete(i)
    PROVE  ServeInv'
<1>0. /\ UNCHANGED cache /\ Narrows
      /\ DOMAIN rows[i] = Columns /\ rows[i].at \in {"none", "here", "away"}
      /\ rows[i].live => rows[i].at # "none"
      /\ rows[i].at = "away" => i \in moved
  BY DEF ServeInv, RowsOK, Assign, MoveAway, Delete, tables, Narrows
<1>1. CASE Assign(i)
  <2> DEFINE row == [rows[i] EXCEPT !.live = TRUE, !.at = "here", !.state = "SCHEDULED"]
  <2>1. DOMAIN row = Columns /\ row.at = "here"
    BY <1>0 DEF Columns
  <2>2. Store(i, row, "UPDATED") /\ (rows[i] = NoRow \/ rows[i].at = "away")
    BY <1>1 DEF Assign
  <2>3. rows[i].at = "none" \/ i \in moved
    BY <1>0, <2>2 DEF NoRow
  <2> HIDE DEF row
  <2> QED
    BY <1>0, <2>1, <2>2, <2>3, StoreKeeps
<1>2. CASE MoveAway(i)
  <2> DEFINE row == [rows[i] EXCEPT !.at = "away", !.state = "SCHEDULED"]
  <2>1. DOMAIN row = Columns /\ row.at = "away"
    BY <1>0 DEF Columns
  <2>2. Store(i, row, "UPDATED") /\ ~Here(row)
    BY <1>2, <2>1 DEF MoveAway, Here
  <2> HIDE DEF row
  <2> QED
    BY <1>0, <2>1, <2>2, StoreKeeps
<1>3. CASE Delete(i)
  <2> DEFINE row == [rows[i] EXCEPT !.live = FALSE]
  <2>1. DOMAIN row = Columns /\ row.at = rows[i].at /\ ~row.live
    BY <1>0 DEF Columns
  <2>2. Store(i, row, "DELETED") /\ ~Here(row) /\ rows[i].live
    BY <1>3, <2>1 DEF Delete, Here
  <2> HIDE DEF row
  <2> QED
    BY <1>0, <2>1, <2>2, StoreKeeps
<1> QED
  BY <1>1, <1>2, <1>3

(***************************************************************************)
(* The watch is connected, lost, or lost with the worker.                  *)
(***************************************************************************)
LEMMA WatchKeeps ==
    ASSUME ServeInv, Connect \/ Disconnect \/ WorkerRestart
    PROVE  ServeInv'
<1>1. UNCHANGED <<rows, moved>> /\ cache' = [i \in Instances |-> NoRow]
  BY DEF Connect, Disconnect, WorkerRestart
<1>2. StreamOK'
  <2>1. /\ DOMAIN stream' = Instances
        /\ \A i \in Instances : stream'[i] # <<>> => rows[i].live
    BY DEF Connect, Disconnect, WorkerRestart
  <2> QED
    BY <1>1, <2>1 DEF StreamOK, ServeInv, RowsOK
<1>3. SyncOK'
  <2>1. CASE Connect \/ Disconnect
    BY <1>1, <2>1, RowsKept DEF Connect, Disconnect, tables, Narrows
  <2>2. CASE WorkerRestart
    <3>1. DOMAIN sync' = {"at", "local", "items", "reap"} /\ Known' = {} /\ sync'.reap = {}
      BY <2>2 DEF WorkerRestart, NoSync, Known
    <3> QED
      BY <3>1 DEF SyncOK
  <2> QED
    BY <2>1, <2>2
<1> QED
  BY <1>1, <1>2, <1>3, RowsKept, CacheCleared DEF ServeInv

(***************************************************************************)
(* Events: only rows that were placed have any.                            *)
(***************************************************************************)
LEMMA EventKeeps ==
    ASSUME ServeInv, NEW i \in Instances, OnCreated(i) \/ OnUpdated(i) \/ OnDeleted(i)
    PROVE  ServeInv'
<1>1. /\ UNCHANGED <<rows, moved, sync>>
      /\ stream[i] # <<>> /\ stream' = [stream EXCEPT ![i] = Tail(stream[i])]
  BY DEF OnCreated, OnUpdated, OnDeleted, Receive, Dequeue
<1>2. rows[i].at \in {"here", "away"} /\ DOMAIN rows[i] = Columns
  BY <1>1 DEF ServeInv, StreamOK, RowsOK
<1>3. StreamOK'
  BY <1>1, <1>2 DEF ServeInv, StreamOK
<1>4. CacheOK'
  <2> DEFINE row == [rows[i] EXCEPT !.live = TRUE]
  <2>1. DOMAIN row = Columns /\ row.at = rows[i].at
    BY <1>2 DEF Columns
  <2>2. DOMAIN NoRow = Columns /\ ~NoRow.live
    BY DEF NoRow, Columns
  <2>3. cache' = [cache EXCEPT ![i] = row] \/ cache' = [cache EXCEPT ![i] = NoRow]
    BY DEF OnCreated, OnUpdated, OnDeleted, Remember
  <2> HIDE DEF row
  <2> QED
    BY <1>2, <2>1, <2>2, <2>3 DEF ServeInv, CacheOK
<1>5. tracked' \subseteq tracked \cup {i}
  BY DEF OnCreated, OnUpdated, OnDeleted, Track, Stop
<1>6. SyncOK'
  <2>1. Known' \subseteq Known \cup {i}
    BY <1>1, <1>5 DEF Known
  <2> QED
    BY <1>1, <1>2, <2>1 DEF ServeInv, SyncOK, Kept
<1> QED
  BY <1>1, <1>3, <1>4, <1>6, RowsKept DEF ServeInv

(***************************************************************************)
(* The loop's start of an instance and its restart of a failed one.        *)
(***************************************************************************)
LEMMA StartKeeps ==
    ASSUME ServeInv, NEW i \in Instances, StartInstance(i) \/ RestartError(i)
    PROVE  ServeInv'
<1>1. UNCHANGED cache /\ Narrows
  BY DEF StartInstance, RestartError, Narrows
<1>2. UNCHANGED <<rows, moved, stream>> \/ \E state, port : Update(i, state, port)
  BY DEF StartInstance, RestartError, Start
<1>3. CASE UNCHANGED <<rows, moved, stream>>
  BY <1>1, <1>3, RowsKept DEF ServeInv
<1>4. CASE \E state, port : Update(i, state, port)
  BY <1>1, <1>4, UpdateKeeps
<1> QED
  BY <1>2, <1>3, <1>4

(***************************************************************************)
(* The sync: what it finds stale among what was tracked is not kept, and   *)
(* never will be again.                                                    *)
(***************************************************************************)
LEMMA SyncKeeps == ASSUME ServeInv, Sync PROVE ServeInv'
<1>0. /\ DOMAIN sync = {"at", "local", "items", "reap"}
      /\ Known \subseteq Instances /\ \A i \in Known : rows[i].at # "none"
      /\ \A i \in sync.reap : ~Kept(i)
  BY DEF ServeInv, SyncOK
<1>1. ASSUME NEW i \in Instances, Report(i) PROVE ServeInv'
  <2> DEFINE new == [sync EXCEPT !.items[i] = NoRow]
  <2>1. sync' = new /\ UNCHANGED <<cache, tracked>>
    BY <1>1 DEF Report, tables
  <2>2. DOMAIN new = DOMAIN sync /\ new.local = sync.local /\ new.reap = sync.reap
    BY <1>0
  <2> HIDE DEF new
  <2>3. Narrows
    BY <2>1, <2>2 DEF Narrows
  <2>4. UNCHANGED <<rows, moved, stream>> \/ \E state, port : Update(i, state, port)
    BY <1>1 DEF Report
  <2>5. CASE UNCHANGED <<rows, moved, stream>>
    BY <2>1, <2>3, <2>5, RowsKept DEF ServeInv
  <2>6. CASE \E state, port : Update(i, state, port)
    BY <2>1, <2>3, <2>6, UpdateKeeps
  <2> QED
    BY <2>4, <2>5, <2>6
<1>2. ASSUME UNCHANGED <<rows, moved, cache, stream>>, SyncOK' PROVE ServeInv'
  BY <1>2, RowsKept DEF ServeInv
<1>3. ASSUME NEW i \in Instances, Reap(i) PROVE ServeInv'
  <2> DEFINE new == [sync EXCEPT !.reap = sync.reap \ {i}]
  <2>1. sync' = new /\ tracked' \subseteq tracked /\ UNCHANGED <<rows, moved, cache, stream>>
    BY <1>3 DEF Reap, Stop, tables, server
  <2>2. DOMAIN new = DOMAIN sync /\ new.local = sync.local /\ new.reap = sync.reap \ {i}
    BY <1>0
  <2> HIDE DEF new
  <2>3. Narrows
    BY <2>1, <2>2 DEF Narrows
  <2> QED
    BY <1>2, <2>1, <2>3, RowsKept
<1>4. CASE SyncSnapshot
  <2> DEFINE new == [NoSync EXCEPT !.at = "snapshot", !.local = tracked]
  <2>1. sync' = new /\ UNCHANGED <<rows, moved, cache, stream, tracked>>
    BY <1>4 DEF SyncSnapshot, tables, server
  <2>2. /\ DOMAIN new = {"at", "local", "items", "reap"}
        /\ new.local = tracked /\ new.reap = {}
    BY DEF NoSync
  <2> HIDE DEF new
  <2>3. SyncOK'
    BY <1>0, <2>1, <2>2 DEF SyncOK, Known
  <2> QED
    BY <1>2, <2>1, <2>3
<1>5. CASE SyncList
  <2> DEFINE where == IF Stale(sync.local, Listed) = {} THEN "report" ELSE "confirm"
             new == [sync EXCEPT !.items = Listed, !.at = where]
  <2>1. sync' = new /\ UNCHANGED <<rows, moved, cache, stream, tracked>>
    BY <1>5 DEF SyncList, tables, server
  <2>2. DOMAIN new = DOMAIN sync /\ new.local = sync.local /\ new.reap = sync.reap
    <3> HIDE DEF where
    <3> QED
      BY <1>0
  <2> HIDE DEF new
  <2>3. Narrows
    BY <2>1, <2>2 DEF Narrows
  <2> QED
    BY <1>2, <2>1, <2>3, RowsKept
<1>6. CASE SyncConfirm
  <2> DEFINE stale == Stale(sync.local, rows)
             new == [sync EXCEPT !.items = rows, !.at = "report", !.reap = stale]
  <2>1. sync' = new /\ UNCHANGED <<rows, moved, cache, stream, tracked>>
    BY <1>6 DEF SyncConfirm, tables, server
  <2>2. DOMAIN new = DOMAIN sync /\ new.local = sync.local /\ new.reap = stale
    <3> HIDE DEF stale
    <3> QED
      BY <1>0
  <2>3. stale \subseteq sync.local /\ \A i \in stale : ~Kept(i)
    BY DEF Stale, Kept
  <2> HIDE DEF new, stale
  <2>4. SyncOK'
    BY <1>0, <2>1, <2>2, <2>3 DEF SyncOK, Known, Kept
  <2> QED
    BY <1>2, <2>1, <2>4
<1>7. CASE SyncDone
  <2>1. /\ UNCHANGED <<rows, moved, cache, stream, tracked>>
        /\ DOMAIN sync' = {"at", "local", "items", "reap"} /\ sync'.local = {} /\ sync'.reap = {}
    BY <1>7 DEF SyncDone, NoSync, tables, server
  <2>2. SyncOK'
    BY <1>0, <2>1 DEF SyncOK, Known
  <2> QED
    BY <1>2, <2>1, <2>2
<1> QED
  BY <1>1, <1>3, <1>4, <1>5, <1>6, <1>7 DEF Sync

-----------------------------------------------------------------------------
LEMMA NextServe == ServeInv /\ [Next]_vars => ServeInv'
<1> SUFFICES ASSUME ServeInv, [Next]_vars PROVE ServeInv'
  OBVIOUS
<1>1. CASE UNCHANGED <<rows, moved, cache, stream, sync, tracked>>
  BY <1>1, RowsKept DEF ServeInv, Narrows
<1>2. CASE \E i \in Instances : Container(i) \/ Fails(i) \/ Clean(i)
  BY <1>1, <1>2 DEF Container, Provisioned, Listens, Fails, Clean, server, tables
<1> QED
  BY <1>1, <1>2, ServerKeeps, WatchKeeps, EventKeeps, StartKeeps, SyncKeeps DEF Next, Loop, vars

(***************************************************************************)
(* KeptIsNotReaped holds always: sync_model_instances_state never picks an *)
(* instance that the server has kept here since it was placed, although    *)
(* what it takes for stale may be old by the time it is reaped.            *)
(***************************************************************************)
THEOREM KeptNeverReaped == Spec => []KeptIsNotReaped
<1>1. ServeInv => KeptIsNotReaped
  BY DEF ServeInv, SyncOK, KeptIsNotReaped, Kept
<1> QED
  BY <1>1, InitServe, NextServe, PTL DEF Spec
=============================================================================
