-------------------------- MODULE ReadThroughCache --------------------------
(***************************************************************************)
(* The servers' read-through cache: gpustack/server/cache.py               *)
(* (locked_cached, delete_cache_by_key and its broadcast) as the writers   *)
(* of mixins/active_record.py and server/services.py use it, for one key.  *)
(* The database row is abstracted to the number of commits it has seen.    *)
(***************************************************************************)
EXTENDS Integers, FiniteSets

CONSTANTS
    Servers, Readers, Writers,
    Batch,       \* the writers that flush first and commit by hand
    Home,        \* Home[p]: the server a reader or a writer runs on
    MaxLost      \* bound on the broadcasts that fail

VARIABLES
    db,        \* the committed version
    entry,     \* entry[s]: the cached version, 0 when there is none
    timer,     \* timer[s]: is the entry's expiry scheduled?
    lock,      \* lock[s]: the number of the key's lock in _cache_locks, 0 if none
    made,      \* made[s]: how many locks were made for the key
    reader,    \* reader[r]: the phase of a cached call, its lock and its value
    writer,    \* writer[w]: the phase of a write
    pending,   \* pending[s]: invalidations on their way to s
    lost,      \* broadcasts that failed
    tainted,   \* readers whose value was read before an invalidation at their server
    doubtful   \* servers whose entry was filled by a tainted reader

cvars == <<db, entry, timer, lock, made, reader, writer, pending, lost, tainted, doubtful>>

None == 0
Idle == [phase |-> "idle", lock |-> 0, value |-> None]

Init ==
    /\ db = 1
    /\ entry = [s \in Servers |-> None]
    /\ timer = [s \in Servers |-> FALSE]
    /\ lock = [s \in Servers |-> 0]
    /\ made = [s \in Servers |-> 0]
    /\ reader = [r \in Readers |-> Idle]
    /\ writer = [w \in Writers |-> "idle"]
    /\ pending = [s \in Servers |-> 0]
    /\ lost = 0
    /\ tainted = {}
    /\ doubtful = {}

-----------------------------------------------------------------------------
(* locked_cached.decorator. *)

\* A miss: the call queues for the key's lock, making one if there is none.
Miss(r) ==
    LET s == Home[r] IN
    /\ reader[r].phase = "idle"
    /\ entry[s] = None
    /\ made' = [made EXCEPT ![s] = IF lock[s] = 0 THEN @ + 1 ELSE @]
    /\ lock' = [lock EXCEPT ![s] = IF @ = 0 THEN made'[s] ELSE @]
    /\ reader' = [reader EXCEPT ![r] = [phase |-> "queued", lock |-> lock'[s],
                                        value |-> None]]
    /\ UNCHANGED <<db, entry, timer, writer, pending, lost, tainted, doubtful>>

Holds(r) == reader[r].phase \in {"loading", "loaded"}

\* The lock is free: another call may have filled the entry meanwhile.
Acquire(r) ==
    /\ reader[r].phase = "queued"
    /\ \A q \in Readers : Holds(q) /\ Home[q] = Home[r] => reader[q].lock # reader[r].lock
    /\ reader' = [reader EXCEPT ![r] = IF entry[Home[r]] # None THEN Idle
                                       ELSE [@ EXCEPT !.phase = "loading"]]
    /\ UNCHANGED <<db, entry, timer, lock, made, writer, pending, lost, tainted, doubtful>>

\* The wrapped function reads the database.
Load(r) ==
    /\ reader[r].phase = "loading"
    /\ reader' = [reader EXCEPT ![r].phase = "loaded", ![r].value = db]
    /\ UNCHANGED <<db, entry, timer, lock, made, writer, pending, lost, tainted, doubtful>>

\* Mutant: the entry is set without a time to live.
FillForever(r) ==
    LET s == Home[r] IN
    /\ reader[r].phase = "loaded"
    /\ entry' = [entry EXCEPT ![s] = reader[r].value]
    /\ timer' = [timer EXCEPT ![s] = FALSE]
    /\ reader' = [reader EXCEPT ![r] = Idle]
    /\ tainted' = tainted \ {r}
    /\ doubtful' = IF r \in tainted THEN doubtful \cup {s} ELSE doubtful \ {s}
    /\ UNCHANGED <<db, lock, made, writer, pending, lost>>

\* The result is cached whatever happened since it was read; the lock is released.
Fill(r) ==
    LET s == Home[r] IN
    /\ reader[r].phase = "loaded"
    /\ entry' = [entry EXCEPT ![s] = reader[r].value]
    /\ timer' = [timer EXCEPT ![s] = TRUE]
    /\ reader' = [reader EXCEPT ![r] = Idle]
    /\ tainted' = tainted \ {r}
    /\ doubtful' = IF r \in tainted THEN doubtful \cup {s} ELSE doubtful \ {s}
    /\ UNCHANGED <<db, lock, made, writer, pending, lost>>

-----------------------------------------------------------------------------
(* Invalidation. *)

\* cache.delete and _cache_locks.pop at s.
Delete(s) ==
    /\ entry' = [entry EXCEPT ![s] = None]
    /\ timer' = [timer EXCEPT ![s] = FALSE]
    /\ lock' = [lock EXCEPT ![s] = 0]
    /\ tainted' = tainted \cup {r \in Readers : Home[r] = s /\ reader[r].phase = "loaded"}
    /\ doubtful' = doubtful \ {s}

\* _broadcast_invalidation: every other server is told, or none.
Broadcast(s) ==
    \/ /\ pending' = [t \in Servers |-> IF t = s THEN pending[t] ELSE pending[t] + 1]
       /\ UNCHANGED lost
    \/ /\ lost < MaxLost
       /\ lost' = lost + 1
       /\ UNCHANGED pending

\* batch_update: update(auto_commit=False) flushes and invalidates.
Flush(w) ==
    /\ w \in Batch
    /\ writer[w] = "idle"
    /\ writer' = [writer EXCEPT ![w] = "flushed"]
    /\ Delete(Home[w])
    /\ Broadcast(Home[w])
    /\ UNCHANGED <<db, made, reader>>

Commit(w) ==
    /\ writer[w] = IF w \in Batch THEN "flushed" ELSE "idle"
    /\ writer' = [writer EXCEPT ![w] = "committed"]
    /\ db' = db + 1
    /\ UNCHANGED <<entry, timer, lock, made, reader, pending, lost, tainted, doubtful>>

\* Mutant: the batch does not invalidate again after its commit.
InvalidateOnce(w) ==
    /\ writer[w] = "committed"
    /\ writer' = [writer EXCEPT ![w] = "done"]
    /\ IF w \in Batch
       THEN UNCHANGED <<entry, timer, lock, pending, lost, tainted, doubtful>>
       ELSE Delete(Home[w]) /\ Broadcast(Home[w])
    /\ UNCHANGED <<db, made, reader>>

\* After the commit: _invalidate_cached_all, delete_cache_by_key.
Invalidate(w) ==
    /\ writer[w] = "committed"
    /\ writer' = [writer EXCEPT ![w] = "done"]
    /\ Delete(Home[w])
    /\ Broadcast(Home[w])
    /\ UNCHANGED <<db, made, reader>>

\* _handle_cache_invalidate and its task _local_delete_cache.
RemoteInvalidate(s) ==
    /\ pending[s] > 0
    /\ pending' = [pending EXCEPT ![s] = @ - 1]
    /\ Delete(s)
    /\ UNCHANGED <<db, made, reader, writer, lost>>

\* The entry's time to live is over.
Expire(s) ==
    /\ timer[s]
    /\ entry' = [entry EXCEPT ![s] = None]
    /\ timer' = [timer EXCEPT ![s] = FALSE]
    /\ doubtful' = doubtful \ {s}
    /\ UNCHANGED <<db, lock, made, reader, writer, pending, lost, tainted>>

-----------------------------------------------------------------------------
Call(r) == Acquire(r) \/ Load(r) \/ Fill(r)
Write(w) == Commit(w) \/ Invalidate(w)

Next ==
    \/ \E r \in Readers : Miss(r) \/ Call(r)
    \/ \E w \in Writers : Flush(w) \/ Write(w)
    \/ \E s \in Servers : RemoteInvalidate(s) \/ Expire(s)

Spec == Init /\ [][Next]_cvars

-----------------------------------------------------------------------------
(* Properties. *)

TypeOK ==
    /\ db \in 1 .. (1 + Cardinality(Writers))
    /\ entry \in [Servers -> 0 .. db]
    /\ timer \in [Servers -> BOOLEAN]
    /\ \A s \in Servers : lock[s] \in 0 .. made[s]
    /\ \A r \in Readers : reader[r].phase \in {"idle", "queued", "loading", "loaded"}
    /\ writer \in [Writers -> {"idle", "flushed", "committed", "done"}]
    /\ pending \in [Servers -> Nat]
    /\ lost \in 0 .. MaxLost
    /\ tainted \subseteq Readers
    /\ doubtful \subseteq Servers

Stale(s) == entry[s] # None /\ entry[s] # db

(***************************************************************************)
(* Once every write has invalidated and its broadcast has arrived, a       *)
(* server's entry is the committed row, unless the call that filled it had *)
(* read the database before an invalidation and filled the entry after it. *)
(***************************************************************************)
StaleOnlyIfOverlapped ==
    (\A w \in Writers : writer[w] # "committed") /\ lost = 0 =>
        \A s \in Servers : pending[s] = 0 /\ Stale(s) => s \in doubtful

(***************************************************************************)
(* No server serves an old row for ever: lost broadcasts and overlapped    *)
(* fills are healed by the time to live.                                   *)
(***************************************************************************)
FreshInTheEnd ==
    \A s \in Servers : <>[](~Stale(s))
=============================================================================
