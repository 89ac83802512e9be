----------------------- MODULE ReadThroughCacheProofs -----------------------
(***************************************************************************)
(* A cached row is old only while an invalidation is still due, or because *)
(* the call that cached it overlapped one: for any number of servers,      *)
(* calls and writes.                                                       *)
(***************************************************************************)
EXTENDS ReadThroughCache, TLAPS

Phases == {"idle", "queued", "loading", "loaded"}

\* Something committed may not have been invalidated at s yet.
InvalidationDue(s) ==
    \/ \E w \in Writers : writer[w] = "committed"
    \/ lost > 0
    \/ pending[s] > 0

(***************************************************************************)
(* The strengthening of StaleOnlyIfOverlapped: what holds of the entry of  *)
(* a server holds of the values its calls have read and not yet cached.    *)
(***************************************************************************)
Shaped ==
    reader = [r \in Readers |-> [phase |-> reader[r].phase, lock |-> reader[r].lock,
                                 value |-> reader[r].value]]

CacheInv ==
    /\ Shaped
    /\ entry \in [Servers -> Nat]
    /\ \A r \in Readers : reader[r].phase \in Phases
    /\ writer \in [Writers -> {"idle", "flushed", "committed", "done"}]
    /\ pending \in [Servers -> Nat]
    /\ lost \in Nat
    /\ db \in Nat
    /\ \A r \in Readers : reader[r].value \in Nat
    /\ \A s \in Servers : ~InvalidationDue(s) =>
          /\ Stale(s) => s \in doubtful
          /\ \A r \in Readers :
                Home[r] = s /\ reader[r].phase = "loaded" /\ r \notin tainted =>
                    reader[r].value = db

-----------------------------------------------------------------------------
(***************************************************************************)
(* The steps of locked_cached: what a call becomes, then each step.        *)
(***************************************************************************)
LEMMA CallBecomes ==
    ASSUME CacheInv, NEW r \in Readers, NEW p \in Phases, NEW l, NEW v \in Nat,
           reader' = [reader EXCEPT ![r] = [phase |-> p, lock |-> l, value |-> v]]
    PROVE  /\ Shaped'
           /\ reader'[r].phase = p /\ reader'[r].value = v
           /\ \A q \in Readers : q # r => reader'[q] = reader[q]
           /\ \A q \in Readers : reader'[q].phase \in Phases /\ reader'[q].value \in Nat
<1> DEFINE new == [phase |-> p, lock |-> l, value |-> v]
<1>1. /\ reader = [q \in Readers |-> [phase |-> reader[q].phase, lock |-> reader[q].lock,
                                      value |-> reader[q].value]]
      /\ \A q \in Readers : reader[q].phase \in Phases /\ reader[q].value \in Nat
  BY DEF CacheInv, Shaped
<1>2. reader' = [q \in Readers |-> IF q = r THEN new ELSE reader[q]]
  BY <1>1
<1>3. \A q \in Readers : /\ q # r => reader'[q] = reader[q]
                         /\ q = r => reader'[q] = new
  BY <1>2
<1>4. new.phase = p /\ new.value = v /\ new.lock = l
  OBVIOUS
<1>5. \A q \in Readers : reader'[q] = [phase |-> reader'[q].phase, lock |-> reader'[q].lock,
                                       value |-> reader'[q].value]
  <2> TAKE q \in Readers
  <2>1. CASE q = r
    BY <1>3, <1>4, <2>1
  <2>2. CASE q # r
    <3>1. reader[q] = [phase |-> reader[q].phase, lock |-> reader[q].lock,
                       value |-> reader[q].value]
      BY <1>1
    <3> QED
      BY <1>3, <2>2, <3>1
  <2> QED
    BY <2>1, <2>2
<1> HIDE DEF new
<1>6. reader' = [q \in Readers |-> reader'[q]]
  BY <1>2
<1> QED
  BY <1>1, <1>3, <1>4, <1>5, <1>6 DEF Shaped

LEMMA ShapeKept == Shaped /\ UNCHANGED reader => Shaped'
BY DEF Shaped

LEMMA WaitingKeeps ==
    ASSUME CacheInv, NEW r \in Readers, NEW p \in Phases \ {"loaded"}, NEW l, NEW v \in Nat,
           reader' = [reader EXCEPT ![r] = [phase |-> p, lock |-> l, value |-> v]],
           UNCHANGED <<db, entry, writer, pending, lost, tainted, doubtful>>
    PROVE  CacheInv'
<1>1. /\ Shaped'
      /\ reader'[r].phase # "loaded"
      /\ \A q \in Readers : q # r => reader'[q] = reader[q]
      /\ \A q \in Readers : reader'[q].phase \in Phases /\ reader'[q].value \in Nat
  BY CallBecomes
<1> QED
  BY <1>1 DEF CacheInv, InvalidationDue, Stale

LEMMA CallKeeps ==
    ASSUME CacheInv, NEW r \in Readers, Miss(r) \/ Call(r)
    PROVE  CacheInv'
<1>0. /\ reader[r] = [phase |-> reader[r].phase, lock |-> reader[r].lock,
                      value |-> reader[r].value]
      /\ reader[r].value \in Nat
      /\ reader = [q \in Readers |-> reader[q]]
      /\ db \in Nat
  BY DEF CacheInv, Shaped
<1>1. CASE Miss(r)
  <2>1. /\ reader' = [reader EXCEPT ![r] = [phase |-> "queued", lock |-> lock'[Home[r]], value |-> 0]]
        /\ UNCHANGED <<db, entry, writer, pending, lost, tainted, doubtful>>
    BY <1>1 DEF Miss, None
  <2> QED
    BY <2>1, WaitingKeeps DEF Phases
<1>2. CASE Acquire(r)
  <2>1. UNCHANGED <<db, entry, writer, pending, lost, tainted, doubtful>>
    BY <1>2 DEF Acquire
  <2>2. CASE reader' = [reader EXCEPT ![r] = Idle]
    <3>1. reader' = [reader EXCEPT ![r] = [phase |-> "idle", lock |-> 0, value |-> 0]]
      BY <2>2 DEF Idle, None
    <3> QED
      BY <2>1, <3>1, WaitingKeeps DEF Phases
  <2>3. CASE reader' = [reader EXCEPT ![r] = [reader[r] EXCEPT !.phase = "loading"]]
    <3>1. [reader[r] EXCEPT !.phase = "loading"] =
            [phase |-> "loading", lock |-> reader[r].lock, value |-> reader[r].value]
      BY <1>0
    <3> QED
      BY <1>0, <2>1, <2>3, <3>1, WaitingKeeps DEF Phases
  <2> QED
    BY <1>0, <1>2, <2>2, <2>3 DEF Acquire
<1>3. CASE Load(r)
  <2>1. reader' = [reader EXCEPT ![r] = [phase |-> "loaded", lock |-> reader[r].lock, value |-> db]]
    <3> DEFINE before == reader[r]
    <3>1. [[before EXCEPT !.phase = "loaded"] EXCEPT !.value = db] =
            [phase |-> "loaded", lock |-> before.lock, value |-> db]
      <4>1. PICK p, l, v : before = [phase |-> p, lock |-> l, value |-> v]
        BY <1>0
      <4>2. before.lock = l
        BY <4>1
      <4>3. [before EXCEPT !.phase = "loaded"] = [phase |-> "loaded", lock |-> l, value |-> v]
        BY <4>1
      <4>4. [[phase |-> "loaded", lock |-> l, value |-> v] EXCEPT !.value = db] =
              [phase |-> "loaded", lock |-> l, value |-> db]
        OBVIOUS
      <4> QED
        BY <4>2, <4>3, <4>4
    <3>2. reader' = [reader EXCEPT ![r] = [[before EXCEPT !.phase = "loaded"] EXCEPT !.value = db]]
      BY <1>3 DEF Load
    <3> QED
      BY <3>1, <3>2
  <2>2. /\ Shaped'
        /\ reader'[r].value = db
        /\ \A q \in Readers : q # r => reader'[q] = reader[q]
        /\ \A q \in Readers : reader'[q].phase \in Phases /\ reader'[q].value \in Nat
    BY <1>0, <2>1, CallBecomes DEF Phases
  <2> QED
    BY <1>3, <2>2 DEF Load, CacheInv, InvalidationDue, Stale
<1>4. CASE Fill(r)
  <2>1. reader' = [reader EXCEPT ![r] = [phase |-> "idle", lock |-> 0, value |-> 0]]
    BY <1>4 DEF Fill, Idle, None
  <2>2. /\ Shaped'
        /\ reader'[r].phase # "loaded"
        /\ \A q \in Readers : q # r => reader'[q] = reader[q]
        /\ \A q \in Readers : reader'[q].phase \in Phases /\ reader'[q].value \in Nat
    BY <2>1, CallBecomes DEF Phases
  <2> QED
    BY <1>0, <1>4, <2>2 DEF Fill, CacheInv, InvalidationDue, Stale
<1> QED
  BY <1>1, <1>2, <1>3, <1>4 DEF Call

(***************************************************************************)
(* An invalidation at s leaves s without an entry and no call at s with a  *)
(* value that counts.                                                      *)
(***************************************************************************)
LEMMA DeleteKeeps ==
    ASSUME CacheInv, NEW s, Delete(s), UNCHANGED <<db, reader>>,
           pending' \in [Servers -> Nat], lost' \in Nat,
           writer' \in [Writers -> {"idle", "flushed", "committed", "done"}],
           \A t \in Servers : t # s /\ InvalidationDue(t) => InvalidationDue(t)'
    PROVE  CacheInv'
BY ShapeKept DEF CacheInv, Delete, InvalidationDue, Stale, Phases, None

(***************************************************************************)
(* A broadcast reaches the other servers or is counted as lost.            *)
(***************************************************************************)
LEMMA BroadcastReaches ==
    ASSUME CacheInv, NEW s, Broadcast(s)
    PROVE  /\ pending' \in [Servers -> Nat]
           /\ lost' \in Nat
           /\ \A t \in Servers : t # s => pending'[t] > 0 \/ lost' > 0
BY DEF CacheInv, Broadcast

-----------------------------------------------------------------------------
(***************************************************************************)
(* The cache starts empty, and every step keeps the invariant.             *)
(***************************************************************************)
LEMMA InitCache == Init => CacheInv
<1> SUFFICES ASSUME Init PROVE CacheInv
  OBVIOUS
<1>1. Shaped
  BY DEF Init, Shaped, Idle
<1> QED
  BY <1>1 DEF Init, CacheInv, InvalidationDue, Stale, Phases, Idle, None

LEMMA NextCache == CacheInv /\ [Next]_cvars => CacheInv'
<1> SUFFICES ASSUME CacheInv, [Next]_cvars PROVE CacheInv'
  OBVIOUS
<1>1. CASE \E r \in Readers : Miss(r) \/ Call(r)
  BY <1>1, CallKeeps
<1>2. CASE \E w \in Writers : Flush(w) \/ Invalidate(w)
  <2>1. PICK w \in Writers : Flush(w) \/ Invalidate(w)
    BY <1>2
  <2>2. /\ Delete(Home[w]) /\ Broadcast(Home[w]) /\ UNCHANGED <<db, reader>>
        /\ writer' \in [Writers -> {"idle", "flushed", "committed", "done"}]
    BY <2>1 DEF Flush, Invalidate, CacheInv
  <2>3. /\ pending' \in [Servers -> Nat] /\ lost' \in Nat
        /\ \A t \in Servers : t # Home[w] => InvalidationDue(t)'
    BY <2>2, BroadcastReaches DEF InvalidationDue
  <2> QED
    BY <2>2, <2>3, DeleteKeeps
<1>3. CASE \E w \in Writers : Commit(w)
  <2>1. PICK w \in Writers : Commit(w)
    BY <1>3
  <2>2. \A s \in Servers : InvalidationDue(s)'
    BY <2>1 DEF Commit, CacheInv, InvalidationDue
  <2> QED
    BY <2>1, <2>2, ShapeKept DEF Commit, CacheInv
<1>4. CASE \E s \in Servers : RemoteInvalidate(s)
  <2>1. PICK s \in Servers : RemoteInvalidate(s)
    BY <1>4
  <2>2. /\ Delete(s) /\ UNCHANGED <<db, reader, writer, lost>>
        /\ pending' = [pending EXCEPT ![s] = @ - 1] /\ pending[s] > 0
    BY <2>1 DEF RemoteInvalidate
  <2>3. /\ pending' \in [Servers -> Nat]
        /\ \A t \in Servers : t # s => pending'[t] = pending[t]
    BY <2>2 DEF CacheInv
  <2>4. lost' \in Nat /\ writer' \in [Writers -> {"idle", "flushed", "committed", "done"}]
    BY <2>2 DEF CacheInv
  <2>5. \A t \in Servers : t # s /\ InvalidationDue(t) => InvalidationDue(t)'
    BY <2>2, <2>3 DEF InvalidationDue
  <2> QED
    BY <2>2, <2>3, <2>4, <2>5, DeleteKeeps
<1>5. CASE \E s \in Servers : Expire(s)
  BY <1>5, ShapeKept DEF Expire, CacheInv, InvalidationDue, Stale, None
<1>6. CASE UNCHANGED cvars
  BY <1>6, ShapeKept DEF cvars, CacheInv, InvalidationDue, Stale
<1> QED
  BY <1>1, <1>2, <1>3, <1>4, <1>5, <1>6 DEF Next, Write

(***************************************************************************)
(* StaleOnlyIfOverlapped holds always, for any number of servers, calls    *)
(* and writes: an old entry comes from a call that read before an          *)
(* invalidation and cached after it (locked_cached, delete_cache_by_key).  *)
(***************************************************************************)
THEOREM OnlyOverlapsAreStale == Spec => []StaleOnlyIfOverlapped
<1>1. CacheInv => StaleOnlyIfOverlapped
  BY DEF CacheInv, StaleOnlyIfOverlapped, InvalidationDue
<1> QED
  BY <1>1, InitCache, NextCache, PTL DEF Spec
=============================================================================
