--------------------------- MODULE SchedulerProofs ---------------------------
(***************************************************************************)
(* The scheduler never gives a worker more than it has, and no late write  *)
(* brings a deleted instance back: for any number of instances, workers,   *)
(* faults and restarts.                                                    *)
(***************************************************************************)
EXTENDS Scheduler, FiniteSetTheorems, TLAPS

On(w) == {i \in Instances : rows[i].worker = w}

\* Every row has the columns of a row.
Columns == {"state", "worker", "due", "stamp"}

Shaped ==
    /\ rows = [i \in Instances |-> rows[i]]
    /\ \A i \in Instances : DOMAIN rows[i] = Columns

(***************************************************************************)
(* The strengthening of NoOvercommit: a placement under way has candidates *)
(* with room in the rows of now, not only in those of its snapshot.        *)
(***************************************************************************)
SchedInv ==
    /\ Shaped
    /\ ready \subseteq Workers
    /\ cycle.candidates \subseteq Workers
    /\ ~undone => /\ \A w \in Workers : Cardinality(On(w)) <= Capacity[w]
                  /\ \A w \in cycle.candidates : Cardinality(On(w)) < Capacity[w]

-----------------------------------------------------------------------------
(***************************************************************************)
(* What is held on a worker, counted from the rows.                        *)
(***************************************************************************)
LEMMA AllocatedIsOn == \A w : Allocated(Held, w) = Cardinality(On(w))
<1>1. DOMAIN Held = Instances /\ \A i \in Instances : Held[i] = rows[i].worker
  BY DEF Held
<1>2. ASSUME NEW w PROVE {i \in DOMAIN Held : Held[i] = w} = On(w)
  BY <1>1 DEF On
<1> QED
  BY <1>2 DEF Allocated

LEMMA OnFinite == \A w : IsFiniteSet(On(w)) /\ Cardinality(On(w)) \in Nat
<1>1. ASSUME NEW w PROVE IsFiniteSet(On(w)) /\ Cardinality(On(w)) \in Nat
  <2>1. On(w) \subseteq Instances
    BY DEF On
  <2>2. IsFiniteSet(On(w))
    BY <2>1, SchedulerAssumption, FS_Subset
  <2> QED
    BY <2>2, FS_CardinalityType
<1> QED
  BY <1>1

(***************************************************************************)
(* One UPDATE of a row.                                                    *)
(***************************************************************************)
LEMMA RowWritten ==
    ASSUME Shaped, NEW i, NEW new, DOMAIN new = Columns, rows' = [rows EXCEPT ![i] = new]
    PROVE  /\ Shaped'
           /\ \A j \in Instances : j # i => rows'[j] = rows[j]
           /\ i \in Instances => rows'[i] = new
BY DEF Shaped

LEMMA Written ==
    ASSUME Shaped, NEW i, NEW state, NEW worker, NEW stamp, Write(i, state, worker, stamp)
    PROVE  /\ Shaped'
           /\ \A j \in Instances : j # i => rows'[j] = rows[j]
           /\ i \in Instances => rows'[i].worker = worker
<1> DEFINE new == [state |-> state, worker |-> worker, due |-> FALSE,
                   stamp |-> IF state = "ANALYZING" THEN stamp ELSE 0]
<1>1. DOMAIN new = Columns /\ new.worker = worker
  BY DEF Columns
<1>2. rows' = [rows EXCEPT ![i] = new]
  BY DEF Write
<1> HIDE DEF new
<1> QED
  BY <1>1, <1>2, RowWritten

LEMMA RowsKept == Shaped /\ UNCHANGED rows => Shaped'
BY DEF Shaped

(***************************************************************************)
(* A step that places nothing: what workers hold stays or shrinks.         *)
(***************************************************************************)
Shrinks == \A w \in Workers : On(w)' \subseteq On(w)

LEMMA ShrinkKeeps ==
    ASSUME SchedInv, Shaped', ready' \subseteq Workers, ~undone' => ~undone /\ Shrinks,
           cycle'.candidates \subseteq cycle.candidates
    PROVE  SchedInv'
<1>1. ASSUME NEW w \in Workers, Shrinks
      PROVE  Cardinality(On(w)') <= Cardinality(On(w)) /\ Cardinality(On(w)') \in Nat
                /\ Cardinality(On(w)) \in Nat
  <2>1. On(w)' \subseteq On(w)
    BY <1>1 DEF Shrinks
  <2>2. IsFiniteSet(On(w)) /\ Cardinality(On(w)) \in Nat
    BY OnFinite
  <2>3. IsFiniteSet(On(w)') /\ Cardinality(On(w)') <= Cardinality(On(w))
    BY <2>1, <2>2, FS_Subset
  <2> QED
    BY <2>2, <2>3, FS_CardinalityType
<1> QED
  BY <1>1, SchedulerAssumption DEF SchedInv

LEMMA SameWorkerShrinks ==
    ASSUME NEW i, \A j \in Instances : j # i => rows'[j] = rows[j],
           i \in Instances => rows'[i].worker \in {rows[i].worker, None}
    PROVE  Shrinks
BY SchedulerAssumption DEF Shrinks, On

LEMMA NothingWritten ==
    ASSUME SchedInv, UNCHANGED <<rows, undone>>, ready' \subseteq Workers,
           cycle'.candidates \subseteq cycle.candidates
    PROVE  SchedInv'
<1>1. Shaped'
  BY RowsKept DEF SchedInv
<1>2. Shrinks
  BY DEF Shrinks, On
<1> QED
  BY <1>1, <1>2, ShrinkKeeps

LEMMA RowKeepsWorker ==
    ASSUME SchedInv, NEW i, Shaped', \A j \in Instances : j # i => rows'[j] = rows[j],
           i \in Instances => rows'[i].worker \in {rows[i].worker, None},
           UNCHANGED <<ready, undone>>, cycle'.candidates \subseteq cycle.candidates
    PROVE  SchedInv'
BY SameWorkerShrinks, ShrinkKeeps DEF SchedInv

-----------------------------------------------------------------------------
(***************************************************************************)
(* The steps of users and of time.                                         *)
(***************************************************************************)
LEMMA RowStepsKeep ==
    ASSUME SchedInv, NEW i \in Instances, Create(i) \/ Delete(i) \/ Age(i)
    PROVE  SchedInv'
<1>0. Shaped /\ rows = [j \in Instances |-> rows[j]]
  BY DEF SchedInv, Shaped
<1>1. CASE Create(i)
  <2> DEFINE new == [state |-> "PENDING", worker |-> None, due |-> TRUE, stamp |-> 0]
  <2>1. DOMAIN new = Columns /\ new.worker = None
    BY DEF Columns
  <2>2. /\ Shaped'
        /\ \A j \in Instances : j # i => rows'[j] = rows[j]
        /\ rows'[i].worker = None
    <3>1. rows' = [rows EXCEPT ![i] = new]
      BY <1>1 DEF Create
    <3> HIDE DEF new
    <3> QED
      BY <1>0, <2>1, <3>1, RowWritten
  <2> QED
    BY <1>1, <2>2, RowKeepsWorker DEF Create
<1>2. CASE Delete(i)
  <2>1. DOMAIN Deleted = Columns /\ Deleted.worker = None
    BY DEF Deleted, Absent, Columns
  <2>2. /\ Shaped'
        /\ \A j \in Instances : j # i => rows'[j] = rows[j]
        /\ rows'[i].worker = None
    BY <1>0, <1>2, <2>1, RowWritten DEF Delete
  <2> QED
    BY <1>2, <2>2, RowKeepsWorker DEF Delete
<1>3. CASE Age(i)
  <2> DEFINE new == [rows[i] EXCEPT !.due = TRUE]
  <2>1. DOMAIN new = Columns /\ new.worker = rows[i].worker
    BY <1>0 DEF Shaped, Columns
  <2>2. rows' = [rows EXCEPT ![i] = new]
    BY <1>3 DEF Age
  <2>3. /\ Shaped'
        /\ \A j \in Instances : j # i => rows'[j] = rows[j]
        /\ rows'[i].worker = rows[i].worker
    <3> HIDE DEF new
    <3> QED
      BY <1>0, <2>1, <2>2, RowWritten
  <2> QED
    BY <1>3, <2>3, RowKeepsWorker DEF Age
<1> QED
  BY <1>1, <1>2, <1>3

(***************************************************************************)
(* The steps of evaluations.                                               *)
(***************************************************************************)
LEMMA EvaluationKeeps ==
    ASSUME SchedInv, NEW s \in Sources, NEW i \in Instances, Evaluation(s, i) \/ Refuse(s, i)
    PROVE  SchedInv'
<1>0. Shaped /\ ready \subseteq Workers
  BY DEF SchedInv
<1>1. CASE UNCHANGED rows
  BY <1>0, <1>1, NothingWritten DEF Evaluation, Fetch, Mark, Put, Refuse
<1>2. CASE \E state, stamp : Write(i, state, rows[i].worker, stamp)
  <2>1. PICK state, stamp : Write(i, state, rows[i].worker, stamp)
    BY <1>2
  <2>2. /\ Shaped'
        /\ \A j \in Instances : j # i => rows'[j] = rows[j]
        /\ rows'[i].worker = rows[i].worker
    BY <1>0, <2>1, Written
  <2>3. UNCHANGED <<ready, undone, cycle>>
    BY DEF Evaluation, Fetch, Mark, Put, Refuse
  <2> QED
    BY <2>2, <2>3, RowKeepsWorker
<1> QED
  BY <1>1, <1>2 DEF Evaluation, Fetch, Mark, Put, Refuse

(***************************************************************************)
(* The steps of the cycle.                                                 *)
(***************************************************************************)
LEMMA TakeKeeps == ASSUME SchedInv, Take PROVE SchedInv'
<1>1. /\ UNCHANGED <<rows, ready, undone>>
      /\ cycle'.candidates \in {{}, Candidates}
  BY DEF Take, NoPlacement
<1>2. \A w \in Candidates : w \in Workers /\ Cardinality(On(w)) < Capacity[w]
  BY AllocatedIsOn DEF Candidates, SchedInv
<1>3. \A w : On(w)' = On(w)
  BY <1>1 DEF On
<1>4. Shaped'
  BY <1>1, RowsKept DEF SchedInv
<1> QED
  BY <1>1, <1>2, <1>3, <1>4 DEF SchedInv

LEMMA PlaceKeeps == ASSUME SchedInv, NEW w \in Workers, Place(w) PROVE SchedInv'
<1> DEFINE i == cycle.inst
<1>0. /\ Shaped /\ w \in cycle.candidates /\ cycle'.candidates = {}
      /\ UNCHANGED <<ready, undone>>
  BY DEF SchedInv, Place, NoPlacement
<1>1. CASE UNCHANGED rows
  BY <1>0, <1>1, NothingWritten DEF SchedInv
<1>2. CASE \E state, stamp : Write(i, state, rows[i].worker, stamp)
  <2>1. PICK state, stamp : Write(i, state, rows[i].worker, stamp)
    BY <1>2
  <2>2. /\ Shaped'
        /\ \A j \in Instances : j # i => rows'[j] = rows[j]
        /\ i \in Instances => rows'[i].worker = rows[i].worker
    BY <1>0, <2>1, Written
  <2> QED
    BY <1>0, <2>2, RowKeepsWorker
<1>3. CASE \E state, stamp : Write(i, state, w, stamp)
  <2>1. PICK state, stamp : Write(i, state, w, stamp)
    BY <1>3
  <2>2. /\ Shaped'
        /\ \A j \in Instances : j # i => rows'[j] = rows[j]
        /\ i \in Instances => rows'[i].worker = w
    BY <1>0, <2>1, Written
  <2>3. \A v \in Workers : v # w => On(v)' \subseteq On(v)
    BY <2>2 DEF On
  <2>4. On(w)' \subseteq On(w) \cup {i}
    BY <2>2 DEF On
  <2>5. Cardinality(On(w)') <= Cardinality(On(w)) + 1
    <3>1. IsFiniteSet(On(w) \cup {i}) /\ Cardinality(On(w) \cup {i}) <= Cardinality(On(w)) + 1
      BY OnFinite, FS_AddElement
    <3>2. Cardinality(On(w)') <= Cardinality(On(w) \cup {i})
      BY <2>4, <3>1, FS_Subset
    <3>3. Cardinality(On(w)') \in Nat /\ Cardinality(On(w) \cup {i}) \in Nat
      BY <2>4, <3>1, FS_Subset, FS_CardinalityType
    <3> QED
      BY <3>1, <3>2, <3>3, OnFinite
  <2>6. Cardinality(On(w)') \in Nat
    BY <2>4, OnFinite, FS_AddElement, FS_Subset, FS_CardinalityType
  <2>7. \A v \in Workers : v # w => /\ Cardinality(On(v)') <= Cardinality(On(v))
                                    /\ Cardinality(On(v)') \in Nat
    BY <2>3, OnFinite, FS_Subset, FS_CardinalityType
  <2> QED
    BY <1>0, <2>2, <2>5, <2>6, <2>7, OnFinite, SchedulerAssumption DEF SchedInv
<1> QED
  BY <1>1, <1>2, <1>3 DEF Place

LEMMA GiveUpKeeps ==
    ASSUME SchedInv, NoCandidate \/ SearchFails
    PROVE  SchedInv'
<1> DEFINE i == cycle.inst
<1>0. /\ Shaped /\ cycle'.candidates = {} /\ UNCHANGED <<ready, undone>> /\ ready \subseteq Workers
  BY DEF SchedInv, NoCandidate, SearchFails, GiveUp, NoPlacement
<1>1. CASE UNCHANGED rows
  BY <1>0, <1>1, NothingWritten
<1>2. CASE Write(i, "PENDING", rows[i].worker, 0)
  <2>2. /\ Shaped'
        /\ \A j \in Instances : j # i => rows'[j] = rows[j]
        /\ i \in Instances => rows'[i].worker = rows[i].worker
    BY <1>0, <1>2, Written
  <2> QED
    BY <1>0, <2>2, RowKeepsWorker
<1> QED
  BY <1>1, <1>2 DEF NoCandidate, SearchFails, GiveUp

(***************************************************************************)
(* A worker's PUT: unless it undoes a placement it names the worker the    *)
(* row has.                                                                *)
(***************************************************************************)
LEMMA WorkerPutsKeeps ==
    ASSUME SchedInv, NEW i \in Instances, NEW copy, WorkerPuts(i, copy)
    PROVE  SchedInv'
<1>0. Shaped /\ ready \subseteq Workers /\ UNCHANGED <<ready, cycle>>
  BY DEF SchedInv, WorkerPuts
<1>1. PICK move \in WorkerMoves : Write(i, move[2], copy.worker, 0)
  BY DEF WorkerPuts
<1>2. /\ Shaped'
      /\ \A j \in Instances : j # i => rows'[j] = rows[j]
      /\ rows'[i].worker = copy.worker
  BY <1>0, <1>1, Written
<1>3. ~undone' => ~undone /\ copy.worker = rows[i].worker
  BY DEF WorkerPuts
<1>4. ~undone' => ~undone /\ Shrinks
  BY <1>2, <1>3, SameWorkerShrinks
<1> QED
  BY <1>0, <1>2, <1>4, ShrinkKeeps

-----------------------------------------------------------------------------
(***************************************************************************)
(* Nothing is held at first, and every step keeps the invariant.           *)
(***************************************************************************)
LEMMA InitSched == Init => SchedInv
<1> SUFFICES ASSUME Init PROVE SchedInv
  OBVIOUS
<1>1. Shaped
  BY DEF Init, Shaped, Absent, Columns
<1>2. \A w \in Workers : On(w) = {}
  BY SchedulerAssumption DEF Init, On, Absent
<1>3. cycle.candidates = {}
  BY DEF Init, NoPlacement
<1>4. \A w \in Workers : Cardinality(On(w)) = 0 /\ Capacity[w] \in Nat
  BY <1>2, FS_EmptySet, SchedulerAssumption
<1> QED
  BY <1>1, <1>3, <1>4 DEF SchedInv, Init

LEMMA NextSched == SchedInv /\ [Next]_vars => SchedInv'
<1> SUFFICES ASSUME SchedInv, [Next]_vars PROVE SchedInv'
  OBVIOUS
<1>0. ready \subseteq Workers
  BY DEF SchedInv
<1>1. CASE \E i \in Instances : Create(i) \/ Delete(i) \/ Age(i)
  BY <1>1, RowStepsKeep
<1>2. CASE \E w \in Workers : WorkerLost(w) \/ WorkerBack(w)
  BY <1>0, <1>2, NothingWritten DEF WorkerLost, WorkerBack
<1>3. CASE Scan \/ OnCreated
  BY <1>0, <1>3, NothingWritten DEF Scan, OnCreated
<1>4. CASE \E s \in Sources, i \in Instances : Evaluation(s, i) \/ Refuse(s, i)
  BY <1>4, EvaluationKeeps
<1>5. CASE Cycle \/ SearchFails
  BY <1>5, TakeKeeps, PlaceKeeps, GiveUpKeeps DEF Cycle
<1>6. CASE Restart
  <2>1. UNCHANGED <<rows, ready, undone>> /\ cycle'.candidates = {}
    BY <1>6 DEF Restart, NoPlacement
  <2> QED
    BY <1>0, <2>1, NothingWritten
<1>7. CASE \E i \in Instances : WorkerReads(i)
  BY <1>0, <1>7, NothingWritten DEF WorkerReads
<1>8. CASE \E i \in Instances : \E copy \in {rows[i], copies[i]} : WorkerPuts(i, copy)
  BY <1>8, WorkerPutsKeeps
<1>9. CASE UNCHANGED vars
  BY <1>0, <1>9, NothingWritten DEF vars
<1> QED
  BY <1>1, <1>2, <1>3, <1>4, <1>5, <1>6, <1>7, <1>8, <1>9 DEF Next

(***************************************************************************)
(* NoOvercommit holds always: whatever the scheduler's snapshot missed     *)
(* while find_candidate ran, no worker is given more than it has, unless a *)
(* worker's PUT of an old row has put an instance back on it.              *)
(***************************************************************************)
THEOREM NeverOvercommitted == Spec => []NoOvercommit
<1>1. SchedInv => NoOvercommit
  BY AllocatedIsOn DEF SchedInv, NoOvercommit
<1> QED
  BY <1>1, InitSched, NextSched, PTL DEF Spec

(***************************************************************************)
(* DeletedStaysDeleted: every write of a row, the late ones included, is   *)
(* of one that still exists or of one that never did.                      *)
(***************************************************************************)
THEOREM DeletedForGood == Spec => DeletedStaysDeleted
<1>1. ASSUME SchedInv, [Next]_vars
      PROVE  [\A i \in Instances : rows[i] = Deleted => rows'[i] = Deleted]_vars
  <2> SUFFICES ASSUME Next, NEW d \in Instances, rows[d] = Deleted PROVE rows'[d] = Deleted
    BY <1>1
  <2>1. rows = [j \in Instances |-> rows[j]]
    BY <1>1 DEF SchedInv, Shaped
  <2>2. ~Exists(Deleted) /\ Deleted # Absent /\ Deleted.state = "DELETED"
    BY DEF Deleted, Absent, Exists, States
  <2>3. \A i, new : i # d /\ rows' = [rows EXCEPT ![i] = new] => rows'[d] = Deleted
    BY <2>1
  <2>4. \A i, state, worker, stamp :
           Exists(rows[i]) /\ Write(i, state, worker, stamp) => rows'[d] = Deleted
    BY <2>1, <2>2 DEF Write
  <2>5. CASE UNCHANGED rows
    BY <2>5
  <2>6. CASE \E i \in Instances : Create(i) \/ Delete(i) \/ Age(i)
    <3>1. PICK i \in Instances : Create(i) \/ Delete(i) \/ Age(i)
      BY <2>6
    <3>2. i # d
      BY <2>2, <3>1 DEF Create, Delete, Age
    <3>3. \E new : rows' = [rows EXCEPT ![i] = new]
      BY <3>1 DEF Create, Delete, Age
    <3> QED
      BY <2>3, <3>2, <3>3
  <2>7. CASE \E s \in Sources, i \in Instances : Evaluation(s, i) \/ Refuse(s, i)
    BY <2>4, <2>5, <2>7 DEF Evaluation, Fetch, Mark, Put, Refuse
  <2>8. CASE Cycle \/ SearchFails
    BY <2>4, <2>5, <2>8 DEF Cycle, Take, NoCandidate, SearchFails, Place, GiveUp
  <2>9. CASE \E i \in Instances : \E copy \in {rows[i], copies[i]} : WorkerPuts(i, copy)
    BY <2>4, <2>9 DEF WorkerPuts
  <2> QED
    BY <2>5, <2>6, <2>7, <2>8, <2>9 DEF Next, WorkerLost, WorkerBack, Scan, OnCreated,
       Restart, WorkerReads
<1> QED
  BY <1>1, InitSched, NextSched, PTL DEF Spec, DeletedStaysDeleted
=============================================================================
