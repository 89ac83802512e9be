----------------------------- MODULE Scheduler -----------------------------
(***************************************************************************)
(* The model-instance scheduler (gpustack/scheduler/scheduler.py and       *)
(* queue.py) with the rows it works on: the CREATED events and the         *)
(* periodic scan that start evaluations, the evaluations themselves, the   *)
(* queue they feed, the single cycle that places instances, and the two    *)
(* other writers of those rows, the workers and whoever deletes them.      *)
(*                                                                         *)
(* An evaluation and a placement each read a row, await, and write it      *)
(* back, so every await is a step boundary here.  A session writes only    *)
(* the columns it changed.  A worker instead reads a row, mostly from its  *)
(* watch cache, and PUTs all of it (ServeManager._update_model_instance).  *)
(*                                                                         *)
(* An instance claims one unit of a worker.  INITIALIZING, DOWNLOADING,    *)
(* STARTING and RUNNING are one state, STARTED: the scheduler does not     *)
(* tell them apart.                                                        *)
(***************************************************************************)
EXTENDS Integers, Sequences, FiniteSets

CONSTANTS
    Instances,  \* ids of model instances, each used once
    Workers,
    Capacity,   \* Capacity[w]: the units worker w has
    Lag,        \* whether a row may change between a worker's read and its PUT
    MaxFaults,  \* bound on server restarts, lost workers, failed evaluations and
                \* searches, and worker reads that lag behind
    MaxAges,    \* bound on how often a row outlives its limit; None: no bound
    None

ASSUME SchedulerAssumption ==
    /\ IsFiniteSet(Instances)
    /\ Capacity \in [Workers -> Nat]
    /\ Lag \in BOOLEAN
    /\ MaxFaults \in Nat
    /\ MaxAges \in Nat \cup {None}
    /\ None \notin Workers

VARIABLES
    rows,    \* rows[i]: the row of instance i
    events,  \* CREATED events on their way to the live subscription
    tasks,   \* tasks[s][i]: the _evaluate task of i started by source s
    queue,   \* AsyncUniqueQueue
    cycle,   \* the placement _schedule_one is working on
    ready,   \* the READY workers
    copies,  \* copies[i]: row i as a worker read it to PUT it back later
    undone,  \* whether such a PUT has put an instance back on a former worker
    faults,  \* faults so far
    ages     \* rows that outlived their limit so far, if that is bounded

vars == <<rows, events, tasks, queue, cycle, ready, copies, undone, faults, ages>>

Sources == {"live", "scan"}
States == {"PENDING", "ANALYZING", "SCHEDULED", "STARTED", "ERROR"}

(***************************************************************************)
(* due: the time limit of _should_schedule for the row's state has passed. *)
(* For a PENDING row that is 90 s since the last update, or no update      *)
(* later than a second after the creation.                                 *)
(*                                                                         *)
(* stamp: which of the evaluations under way or queued made the row        *)
(* ANALYZING; updated_at tells their copies of the row apart.              *)
(***************************************************************************)
Row == [state : States, worker : Workers \cup {None}, due : BOOLEAN, stamp : Nat]
Absent == [state |-> "ABSENT", worker |-> None, due |-> FALSE, stamp |-> 0]
Deleted == [Absent EXCEPT !.state = "DELETED"]
Exists(row) == row.state \in States

Idle == [at |-> "idle", stamp |-> 0]
NoPlacement == [inst |-> None, state |-> "ABSENT", worker |-> None, candidates |-> {}]

Init ==
    /\ rows = [i \in Instances |-> Absent]
    /\ events = <<>>
    /\ tasks = [s \in Sources |-> [i \in Instances |-> Idle]]
    /\ queue = <<>>
    /\ cycle = NoPlacement
    /\ ready = Workers
    /\ copies = [i \in Instances |-> Absent]
    /\ undone = FALSE
    /\ faults = 0
    /\ ages = 0

\* Mutant: an evaluation cut short by a restart is not taken up again.
ShouldSchedulePending(row) ==
    /\ row.due
    /\ \/ row.worker = None /\ row.state = "PENDING"
       \/ row.worker # None /\ row.state = "SCHEDULED"

(***************************************************************************)
(* Scheduler._should_schedule.                                             *)
(***************************************************************************)
ShouldSchedule(row) ==
    /\ row.due
    /\ \/ row.worker = None /\ row.state \in {"PENDING", "ANALYZING"}
       \/ row.worker # None /\ row.state = "SCHEDULED"

\* One UPDATE of row i.
Write(i, state, worker, stamp) ==
    rows' = [rows EXCEPT ![i] = [state |-> state, worker |-> worker, due |-> FALSE,
                                 stamp |-> IF state = "ANALYZING" THEN stamp ELSE 0]]

-----------------------------------------------------------------------------
(***************************************************************************)
(* A replica is created: sync_replicas inserts a PENDING row, and the      *)
(* commit publishes CREATED.                                               *)
(***************************************************************************)
Create(i) ==
    /\ rows[i] = Absent
    /\ rows' = [rows EXCEPT ![i] =
                  [state |-> "PENDING", worker |-> None, due |-> TRUE, stamp |-> 0]]
    /\ events' = Append(events, i)
    /\ UNCHANGED <<tasks, queue, cycle, ready, copies, undone, faults, ages>>

\* A scale-down, a user, or the cleaner of offline workers deletes the row.
Delete(i) ==
    /\ Exists(rows[i])
    /\ rows' = [rows EXCEPT ![i] = Deleted]
    /\ UNCHANGED <<events, tasks, queue, cycle, ready, copies, undone, faults, ages>>

\* Time passes: row i gets older than the limit of its state, if it has one.
Age(i) ==
    /\ rows[i].state \in {"PENDING", "ANALYZING", "SCHEDULED"}
    /\ ~rows[i].due
    /\ rows' = [rows EXCEPT ![i].due = TRUE]
    /\ IF MaxAges = None THEN UNCHANGED ages ELSE ages < MaxAges /\ ages' = ages + 1
    /\ UNCHANGED <<events, tasks, queue, cycle, ready, copies, undone, faults>>

\* The syncer finds that a worker is not READY, or is again.
WorkerLost(w) ==
    /\ w \in ready
    /\ faults < MaxFaults
    /\ faults' = faults + 1
    /\ ready' = ready \ {w}
    /\ UNCHANGED <<rows, events, tasks, queue, cycle, copies, undone, ages>>

WorkerBack(w) ==
    /\ w \notin ready
    /\ ready' = ready \cup {w}
    /\ UNCHANGED <<rows, events, tasks, queue, cycle, copies, undone, faults, ages>>

-----------------------------------------------------------------------------
Dispatched(is) == [i \in Instances |-> [at |-> IF i \in is THEN "fetch" ELSE "idle", stamp |-> 0]]
Due == {i \in Instances : ShouldSchedule(rows[i])}
Busy(s) == \E i \in Instances : tasks[s][i] # Idle

(***************************************************************************)
(* _enqueue_pending_instances, run by the interval job: one evaluation per *)
(* row that is due.  max_instances = 1 keeps two scans from overlapping.   *)
(***************************************************************************)
Scan ==
    /\ ~Busy("scan")
    /\ Due # {}
    /\ tasks' = [tasks EXCEPT !["scan"] = Dispatched(Due)]
    /\ UNCHANGED <<rows, events, queue, cycle, ready, copies, undone, faults, ages>>

\* The live subscription: one CREATED event at a time, awaited to the end.
OnCreated ==
    /\ events # <<>>
    /\ ~Busy("live")
    /\ events' = Tail(events)
    /\ tasks' = [tasks EXCEPT !["live"] = Dispatched({Head(events)})]
    /\ UNCHANGED <<rows, queue, cycle, ready, copies, undone, faults, ages>>

(***************************************************************************)
(* _evaluate reads the row again and re-checks it.  One that is ANALYZING  *)
(* already is not written.                                                 *)
(***************************************************************************)
Fetch(s, i) ==
    /\ tasks[s][i].at = "fetch"
    /\ tasks' = [tasks EXCEPT ![s][i] =
                   IF ~ShouldSchedule(rows[i]) THEN Idle
                   ELSE IF rows[i].state = "ANALYZING"
                        THEN [at |-> "evaluate", stamp |-> rows[i].stamp]
                        ELSE [at |-> "mark", stamp |-> 0]]
    /\ UNCHANGED <<rows, events, queue, cycle, ready, copies, undone, faults, ages>>

Known(i) == {queue[n].stamp : n \in {n \in DOMAIN queue : queue[n].inst = i}}
              \cup {tasks[s][i].stamp : s \in Sources}
NewStamp(i) == CHOOSE n \in 1 .. Cardinality(Known(i)) + 1 : n \notin Known(i)

(***************************************************************************)
(* ... marks it ANALYZING.  The UPDATE of a row deleted since fails, and   *)
(* so does the one that would report the failure.                          *)
(***************************************************************************)
Mark(s, i) ==
    /\ tasks[s][i].at = "mark"
    /\ \/ /\ Exists(rows[i])
          /\ Write(i, "ANALYZING", rows[i].worker, NewStamp(i))
          /\ tasks' = [tasks EXCEPT ![s][i] = [at |-> "evaluate", stamp |-> rows'[i].stamp]]
       \/ /\ ~Exists(rows[i])
          /\ tasks' = [tasks EXCEPT ![s][i] = Idle]
          /\ UNCHANGED rows
    /\ UNCHANGED <<events, queue, cycle, ready, copies, undone, faults, ages>>

(***************************************************************************)
(* ... and, the model evaluated, queues it.  AsyncUniqueQueue refuses an   *)
(* item equal to a queued one; equality is that of all columns, so the     *)
(* same instance read at another updated_at is another item.               *)
(***************************************************************************)
Put(s, i) ==
    /\ tasks[s][i].at = "evaluate"
    /\ LET item == [inst |-> i, stamp |-> tasks[s][i].stamp]
       IN  queue' = IF \E n \in DOMAIN queue : queue[n] = item THEN queue ELSE Append(queue, item)
    /\ tasks' = [tasks EXCEPT ![s][i] = Idle]
    /\ UNCHANGED <<rows, events, cycle, ready, copies, undone, faults, ages>>

\* ... or reports ERROR: the model is gone or cannot be distributed.
Refuse(s, i) ==
    /\ tasks[s][i].at \in {"mark", "evaluate"}
    /\ faults < MaxFaults
    /\ faults' = faults + 1
    /\ IF Exists(rows[i]) THEN Write(i, "ERROR", rows[i].worker, 0) ELSE UNCHANGED rows
    /\ tasks' = [tasks EXCEPT ![s][i] = Idle]
    /\ UNCHANGED <<events, queue, cycle, ready, copies, undone, ages>>

-----------------------------------------------------------------------------
\* compute_worker_allocated: what rows place on w, whatever their state.
Allocated(holders, w) == Cardinality({i \in DOMAIN holders : holders[i] = w})

Held == [i \in Instances |-> rows[i].worker]

\* Mutant: an instance in ERROR frees its claim.
CandidatesOfActive ==
    LET held == [i \in Instances |-> IF rows[i].state = "ERROR" THEN None ELSE rows[i].worker]
    IN  {w \in ready : Allocated(held, w) < Capacity[w]}

(***************************************************************************)
(* find_candidate: the READY workers that can still hold the instance.     *)
(* The claim the instance itself may hold counts too.                      *)
(***************************************************************************)
Candidates == {w \in ready : Allocated(Held, w) < Capacity[w]}

(***************************************************************************)
(* _schedule_cycle takes an item; _schedule_one reads the workers, the row *)
(* and every other row, and looks for a candidate among what it read.      *)
(***************************************************************************)
Take ==
    /\ cycle = NoPlacement
    /\ queue # <<>>
    /\ queue' = Tail(queue)
    /\ LET i == Head(queue).inst
       IN  cycle' = IF Exists(rows[i])
                    THEN [inst |-> i, state |-> rows[i].state, worker |-> rows[i].worker,
                          candidates |-> Candidates]
                    ELSE NoPlacement
    /\ UNCHANGED <<rows, events, tasks, ready, copies, undone, faults, ages>>

(***************************************************************************)
(* A candidate was picked.  The columns that differ from those read are    *)
(* written; the state the row may have reached meanwhile is not looked at. *)
(***************************************************************************)
Place(w) ==
    /\ cycle # NoPlacement
    /\ w \in cycle.candidates
    /\ LET i == cycle.inst
           state == IF cycle.state = "SCHEDULED" THEN rows[i].state ELSE "SCHEDULED"
           worker == IF cycle.worker = w THEN rows[i].worker ELSE w
       IN  IF Exists(rows[i]) THEN Write(i, state, worker, rows[i].stamp) ELSE UNCHANGED rows
    /\ cycle' = NoPlacement
    /\ UNCHANGED <<events, tasks, queue, ready, copies, undone, faults, ages>>

(***************************************************************************)
(* Back to PENDING, the worker column left as it is.                       *)
(***************************************************************************)
GiveUp ==
    /\ LET i == cycle.inst
       IN  IF Exists(rows[i]) /\ cycle.state \in {"SCHEDULED", "ANALYZING"}
           THEN Write(i, "PENDING", rows[i].worker, 0)
           ELSE UNCHANGED rows
    /\ cycle' = NoPlacement

NoCandidate ==
    /\ cycle # NoPlacement
    /\ cycle.candidates = {}
    /\ GiveUp
    /\ UNCHANGED <<events, tasks, queue, ready, copies, undone, faults, ages>>

\* find_candidate raised, or the model was not found.
SearchFails ==
    /\ cycle # NoPlacement
    /\ faults < MaxFaults
    /\ faults' = faults + 1
    /\ GiveUp
    /\ UNCHANGED <<events, tasks, queue, ready, copies, undone, ages>>

(***************************************************************************)
(* The server restarts: queue, tasks and events are gone.  start() scans   *)
(* once before it listens.                                                 *)
(***************************************************************************)
Restart ==
    /\ faults < MaxFaults
    /\ faults' = faults + 1
    /\ events' = <<>>
    /\ queue' = <<>>
    /\ cycle' = NoPlacement
    /\ tasks' = [tasks EXCEPT !["live"] = Dispatched(Due), !["scan"] = Dispatched({})]
    /\ UNCHANGED <<rows, ready, copies, undone, ages>>

-----------------------------------------------------------------------------
\* What ServeManager makes of an instance it finds in a state.
WorkerMoves == {<<"SCHEDULED", "STARTED">>, <<"STARTED", "ERROR">>, <<"ERROR", "SCHEDULED">>}

(***************************************************************************)
(* A worker reads an instance placed on it, well before it PUTs it.        *)
(***************************************************************************)
WorkerReads(i) ==
    /\ Lag
    /\ rows[i].worker # None
    /\ copies[i] # rows[i]
    /\ faults < MaxFaults
    /\ faults' = faults + 1
    /\ copies' = [copies EXCEPT ![i] = rows[i]]
    /\ UNCHANGED <<rows, events, tasks, queue, cycle, ready, undone, ages>>

\* Mutant: a PUT to a row that is gone creates it again.
WorkerPutsBlind(i, copy) ==
    /\ rows[i] # Absent
    /\ copy.worker # None
    /\ \E move \in WorkerMoves : copy.state = move[1] /\ Write(i, move[2], copy.worker, 0)
    /\ undone' = (undone \/ copy.worker # rows[i].worker)
    /\ copies' = [copies EXCEPT ![i] = IF @ = copy THEN Absent ELSE @]
    /\ UNCHANGED <<events, tasks, queue, cycle, ready, faults, ages>>

(***************************************************************************)
(* It starts, fails or restarts the instance, and PUTs what it read with   *)
(* the new state: every column of it, if the row is still there.           *)
(***************************************************************************)
WorkerPuts(i, copy) ==
    /\ Exists(rows[i])
    /\ copy.worker # None
    /\ \E move \in WorkerMoves : copy.state = move[1] /\ Write(i, move[2], copy.worker, 0)
    /\ undone' = (undone \/ copy.worker # rows[i].worker)
    /\ copies' = [copies EXCEPT ![i] = IF @ = copy THEN Absent ELSE @]
    /\ UNCHANGED <<events, tasks, queue, cycle, ready, faults, ages>>

-----------------------------------------------------------------------------
Evaluation(s, i) == Fetch(s, i) \/ Mark(s, i) \/ Put(s, i)

Cycle == Take \/ NoCandidate \/ \E w \in Workers : Place(w)

Next ==
    \/ \E i \in Instances : Create(i) \/ Delete(i) \/ Age(i)
    \/ \E w \in Workers : WorkerLost(w) \/ WorkerBack(w)
    \/ Scan \/ OnCreated
    \/ \E s \in Sources, i \in Instances : Evaluation(s, i) \/ Refuse(s, i)
    \/ Cycle \/ SearchFails \/ Restart
    \/ \E i \in Instances :
          WorkerReads(i) \/ \E copy \in {rows[i], copies[i]} : WorkerPuts(i, copy)

Spec == Init /\ [][Next]_vars

(***************************************************************************)
(* The clock runs, the interval job fires, and tasks on the server's loop  *)
(* are resumed.  Nothing is assumed of workers, users or faults.           *)
(***************************************************************************)
FairSpec ==
    /\ Spec
    /\ \A i \in Instances : WF_vars(Age(i))
    /\ WF_vars(Scan)
    /\ WF_vars(OnCreated)
    /\ \A s \in Sources, i \in Instances : WF_vars(Evaluation(s, i))
    /\ WF_vars(Cycle)

-----------------------------------------------------------------------------
(***************************************************************************)
(* Rows, tasks, queue and placement hold what the code keeps in them.      *)
(***************************************************************************)
TypeOK ==
    /\ rows \in [Instances -> Row \cup {Absent, Deleted}]
    /\ events \in Seq(Instances)
    /\ tasks \in [Sources -> [Instances ->
                   [at : {"idle", "fetch", "mark", "evaluate"}, stamp : Nat]]]
    /\ queue \in Seq([inst : Instances, stamp : Nat])
    /\ \/ cycle = NoPlacement
       \/ cycle \in [inst : Instances, state : States, worker : Workers \cup {None},
                    candidates : SUBSET Workers]
    /\ ready \subseteq Workers
    /\ copies \in [Instances -> Row \cup {Absent}]
    /\ undone \in BOOLEAN
    /\ faults \in 0 .. MaxFaults
    /\ ages \in Nat

(***************************************************************************)
(* The instances placed on a worker never claim more than it has: the      *)
(* scheduler's snapshot may be old, but it is the only one that places.    *)
(* Only a worker's PUT of a row that has moved since can undo that.        *)
(***************************************************************************)
NoOvercommit ==
    ~undone => \A w \in Workers : Allocated(Held, w) <= Capacity[w]

(***************************************************************************)
(* A deleted instance stays deleted and holds no worker, although an       *)
(* evaluation, a placement and a worker's PUT may each have read the row   *)
(* before the deletion and write it after.                                 *)
(***************************************************************************)
DeletedStaysDeleted ==
    [][\A i \in Instances : rows[i] = Deleted => rows'[i] = Deleted]_vars

Room == \E w \in ready : Allocated(Held, w) < Capacity[w]

(***************************************************************************)
(* An instance that holds no worker is placed, refused or deleted in the   *)
(* end if some READY worker has room from some time on: neither a lost     *)
(* event, nor a restart in mid-evaluation, nor a failed search leaves it   *)
(* out of _should_schedule for good.                                       *)
(***************************************************************************)
UnplacedIsPlaced ==
    \A i \in Instances :
       <>[]Room => [](Exists(rows[i]) /\ rows[i].worker = None
                        => <>(rows[i].worker # None \/ rows[i].state \in {"ERROR", "DELETED"}))

(***************************************************************************)
(* A PENDING instance is tried again: with room on a READY worker from     *)
(* some time on it does not stay PENDING.  _should_schedule says of        *)
(* "Existing PENDING model instances" that they are "periodically enqueued *)
(* by the scheduler job".                                                  *)
(***************************************************************************)
PendingIsRetried ==
    \A i \in Instances : ~ <>[](Room /\ rows[i].state = "PENDING")
=============================================================================
