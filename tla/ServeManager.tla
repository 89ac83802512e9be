---------------------------- MODULE ServeManager ----------------------------
(***************************************************************************)
(* One worker that serves model instances: ServeManager and WorkloadCleaner*)
(* (gpustack/worker/) over the watch-backed cache of the generated client. *)
(*                                                                         *)
(* Three threads share the manager's dictionaries.  The loop runs the      *)
(* event callback and the restart of failed instances; a periodic thread   *)
(* runs sync_model_instances_state; another one the cleaner.  The server   *)
(* changes rows at any time, and the stream that reports them may drop.    *)
(*                                                                         *)
(* Instances run on one worker: subordinate workers are left out.  INITIAL-*)
(* IZING, DOWNLOADING and STARTING are one state, STARTING.  The bus       *)
(* coalesces updates, so an event carries the row as it is when delivered. *)
(***************************************************************************)
EXTENDS Integers, Sequences, FiniteSets

CONSTANTS
    Instances,
    Ports,      \* service_port_range
    MaxFaults,  \* bound on dropped streams, worker restarts and failed workloads
    MaxMoves,   \* bound on assignments to this worker
    None

ASSUME ServeAssumption ==
    /\ MaxFaults \in Nat
    /\ MaxMoves \in Nat
    /\ None \notin Ports \cup Instances

VARIABLES
    rows,      \* rows[i]: the row on the server
    moved,     \* the instances that were ever assigned elsewhere
    moves,     \* assignments so far
    stream,    \* stream[i]: types of the events about i not delivered yet
    watching,  \* _watch_started: the stream is up
    cache,     \* the client's cache
    tracked,   \* _model_instance_by_instance_id
    errors,    \* _error_model_instances
    assigned,  \* _assigned_ports
    provision, \* instances whose provisioning process is alive
    work,      \* work[i]: the workload of i
    using,     \* using[i]: the port that process or workload was given
    starting,  \* the instance the loop has stopped and is about to start
    sync,      \* sync_model_instances_state
    faults

server == <<rows, moved, moves, stream>>
tables == <<tracked, errors, assigned>>
running == <<provision, work, using>>
vars == <<rows, moved, moves, stream, watching, cache, tracked, errors, assigned, provision,
          work, using, starting, sync, faults>>

Row == [live : BOOLEAN, at : {"none", "here", "away"}, port : Ports \cup {None},
        state : {"PENDING", "SCHEDULED", "STARTING", "RUNNING", "ERROR"}]
NoRow == [live |-> FALSE, at |-> "none", port |-> None, state |-> "PENDING"]
NoSync == [at |-> "idle", local |-> {}, items |-> [i \in Instances |-> NoRow], reap |-> {}]

\* get_deployment_metadata is not None.
Here(row) == row.live /\ row.at = "here"

Init ==
    /\ rows = [i \in Instances |-> NoRow]
    /\ moved = {}
    /\ moves = 0
    /\ stream = [i \in Instances |-> <<>>]
    /\ watching = FALSE
    /\ cache = [i \in Instances |-> NoRow]
    /\ tracked = {}
    /\ errors = {}
    /\ assigned = [i \in Instances |-> None]
    /\ provision = {}
    /\ work = [i \in Instances |-> "none"]
    /\ using = [i \in Instances |-> None]
    /\ starting = None
    /\ sync = NoSync
    /\ faults = 0

Fault == faults < MaxFaults /\ faults' = faults + 1

(***************************************************************************)
(* A write of row i and the event it publishes: an update waiting in the   *)
(* stream takes the new content, and a dropped stream takes nothing.       *)
(***************************************************************************)
Store(i, row, type) ==
    /\ rows' = [rows EXCEPT ![i] = row]
    /\ moved' = IF row.at = "away" THEN moved \cup {i} ELSE moved
    /\ stream' = [stream EXCEPT ![i] =
                    IF ~watching \/ (@ # <<>> /\ @[Len(@)] = "UPDATED" /\ type = "UPDATED")
                    THEN @ ELSE Append(@, type)]

-----------------------------------------------------------------------------
\* The scheduler places i on this worker.
Assign(i) ==
    /\ moves < MaxMoves
    /\ moves' = moves + 1
    /\ rows[i] = NoRow \/ (rows[i].live /\ rows[i].at = "away")
    /\ Store(i, [rows[i] EXCEPT !.live = TRUE, !.at = "here", !.state = "SCHEDULED"], "UPDATED")
    /\ UNCHANGED <<watching, cache, tables, running, starting, sync, faults>>

\* The scheduler, retrying an instance that did not start, picks another worker.
MoveAway(i) ==
    /\ Here(rows[i])
    /\ Store(i, [rows[i] EXCEPT !.at = "away", !.state = "SCHEDULED"], "UPDATED")
    /\ UNCHANGED <<moves, watching, cache, tables, running, starting, sync, faults>>

\* The row is deleted; ids are not used again.
Delete(i) ==
    /\ rows[i].live
    /\ Store(i, [rows[i] EXCEPT !.live = FALSE], "DELETED")
    /\ UNCHANGED <<moves, watching, cache, tables, running, starting, sync, faults>>

(***************************************************************************)
(* awatch: a new connection clears the cache and makes it authoritative,   *)
(* and the server replays every row as CREATED.  A lost one clears it too. *)
(***************************************************************************)
Connect ==
    /\ ~watching
    /\ watching' = TRUE
    /\ cache' = [i \in Instances |-> NoRow]
    /\ stream' = [i \in Instances |-> IF rows[i].live THEN <<"CREATED">> ELSE <<>>]
    /\ UNCHANGED <<rows, moved, moves, tables, running, starting, sync, faults>>

Disconnect ==
    /\ watching
    /\ starting = None
    /\ Fault
    /\ watching' = FALSE
    /\ cache' = [i \in Instances |-> NoRow]
    /\ stream' = [i \in Instances |-> <<>>]
    /\ UNCHANGED <<rows, moved, moves, tables, running, starting, sync>>

-----------------------------------------------------------------------------
\* What ModelInstanceClient.list() and get() read.
Listed == IF watching THEN cache ELSE rows
Get(i) == IF watching /\ cache[i].live THEN cache[i] ELSE rows[i]

(***************************************************************************)
(* _update_model_instance: read the row, mostly from the cache, change it  *)
(* and PUT all of it; a row that is gone stays gone.                       *)
(***************************************************************************)
Update(i, state, port) ==
    IF rows[i].live /\ Get(i).live
    THEN Store(i, [Get(i) EXCEPT !.state = state, !.port = port], "UPDATED")
    ELSE UNCHANGED <<rows, moved, stream>>

\* _stop_model_instance, of an instance that is deployed here.
Stop(i) ==
    /\ provision' = provision \ {i}
    /\ work' = [work EXCEPT ![i] = "none"]
    /\ using' = [using EXCEPT ![i] = None]
    /\ assigned' = [assigned EXCEPT ![i] = None]
    /\ errors' = errors \ {i}
    /\ tracked' = tracked \ {i}

(***************************************************************************)
(* _assign_ports: a port the row already has is kept as it is; otherwise   *)
(* one that no other instance was assigned here and nobody listens on.     *)
(***************************************************************************)
FreePorts == {p \in Ports : /\ \A j \in Instances : assigned[j] # p
                            /\ \A j \in Instances : work[j] = "up" => using[j] # p}

AssignPort(i, port) ==
    IF cache[i].port # None
    THEN port = cache[i].port /\ UNCHANGED assigned
    ELSE port \in FreePorts /\ assigned' = [assigned EXCEPT ![i] = port]

(***************************************************************************)
(* _start_model_instance of the row the event brought, which the cache     *)
(* still holds.  When no port is left the start fails: ERROR.              *)
(***************************************************************************)
Start(i) ==
    \/ i \in provision /\ UNCHANGED <<rows, moved, stream, assigned, running>>
    \/ /\ i \notin provision
       /\ \E port \in Ports :
             /\ AssignPort(i, port)
             /\ provision' = provision \cup {i}
             /\ using' = [using EXCEPT ![i] = port]
             /\ Update(i, "STARTING", port)
       /\ UNCHANGED work
    \/ /\ i \notin provision
       /\ cache[i].port = None
       /\ FreePorts = {}
       /\ Update(i, "ERROR", None)
       /\ UNCHANGED <<assigned, running>>

(***************************************************************************)
(* One event about i: the cache first, then _dispatch_model_instance_event.*)
(* A restart stops the instance here and starts it in the next step; the   *)
(* periodic threads may run in between.                                    *)
(***************************************************************************)
Track(i) == IF rows[i].at = "here" THEN tracked \cup {i} ELSE tracked

Receive(i, type) ==
    /\ watching
    /\ starting = None
    /\ stream[i] # <<>>
    /\ Head(stream[i]) = type

Dequeue(i) == stream' = [stream EXCEPT ![i] = Tail(@)]
Remember(i) == cache' = [cache EXCEPT ![i] = [rows[i] EXCEPT !.live = TRUE]]

OnCreated(i) ==
    /\ Receive(i, "CREATED")
    /\ Remember(i)
    /\ tracked' = Track(i)
    /\ starting' = IF rows[i].at = "here" /\ rows[i].state # "RUNNING" THEN i ELSE None
    /\ Dequeue(i)
    /\ UNCHANGED <<rows, moved, moves, watching, errors, assigned, running, sync, faults>>

\* Mutant: a failed instance is not remembered for a restart.
OnUpdatedForgetful(i) ==
    /\ Receive(i, "UPDATED")
    /\ Remember(i)
    /\ Dequeue(i)
    /\ IF rows[i].at = "here" /\ rows[i].state = "SCHEDULED"
       THEN Stop(i) /\ starting' = i
       ELSE tracked' = Track(i) /\ UNCHANGED <<errors, assigned, running, starting>>
    /\ UNCHANGED <<rows, moved, moves, watching, sync, faults>>

OnUpdated(i) ==
    /\ Receive(i, "UPDATED")
    /\ Remember(i)
    /\ Dequeue(i)
    /\ IF rows[i].at = "here" /\ rows[i].state = "SCHEDULED"
       THEN Stop(i) /\ starting' = i
       ELSE /\ tracked' = Track(i)
            /\ errors' = IF rows[i].at = "here" /\ rows[i].state = "ERROR"
                         THEN errors \cup {i} ELSE errors
            /\ UNCHANGED <<assigned, running, starting>>
    /\ UNCHANGED <<rows, moved, moves, watching, sync, faults>>

\* Teardown is left to the sync.  A row the client never saw is skipped.
OnDeleted(i) ==
    /\ Receive(i, "DELETED")
    /\ cache' = [cache EXCEPT ![i] = NoRow]
    /\ Dequeue(i)
    /\ tracked' \in {Track(i)} \cup (IF cache[i].live THEN {} ELSE {tracked})
    /\ UNCHANGED <<rows, moved, moves, watching, errors, assigned, running, starting, sync, faults>>

StartInstance(i) ==
    /\ starting = i
    /\ starting' = None
    /\ Start(i)
    /\ UNCHANGED <<moves, watching, cache, tracked, errors, sync, faults>>

\* _restart_error_model_instance, its backoff over.
RestartError(i) ==
    /\ starting = None
    /\ i \in errors
    /\ i \notin provision
    /\ Update(i, "SCHEDULED", Get(i).port)
    /\ errors' = errors \ {i}
    /\ UNCHANGED <<moves, watching, cache, tracked, assigned, running, starting, sync, faults>>

-----------------------------------------------------------------------------
\* The provisioning process creates the workload and exits.
Provisioned(i) ==
    /\ i \in provision
    /\ provision' = provision \ {i}
    /\ work' = [work EXCEPT ![i] = IF @ = "none" THEN "launching" ELSE @]
    /\ UNCHANGED <<server, watching, cache, tables, using, starting, sync, faults>>

\* It listens, unless another workload has the port.
Listens(i) ==
    /\ work[i] = "launching"
    /\ work' = [work EXCEPT ![i] =
                  IF \E j \in Instances \ {i} : work[j] = "up" /\ using[j] = using[i]
                  THEN "failed" ELSE "up"]
    /\ UNCHANGED <<server, watching, cache, tables, provision, using, starting, sync, faults>>

Fails(i) ==
    /\ work[i] \in {"launching", "up"}
    /\ Fault
    /\ work' = [work EXCEPT ![i] = "failed"]
    /\ UNCHANGED <<server, watching, cache, tables, provision, using, starting, sync>>

\* The worker process restarts: its tables are empty, workloads go on.
WorkerRestart ==
    /\ Fault
    /\ watching' = FALSE
    /\ cache' = [i \in Instances |-> NoRow]
    /\ stream' = [i \in Instances |-> <<>>]
    /\ tracked' = {}
    /\ errors' = {}
    /\ assigned' = [i \in Instances |-> None]
    /\ provision' = {}
    /\ starting' = None
    /\ sync' = NoSync
    /\ using' = [i \in Instances |-> IF work[i] = "none" THEN None ELSE using[i]]
    /\ UNCHANGED <<rows, moved, moves, work>>

-----------------------------------------------------------------------------
(***************************************************************************)
(* sync_model_instances_state: what is tracked, then the list, then, when  *)
(* something looks stale, the list from the server itself.                 *)
(***************************************************************************)
SyncSnapshot ==
    /\ sync.at = "idle"
    /\ sync' = [NoSync EXCEPT !.at = "snapshot", !.local = tracked]
    /\ UNCHANGED <<server, watching, cache, tables, running, starting, faults>>

Stale(local, list) == {i \in local : ~Here(list[i])}

\* Mutant: what the cache does not list is reaped without asking the server.
SyncListTrusting ==
    /\ sync.at = "snapshot"
    /\ sync' = [sync EXCEPT !.items = Listed, !.at = "report", !.reap = Stale(sync.local, Listed)]
    /\ UNCHANGED <<server, watching, cache, tables, running, starting, faults>>

SyncList ==
    /\ sync.at = "snapshot"
    /\ sync' = [sync EXCEPT !.items = Listed,
                            !.at = IF Stale(sync.local, Listed) = {} THEN "report" ELSE "confirm"]
    /\ UNCHANGED <<server, watching, cache, tables, running, starting, faults>>

SyncConfirm ==
    /\ sync.at = "confirm"
    /\ sync' = [sync EXCEPT !.items = rows, !.at = "report", !.reap = Stale(sync.local, rows)]
    /\ UNCHANGED <<server, watching, cache, tables, running, starting, faults>>

Reap(i) ==
    /\ sync.at = "report"
    /\ i \in sync.reap
    /\ sync' = [sync EXCEPT !.reap = @ \ {i}]
    /\ IF i \in tracked THEN Stop(i) ELSE UNCHANGED <<tables, running>>
    /\ UNCHANGED <<server, watching, cache, starting, faults>>

(***************************************************************************)
(* Then each listed instance in turn: no workload, or a failed one, makes  *)
(* it ERROR; one that listens makes it RUNNING.                            *)
(***************************************************************************)
Verdict(i) ==
    LET state == sync.items[i].state
    IN  CASE i \in provision \/ work[i] = "launching" \/ state \in {"SCHEDULED", "ERROR"} -> state
          [] work[i] \in {"none", "failed"} -> "ERROR"
          [] work[i] = "up" -> "RUNNING"

Report(i) ==
    /\ sync.at = "report"
    /\ sync.reap = {}
    /\ Here(sync.items[i])
    /\ sync' = [sync EXCEPT !.items[i] = NoRow]
    /\ IF Verdict(i) # sync.items[i].state
       THEN Update(i, Verdict(i), Get(i).port)
       ELSE UNCHANGED <<rows, moved, stream>>
    /\ UNCHANGED <<moves, watching, cache, tables, running, starting, faults>>

SyncDone ==
    /\ sync.at = "report"
    /\ sync.reap = {}
    /\ \A i \in Instances : ~Here(sync.items[i])
    /\ sync' = NoSync
    /\ UNCHANGED <<server, watching, cache, tables, running, starting, faults>>

\* Mutant: only workloads that failed are cleaned.
CleanFailed(i) ==
    /\ work[i] = "failed"
    /\ ~Here(Listed[i])
    /\ work' = [work EXCEPT ![i] = "none"]
    /\ using' = IF i \in provision THEN using ELSE [using EXCEPT ![i] = None]
    /\ UNCHANGED <<server, watching, cache, tables, provision, starting, sync, faults>>

(***************************************************************************)
(* WorkloadCleaner: a workload past its grace period that the list does    *)
(* not place here is deleted; the manager's tables are not touched.        *)
(***************************************************************************)
Clean(i) ==
    /\ work[i] # "none"
    /\ ~Here(Listed[i])
    /\ work' = [work EXCEPT ![i] = "none"]
    /\ using' = IF i \in provision THEN using ELSE [using EXCEPT ![i] = None]
    /\ UNCHANGED <<server, watching, cache, tables, provision, starting, sync, faults>>

-----------------------------------------------------------------------------
Loop(i) ==
    OnCreated(i) \/ OnUpdated(i) \/ OnDeleted(i) \/ StartInstance(i) \/ RestartError(i)

Container(i) == Provisioned(i) \/ Listens(i)

Sync == SyncSnapshot \/ SyncList \/ SyncConfirm \/ SyncDone
          \/ \E i \in Instances : Reap(i) \/ Report(i)

Next ==
    \/ \E i \in Instances :
          Assign(i) \/ MoveAway(i) \/ Delete(i) \/ Loop(i) \/ Container(i) \/ Fails(i) \/ Clean(i)
    \/ Connect \/ Disconnect \/ WorkerRestart \/ Sync

Spec == Init /\ [][Next]_vars

(***************************************************************************)
(* Threads and containers run, the watch reconnects, the cleaner comes     *)
(* round.  Nothing is assumed of the scheduler, of users or of faults.     *)
(***************************************************************************)
FairSpec ==
    /\ Spec
    /\ WF_vars(Connect)
    /\ WF_vars(Sync)
    /\ \A i \in Instances : WF_vars(Loop(i)) /\ WF_vars(Container(i)) /\ WF_vars(Clean(i))

-----------------------------------------------------------------------------
(***************************************************************************)
(* The tables of the three threads hold what the code keeps in them, and   *)
(* no row has more than a replay, an update and a deletion on its way.     *)
(***************************************************************************)
TypeOK ==
    /\ rows \in [Instances -> Row]
    /\ moved \subseteq Instances
    /\ moves \in 0 .. MaxMoves
    /\ \A i \in Instances : /\ stream[i] \in Seq({"CREATED", "UPDATED", "DELETED"})
                            /\ Len(stream[i]) <= 3
    /\ watching \in BOOLEAN
    /\ cache \in [Instances -> Row]
    /\ tracked \subseteq Instances
    /\ errors \subseteq Instances
    /\ assigned \in [Instances -> Ports \cup {None}]
    /\ provision \subseteq Instances
    /\ work \in [Instances -> {"none", "launching", "up", "failed"}]
    /\ using \in [Instances -> Ports \cup {None}]
    /\ starting \in Instances \cup {None}
    /\ sync.reap \subseteq sync.local
    /\ faults \in 0 .. MaxFaults

(***************************************************************************)
(* The sync never picks an instance for reaping that the server has kept   *)
(* on this worker ever since it was placed: not when the assignment is     *)
(* only just arriving, nor while the cache is empty after a reconnect.     *)
(***************************************************************************)
KeptIsNotReaped ==
    \A i \in sync.reap : ~(Here(rows[i]) /\ i \notin moved)

(***************************************************************************)
(* A workload whose instance is deleted or has moved away disappears, even *)
(* if every event about it is lost.                                        *)
(***************************************************************************)
OrphansGo ==
    \A i \in Instances :
       (work[i] # "none" /\ ~Here(rows[i])) ~> (work[i] = "none" \/ Here(rows[i]))

(***************************************************************************)
(* Once faults and moves are over, an instance placed here and never moved *)
(* away ends up RUNNING with its workload up, whatever happened before.    *)
(* The teardown of one that did move may take its return for the old       *)
(* placement; that is left to the scheduler's retry of SCHEDULED rows.     *)
(***************************************************************************)
ServesInTheEnd ==
    \A i \in Instances :
       <>[](Here(rows[i]) /\ i \notin moved => rows[i].state = "RUNNING" /\ work[i] = "up")
=============================================================================
