---------------------------- MODULE WorkerStatus ----------------------------
(***************************************************************************)
(* How the servers know whether a worker is alive, and what becomes of its *)
(* model instance: the status buffers and their flusher                    *)
(* (gpustack/server/worker_status_buffer.py, on every server), the syncer  *)
(* and the instance cleaner (worker_syncer.py, worker_instance_cleaner.py, *)
(* on the leader), Worker.compute_state and WorkerController._reconcile.   *)
(*                                                                         *)
(* One worker with one instance.  Three writers share the worker's row:    *)
(* the two servers' flushers and the leader's syncer.  Each computes the   *)
(* state from a copy it read earlier, and a commit writes the columns that *)
(* differ from that copy; the syncer's copy may come from the leader's     *)
(* cache, which a flush on the other server does not invalidate.           *)
(***************************************************************************)
EXTENDS Integers

CONSTANT MaxFaults   \* bound on stops, outages, failed flushes, lost reachability and
                     \* reports of a GPU that cannot be read

VARIABLES
    up,          \* does the worker run, and post its heartbeats and status?
    reachable,   \* do the servers reach it?
    serving,     \* are the servers, or their database, available?
    heartbeats,  \* is the worker in some server's heartbeat_flush_buffer?
    reports,     \* reports[s]: worker_status_flush_buffer, the state_message reported
    flush,       \* flush[s]: the report being flushed and the row it was read into
    row,         \* the worker's row: state, unreachable, message
    age,         \* of heartbeat_time: 0, 1 past the grace period, 2 past rescheduling
    sync,        \* the syncer: idle, or its copy of the row
    cached,      \* the leader's entry for get_by_id
    marking,     \* has the controller a state change to UNREACHABLE or NOT_READY?
    instance,    \* the instance's state
    faults

wvars == <<up, reachable, serving, heartbeats, reports, flush, row, age, sync,
           cached, marking, instance, faults>>

Sites == {"leader", "peer"}
Nothing == [state |-> "none"]
Rows == [state : {"READY", "UNREACHABLE", "NOT_READY"}, unreachable : BOOLEAN,
         message : {"none", "lost", "address", "gpu"}]

Init ==
    /\ up = TRUE
    /\ reachable = TRUE
    /\ serving = TRUE
    /\ heartbeats = FALSE
    /\ reports = [s \in Sites |-> "empty"]
    /\ flush = [s \in Sites |-> Nothing]
    /\ row = [state |-> "READY", unreachable |-> FALSE, message |-> "none"]
    /\ age = 0
    /\ sync = Nothing
    /\ cached = Nothing
    /\ marking = FALSE
    /\ instance = "RUNNING"
    /\ faults = 0

Fault == faults < MaxFaults /\ faults' = faults + 1

\* Worker.compute_state, for a worker that is neither provisioned nor in maintenance.
ComputeState(w, a) ==
    CASE w.state = "NOT_READY" /\ w.message # "none" -> w
      [] a > 0 -> [w EXCEPT !.state = "NOT_READY", !.message = "lost"]
      [] w.unreachable -> [w EXCEPT !.state = "UNREACHABLE", !.message = "address"]
      [] OTHER -> [w EXCEPT !.state = "READY", !.message = "none"]

(***************************************************************************)
(* A commit of w by a session that had read base: the columns that differ  *)
(* are written, and the UPDATED event lists them.  WorkerController acts   *)
(* on a changed state only.                                                *)
(***************************************************************************)
Commit(base, w) ==
    /\ row' = [c \in DOMAIN row |-> IF w[c] # base[c] THEN w[c] ELSE row[c]]
    /\ marking' = (marking \/ (w.state # base.state /\ w.state # "READY"))

-----------------------------------------------------------------------------
(* The worker, and what reaches the servers. *)

\* Worker._heartbeat and routes/workers.py heartbeat.
PostHeartbeat ==
    /\ up /\ serving
    /\ heartbeats' = TRUE
    /\ UNCHANGED <<up, reachable, serving, reports, flush, row, age, sync, cached,
                   marking, instance, faults>>

\* sync_worker_status and create_worker_status: the latest report replaces the one before.
PostStatus(s, message) ==
    /\ up /\ serving
    /\ reports' = [reports EXCEPT ![s] = message]
    /\ IF message = "gpu" THEN Fault ELSE UNCHANGED faults
    /\ UNCHANGED <<up, reachable, serving, heartbeats, flush, row, age, sync, cached,
                   marking, instance>>

\* ServeManager finds the instance healthy.
InstanceHealthy ==
    /\ up /\ serving
    /\ instance = "UNREACHABLE"
    /\ instance' = "RUNNING"
    /\ UNCHANGED <<up, reachable, serving, heartbeats, reports, flush, row, age, sync,
                   cached, marking, faults>>

StopOrResume ==
    /\ up' = ~up
    /\ IF up THEN Fault ELSE UNCHANGED faults
    /\ UNCHANGED <<reachable, serving, heartbeats, reports, flush, row, age, sync,
                   cached, marking, instance>>

Reachability ==
    /\ reachable' = ~reachable
    /\ IF reachable THEN Fault ELSE UNCHANGED faults
    /\ UNCHANGED <<up, serving, heartbeats, reports, flush, row, age, sync, cached,
                   marking, instance>>

(***************************************************************************)
(* A grace period passes with no heartbeat stored.  A worker posts one     *)
(* every 30 s and a server flushes every 5 s, so that takes a worker that  *)
(* has stopped or servers that are not there.                              *)
(***************************************************************************)
Silence ==
    /\ age < 2
    /\ ~(up /\ serving)
    /\ ~heartbeats
    /\ \A s \in Sites : reports[s] = "empty" /\ flush[s] = Nothing
    /\ age' = age + 1
    /\ UNCHANGED <<up, reachable, serving, heartbeats, reports, flush, row, sync,
                   cached, marking, instance, faults>>

\* Servers stop: buffers, cache and whatever was under way are gone.
Outage ==
    /\ serving /\ Fault
    /\ serving' = FALSE
    /\ heartbeats' = FALSE
    /\ reports' = [s \in Sites |-> "empty"]
    /\ flush' = [s \in Sites |-> Nothing]
    /\ sync' = Nothing
    /\ cached' = Nothing
    /\ marking' = FALSE
    /\ UNCHANGED <<up, reachable, row, age, instance>>

Return ==
    /\ ~serving
    /\ serving' = TRUE
    /\ UNCHANGED <<up, reachable, heartbeats, reports, flush, row, age, sync, cached,
                   marking, instance, faults>>

-----------------------------------------------------------------------------
(* The flusher of each server. *)

\* Mutant of flush_heartbeats: the buffer is copied but not cleared.
FlushHeartbeatsAgain ==
    /\ heartbeats
    /\ age' = 0
    /\ UNCHANGED <<up, reachable, serving, heartbeats, reports, flush, row, sync,
                   cached, marking, instance, faults>>

\* flush_heartbeats: one UPDATE of heartbeat_time; the state is not computed.
FlushHeartbeats ==
    /\ heartbeats
    /\ heartbeats' = FALSE
    /\ \/ age' = 0 /\ UNCHANGED faults
       \/ UNCHANGED age /\ Fault
    /\ UNCHANGED <<up, reachable, serving, reports, flush, row, sync, cached, marking,
                   instance>>

\* flush_worker_status empties the buffer and reads the row.
FlushLoad(s) ==
    /\ reports[s] # "empty" /\ flush[s] = Nothing
    /\ reports' = [reports EXCEPT ![s] = "empty"]
    /\ flush' = [flush EXCEPT ![s] = [state |-> "read", row |-> row, message |-> reports[s]]]
    /\ UNCHANGED <<up, reachable, serving, heartbeats, row, age, sync, cached, marking,
                   instance, faults>>

\* Mutant: the report's fields are set without state_message.
FlushStoreStatus(s) ==
    /\ flush[s] # Nothing
    /\ flush' = [flush EXCEPT ![s] = Nothing]
    /\ Commit(flush[s].row, ComputeState(flush[s].row, 0))
    /\ age' = 0
    /\ cached' = IF s = "leader" THEN Nothing ELSE cached
    /\ UNCHANGED <<up, reachable, serving, heartbeats, reports, sync, instance, faults>>

(***************************************************************************)
(* It sets the reported fields, computes the state and commits; this       *)
(* server's cache forgets the worker.  A failure loses the report.         *)
(***************************************************************************)
FlushStore(s) ==
    LET reported == [flush[s].row EXCEPT !.message = flush[s].message] IN
    /\ flush[s] # Nothing
    /\ flush' = [flush EXCEPT ![s] = Nothing]
    /\ \/ /\ Commit(flush[s].row, ComputeState(reported, 0))
          /\ age' = 0
          /\ cached' = IF s = "leader" THEN Nothing ELSE cached
          /\ UNCHANGED faults
       \/ Fault /\ UNCHANGED <<row, marking, age, cached>>
    /\ UNCHANGED <<up, reachable, serving, heartbeats, reports, sync, instance>>

-----------------------------------------------------------------------------
(* The leader. *)

\* WorkerService.get_by_id, called for a request, fills the cache.
CacheFill ==
    /\ serving /\ cached = Nothing
    /\ cached' = row
    /\ UNCHANGED <<up, reachable, serving, heartbeats, reports, flush, row, age, sync,
                   marking, instance, faults>>

\* _sync_workers_states loads the workers.
SyncLoad ==
    /\ serving /\ sync = Nothing
    /\ sync' = [state |-> "loaded", row |-> row, age |-> age]
    /\ UNCHANGED <<up, reachable, serving, heartbeats, reports, flush, row, age, cached,
                   marking, instance, faults>>

\* The probes are back: the state is computed, and kept to be written if it changed.
SyncCompute ==
    LET probed == [sync.row EXCEPT !.unreachable = ~(up /\ reachable)]
        new == ComputeState(probed, sync.age) IN
    /\ sync.state = "loaded"
    /\ sync' = IF new.state = probed.state /\ new.message = probed.message THEN Nothing
               ELSE [state |-> "computed", row |-> new]
    /\ UNCHANGED <<up, reachable, serving, heartbeats, reports, flush, row, age, cached,
                   marking, instance, faults>>

(***************************************************************************)
(* "reload from DB and update states only": get_by_id returns the cached   *)
(* entry if there is one, and the update deletes it.                       *)
(***************************************************************************)
SyncWrite ==
    /\ sync.state = "computed"
    /\ Commit(IF cached = Nothing THEN row ELSE cached, sync.row)
    /\ cached' = Nothing
    /\ sync' = Nothing
    /\ UNCHANGED <<up, reachable, serving, heartbeats, reports, flush, age, instance,
                   faults>>

\* update_impacted_instance_states_to_unreachable.
MarkInstance ==
    /\ marking
    /\ marking' = FALSE
    /\ instance' = IF instance = "RUNNING" THEN "UNREACHABLE" ELSE instance
    /\ UNCHANGED <<up, reachable, serving, heartbeats, reports, flush, row, age, sync,
                   cached, faults>>

\* _cleanup_offline_worker_instances.
Clean ==
    /\ serving
    /\ row.state = "NOT_READY" /\ age = 2
    /\ instance # "deleted"
    /\ instance' = "deleted"
    /\ UNCHANGED <<up, reachable, serving, heartbeats, reports, flush, row, age, sync,
                   cached, marking, faults>>

-----------------------------------------------------------------------------
FlushStatus(s) == FlushLoad(s) \/ FlushStore(s)
Syncer == SyncLoad \/ SyncCompute \/ SyncWrite
Report == \E s \in Sites : PostStatus(s, "none")
TimePasses == FlushHeartbeats \/ Silence \/ Return
InstanceMoves == MarkInstance \/ InstanceHealthy \/ Clean

Next ==
    \/ PostHeartbeat \/ TimePasses
    \/ \E s \in Sites : \/ FlushStatus(s)
                          \/ \E message \in {"none", "gpu"} : PostStatus(s, message)
    \/ StopOrResume \/ Reachability \/ Outage
    \/ CacheFill \/ Syncer \/ InstanceMoves

Spec == Init /\ [][Next]_wvars

-----------------------------------------------------------------------------
(* Properties. *)

TypeOK ==
    /\ heartbeats \in BOOLEAN
    /\ reports \in [Sites -> {"empty", "none", "gpu"}]
    /\ row \in Rows
    /\ age \in 0 .. 2
    /\ cached \in Rows \cup {Nothing}
    /\ instance \in {"RUNNING", "UNREACHABLE", "deleted"}

(***************************************************************************)
(* A worker that stays up and reachable is READY from some time on and its *)
(* instance is not left UNREACHABLE: a write from a stale copy, a lost     *)
(* flush or an outage is repaired, although compute_state keeps a          *)
(* NOT_READY worker NOT_READY as long as its message stands, so that no    *)
(* heartbeat can bring it back.                                            *)
(***************************************************************************)
LiveIsReady ==
    <>[](up /\ reachable) => <>[](row.state = "READY" /\ instance # "UNREACHABLE")

(***************************************************************************)
(* The instance of a worker that stays away is deleted, to be placed       *)
(* elsewhere, whatever state the worker's row was left in.                 *)
(***************************************************************************)
DeadIsCleaned == <>[]~up => <>(instance = "deleted")
=============================================================================
