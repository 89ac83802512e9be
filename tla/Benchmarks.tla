----------------------------- MODULE Benchmarks -----------------------------
(***************************************************************************)
(* One worker that runs benchmarks, one at a time: BenchmarkManager        *)
(* (gpustack/worker/benchmark_manager.py), the process that provisions a   *)
(* run, the WorkloadCleaner, and the state route of the server.            *)
(*                                                                         *)
(* The loop runs the event callback, the tasks that enqueue and stop, and  *)
(* the queue worker; a periodic thread runs sync_benchmark_state over the  *)
(* cache that the watch keeps.  Users stop and delete rows at any time.    *)
(* The server takes every PATCH of a state as it comes, except STOPPED on  *)
(* a row that has ended.                                                   *)
(*                                                                         *)
(* Logs are left out, and of metrics and analysis only whether what is     *)
(* published is marked in_progress.  What the worker does on the loop      *)
(* without awaiting is one step; in the thread, every call to the server   *)
(* or to the container runtime is.                                         *)
(***************************************************************************)
EXTENDS Integers, Sequences, FiniteSets, SequencesExt

CONSTANTS
    Ids,        \* the benchmarks of this worker
    Lag,        \* how many events of a row may wait before updates must be merged
    MaxFaults,  \* bound on failed calls, dropped streams and worker restarts
    None

VARIABLES
    row,         \* row[b]: the state of the row, "absent" or "gone"
    provisional, \* the rows whose published analysis is marked in_progress
    up,          \* _watch_started
    stream,      \* stream[b]: states reported and not delivered yet
    view,        \* view[b]: the cache of the client
    calls,       \* the enqueue tasks that wait for _queue_lock
    stops,       \* the stop tasks
    enqueuing,   \* whose PATCH to QUEUED is on its way, under the lock
    queue,       \* _benchmark_queue
    canceled,    \* _canceled_ids
    active,      \* _active_benchmark_id
    launch,      \* the PATCH of _start_benchmark on its way: [id, to]
    process,     \* _provisioning_processes[b]: "none", "alive" or "over"
    work,        \* work[b]: the workload
    sync,        \* sync_benchmark_state: [at, id, todo]
    marks,       \* what has happened to a benchmark: pairs <<b, what>>
    faults

server == <<row, provisional, stream>>
tables == <<calls, stops, enqueuing, queue, canceled, active, launch>>
vars == <<row, provisional, up, stream, view, calls, stops, enqueuing, queue, canceled,
          active, launch, process, work, sync, marks, faults>>

Ended == {"completed", "stopped", "error"}
States == {"pending", "queued", "running"} \cup Ended
Exists(b) == row[b] \in States

NoPatch == [id |-> None, to |-> "running"]
NoSync == [at |-> "idle", id |-> None, todo |-> {}]

Init ==
    /\ row = [b \in Ids |-> "absent"]
    /\ provisional = {}
    /\ up = TRUE
    /\ stream = [b \in Ids |-> <<>>]
    /\ view = [b \in Ids |-> "absent"]
    /\ calls = <<>>
    /\ stops = {}
    /\ enqueuing = None
    /\ queue = <<>>
    /\ canceled = {}
    /\ active = None
    /\ launch = NoPatch
    /\ process = [b \in Ids |-> "none"]
    /\ work = [b \in Ids |-> "none"]
    /\ sync = NoSync
    /\ marks = {}
    /\ faults = 0

Fault == faults < MaxFaults /\ faults' = faults + 1

(***************************************************************************)
(* What the properties ask of the past.  b was                             *)
(*   asked    stopped or deleted by a user                                 *)
(*   crossed  taken up twice or when it was not PENDING, or written to     *)
(*            when it was not in the state for it                          *)
(*   stray    left with a workload nobody could delete or tracks any more  *)
(*   stuck    left to nobody: QUEUED when the worker restarted, deleted    *)
(*            while the stream was down, failed by its own process, or not *)
(*            started and not reported as failed                           *)
(*   late     given a provisional analysis after it had ended              *)
(***************************************************************************)
Happened(b, what) == <<b, what>> \in marks

-----------------------------------------------------------------------------
(***************************************************************************)
(* A write and the event it publishes.  Of two updates that wait in the    *)
(* subscriber's queue the newer may replace the older; a dropped stream    *)
(* takes nothing.                                                          *)
(***************************************************************************)
Store(b, state) ==
    /\ row' = [row EXCEPT ![b] = state]
    /\ \/ /\ up /\ (Len(stream[b]) < Lag \/ state = "gone")
          /\ stream' = [stream EXCEPT ![b] = Append(@, state)]
       \/ /\ up /\ stream[b] # <<>> /\ Last(stream[b]) # "pending" /\ state # "gone"
          /\ stream' = [stream EXCEPT ![b] = Append(Front(@), state)]
       \/ ~up /\ UNCHANGED stream

\* The user creates a benchmark of an instance of this worker.
Create(b) ==
    /\ row[b] = "absent"
    /\ Store(b, "pending")
    /\ UNCHANGED <<provisional, up, view, tables, process, work, sync, marks, faults>>

UserStop(b) ==
    /\ row[b] \in {"queued", "pending", "running"}
    /\ Store(b, "stopped")
    /\ marks' = marks \cup {<<b, "asked">>}
    /\ UNCHANGED <<provisional, up, view, tables, process, work, sync, faults>>

\* The DELETED of a row that goes while the stream is down is never delivered.
UserDelete(b) ==
    /\ Exists(b)
    /\ Store(b, "gone")
    /\ provisional' = provisional \ {b}
    /\ marks' = marks \cup {<<b, "asked">>} \cup (IF up THEN {} ELSE {<<b, "stuck">>})
    /\ UNCHANGED <<up, view, tables, process, work, sync, faults>>

(***************************************************************************)
(* A PATCH of a state by the worker.  The server compares nothing with the *)
(* state it finds: if that is not one the PATCH was meant to follow, the   *)
(* two have crossed.  It fails (404) on a row that is gone, or by a fault. *)
(* RUNNING crosses only a stop the loop has not heard of: the others have  *)
(* been recorded in _canceled_ids or are about to tear the run down.       *)
(***************************************************************************)
Follows(state) ==
    CASE state = "queued" -> {"pending"}
      [] state = "running" -> {"pending", "queued"}
      [] OTHER -> States

Crossing(b, state) ==
    IF row[b] \in Follows(state) \/ (state = "running" /\ up /\ stream[b] = <<>>)
    THEN {} ELSE {<<b, "crossed">>}

PatchLands(b, state) == Exists(b) /\ Store(b, state)

PatchFails(b) ==
    /\ IF Exists(b) THEN Fault ELSE UNCHANGED faults
    /\ UNCHANGED <<row, stream>>

-----------------------------------------------------------------------------
(***************************************************************************)
(* _stop_benchmark: the process is terminated and the workload deleted; if *)
(* that fails it leaks, but the internal state is cleaned up either way.   *)
(* What else the step does to benchmarks is in news.                       *)
(***************************************************************************)
Teardown(b, news) ==
    \/ /\ work' = [work EXCEPT ![b] = "none"]
       /\ marks' = marks \cup news
    \/ /\ work[b] # "none"
       /\ marks' = marks \cup news \cup {<<b, "stray">>}
       /\ UNCHANGED work

Forget(b) ==
    /\ process' = [process EXCEPT ![b] = "none"]
    /\ active' = IF active = b THEN None ELSE active

Stop(b, news) == Teardown(b, news) /\ Forget(b)

-----------------------------------------------------------------------------
(***************************************************************************)
(* _handle_benchmark_event, for each event the watch delivers.             *)
(***************************************************************************)
Received(b, state) ==
    /\ up /\ stream[b] # <<>> /\ Head(stream[b]) = state
    /\ stream' = [stream EXCEPT ![b] = Tail(@)]
    /\ view' = [view EXCEPT ![b] = state]
    /\ UNCHANGED <<row, provisional, up, enqueuing, queue, launch, sync, faults>>

OnPending(b) ==
    /\ Received(b, "pending")
    /\ calls' = Append(calls, b)
    /\ UNCHANGED <<stops, canceled, active, process, work, marks>>

\* Mutant: the task is all there is to a stop.
OnStoppedLater(b) ==
    /\ Received(b, "stopped")
    /\ stops' = stops \cup {b}
    /\ UNCHANGED <<calls, canceled, active, process, work, marks>>

\* The cancel is recorded at once, the rest is a task.
OnStopped(b) ==
    /\ Received(b, "stopped")
    /\ canceled' = canceled \cup {b}
    /\ stops' = stops \cup {b}
    /\ UNCHANGED <<calls, active, process, work, marks>>

OnDeleted(b) ==
    /\ Received(b, "gone")
    /\ canceled' = canceled \cup {b}
    /\ Stop(b, {})
    /\ UNCHANGED <<calls, stops>>

OnOther(b) ==
    /\ \E state \in {"queued", "running", "completed", "error"} : Received(b, state)
    /\ UNCHANGED <<calls, stops, canceled, active, process, work, marks>>

(***************************************************************************)
(* awatch: a new stream replays the rows there are.  A lost one takes the  *)
(* events in it along, and list() then asks the server.                    *)
(***************************************************************************)
Connect ==
    /\ ~up /\ up' = TRUE
    /\ stream' = [b \in Ids |-> IF Exists(b) THEN <<row[b]>> ELSE <<>>]
    /\ UNCHANGED <<row, provisional, view, tables, process, work, sync, marks, faults>>

Unheard == {b \in Ids : "gone" \in ToSet(stream[b])} \X {"stuck"}

Disconnect ==
    /\ up /\ Fault /\ up' = FALSE
    /\ stream' = [b \in Ids |-> <<>>]
    /\ view' = [b \in Ids |-> "absent"]
    /\ marks' = marks \cup Unheard
    /\ UNCHANGED <<row, provisional, tables, process, work, sync>>

Listed(b) == IF up THEN view[b] ELSE row[b]

-----------------------------------------------------------------------------
\* _enqueue_benchmark, up to its PATCH; a later enqueue supersedes a cancel.
Enqueue ==
    /\ calls # <<>> /\ enqueuing = None
    /\ LET b == Head(calls) IN
          /\ canceled' = canceled \ {b}
          /\ IF b \in ToSet(queue)
             THEN UNCHANGED <<queue, enqueuing>>
             ELSE queue' = Append(queue, b) /\ enqueuing' = b
          /\ marks' = marks \cup (IF process[b] = "none" /\ launch.id # b
                                  THEN Crossing(b, "queued") ELSE {<<b, "crossed">>})
    /\ calls' = Tail(calls)
    /\ UNCHANGED <<server, up, view, stops, active, launch, process, work, sync, faults>>

\* ... and from it: if the PATCH fails the benchmark is in the queue all the same.
Enqueued ==
    /\ enqueuing # None
    /\ enqueuing' = None
    /\ \/ /\ PatchLands(enqueuing, "queued")
          /\ marks' = marks \cup Crossing(enqueuing, "queued")
          /\ UNCHANGED faults
       \/ PatchFails(enqueuing) /\ UNCHANGED marks
    /\ UNCHANGED <<provisional, up, view, calls, stops, queue, canceled, active, launch,
                   process, work, sync>>

(***************************************************************************)
(* _benchmark_queue_worker: take the next benchmark while none is active   *)
(* and no enqueue waits for the lock, which is fair.                       *)
(* A canceled one is dropped; for another _start_benchmark spawns the      *)
(* provisioning process, or fails to, and sends its PATCH.                 *)
(***************************************************************************)
Pop ==
    /\ launch = NoPatch /\ enqueuing = None /\ calls = <<>> /\ active = None /\ queue # <<>>
    /\ queue' = Tail(queue)
    /\ LET b == Head(queue) IN
          \/ /\ b \in canceled
             /\ canceled' = canceled \ {b}
             /\ UNCHANGED <<active, launch, process, faults>>
          \/ /\ b \notin canceled /\ process[b] # "none"
             /\ UNCHANGED <<canceled, active, launch, process, faults>>
          \/ /\ b \notin canceled /\ process[b] = "none"
             /\ process' = [process EXCEPT ![b] = "alive"]
             /\ active' = b
             /\ launch' = [id |-> b, to |-> "running"]
             /\ UNCHANGED <<canceled, faults>>
          \/ /\ b \notin canceled /\ process[b] = "none" /\ Fault
             /\ launch' = [id |-> b, to |-> "error"]
             /\ UNCHANGED <<canceled, active, process>>
    /\ UNCHANGED <<server, up, view, calls, stops, enqueuing, work, sync, marks>>

(***************************************************************************)
(* The answer to RUNNING.  On an error, also one after the server took the *)
(* PATCH, what was started is stopped again and the row is to be ERROR.    *)
(***************************************************************************)
Launched ==
    /\ launch.id # None /\ launch.to = "running"
    /\ LET b == launch.id IN
          \/ /\ PatchLands(b, "running")
             /\ marks' = marks \cup Crossing(b, "running")
             /\ launch' = NoPatch
             /\ UNCHANGED <<active, process, work, faults>>
          \/ /\ \/ PatchFails(b)
                \/ PatchLands(b, "running") /\ Fault
             /\ launch' = [launch EXCEPT !.to = "error"]
             /\ LET news == IF row' = row THEN {} ELSE Crossing(b, "running") IN
                   IF process[b] = "none"
                   THEN marks' = marks \cup news /\ UNCHANGED <<active, process, work>>
                   ELSE Stop(b, news)
    /\ UNCHANGED <<provisional, up, view, calls, stops, enqueuing, queue, canceled, sync>>

LaunchFailed ==
    /\ launch.id # None /\ launch.to = "error"
    /\ launch' = NoPatch
    /\ \/ PatchLands(launch.id, "error") /\ UNCHANGED <<marks, faults>>
       \/ /\ PatchFails(launch.id)
          /\ marks' = marks \cup {<<launch.id, "stuck">>}
    /\ UNCHANGED <<provisional, up, view, calls, stops, enqueuing, queue, canceled, active,
                   process, work, sync>>

(***************************************************************************)
(* _finalize_partial_analysis, best effort: the analysis is published once *)
(* more without in_progress, if the row is there and the call succeeds.    *)
(***************************************************************************)
Finalize(b) ==
    \/ provisional' = provisional \ {b} /\ UNCHANGED faults
    \/ b \in provisional /\ Fault /\ UNCHANGED provisional

\* _handle_stop_benchmark_event: one task, which awaits nothing.
StopTask(b) ==
    /\ b \in stops
    /\ stops' = stops \ {b}
    /\ Finalize(b)
    /\ Stop(b, {})
    /\ UNCHANGED <<row, stream, up, view, calls, enqueuing, queue, canceled, launch, sync>>

-----------------------------------------------------------------------------
(***************************************************************************)
(* The provisioning process: it creates the workload and exits, or fails   *)
(* to.  A BenchmarkRunner that cannot be set up reports ERROR itself.      *)
(***************************************************************************)
Provision(b) ==
    /\ process[b] = "alive"
    /\ process' = [process EXCEPT ![b] = "over"]
    /\ \/ /\ work' = [work EXCEPT ![b] = "running"]
          /\ UNCHANGED <<row, stream, marks, faults>>
       \/ Fault /\ UNCHANGED <<row, stream, work, marks>>
       \/ /\ Fault /\ PatchLands(b, "error")
          /\ marks' = marks \cup {<<b, "stuck">>}
          /\ UNCHANGED work
    /\ UNCHANGED <<provisional, up, view, tables, sync>>

\* The runner in the container ends.
Exit(b) ==
    /\ work[b] = "running"
    /\ \E end \in {"done", "failed"} : work' = [work EXCEPT ![b] = end]
    /\ UNCHANGED <<server, up, view, tables, process, sync, marks, faults>>

(***************************************************************************)
(* cleanup_orphan_workloads, of a workload past the grace period: one that *)
(* has ended, or whose benchmark the cache does not list.                  *)
(***************************************************************************)
Clean(b) ==
    /\ work[b] \in {"done", "failed"} \/ (work[b] = "running" /\ Listed(b) \notin States)
    /\ work' = [work EXCEPT ![b] = "none"]
    /\ UNCHANGED <<server, up, view, tables, process, sync, marks, faults>>

-----------------------------------------------------------------------------
(***************************************************************************)
(* sync_benchmark_state: the thread lists the RUNNING rows and goes        *)
(* through them; an error that is not caught ends the pass.                *)
(***************************************************************************)
Poll ==
    /\ sync = NoSync
    /\ \E b \in Ids : Listed(b) = "running"
    /\ sync' = [NoSync EXCEPT !.at = "next", !.todo = {b \in Ids : Listed(b) = "running"}]
    /\ UNCHANGED <<server, up, view, tables, process, work, marks, faults>>

Goto(at) == sync' = [sync EXCEPT !.at = at]

Proceed(pass) ==
    IF pass.todo = {} THEN NoSync ELSE [pass EXCEPT !.at = "next", !.id = None]

\* What _sync_single_benchmark_state does about b that has not run out of time.
Verdict(b) ==
    CASE process[b] = "alive" -> "skip"
      [] work[b] = "running" -> "partial"
      [] work[b] = "done" -> "complete"
      [] OTHER -> "fail"

\* A run that holds the slot may have run out of time; a partial sync is throttled.
Inspect(b) ==
    /\ sync.at = "next" /\ b \in sync.todo
    /\ LET rest == [sync EXCEPT !.id = b, !.todo = @ \ {b}] IN
          \/ /\ active = b
             /\ sync' = [rest EXCEPT !.at = "fail"]
          \/ /\ Verdict(b) # "skip"
             /\ sync' = [rest EXCEPT !.at = Verdict(b)]
          \/ /\ Verdict(b) \in {"skip", "partial"}
             /\ sync' = Proceed(rest)
    /\ UNCHANGED <<server, up, view, tables, process, work, marks, faults>>

\* _maybe_sync_partial_metrics of a run of several points.
SyncPartial ==
    /\ sync.at = "partial"
    /\ sync' = Proceed(sync)
    /\ \/ /\ Exists(sync.id)
          /\ provisional' = provisional \cup {sync.id}
          /\ marks' = IF row[sync.id] \in Ended THEN marks \cup {<<sync.id, "late">>} ELSE marks
          /\ UNCHANGED <<row, stream, faults>>
       \/ PatchFails(sync.id) /\ UNCHANGED <<provisional, marks>>
    /\ UNCHANGED <<up, view, tables, process, work>>

\* Mutant: a failed run is torn down without publishing a final analysis.
SyncFailUnfinished ==
    /\ sync.at = "fail"
    /\ \/ PatchLands(sync.id, "error") /\ Goto("stop") /\ UNCHANGED faults
       \/ PatchFails(sync.id) /\ sync' = NoSync
    /\ UNCHANGED <<provisional, up, view, tables, process, work, marks>>

\* _handle_benchmark_failure and _handle_benchmark_timeout: the state first ...
SyncFail ==
    /\ sync.at = "fail"
    /\ \/ PatchLands(sync.id, "error") /\ Goto("finalize") /\ UNCHANGED faults
       \/ PatchFails(sync.id) /\ sync' = NoSync
    /\ UNCHANGED <<provisional, up, view, tables, process, work, marks>>

\* Mutant: the slot is given up before the workload is deleted.
SyncFinalizeFreeing ==
    /\ sync.at = "finalize"
    /\ Finalize(sync.id)
    /\ active' = IF active = sync.id THEN None ELSE active
    /\ Goto("stop")
    /\ UNCHANGED <<row, stream, up, view, calls, stops, enqueuing, queue, canceled, launch,
                   process, work, marks>>

SyncFinalize ==
    /\ sync.at = "finalize"
    /\ Finalize(sync.id)
    /\ Goto("stop")
    /\ UNCHANGED <<row, stream, up, view, tables, process, work, marks>>

\* ... _handle_benchmark_completion: the results first; the rest comes in any case.
SyncComplete ==
    /\ sync.at = "complete"
    /\ Finalize(sync.id)
    /\ Goto("completed")
    /\ UNCHANGED <<row, stream, up, view, tables, process, work, marks>>

SyncCompleted ==
    /\ sync.at = "completed"
    /\ (PatchLands(sync.id, "completed") /\ UNCHANGED faults) \/ PatchFails(sync.id)
    /\ Goto("stop")
    /\ UNCHANGED <<provisional, up, view, tables, process, work, marks>>

\* Mutant: delete_workload raises out of the pass.
SyncStopRaising ==
    /\ sync.at = "stop"
    /\ Teardown(sync.id, {})
    /\ process' = [process EXCEPT ![sync.id] = IF @ = "alive" THEN "over" ELSE @]
    /\ IF work'[sync.id] = "none" THEN Goto("clear") ELSE sync' = NoSync
    /\ UNCHANGED <<server, up, view, tables, faults>>

\* _stop_benchmark in the thread.
SyncStop ==
    /\ sync.at = "stop"
    /\ Teardown(sync.id, {})
    /\ process' = [process EXCEPT ![sync.id] = IF @ = "alive" THEN "over" ELSE @]
    /\ Goto("clear")
    /\ UNCHANGED <<server, up, view, tables, faults>>

SyncClear ==
    /\ sync.at = "clear"
    /\ Forget(sync.id)
    /\ sync' = Proceed(sync)
    /\ UNCHANGED <<server, up, view, calls, stops, enqueuing, queue, canceled, launch, work,
                   marks, faults>>

Sync ==
    \/ Poll \/ SyncPartial \/ SyncFail \/ SyncFinalize \/ SyncComplete \/ SyncCompleted
    \/ SyncStop \/ SyncClear
    \/ \E b \in Ids : Inspect(b)

-----------------------------------------------------------------------------
(***************************************************************************)
(* The worker restarts: its tables and processes are gone, and what the    *)
(* replay does not report as PENDING is not enqueued again.                *)
(***************************************************************************)
WorkerRestart ==
    /\ Fault
    /\ up' = FALSE
    /\ stream' = [b \in Ids |-> <<>>]
    /\ view' = [b \in Ids |-> "absent"]
    /\ calls' = <<>> /\ stops' = {} /\ enqueuing' = None /\ queue' = <<>>
    /\ canceled' = {} /\ active' = None /\ launch' = NoPatch
    /\ process' = [b \in Ids |-> "none"]
    /\ sync' = NoSync
    /\ marks' = marks \cup {b \in Ids : row[b] = "queued"} \X {"stuck"}
                      \cup {b \in Ids : work[b] = "running"} \X {"stray"}
    /\ UNCHANGED <<row, provisional, work>>

Loop(b) == OnPending(b) \/ OnStopped(b) \/ OnDeleted(b) \/ OnOther(b) \/ StopTask(b)

QueueWorker == Enqueue \/ Enqueued \/ Pop \/ Launched \/ LaunchFailed

Next ==
    \/ \E b \in Ids : \/ Create(b) \/ UserStop(b) \/ UserDelete(b) \/ Loop(b)
                      \/ Provision(b) \/ Exit(b) \/ Clean(b)
    \/ Connect \/ Disconnect \/ WorkerRestart \/ QueueWorker \/ Sync

Spec == Init /\ [][Next]_vars

(***************************************************************************)
(* The loop, the thread and the watch take their turns; a provisioning     *)
(* process and a runner come to an end.  Nothing is assumed of users, of   *)
(* faults or of the cleaner.                                               *)
(***************************************************************************)
FairSpec ==
    /\ Spec
    /\ WF_vars(Connect) /\ WF_vars(QueueWorker) /\ WF_vars(Sync)
    /\ \A b \in Ids : WF_vars(Loop(b)) /\ WF_vars(Provision(b)) /\ WF_vars(Exit(b))

-----------------------------------------------------------------------------
TypeOK ==
    /\ row \in [Ids -> States \cup {"absent", "gone"}]
    /\ provisional \subseteq Ids
    /\ up \in BOOLEAN
    /\ \A b \in Ids : ToSet(stream[b]) \subseteq States \cup {"gone"}
    /\ view \in [Ids -> States \cup {"absent", "gone"}]
    /\ ToSet(calls) \cup ToSet(queue) \cup stops \cup canceled \subseteq Ids
    /\ {enqueuing, active} \subseteq Ids \cup {None}
    /\ launch \in [id : Ids \cup {None}, to : {"running", "error"}]
    /\ process \in [Ids -> {"none", "alive", "over"}]
    /\ work \in [Ids -> {"none", "running", "done", "failed"}]
    /\ sync.todo \subseteq Ids /\ sync.id \in Ids \cup {None}
    /\ faults \in 0 .. MaxFaults

(***************************************************************************)
(* One run at a time: what provisions or runs holds the slot, whichever of *)
(* the loop and the thread tears it down.  Left out are a workload that    *)
(* could not be deleted or is from before a restart, and a benchmark whose *)
(* PENDING was reported again after it had been taken up.                  *)
(***************************************************************************)
SlotIsHeld ==
    \A b \in Ids : process[b] = "alive" \/ work[b] = "running" =>
        active = b \/ Happened(b, "stray") \/ Happened(b, "crossed")

\* No event or task about b is on its way to the loop.
Heard(b) ==
    /\ up /\ stream[b] = <<>>
    /\ b \notin ToSet(calls) \cup ToSet(queue) \cup stops
    /\ enqueuing # b /\ launch.id # b

(***************************************************************************)
(* "a queued-then-stopped run is never launched", and one that was is      *)
(* ended: what a user stopped or deleted does not run on once the loop has *)
(* heard of it, unless it leaks, its DELETED was lost, or the stop crossed *)
(* the PATCH that queues or starts the benchmark.                          *)
(***************************************************************************)
StoppedDoesNotRun ==
    \A b \in Ids : Happened(b, "asked") /\ Heard(b) /\ sync.id # b =>
        \/ process[b] # "alive" /\ work[b] # "running"
        \/ \E why \in {"crossed", "stray", "stuck"} : Happened(b, why)

(***************************************************************************)
(* "the analysis must stop claiming to be provisional": however a run      *)
(* ends, once the loop and the thread are through with it what it has      *)
(* published is final, unless a write failed or a partial sync that was    *)
(* under way when the run was stopped came last.                           *)
(***************************************************************************)
NotProvisional ==
    \A b \in Ids : Heard(b) /\ sync = NoSync /\ row[b] \in Ended /\ faults = 0 =>
        b \notin provisional \/ Happened(b, "late")

(***************************************************************************)
(* Every benchmark ends and gives the slot back to the queue, whichever    *)
(* calls fail within the bound and whichever workloads cannot be deleted,  *)
(* as long as none has crossed a stop or is left to nobody.                *)
(***************************************************************************)
RunsEnd ==
    \A b \in Ids : row[b] = "pending" ~>
        \/ row[b] \in Ended \cup {"gone"} /\ active # b
        \/ \E c \in Ids : Happened(c, "crossed") \/ Happened(c, "stuck")
=============================================================================
