----------------------------- MODULE ModelFiles -----------------------------
(***************************************************************************)
(* How the files of a model instance are downloaded and how that moves the *)
(* instance: the model-file part of gpustack/server/controllers.py (the    *)
(* instance controller's ensure_instance_model_file, ModelFileController   *)
(* and the sync functions they share), the model-file routes, and the      *)
(* worker's ModelFileManager.                                              *)
(*                                                                         *)
(* One instance and its files; the two controllers run side by side, each  *)
(* handling one event at a time, and give the loop up between loading the  *)
(* instance and writing it.                                                *)
(***************************************************************************)
EXTENDS Integers

CONSTANTS
    Files,        \* the files the instance needs
    Sub,          \* those of them that belong to a subordinate worker
    MaxFaults     \* bound on file resets, restarts of the instance or the worker, and
                  \* lock timeouts

VARIABLES
    inst,        \* the instance's state
    file,        \* file[f]: the row's state, "none" before it is created
    initEvent,   \* is an INITIALIZING event of the instance on its way?
    fileEvents,  \* files whose event is on its way to ModelFileController
    workEvents,  \* files with a DOWNLOADING event on its way to the worker
    sync,        \* sync[c]: what a controller is doing, and what it has read
    task,        \* task[f]: the worker's download: "none", "running", "finished"
    abandoned,   \* files left DOWNLOADING with no task to download them
    overtaken,   \* has a sync overwritten a state it had not read?
    faults

fvars == <<inst, file, initEvent, fileEvents, workEvents, sync, task, abandoned,
           overtaken, faults>>

Controllers == {"instance", "file"}
FileStates == {"DOWNLOADING", "READY", "ERROR"}
Waiting == {"INITIALIZING", "DOWNLOADING"}

\* todo: files still to sync; seen: their states as read; on: the one being synced.
Idle == [todo |-> {}, seen |-> [f \in Files |-> "none"], on |-> {},
         inst |-> "none", complete |-> FALSE]

Init ==
    /\ inst = "INITIALIZING"
    /\ file = [f \in Files |-> "none"]
    /\ initEvent = TRUE
    /\ fileEvents = {}
    /\ workEvents = {}
    /\ sync = [c \in Controllers |-> Idle]
    /\ task = [f \in Files |-> "none"]
    /\ abandoned = {}
    /\ overtaken = FALSE
    /\ faults = 0

\* A commit that changes the rows of fs publishes their events; the worker ignores
\* those of any state but DOWNLOADING.
Store(fs, state) ==
    /\ file' = [f \in Files |-> IF f \in fs THEN state ELSE file[f]]
    /\ fileEvents' = fileEvents \cup fs
    /\ workEvents' = IF state = "DOWNLOADING" THEN workEvents \cup fs ELSE workEvents

-----------------------------------------------------------------------------
(* The controllers. *)

(***************************************************************************)
(* ensure_instance_model_file: missing files are created, failed ones set  *)
(* to download again, in one transaction; then every file is synced with   *)
(* the state it has now.                                                   *)
(***************************************************************************)
EnsureFiles ==
    LET missing == {f \in Files : file[f] \in {"none", "ERROR"}} IN
    /\ initEvent
    /\ sync["instance"] = Idle
    /\ initEvent' = FALSE
    /\ Store(missing, "DOWNLOADING")
    /\ sync' = [sync EXCEPT !["instance"] = [Idle EXCEPT !.todo = Files, !.seen = file']]
    /\ UNCHANGED <<inst, task, abandoned, overtaken, faults>>

\* ModelFileController._reconcile reads the file of an event.
ReadFile(f) ==
    /\ f \in fileEvents
    /\ sync["file"] = Idle
    /\ fileEvents' = fileEvents \ {f}
    /\ sync' = [sync EXCEPT !["file"] = [Idle EXCEPT !.todo = {f}, !.seen[f] = file[f]]]
    /\ UNCHANGED <<inst, file, initEvent, workEvents, task, abandoned, overtaken,
                   faults>>

\* _download_completed.
DownloadCompleted == \A f \in Files : file[f] = "READY"

\* The sync of f is over.
Synced(c, f) ==
    IF sync[c].todo = {f} THEN Idle
    ELSE [Idle EXCEPT !.todo = sync[c].todo \ {f},
                      !.seen = [sync[c].seen EXCEPT ![f] = "none"]]

\* sync_*_model_file_state loads the instance; nothing is done to a failed one.
SyncLoad(c, f) ==
    /\ f \in sync[c].todo
    /\ sync[c].on = {}
    /\ sync' = [sync EXCEPT ![c] =
           IF inst = "ERROR" THEN Synced(c, f)
           ELSE [@ EXCEPT !.on = {f}, !.inst = inst, !.complete = DownloadCompleted]]
    /\ UNCHANGED <<inst, file, initEvent, fileEvents, workEvents, task, abandoned,
                   overtaken, faults>>

\* Mutant: a subordinate's READY event does not check for completion.
OutcomeMainOnly(f, seen, loaded, complete) ==
    CASE seen = "ERROR" -> "ERROR"
      [] seen = "READY" /\ loaded \in Waiting /\ complete /\ f \notin Sub -> "STARTING"
      [] seen \in {"READY", "DOWNLOADING"} /\ loaded = "INITIALIZING" /\ f \notin Sub
             /\ ~(seen = "READY" /\ complete) -> "DOWNLOADING"
      [] OTHER -> "same"

\* Mutant: a failed file does nothing to an instance that no longer waits.
OutcomeWaitingOnly(f, seen, loaded, complete) ==
    CASE seen = "ERROR" /\ loaded \in Waiting -> "ERROR"
      [] seen = "READY" /\ loaded \in Waiting /\ complete -> "STARTING"
      [] seen \in {"READY", "DOWNLOADING"} /\ loaded = "INITIALIZING" /\ f \notin Sub
             /\ ~(seen = "READY" /\ complete) -> "DOWNLOADING"
      [] OTHER -> "same"

(***************************************************************************)
(* sync_main_worker_model_file_state and, for a subordinate's file,        *)
(* sync_distributed_model_file_state: the state the instance is set to.    *)
(***************************************************************************)
Outcome(f, seen, loaded, complete) ==
    CASE seen = "ERROR" -> "ERROR"
      [] seen = "READY" /\ loaded \in Waiting /\ complete -> "STARTING"
      [] seen \in {"READY", "DOWNLOADING"} /\ loaded = "INITIALIZING" /\ f \notin Sub
             /\ ~(seen = "READY" /\ complete) -> "DOWNLOADING"
      [] OTHER -> "same"

\* The write; it overwrites whatever the state has become.
SyncWrite(c, f) ==
    LET new == Outcome(f, sync[c].seen[f], sync[c].inst, sync[c].complete) IN
    /\ f \in sync[c].on
    /\ inst' = IF new = "same" THEN inst ELSE new
    /\ overtaken' = (overtaken \/ (new # "same" /\ inst # sync[c].inst))
    /\ sync' = [sync EXCEPT ![c] = Synced(c, f)]
    /\ UNCHANGED <<file, initEvent, fileEvents, workEvents, task, abandoned, faults>>

-----------------------------------------------------------------------------
(* The worker: ModelFileManager. *)

(***************************************************************************)
(* _handle_model_file_event: a DOWNLOADING event starts a task unless      *)
(* _active_downloads has one, even one that has finished.                  *)
(***************************************************************************)
HandleFileEvent(f) ==
    /\ f \in workEvents
    /\ workEvents' = workEvents \ {f}
    /\ task' = [task EXCEPT ![f] = IF @ = "none" THEN "running" ELSE @]
    /\ abandoned' = CASE task[f] = "none" -> abandoned \ {f}
                      [] task[f] = "finished" /\ file[f] = "DOWNLOADING" ->
                             abandoned \cup {f}
                      [] OTHER -> abandoned
    /\ UNCHANGED <<inst, file, initEvent, fileEvents, sync, overtaken, faults>>

\* The task reports its progress; the worker ignores the event while it runs.
Progress(f) ==
    /\ task[f] = "running"
    /\ fileEvents' = fileEvents \cup {f}
    /\ UNCHANGED <<inst, file, initEvent, workEvents, sync, task, abandoned,
                   overtaken, faults>>

\* ModelFileDownloadTask.run ends: READY, or ERROR with the exception.
DownloadEnds(f, state) ==
    /\ task[f] = "running"
    /\ state \in {"READY", "ERROR"}
    /\ task' = [task EXCEPT ![f] = "finished"]
    /\ Store({f}, state)
    /\ UNCHANGED <<inst, initEvent, sync, abandoned, overtaken, faults>>

\* The lock on the file is held by another download: run returns, the row stays.
LockTimeout(f) ==
    /\ task[f] = "running"
    /\ faults < MaxFaults
    /\ faults' = faults + 1
    /\ task' = [task EXCEPT ![f] = "finished"]
    /\ abandoned' = IF file[f] = "DOWNLOADING" THEN abandoned \cup {f} ELSE abandoned
    /\ UNCHANGED <<inst, file, initEvent, fileEvents, workEvents, sync, overtaken>>

\* _check_completion forgets the finished task.
CheckCompletion(f) ==
    /\ task[f] = "finished"
    /\ task' = [task EXCEPT ![f] = "none"]
    /\ UNCHANGED <<inst, file, initEvent, fileEvents, workEvents, sync, abandoned,
                   overtaken, faults>>

\* The worker restarts: its tasks are gone, its watch begins with all files.
WorkerRestarts ==
    /\ faults < MaxFaults
    /\ faults' = faults + 1
    /\ task' = [f \in Files |-> "none"]
    /\ workEvents' = {f \in Files : file[f] = "DOWNLOADING"}
    /\ UNCHANGED <<inst, file, initEvent, fileEvents, sync, abandoned, overtaken>>

-----------------------------------------------------------------------------
(* The users, and the worker's restart of a failed instance. *)

ResetFile(f) ==
    /\ faults < MaxFaults
    /\ file[f] # "none"
    /\ faults' = faults + 1
    /\ Store({f}, "DOWNLOADING")
    /\ UNCHANGED <<inst, initEvent, sync, task, abandoned, overtaken>>

RestartInstance ==
    /\ inst = "ERROR"
    /\ faults < MaxFaults
    /\ faults' = faults + 1
    /\ inst' = "INITIALIZING"
    /\ initEvent' = TRUE
    /\ UNCHANGED <<file, fileEvents, workEvents, sync, task, abandoned, overtaken>>

-----------------------------------------------------------------------------
Sync(c) == \E f \in Files : SyncLoad(c, f) \/ SyncWrite(c, f)
InstanceController == EnsureFiles \/ Sync("instance")
FileController == (\E f \in Files : ReadFile(f)) \/ Sync("file")
Download(f) == \E state \in {"READY", "ERROR"} : DownloadEnds(f, state)

Next ==
    \/ InstanceController \/ FileController
    \/ WorkerRestarts \/ RestartInstance
    \/ \E f \in Files : \/ HandleFileEvent(f) \/ Progress(f) \/ Download(f)
                        \/ LockTimeout(f) \/ CheckCompletion(f) \/ ResetFile(f)

Spec == Init /\ [][Next]_fvars

-----------------------------------------------------------------------------
(* Properties. *)

TypeOK ==
    /\ inst \in {"INITIALIZING", "DOWNLOADING", "STARTING", "ERROR"}
    /\ file \in [Files -> FileStates \cup {"none"}]
    /\ initEvent \in BOOLEAN
    /\ fileEvents \subseteq Files
    /\ workEvents \subseteq Files
    /\ \A c \in Controllers : sync[c].on \subseteq sync[c].todo
    /\ task \in [Files -> {"none", "running", "finished"}]
    /\ abandoned \subseteq Files
    /\ overtaken \in BOOLEAN
    /\ faults \in 0 .. MaxFaults

(***************************************************************************)
(* An instance that waits for its files starts or fails in the end,        *)
(* however the controllers' reads and writes interleave and although the   *)
(* worker restarts: it does not "stick at DOWNLOADING after all hit 100%"  *)
(* (_download_completed).  The exceptions are a file whose download was    *)
(* given up while its row says DOWNLOADING, and a write of one controller  *)
(* over a state it had not read.                                           *)
(***************************************************************************)
DownloadsLeadToStart ==
    inst \in Waiting ~> (inst \notin Waiting \/ abandoned # {} \/ overtaken)

(***************************************************************************)
(* When nothing is left to do, an instance that was started has every file *)
(* READY, a subordinate's too, and none waits: promotion is "the single    *)
(* choke point into STARTING", and an error reaches the instance even      *)
(* after it.  The exceptions are the same.                                 *)
(***************************************************************************)
Quiet ==
    /\ ~initEvent /\ fileEvents = {} /\ workEvents = {}
    /\ \A c \in Controllers : sync[c] = Idle
    /\ \A f \in Files : task[f] = "none"

SettledFiles ==
    Quiet /\ abandoned = {} /\ ~overtaken =>
        inst = "ERROR" \/ (inst = "STARTING" /\ \A f \in Files : file[f] = "READY")
=============================================================================
