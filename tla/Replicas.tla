------------------------------ MODULE Replicas ------------------------------
(***************************************************************************)
(* The number of replicas of a model (gpustack/server/controllers.py and   *)
(* scaling_scheduler.py): ModelController creates and deletes instances to *)
(* match model.replicas, ModelInstanceController counts the RUNNING ones   *)
(* into model.ready_replicas, and ScalingScheduler moves model.replicas by *)
(* a timetable.  Users and workers write the same rows meanwhile.          *)
(*                                                                         *)
(* The three are tasks on the leader's loop; each reads, awaits and        *)
(* writes, one event at a time.  An event only says where to look: both    *)
(* controllers read the rows again.  UPDATED events of one row are one in  *)
(* the queue (see Subscriber), so a pending event is a flag, and for an    *)
(* instance the state its newest event carries.                            *)
(***************************************************************************)
EXTENDS Integers, FiniteSets

CONSTANTS
    Ids,          \* instances; an id is used again once its row is gone
    Base, Peak,   \* what the schedule wants outside and inside its window
    MaxReplicas,  \* bound on what a user asks for
    MaxEdits,     \* bound on what users, the clock and the cleaner do
    MaxFaults     \* bound on server restarts and reconciles that raise

ASSUME ReplicasAssumption ==
    /\ IsFiniteSet(Ids)
    /\ MaxReplicas \in Nat
    /\ MaxReplicas <= Cardinality(Ids)
    /\ Base \in 0 .. MaxReplicas
    /\ Peak \in 0 .. MaxReplicas
    /\ MaxEdits \in Nat
    /\ MaxFaults \in Nat

VARIABLES
    model,     \* the row: [exists, replicas, ready, scheduled]
    window,    \* whether it is time for Peak
    insts,     \* insts[i]: the state of instance i, or "absent"
    changed,   \* a Model event waits for ModelController
    news,      \* news[i]: the newest event of i waiting, "none", "init" or "other"
    gone,      \* how many DELETED events of instances wait
    syncer,    \* ModelController: [at, want, n]
    counter,   \* ModelInstanceController: [at, n]
    scaler,    \* ScalingScheduler: [at, want]
    edits, restarts, faults

rows == <<model, insts>>
events == <<changed, news, gone>>
tasks == <<syncer, counter, scaler>>
bounds == <<edits, restarts, faults>>
vars == <<rows, window, events, tasks, bounds>>

Idle == [at |-> "idle", want |-> 0, n |-> 0]

Live == {i \in Ids : insts[i] # "absent"}
Count == Cardinality(Live)
Running == Cardinality({i \in Ids : insts[i] = "running"})
Desired == IF window THEN Peak ELSE Base

Init ==
    /\ model \in [exists : {TRUE}, replicas : 0 .. MaxReplicas, ready : {0}, scheduled : {FALSE}]
    /\ window = FALSE
    /\ insts = [i \in Ids |-> "absent"]
    /\ changed = TRUE
    /\ news = [i \in Ids |-> "none"]
    /\ gone = 0
    /\ syncer = Idle
    /\ counter = Idle
    /\ scaler = Idle
    /\ edits = 0
    /\ restarts = 0
    /\ faults = 0

Edit ==
    /\ edits < MaxEdits
    /\ edits' = edits + 1
    /\ UNCHANGED <<restarts, faults>>

-----------------------------------------------------------------------------
(***************************************************************************)
(* update_model.  An enabled schedule sets replicas to what it wants now.  *)
(***************************************************************************)
Update(r, scheduled) ==
    /\ Edit
    /\ model.exists
    /\ model' = [model EXCEPT !.replicas = IF scheduled THEN Desired ELSE r,
                              !.scheduled = scheduled]
    /\ changed' = TRUE
    /\ UNCHANGED <<window, insts, news, gone, tasks>>

\* ModelService.delete: the instances go in the same transaction.
DeleteModel ==
    /\ Edit
    /\ model.exists
    /\ model' = [model EXCEPT !.exists = FALSE]
    /\ insts' = [i \in Ids |-> "absent"]
    /\ gone' = gone + Count
    /\ changed' = TRUE
    /\ UNCHANGED <<window, news, tasks>>

\* A user, or the cleaner of offline workers, deletes an instance.
DeleteInstance(i) ==
    /\ Edit
    /\ insts[i] # "absent"
    /\ insts' = [insts EXCEPT ![i] = "absent"]
    /\ gone' = gone + 1
    /\ UNCHANGED <<model, window, changed, news, tasks>>

\* A window of the schedule opens or closes.
Clock ==
    /\ Edit
    /\ window' = ~window
    /\ UNCHANGED <<rows, events, tasks>>

\* INITIALIZING is told apart from the other states that are not RUNNING.
Moves == {<<"busy", "init">>, <<"init", "busy">>, <<"busy", "running">>, <<"running", "busy">>}

Payload(state) == IF state = "init" THEN "init" ELSE "other"

\* The scheduler or a worker moves an instance on.
Move(i) ==
    /\ \E m \in Moves : /\ insts[i] = m[1]
                        /\ insts' = [insts EXCEPT ![i] = m[2]]
                        /\ news' = [news EXCEPT ![i] = Payload(m[2])]
    /\ UNCHANGED <<model, window, changed, gone, tasks, bounds>>

-----------------------------------------------------------------------------
(* ModelController. *)

\* An event is taken and sync_replicas fetches the model.
SyncFetch ==
    /\ syncer = Idle
    /\ changed
    /\ changed' = FALSE
    /\ syncer' = IF model.exists THEN [at |-> "count", want |-> model.replicas, n |-> 0]
                 ELSE Idle
    /\ UNCHANGED <<rows, window, news, gone, counter, scaler, bounds>>

\* ... counts its instances: as many are missing, or too many.
SyncCount ==
    /\ syncer.at = "count"
    /\ syncer' = CASE Count < syncer.want -> [syncer EXCEPT !.at = "create", !.n = syncer.want - Count]
                   [] Count > syncer.want -> [syncer EXCEPT !.at = "shrink", !.n = Count - syncer.want]
                   [] OTHER -> Idle
    /\ UNCHANGED <<rows, window, events, counter, scaler, bounds>>

\* ... creates the missing ones, one commit each, unless the model has gone.
SyncCreate ==
    /\ syncer.at = "create"
    /\ \/ /\ model.exists
          /\ \E i \in Ids \ Live : /\ insts' = [insts EXCEPT ![i] = "busy"]
                                   /\ news' = [news EXCEPT ![i] = "other"]
          /\ syncer' = IF syncer.n = 1 THEN Idle ELSE [syncer EXCEPT !.n = syncer.n - 1]
       \/ /\ ~model.exists
          /\ syncer' = Idle
          /\ UNCHANGED <<insts, news>>
    /\ UNCHANGED <<model, window, changed, gone, counter, scaler, bounds>>

\* Mutant: as many are deleted as were too many before the rows were locked.
SyncShrinkStale ==
    /\ syncer.at = "shrink"
    /\ \E S \in SUBSET Live :
          /\ Cardinality(S) = IF syncer.n <= Count THEN syncer.n ELSE Count
          /\ insts' = [i \in Ids |-> IF i \in S THEN "absent" ELSE insts[i]]
          /\ gone' = gone + Cardinality(S)
    /\ syncer' = Idle
    /\ UNCHANGED <<model, window, changed, news, counter, scaler, bounds>>

(***************************************************************************)
(* ... or reads the instances again, now locked, and deletes those that    *)
(* score lowest, all in one commit.  Which ones score lowest is left open. *)
(***************************************************************************)
SyncShrink ==
    /\ syncer.at = "shrink"
    /\ \E S \in SUBSET Live :
          /\ Cardinality(S) = IF Count > syncer.want THEN Count - syncer.want ELSE 0
          /\ insts' = [i \in Ids |-> IF i \in S THEN "absent" ELSE insts[i]]
          /\ gone' = gone + Cardinality(S)
    /\ syncer' = Idle
    /\ UNCHANGED <<model, window, changed, news, counter, scaler, bounds>>

\* _reconcile logs an exception and is done with the event.
SyncFails ==
    /\ syncer # Idle
    /\ restarts + faults < MaxFaults
    /\ faults' = faults + 1
    /\ syncer' = Idle
    /\ UNCHANGED <<rows, window, events, counter, scaler, edits, restarts>>

-----------------------------------------------------------------------------
(* ModelInstanceController. *)

Counting == IF model.exists THEN [Idle EXCEPT !.at = "count"] ELSE Idle

\* CREATED or UPDATED: an INITIALIZING one is given its files, and that is all.
OnInstance(i) ==
    /\ counter = Idle
    /\ news[i] # "none"
    /\ counter' = IF news[i] = "init" THEN Idle ELSE Counting
    /\ news' = [news EXCEPT ![i] = "none"]
    /\ UNCHANGED <<rows, window, changed, gone, syncer, scaler, bounds>>

\* Mutant: a deleted instance is only counted out.
OnInstanceGoneQuietly ==
    /\ counter = Idle
    /\ gone > 0
    /\ gone' = gone - 1
    /\ counter' = Counting
    /\ UNCHANGED <<rows, window, changed, news, syncer, scaler, bounds>>

\* DELETED: an UPDATED event of the model is published as well.
OnInstanceGone ==
    /\ counter = Idle
    /\ gone > 0
    /\ gone' = gone - 1
    /\ changed' = (changed \/ model.exists)
    /\ counter' = Counting
    /\ UNCHANGED <<rows, window, news, syncer, scaler, bounds>>

\* sync_ready_replicas counts ...
ReadyCount ==
    /\ counter.at = "count"
    /\ counter' = [counter EXCEPT !.at = "write", !.n = Running]
    /\ UNCHANGED <<rows, window, events, syncer, scaler, bounds>>

\* Mutant: a model whose last instance stopped running keeps its count.
ReadyWritePositive ==
    /\ counter.at = "write"
    /\ model' = IF counter.n > 0 THEN [model EXCEPT !.ready = counter.n] ELSE model
    /\ changed' = (changed \/ model' # model)
    /\ counter' = Idle
    /\ UNCHANGED <<insts, window, news, gone, syncer, scaler, bounds>>

\* ... and writes what it counted, if that is new.
ReadyWrite ==
    /\ counter.at = "write"
    /\ model' = IF model.exists THEN [model EXCEPT !.ready = counter.n] ELSE model
    /\ changed' = (changed \/ model' # model)
    /\ counter' = Idle
    /\ UNCHANGED <<insts, window, news, gone, syncer, scaler, bounds>>

-----------------------------------------------------------------------------
(* ScalingScheduler. *)

\* _sync_scheduled_replicas reads the model and works out what is desired ...
ScaleRead ==
    /\ scaler = Idle
    /\ model.exists
    /\ model.scheduled
    /\ model.replicas # Desired
    /\ scaler' = [Idle EXCEPT !.at = "write", !.want = Desired]
    /\ UNCHANGED <<rows, window, events, syncer, counter, bounds>>

\* ... and, in another session, reads it again and writes that.
ScaleWrite ==
    /\ scaler.at = "write"
    /\ model' = IF model.exists THEN [model EXCEPT !.replicas = scaler.want] ELSE model
    /\ changed' = (changed \/ model' # model)
    /\ scaler' = Idle
    /\ UNCHANGED <<insts, window, news, gone, syncer, counter, bounds>>

-----------------------------------------------------------------------------
(***************************************************************************)
(* The server restarts: events and tasks are lost, and both subscriptions  *)
(* replay the rows there are as CREATED.                                   *)
(***************************************************************************)
Restart ==
    /\ restarts + faults < MaxFaults
    /\ restarts' = restarts + 1
    /\ changed' = model.exists
    /\ news' = [i \in Ids |-> IF i \in Live THEN Payload(insts[i]) ELSE "none"]
    /\ gone' = 0
    /\ syncer' = Idle
    /\ counter' = Idle
    /\ scaler' = Idle
    /\ UNCHANGED <<rows, window, edits, faults>>

Sync == SyncFetch \/ SyncCount \/ SyncCreate \/ SyncShrink
Ready == OnInstanceGone \/ ReadyCount \/ ReadyWrite
Scale == ScaleRead \/ ScaleWrite

Next ==
    \/ \E r \in 0 .. MaxReplicas, scheduled \in BOOLEAN : Update(r, scheduled)
    \/ DeleteModel \/ Clock
    \/ \E i \in Ids : DeleteInstance(i) \/ Move(i) \/ OnInstance(i)
    \/ Sync \/ SyncFails \/ Ready \/ Scale \/ Restart

Spec == Init /\ [][Next]_vars

-----------------------------------------------------------------------------
Waiting == [at : {"idle", "count", "create", "shrink", "write"}, want : 0 .. MaxReplicas,
            n : 0 .. Cardinality(Ids)]

(***************************************************************************)
(* The rows and tasks hold what the code keeps in them, and a sync that is *)
(* creating never makes more instances than the model it fetched wanted.   *)
(***************************************************************************)
TypeOK ==
    /\ model \in [exists : BOOLEAN, replicas : 0 .. MaxReplicas,
                  ready : 0 .. Cardinality(Ids), scheduled : BOOLEAN]
    /\ window \in BOOLEAN
    /\ insts \in [Ids -> {"absent", "busy", "init", "running"}]
    /\ changed \in BOOLEAN
    /\ news \in [Ids -> {"none", "init", "other"}]
    /\ gone \in Nat
    /\ {syncer, counter, scaler} \subseteq Waiting
    /\ syncer.at = "create" => syncer.n > 0 /\ Count + syncer.n <= syncer.want
    /\ edits \in 0 .. MaxEdits
    /\ restarts \in 0 .. MaxFaults
    /\ faults \in 0 .. MaxFaults

SyncSettled == ~changed /\ syncer = Idle /\ gone = 0
CountSettled == counter = Idle /\ gone = 0 /\ \A i \in Ids : news[i] = "none"

(***************************************************************************)
(* With no event left, a model has as many instances as it wants: whatever *)
(* was created, deleted or asked for while sync_replicas was at work, and  *)
(* whenever the server restarted.  A sync that failed is logged, and its   *)
(* event is gone.                                                          *)
(***************************************************************************)
SettledReplicas ==
    SyncSettled /\ model.exists /\ faults = 0 => Count = model.replicas

(***************************************************************************)
(* With no event left, ready_replicas is the number of RUNNING instances,  *)
(* if there are any instances and none is INITIALIZING.  Without instances *)
(* a restart replays nothing to count again, and the event of an           *)
(* INITIALIZING one, which may stand for older ones, is not counted.       *)
(***************************************************************************)
SettledReady ==
    CountSettled /\ model.exists /\ Live # {} /\ (\A i \in Ids : insts[i] # "init")
        => model.ready = Running

(***************************************************************************)
(* Scaling down never deletes below what the sync was told to keep, though *)
(* instances may go between its first count and its lock.                  *)
(***************************************************************************)
ShrinkKeepsWanted ==
    [][syncer.at = "shrink" /\ syncer'.at = "idle" /\ model.exists /\ insts' # insts
         => Cardinality({i \in Ids : insts'[i] # "absent"}) >= syncer.want]_vars

\* The model has as many instances as it wants, if no sync failed, and wants what an
\* enabled schedule says.
Matches ==
    model.exists => /\ faults = 0 => Count = model.replicas
                    /\ model.scheduled => model.replicas = Desired

(***************************************************************************)
(* The scaling scheduler does not touch a model whose schedule is off: it  *)
(* re-checks "to avoid clobbering a concurrent manual change with a stale  *)
(* desired value".                                                         *)
(***************************************************************************)
ManualChangeKept ==
    [][scaler.at = "write" /\ scaler' = Idle /\ model'.replicas # model.replicas
         => model.scheduled]_vars
=============================================================================
