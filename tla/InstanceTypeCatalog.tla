------------------------ MODULE InstanceTypeCatalog ------------------------
(***************************************************************************)
(* GPUInstanceTypeController (gpustack/gpu_instances/controllers.py): the  *)
(* projection of a cluster's catalog of instance types into the            *)
(* gpu_instance_types table.  A watcher lists the catalog, then follows    *)
(* its watch; both feed a work queue, whose events one task per name       *)
(* applies to the table.                                                   *)
(*                                                                         *)
(* The queue is what Mailbox says of it; WorkQueue implements Mailbox.     *)
(* Names are those of one cluster: the watchers of two clusters share no   *)
(* key.  A row is identified by its snapshot, a hash of cluster, name and  *)
(* spec, so rows of one name are named by their spec here; the columns a   *)
(* row may have refreshed in place are left out.                           *)
(***************************************************************************)
EXTENDS Integers, Sequences, FiniteSets, TLC

CONSTANTS
    Names,       \* names of instance types
    Specs,       \* what a type of some name may be defined as
    MaxChanges,  \* bound on changes of the catalog
    MaxGaps,     \* bound on broken watches
    MaxRestarts, \* bound on server restarts
    MaxFailures, \* bound on reconciles that raise
    None

VARIABLES
    catalog,   \* catalog[n]: the spec the cluster defines n with, or None
    stream,    \* watch events on their way to the watcher
    phase,     \* the watcher: "off", "listed" (within _resync) or "watching"
    seen,      \* the names its list held
    dirty, inflight, later,   \* the work queue
    task,      \* task[n]: the event _process(n) works on
    stored,    \* stored[n]: the specs n has a row for
    active,    \* active[n]: those whose row is not soft-deleted
    changes, gaps, restarts, failed

vars == <<catalog, stream, phase, seen, dirty, inflight, later, task, stored,
          active, changes, gaps, restarts, failed>>
queue == <<dirty, inflight, later>>
table == <<stored, active>>
cluster == <<catalog, changes>>
watcher == <<stream, phase, seen>>

\* Mutant: the default policy, under which a pending DELETED is sticky.
StickyPolicy == "default"

\* _latest_wins.
Policy == "latest_wins"

Box == INSTANCE Mailbox
    WITH Keys <- Names, Objects <- Specs \cup {None}, CoalescePolicy <- Policy

Added(o) == [type |-> "ADDED", object |-> o]
Removed == [type |-> "DELETED", object |-> None]

Init ==
    /\ catalog \in [Names -> Specs \cup {None}]
    /\ stream = <<>>
    /\ phase = "off"
    /\ seen = {}
    /\ Box!Init
    /\ task = [n \in Names |-> None]
    /\ stored = [n \in Names |-> {}]
    /\ active = [n \in Names |-> {}]
    /\ changes = 0
    /\ gaps = 0
    /\ restarts = 0
    /\ failed = 0

-----------------------------------------------------------------------------
Event(n, o) ==
    [name |-> n, event |-> IF o = None THEN Removed
                           ELSE IF catalog[n] = None THEN Added(o)
                           ELSE [type |-> "MODIFIED", object |-> o]]

\* The cluster defines, redefines or deletes a type.
Change(n, o) ==
    /\ catalog[n] # o
    /\ changes < MaxChanges
    /\ changes' = changes + 1
    /\ catalog' = [catalog EXCEPT ![n] = o]
    /\ stream' = IF phase = "off" THEN stream ELSE Append(stream, Event(n, o))
    /\ UNCHANGED <<phase, seen, queue, task, table, gaps, restarts, failed>>

\* WorkQueue.add of events[n] for every n of its domain, one after the other.
AddAll(events) ==
    LET merged == [n \in DOMAIN events |-> Box!Merged(dirty[n], events[n])]
    IN  /\ dirty' = merged @@ dirty
        /\ later' = {x \in later : ~(x.key \in DOMAIN events /\ merged[x.key].type = "DELETED")}
        /\ UNCHANGED inflight

(***************************************************************************)
(* _resync, up to its query: list, and add ADDED for every listed type.    *)
(* The watch will resume where the list ends.                              *)
(***************************************************************************)
List ==
    /\ phase = "off"
    /\ phase' = "listed"
    /\ seen' = {n \in Names : catalog[n] # None}
    /\ AddAll([n \in seen' |-> Added(catalog[n])])
    /\ UNCHANGED <<cluster, stream, task, table, gaps, restarts, failed>>

\* ... then DELETED for every active row the list did not hold.
RetireUnlisted ==
    /\ phase = "listed"
    /\ phase' = "watching"
    /\ seen' = {}
    /\ AddAll([n \in {m \in Names : active[m] # {}} \ seen |-> Removed])
    /\ UNCHANGED <<cluster, stream, task, table, gaps, restarts, failed>>

OnWatchEvent ==
    /\ phase = "watching"
    /\ stream # <<>>
    /\ AddAll(Head(stream).name :> Head(stream).event)
    /\ stream' = Tail(stream)
    /\ UNCHANGED <<cluster, phase, seen, task, table, gaps, restarts, failed>>

\* The list or the watch breaks; the watcher starts over after a delay.
Disconnect ==
    /\ phase # "off"
    /\ gaps < MaxGaps
    /\ gaps' = gaps + 1
    /\ phase' = "off"
    /\ stream' = <<>>
    /\ seen' = {}
    /\ UNCHANGED <<cluster, queue, task, table, restarts, failed>>

\* The server restarts: only the table is left.
Restart ==
    /\ restarts < MaxRestarts
    /\ restarts' = restarts + 1
    /\ phase' = "off"
    /\ stream' = <<>>
    /\ seen' = {}
    /\ dirty' = [n \in Names |-> None]
    /\ inflight' = {}
    /\ later' = {}
    /\ task' = [n \in Names |-> None]
    /\ UNCHANGED <<cluster, table, gaps, failed>>

-----------------------------------------------------------------------------
\* _dispatch.
Dispatch(n) ==
    /\ Box!Take(n)
    /\ task' = [task EXCEPT ![n] = dirty[n]]
    /\ UNCHANGED <<cluster, watcher, table, gaps, restarts, failed>>

\* A retry whose backoff has passed.
Retry(x) ==
    /\ Box!Fire(x)
    /\ UNCHANGED <<cluster, watcher, task, table, gaps, restarts, failed>>

\* _retire_active: the first active row found, if there is one.
Retired(n) == IF active[n] = {} THEN {{}} ELSE {active[n] \ {o} : o \in active[n]}

(***************************************************************************)
(* _reconcile: DELETED retires; anything else revives the row of its       *)
(* snapshot, or retires the active one and inserts a row, in one commit.   *)
(***************************************************************************)
Reconcile(n) ==
    LET o == task[n].object
    IN  \/ /\ task[n].type = "DELETED"
           /\ \E rest \in Retired(n) : active' = [active EXCEPT ![n] = rest]
           /\ UNCHANGED stored
        \/ /\ task[n].type # "DELETED"
           /\ o \in stored[n]
           /\ active' = [active EXCEPT ![n] = active[n] \cup {o}]
           /\ UNCHANGED stored
        \/ /\ task[n].type # "DELETED"
           /\ o \notin stored[n]
           /\ \E rest \in Retired(n) : active' = [active EXCEPT ![n] = rest \cup {o}]
           /\ stored' = [stored EXCEPT ![n] = stored[n] \cup {o}]

\* _process, without an exception.
Succeeds(n) ==
    /\ task[n] # None
    /\ Reconcile(n)
    /\ Box!Finish(n)
    /\ task' = [task EXCEPT ![n] = None]
    /\ UNCHANGED <<cluster, watcher, gaps, restarts, failed>>

(***************************************************************************)
(* ... with one: the event it worked on is scheduled for later, and the    *)
(* key is done.                                                            *)
(***************************************************************************)
Fails(n) ==
    /\ task[n] # None
    /\ failed < MaxFailures
    /\ failed' = failed + 1
    /\ later' = Box!Without(later, n) \cup {[key |-> n, event |-> task[n]]}
    /\ inflight' = inflight \ {n}
    /\ task' = [task EXCEPT ![n] = None]
    /\ UNCHANGED <<cluster, watcher, dirty, table, gaps, restarts>>

-----------------------------------------------------------------------------
Next ==
    \/ \E n \in Names, o \in Specs \cup {None} : Change(n, o)
    \/ List \/ RetireUnlisted \/ OnWatchEvent \/ Disconnect \/ Restart
    \/ \E n \in Names : Dispatch(n) \/ Succeeds(n) \/ Fails(n)
    \/ \E x \in later : Retry(x)

Spec == Init /\ [][Next]_vars

-----------------------------------------------------------------------------
(***************************************************************************)
(* Queue and table hold what the code keeps in them; a key is in flight    *)
(* exactly while a task works on it, and an active row is a row.           *)
(***************************************************************************)
TypeOK ==
    /\ catalog \in [Names -> Specs \cup {None}]
    /\ stream \in Seq([name : Names, event : Box!Events])
    /\ phase \in {"off", "listed", "watching"}
    /\ seen \subseteq Names
    /\ dirty \in [Names -> Box!Events \cup {None}]
    /\ later \subseteq [key : Names, event : Box!Events]
    /\ task \in [Names -> Box!Events \cup {None}]
    /\ inflight = {n \in Names : task[n] # None}
    /\ stored \in [Names -> SUBSET Specs]
    /\ \A n \in Names : active[n] \subseteq stored[n]
    /\ changes \in 0 .. MaxChanges
    /\ gaps \in 0 .. MaxGaps
    /\ restarts \in 0 .. MaxRestarts
    /\ failed \in 0 .. MaxFailures

\* Nothing is on its way from the cluster to n's rows.
Settled(n) ==
    /\ phase = "watching"
    /\ \A i \in DOMAIN stream : stream[i].name # n
    /\ dirty[n] = None
    /\ n \notin inflight
    /\ \A x \in later : x.key # n

(***************************************************************************)
(* Once the controller has caught up, the definition a cluster has for a   *)
(* name is active, however often the type was deleted and recreated and    *)
(* whatever the watch missed.  Not so after a reconcile has failed: its    *)
(* retry carries the event of then and may undo what came after.           *)
(***************************************************************************)
NewestIsActive ==
    \A n \in Names :
        failed = 0 /\ Settled(n) /\ catalog[n] # None => catalog[n] \in active[n]

(***************************************************************************)
(* Once the controller has caught up, a name with one snapshot is active   *)
(* exactly if the cluster defines it, also after a restart with the type   *)
(* deleted in between.  Not so after a failed reconcile, nor after a       *)
(* broken watch: _resync looks for rows to retire in the table only, and   *)
(* an ADDED still queued is applied later.                                 *)
(***************************************************************************)
SettledAgrees ==
    \A n \in Names :
        failed = 0 /\ gaps = 0 /\ Settled(n) /\ Cardinality(stored[n]) = 1
            => active[n] = {catalog[n]} \ {None}

(***************************************************************************)
(* "at most one snapshot is ever active per (cluster_id, name)", says the  *)
(* comment in _upsert.                                                     *)
(***************************************************************************)
OneActive == \A n \in Names : Cardinality(active[n]) <= 1
=============================================================================
