------------------------------ MODULE EventBus ------------------------------
(***************************************************************************)
(* The path of a committed write through gpustack/server/bus.py when       *)
(* several server instances share one database and a distributed           *)
(* coordinator: the after-commit hook publishes the event from a task, the *)
(* coordinator hands the whole event to the instance that wrote and only   *)
(* the id to the others, and those complete it with a query before they    *)
(* route it to their subscribers.                                          *)
(*                                                                         *)
(* What a query of another instance awaits is a step boundary: the cached  *)
(* row is read before the query is sent, the database answers with the row *)
(* of that moment, and the task goes on when its turn comes, so two events *)
(* of one row may overtake each other.  Rows are abstracted to the number  *)
(* of the write that produced them.                                        *)
(***************************************************************************)
EXTENDS Integers, Sequences, FiniteSets

CONSTANTS
    Servers,     \* the server instances
    Ids,         \* the rows of one registered topic; ids are never reused
    MaxWrites,   \* bound on the writes committed
    MaxFaults    \* bound on failed publications, failed queries, evictions

VARIABLES
    db,        \* db[i]: None before the row exists, its version, or Gone
    writes,    \* how many writes were committed; numbers the versions
    outbox,    \* outbox[s]: events whose publish() task has not run yet
    wire,      \* wire[s]: events the coordinator has for s, in order
    tasks,     \* tasks[s]: the _process_coordinator_event tasks in a query
    detector,  \* detector[s][i]: the row in the ChangeDetector cache of s
    routed,    \* routed[s]: every event s routed to its subscribers
    faults     \* how many faults have happened

evars == <<db, writes, outbox, wire, tasks, detector, routed, faults>>

Types == {"CREATED", "UPDATED", "DELETED"}
Versions == 1 .. MaxWrites
\* No row, a deleted row, and a query that is not answered yet.
None == 0
Gone == -1
Asked == -2
\* What a subscriber receives: data is a version of the row, or None for an
\* id-only payload.
Routed == [type : Types, id : Ids, ver : Versions, data : Versions \cup {None}]

Init ==
    /\ db = [i \in Ids |-> None]
    /\ writes = 0
    /\ outbox = [s \in Servers |-> <<>>]
    /\ wire = [s \in Servers |-> <<>>]
    /\ tasks = [s \in Servers |-> {}]
    /\ detector = [s \in Servers |-> [i \in Ids |-> None]]
    /\ routed = [s \in Servers |-> {}]
    /\ faults = 0

With(event, data) ==
    [type |-> event.type, id |-> event.id, ver |-> event.ver, data |-> data]

(***************************************************************************)
(* s commits a write; the hook starts a task that will publish the event.  *)
(* A deleted row leaves with the version it had.                           *)
(***************************************************************************)
Commit(s, type, i) ==
    /\ writes < MaxWrites
    /\ writes' = writes + 1
    /\ \/ type = "CREATED" /\ db[i] = None
       \/ type # "CREATED" /\ db[i] \in Versions
    /\ db' = [db EXCEPT ![i] = IF type = "DELETED" THEN Gone ELSE writes + 1]
    /\ outbox' = [outbox EXCEPT ![s] = Append(@,
            [type |-> type, id |-> i, ver |-> writes + 1,
             data |-> IF type = "DELETED" THEN db[i] ELSE writes + 1])]
    /\ UNCHANGED <<wire, tasks, detector, routed, faults>>

\* _route_event: one enqueue task per subscriber, no await before it.
Route(s, event) == routed' = [routed EXCEPT ![s] = @ \cup {event}]

(***************************************************************************)
(* publish(): the coordinator distributes; other instances get the id.     *)
(***************************************************************************)
Publish(s) ==
    /\ outbox[s] # <<>>
    /\ outbox' = [outbox EXCEPT ![s] = Tail(@)]
    /\ LET event == Head(outbox[s])
       IN  wire' = [r \in Servers |->
                      Append(wire[r], IF r = s THEN event ELSE With(event, None))]
    /\ UNCHANGED <<db, writes, tasks, detector, routed, faults>>

\* publish() when the coordinator raises: local delivery, past the cache.
PublishFails(s) ==
    /\ faults < MaxFaults
    /\ faults' = faults + 1
    /\ outbox[s] # <<>>
    /\ outbox' = [outbox EXCEPT ![s] = Tail(@)]
    /\ Route(s, Head(outbox[s]))
    /\ UNCHANGED <<db, writes, wire, tasks, detector>>

\* _remember_local_row
RememberLocalRow(s, event) ==
    detector' = [detector EXCEPT ![s][event.id] =
                   IF event.type = "DELETED" THEN None ELSE event.data]

(***************************************************************************)
(* The coordinator's callback starts _process_coordinator_event, which     *)
(* routes a whole event at once and otherwise reads the cache and queries. *)
(***************************************************************************)
Arrive(s) ==
    /\ wire[s] # <<>>
    /\ wire' = [wire EXCEPT ![s] = Tail(@)]
    /\ LET event == Head(wire[s])
       IN  \/ /\ event.data # None
              /\ RememberLocalRow(s, event)
              /\ Route(s, event)
              /\ UNCHANGED tasks
           \/ /\ event.data = None
              /\ tasks' = [tasks EXCEPT ![s] = @ \cup
                    {[event |-> event, old |-> detector[s][event.id], row |-> Asked]}]
              /\ UNCHANGED <<detector, routed>>
    /\ UNCHANGED <<db, writes, outbox, faults>>

\* The database answers the query with the row of this moment.
Answer(s, t) ==
    /\ t \in tasks[s]
    /\ t.row = Asked
    /\ tasks' = [tasks EXCEPT ![s] = (@ \ {t}) \cup {[t EXCEPT !.row = db[t.event.id]]}]
    /\ UNCHANGED <<db, writes, outbox, wire, detector, routed, faults>>

\* Mutant: the row is looked for before the event's type is.
CompleteRowFirst(s, t) ==
    /\ t \in tasks[s]
    /\ t.row # Asked
    /\ tasks' = [tasks EXCEPT ![s] = @ \ {t}]
    /\ \/ /\ t.row = Gone
          /\ UNCHANGED <<detector, routed>>
       \/ /\ t.row # Gone
          /\ detector' = [detector EXCEPT ![s][t.event.id] = t.row]
          /\ Route(s, With(t.event, t.row))
    /\ UNCHANGED <<db, writes, outbox, wire, faults>>

\* Mutant: an update is completed with the cached row when there is one.
CompleteFromCache(s, t) ==
    /\ t \in tasks[s]
    /\ t.row # Asked
    /\ tasks' = [tasks EXCEPT ![s] = @ \ {t}]
    /\ Route(s, With(t.event, IF t.old # None \/ t.event.type = "DELETED" THEN t.old
                              ELSE t.row))
    /\ detector' = [detector EXCEPT ![s][t.event.id] = None]
    /\ UNCHANGED <<db, writes, outbox, wire, faults>>

(***************************************************************************)
(* The task goes on after its query: a deletion is routed with the cached  *)
(* row or id-only and leaves the cache, an event whose row is gone is      *)
(* dropped, any other is routed with the row.                              *)
(***************************************************************************)
Complete(s, t) ==
    /\ t \in tasks[s]
    /\ t.row # Asked
    /\ tasks' = [tasks EXCEPT ![s] = @ \ {t}]
    /\ \/ /\ t.event.type = "DELETED"
          /\ Route(s, With(t.event, t.old))
          /\ detector' = [detector EXCEPT ![s][t.event.id] = None]
       \/ /\ t.event.type # "DELETED"
          /\ t.row = Gone
          /\ UNCHANGED <<detector, routed>>
       \/ /\ t.event.type # "DELETED"
          /\ t.row # Gone
          /\ detector' = [detector EXCEPT ![s][t.event.id] = t.row]
          /\ Route(s, With(t.event, t.row))
    /\ UNCHANGED <<db, writes, outbox, wire, faults>>

\* The query raises and the event is skipped.
QueryFails(s, t) ==
    /\ t \in tasks[s]
    /\ faults < MaxFaults
    /\ faults' = faults + 1
    /\ tasks' = [tasks EXCEPT ![s] = @ \ {t}]
    /\ UNCHANGED <<db, writes, outbox, wire, detector, routed>>

\* The LRU cache of the detector drops a row.
Evict(s, i) ==
    /\ detector[s][i] # None
    /\ faults < MaxFaults
    /\ faults' = faults + 1
    /\ detector' = [detector EXCEPT ![s][i] = None]
    /\ UNCHANGED <<db, writes, outbox, wire, tasks, routed>>

Next ==
    \E s \in Servers :
        \/ \E type \in Types, i \in Ids : Commit(s, type, i)
        \/ Publish(s)
        \/ PublishFails(s)
        \/ Arrive(s)
        \/ \E t \in tasks[s] : Answer(s, t) \/ Complete(s, t) \/ QueryFails(s, t)
        \/ \E i \in Ids : Evict(s, i)

Spec == Init /\ [][Next]_evars

-----------------------------------------------------------------------------
(* Properties. *)

TypeOK ==
    /\ db \in [Ids -> Versions \cup {None, Gone}]
    /\ writes \in 0 .. MaxWrites
    /\ \A s \in Servers :
        /\ \A n \in DOMAIN outbox[s] : outbox[s][n] \in Routed
        /\ \A n \in DOMAIN wire[s] : wire[s][n] \in Routed
        /\ \A t \in tasks[s] : /\ t.event \in Routed
                               /\ t.old \in Versions \cup {None}
                               /\ t.row \in Versions \cup {Asked, Gone}
        /\ detector[s] \in [Ids -> Versions \cup {None}]
        /\ routed[s] \subseteq Routed
    /\ faults \in 0 .. MaxFaults

(***************************************************************************)
(* "they never reach a subscriber id-only": a creation or an update is     *)
(* routed with a row, and with one at least as new as the write it tells   *)
(* of, whichever instance wrote it and however the queries overlap.  Only  *)
(* a deletion may come without its row, and then only where the row was    *)
(* not known.                                                              *)
(***************************************************************************)
NeverBehindItsWrite ==
    \A s \in Servers : \A e \in routed[s] :
        e.type # "DELETED" => e.data \in Versions /\ e.data >= e.ver

Settled == \A s \in Servers : outbox[s] = <<>> /\ wire[s] = <<>> /\ tasks[s] = {}

(***************************************************************************)
(* Dropping the events whose row is gone and coalescing several writes in  *)
(* one query loses nothing: once all is delivered, every instance has      *)
(* routed the newest state of every row that exists and the deletion of    *)
(* every row that does not.                                                *)
(***************************************************************************)
NothingLost ==
    Settled /\ faults = 0 => \A s \in Servers, i \in Ids :
        /\ db[i] \in Versions => \E e \in routed[s] : e.id = i /\ e.data = db[i]
        /\ db[i] = Gone => \E e \in routed[s] : e.id = i /\ e.type = "DELETED"
=============================================================================
