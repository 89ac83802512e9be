----------------------------- MODULE UsageMeter -----------------------------
(***************************************************************************)
(* How the running time of a GPU instance is metered: ResourceEventLogger  *)
(* (gpustack/server/resource_event_logger.py) turns changes of the row     *)
(* into an event log, ResourceUsageCollector (resource_usage_collector.py) *)
(* turns the log into one row of seconds per hour and billed shape.        *)
(*                                                                         *)
(* Both are tasks of the leader and keep their working state in memory     *)
(* only.  Instances are independent of each other; this is one of them.    *)
(* Time is counted in fractions of a second, as ticks and events do not    *)
(* fall on whole seconds.  The audit-only "created" event is left out.     *)
(***************************************************************************)
EXTENDS Integers, SequencesExt

CONSTANTS
    Shapes,      \* what an instance is billed as: type and count
    Second,      \* clock steps in a second
    Hour,        \* clock steps in an hour
    Grace,       \* METERED_USAGE_SEAL_GRACE_SECONDS, in clock steps
    Overtakes,   \* what a tick may run ahead of: "replay", "feed"
    MaxTime,     \* the clock stops here
    MaxMoves,    \* bound on starts, stops and the deletion of the instance
    MaxFaults,   \* bounds on restarts of the leader and failing transactions
    None

ASSUME MeterAssumption ==
    /\ Second \in Nat \ {0}
    /\ Hour \in Nat \ {0}
    /\ Grace \in Nat
    /\ Overtakes \subseteq {"replay", "feed"}
    /\ MaxTime \in Nat
    /\ MaxMoves \in Nat
    /\ MaxFaults \in [{"restart", "failure"} -> Nat]

VARIABLES
    now,
    inst,       \* the instance: [exists, metered, shape]
    inbox,      \* its events on their way to the logger
    logger,     \* is the logger running?
    guard,      \* its _instance_metered
    log,        \* the resource_events table
    stage,      \* the collector: "off", "reconciled", "subscribed" or "live"
    replay,     \* entries of the log it has still to replay
    feed,       \* new entries on their way to it
    window,     \* its open window [shape, through, share], or None
    sealing,    \* the time of a tick that has still to seal, or None
    rows,       \* rows[h][s]: the metered_usage row, absent while its q is 0
    detail,     \* can the billed share of the instance's type be read?
    lost,       \* has the collector dropped or failed to settle part of a window?
    unlogged,   \* is a change of the instance missing from the log?
    moves, faults

instance == <<inst, moves>>
logging == <<inbox, logger, guard, unlogged>>
collecting == <<stage, replay, window, sealing, lost>>
mvars == <<now, instance, logging, log, feed, collecting, rows, detail, faults>>

Hours == 0 .. MaxTime \div Hour
Begin(h) == h * Hour
NoRow(h) == [q |-> 0, until |-> Begin(h), sealed |-> FALSE]
Opens(e) == e.type = "to"

\* The latest event of the log is one that opens a window.
LogsMetered == log # <<>> /\ Opens(Last(log))

\* A new instance, and a leader that is up.
Init ==
    /\ now = 0
    /\ inst \in [exists : {TRUE}, metered : {FALSE}, shape : Shapes]
    /\ inbox = <<>>
    /\ logger = TRUE
    /\ guard = FALSE
    /\ log = <<>>
    /\ stage = "live"
    /\ replay = <<>>
    /\ feed = <<>>
    /\ window = None
    /\ sealing = None
    /\ rows = [h \in Hours |-> [s \in Shapes |-> NoRow(h)]]
    /\ detail \in BOOLEAN
    /\ lost = FALSE
    /\ unlogged = FALSE
    /\ moves = 0
    /\ faults = [f \in {"restart", "failure"} |-> 0]

Fault(f) ==
    /\ faults[f] < MaxFaults[f]
    /\ faults' = [faults EXCEPT ![f] = @ + 1]

-----------------------------------------------------------------------------
(* The instance, its type and the clock. *)

\* UPDATED events of one row are one in the queue (see Subscriber).
Publish(e) ==
    inbox' = IF logger /\ e \notin ToSet(inbox) THEN Append(inbox, e) ELSE inbox

\* The phase becomes a metered one.  The shape is changed only in between.
Runs(s) ==
    /\ inst.exists /\ ~inst.metered
    /\ moves < MaxMoves
    /\ inst' = [inst EXCEPT !.metered = TRUE, !.shape = s]
    /\ moves' = moves + 1
    /\ Publish("updated")
    /\ UNCHANGED <<now, logger, guard, unlogged, log, feed, collecting, rows, detail, faults>>

Stops ==
    /\ inst.exists /\ inst.metered
    /\ moves < MaxMoves
    /\ inst' = [inst EXCEPT !.metered = FALSE]
    /\ moves' = moves + 1
    /\ Publish("updated")
    /\ UNCHANGED <<now, logger, guard, unlogged, log, feed, collecting, rows, detail, faults>>

Deleted ==
    /\ inst.exists
    /\ moves < MaxMoves
    /\ inst' = [inst EXCEPT !.exists = FALSE]
    /\ moves' = moves + 1
    /\ Publish("deleted")
    /\ UNCHANGED <<now, logger, guard, unlogged, log, feed, collecting, rows, detail, faults>>

\* The operator fills in the type's status.detail.
Backfill ==
    /\ ~detail
    /\ detail' = TRUE
    /\ UNCHANGED <<now, instance, logging, log, feed, collecting, rows, faults>>

TimePasses ==
    /\ now < MaxTime
    /\ now' = now + 1
    /\ UNCHANGED <<instance, logging, log, feed, collecting, rows, detail, faults>>

-----------------------------------------------------------------------------
(* ResourceEventLogger. *)

\* Mutant: the guards are not rebuilt.
WarmupNothing == FALSE

\* _warmup_state: the guard is what the latest event says.
Warmup == LogsMetered

(***************************************************************************)
(* start: the guard is rebuilt, then the subscription begins with the row. *)
(* If the guard cannot be rebuilt, the logger runs without.                *)
(***************************************************************************)
StartLogger ==
    /\ ~logger
    /\ logger' = TRUE
    /\ inbox' = IF inst.exists THEN <<"updated">> ELSE <<>>
    /\ \/ /\ guard' = Warmup
          /\ unlogged' = ~inst.exists
          /\ UNCHANGED faults
       \/ /\ Fault("failure")
          /\ guard' = FALSE
          /\ unlogged' = TRUE
    /\ UNCHANGED <<now, instance, log, feed, collecting, rows, detail>>

\* _write_event, for each of types in turn; the commit publishes the entries.
Write(types) ==
    LET entry(t) == [type |-> t, at |-> now, shape |-> inst.shape] IN
    /\ log' = log \o [k \in DOMAIN types |-> entry(types[k])]
    /\ feed' = IF stage \in {"subscribed", "live"}
               THEN feed \o [k \in DOMAIN types |-> Len(log) + k]
               ELSE feed

(***************************************************************************)
(* What _handle_instance writes for the event, and the guard it leaves.    *)
(* For a flip the guard is set before the write, for a deletion after it.  *)
(***************************************************************************)
Due ==
    CASE Head(inbox) = "deleted" -> (IF guard THEN <<"left">> ELSE <<>>) \o <<"deleted">>
      [] inst.metered /\ ~guard -> <<"to">>
      [] ~inst.metered /\ guard -> <<"left">>
      [] OTHER -> <<>>

HandleInstance ==
    /\ inbox # <<>>
    /\ inbox' = Tail(inbox)
    /\ guard' = (Head(inbox) = "updated" /\ inst.metered)
    /\ Write(Due)
    /\ unlogged' = (unlogged /\ Due = <<>>)
    /\ UNCHANGED <<now, instance, logger, collecting, rows, detail, faults>>

\* A write raises: what is still due is never written.
HandleInstanceFails ==
    /\ inbox # <<>>
    /\ Due # <<>>
    /\ Fault("failure")
    /\ inbox' = Tail(inbox)
    /\ guard' = IF Head(inbox) = "updated" THEN inst.metered ELSE guard
    /\ \E n \in 0 .. Len(Due) - 1 : Write(SubSeq(Due, 1, n))
    /\ unlogged' = TRUE
    /\ UNCHANGED <<now, instance, logger, collecting, rows, detail>>

-----------------------------------------------------------------------------
(* ResourceUsageCollector: settlement. *)

Later(x, y) == IF x >= y THEN x ELSE y
Sooner(x, y) == IF x <= y THEN x ELSE y

\* Mutant: each segment is truncated to seconds by itself.
ClampedTruncating(h, from, to, prior) ==
    IF to <= Later(from, prior) THEN 0 ELSE (to - Later(from, prior)) \div Second

\* Mutant: what the row has counted already is not taken off.
ClampedByNothing(h, from, to, prior) ==
    IF to <= from THEN 0
    ELSE (to - Begin(h)) \div Second - (from - Begin(h)) \div Second

\* _clamped_seconds: a difference of whole offsets from the start of the hour.
ClampedSeconds(h, from, to, prior) ==
    IF to <= Later(from, prior) THEN 0
    ELSE (to - Begin(h)) \div Second - (Later(from, prior) - Begin(h)) \div Second

\* iter_utc_hour_segments: the part of hour h, empty if it does not start before its end.
SegStart(h, from) == Later(from, Begin(h))
SegEnd(h, to) == Sooner(to, Begin(h + 1))

Adds(w, end, h) ==
    IF SegStart(h, w.through) >= SegEnd(h, end) THEN 0
    ELSE ClampedSeconds(h, SegStart(h, w.through), SegEnd(h, end), rows[h][w.shape].until)

(***************************************************************************)
(* _settle_locked and _upsert_bucket: [through, end] in one transaction.   *)
(* A sealed row stays as it is; an unknown share settles nothing.          *)
(***************************************************************************)
Upsert(w, end, h) ==
    LET row == rows[h][w.shape]
        add == Adds(w, end, h)
    IN  IF row.sealed \/ add = 0 THEN rows[h]
        ELSE [rows[h] EXCEPT ![w.shape] =
                 [q |-> row.q + add, until |-> SegEnd(h, end), sealed |-> FALSE]]

Settle(w, end) ==
    rows' = IF w.share THEN [h \in Hours |-> Upsert(w, end, h)] ELSE rows

\* Seconds of the segment find their row sealed.
Drops(w, end) ==
    w.share /\ \E h \in Hours : rows[h][w.shape].sealed /\ Adds(w, end, h) > 0

-----------------------------------------------------------------------------
(* ResourceUsageCollector: start, events and ticks. *)

\* _open_window_from_event and the lookup of the type.
OpenWindow(e) == [shape |-> e.shape, through |-> e.at, share |-> detail]

\* Where the instance's rows have been settled to.
Marks ==
    LET written == {x \in Hours \X Shapes : rows[x[1]][x[2]].q > 0}
    IN  {0} \cup {rows[x[1]][x[2]].until : x \in written}

\* _seed_settled_through: a window goes on from the latest of them.
Resumed(w) ==
    \E mark \in Marks :
        /\ \A m \in Marks : m <= mark
        /\ window' = [w EXCEPT !.through = Later(w.through, mark)]

\* _reconcile_open_windows, which may fail before the window is opened or resumed.
Reconcile ==
    /\ stage = "off"
    /\ stage' = "reconciled"
    /\ \/ /\ LogsMetered
          /\ Resumed(OpenWindow(Last(log)))
          /\ UNCHANGED faults
       \/ /\ ~LogsMetered
          /\ UNCHANGED <<window, faults>>
       \/ /\ Fault("failure")
          /\ \/ UNCHANGED window
             \/ LogsMetered /\ window' = OpenWindow(Last(log))
    /\ UNCHANGED <<now, instance, logging, log, replay, feed, sealing, lost, rows, detail>>

\* ResourceEvent.subscribe: first the subscription, then all entries so far.
Subscribe ==
    /\ stage = "reconciled"
    /\ stage' = "subscribed"
    /\ UNCHANGED <<now, instance, logging, log, feed, replay, window, sealing, lost,
                   rows, detail, faults>>

Snapshot ==
    /\ stage = "subscribed"
    /\ stage' = "live"
    /\ replay' = [k \in DOMAIN log |-> k]
    /\ UNCHANGED <<now, instance, logging, log, feed, window, sealing, lost, rows,
                   detail, faults>>

\* _run_events takes the next entry, those replayed before the new ones.
Take(e) ==
    /\ stage = "live"
    /\ \/ /\ replay # <<>>
          /\ e = log[Head(replay)]
          /\ replay' = Tail(replay)
          /\ UNCHANGED feed
       \/ /\ replay = <<>>
          /\ feed # <<>>
          /\ e = log[Head(feed)]
          /\ feed' = Tail(feed)
          /\ UNCHANGED replay

\* _handle_event: a window is opened over any other, or closed and settled.
HandleOpen(e) ==
    /\ Opens(e)
    /\ Take(e)
    /\ window' = OpenWindow(e)
    /\ UNCHANGED <<now, instance, logging, log, stage, sealing, lost, rows, detail, faults>>

HandleClose(e) ==
    /\ ~Opens(e)
    /\ Take(e)
    /\ window' = None
    /\ \/ /\ window = None
          /\ UNCHANGED <<rows, lost>>
       \/ /\ window # None
          /\ Settle(window, e.at)
          /\ lost' = (lost \/ ~window.share \/ Drops(window, e.at))
    /\ UNCHANGED <<now, instance, logging, log, stage, sealing, detail, faults>>

\* The lookup or the transaction raises; a window to be closed is gone by then.
HandleFails(e) ==
    /\ Take(e)
    /\ Fault("failure")
    /\ lost' = TRUE
    /\ window' = IF Opens(e) THEN window ELSE None
    /\ UNCHANGED <<now, instance, logging, log, stage, sealing, rows, detail>>

\* _tick_once: missing shares are looked up, the open window is settled until now.
Tick ==
    /\ stage # "off"
    /\ sealing = None
    /\ (stage = "live" /\ replay = <<>>) \/ "replay" \in Overtakes
    /\ feed = <<>> \/ "feed" \in Overtakes
    /\ sealing' = now
    /\ \/ /\ window = None
          /\ UNCHANGED <<window, rows, lost, faults>>
       \/ /\ window # None
          /\ LET w == [window EXCEPT !.share = @ \/ detail] IN
             /\ Settle(w, now)
             /\ window' = IF w.share THEN [w EXCEPT !.through = Later(@, now)] ELSE w
             /\ lost' = (lost \/ Drops(w, now))
          /\ UNCHANGED faults
       \/ /\ window # None
          /\ Fault("failure")
          /\ UNCHANGED <<window, rows, lost>>
    /\ UNCHANGED <<now, instance, logging, log, stage, replay, feed, detail>>

\* MeteredUsage.seal_due, after the lock is given back, with the tick's time.
Seal ==
    /\ sealing # None
    /\ sealing' = None
    /\ rows' = [h \in Hours |-> [s \in Shapes |->
           [rows[h][s] EXCEPT !.sealed = @ \/ (rows[h][s].q > 0 /\ Begin(h + 1) + Grace <= sealing)]]]
    /\ UNCHANGED <<now, instance, logging, log, stage, replay, feed, window, lost,
                   detail, faults>>

SealFails ==
    /\ sealing # None
    /\ Fault("failure")
    /\ sealing' = None
    /\ UNCHANGED <<now, instance, logging, log, stage, replay, feed, window, lost, rows,
                   detail>>

\* The leader restarts, or another server takes over.
Restart ==
    /\ logger \/ stage # "off"
    /\ Fault("restart")
    /\ logger' = FALSE
    /\ guard' = FALSE
    /\ inbox' = <<>>
    /\ stage' = "off"
    /\ replay' = <<>>
    /\ feed' = <<>>
    /\ window' = None
    /\ sealing' = None
    /\ UNCHANGED <<now, instance, unlogged, log, lost, rows, detail>>

-----------------------------------------------------------------------------
Next ==
    \/ \E s \in Shapes : Runs(s)
    \/ Stops \/ Deleted \/ Backfill \/ TimePasses
    \/ StartLogger \/ HandleInstance \/ HandleInstanceFails
    \/ Reconcile \/ Subscribe \/ Snapshot
    \/ \E e \in ToSet(log) : HandleOpen(e) \/ HandleClose(e) \/ HandleFails(e)
    \/ Tick \/ Seal \/ SealFails \/ Restart

Spec == Init /\ [][Next]_mvars

-----------------------------------------------------------------------------
(* Properties. *)

Times == 0 .. MaxTime

TypeOK ==
    /\ now \in Times
    /\ inst \in [exists : BOOLEAN, metered : BOOLEAN, shape : Shapes]
    /\ inbox \in {<<>>, <<"updated">>, <<"deleted">>, <<"updated", "deleted">>}
    /\ log \in Seq([type : {"to", "left", "deleted"}, at : Times, shape : Shapes])
    /\ stage \in {"off", "reconciled", "subscribed", "live"}
    /\ ToSet(replay) \cup ToSet(feed) \subseteq DOMAIN log
    /\ window \in [shape : Shapes, through : Times, share : BOOLEAN] \cup {None}
    /\ sealing \in Times \cup {None}
    /\ rows \in [Hours -> [Shapes -> [q : Nat, until : Nat, sealed : BOOLEAN]]]
    /\ \A b \in {logger, guard, detail, lost, unlogged} : b \in BOOLEAN
    /\ moves \in 0 .. MaxMoves
    /\ \A f \in DOMAIN faults : faults[f] \in 0 .. MaxFaults[f]

(***************************************************************************)
(* A row never holds more seconds than lie between the start of its hour   *)
(* and its settled_until, whatever is replayed, retried, restarted or      *)
(* settled twice: "the durable cursor lives on the row"                    *)
(* (_clamped_seconds, _upsert_bucket).                                     *)
(***************************************************************************)
RowWithinMark ==
    \A h \in Hours, s \in Shapes :
        /\ rows[h][s].until \in Begin(h) .. Begin(h + 1)
        /\ rows[h][s].q <= (rows[h][s].until - Begin(h)) \div Second

\* When the window opened by entry i ends: at the next entry, or it is open still.
EndOf(i) == IF i < Len(log) THEN log[i + 1].at ELSE now

\* The whole seconds of hour h that windows of shape s in the log cover.
LoggedSeconds(h, s) ==
    LET covers(i) == (SegStart(h, log[i].at) \div Second) .. (SegEnd(h, EndOf(i)) \div Second) - 1
    IN  UNION {covers(i) : i \in {k \in DOMAIN log : Opens(log[k]) /\ log[k].shape = s}}

Alternates == \A i \in 1 .. Len(log) - 1 : Opens(log[i]) => ~Opens(log[i + 1])

Caught == stage = "live" /\ replay = <<>> /\ feed = <<>> /\ window = None

(***************************************************************************)
(* A row holds no second outside the windows the log has for its shape,    *)
(* and once they are all closed and handled it holds each of them exactly  *)
(* once: over restarts, replays, failed ticks and stops within an hour,    *)
(* "a fully-covered hour sums to exactly 3600" (_clamped_seconds).  The    *)
(* exceptions are what was dropped or could not be settled when its window *)
(* closed (lost) and a closing event that was never written (~Alternates): *)
(* either may leave seconds out, only both together can add some.  Ticks   *)
(* must not overtake entries of the log (Overtakes = {}).                  *)
(***************************************************************************)
UsageFollowsLog ==
    \A h \in Hours, s \in Shapes :
        LET logged == Cardinality(LoggedSeconds(h, s)) IN
        /\ ~lost \/ Alternates => rows[h][s].q <= logged
        /\ Caught /\ ~lost /\ Alternates => rows[h][s].q = logged

(***************************************************************************)
(* When the logger has handled what it was sent, the log's latest entry    *)
(* says whether the instance is metered.  A failed write makes it wrong    *)
(* only until the next entry or restart; the exception is an instance      *)
(* deleted while no logger ran (_handle_instance, _warmup_state).          *)
(***************************************************************************)
LogFollows ==
    logger /\ inbox = <<>> /\ ~unlogged =>
        (LogsMetered <=> inst.exists /\ inst.metered)
=============================================================================
