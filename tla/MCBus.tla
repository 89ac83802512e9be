------------------------------- MODULE MCBus -------------------------------
(***************************************************************************)
(* How a write reaches those who must see it, and the scheduler that acts  *)
(* on what reaches it, for TLC: the four parts share no state, so each     *)
(* behaviour is one of one part (focus), the others staying as they were   *)
(* initialised.                                                            *)
(*   "queue"  a subscriber's queue        (Subscriber)                     *)
(*   "bus"    events between servers      (EventBus, rows of one id)       *)
(*   "cache"  cached rows of two servers  (ReadThroughCache)               *)
(*   "place"  the scheduler               (Scheduler, one worker: rows     *)
(*            grow old without bound and PUTs do not lag)                  *)
(***************************************************************************)
EXTENDS EventBus

CONSTANTS i1, i2, w1, Nobody

VARIABLES
    focus,
    ready, queue, putters, latest, closed, consumer, rows, published, updated, delivered,
    cancels,
    row, entry, timer, lock, made, reader, writer, pending, lost, tainted, doubtful,
    placed, news, evaluations, line, cycle, workers, copies, undone, slips, ages

\* Two callers and a batch writer on s1, another writer on s2.
Homes == [p \in {"r1", "r2", "w1", "w2"} |-> IF p = "w2" THEN "s2" ELSE "s1"]

Queue == INSTANCE Subscriber
    WITH Ids <- {i1, i2}, EventTypes <- {"CREATED", "UPDATED"}, QueueSize <- 1,
         MaxEvents <- 4, MaxCancels <- 1, None <- Nobody

Cache == INSTANCE ReadThroughCache
    WITH Readers <- {"r1", "r2"}, Writers <- {"w1", "w2"}, Batch <- {"w1"},
         Home <- Homes, MaxLost <- 1, db <- row

Placement == INSTANCE Scheduler
    WITH Instances <- {i1}, Workers <- {w1}, Capacity <- [w \in {w1} |-> 1], Lag <- FALSE,
         MaxFaults <- 1, MaxAges <- Nobody, None <- Nobody, rows <- placed, events <- news,
         tasks <- evaluations, queue <- line, ready <- workers, faults <- slips

queuevars == <<ready, queue, putters, latest, closed, consumer, rows, published, updated,
               delivered, cancels>>
cachevars == <<row, entry, timer, lock, made, reader, writer, pending, lost, tainted,
               doubtful>>
placevars == <<placed, news, evaluations, line, cycle, workers, copies, undone, slips, ages>>

MCInit ==
    /\ focus \in {"queue", "bus", "cache", "place"}
    /\ Init /\ Queue!Init /\ Cache!Init /\ Placement!Init

MCNext ==
    /\ UNCHANGED focus
    /\ \/ focus = "bus" /\ Next /\ UNCHANGED <<queuevars, cachevars, placevars>>
       \/ focus = "queue" /\ Queue!Next /\ UNCHANGED <<evars, cachevars, placevars>>
       \/ focus = "cache" /\ Cache!Next /\ UNCHANGED <<evars, queuevars, placevars>>
       \/ focus = "place" /\ Placement!Next /\ UNCHANGED <<evars, queuevars, cachevars>>

(***************************************************************************)
(* The loop runs every callback, a cached call and a write go on, and the  *)
(* coordinator's messages and the timers of the cache come in the end; the *)
(* fairness of Scheduler.                                                  *)
(***************************************************************************)
MCSpec ==
    /\ MCInit /\ [][MCNext]_<<evars, queuevars, cachevars, placevars, focus>>
    /\ WF_queuevars(focus = "queue" /\ Queue!Loop)
    /\ WF_queuevars(focus = "queue" /\ Queue!ConsumerWakes)
    /\ \A r \in {"r1", "r2"} : WF_cachevars(focus = "cache" /\ Cache!Call(r))
    /\ \A w \in {"w1", "w2"} : WF_cachevars(focus = "cache" /\ Cache!Write(w))
    /\ \A s \in Servers : /\ WF_cachevars(focus = "cache" /\ Cache!RemoteInvalidate(s))
                          /\ WF_cachevars(focus = "cache" /\ Cache!Expire(s))
    /\ WF_placevars(focus = "place" /\ Placement!Scan)
    /\ WF_placevars(focus = "place" /\ Placement!OnCreated)
    /\ \A s \in {"live", "scan"} : WF_placevars(focus = "place" /\ Placement!Evaluation(s, i1))
    /\ WF_placevars(focus = "place" /\ Placement!Cycle)
    /\ WF_placevars(focus = "place" /\ Placement!Age(i1))

(***************************************************************************)
(* The invariant of Subscriber: an id is in latest_by_key exactly while    *)
(* one token for it is in the queue or on its way (enqueue, receive).      *)
(***************************************************************************)
LatestHasToken == Queue!LatestHasToken

\* After close() no enqueue task stays blocked on the full queue.
ClosedUnwinds == Queue!ClosedUnwinds

(***************************************************************************)
(* However coalescing and overtaking interleave, receive() never returns   *)
(* an older UPDATED of a row after a newer one.                            *)
(***************************************************************************)
UpdatesMonotone == Queue!UpdatesMonotone

(***************************************************************************)
(* Once all invalidations have arrived, a server's cached row is the       *)
(* committed one unless the call that cached it overlapped one of them.    *)
(***************************************************************************)
StaleOnlyIfOverlapped == Cache!StaleOnlyIfOverlapped

\* No server serves an old row for ever: entries expire.
FreshInTheEnd == focus = "cache" => Cache!FreshInTheEnd

(***************************************************************************)
(* Unless the consumer leaves or a put is cancelled, a subscriber receives *)
(* every UPDATED of a row or a newer one.                                  *)
(***************************************************************************)
NewestReceived == focus = "queue" => Queue!NewestDelivered

(***************************************************************************)
(* An instance that holds no worker is placed, refused or deleted in the   *)
(* end if some READY worker has room from some time on.                    *)
(***************************************************************************)
UnplacedIsPlaced == focus = "place" => Placement!UnplacedIsPlaced
=============================================================================
