------------------------------ MODULE WorkQueue ------------------------------
(***************************************************************************)
(* gpustack/server/workqueue.py: the work queue of the GPU instance        *)
(* controllers.  Producers and done() are synchronous functions on one     *)
(* event loop, so each is one atomic step; get() is the only coroutine and *)
(* gives the loop up only while it sleeps on the wakeup event.  One pass   *)
(* of get() is therefore cut into steps during which pc keeps every other  *)
(* function of the loop out.                                               *)
(*                                                                         *)
(* Time is kept as what is left of each timer (due - now, never below 0),  *)
(* so that runs are finite without a bound on the clock.  Two details are  *)
(* abstracted: due timers are popped in any order (the code pops them by   *)
(* due time, then by sequence number, and expired windows in dictionary    *)
(* order), and the event kept in a debounce entry is left out because no   *)
(* code reads it.                                                          *)
(***************************************************************************)
EXTENDS Integers, Sequences, FiniteSets

CONSTANTS
    Keys,             \* the work-item keys
    Objects,          \* the payloads an event may carry
    CoalescePolicy,   \* the coalesce argument of WorkQueue.__init__
    None,             \* an absent dictionary entry
    DedupWindow,      \* dedup_window, in ticks; 0 turns debouncing off
    DedupMaxWait,     \* dedup_max_wait, in ticks; 0 means dedup_window
    BackoffBase,      \* backoff_base, in ticks
    BackoffMax,       \* backoff_max, in ticks
    Delays,           \* the delays add_after is called with
    MaxFailures,      \* bound on the failures counted for one key
    YieldBetweenGets  \* FALSE: the consumer calls get() again at once, as the
                      \* _dispatch loops do; TRUE: it may await in between

ASSUME ConstantAssumption ==
    /\ DedupWindow \in Nat
    /\ DedupMaxWait \in Nat
    /\ BackoffBase \in Nat \ {0}
    /\ BackoffMax \in Nat \ {0}
    /\ Delays \subseteq Nat
    /\ MaxFailures \in Nat
    /\ YieldBetweenGets \in BOOLEAN
    /\ None \notin Int
    /\ None \notin [left : Nat, age : Nat]

VARIABLES
    pending,    \* pending[k]: the coalesced event to process, or None
    order,      \* the ready keys in the order get() returns them
    queued,     \* the keys in order
    processing, \* the keys handed out and not yet done
    delayed,    \* the heap: records [key, event, left]
    debounce,   \* debounce[k]: [left, age] of k's window, or None
    wakeup,     \* the asyncio.Event get() sleeps on
    failures,   \* ExponentialBackoff._failures
    pc,         \* where the consumer is inside get()
    timeout     \* the timeout of its wait_for, or None

qvars == <<pending, order, queued, processing, delayed, debounce, wakeup,
           failures, pc, timeout>>

Box == INSTANCE Mailbox
    WITH dirty <- pending,
         inflight <- processing,
         later <- {[key |-> d.key, event |-> d.event] : d \in delayed}

Events == Box!Events

ASSUME EventAssumption ==
    /\ CoalescePolicy \in Box!Policies
    /\ None \notin Events

(***************************************************************************)
(* The consumer: "idle" outside get(), "drain" in the loop of get() before *)
(* the ready queue is found empty, "cleared" between wakeup.clear() and    *)
(* the wait, "waiting" in the wait.                                        *)
(***************************************************************************)
LoopFree == pc = "waiting" \/ (pc = "idle" /\ YieldBetweenGets)

MaxWait == IF DedupMaxWait = 0 THEN DedupWindow ELSE DedupMaxWait

Lesser(a, b) == IF a <= b THEN a ELSE b

Down(n) == IF n <= 0 THEN 0 ELSE n - 1

Windows == {k \in Keys : debounce[k] # None}

DueDelayed == {d \in delayed : d.left <= 0}

DueWindows == {k \in Windows : debounce[k].left <= 0}

HasDue == DueDelayed # {} \/ DueWindows # {}

Init ==
    /\ pending = [k \in Keys |-> None]
    /\ order = <<>>
    /\ queued = {}
    /\ processing = {}
    /\ delayed = {}
    /\ debounce = [k \in Keys |-> None]
    /\ wakeup = FALSE
    /\ failures = [k \in Keys |-> 0]
    /\ pc = "idle"
    /\ timeout = None

-----------------------------------------------------------------------------
(* The ready queue. *)

\* Mutant: DELETED keys join the back of the ready queue.
EnqueueReadyAtBack(k, front) ==
    /\ queued' = queued \cup {k}
    /\ order' = Append(order, k)

EnqueueReady(k, front) ==
    /\ queued' = queued \cup {k}
    /\ order' = IF front THEN <<k>> \o order ELSE Append(order, k)

(***************************************************************************)
(* deque.remove(k) followed by deque.appendleft(k).                        *)
(***************************************************************************)
MoveToFront(s, k) ==
    LET at == CHOOSE i \in DOMAIN s : s[i] = k /\ \A j \in 1 .. (i - 1) : s[j] # k
    IN  [i \in DOMAIN s |-> IF i = 1 THEN k
                            ELSE IF i <= at THEN s[i - 1] ELSE s[i]]

\* Mutant: a key in flight is queued again.
PromoteInFlight(k, front) ==
    \/ /\ k \in queued
       /\ order' = IF front THEN MoveToFront(order, k) ELSE order
       /\ UNCHANGED queued
    \/ /\ k \notin queued
       /\ EnqueueReady(k, front)

PromoteToReady(k, front) ==
    \/ /\ k \in processing
       /\ UNCHANGED <<order, queued>>
    \/ /\ k \notin processing
       /\ k \in queued
       /\ order' = IF front THEN MoveToFront(order, k) ELSE order
       /\ UNCHANGED queued
    \/ /\ k \notin processing
       /\ k \notin queued
       /\ EnqueueReady(k, front)

CancelDelayed(entries, k) == {d \in entries : d.key # k}

(***************************************************************************)
(* The window of k after a MODIFIED event now: it slides by DedupWindow    *)
(* but never past MaxWait after the first event of the window.             *)
(***************************************************************************)
Slide(k) ==
    LET age == IF debounce[k] = None THEN 0 ELSE debounce[k].age
    IN  [left |-> Lesser(DedupWindow, MaxWait - age), age |-> age]

(***************************************************************************)
(* _add with `entries' as the heap it finds.                               *)
(***************************************************************************)
AddWith(k, event, entries) ==
    LET merged == Box!Merged(pending[k], event)
    IN  /\ pending' = [pending EXCEPT ![k] = merged]
        /\ wakeup' = TRUE
        /\ \/ /\ merged.type = "DELETED"
              /\ delayed' = CancelDelayed(entries, k)
              /\ debounce' = [debounce EXCEPT ![k] = None]
              /\ PromoteToReady(k, TRUE)
           \/ /\ merged.type = "MODIFIED"
              /\ DedupWindow > 0
              /\ delayed' = entries
              /\ debounce' = [debounce EXCEPT ![k] = Slide(k)]
              /\ UNCHANGED <<order, queued>>
           \/ /\ merged.type = "ADDED" \/ (merged.type = "MODIFIED" /\ DedupWindow = 0)
              /\ delayed' = entries
              /\ PromoteToReady(k, FALSE)
              /\ UNCHANGED debounce

PushDelayed(k, event, delay) ==
    /\ delayed' = CancelDelayed(delayed, k)
                    \cup {[key |-> k, event |-> event, left |-> delay]}
    /\ wakeup' = TRUE
    /\ UNCHANGED <<pending, order, queued, debounce>>

-----------------------------------------------------------------------------
(* Producers: each runs to completion while the loop is free. *)

Add(k, event) ==
    /\ LoopFree
    /\ AddWith(k, event, delayed)
    /\ UNCHANGED <<processing, failures, pc, timeout>>

AddAfter(k, event, delay) ==
    /\ LoopFree
    /\ IF delay = 0 THEN AddWith(k, event, delayed)
                    ELSE PushDelayed(k, event, delay)
    /\ UNCHANGED <<processing, failures, pc, timeout>>

(***************************************************************************)
(* ExponentialBackoff.when after n earlier failures, without jitter (no    *)
(* user of the queue sets one).                                            *)
(***************************************************************************)
BackoffDelay(n) == Lesser(BackoffBase * 2^n, BackoffMax)

AddRateLimited(k, event) ==
    /\ LoopFree
    /\ failures[k] < MaxFailures
    /\ failures' = [failures EXCEPT ![k] = @ + 1]
    /\ PushDelayed(k, event, BackoffDelay(failures[k]))
    /\ UNCHANGED <<processing, pc, timeout>>

Forget(k) ==
    /\ LoopFree
    /\ failures' = [failures EXCEPT ![k] = 0]
    /\ UNCHANGED <<pending, order, queued, processing, delayed, debounce,
                   wakeup, pc, timeout>>

Done(k) ==
    /\ LoopFree
    /\ k \in processing
    /\ processing' = processing \ {k}
    /\ IF pending[k] # None /\ k \notin queued
       THEN /\ EnqueueReady(k, pending[k].type = "DELETED")
            /\ wakeup' = TRUE
       ELSE UNCHANGED <<order, queued, wakeup>>
    /\ UNCHANGED <<pending, delayed, debounce, failures, pc, timeout>>

-----------------------------------------------------------------------------
(* The consumer's pass through get(). *)

CallGet ==
    /\ pc = "idle"
    /\ pc' = "drain"
    /\ UNCHANGED <<pending, order, queued, processing, delayed, debounce,
                   wakeup, failures, timeout>>

DrainDelayed(d) ==
    /\ pc = "drain"
    /\ d \in DueDelayed
    /\ AddWith(d.key, d.event, delayed \ {d})
    /\ UNCHANGED <<processing, failures, pc, timeout>>

\* Mutant: an expired window is dropped and its key not promoted.
DrainWindowOnly(k) ==
    /\ pc = "drain"
    /\ DueDelayed = {}
    /\ k \in DueWindows
    /\ debounce' = [debounce EXCEPT ![k] = None]
    /\ UNCHANGED <<pending, order, queued, processing, delayed, wakeup, failures,
                   pc, timeout>>

DrainWindow(k) ==
    /\ pc = "drain"
    /\ DueDelayed = {}
    /\ k \in DueWindows
    /\ debounce' = [debounce EXCEPT ![k] = None]
    /\ IF pending[k] # None THEN PromoteToReady(k, FALSE)
                            ELSE UNCHANGED <<order, queued>>
    /\ UNCHANGED <<pending, processing, delayed, wakeup, failures, pc, timeout>>

HandOut ==
    /\ pc = "drain"
    /\ ~HasDue
    /\ order # <<>>
    /\ LET k == Head(order)
       IN  /\ pending' = [pending EXCEPT ![k] = None]
           /\ queued' = queued \ {k}
           /\ processing' = processing \cup {k}
    /\ order' = Tail(order)
    /\ pc' = "idle"
    /\ UNCHANGED <<delayed, debounce, wakeup, failures, timeout>>

TimesLeft == {d.left : d \in delayed} \cup {debounce[k].left : k \in Windows}

(***************************************************************************)
(* Nothing is ready: compute the timeout and clear the wakeup event.       *)
(***************************************************************************)
ClearWakeup ==
    /\ pc = "drain"
    /\ ~HasDue
    /\ order = <<>>
    /\ \/ TimesLeft = {} /\ timeout' = None
       \/ \E t \in TimesLeft : (\A u \in TimesLeft : t <= u) /\ timeout' = t
    /\ wakeup' = FALSE
    /\ pc' = "cleared"
    /\ UNCHANGED <<pending, order, queued, processing, delayed, debounce, failures>>

Recheck ==
    /\ pc = "cleared"
    /\ pc' = IF order # <<>> \/ HasDue THEN "drain" ELSE "waiting"
    /\ UNCHANGED <<pending, order, queued, processing, delayed, debounce,
                   wakeup, failures, timeout>>

Wake ==
    /\ pc = "waiting"
    /\ wakeup \/ (timeout # None /\ timeout <= 0)
    /\ pc' = "drain"
    /\ UNCHANGED <<pending, order, queued, processing, delayed, debounce,
                   wakeup, failures, timeout>>

(***************************************************************************)
(* One unit of time.  get() reads the clock once for the whole drain, so   *)
(* no time passes there; it reads it again in the recheck.                 *)
(***************************************************************************)
Tick ==
    /\ pc \in {"waiting", "cleared"} \/ LoopFree
    /\ delayed' = {[d EXCEPT !.left = Down(@)] : d \in delayed}
    /\ debounce' = [k \in Keys |->
                      IF debounce[k] = None THEN None
                      ELSE [left |-> Down(debounce[k].left),
                            age |-> Lesser(debounce[k].age + 1, MaxWait)]]
    /\ timeout' = IF pc = "waiting" /\ timeout # None THEN Down(timeout) ELSE timeout
    /\ UNCHANGED <<pending, order, queued, processing, wakeup, failures, pc>>

-----------------------------------------------------------------------------
Produce ==
    \E k \in Keys, event \in Events :
        \/ Add(k, event)
        \/ \E delay \in Delays : AddAfter(k, event, delay)
        \/ AddRateLimited(k, event)

Consume ==
    \/ CallGet
    \/ \E d \in delayed : DrainDelayed(d)
    \/ \E k \in Keys : DrainWindow(k)
    \/ HandOut
    \/ ClearWakeup
    \/ Recheck
    \/ Wake

Next ==
    \/ Produce
    \/ \E k \in Keys : Forget(k) \/ Done(k)
    \/ Consume
    \/ Tick

Spec == Init /\ [][Next]_qvars

(***************************************************************************)
(* The event loop runs the consumer and every finished task in turn, and   *)
(* the clock advances.  Producers owe nothing.                             *)
(***************************************************************************)
Fairness ==
    /\ WF_qvars(Consume)
    /\ SF_qvars(Tick)
    /\ \A k \in Keys : SF_qvars(Done(k))

FairSpec == Spec /\ Fairness

-----------------------------------------------------------------------------
(* Properties. *)

TypeOK ==
    /\ pending \in [Keys -> Events \cup {None}]
    /\ order \in Seq(Keys)
    /\ queued \subseteq Keys
    /\ processing \subseteq Keys
    /\ delayed \subseteq [key : Keys, event : Events, left : Int]
    /\ debounce \in [Keys -> [left : Nat, age : 0 .. MaxWait] \cup {None}]
    /\ wakeup \in BOOLEAN
    /\ failures \in [Keys -> Nat]
    /\ pc \in {"idle", "drain", "cleared", "waiting"}
    /\ timeout \in Int \cup {None}

(***************************************************************************)
(* The ready deque, its membership set and the in-flight set agree: the    *)
(* deque holds each queued key once, every queued key still has an event   *)
(* to hand out (so `_pending.pop(keys)' in get() never raises KeyError),   *)
(* and a key in flight is never queued for a second task.                  *)
(***************************************************************************)
ReadyConsistent ==
    /\ queued = {order[i] : i \in DOMAIN order}
    /\ \A i, j \in DOMAIN order : order[i] = order[j] => i = j
    /\ \A k \in queued : pending[k] # None
    /\ queued \cap processing = {}

(***************************************************************************)
(* An event accepted by add() is never stranded: its key is ready, or in   *)
(* flight (done() will queue it again), or in a debounce window that will  *)
(* expire.                                                                 *)
(***************************************************************************)
NoLostKey ==
    \A k \in Keys : pending[k] # None => k \in queued \cup processing \cup Windows

(***************************************************************************)
(* get() never sleeps through work: when it waits and nobody has set the   *)
(* wakeup event, nothing is ready and, if any timer runs, the wait has a   *)
(* timeout.                                                                *)
(***************************************************************************)
NoLostWakeup ==
    pc = "waiting" /\ ~wakeup => /\ order = <<>>
                                 /\ TimesLeft # {} => timeout # None

(***************************************************************************)
(* "DELETED priority": the keys whose pending event is DELETED are served  *)
(* before all others.  Promised only by the coalescers that keep DELETED.  *)
(***************************************************************************)
DeletedFirst ==
    CoalescePolicy # "latest_wins" =>
        \A i, j \in DOMAIN order :
            i < j /\ pending[order[j]].type = "DELETED"
                => pending[order[i]].type = "DELETED"

(***************************************************************************)
(* "bounded by a max-wait cap": however often its key is modified, a       *)
(* window ends at most dedup_max_wait after the first event in it.         *)
(***************************************************************************)
WindowBounded ==
    \A k \in Windows : debounce[k].left + debounce[k].age <= MaxWait

(***************************************************************************)
(* "Last-schedule-wins": the heap never holds two events for one key, so a *)
(* rescheduled requeue does not fire the stale event as well.              *)
(***************************************************************************)
OneDelayedPerKey ==
    \A d, e \in delayed : d.key = e.key => d = e

(***************************************************************************)
(* "DELETED stickiness": a pending DELETED leaves its slot only by being   *)
(* handed out.                                                             *)
(***************************************************************************)
DeletedSticky ==
    [][CoalescePolicy # "latest_wins" =>
         \A k \in Keys : pending[k] # None /\ pending[k].type = "DELETED" =>
            \/ pending'[k] # None /\ pending'[k].type = "DELETED"
            \/ k \in processing' \ processing]_qvars

(***************************************************************************)
(* "Per-keys serialization" and nothing else: the queue behaves as a       *)
(* mailbox with one slot per key and one task in flight per key.           *)
(***************************************************************************)
ImplementsMailbox == Box!Spec

(***************************************************************************)
(* Whatever the producers keep doing, an event that is pending is handed   *)
(* out eventually.                                                         *)
(***************************************************************************)
PendingHandedOut ==
    \A k \in Keys : pending[k] # None ~> pending[k] = None
=============================================================================
