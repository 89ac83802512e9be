----------------------------- MODULE Subscriber -----------------------------
(***************************************************************************)
(* One Subscriber of gpustack/server/bus.py on its event loop: the tasks   *)
(* that EventBus._route_event spawns to run enqueue(), the bounded queue   *)
(* they put into, the latest_by_key dictionary that coalesces UPDATED      *)
(* events, and the generator of ActiveRecordMixin.subscribe that receives. *)
(*                                                                         *)
(* The loop is a FIFO of callbacks.  A task blocked in Queue.put is woken  *)
(* by a get and runs again only when its turn comes, so a task that was    *)
(* already scheduled may take the slot first; the woken one then waits at  *)
(* the end of the line.  The subscriber's lock is never held across an     *)
(* await, so it never delays anyone and is left out.                       *)
(***************************************************************************)
EXTENDS Integers, Sequences, FiniteSets

CONSTANTS
    Ids,         \* the rows of the topic
    EventTypes,  \* the whitelist given to subscribe()
    QueueSize,   \* EVENT_BUS_SUBSCRIBER_QUEUE_SIZE, at least 1
    MaxEvents,   \* bound on the events published
    MaxCancels,  \* bound on blocked enqueue tasks cancelled from outside
    None

VARIABLES
    ready,      \* the callbacks the loop will run, in order
    queue,      \* Subscriber.queue
    putters,    \* the events whose enqueue is blocked in Queue.put
    latest,     \* Subscriber.latest_by_key
    closed,     \* Subscriber._closed
    consumer,   \* where the generator is: "ready", "getting", "away", "gone"
    rows,       \* the rows that exist
    published,  \* how many events were published; numbers the versions
    updated,    \* updated[i]: version of the newest UPDATED published for i
    delivered,  \* delivered[i]: version of the last UPDATED received for i
    cancels     \* how many blocked enqueue tasks were cancelled

svars == <<ready, queue, putters, latest, closed, consumer, rows,
           published, updated, delivered, cancels>>

Event == [type : {"CREATED", "UPDATED", "DELETED"}, id : Ids, ver : 1 .. MaxEvents]
Callback == [kind : {"start", "resume", "cancelled"}, event : Event]
Consumer == [kind |-> "consumer"]

Init ==
    /\ ready = <<>>
    /\ queue = <<>>
    /\ putters = <<>>
    /\ latest = [i \in Ids |-> None]
    /\ closed = FALSE
    /\ consumer = "away"
    /\ rows = {}
    /\ published = 0
    /\ updated = [i \in Ids |-> 0]
    /\ delivered = [i \in Ids |-> 0]
    /\ cancels = 0

Callbacks(kind, events) == [n \in 1 .. Len(events) |-> [kind |-> kind, event |-> events[n]]]

(***************************************************************************)
(* A committed write of row i: CREATED, then UPDATED, then DELETED.  The   *)
(* task that will run enqueue() joins the loop; subscribers that have left *)
(* are not routed to any more.                                             *)
(***************************************************************************)
Publish(type, i) ==
    /\ published < MaxEvents
    /\ (type = "CREATED") = (i \notin rows)
    /\ rows' = CASE type = "CREATED" -> rows \cup {i}
                 [] type = "DELETED" -> rows \ {i}
                 [] OTHER -> rows
    /\ published' = published + 1
    /\ updated' = IF type = "UPDATED" THEN [updated EXCEPT ![i] = published + 1]
                  ELSE updated
    /\ ready' = IF closed THEN ready
                ELSE ready \o Callbacks("start", <<[type |-> type, id |-> i,
                                                    ver |-> published + 1]>>)
    /\ UNCHANGED <<queue, putters, latest, closed, consumer, delivered, cancels>>

\* Mutant: an event that finds the queue full is dropped.
PutOrDrop(event) ==
    IF Len(queue) < QueueSize
    THEN /\ queue' = Append(queue, event)
         /\ consumer' = IF consumer = "getting" THEN "ready" ELSE consumer
         /\ ready' = IF consumer = "getting" THEN Append(Tail(ready), Consumer)
                     ELSE Tail(ready)
         /\ UNCHANGED putters
    ELSE /\ ready' = Tail(ready)
         /\ UNCHANGED <<queue, consumer, putters>>

(***************************************************************************)
(* Queue.put for the task at the head of the loop: with room, the event    *)
(* enters and a waiting get() is woken; without, the task waits in line.   *)
(***************************************************************************)
PutOrPark(event) ==
    IF Len(queue) < QueueSize
    THEN /\ queue' = Append(queue, event)
         /\ consumer' = IF consumer = "getting" THEN "ready" ELSE consumer
         /\ ready' = IF consumer = "getting" THEN Append(Tail(ready), Consumer)
                     ELSE Tail(ready)
         /\ UNCHANGED putters
    ELSE /\ putters' = Append(putters, event)
         /\ ready' = Tail(ready)
         /\ UNCHANGED <<queue, consumer>>

\* Mutant: only a token that reached the queue is merged into.
CoalescesQueued(event) ==
    /\ event.type = "UPDATED"
    /\ \E n \in DOMAIN queue : queue[n].type = "UPDATED" /\ queue[n].id = event.id

Coalesces(event) == event.type = "UPDATED" /\ latest[event.id] # None

(***************************************************************************)
(* enqueue() from its start to its end or to its first await.              *)
(***************************************************************************)
StartEnqueue ==
    /\ ready # <<>>
    /\ Head(ready).kind = "start"
    /\ LET event == Head(ready).event
       IN  \/ /\ closed
              /\ ready' = Tail(ready)
              /\ UNCHANGED <<queue, putters, latest, consumer>>
           \/ /\ ~closed
              /\ event.type \notin EventTypes
              /\ ready' = Tail(ready)
              /\ UNCHANGED <<queue, putters, latest, consumer>>
           \/ /\ ~closed
              /\ event.type \in EventTypes
              /\ Coalesces(event)
              /\ latest' = [latest EXCEPT ![event.id] = event]
              /\ ready' = Tail(ready)
              /\ UNCHANGED <<queue, putters, consumer>>
           \/ /\ ~closed
              /\ event.type \in EventTypes
              /\ ~Coalesces(event)
              /\ latest' = IF event.type = "UPDATED"
                           THEN [latest EXCEPT ![event.id] = event] ELSE latest
              /\ PutOrPark(event)
    /\ UNCHANGED <<closed, rows, published, updated, delivered, cancels>>

(***************************************************************************)
(* A task woken in Queue.put looks at the queue again.                     *)
(***************************************************************************)
ResumePut ==
    /\ ready # <<>>
    /\ Head(ready).kind = "resume"
    /\ PutOrPark(Head(ready).event)
    /\ UNCHANGED <<latest, closed, rows, published, updated, delivered, cancels>>

\* Mutant: the entry of a cancelled put stays in latest_by_key.
RollBackNothing ==
    /\ ready # <<>>
    /\ Head(ready).kind = "cancelled"
    /\ ready' = Tail(ready)
    /\ UNCHANGED <<queue, putters, latest, closed, consumer, rows,
                   published, updated, delivered, cancels>>

(***************************************************************************)
(* The cancellation of a blocked put reaches enqueue(), which takes the    *)
(* entry of its id back.                                                   *)
(***************************************************************************)
RollBack ==
    /\ ready # <<>>
    /\ Head(ready).kind = "cancelled"
    /\ LET event == Head(ready).event
       IN  latest' = IF event.type = "UPDATED" THEN [latest EXCEPT ![event.id] = None]
                     ELSE latest
    /\ ready' = Tail(ready)
    /\ UNCHANGED <<queue, putters, closed, consumer, rows, published,
                   updated, delivered, cancels>>

CancelPut(n) ==
    /\ n \in DOMAIN putters
    /\ cancels < MaxCancels
    /\ cancels' = cancels + 1
    /\ putters' = [m \in 1 .. (Len(putters) - 1) |->
                     IF m < n THEN putters[m] ELSE putters[m + 1]]
    /\ ready' = ready \o Callbacks("cancelled", <<putters[n]>>)
    /\ UNCHANGED <<queue, latest, closed, consumer, rows, published,
                   updated, delivered>>

-----------------------------------------------------------------------------
(* The consumer: the generator of subscribe() and the code that iterates   *)
(* over it.                                                                *)

ConsumerTurn == ready # <<>> /\ Head(ready) = Consumer

(***************************************************************************)
(* What the consumer waits for outside the queue is done, or its wait in   *)
(* the queue times out and a HEARTBEAT is due.                             *)
(***************************************************************************)
ConsumerWakes ==
    /\ consumer \in {"away", "getting"}
    /\ consumer' = "ready"
    /\ ready' = Append(ready, Consumer)
    /\ UNCHANGED <<queue, putters, latest, closed, rows, published,
                   updated, delivered, cancels>>

(***************************************************************************)
(* receive() with an event in the queue: the get wakes the first blocked   *)
(* task.  The consumer asks for the next event in the same turn or gives   *)
(* the loop up.                                                            *)
(***************************************************************************)
Receive ==
    /\ ConsumerTurn
    /\ queue # <<>>
    /\ queue' = Tail(queue)
    /\ LET token == Head(queue)
           event == IF token.type = "UPDATED" /\ latest[token.id] # None
                    THEN latest[token.id] ELSE token
           woken == IF putters = <<>> THEN <<>> ELSE Callbacks("resume", <<Head(putters)>>)
       IN  /\ latest' = IF token.type = "UPDATED" THEN [latest EXCEPT ![token.id] = None]
                        ELSE latest
           /\ delivered' = IF event.type = "UPDATED"
                           THEN [delivered EXCEPT ![event.id] = event.ver] ELSE delivered
           /\ \/ /\ ready' = ready \o woken
                 /\ UNCHANGED consumer
              \/ /\ ready' = Tail(ready) \o woken
                 /\ consumer' = "away"
    /\ putters' = IF putters = <<>> THEN <<>> ELSE Tail(putters)
    /\ UNCHANGED <<closed, rows, published, updated, cancels>>

WaitInGet ==
    /\ ConsumerTurn
    /\ queue = <<>>
    /\ consumer' = "getting"
    /\ ready' = Tail(ready)
    /\ UNCHANGED <<queue, putters, latest, closed, rows, published,
                   updated, delivered, cancels>>

\* Mutant: close() only drains the queue.
CloseDrains ==
    /\ ConsumerTurn
    /\ closed' = TRUE
    /\ consumer' = "gone"
    /\ LET n == IF Len(queue) <= Len(putters) THEN Len(queue) ELSE Len(putters)
       IN  /\ ready' = Tail(ready) \o Callbacks("resume", SubSeq(putters, 1, n))
           /\ putters' = SubSeq(putters, n + 1, Len(putters))
    /\ queue' = <<>>
    /\ UNCHANGED <<latest, rows, published, updated, delivered, cancels>>

(***************************************************************************)
(* The generator ends: unsubscribe() and close().  Draining the queue      *)
(* wakes one blocked task per event drained; the others are cancelled.     *)
(***************************************************************************)
Close ==
    /\ ConsumerTurn
    /\ closed' = TRUE
    /\ consumer' = "gone"
    /\ LET n == IF Len(queue) <= Len(putters) THEN Len(queue) ELSE Len(putters)
       IN  ready' = Tail(ready) \o Callbacks("resume", SubSeq(putters, 1, n))
                      \o Callbacks("cancelled", SubSeq(putters, n + 1, Len(putters)))
    /\ queue' = <<>>
    /\ putters' = <<>>
    /\ UNCHANGED <<latest, rows, published, updated, delivered, cancels>>

-----------------------------------------------------------------------------
Loop == StartEnqueue \/ ResumePut \/ RollBack \/ Receive \/ WaitInGet \/ Close

Next ==
    \/ \E type \in {"CREATED", "UPDATED", "DELETED"}, i \in Ids : Publish(type, i)
    \/ \E n \in 1 .. MaxEvents : CancelPut(n)
    \/ ConsumerWakes
    \/ Loop

Spec == Init /\ [][Next]_svars

(***************************************************************************)
(* The loop runs every callback in turn, and the consumer comes back from  *)
(* whatever it awaits.                                                     *)
(***************************************************************************)
FairSpec == Spec /\ WF_svars(Loop) /\ WF_svars(ConsumerWakes)

-----------------------------------------------------------------------------
(* Properties. *)

Elements(s) == {s[n] : n \in DOMAIN s}

Pending(kinds) == SelectSeq(ready, LAMBDA c : c.kind \in kinds)

(* The places of the queue tokens that exist or are on their way, one pair *)
(* for each place in queue, putters and ready.                             *)
Tokens(i) ==
    {<<"queue", n>> : n \in {m \in DOMAIN queue :
                               queue[m].type = "UPDATED" /\ queue[m].id = i}}
    \cup {<<"putters", n>> : n \in {m \in DOMAIN putters :
                               putters[m].type = "UPDATED" /\ putters[m].id = i}}
    \cup {<<"ready", n>> : n \in {m \in DOMAIN ready :
                               /\ ready[m].kind \in {"resume", "cancelled"}
                               /\ ready[m].event.type = "UPDATED"
                               /\ ready[m].event.id = i}}

TypeOK ==
    /\ Elements(ready) \subseteq Callback \cup {Consumer}
    /\ Elements(queue) \subseteq Event
    /\ Len(queue) <= QueueSize
    /\ Elements(putters) \subseteq Event
    /\ latest \in [Ids -> Event \cup {None}]
    /\ closed \in BOOLEAN
    /\ consumer \in {"ready", "getting", "away", "gone"}
    /\ updated \in [Ids -> 0 .. MaxEvents]
    /\ delivered \in [Ids -> 0 .. MaxEvents]
    /\ cancels \in 0 .. MaxCancels

(***************************************************************************)
(* The invariant of the class: an id is in latest_by_key exactly while one *)
(* token for it is in the queue or on its way, so an UPDATED event merged  *)
(* into that entry is popped by some receive().                            *)
(***************************************************************************)
LatestHasToken ==
    ~closed => \A i \in Ids : Cardinality(Tokens(i)) = (IF latest[i] = None THEN 0 ELSE 1)

(***************************************************************************)
(* However coalescing and overtaking interleave, the consumer never gets   *)
(* an older UPDATED of a row after a newer one.                            *)
(***************************************************************************)
UpdatesMonotone ==
    [][\A i \in Ids : delivered'[i] >= delivered[i]]_svars

(***************************************************************************)
(* After close() no enqueue task stays blocked: nobody will ever call get  *)
(* again, so one that blocks would pin the subscriber for ever.            *)
(***************************************************************************)
ClosedUnwinds == closed => putters = <<>>

(***************************************************************************)
(* Backpressure delays, it never drops: unless the consumer leaves or a    *)
(* put is cancelled, it receives every UPDATED of a row or a newer one.    *)
(***************************************************************************)
NewestDelivered ==
    "UPDATED" \in EventTypes =>
        \A i \in Ids : \A v \in 1 .. MaxEvents :
            updated[i] = v ~> closed \/ cancels > 0 \/ delivered[i] >= v
=============================================================================
