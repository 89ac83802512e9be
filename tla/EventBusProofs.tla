---------------------------- MODULE EventBusProofs ----------------------------
(***************************************************************************)
(* What a subscriber is told is never older than the write it is told of:  *)
(* for any number of servers, rows, writes and faults, and any order in    *)
(* which the queries of the servers are answered.                          *)
(***************************************************************************)
EXTENDS EventBus, TLAPS

\* An event with its row.
Whole(e) == e.type # "DELETED" => e.data \in Versions /\ e.data >= e.ver
WholeEvents == {e \in Routed : Whole(e)}
SentEvents == {e \in Routed : Whole(e) \/ e.data = None}

\* The row of an event is as new as the event, or deleted since.
Written(e, rows) == e.type # "DELETED" => rows[e.id] = Gone \/ rows[e.id] >= e.ver

AllWritten(q, rows) == \A n \in DOMAIN q : Written(q[n], rows)

Task(t, rows) ==
    /\ DOMAIN t = {"event", "old", "row"}
    /\ t.event \in Routed
    /\ Written(t.event, rows)
    /\ t.event.type # "DELETED" =>
          t.row \in {Asked, Gone} \/ (t.row \in Versions /\ t.row >= t.event.ver)

(***************************************************************************)
(* The strengthening of NeverBehindItsWrite: every event on its way is of  *)
(* a write that the database still shows, in that version or a later one,  *)
(* or of a row deleted for good.                                           *)
(***************************************************************************)
BusInv ==
    /\ writes \in Nat
    /\ DOMAIN db = Ids
    /\ \A i \in Ids : db[i] \in Versions \cup {None, Gone} /\ db[i] <= writes
    /\ DOMAIN outbox = Servers /\ DOMAIN wire = Servers
    /\ DOMAIN tasks = Servers /\ DOMAIN routed = Servers
    /\ \A s \in Servers :
        /\ outbox[s] \in Seq(WholeEvents)
        /\ AllWritten(outbox[s], db)
        /\ wire[s] \in Seq(SentEvents)
        /\ AllWritten(wire[s], db)
        /\ \A t \in tasks[s] : Task(t, db)
        /\ \A e \in routed[s] : Whole(e)

-----------------------------------------------------------------------------
LEMMA InitBus == Init => BusInv
BY DEF Init, BusInv, AllWritten, None

(***************************************************************************)
(* Queues of written events.                                               *)
(***************************************************************************)
LEMMA TailWritten ==
    ASSUME NEW S, NEW q \in Seq(S), q # <<>>, NEW rows, AllWritten(q, rows)
    PROVE  /\ Tail(q) \in Seq(S) /\ AllWritten(Tail(q), rows)
           /\ Head(q) \in S /\ Written(Head(q), rows)
BY DEF AllWritten

LEMMA AppendWritten ==
    ASSUME NEW S, NEW q \in Seq(S), NEW e \in S, NEW rows, AllWritten(q, rows),
           Written(e, rows)
    PROVE  Append(q, e) \in Seq(S) /\ AllWritten(Append(q, e), rows)
BY DEF AllWritten

(***************************************************************************)
(* A commit makes a newer version or deletes the row: what was written     *)
(* stays written.                                                          *)
(***************************************************************************)
LEMMA CommitKeeps ==
    ASSUME MaxWrites \in Nat, BusInv, NEW s \in Servers, NEW type \in Types, NEW i \in Ids,
           Commit(s, type, i)
    PROVE  BusInv'
<1> DEFINE event == [type |-> type, id |-> i, ver |-> writes + 1,
                     data |-> IF type = "DELETED" THEN db[i] ELSE writes + 1]
<1>1. /\ writes' = writes + 1 /\ writes \in Nat /\ writes + 1 \in Versions
      /\ UNCHANGED <<wire, tasks, routed>>
      /\ outbox' = [outbox EXCEPT ![s] = Append(outbox[s], event)]
      /\ db[i] # Gone
      /\ type = "DELETED" => db[i] \in Versions
  BY DEF Commit, BusInv, Versions, None, Gone, Types
<1>2. /\ DOMAIN db' = Ids
      /\ \A j \in Ids : j # i => db'[j] = db[j]
      /\ db'[i] = IF type = "DELETED" THEN Gone ELSE writes + 1
  BY DEF Commit, BusInv
<1>3. \A j \in Ids : db'[j] \in Versions \cup {None, Gone} /\ db'[j] <= writes'
  BY <1>1, <1>2 DEF BusInv, Versions, None, Gone
<1>4. \A e \in Routed : Written(e, db) => Written(e, db')
  <2> TAKE e \in Routed
  <2>1. e.id \in Ids /\ e.ver \in Versions
    BY DEF Routed
  <2>2. CASE e.id # i
    BY <1>2, <2>1, <2>2 DEF Written
  <2>3. CASE e.id = i
    <3>1. db[i] \in Int /\ db[i] <= writes /\ e.ver \in Int
      BY <2>1 DEF BusInv, Versions, None, Gone
    <3> QED
      BY <1>1, <1>2, <2>3, <3>1 DEF Written
  <2> QED
    BY <2>2, <2>3
<1>5. event \in WholeEvents
  <2>1. event \in Routed
    BY <1>1 DEF Routed
  <2>2. Whole(event)
    BY <1>1 DEF Whole, Versions
  <2> QED
    BY <2>1, <2>2 DEF WholeEvents
<1>6. Written(event, db')
  BY <1>1, <1>2 DEF Written
<1> HIDE DEF event
<1>7. ASSUME NEW r \in Servers
      PROVE  /\ outbox'[r] \in Seq(WholeEvents) /\ AllWritten(outbox'[r], db')
             /\ wire'[r] \in Seq(SentEvents) /\ AllWritten(wire'[r], db')
             /\ \A t \in tasks'[r] : Task(t, db')
             /\ \A e \in routed'[r] : Whole(e)
  <2>1. /\ outbox[r] \in Seq(WholeEvents) /\ AllWritten(outbox[r], db)
        /\ wire[r] \in Seq(SentEvents) /\ AllWritten(wire[r], db)
        /\ \A t \in tasks[r] : Task(t, db)
        /\ \A e \in routed[r] : Whole(e)
    BY DEF BusInv
  <2>2. AllWritten(outbox[r], db') /\ AllWritten(wire[r], db')
    BY <1>4, <2>1 DEF AllWritten, WholeEvents, SentEvents
  <2>3. \A t \in tasks[r] : Task(t, db')
    BY <1>4, <2>1 DEF Task
  <2>4. outbox'[r] \in {outbox[r], Append(outbox[r], event)}
    BY <1>1 DEF BusInv
  <2>5. outbox'[r] \in Seq(WholeEvents) /\ AllWritten(outbox'[r], db')
    BY <1>5, <1>6, <2>1, <2>2, <2>4, AppendWritten
  <2> QED
    BY <1>1, <2>1, <2>2, <2>3, <2>5
<1> QED
  BY <1>1, <1>2, <1>3, <1>7 DEF BusInv

(***************************************************************************)
(* Publication: the writer's server gets the whole event, others its id.   *)
(***************************************************************************)
LEMMA PublishKeeps ==
    ASSUME BusInv, NEW s \in Servers, Publish(s) \/ PublishFails(s)
    PROVE  BusInv'
<1> DEFINE event == Head(outbox[s])
<1>1. outbox[s] # <<>> /\ UNCHANGED <<db, writes, tasks>>
  BY DEF Publish, PublishFails
<1>2. /\ event \in WholeEvents /\ Written(event, db)
      /\ Tail(outbox[s]) \in Seq(WholeEvents) /\ AllWritten(Tail(outbox[s]), db)
  BY <1>1, TailWritten DEF BusInv
<1> HIDE DEF event
<1>3. DOMAIN outbox' = Servers /\ \A r \in Servers : outbox'[r] \in {outbox[r], Tail(outbox[s])}
  BY DEF Publish, PublishFails, BusInv
<1>4. \A r \in Servers : outbox'[r] \in Seq(WholeEvents) /\ AllWritten(outbox'[r], db)
  BY <1>2, <1>3 DEF BusInv
<1>5. CASE Publish(s)
  <2>1. event \in SentEvents /\ With(event, None) \in SentEvents
    BY <1>2 DEF WholeEvents, SentEvents, With, Routed
  <2>2. Written(With(event, None), db)
    BY <1>2 DEF Written, With
  <2>3. /\ DOMAIN wire' = Servers /\ UNCHANGED routed
        /\ \A r \in Servers : \E e \in {event, With(event, None)} : wire'[r] = Append(wire[r], e)
    BY <1>5 DEF Publish, event
  <2>4. \A r \in Servers : wire'[r] \in Seq(SentEvents) /\ AllWritten(wire'[r], db)
    BY <1>2, <2>1, <2>2, <2>3, AppendWritten DEF BusInv
  <2> QED
    BY <1>1, <1>3, <1>4, <2>3, <2>4 DEF BusInv
<1>6. CASE PublishFails(s)
  <2>1. /\ UNCHANGED wire /\ DOMAIN routed' = Servers
        /\ \A r \in Servers : routed'[r] \subseteq routed[r] \cup {event}
    BY <1>6 DEF PublishFails, Route, BusInv, event
  <2>2. Whole(event)
    BY <1>2 DEF WholeEvents
  <2> QED
    BY <1>1, <1>3, <1>4, <2>1, <2>2 DEF BusInv
<1> QED
  BY <1>5, <1>6

(***************************************************************************)
(* An event arrives: it is routed whole, or a query is sent for its row.   *)
(***************************************************************************)
LEMMA ArriveKeeps ==
    ASSUME BusInv, NEW s \in Servers, Arrive(s)
    PROVE  BusInv'
<1> DEFINE event == Head(wire[s])
           task == [event |-> event, old |-> detector[s][event.id], row |-> Asked]
<1>1. wire[s] # <<>> /\ UNCHANGED <<db, writes, outbox>>
  BY DEF Arrive
<1>2. /\ event \in SentEvents /\ Written(event, db)
      /\ Tail(wire[s]) \in Seq(SentEvents) /\ AllWritten(Tail(wire[s]), db)
  BY <1>1, TailWritten DEF BusInv
<1>3. /\ DOMAIN wire' = Servers
      /\ \A r \in Servers : wire'[r] \in Seq(SentEvents) /\ AllWritten(wire'[r], db)
  <2>1. DOMAIN wire' = Servers /\ \A r \in Servers : wire'[r] \in {wire[r], Tail(wire[s])}
    BY DEF Arrive, BusInv
  <2> QED
    BY <1>2, <2>1 DEF BusInv
<1>4. \/ /\ UNCHANGED tasks /\ event.data # None /\ DOMAIN routed' = Servers
         /\ \A r \in Servers : routed'[r] \subseteq routed[r] \cup {event}
      \/ /\ UNCHANGED routed /\ DOMAIN tasks' = Servers
         /\ \A r \in Servers : tasks'[r] \subseteq tasks[r] \cup {task}
  BY DEF Arrive, Route, BusInv
<1>5. event.data # None => Whole(event)
  BY <1>2 DEF SentEvents
<1>6. Task(task, db)
  BY <1>2 DEF Task, SentEvents
<1> HIDE DEF event, task
<1> QED
  BY <1>1, <1>3, <1>4, <1>5, <1>6 DEF BusInv

(***************************************************************************)
(* A query is answered, its task goes on, or it fails.                     *)
(***************************************************************************)
LEMMA TaskKeeps ==
    ASSUME BusInv, NEW s \in Servers, NEW t \in tasks[s],
           Answer(s, t) \/ Complete(s, t) \/ QueryFails(s, t)
    PROVE  BusInv'
<1>0. Task(t, db) /\ UNCHANGED <<db, writes, outbox, wire>>
  BY DEF BusInv, Answer, Complete, QueryFails
<1>1. CASE Answer(s, t)
  <2> DEFINE new == [t EXCEPT !.row = db[t.event.id]]
  <2>1. /\ UNCHANGED routed /\ DOMAIN tasks' = Servers
        /\ \A r \in Servers : tasks'[r] \subseteq tasks[r] \cup {new}
    BY <1>1 DEF Answer, BusInv
  <2>2. DOMAIN new = {"event", "old", "row"} /\ new.event = t.event /\ new.row = db[t.event.id]
    BY <1>0 DEF Task
  <2>3. t.event.type # "DELETED" =>
           db[t.event.id] = Gone \/ (db[t.event.id] \in Versions /\ db[t.event.id] >= t.event.ver)
    <3>1. t.event.id \in Ids /\ t.event.ver \in Versions
      BY <1>0 DEF Task, Routed
    <3>2. db[t.event.id] \in Versions \cup {None, Gone}
      BY <3>1 DEF BusInv
    <3> QED
      BY <1>0, <3>1, <3>2 DEF Task, Written, Versions, None
  <2>4. Task(new, db)
    <3> HIDE DEF new
    <3> QED
      BY <1>0, <2>2, <2>3 DEF Task
  <2> HIDE DEF new
  <2> QED
    BY <1>0, <2>1, <2>4 DEF BusInv
<1>2. CASE Complete(s, t)
  <2>1. DOMAIN tasks' = Servers /\ \A r \in Servers : tasks'[r] \subseteq tasks[r]
    BY <1>2 DEF Complete, BusInv
  <2>2. PICK e : /\ DOMAIN routed' = Servers
                 /\ \A r \in Servers : routed'[r] \subseteq routed[r] \cup {e}
                 /\ \/ UNCHANGED routed
                    \/ e = With(t.event, t.old) /\ t.event.type = "DELETED"
                    \/ e = With(t.event, t.row) /\ t.event.type # "DELETED"
                          /\ t.row \notin {Asked, Gone}
    BY <1>2 DEF Complete, Route, BusInv
  <2>3. UNCHANGED routed \/ Whole(e)
    BY <1>0, <2>2 DEF Task, Whole, With
  <2> QED
    BY <1>0, <2>1, <2>2, <2>3 DEF BusInv
<1>3. CASE QueryFails(s, t)
  <2>1. /\ UNCHANGED routed /\ DOMAIN tasks' = Servers
        /\ \A r \in Servers : tasks'[r] \subseteq tasks[r]
    BY <1>3 DEF QueryFails, BusInv
  <2> QED
    BY <1>0, <2>1 DEF BusInv
<1> QED
  BY <1>1, <1>2, <1>3

-----------------------------------------------------------------------------
LEMMA NextBus == ASSUME MaxWrites \in Nat PROVE BusInv /\ [Next]_evars => BusInv'
<1> SUFFICES ASSUME BusInv, [Next]_evars PROVE BusInv'
  OBVIOUS
<1>1. CASE UNCHANGED evars
  BY <1>1 DEF evars, BusInv
<1>2. CASE Next
  <2>1. PICK s \in Servers :
          \/ \E type \in Types, i \in Ids : Commit(s, type, i)
          \/ Publish(s) \/ PublishFails(s) \/ Arrive(s)
          \/ \E t \in tasks[s] : Answer(s, t) \/ Complete(s, t) \/ QueryFails(s, t)
          \/ \E i \in Ids : Evict(s, i)
    BY <1>2 DEF Next
  <2>2. CASE \E i \in Ids : Evict(s, i)
    BY <2>2 DEF Evict, BusInv
  <2> QED
    BY <2>1, <2>2, CommitKeeps, PublishKeeps, ArriveKeeps, TaskKeeps
<1> QED
  BY <1>1, <1>2

(***************************************************************************)
(* NeverBehindItsWrite holds always: a creation or an update reaches the   *)
(* subscribers of every server with a row at least as new as itself        *)
(* (_process_coordinator_event, publish).                                  *)
(***************************************************************************)
THEOREM RoutedIsNeverOld == ASSUME MaxWrites \in Nat PROVE Spec => []NeverBehindItsWrite
<1>1. BusInv => NeverBehindItsWrite
  BY DEF BusInv, NeverBehindItsWrite, Whole
<1> QED
  BY <1>1, InitBus, NextBus, PTL DEF Spec
=============================================================================
