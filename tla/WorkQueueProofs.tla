--------------------------- MODULE WorkQueueProofs ---------------------------
(***************************************************************************)
(* Proofs about WorkQueue, for every set of keys, every timing constant    *)
(* and every coalescing policy.                                            *)
(***************************************************************************)
EXTENDS WorkQueue, SequenceTheorems, TLAPS

Elements(s) == {s[i] : i \in DOMAIN s}

Distinct(s) == \A i, j \in DOMAIN s : s[i] = s[j] => i = j

(***************************************************************************)
(* In s no key of D stands behind a key outside D.                         *)
(***************************************************************************)
Leading(s, D) == \A i, j \in DOMAIN s : i < j /\ s[j] \in D => s[i] \in D

-----------------------------------------------------------------------------
(* What the operations on the deque do to its elements. *)

(***************************************************************************)
(* deque.append of a new key.                                              *)
(***************************************************************************)
LEMMA AppendKey ==
    ASSUME NEW s \in Seq(Keys), NEW k \in Keys \ Elements(s), Distinct(s)
    PROVE  /\ Append(s, k) \in Seq(Keys)
           /\ Elements(Append(s, k)) = Elements(s) \cup {k}
           /\ Distinct(Append(s, k))
           /\ \A D : Leading(s, D) /\ k \notin D => Leading(Append(s, k), D)
<1> DEFINE t == Append(s, k)
<1>1. /\ t \in Seq(Keys)
      /\ Len(t) = Len(s) + 1
      /\ \A i \in 1 .. Len(s) : t[i] = s[i]
      /\ t[Len(s) + 1] = k
  BY AppendProperties
<1>2. Len(s) \in Nat /\ DOMAIN s = 1 .. Len(s) /\ DOMAIN t = 1 .. Len(s) + 1
  BY <1>1, LenProperties
<1> HIDE DEF t
<1>3. Elements(t) = Elements(s) \cup {k}
  BY <1>1, <1>2 DEF Elements
<1>4. Distinct(t)
  BY <1>1, <1>2 DEF Elements, Distinct
<1>5. ASSUME NEW D, Leading(s, D), k \notin D
      PROVE  Leading(t, D)
  BY <1>1, <1>2, <1>5 DEF Leading
<1> QED
  BY <1>1, <1>3, <1>4, <1>5 DEF t

(***************************************************************************)
(* deque.appendleft of a new key.                                          *)
(***************************************************************************)
LEMMA PrependKey ==
    ASSUME NEW s \in Seq(Keys), NEW k \in Keys \ Elements(s), Distinct(s)
    PROVE  /\ <<k>> \o s \in Seq(Keys)
           /\ Elements(<<k>> \o s) = Elements(s) \cup {k}
           /\ Distinct(<<k>> \o s)
           /\ \A D : Leading(s, D) /\ k \in D => Leading(<<k>> \o s, D)
<1> DEFINE t == <<k>> \o s
<1>1. <<k>> \in Seq(Keys) /\ Len(<<k>>) = 1 /\ <<k>>[1] = k
  OBVIOUS
<1>2. /\ t \in Seq(Keys)
      /\ Len(t) = 1 + Len(s)
      /\ \A i \in 1 .. 1 + Len(s) : t[i] = IF i <= 1 THEN <<k>>[i] ELSE s[i - 1]
  BY <1>1, ConcatProperties
<1>3. Len(s) \in Nat /\ DOMAIN s = 1 .. Len(s) /\ DOMAIN t = 1 .. 1 + Len(s)
  BY <1>2, LenProperties
<1>4. t[1] = k /\ \A i \in 2 .. 1 + Len(s) : t[i] = s[i - 1]
  BY <1>1, <1>2, <1>3
<1> HIDE DEF t
<1>5. \A i \in DOMAIN t : i = 1 \/ (i \in 2 .. 1 + Len(s) /\ i - 1 \in DOMAIN s)
  BY <1>3
<1>6. \A i \in DOMAIN s : i + 1 \in 2 .. 1 + Len(s) /\ t[i + 1] = s[i]
  BY <1>3, <1>4
<1>7. Elements(t) = Elements(s) \cup {k}
  <2>1. Elements(t) \subseteq Elements(s) \cup {k}
    BY <1>3, <1>4, <1>5 DEF Elements
  <2>2. Elements(s) \cup {k} \subseteq Elements(t)
    BY <1>3, <1>4, <1>6 DEF Elements
  <2> QED
    BY <2>1, <2>2
<1>8. Distinct(t)
  BY <1>3, <1>4, <1>5 DEF Elements, Distinct
<1>9. ASSUME NEW D, Leading(s, D), k \in D
      PROVE  Leading(t, D)
  BY <1>3, <1>4, <1>5, <1>9 DEF Leading
<1> QED
  BY <1>2, <1>7, <1>8, <1>9 DEF t

(***************************************************************************)
(* deque.remove followed by deque.appendleft: a permutation.               *)
(***************************************************************************)
LEMMA MoveKeyToFront ==
    ASSUME NEW s \in Seq(Keys), NEW k \in Elements(s), Distinct(s)
    PROVE  /\ MoveToFront(s, k) \in Seq(Keys)
           /\ Elements(MoveToFront(s, k)) = Elements(s)
           /\ Distinct(MoveToFront(s, k))
           /\ \A D, E : Leading(s, D) /\ E = D \cup {k}
                          => Leading(MoveToFront(s, k), E)
<1> DEFINE P(i) == s[i] = k /\ \A j \in 1 .. (i - 1) : s[j] # k
           at == CHOOSE i \in DOMAIN s : P(i)
           t == MoveToFront(s, k)
<1>1. Len(s) \in Nat /\ DOMAIN s = 1 .. Len(s) /\ s \in [1 .. Len(s) -> Keys]
  BY LenProperties
<1>2. PICK p \in DOMAIN s : s[p] = k
  BY DEF Elements
<1>3. P(p)
  BY <1>1, <1>2 DEF Distinct
<1>4. at \in DOMAIN s /\ s[at] = k
  BY <1>3
<1>5. t = [i \in DOMAIN s |-> IF i = 1 THEN k
                              ELSE IF i <= at THEN s[i - 1] ELSE s[i]]
  BY DEF MoveToFront
<1> HIDE DEF at, t
<1>6. k \in Keys
  BY <1>1, <1>2
<1>7. /\ DOMAIN t = DOMAIN s
      /\ t[1] = k
      /\ \A i \in DOMAIN s : i # 1 /\ i <= at => t[i] = s[i - 1] /\ i - 1 \in DOMAIN s
      /\ \A i \in DOMAIN s : i # 1 /\ ~(i <= at) => t[i] = s[i]
  BY <1>1, <1>4, <1>5
<1>8. t \in Seq(Keys)
  <2>1. \A i \in 1 .. Len(s) : t[i] \in Keys
    BY <1>1, <1>4, <1>6, <1>7
  <2>2. t \in [1 .. Len(s) -> Keys]
    BY <1>1, <1>5, <2>1
  <2> QED
    BY <1>1, <2>2, IsASeq
<1>9. Elements(t) = Elements(s)
  <2>1. ASSUME NEW i \in DOMAIN t PROVE t[i] \in Elements(s)
    BY <1>1, <1>4, <1>7, <2>1 DEF Elements
  <2>2. ASSUME NEW i \in DOMAIN s PROVE s[i] \in Elements(t)
    <3>1. CASE i = at
      BY <1>1, <1>4, <1>7, <3>1 DEF Elements
    <3>2. CASE i < at
      <4>1. i + 1 \in DOMAIN s /\ i + 1 # 1 /\ i + 1 <= at /\ (i + 1) - 1 = i
        BY <1>1, <1>4, <3>2
      <4>2. t[i + 1] = s[i]
        BY <1>7, <4>1
      <4> QED
        BY <1>7, <4>1, <4>2 DEF Elements
    <3>3. CASE i > at
      BY <1>1, <1>4, <1>7, <3>3 DEF Elements
    <3> QED
      BY <1>1, <1>4, <3>1, <3>2, <3>3
  <2> QED
    BY <2>1, <2>2 DEF Elements
<1>10. Distinct(t)
  <2> SUFFICES ASSUME NEW i \in DOMAIN s, NEW j \in DOMAIN s, t[i] = t[j], i < j
               PROVE  FALSE
    BY <1>1, <1>7 DEF Distinct
  <2>1. CASE i = 1 /\ j <= at
    BY <1>1, <1>4, <1>7, <2>1 DEF Distinct
  <2>2. CASE i = 1 /\ ~(j <= at)
    BY <1>1, <1>4, <1>7, <2>2 DEF Distinct
  <2>3. CASE i # 1 /\ j <= at
    BY <1>1, <1>4, <1>7, <2>3 DEF Distinct
  <2>4. CASE i # 1 /\ i <= at /\ ~(j <= at)
    BY <1>1, <1>4, <1>7, <2>4 DEF Distinct
  <2>5. CASE i # 1 /\ ~(i <= at)
    BY <1>1, <1>4, <1>7, <2>5 DEF Distinct
  <2> QED
    BY <1>1, <1>4, <2>1, <2>2, <2>3, <2>4, <2>5
<1>11. ASSUME NEW D, NEW E, Leading(s, D), E = D \cup {k}
       PROVE  Leading(t, E)
  <2> SUFFICES ASSUME NEW i \in DOMAIN s, NEW j \in DOMAIN s, i < j, t[j] \in E
               PROVE  t[i] \in E
    BY <1>7 DEF Leading
  <2>1. CASE i = 1
    BY <1>7, <1>11, <2>1
  <2>2. CASE i # 1
    <3>1. \A a, b \in DOMAIN s : a < b /\ s[b] \in D => s[a] \in D
      BY <1>11 DEF Leading
    <3>2. \A a \in DOMAIN s : s[a] = k => a = at
      BY <1>4 DEF Distinct
    <3>3. CASE j <= at
      BY <1>1, <1>4, <1>7, <1>11, <2>2, <3>1, <3>2, <3>3
    <3>4. CASE ~(j <= at)
      BY <1>1, <1>4, <1>7, <1>11, <2>2, <3>1, <3>2, <3>4
    <3> QED
      BY <3>3, <3>4
  <2> QED
    BY <2>1, <2>2
<1> QED
  BY <1>8, <1>9, <1>10, <1>11 DEF t

(***************************************************************************)
(* deque.popleft.                                                          *)
(***************************************************************************)
LEMMA PopKey ==
    ASSUME NEW s \in Seq(Keys), s # <<>>, Distinct(s)
    PROVE  /\ Head(s) \in Elements(s)
           /\ Tail(s) \in Seq(Keys)
           /\ Elements(Tail(s)) = Elements(s) \ {Head(s)}
           /\ Distinct(Tail(s))
           /\ \A D : Leading(s, D) => Leading(Tail(s), D \ {Head(s)})
<1> DEFINE t == Tail(s)
<1>1. /\ Len(s) \in Nat /\ Len(s) >= 1
      /\ DOMAIN s = 1 .. Len(s)
      /\ Head(s) = s[1]
      /\ t \in Seq(Keys)
      /\ Len(t) = Len(s) - 1
      /\ \A i \in 1 .. Len(t) : t[i] = s[i + 1]
  BY HeadTailProperties, LenProperties, EmptySeq
<1>2. DOMAIN t = 1 .. Len(s) - 1
  BY <1>1, LenProperties
<1> HIDE DEF t
<1>3. \A i \in DOMAIN t : i + 1 \in DOMAIN s /\ t[i] = s[i + 1] /\ i + 1 # 1
  BY <1>1, <1>2
<1>4. \A i \in DOMAIN s : i # 1 => i - 1 \in DOMAIN t /\ t[i - 1] = s[i]
  BY <1>1, <1>2
<1>5. 1 \in DOMAIN s
  BY <1>1
<1>6. Elements(t) = Elements(s) \ {Head(s)}
  <2>1. ASSUME NEW i \in DOMAIN t PROVE t[i] \in Elements(s) \ {Head(s)}
    BY <1>1, <1>3, <1>5 DEF Elements, Distinct
  <2>2. ASSUME NEW i \in DOMAIN s, s[i] # Head(s) PROVE s[i] \in Elements(t)
    BY <1>1, <1>4, <2>2 DEF Elements
  <2> QED
    BY <2>1, <2>2 DEF Elements
<1>7. Distinct(t)
  BY <1>1, <1>2, <1>3 DEF Distinct
<1>8. ASSUME NEW D, Leading(s, D)
      PROVE  Leading(t, D \ {Head(s)})
  BY <1>1, <1>2, <1>3, <1>5, <1>8 DEF Leading, Distinct
<1> QED
  BY <1>1, <1>5, <1>6, <1>7, <1>8 DEF t, Elements

-----------------------------------------------------------------------------
(***************************************************************************)
(* The inductive invariant.                                                *)
(***************************************************************************)
DeletedKeys == {k \in Keys : pending[k] # None /\ pending[k].type = "DELETED"}

(***************************************************************************)
(* What DeletedFirst needs to be inductive: a pending DELETED has left its *)
(* debounce window, so the window's end cannot queue it at the back.       *)
(***************************************************************************)
DeletedInv ==
    CoalescePolicy # "latest_wins" =>
        /\ Leading(order, DeletedKeys)
        /\ DeletedKeys \cap Windows = {}

(***************************************************************************)
(* What NoLostWakeup needs to be inductive: it already holds between       *)
(* wakeup.clear() and the wait.                                            *)
(***************************************************************************)
WakeupInv ==
    pc = "cleared" \/ (pc = "waiting" /\ ~wakeup)
        => order = <<>> /\ (TimesLeft # {} => timeout # None)

IInv ==
    /\ TypeOK
    /\ ReadyConsistent
    /\ NoLostKey
    /\ DeletedInv
    /\ WakeupInv
    /\ WindowBounded
    /\ OneDelayedPerKey

LEMMA InitIInv == Init => IInv
<1> SUFFICES ASSUME Init PROVE IInv
  OBVIOUS
<1>1. TypeOK
  BY EmptySeq DEF Init, TypeOK
<1>2. Windows = {} /\ DeletedKeys = {}
  BY DEF Init, Windows, DeletedKeys
<1>3. DOMAIN order = {}
  BY DEF Init
<1>4. ReadyConsistent
  BY <1>3 DEF Init, ReadyConsistent
<1>5. NoLostKey
  BY DEF Init, NoLostKey
<1>6. DeletedInv
  BY <1>2, <1>3 DEF DeletedInv, Leading
<1>7. WakeupInv /\ WindowBounded /\ OneDelayedPerKey
  BY <1>2 DEF Init, WakeupInv, WindowBounded, OneDelayedPerKey
<1> QED
  BY <1>1, <1>4, <1>5, <1>6, <1>7 DEF IInv

LEMMA MaxWaitType == MaxWait \in Nat
  BY ConstantAssumption DEF MaxWait

(***************************************************************************)
(* The coalescers return one of their two arguments, and all but           *)
(* latest_wins return DELETED whenever one of the arguments is DELETED.    *)
(***************************************************************************)
LEMMA MergedEvent ==
    ASSUME NEW slot \in Events \cup {None}, NEW event \in Events
    PROVE  /\ Box!Merged(slot, event) \in Events
           /\ Box!Merged(slot, event) # None
           /\ Box!Merged(slot, event).type \in {"ADDED", "MODIFIED", "DELETED"}
           /\ CoalescePolicy # "latest_wins" /\ slot # None /\ slot.type = "DELETED"
                => Box!Merged(slot, event).type = "DELETED"
<1>1. Box!Merged(slot, event) \in {slot, event} /\ (slot = None => Box!Merged(slot, event) = event)
  BY DEF Box!Merged, Box!Coalesce
<1>2. Box!Merged(slot, event) \in Events
  BY <1>1
<1>3. \A e \in Events : e # None /\ e.type \in {"ADDED", "MODIFIED", "DELETED"}
  BY EventAssumption DEF Events, Box!Events, Box!Types
<1>4. CoalescePolicy # "latest_wins" /\ slot # None /\ slot.type = "DELETED"
        => Box!Merged(slot, event).type = "DELETED"
  BY EventAssumption DEF Box!Merged, Box!Coalesce, Box!Policies
<1> QED
  BY <1>2, <1>3, <1>4

(***************************************************************************)
(* _promote_to_ready leaves the ready queue consistent and the key either  *)
(* queued or in flight.                                                    *)
(***************************************************************************)
LEMMA PromoteReady ==
    ASSUME TypeOK, ReadyConsistent, NEW k \in Keys, NEW front \in BOOLEAN,
           PromoteToReady(k, front)
    PROVE  /\ order' \in Seq(Keys)
           /\ queued' = Elements(order')
           /\ Distinct(order')
           /\ queued \subseteq queued'
           /\ queued' \subseteq queued \cup {k}
           /\ queued' \cap processing = {}
           /\ k \in queued' \cup processing
           /\ \A D : /\ Leading(order, D)
                     /\ front \/ k \notin D
                     => Leading(order', IF front THEN D \cup {k} ELSE D)
<1>1. /\ order \in Seq(Keys)
      /\ queued = Elements(order)
      /\ Distinct(order)
      /\ queued \subseteq Keys
      /\ queued \cap processing = {}
  BY DEF TypeOK, ReadyConsistent, Elements, Distinct
<1>2. ASSUME NEW D, Leading(order, D), k \notin queued
      PROVE  Leading(order, D \cup {k})
  BY <1>1, <1>2 DEF Leading, Elements
<1>3. CASE k \in processing /\ UNCHANGED <<order, queued>>
  BY <1>1, <1>2, <1>3
<1>4. CASE /\ k \notin processing
           /\ k \in queued
           /\ order' = IF front THEN MoveToFront(order, k) ELSE order
           /\ UNCHANGED queued
  <2>1. CASE front
    BY <1>1, <1>4, <2>1, MoveKeyToFront
  <2>2. CASE ~front
    BY <1>1, <1>4, <2>2
  <2> QED
    BY <2>1, <2>2
<1>5. CASE k \notin processing /\ k \notin queued /\ EnqueueReady(k, front)
  <2>1. queued' = queued \cup {k}
    BY <1>5 DEF EnqueueReady
  <2>2. CASE front
    <3>1. order' = <<k>> \o order
      BY <1>5, <2>2 DEF EnqueueReady
    <3>2. \A D : Leading(order, D) => Leading(order', D \cup {k})
      BY <1>1, <1>2, <1>5, <3>1, PrependKey
    <3> QED
      BY <1>1, <1>5, <2>1, <2>2, <3>1, <3>2, PrependKey
  <2>3. CASE ~front
    <3>1. order' = Append(order, k)
      BY <1>5, <2>3 DEF EnqueueReady
    <3> QED
      BY <1>1, <1>5, <2>1, <2>3, <3>1, AppendKey
  <2> QED
    BY <2>2, <2>3
<1> QED
  BY <1>3, <1>4, <1>5 DEF PromoteToReady

(***************************************************************************)
(* Steps that leave the ready queue, the slots and the windows alone keep  *)
(* what is said about them.                                                *)
(***************************************************************************)
LEMMA SlotsUnchanged ==
    ASSUME UNCHANGED <<pending, order, queued, processing, debounce>>
    PROVE  /\ ReadyConsistent => ReadyConsistent'
           /\ NoLostKey => NoLostKey'
           /\ DeletedInv => DeletedInv'
           /\ WindowBounded => WindowBounded'
<1>1. Windows' = Windows /\ DeletedKeys' = DeletedKeys
  BY DEF Windows, DeletedKeys
<1>2. ReadyConsistent => ReadyConsistent'
  BY DEF ReadyConsistent
<1>3. NoLostKey => NoLostKey'
  BY <1>1 DEF NoLostKey
<1>4. DeletedInv => DeletedInv'
  BY <1>1 DEF DeletedInv, Leading
<1>5. WindowBounded => WindowBounded'
  BY <1>1 DEF WindowBounded
<1> QED
  BY <1>2, <1>3, <1>4, <1>5

(***************************************************************************)
(* _add keeps the invariant, whether a producer or the drain calls it.     *)
(***************************************************************************)
LEMMA AddStep ==
    ASSUME IInv, NEW k \in Keys, NEW event \in Events,
           NEW entries \in SUBSET delayed,
           AddWith(k, event, entries),
           UNCHANGED <<processing, failures, timeout>>,
           pc' = pc, pc # "cleared"
    PROVE  IInv'
<1> DEFINE merged == Box!Merged(pending[k], event)
<1>1. /\ TypeOK /\ ReadyConsistent /\ NoLostKey /\ DeletedInv
      /\ WindowBounded /\ OneDelayedPerKey
  BY DEF IInv
<1>2. /\ merged \in Events
      /\ merged # None
      /\ merged.type \in {"ADDED", "MODIFIED", "DELETED"}
      /\ CoalescePolicy # "latest_wins" /\ k \in DeletedKeys => merged.type = "DELETED"
  BY <1>1, MergedEvent DEF TypeOK, DeletedKeys
<1> HIDE DEF merged
<1>3. pending' = [pending EXCEPT ![k] = merged] /\ wakeup' = TRUE
  BY DEF AddWith, merged
<1>4. pending' \in [Keys -> Events \cup {None}]
  BY <1>1, <1>2, <1>3 DEF TypeOK
<1>5. DeletedKeys' = IF merged.type = "DELETED" THEN DeletedKeys \cup {k}
                                                ELSE DeletedKeys \ {k}
  BY <1>1, <1>2, <1>3 DEF DeletedKeys, TypeOK
<1>6. WakeupInv'
  BY <1>3 DEF WakeupInv
<1>7. delayed' \subseteq delayed
  BY DEF AddWith, CancelDelayed, merged
<1>8. OneDelayedPerKey'
  BY <1>1, <1>7 DEF OneDelayedPerKey
<1>9. /\ processing' \subseteq Keys
      /\ delayed' \subseteq [key : Keys, event : Events, left : Int]
      /\ wakeup' \in BOOLEAN
      /\ failures' \in [Keys -> Nat]
      /\ pc' \in {"idle", "drain", "cleared", "waiting"}
      /\ timeout' \in Int \cup {None}
  BY <1>1, <1>3, <1>7 DEF TypeOK
<1>10. ASSUME NEW front \in BOOLEAN,
              PromoteToReady(k, front),
              front <=> merged.type = "DELETED",
              debounce' = IF front THEN [debounce EXCEPT ![k] = None] ELSE debounce
       PROVE  IInv'
  <2>1. /\ order' \in Seq(Keys)
        /\ queued' = Elements(order')
        /\ Distinct(order')
        /\ queued \subseteq queued'
        /\ queued' \subseteq queued \cup {k}
        /\ queued' \cap processing = {}
        /\ k \in queued' \cup processing
    BY <1>1, <1>10, PromoteReady
  <2>2. \A D : Leading(order, D) /\ (front \/ k \notin D)
                 => Leading(order', IF front THEN D \cup {k} ELSE D)
    BY <1>1, <1>10, PromoteReady
  <2>3. debounce' \in [Keys -> [left : Nat, age : 0 .. MaxWait] \cup {None}]
    BY <1>1, <1>10 DEF TypeOK
  <2>4. Windows' = IF front THEN Windows \ {k} ELSE Windows
    BY <1>1, <1>10 DEF Windows, TypeOK
  <2>5. TypeOK'
    BY <1>1, <1>4, <1>9, <2>1, <2>3 DEF TypeOK
  <2>6. ReadyConsistent'
    <3>1. \A x \in queued' : pending'[x] # None
      BY <1>1, <1>2, <1>3, <2>1 DEF ReadyConsistent, TypeOK
    <3>2. queued' \cap processing' = {}
      BY <2>1
    <3> QED
      BY <2>1, <3>1, <3>2 DEF ReadyConsistent, Elements, Distinct
  <2>7. NoLostKey'
    BY <1>1, <1>3, <2>1, <2>4 DEF NoLostKey, TypeOK
  <2>8. DeletedInv'
    <3> SUFFICES ASSUME CoalescePolicy # "latest_wins"
                 PROVE  Leading(order', DeletedKeys') /\ DeletedKeys' \cap Windows' = {}
      BY DEF DeletedInv
    <3>1. Leading(order, DeletedKeys) /\ DeletedKeys \cap Windows = {}
      BY <1>1 DEF DeletedInv
    <3>2. ~front => k \notin DeletedKeys
      BY <1>2, <1>10
    <3>3. DeletedKeys' = IF front THEN DeletedKeys \cup {k} ELSE DeletedKeys
      BY <1>5, <1>10, <3>2
    <3> QED
      BY <2>2, <2>4, <3>1, <3>2, <3>3
  <2>9. WindowBounded'
    BY <1>1, <1>10, <2>4 DEF WindowBounded, TypeOK, Windows
  <2> QED
    BY <1>6, <1>8, <2>5, <2>6, <2>7, <2>8, <2>9 DEF IInv
<1>11. CASE /\ merged.type = "MODIFIED"
            /\ DedupWindow > 0
            /\ debounce' = [debounce EXCEPT ![k] = Slide(k)]
            /\ UNCHANGED <<order, queued>>
  <2>1. /\ Slide(k) \in [left : Nat, age : 0 .. MaxWait]
        /\ Slide(k).left + Slide(k).age <= MaxWait
    <3> DEFINE age == IF debounce[k] = None THEN 0 ELSE debounce[k].age
    <3>1. age \in 0 .. MaxWait
      BY <1>1, MaxWaitType DEF TypeOK
    <3>2. Slide(k) = [left |-> Lesser(DedupWindow, MaxWait - age), age |-> age]
      BY DEF Slide
    <3> QED
      BY <3>1, <3>2, MaxWaitType, ConstantAssumption DEF Lesser
  <2>2. \A w \in [left : Nat, age : 0 .. MaxWait] : w # None
    BY ConstantAssumption, MaxWaitType
  <2>3. Windows' = Windows \cup {k}
    BY <1>1, <1>11, <2>1, <2>2 DEF Windows, TypeOK
  <2>4. TypeOK'
    BY <1>1, <1>4, <1>9, <1>11, <2>1 DEF TypeOK
  <2>5. ReadyConsistent'
    BY <1>1, <1>2, <1>3, <1>11 DEF ReadyConsistent, TypeOK
  <2>6. NoLostKey'
    BY <1>1, <1>3, <1>11, <2>3 DEF NoLostKey, TypeOK
  <2>7. DeletedInv'
    <3> SUFFICES ASSUME CoalescePolicy # "latest_wins"
                 PROVE  Leading(order', DeletedKeys') /\ DeletedKeys' \cap Windows' = {}
      BY DEF DeletedInv
    <3>1. Leading(order, DeletedKeys) /\ DeletedKeys \cap Windows = {}
      BY <1>1 DEF DeletedInv
    <3>2. k \notin DeletedKeys /\ DeletedKeys' = DeletedKeys
      BY <1>2, <1>5, <1>11
    <3> QED
      BY <1>11, <2>3, <3>1, <3>2
  <2>8. WindowBounded'
    BY <1>1, <1>11, <2>1, <2>3 DEF WindowBounded, TypeOK, Windows
  <2> QED
    BY <1>6, <1>8, <2>4, <2>5, <2>6, <2>7, <2>8 DEF IInv
<1>12. \/ /\ merged.type = "DELETED"
          /\ debounce' = [debounce EXCEPT ![k] = None]
          /\ PromoteToReady(k, TRUE)
       \/ /\ merged.type = "MODIFIED"
          /\ DedupWindow > 0
          /\ debounce' = [debounce EXCEPT ![k] = Slide(k)]
          /\ UNCHANGED <<order, queued>>
       \/ /\ merged.type # "DELETED"
          /\ PromoteToReady(k, FALSE)
          /\ UNCHANGED debounce
  BY DEF AddWith, merged
<1> QED
  BY <1>10, <1>11, <1>12

(***************************************************************************)
(* The push of add_after keeps the invariant.                              *)
(***************************************************************************)
LEMMA PushStep ==
    ASSUME IInv, NEW k \in Keys, NEW event \in Events, NEW delay \in Int,
           PushDelayed(k, event, delay),
           failures' \in [Keys -> Nat],
           UNCHANGED <<processing, pc, timeout>>,
           pc # "cleared"
    PROVE  IInv'
<1> DEFINE d == [key |-> k, event |-> event, left |-> delay]
<1>1. /\ delayed' = CancelDelayed(delayed, k) \cup {d}
      /\ wakeup' = TRUE
      /\ UNCHANGED <<pending, order, queued, processing, debounce>>
  BY DEF PushDelayed
<1>2. d \in [key : Keys, event : Events, left : Int] /\ d.key = k
  OBVIOUS
<1> HIDE DEF d
<1>3. TypeOK'
  BY <1>1, <1>2 DEF IInv, TypeOK, CancelDelayed
<1>4. OneDelayedPerKey'
  BY <1>1, <1>2 DEF IInv, OneDelayedPerKey, CancelDelayed
<1>5. WakeupInv'
  BY <1>1 DEF WakeupInv
<1> QED
  BY <1>1, <1>3, <1>4, <1>5, SlotsUnchanged DEF IInv

LEMMA BackoffDelayType == \A n \in Nat : BackoffDelay(n) \in Int
<1>1. \A n \in Nat : 2^n \in Int
  BY SMT
<1> QED
  BY <1>1, ConstantAssumption DEF BackoffDelay, Lesser

-----------------------------------------------------------------------------
(* Every step keeps the invariant. *)

LEMMA NextIInv == IInv /\ [Next]_qvars => IInv'
<1> SUFFICES ASSUME IInv, [Next]_qvars PROVE IInv'
  OBVIOUS
<1>0. /\ TypeOK /\ ReadyConsistent /\ NoLostKey /\ DeletedInv /\ WakeupInv
      /\ WindowBounded /\ OneDelayedPerKey
  BY DEF IInv
<1>1. ASSUME NEW k \in Keys, NEW event \in Events, Add(k, event)
      PROVE  IInv'
  BY <1>1, AddStep DEF Add, LoopFree
<1>2. ASSUME NEW k \in Keys, NEW event \in Events, NEW delay \in Delays,
             AddAfter(k, event, delay)
      PROVE  IInv'
  <2>1. CASE delay = 0
    BY <1>2, <2>1, AddStep DEF AddAfter, LoopFree
  <2>2. CASE delay # 0
    <3>1. delay \in Int /\ failures' \in [Keys -> Nat]
      BY <1>0, <1>2, ConstantAssumption DEF AddAfter, TypeOK
    <3> QED
      BY <1>2, <2>2, <3>1, PushStep DEF AddAfter, LoopFree
  <2> QED
    BY <2>1, <2>2
<1>3. ASSUME NEW k \in Keys, NEW event \in Events, AddRateLimited(k, event)
      PROVE  IInv'
  <2>1. failures[k] \in Nat /\ failures' \in [Keys -> Nat]
    BY <1>0, <1>3 DEF AddRateLimited, TypeOK
  <2>2. BackoffDelay(failures[k]) \in Int
    BY <2>1, BackoffDelayType
  <2> QED
    BY <1>3, <2>1, <2>2, PushStep DEF AddRateLimited, LoopFree
<1>4. ASSUME NEW k \in Keys, Forget(k)
      PROVE  IInv'
  <2>1. TypeOK'
    BY <1>0, <1>4 DEF Forget, TypeOK
  <2>2. WakeupInv' /\ OneDelayedPerKey'
    BY <1>0, <1>4 DEF Forget, WakeupInv, TimesLeft, Windows, OneDelayedPerKey
  <2> QED
    BY <1>0, <1>4, <2>1, <2>2, SlotsUnchanged DEF Forget, IInv
<1>5. ASSUME NEW k \in Keys, Done(k)
      PROVE  IInv'
  <2>1. /\ UNCHANGED <<pending, delayed, debounce, failures, pc, timeout>>
        /\ processing' = processing \ {k}
        /\ k \in processing
        /\ pc # "cleared"
    BY <1>5 DEF Done, LoopFree
  <2>2. /\ order' \in Seq(Keys)
        /\ queued' = Elements(order')
        /\ Distinct(order')
        /\ queued' \cap processing' = {}
        /\ \A x \in queued' : pending[x] # None
        /\ queued \subseteq queued'
        /\ pending[k] # None => k \in queued'
        /\ queued' # queued => wakeup'
        /\ wakeup' \in BOOLEAN
        /\ wakeup => wakeup'
        /\ queued' \subseteq Keys
        /\ Leading(order, DeletedKeys) => Leading(order', DeletedKeys)
        /\ ~wakeup' => order' = order
    <3>1. /\ order \in Seq(Keys)
          /\ queued = Elements(order)
          /\ Distinct(order)
          /\ queued \subseteq Keys
          /\ queued \cap processing = {}
          /\ \A x \in queued : pending[x] # None
      BY <1>0 DEF TypeOK, ReadyConsistent, Elements, Distinct
    <3>2. CASE pending[k] # None /\ k \notin queued
      <4>1. wakeup' = TRUE /\ EnqueueReady(k, pending[k].type = "DELETED")
        BY <1>5, <3>2 DEF Done
      <4>2. CASE pending[k].type = "DELETED"
        <5>1. order' = <<k>> \o order /\ queued' = queued \cup {k} /\ k \in DeletedKeys
          BY <3>2, <4>1, <4>2 DEF EnqueueReady, DeletedKeys
        <5> QED
          BY <2>1, <3>1, <3>2, <4>1, <5>1, PrependKey
      <4>3. CASE pending[k].type # "DELETED"
        <5>1. order' = Append(order, k) /\ queued' = queued \cup {k} /\ k \notin DeletedKeys
          BY <3>2, <4>1, <4>3 DEF EnqueueReady, DeletedKeys
        <5> QED
          BY <2>1, <3>1, <3>2, <4>1, <5>1, AppendKey
      <4> QED
        BY <4>2, <4>3
    <3>3. CASE ~(pending[k] # None /\ k \notin queued)
      <4>1. UNCHANGED <<order, queued, wakeup>>
        BY <1>5, <3>3 DEF Done
      <4>2. wakeup \in BOOLEAN
        BY <1>0 DEF TypeOK
      <4> QED
        BY <2>1, <3>1, <3>3, <4>1, <4>2
    <3> QED
      BY <3>2, <3>3
  <2>3. TypeOK'
    BY <1>0, <2>1, <2>2 DEF TypeOK
  <2>4. ReadyConsistent'
    BY <2>1, <2>2 DEF ReadyConsistent, Elements, Distinct
  <2>5. Windows' = Windows /\ DeletedKeys' = DeletedKeys /\ TimesLeft' = TimesLeft
    BY <2>1 DEF Windows, DeletedKeys, TimesLeft
  <2>6. NoLostKey'
    BY <1>0, <2>1, <2>2, <2>5 DEF NoLostKey
  <2>7. DeletedInv'
    BY <1>0, <2>2, <2>5 DEF DeletedInv
  <2>8. WakeupInv'
    BY <1>0, <2>1, <2>2, <2>5 DEF WakeupInv
  <2>9. WindowBounded' /\ OneDelayedPerKey'
    BY <1>0, <2>1, <2>5 DEF WindowBounded, OneDelayedPerKey
  <2> QED
    BY <2>3, <2>4, <2>6, <2>7, <2>8, <2>9 DEF IInv
<1>6. CASE CallGet
  <2>1. TypeOK' /\ WakeupInv' /\ OneDelayedPerKey'
    BY <1>0, <1>6 DEF CallGet, TypeOK, WakeupInv, OneDelayedPerKey
  <2> QED
    BY <1>0, <1>6, <2>1, SlotsUnchanged DEF CallGet, IInv
<1>7. ASSUME NEW d \in delayed, DrainDelayed(d)
      PROVE  IInv'
  <2>1. d.key \in Keys /\ d.event \in Events /\ delayed \ {d} \in SUBSET delayed
    BY <1>0 DEF TypeOK
  <2>2. AddWith(d.key, d.event, delayed \ {d}) /\ pc # "cleared"
    BY <1>7 DEF DrainDelayed
  <2>3. UNCHANGED <<processing, failures, pc, timeout>>
    BY <1>7 DEF DrainDelayed
  <2> QED
    BY <2>1, <2>2, <2>3, AddStep
<1>8. ASSUME NEW k \in Keys, DrainWindow(k)
      PROVE  IInv'
  <2>1. /\ debounce' = [debounce EXCEPT ![k] = None]
        /\ UNCHANGED <<pending, processing, delayed, wakeup, failures, pc, timeout>>
        /\ pc = "drain"
        /\ k \in Windows
    BY <1>8 DEF DrainWindow, DueWindows
  <2>2. /\ order' \in Seq(Keys)
        /\ queued' = Elements(order')
        /\ Distinct(order')
        /\ queued \subseteq queued'
        /\ queued' \subseteq queued \cup {k}
        /\ queued' \cap processing = {}
        /\ \A x \in queued' : pending[x] # None
        /\ pending[k] # None => k \in queued' \cup processing
        /\ Leading(order, DeletedKeys) /\ k \notin DeletedKeys => Leading(order', DeletedKeys)
    <3>1. CASE pending[k] # None
      <4>1. PromoteToReady(k, FALSE)
        BY <1>8, <3>1 DEF DrainWindow
      <4> QED
        BY <1>0, <3>1, <4>1, PromoteReady DEF ReadyConsistent
    <3>2. CASE pending[k] = None
      <4>1. UNCHANGED <<order, queued>>
        BY <1>8, <3>2 DEF DrainWindow
      <4> QED
        BY <1>0, <3>2, <4>1 DEF TypeOK, ReadyConsistent, Elements, Distinct
    <3> QED
      BY <3>1, <3>2
  <2>3. Windows' = Windows \ {k} /\ DeletedKeys' = DeletedKeys
    BY <1>0, <2>1 DEF Windows, DeletedKeys, TypeOK
  <2>4. TypeOK'
    BY <1>0, <2>1, <2>2 DEF TypeOK
  <2>5. ReadyConsistent'
    BY <2>1, <2>2 DEF ReadyConsistent, Elements, Distinct
  <2>6. NoLostKey'
    BY <1>0, <2>1, <2>2, <2>3 DEF NoLostKey
  <2>7. DeletedInv'
    BY <1>0, <2>1, <2>2, <2>3 DEF DeletedInv
  <2>8. WakeupInv' /\ OneDelayedPerKey'
    BY <1>0, <2>1 DEF WakeupInv, OneDelayedPerKey
  <2>9. WindowBounded'
    BY <1>0, <2>1, <2>3 DEF WindowBounded, TypeOK, Windows
  <2> QED
    BY <2>4, <2>5, <2>6, <2>7, <2>8, <2>9 DEF IInv
<1>9. CASE HandOut
  <2> DEFINE k == Head(order)
  <2>1. /\ pending' = [pending EXCEPT ![k] = None]
        /\ queued' = queued \ {k}
        /\ processing' = processing \cup {k}
        /\ order' = Tail(order)
        /\ order # <<>>
        /\ pc' = "idle"
        /\ UNCHANGED <<delayed, debounce, wakeup, failures, timeout>>
    BY <1>9 DEF HandOut
  <2>2. /\ order \in Seq(Keys)
        /\ queued = Elements(order)
        /\ Distinct(order)
        /\ queued \subseteq Keys
    BY <1>0 DEF TypeOK, ReadyConsistent, Elements, Distinct
  <2>3. /\ k \in queued
        /\ order' \in Seq(Keys)
        /\ queued' = Elements(order')
        /\ Distinct(order')
        /\ \A D : Leading(order, D) => Leading(order', D \ {k})
    BY <2>1, <2>2, PopKey
  <2> HIDE DEF k
  <2>4. TypeOK'
    BY <1>0, <2>1, <2>2, <2>3 DEF TypeOK
  <2>5. ReadyConsistent'
    <3>1. \A x \in queued' : pending'[x] # None
      BY <1>0, <2>1, <2>2 DEF ReadyConsistent, TypeOK
    <3>2. queued' \cap processing' = {}
      BY <1>0, <2>1 DEF ReadyConsistent
    <3> QED
      BY <2>3, <3>1, <3>2 DEF ReadyConsistent, Elements, Distinct
  <2>6. Windows' = Windows /\ DeletedKeys' = DeletedKeys \ {k}
    BY <1>0, <2>1, <2>2, <2>3 DEF Windows, DeletedKeys, TypeOK
  <2>7. NoLostKey'
    BY <1>0, <2>1, <2>2, <2>3, <2>6 DEF NoLostKey, TypeOK
  <2>8. DeletedInv'
    BY <1>0, <2>3, <2>6 DEF DeletedInv
  <2>9. WakeupInv' /\ OneDelayedPerKey'
    BY <1>0, <2>1 DEF WakeupInv, OneDelayedPerKey
  <2>10. WindowBounded'
    BY <1>0, <2>1, <2>6 DEF WindowBounded
  <2> QED
    BY <2>4, <2>5, <2>7, <2>8, <2>9, <2>10 DEF IInv
<1>10. CASE ClearWakeup
  <2>1. /\ UNCHANGED <<pending, order, queued, processing, delayed, debounce, failures>>
        /\ order = <<>>
        /\ wakeup' = FALSE
        /\ pc' = "cleared"
    BY <1>10 DEF ClearWakeup
  <2>2. \A t \in TimesLeft : t \in Int
    BY <1>0 DEF TimesLeft, TypeOK, Windows
  <2>3. timeout' \in Int \cup {None} /\ (TimesLeft # {} => timeout' # None)
    BY <1>10, <2>2, ConstantAssumption DEF ClearWakeup
  <2>4. TypeOK'
    BY <1>0, <2>1, <2>3 DEF TypeOK
  <2>5. WakeupInv'
    BY <2>1, <2>3 DEF WakeupInv, TimesLeft, Windows
  <2>6. OneDelayedPerKey'
    BY <1>0, <2>1 DEF OneDelayedPerKey
  <2> QED
    BY <1>0, <2>1, <2>4, <2>5, <2>6, SlotsUnchanged DEF IInv
<1>11. CASE Recheck \/ Wake
  <2>1. /\ UNCHANGED <<pending, order, queued, processing, delayed, debounce,
                       wakeup, failures, timeout>>
        /\ pc' \in {"drain", "waiting"}
        /\ pc' = "waiting" => pc = "cleared"
    BY <1>11 DEF Recheck, Wake
  <2>2. TypeOK' /\ OneDelayedPerKey'
    BY <1>0, <2>1 DEF TypeOK, OneDelayedPerKey
  <2>3. WakeupInv'
    BY <1>0, <2>1 DEF WakeupInv, TimesLeft, Windows
  <2> QED
    BY <1>0, <2>1, <2>2, <2>3, SlotsUnchanged DEF IInv
<1>12. CASE Tick
  <2>1. /\ delayed' = {[d EXCEPT !.left = Down(@)] : d \in delayed}
        /\ debounce' = [k \in Keys |->
                          IF debounce[k] = None THEN None
                          ELSE [left |-> Down(debounce[k].left),
                                age |-> Lesser(debounce[k].age + 1, MaxWait)]]
        /\ timeout' = IF pc = "waiting" /\ timeout # None THEN Down(timeout) ELSE timeout
        /\ UNCHANGED <<pending, order, queued, processing, wakeup, failures, pc>>
    BY <1>12 DEF Tick
  <2>2. \A n \in Int : Down(n) \in Nat /\ Down(n) <= (IF n <= 0 THEN 0 ELSE n)
    BY DEF Down
  <2>3. /\ delayed' \subseteq [key : Keys, event : Events, left : Int]
        /\ \A x \in delayed' : \E d \in delayed : x = [d EXCEPT !.left = Down(@)] /\ x.key = d.key
    <3>1. ASSUME NEW d \in delayed
          PROVE  /\ [d EXCEPT !.left = Down(@)] \in [key : Keys, event : Events, left : Int]
                 /\ [d EXCEPT !.left = Down(@)].key = d.key
      <4>1. d \in [key : Keys, event : Events, left : Int] /\ d.left \in Int
        BY <1>0 DEF TypeOK
      <4>2. Down(d.left) \in Int
        BY <2>2, <4>1
      <4> QED
        BY <4>1, <4>2
    <3> HIDE DEF Down
    <3> QED
      BY <2>1, <3>1
  <2>4. ASSUME NEW k \in Keys, debounce[k] # None
        PROVE  /\ debounce'[k] \in [left : Nat, age : 0 .. MaxWait]
               /\ debounce'[k] # None
               /\ debounce'[k].left + debounce'[k].age <= MaxWait
    <3>1. /\ debounce[k].left \in Nat /\ debounce[k].age \in 0 .. MaxWait
          /\ debounce[k].left + debounce[k].age <= MaxWait
      BY <1>0, <2>4 DEF TypeOK, WindowBounded, Windows
    <3>2. debounce'[k] = [left |-> Down(debounce[k].left),
                          age |-> Lesser(debounce[k].age + 1, MaxWait)]
      BY <2>1, <2>4
    <3>3. /\ Down(debounce[k].left) \in Nat
          /\ Lesser(debounce[k].age + 1, MaxWait) \in 0 .. MaxWait
          /\ Down(debounce[k].left) + Lesser(debounce[k].age + 1, MaxWait) <= MaxWait
      BY <3>1, MaxWaitType DEF Down, Lesser
    <3> QED
      BY <3>2, <3>3, ConstantAssumption, MaxWaitType
  <2>5. \A k \in Keys : debounce[k] = None => debounce'[k] = None
    BY <2>1
  <2>6. debounce' \in [Keys -> [left : Nat, age : 0 .. MaxWait] \cup {None}]
    BY <2>1, <2>4, <2>5
  <2>7. Windows' = Windows /\ DeletedKeys' = DeletedKeys
    BY <2>1, <2>4, <2>5 DEF Windows, DeletedKeys
  <2>8. timeout' \in Int \cup {None} /\ (timeout # None => timeout' # None)
    BY <1>0, <2>1, <2>2, ConstantAssumption DEF TypeOK
  <2>9. TypeOK'
    BY <1>0, <2>1, <2>3, <2>6, <2>8 DEF TypeOK
  <2>10. TimesLeft' # {} => TimesLeft # {}
    <3>1. TimesLeft = {} => delayed = {} /\ Windows = {}
      BY DEF TimesLeft
    <3>2. delayed = {} => delayed' = {}
      BY <2>3
    <3>3. delayed' = {} /\ Windows' = {} => TimesLeft' = {}
      BY DEF TimesLeft
    <3> QED
      BY <2>7, <3>1, <3>2, <3>3
  <2>11. WakeupInv'
    BY <1>0, <2>1, <2>8, <2>10 DEF WakeupInv
  <2>12. WindowBounded'
    BY <2>4, <2>7 DEF WindowBounded, Windows
  <2>13. OneDelayedPerKey'
    <3> SUFFICES ASSUME NEW x \in delayed', NEW y \in delayed', x.key = y.key
                 PROVE  x = y
      BY DEF OneDelayedPerKey
    <3>1. PICK d \in delayed : x = [d EXCEPT !.left = Down(@)] /\ x.key = d.key
      BY <2>3
    <3>2. PICK e \in delayed : y = [e EXCEPT !.left = Down(@)] /\ y.key = e.key
      BY <2>3
    <3>3. d = e
      BY <1>0, <3>1, <3>2 DEF OneDelayedPerKey
    <3> QED
      BY <3>1, <3>2, <3>3
  <2>14. ReadyConsistent'
    BY <1>0, <2>1 DEF ReadyConsistent
  <2>15. NoLostKey' /\ DeletedInv'
    BY <1>0, <2>1, <2>7 DEF NoLostKey, DeletedInv, Leading
  <2> QED
    BY <2>9, <2>11, <2>12, <2>13, <2>14, <2>15 DEF IInv
<1>13. CASE UNCHANGED qvars
  <2>1. TypeOK' /\ OneDelayedPerKey'
    BY <1>0, <1>13 DEF qvars, TypeOK, OneDelayedPerKey
  <2>2. WakeupInv'
    BY <1>0, <1>13 DEF qvars, WakeupInv, TimesLeft, Windows
  <2> QED
    BY <1>0, <1>13, <2>1, <2>2, SlotsUnchanged DEF qvars, IInv
<1> QED
  BY <1>1, <1>2, <1>3, <1>4, <1>5, <1>6, <1>7, <1>8, <1>9, <1>10, <1>11, <1>12,
     <1>13 DEF Next, Produce, Consume

-----------------------------------------------------------------------------
(* The theorems. *)

LEMMA InvariantHolds == Spec => []IInv
  BY InitIInv, NextIInv, PTL DEF Spec

(***************************************************************************)
(* Type correctness of the queue's state.                                  *)
(***************************************************************************)
THEOREM TypeCorrect == Spec => []TypeOK
<1>1. IInv => TypeOK
  BY DEF IInv
<1> QED
  BY <1>1, InvariantHolds, PTL

(***************************************************************************)
(* get() pops each queued key once, always finds its event, and never      *)
(* returns a key whose task has not called done().                         *)
(***************************************************************************)
THEOREM ReadyQueueCorrect == Spec => []ReadyConsistent
<1>1. IInv => ReadyConsistent
  BY DEF IInv
<1> QED
  BY <1>1, InvariantHolds, PTL

(***************************************************************************)
(* No event accepted by add() is stranded in _pending.                     *)
(***************************************************************************)
THEOREM KeysAreKept == Spec => []NoLostKey
<1>1. IInv => NoLostKey
  BY DEF IInv
<1> QED
  BY <1>1, InvariantHolds, PTL

(***************************************************************************)
(* get() never waits on a cleared wakeup event while a key is ready, nor   *)
(* without a timeout while a timer runs.                                   *)
(***************************************************************************)
THEOREM WakeupsAreKept == Spec => []NoLostWakeup
<1>1. IInv => NoLostWakeup
  BY DEF IInv, WakeupInv, NoLostWakeup
<1> QED
  BY <1>1, InvariantHolds, PTL

(***************************************************************************)
(* Keys with a pending DELETED are always ahead of the others.             *)
(***************************************************************************)
THEOREM DeletedServedFirst == Spec => []DeletedFirst
<1>1. IInv => DeletedFirst
  <2> SUFFICES ASSUME IInv, CoalescePolicy # "latest_wins",
                      NEW i \in DOMAIN order, NEW j \in DOMAIN order,
                      i < j, pending[order[j]].type = "DELETED"
               PROVE  pending[order[i]].type = "DELETED"
    BY DEF DeletedFirst
  <2>1. order[j] \in queued /\ queued \subseteq Keys /\ pending[order[j]] # None
    BY DEF IInv, ReadyConsistent, TypeOK
  <2>2. order[j] \in DeletedKeys
    BY <2>1 DEF DeletedKeys
  <2>3. order[i] \in DeletedKeys
    BY <2>2 DEF IInv, DeletedInv, Leading
  <2> QED
    BY <2>3 DEF DeletedKeys
<1> QED
  BY <1>1, InvariantHolds, PTL

(***************************************************************************)
(* No debounce window outlives dedup_max_wait.                             *)
(***************************************************************************)
THEOREM WindowsAreBounded == Spec => []WindowBounded
<1>1. IInv => WindowBounded
  BY DEF IInv
<1> QED
  BY <1>1, InvariantHolds, PTL

(***************************************************************************)
(* add_after never leaves two delayed events for one key.                  *)
(***************************************************************************)
THEOREM DelayedOnce == Spec => []OneDelayedPerKey
<1>1. IInv => OneDelayedPerKey
  BY DEF IInv
<1> QED
  BY <1>1, InvariantHolds, PTL

(***************************************************************************)
(* A pending DELETED leaves its slot only through get().                   *)
(***************************************************************************)
THEOREM DeletedIsSticky == Spec => DeletedSticky
<1> DEFINE Sticky ==
      CoalescePolicy # "latest_wins" =>
         \A k \in Keys : pending[k] # None /\ pending[k].type = "DELETED" =>
            \/ pending'[k] # None /\ pending'[k].type = "DELETED"
            \/ k \in processing' \ processing
<1>1. IInv /\ [Next]_qvars => [Sticky]_qvars
  <2> SUFFICES ASSUME IInv, Next, CoalescePolicy # "latest_wins",
                      NEW k \in Keys, pending[k] # None, pending[k].type = "DELETED"
               PROVE  \/ pending'[k] # None /\ pending'[k].type = "DELETED"
                      \/ k \in processing' \ processing
    OBVIOUS
  <2>1. pending \in [Keys -> Events \cup {None}]
    BY DEF IInv, TypeOK
  <2>2. ASSUME NEW x \in Keys, NEW event \in Events, NEW entries, AddWith(x, event, entries)
        PROVE  pending'[k] # None /\ pending'[k].type = "DELETED"
    <3>1. pending' = [pending EXCEPT ![x] = Box!Merged(pending[x], event)]
      BY <2>2 DEF AddWith
    <3>2. /\ Box!Merged(pending[k], event) # None
          /\ Box!Merged(pending[k], event).type = "DELETED"
      BY <2>1, MergedEvent
    <3> QED
      BY <2>1, <3>1, <3>2
  <2>3. ASSUME NEW x \in Keys, NEW event \in Events,
               \/ Add(x, event)
               \/ \E delay \in Delays : AddAfter(x, event, delay)
               \/ AddRateLimited(x, event)
        PROVE  pending'[k] # None /\ pending'[k].type = "DELETED"
    BY <2>2, <2>3 DEF Add, AddAfter, AddRateLimited, PushDelayed
  <2>4. ASSUME NEW d \in delayed, DrainDelayed(d)
        PROVE  pending'[k] # None /\ pending'[k].type = "DELETED"
    <3>1. d.key \in Keys /\ d.event \in Events
      BY DEF IInv, TypeOK
    <3> QED
      BY <2>2, <2>4, <3>1 DEF DrainDelayed
  <2>5. CASE HandOut
    <3>1. CASE k = Head(order)
      <4>1. order # <<>> /\ order \in Seq(Keys) /\ Distinct(order)
        BY <2>5 DEF HandOut, IInv, TypeOK, ReadyConsistent, Distinct
      <4>2. k \in queued
        BY <3>1, <4>1, PopKey DEF IInv, ReadyConsistent, Elements
      <4> QED
        BY <2>5, <3>1, <4>2 DEF HandOut, IInv, ReadyConsistent
    <3>2. CASE k # Head(order)
      BY <2>1, <2>5, <3>2 DEF HandOut
    <3> QED
      BY <3>1, <3>2
  <2>6. ASSUME \/ \E x \in Keys : Forget(x) \/ Done(x)
               \/ CallGet
               \/ \E x \in Keys : DrainWindow(x)
               \/ ClearWakeup \/ Recheck \/ Wake \/ Tick
        PROVE  pending' = pending
    BY <2>6 DEF Forget, Done, CallGet, DrainWindow, ClearWakeup, Recheck, Wake, Tick
  <2> QED
    BY <2>3, <2>4, <2>5, <2>6 DEF Next, Produce, Consume
<1>2. Spec => [][Sticky]_qvars
  BY <1>1, InvariantHolds, PTL DEF Spec
<1> QED
  BY <1>2 DEF DeletedSticky

-----------------------------------------------------------------------------
(* The queue implements the mailbox. *)

Kept(entries) == {[key |-> d.key, event |-> d.event] : d \in entries}

(***************************************************************************)
(* The heap without k's entries is, to the mailbox, the later events       *)
(* without k's.                                                            *)
(***************************************************************************)
LEMMA KeptWithout ==
    ASSUME NEW entries, NEW k
    PROVE  Kept(CancelDelayed(entries, k)) = Box!Without(Kept(entries), k)
<1>1. ASSUME NEW x \in Kept(CancelDelayed(entries, k))
      PROVE  x \in Box!Without(Kept(entries), k)
  BY DEF Kept, CancelDelayed, Box!Without
<1>2. ASSUME NEW x \in Box!Without(Kept(entries), k)
      PROVE  x \in Kept(CancelDelayed(entries, k))
  <2>1. x \in Kept(entries) /\ x.key # k
    BY DEF Box!Without
  <2>2. PICK d \in entries : x = [key |-> d.key, event |-> d.event]
    BY <2>1 DEF Kept
  <2>3. d \in CancelDelayed(entries, k)
    BY <2>1, <2>2 DEF CancelDelayed
  <2> QED
    BY <2>2, <2>3 DEF Kept
<1> QED
  BY <1>1, <1>2

LEMMA AddIsPut ==
    ASSUME NEW k, NEW event, NEW entries, AddWith(k, event, entries)
    PROVE  /\ pending' = [pending EXCEPT ![k] = Box!Merged(pending[k], event)]
           /\ Kept(delayed') = IF Box!Merged(pending[k], event).type = "DELETED"
                               THEN Box!Without(Kept(entries), k) ELSE Kept(entries)
<1>1. pending' = [pending EXCEPT ![k] = Box!Merged(pending[k], event)]
  BY DEF AddWith
<1>2. delayed' = IF Box!Merged(pending[k], event).type = "DELETED"
                 THEN CancelDelayed(entries, k) ELSE entries
  BY DEF AddWith
<1>3. Kept(delayed') = IF Box!Merged(pending[k], event).type = "DELETED"
                       THEN Box!Without(Kept(entries), k) ELSE Kept(entries)
  BY <1>2, KeptWithout
<1> QED
  BY <1>1, <1>3

LEMMA PushIsSchedule ==
    ASSUME NEW k, NEW event, NEW delay, PushDelayed(k, event, delay),
           processing' = processing
    PROVE  Box!Schedule(k, event)
<1> DEFINE d == [key |-> k, event |-> event, left |-> delay]
<1>1. delayed' = CancelDelayed(delayed, k) \cup {d} /\ pending' = pending
  BY DEF PushDelayed
<1>2. Kept(delayed') = Kept(CancelDelayed(delayed, k)) \cup {[key |-> k, event |-> event]}
  <2>1. d.key = k /\ d.event = event
    OBVIOUS
  <2> HIDE DEF d
  <2> QED
    BY <1>1, <2>1 DEF Kept
<1>3. Kept(delayed') = Box!Without(Kept(delayed), k) \cup {[key |-> k, event |-> event]}
  BY <1>2, KeptWithout
<1> QED
  BY <1>1, <1>3 DEF Box!Schedule, Kept

(***************************************************************************)
(* Every behaviour of the queue is one of the mailbox: a key is handed out *)
(* only while it has an event and no task, each accepted event is          *)
(* coalesced into its slot, and a due event is put back exactly once.      *)
(***************************************************************************)
THEOREM Refinement == Spec => ImplementsMailbox
<1>1. Init => Box!Init
  BY DEF Init, Box!Init
<1>2. IInv /\ [Next]_qvars => [Box!Next]_(Box!vars)
  <2> SUFFICES ASSUME IInv, [Next]_qvars
               PROVE  Box!Next \/ UNCHANGED Box!vars
    OBVIOUS
  <2>1. ASSUME NEW k \in Keys, NEW event \in Events,
               \/ Add(k, event)
               \/ \E delay \in Delays : AddAfter(k, event, delay)
               \/ AddRateLimited(k, event)
        PROVE  Box!Next
    <3>1. processing' = processing
      BY <2>1 DEF Add, AddAfter, AddRateLimited
    <3>2. AddWith(k, event, delayed) \/ \E delay : PushDelayed(k, event, delay)
      BY <2>1 DEF Add, AddAfter, AddRateLimited
    <3>3. Box!Put(k, event) \/ Box!Schedule(k, event)
      <4>1. ASSUME AddWith(k, event, delayed) PROVE Box!Put(k, event)
        <5>1. /\ pending' = [pending EXCEPT ![k] = Box!Merged(pending[k], event)]
              /\ Kept(delayed') = IF Box!Merged(pending[k], event).type = "DELETED"
                                  THEN Box!Without(Kept(delayed), k) ELSE Kept(delayed)
          BY <4>1, AddIsPut
        <5> QED
          BY <3>1, <5>1 DEF Box!Put, Box!PutWith, Kept
      <4>2. ASSUME NEW delay, PushDelayed(k, event, delay) PROVE Box!Schedule(k, event)
        BY <3>1, <4>2, PushIsSchedule
      <4> QED
        BY <3>2, <4>1, <4>2
    <3>4. event \in Box!Events
      BY DEF Events
    <3> QED
      BY <3>3, <3>4 DEF Box!Next
  <2>2. ASSUME NEW d \in delayed, DrainDelayed(d)
        PROVE  Box!Next
    <3> DEFINE x == [key |-> d.key, event |-> d.event]
    <3>1. /\ pending' = [pending EXCEPT ![d.key] = Box!Merged(pending[d.key], d.event)]
          /\ Kept(delayed') = IF Box!Merged(pending[d.key], d.event).type = "DELETED"
                              THEN Box!Without(Kept(delayed \ {d}), d.key)
                              ELSE Kept(delayed \ {d})
          /\ processing' = processing
      <4>1. AddWith(d.key, d.event, delayed \ {d}) /\ processing' = processing
        BY <2>2 DEF DrainDelayed
      <4> QED
        BY <4>1, AddIsPut
    <3>2. Kept(delayed \ {d}) = Kept(delayed) \ {x}
      <4>1. ASSUME NEW e \in delayed, [key |-> e.key, event |-> e.event] = x
            PROVE  e = d
        <5>1. e.key = d.key
          BY <4>1
        <5> QED
          BY <5>1 DEF IInv, OneDelayedPerKey
      <4> HIDE DEF x
      <4>2. x = [key |-> d.key, event |-> d.event]
        BY DEF x
      <4>3. ASSUME NEW y \in Kept(delayed \ {d}) PROVE y \in Kept(delayed) \ {x}
        BY <4>1 DEF Kept
      <4>4. ASSUME NEW y \in Kept(delayed) \ {x} PROVE y \in Kept(delayed \ {d})
        BY <4>2 DEF Kept
      <4> QED
        BY <4>3, <4>4
    <3>3. x \in Kept(delayed) /\ x.key = d.key /\ x.event = d.event
      BY DEF Kept
    <3>4. Box!Fire(x)
      <4> HIDE DEF x
      <4> QED
        BY <3>1, <3>2, <3>3 DEF Box!Fire, Box!PutWith, Kept
    <3> QED
      BY <3>3, <3>4 DEF Box!Next, Kept
  <2>3. CASE HandOut
    <3>1. order # <<>> /\ order \in Seq(Keys) /\ Distinct(order)
      BY <2>3 DEF HandOut, IInv, TypeOK, ReadyConsistent, Distinct
    <3>2. Head(order) \in queued /\ Head(order) \in Keys
      BY <3>1, PopKey DEF IInv, ReadyConsistent, TypeOK, Elements
    <3>3. Box!Take(Head(order))
      BY <2>3, <3>2 DEF HandOut, IInv, ReadyConsistent, Box!Take
    <3> QED
      BY <3>2, <3>3 DEF Box!Next
  <2>4. ASSUME NEW k \in Keys, Done(k)
        PROVE  Box!Next
    <3>1. Box!Finish(k)
      BY <2>4 DEF Done, Box!Finish
    <3> QED
      BY <3>1 DEF Box!Next
  <2>5. CASE Tick
    <3>1. \A d \in delayed : /\ [d EXCEPT !.left = Down(@)].key = d.key
                             /\ [d EXCEPT !.left = Down(@)].event = d.event
      BY DEF IInv, TypeOK
    <3>2. delayed' = {[d EXCEPT !.left = Down(@)] : d \in delayed}
      BY <2>5 DEF Tick
    <3> HIDE DEF Down
    <3>3. Kept(delayed') = Kept(delayed)
      <4>1. ASSUME NEW d \in delayed' PROVE [key |-> d.key, event |-> d.event] \in Kept(delayed)
        BY <3>1, <3>2 DEF Kept
      <4>2. ASSUME NEW d \in delayed PROVE [key |-> d.key, event |-> d.event] \in Kept(delayed')
        <5>1. [d EXCEPT !.left = Down(@)] \in delayed'
          BY <3>2
        <5> QED
          BY <3>1, <5>1 DEF Kept
      <4> QED
        BY <4>1, <4>2 DEF Kept
    <3> QED
      BY <2>5, <3>3 DEF Tick, Box!vars, Kept
  <2>6. ASSUME \/ \E k \in Keys : Forget(k)
               \/ CallGet
               \/ \E k \in Keys : DrainWindow(k)
               \/ ClearWakeup \/ Recheck \/ Wake \/ UNCHANGED qvars
        PROVE  UNCHANGED Box!vars
    <3>1. UNCHANGED <<pending, processing, delayed>>
      BY <2>6 DEF Forget, CallGet, DrainWindow, ClearWakeup, Recheck, Wake, qvars
    <3> QED
      BY <3>1 DEF Box!vars
  <2> QED
    BY <2>1, <2>2, <2>3, <2>4, <2>5, <2>6 DEF Next, Produce, Consume
<1> QED
  BY <1>1, <1>2, InvariantHolds, PTL DEF Spec, ImplementsMailbox, Box!Spec
=============================================================================
