-------------------------- MODULE UsageMeterProofs --------------------------
(***************************************************************************)
(* No row of metered_usage ever holds more seconds than lie between the    *)
(* start of its hour and its settled_until, whatever ticks overtake, for   *)
(* every length of second, hour and grace and every set of shapes.         *)
(***************************************************************************)
EXTENDS UsageMeter, SequenceTheorems, TLAPS

Types == {"to", "left", "deleted"}
Entries == [type : Types, at : Nat, shape : Shapes]
Windows == [shape : Shapes, through : Nat, share : BOOLEAN]
UsageRows == [q : Nat, until : Nat, sealed : BOOLEAN]

(***************************************************************************)
(* What settlement relies on: the times it is given are times, and every   *)
(* row is within its mark.                                                 *)
(***************************************************************************)
MeterInv ==
    /\ now \in Nat
    /\ inst \in [exists : BOOLEAN, metered : BOOLEAN, shape : Shapes]
    /\ log \in Seq(Entries)
    /\ window \in Windows \cup {None}
    /\ detail \in BOOLEAN
    /\ rows \in [Hours -> [Shapes -> UsageRows]]
    /\ RowWithinMark

-----------------------------------------------------------------------------
(***************************************************************************)
(* Whole seconds do not go down as time goes up.                           *)
(***************************************************************************)
LEMMA SecondsGrow ==
    ASSUME NEW x \in Nat, NEW y \in Nat, x <= y
    PROVE  /\ x \div Second \in Nat
           /\ y \div Second \in Nat
           /\ x \div Second <= y \div Second
BY MeterAssumption

(***************************************************************************)
(* An hour begins at a time and ends, Hour later, where the next begins.   *)
(***************************************************************************)
LEMMA HoursAreTimes ==
    ASSUME NEW h \in Hours
    PROVE  /\ h \in Nat
           /\ Begin(h) \in Nat
           /\ Begin(h + 1) \in Nat
           /\ Begin(h + 1) = Begin(h) + Hour
<1>1. h \in Nat
  BY DEF Hours
<1>2. Hour \in Nat
  BY MeterAssumption
<1>3. (h + 1) * Hour = h * Hour + Hour /\ h * Hour \in Nat
  BY <1>1, <1>2
<1> QED
  BY <1>1, <1>2, <1>3 DEF Begin

(***************************************************************************)
(* What a segment of hour h adds to a row within its mark keeps it within  *)
(* its new mark, the end of the segment (_clamped_seconds).                *)
(***************************************************************************)
LEMMA ClampKeepsMark ==
    ASSUME NEW b \in Nat, NEW from \in Nat, NEW to \in Nat, NEW prior \in Nat, NEW q \in Nat,
           b <= from, b <= prior, q <= (prior - b) \div Second, NEW h, Begin(h) = b,
           ClampedSeconds(h, from, to, prior) # 0
    PROVE  /\ ClampedSeconds(h, from, to, prior) \in Nat
           /\ b <= to
           /\ q + ClampedSeconds(h, from, to, prior) <= (to - b) \div Second
<1> DEFINE eff == Later(from, prior)
<1>1. eff \in Nat /\ prior <= eff /\ b <= eff
  BY DEF Later
<1>2. ~(to <= eff)
  BY DEF ClampedSeconds
<1>3. ClampedSeconds(h, from, to, prior) = (to - b) \div Second - (eff - b) \div Second
  BY <1>2 DEF ClampedSeconds
<1>4. /\ to - b \in Nat /\ eff - b \in Nat /\ prior - b \in Nat
      /\ eff - b <= to - b /\ prior - b <= eff - b
  BY <1>1, <1>2
<1>5. /\ (eff - b) \div Second \in Nat /\ (to - b) \div Second \in Nat
      /\ (eff - b) \div Second <= (to - b) \div Second
  BY <1>4, SecondsGrow
<1>6. /\ (prior - b) \div Second \in Nat
      /\ (prior - b) \div Second <= (eff - b) \div Second
  BY <1>4, SecondsGrow
<1> HIDE DEF eff
<1> QED
  BY <1>1, <1>2, <1>3, <1>5, <1>6

(***************************************************************************)
(* _upsert_bucket keeps every row of hour h a row, and within its mark.    *)
(***************************************************************************)
LEMMA UpsertKeepsMark ==
    ASSUME MeterInv, NEW w \in Windows, NEW end \in Nat, NEW h \in Hours
    PROVE  /\ Upsert(w, end, h) \in [Shapes -> UsageRows]
           /\ \A s \in Shapes :
                /\ Upsert(w, end, h)[s].until \in Begin(h) .. Begin(h + 1)
                /\ Upsert(w, end, h)[s].q <= (Upsert(w, end, h)[s].until - Begin(h)) \div Second
<1> DEFINE row == rows[h][w.shape]
           add == Adds(w, end, h)
           new == [q |-> row.q + add, until |-> SegEnd(h, end), sealed |-> FALSE]
<1>1. /\ Begin(h) \in Nat /\ Begin(h + 1) \in Nat
      /\ w.shape \in Shapes /\ w.through \in Nat
  BY HoursAreTimes DEF Windows
<1>2. /\ rows[h] \in [Shapes -> UsageRows]
      /\ \A s \in Shapes : /\ rows[h][s] \in UsageRows
                           /\ rows[h][s].until \in Begin(h) .. Begin(h + 1)
                           /\ rows[h][s].q <= (rows[h][s].until - Begin(h)) \div Second
  BY DEF MeterInv, RowWithinMark
<1>3. CASE row.sealed \/ add = 0
  <2>1. Upsert(w, end, h) = rows[h]
    BY <1>3 DEF Upsert
  <2> QED
    BY <1>2, <2>1
<1>4. CASE ~(row.sealed \/ add = 0)
  <2>1. Upsert(w, end, h) = [rows[h] EXCEPT ![w.shape] = new]
    BY <1>4 DEF Upsert
  <2>2. /\ row.q \in Nat /\ row.until \in Nat /\ Begin(h) <= row.until
        /\ row.q <= (row.until - Begin(h)) \div Second
    BY <1>1, <1>2 DEF UsageRows
  <2>3. /\ SegStart(h, w.through) \in Nat /\ Begin(h) <= SegStart(h, w.through)
        /\ SegEnd(h, end) \in Nat /\ SegEnd(h, end) <= Begin(h + 1)
    BY <1>1 DEF SegStart, SegEnd, Later, Sooner
  <2>4. add = ClampedSeconds(h, SegStart(h, w.through), SegEnd(h, end), row.until)
    BY <1>4 DEF Adds
  <2>5. /\ add \in Nat
        /\ Begin(h) <= SegEnd(h, end)
        /\ row.q + add <= (SegEnd(h, end) - Begin(h)) \div Second
    <3>1. ClampedSeconds(h, SegStart(h, w.through), SegEnd(h, end), row.until) # 0
      BY <1>4, <2>4
    <3> HIDE DEF row, add
    <3> QED
      BY <1>1, <2>2, <2>3, <2>4, <3>1, ClampKeepsMark
  <2>6. /\ new \in UsageRows
        /\ new.until \in Begin(h) .. Begin(h + 1)
        /\ new.q <= (new.until - Begin(h)) \div Second
    <3> HIDE DEF row, add
    <3> QED
      BY <1>1, <2>2, <2>3, <2>5 DEF UsageRows
  <2> HIDE DEF new
  <2> QED
    BY <1>1, <1>2, <2>1, <2>6
<1> QED
  BY <1>3, <1>4

(***************************************************************************)
(* So does the transaction of _settle_locked, for the rows of all hours.   *)
(***************************************************************************)
LEMMA SettleKeepsMark ==
    ASSUME MeterInv, NEW w \in Windows, NEW end \in Nat, Settle(w, end)
    PROVE  rows' \in [Hours -> [Shapes -> UsageRows]] /\ RowWithinMark'
<1>1. CASE w.share
  <2>1. rows' = [h \in Hours |-> Upsert(w, end, h)]
    BY <1>1 DEF Settle
  <2>2. rows' \in [Hours -> [Shapes -> UsageRows]]
    BY <2>1, UpsertKeepsMark
  <2>3. ASSUME NEW h \in Hours, NEW s \in Shapes
        PROVE  /\ rows'[h][s].until \in Begin(h) .. Begin(h + 1)
               /\ rows'[h][s].q <= (rows'[h][s].until - Begin(h)) \div Second
    <3>1. rows'[h] = Upsert(w, end, h)
      BY <2>1
    <3> QED
      BY <3>1, UpsertKeepsMark
  <2> QED
    BY <2>2, <2>3 DEF RowWithinMark
<1>2. CASE ~w.share
  <2>1. rows' = rows
    BY <1>2 DEF Settle
  <2> QED
    BY <2>1 DEF MeterInv, RowWithinMark
<1> QED
  BY <1>1, <1>2

(***************************************************************************)
(* _write_event appends entries to the log.                                *)
(***************************************************************************)
LEMMA WriteExtendsLog ==
    ASSUME MeterInv, NEW types \in Seq(Types), Write(types)
    PROVE  log' \in Seq(Entries)
<1> DEFINE written == [k \in DOMAIN types |-> [type |-> types[k], at |-> now, shape |-> inst.shape]]
<1>1. log' = log \o written
  BY DEF Write
<1>2. \A k \in 1 .. Len(types) : [type |-> types[k], at |-> now, shape |-> inst.shape] \in Entries
  BY DEF MeterInv, Entries
<1>3. written \in Seq(Entries)
  BY <1>2
<1>4. log \in Seq(Entries)
  BY DEF MeterInv
<1> HIDE DEF written
<1> QED
  BY <1>1, <1>3, <1>4

(***************************************************************************)
(* A new window is a window, and so is one resumed where the rows end.     *)
(***************************************************************************)
LEMMA OpenedIsWindow ==
    ASSUME MeterInv, NEW e \in Entries
    PROVE  OpenWindow(e) \in Windows
BY DEF MeterInv, Entries, Windows, OpenWindow

LEMMA ResumedIsWindow ==
    ASSUME MeterInv, NEW w \in Windows, Resumed(w)
    PROVE  window' \in Windows
<1>1. PICK mark \in Marks : window' = [w EXCEPT !.through = Later(w.through, mark)]
  BY DEF Resumed
<1>2. mark \in Nat
  BY <1>1 DEF Marks, MeterInv, UsageRows
<1>3. Later(w.through, mark) \in Nat
  BY <1>2 DEF Later, Windows
<1> QED
  BY <1>1, <1>3 DEF Windows

-----------------------------------------------------------------------------
(***************************************************************************)
(* The rows start empty.                                                   *)
(***************************************************************************)
LEMMA InitMeter == Init => MeterInv
<1> SUFFICES ASSUME Init PROVE MeterInv
  OBVIOUS
<1>1. \A h \in Hours : /\ NoRow(h) \in UsageRows
                       /\ NoRow(h).until \in Begin(h) .. Begin(h + 1)
                       /\ NoRow(h).q <= (NoRow(h).until - Begin(h)) \div Second
  <2> TAKE h \in Hours
  <2>1. Begin(h) \in Nat /\ Begin(h + 1) \in Nat /\ Begin(h + 1) = Begin(h) + Hour /\ Hour \in Nat
    BY HoursAreTimes, MeterAssumption
  <2>2. 0 <= (Begin(h) - Begin(h)) \div Second
    BY <2>1, MeterAssumption
  <2> QED
    BY <2>1, <2>2 DEF NoRow, UsageRows
<1>2. /\ rows \in [Hours -> [Shapes -> UsageRows]]
      /\ \A h \in Hours, s \in Shapes : rows[h][s] = NoRow(h)
  BY <1>1 DEF Init
<1>3. RowWithinMark
  BY <1>1, <1>2 DEF RowWithinMark
<1>4. inst \in [exists : BOOLEAN, metered : BOOLEAN, shape : Shapes]
  <2>1. inst \in [exists : {TRUE}, metered : {FALSE}, shape : Shapes]
    BY DEF Init
  <2> QED
    BY <2>1
<1>5. /\ now \in Nat
      /\ log \in Seq(Entries)
      /\ window \in Windows \cup {None}
  BY DEF Init
<1>6. detail \in BOOLEAN
  BY Zenon DEF Init
<1> QED
  BY <1>2, <1>3, <1>4, <1>5, <1>6 DEF MeterInv

(***************************************************************************)
(* Steps that leave the rows, the window and the log alone.                *)
(***************************************************************************)
LEMMA OtherStepsKeepMeter ==
    ASSUME MeterInv, UNCHANGED <<log, window, rows>>,
           now' \in Nat, detail' \in BOOLEAN,
           inst' \in [exists : BOOLEAN, metered : BOOLEAN, shape : Shapes]
    PROVE  MeterInv'
BY DEF MeterInv, RowWithinMark

(***************************************************************************)
(* Every step keeps the rows within their marks.                           *)
(***************************************************************************)
LEMMA NextMeter == MeterInv /\ [Next]_mvars => MeterInv'
<1> SUFFICES ASSUME MeterInv, [Next]_mvars PROVE MeterInv'
  OBVIOUS
<1>0. /\ now \in Nat /\ detail \in BOOLEAN /\ log \in Seq(Entries)
      /\ inst \in [exists : BOOLEAN, metered : BOOLEAN, shape : Shapes]
      /\ window \in Windows \cup {None}
      /\ rows \in [Hours -> [Shapes -> UsageRows]]
      /\ RowWithinMark
  BY DEF MeterInv
<1>1. CASE \E s \in Shapes : Runs(s)
  <2> PICK s \in Shapes : Runs(s)
    BY <1>1
  <2> QED
    BY <1>0, OtherStepsKeepMeter DEF Runs, collecting
<1>2. CASE Stops \/ Deleted
  BY <1>0, <1>2, OtherStepsKeepMeter DEF Stops, Deleted, collecting
<1>3. CASE Backfill
  BY <1>0, <1>3, OtherStepsKeepMeter DEF Backfill, collecting, instance
<1>4. CASE TimePasses
  BY <1>0, <1>4, OtherStepsKeepMeter DEF TimePasses, collecting, instance
<1>5. CASE StartLogger
  BY <1>0, <1>5, OtherStepsKeepMeter DEF StartLogger, collecting, instance
<1>6. CASE HandleInstance \/ HandleInstanceFails
  <2>1. Due \in Seq(Types)
    <3>1. /\ <<>> \in Seq(Types) /\ <<"left">> \in Seq(Types)
          /\ <<"to">> \in Seq(Types) /\ <<"deleted">> \in Seq(Types)
      BY DEF Types
    <3>2. (IF guard THEN <<"left">> ELSE <<>>) \o <<"deleted">> \in Seq(Types)
      <4>1. (IF guard THEN <<"left">> ELSE <<>>) \in Seq(Types)
        BY <3>1
      <4> QED
        BY <3>1, <4>1, ConcatProperties
    <3> QED
      BY <3>1, <3>2, Zenon DEF Due
  <2>2. \E types \in Seq(Types) : Write(types)
    <3>1. CASE HandleInstance
      BY <2>1, <3>1 DEF HandleInstance
    <3>2. CASE HandleInstanceFails
      <4>1. PICK n \in 0 .. Len(Due) - 1 : Write(SubSeq(Due, 1, n))
        BY <3>2 DEF HandleInstanceFails
      <4>2. SubSeq(Due, 1, n) \in Seq(Types)
        BY <2>1, <4>1
      <4> QED
        BY <4>1, <4>2
    <3> QED
      BY <1>6, <3>1, <3>2
  <2>3. log' \in Seq(Entries)
    BY <2>2, WriteExtendsLog
  <2>4. UNCHANGED <<now, inst, window, rows, detail>>
    BY <1>6 DEF HandleInstance, HandleInstanceFails, collecting, instance
  <2> QED
    BY <1>0, <2>3, <2>4 DEF MeterInv, RowWithinMark
<1>7. CASE Reconcile
  <2>1. window' \in Windows \cup {None}
    <3>1. CASE LogsMetered /\ Resumed(OpenWindow(Last(log)))
      <4>1. Last(log) \in Entries
        BY <1>0, <3>1 DEF LogsMetered, Last
      <4> QED
        BY <3>1, <4>1, OpenedIsWindow, ResumedIsWindow
    <3>2. CASE UNCHANGED window
      BY <1>0, <3>2
    <3>3. CASE LogsMetered /\ window' = OpenWindow(Last(log))
      <4>1. Last(log) \in Entries
        BY <1>0, <3>3 DEF LogsMetered, Last
      <4> QED
        BY <3>3, <4>1, OpenedIsWindow
    <3> QED
      BY <1>7, <3>1, <3>2, <3>3 DEF Reconcile
  <2>2. UNCHANGED <<now, inst, log, rows, detail>>
    BY <1>7 DEF Reconcile, instance
  <2> QED
    BY <1>0, <2>1, <2>2 DEF MeterInv, RowWithinMark
<1>8. CASE Subscribe \/ Snapshot \/ SealFails
  BY <1>0, <1>8, OtherStepsKeepMeter DEF Subscribe, Snapshot, SealFails, instance
<1>9. CASE \E e \in ToSet(log) : HandleOpen(e) \/ HandleClose(e) \/ HandleFails(e)
  <2>1. PICK e \in ToSet(log) : HandleOpen(e) \/ HandleClose(e) \/ HandleFails(e)
    BY <1>9
  <2>2. e \in Entries /\ e.at \in Nat
    <3>1. PICK i \in DOMAIN log : e = log[i]
      BY DEF ToSet
    <3>2. e \in Entries
      BY <1>0, <3>1
    <3> QED
      BY <3>2 DEF Entries
  <2>3. UNCHANGED <<now, inst, log, detail>>
    BY <2>1 DEF HandleOpen, HandleClose, HandleFails, instance
  <2>4. CASE HandleOpen(e)
    <3>1. window' \in Windows /\ rows' = rows
      BY <2>2, <2>4, OpenedIsWindow DEF HandleOpen
    <3> QED
      BY <1>0, <2>3, <3>1 DEF MeterInv, RowWithinMark
  <2>5. CASE HandleClose(e)
    <3>1. window' = None
      BY <2>5 DEF HandleClose
    <3>2. rows' \in [Hours -> [Shapes -> UsageRows]] /\ RowWithinMark'
      <4>1. CASE rows' = rows
        BY <1>0, <4>1 DEF RowWithinMark
      <4>2. CASE window # None /\ Settle(window, e.at)
        BY <1>0, <2>2, <4>2, SettleKeepsMark
      <4> QED
        BY <2>5, <4>1, <4>2 DEF HandleClose
    <3> QED
      BY <1>0, <2>3, <3>1, <3>2 DEF MeterInv
  <2>6. CASE HandleFails(e)
    <3>1. window' \in Windows \cup {None} /\ rows' = rows
      BY <1>0, <2>6 DEF HandleFails
    <3> QED
      BY <1>0, <2>3, <3>1 DEF MeterInv, RowWithinMark
  <2> QED
    BY <2>1, <2>4, <2>5, <2>6
<1>10. CASE Tick
  <2> DEFINE w == [window EXCEPT !.share = @ \/ detail]
  <2>1. UNCHANGED <<now, inst, log, detail>>
    BY <1>10 DEF Tick, instance
  <2>2. CASE UNCHANGED <<window, rows>>
    BY <1>0, <2>1, <2>2 DEF MeterInv, RowWithinMark
  <2>3. CASE /\ window # None
             /\ Settle(w, now)
             /\ window' = IF w.share THEN [w EXCEPT !.through = Later(@, now)] ELSE w
    <3>1. w \in Windows
      BY <1>0, <2>3 DEF Windows
    <3> HIDE DEF w
    <3>2. rows' \in [Hours -> [Shapes -> UsageRows]] /\ RowWithinMark'
      BY <1>0, <2>3, <3>1, SettleKeepsMark
    <3>3. Later(w.through, now) \in Nat
      BY <1>0, <3>1 DEF Windows, Later
    <3>4. window' \in Windows
      BY <2>3, <3>1, <3>3 DEF Windows
    <3> QED
      BY <1>0, <2>1, <3>2, <3>4 DEF MeterInv
  <2> QED
    BY <1>10, <2>2, <2>3 DEF Tick
<1>11. CASE Seal
  <2>1. UNCHANGED <<now, inst, log, window, detail>>
    BY <1>11 DEF Seal, instance
  <2> DEFINE seals(h, s) == rows[h][s].sealed \/ (rows[h][s].q > 0 /\ Begin(h + 1) + Grace <= sealing)
  <2>2. rows' = [h \in Hours |-> [s \in Shapes |-> [rows[h][s] EXCEPT !.sealed = seals(h, s)]]]
    BY <1>11 DEF Seal
  <2>3. \A h \in Hours, s \in Shapes : seals(h, s) \in BOOLEAN
    <3> TAKE h \in Hours, s \in Shapes
    <3>1. rows[h][s].sealed \in BOOLEAN
      BY <1>0 DEF UsageRows
    <3> QED
      BY <3>1, Zenon
  <2> HIDE DEF seals
  <2>4. \A h \in Hours, s \in Shapes :
            /\ [rows[h][s] EXCEPT !.sealed = seals(h, s)] \in UsageRows
            /\ rows'[h][s].q = rows[h][s].q
            /\ rows'[h][s].until = rows[h][s].until
    <3> TAKE h \in Hours, s \in Shapes
    <3>1. rows[h][s] \in UsageRows
      BY <1>0
    <3>2. rows'[h][s] = [rows[h][s] EXCEPT !.sealed = seals(h, s)]
      BY <2>2
    <3> QED
      BY <2>3, <3>1, <3>2 DEF UsageRows
  <2>5. rows' \in [Hours -> [Shapes -> UsageRows]]
    BY <2>2, <2>4
  <2>6. RowWithinMark'
    BY <1>0, <2>4 DEF RowWithinMark
  <2> QED
    BY <1>0, <2>1, <2>5, <2>6 DEF MeterInv
<1>12. CASE Restart
  <2>1. UNCHANGED <<now, inst, log, rows, detail>> /\ window' = None
    BY <1>12 DEF Restart, instance
  <2> QED
    BY <1>0, <2>1 DEF MeterInv, RowWithinMark
<1>13. CASE UNCHANGED mvars
  BY <1>0, <1>13, OtherStepsKeepMeter DEF mvars, collecting, instance
<1> QED
  BY <1>1, <1>2, <1>3, <1>4, <1>5, <1>6, <1>7, <1>8, <1>9, <1>10, <1>11, <1>12, <1>13 DEF Next

(***************************************************************************)
(* RowWithinMark holds always, for every Second, Hour, Grace and Shapes    *)
(* and whatever a tick overtakes: a row never holds more seconds than lie  *)
(* between the start of its hour and its settled_until, however often      *)
(* _settle_locked covers the same time.                                    *)
(***************************************************************************)
THEOREM RowsStayWithinMarks == Spec => []RowWithinMark
<1>1. MeterInv => RowWithinMark
  BY DEF MeterInv
<1> QED
  BY <1>1, InitMeter, NextMeter, PTL DEF Spec
=============================================================================
