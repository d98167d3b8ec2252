----------------------- MODULE ProtectedWork_proofs -----------------------
(***************************************************************************)
(* For every bound: the reservation of the participant is exact, nothing   *)
(* late undoes an end, protected work implements ParticipantAbsence, a     *)
(* working executor keeps the participant away, and assessments are        *)
(* bounded.  All rest on one invariant about copies: what an activity read *)
(* of the record is the record itself as long as the revision is the same, *)
(* so an accepted write starts from the present.  The refinement adds an   *)
(* invariant about where the report can be at each place of a return, the  *)
(* fence one about the job that a late cancellation finds, and the bound   *)
(* one about the attempt that is counted before its assessment is made.    *)
(***************************************************************************)
EXTENDS ProtectedWork, TLAPS

Records == [rev : Nat, phase : Phases, stopped : BOOLEAN, package : Packages,
            attempts : Nat, report : Nat, text : BOOLEAN,
            disposition : {"none", "delivered", "no-update"}]

First == [NoRecord EXCEPT !.rev = 1, !.phase = "queued"]

Live(r) == r.phase \notin {"none", "available"} /\ r.rev >= 1

\* q is a copy of c, or of what c was before.
Copy(q, c) == q \in Records /\ q.rev <= c.rev /\ (q.rev = c.rev => q = c)

RecordOK ==
    /\ rec \in Records
    /\ rec.rev = 0 => rec = NoRecord
    /\ rec.rev = 1 => rec = First
    /\ rec.rev >= 1 => rec.phase # "none"
    /\ rec.stopped <=> rec.package # "absent"

BeforePackage == {"authority", "cancel", "cancelling", "confirm", "package"}

TickShape(t) == t = [pc |-> t.pc, rec |-> t.rec, job |-> t.job, rev |-> t.rev,
                     tries |-> t.tries, cursor |-> t.cursor, text |-> t.text]

TickOK ==
    /\ TickShape(tick) /\ tick.cursor \in Nat /\ tick.text \in BOOLEAN /\ cursor \in Nat
    /\ Copy(tick.rec, rec)
    /\ tick.pc # "idle" => Live(tick.rec)
    /\ tick.pc \in BeforePackage => tick.rec.package = "absent"

ActShape(a) == a = [pc |-> a.pc, rec |-> a.rec, rev |-> a.rev, disposition |-> a.disposition]

ActOK ==
    /\ ActShape(act) /\ act.disposition \in {"none", "delivered", "no-update"}
    /\ Copy(act.rec, rec)
    /\ act.pc # "idle" => Live(act.rec)

StartOK ==
    /\ start = "claimed" => rec.rev = 0
    /\ start \in {"saved", "requested", "rejected"} => rec.rev >= 1

IInv == RecordOK /\ TickOK /\ ActOK /\ StartOK /\ reserved \in BOOLEAN /\ ReservationExact

-----------------------------------------------------------------------------
(* What a step does to the record. *)

\* An accepted write of an outstanding record.
Amended ==
    /\ Outstanding /\ rec' \in Records /\ rec'.rev = rec.rev + 1 /\ rec'.phase # "none"
    /\ rec'.stopped <=> rec'.package # "absent"
    /\ rec.stopped => rec'.stopped /\ rec'.package = rec.package

Admitted == rec = NoRecord /\ rec' = First

Advance == rec' = rec \/ Amended \/ Admitted

\* What an activity may do to the record and to the reservation.
Orderly == Advance /\ reserved' \in BOOLEAN /\ ReservationExact' /\ StartOK'

\* A step against NothingUndone, or one that takes the record away.
Undoes == ~ (/\ rec.phase = "available" => rec' = rec
             /\ rec.stopped => rec'.stopped /\ rec'.package = rec.package
             /\ rec.rev # 0 => rec'.rev # 0)

-----------------------------------------------------------------------------
(* Records. *)

\* The fields of a record.
LEMMA RecordFields ==
  ASSUME NEW r \in Records
  PROVE  /\ r.rev \in Nat /\ r.phase \in Phases /\ r.stopped \in BOOLEAN
         /\ r.package \in Packages /\ r.attempts \in Nat /\ r.report \in Nat
         /\ r.text \in BOOLEAN
BY DEF Records

\* The fields of the empty record.
LEMMA NoRecordFields ==
  /\ NoRecord \in Records /\ NoRecord.rev = 0 /\ NoRecord.phase = "none"
  /\ NoRecord.stopped = FALSE /\ NoRecord.package = "absent"
BY DEF NoRecord, Records, None, Phases, Packages

\* The fields of the first record.
LEMMA FirstFields ==
  /\ First \in Records /\ First.rev = 1 /\ First.phase = "queued"
  /\ First.stopped = FALSE /\ First.package = "absent"
BY DEF First, NoRecord, Records, None, Phases, Packages

\* The record with another phase, and what stays of it.
LEMMA WithPhase ==
  ASSUME NEW r \in Records, NEW p \in Phases
  PROVE  LET new == [r EXCEPT !.phase = p]
         IN /\ new \in Records /\ new.phase = p /\ new.rev = r.rev
            /\ new.stopped = r.stopped /\ new.package = r.package
BY DEF Records

\* The record at another revision, and what stays of it.
LEMMA WithRev ==
  ASSUME NEW r \in Records, NEW n \in Nat
  PROVE  LET new == [r EXCEPT !.rev = n]
         IN /\ new \in Records /\ new.rev = n /\ new.phase = r.phase
            /\ new.stopped = r.stopped /\ new.package = r.package
BY DEF Records

-----------------------------------------------------------------------------
(* Advancing. *)

\* A record that advances stays a record, and undoes nothing.
LEMMA AdvanceRecord ==
  ASSUME RecordOK, Advance
  PROVE  RecordOK' /\ ~Undoes
<1>1. CASE rec' = rec
  BY <1>1 DEF RecordOK, Undoes
<1>2. CASE Amended
  <2>1. rec.rev \in Nat /\ rec.rev # 0
    BY <1>2, RecordFields, NoRecordFields DEF RecordOK, Amended, Outstanding
  <2>2. rec'.rev \notin {0, 1}
    BY <1>2, <2>1 DEF Amended
  <2> QED BY <1>2, <2>2 DEF RecordOK, Undoes, Amended, Outstanding
<1>3. CASE Admitted
  BY <1>3, NoRecordFields, FirstFields DEF RecordOK, Undoes, Admitted
<1> QED BY <1>1, <1>2, <1>3 DEF Advance

\* Copies stay copies.
LEMMA AdvanceCopy ==
  ASSUME RecordOK, Advance, NEW q, Copy(q, rec)
  PROVE  Copy(q, rec')
<1>1. q.rev \in Nat /\ rec.rev \in Nat
  BY RecordFields DEF Copy, RecordOK
<1>2. CASE rec' = rec
  BY <1>2
<1>3. CASE rec' # rec
  <2>1. rec'.rev = rec.rev + 1
    BY <1>3, NoRecordFields, FirstFields DEF Advance, Amended, Admitted
  <2>2. q.rev <= rec'.rev /\ q.rev # rec'.rev
    BY <1>1, <2>1 DEF Copy
  <2> QED BY <2>2 DEF Copy
<1> QED BY <1>2, <1>3

\* A fresh copy is the record.
LEMMA FreshCopy ==
  ASSUME NEW q, Copy(q, rec), Fresh(q)
  PROVE  q = rec
BY DEF Copy, Fresh

\* A live copy is of a record that exists, and nobody is being admitted.
LEMMA LiveCopy ==
  ASSUME RecordOK, StartOK, NEW q, Copy(q, rec), Live(q)
  PROVE  rec.rev >= 1 /\ start # "claimed"
<1>1. q.rev \in Nat /\ rec.rev \in Nat
  BY RecordFields DEF Copy, RecordOK
<1> QED BY <1>1 DEF Copy, Live, StartOK

-----------------------------------------------------------------------------
(* Writes. *)

\* Leaving record and reservation alone.
LEMMA KeepOrderly ==
  ASSUME IInv, UNCHANGED <<rec, reserved>>, start' = start
  PROVE  Orderly
BY DEF IInv, Orderly, Advance, ReservationExact, Outstanding, StartOK

\* An accepted write moves the record on.
LEMMA FreshAmends ==
  ASSUME IInv, NEW r, Copy(r, rec), Live(r), Fresh(r),
         NEW new \in Records, new.phase # "none",
         (r.stopped <=> r.package # "absent") => (new.stopped <=> new.package # "absent"),
         r.stopped => new.stopped /\ new.package = r.package,
         rec' = Write(r, new)
  PROVE  Amended /\ rec'.phase = new.phase /\ r = rec
<1>1. r = rec /\ rec.rev \in Nat /\ rec.rev + 1 \in Nat
  BY FreshCopy, RecordFields DEF IInv, RecordOK
<1>2. rec' = [new EXCEPT !.rev = rec.rev + 1]
  BY <1>1 DEF Write
<1>3. /\ rec' \in Records /\ rec'.rev = rec.rev + 1 /\ rec'.phase = new.phase
      /\ rec'.stopped = new.stopped /\ rec'.package = new.package
  BY <1>1, <1>2, WithRev, RecordFields DEF Records
<1>4. rec.stopped <=> rec.package # "absent"
  BY DEF IInv, RecordOK
<1> QED BY <1>1, <1>3, <1>4 DEF Amended, Outstanding, Live

\* A patch with the compare-and-set is orderly.
LEMMA PatchOrderly ==
  ASSUME IInv, NEW r, Copy(r, rec), Live(r),
         NEW new \in Records, new.phase \notin {"none", "available"},
         (r.stopped <=> r.package # "absent") => (new.stopped <=> new.package # "absent"),
         r.stopped => new.stopped /\ new.package = r.package,
         Patch(r, new), start' = start
  PROVE  Orderly /\ (Fresh(r) => Live(rec'))
<1>1. rec' = Write(r, new) /\ reserved' = reserved
  BY DEF Patch
<1>2. CASE ~Fresh(r)
  BY <1>1, <1>2, KeepOrderly DEF Write
<1>3. CASE Fresh(r)
  <2>1. Amended /\ rec'.phase = new.phase /\ r = rec
    BY <1>1, <1>3, FreshAmends
  <2>2. rec.rev \in Nat /\ rec.rev >= 1 /\ start # "claimed"
    BY <2>1, LiveCopy, RecordFields DEF IInv, RecordOK
  <2>3. rec'.rev >= 1
    BY <2>1, <2>2 DEF Amended
  <2> QED BY <1>1, <2>1, <2>2, <2>3
          DEF IInv, Orderly, Advance, ReservationExact, Outstanding, StartOK, Live
<1> QED BY <1>2, <1>3

\* Closing with the compare-and-set is orderly.
LEMMA CloseOrderly ==
  ASSUME IInv, NEW r, Copy(r, rec), Live(r), r \in Records,
         NEW d \in {"none", "delivered", "no-update"},
         Close(r, d), start' = start \/ start' = "idle"
  PROVE  Orderly
<1> DEFINE new == [r EXCEPT !.phase = "available", !.disposition = d]
<1>1. /\ new \in Records /\ new.phase = "available"
      /\ new.stopped = r.stopped /\ new.package = r.package
  BY DEF Records, Phases
<1>2. rec' = Write(r, new) /\ reserved' = IF Fresh(r) THEN FALSE ELSE reserved
  BY DEF Close
<1> HIDE DEF new
<1>3. rec.rev >= 1 /\ start # "claimed" /\ rec.rev \in Nat
  BY LiveCopy, RecordFields DEF IInv, RecordOK
<1>4. CASE ~Fresh(r)
  BY <1>2, <1>3, <1>4
     DEF Write, IInv, Orderly, Advance, ReservationExact, Outstanding, StartOK
<1>5. CASE Fresh(r)
  <2>1. Amended /\ rec'.phase = "available"
    BY <1>1, <1>2, <1>5, FreshAmends
  <2>2. rec'.rev >= 1
    BY <2>1, <1>3 DEF Amended
  <2> QED BY <1>2, <1>3, <1>5, <2>1, <2>2
          DEF IInv, Orderly, Advance, ReservationExact, Outstanding, StartOK
<1> QED BY <1>4, <1>5

\* Patching only the phase.
LEMMA PhasePatch ==
  ASSUME IInv, NEW r \in Records, Copy(r, rec), Live(r),
         NEW p \in Phases \ {"none", "available"},
         Patch(r, [r EXCEPT !.phase = p]), start' = start
  PROVE  Orderly
<1> DEFINE new == [r EXCEPT !.phase = p]
<1>1. /\ new \in Records /\ new.phase = p /\ new.stopped = r.stopped /\ new.package = r.package
  BY WithPhase
<1>2. Patch(r, new)
  OBVIOUS
<1> HIDE DEF new
<1> QED BY <1>1, <1>2, PatchOrderly

-----------------------------------------------------------------------------
(* The places of the activities. *)

\* The fields of a tick that the invariant is about.
TickIs(t, pc, r, c, text) ==
    TickShape(t) /\ t.pc = pc /\ t.rec = r /\ t.cursor = c /\ t.text = text

\* Setting one field, or two.
LEMMA TickSetOne ==
  ASSUME NEW t, TickShape(t), NEW v
  PROVE  /\ TickIs([t EXCEPT !.pc = v], v, t.rec, t.cursor, t.text)
         /\ TickIs([t EXCEPT !.rec = v], t.pc, v, t.cursor, t.text)
         /\ TickIs([t EXCEPT !.job = v], t.pc, t.rec, t.cursor, t.text)
         /\ TickIs([t EXCEPT !.rev = v], t.pc, t.rec, t.cursor, t.text)
         /\ TickIs([t EXCEPT !.tries = v], t.pc, t.rec, t.cursor, t.text)
         /\ TickIs([t EXCEPT !.cursor = v], t.pc, t.rec, v, t.text)
         /\ TickIs([t EXCEPT !.text = v], t.pc, t.rec, t.cursor, v)
<1>1. TickIs([t EXCEPT !.pc = v], v, t.rec, t.cursor, t.text)
  BY DEF TickIs, TickShape
<1>2. TickIs([t EXCEPT !.rec = v], t.pc, v, t.cursor, t.text)
  BY DEF TickIs, TickShape
<1>3. TickIs([t EXCEPT !.job = v], t.pc, t.rec, t.cursor, t.text)
  BY DEF TickIs, TickShape
<1>4. TickIs([t EXCEPT !.rev = v], t.pc, t.rec, t.cursor, t.text)
  BY DEF TickIs, TickShape
<1>5. TickIs([t EXCEPT !.tries = v], t.pc, t.rec, t.cursor, t.text)
  BY DEF TickIs, TickShape
<1>6. TickIs([t EXCEPT !.cursor = v], t.pc, t.rec, v, t.text)
  BY DEF TickIs, TickShape
<1>7. TickIs([t EXCEPT !.text = v], t.pc, t.rec, t.cursor, v)
  BY DEF TickIs, TickShape
<1> QED BY <1>1, <1>2, <1>3, <1>4, <1>5, <1>6, <1>7

\* Two fields of a tick written at once.
LEMMA TickSetTwo ==
  ASSUME NEW t, TickShape(t), NEW v, NEW w
  PROVE  /\ TickIs([t EXCEPT !.job = v, !.pc = w], w, t.rec, t.cursor, t.text)
         /\ TickIs([t EXCEPT !.pc = v, !.tries = w], v, t.rec, t.cursor, t.text)
         /\ TickIs([t EXCEPT !.pc = v, !.rec = w], v, w, t.cursor, t.text)
         /\ TickIs([t EXCEPT !.rec = v, !.pc = w], w, v, t.cursor, t.text)
         /\ TickIs([t EXCEPT !.pc = v, !.rev = w], v, t.rec, t.cursor, t.text)
         /\ TickIs([t EXCEPT !.pc = v, !.cursor = w], v, t.rec, w, t.text)
         /\ TickIs([t EXCEPT !.pc = v, !.text = w], v, t.rec, t.cursor, w)
<1>1. TickIs([t EXCEPT !.job = v, !.pc = w], w, t.rec, t.cursor, t.text)
  <2> DEFINE m == [t EXCEPT !.job = v]
  <2>1. TickIs(m, t.pc, t.rec, t.cursor, t.text)
    BY TickSetOne
  <2>2. [t EXCEPT !.job = v, !.pc = w] = [m EXCEPT !.pc = w]
    OBVIOUS
  <2> HIDE DEF m
  <2>3. TickIs([m EXCEPT !.pc = w], w, m.rec, m.cursor, m.text)
    <3>1. TickShape(m) BY <2>1 DEF TickIs
    <3> QED BY <3>1, TickSetOne
  <2> QED BY <2>1, <2>2, <2>3 DEF TickIs
<1>2. TickIs([t EXCEPT !.pc = v, !.tries = w], v, t.rec, t.cursor, t.text)
  <2> DEFINE m == [t EXCEPT !.pc = v]
  <2>1. TickIs(m, v, t.rec, t.cursor, t.text)
    BY TickSetOne
  <2>2. [t EXCEPT !.pc = v, !.tries = w] = [m EXCEPT !.tries = w]
    OBVIOUS
  <2> HIDE DEF m
  <2>3. TickIs([m EXCEPT !.tries = w], m.pc, m.rec, m.cursor, m.text)
    <3>1. TickShape(m) BY <2>1 DEF TickIs
    <3> QED BY <3>1, TickSetOne
  <2> QED BY <2>1, <2>2, <2>3 DEF TickIs
<1>3. TickIs([t EXCEPT !.pc = v, !.rec = w], v, w, t.cursor, t.text)
  <2> DEFINE m == [t EXCEPT !.pc = v]
  <2>1. TickIs(m, v, t.rec, t.cursor, t.text)
    BY TickSetOne
  <2>2. [t EXCEPT !.pc = v, !.rec = w] = [m EXCEPT !.rec = w]
    OBVIOUS
  <2> HIDE DEF m
  <2>3. TickIs([m EXCEPT !.rec = w], m.pc, w, m.cursor, m.text)
    <3>1. TickShape(m) BY <2>1 DEF TickIs
    <3> QED BY <3>1, TickSetOne
  <2> QED BY <2>1, <2>2, <2>3 DEF TickIs
<1>4. TickIs([t EXCEPT !.rec = v, !.pc = w], w, v, t.cursor, t.text)
  <2> DEFINE m == [t EXCEPT !.rec = v]
  <2>1. TickIs(m, t.pc, v, t.cursor, t.text)
    BY TickSetOne
  <2>2. [t EXCEPT !.rec = v, !.pc = w] = [m EXCEPT !.pc = w]
    OBVIOUS
  <2> HIDE DEF m
  <2>3. TickIs([m EXCEPT !.pc = w], w, m.rec, m.cursor, m.text)
    <3>1. TickShape(m) BY <2>1 DEF TickIs
    <3> QED BY <3>1, TickSetOne
  <2> QED BY <2>1, <2>2, <2>3 DEF TickIs
<1>5. TickIs([t EXCEPT !.pc = v, !.rev = w], v, t.rec, t.cursor, t.text)
  <2> DEFINE m == [t EXCEPT !.pc = v]
  <2>1. TickIs(m, v, t.rec, t.cursor, t.text)
    BY TickSetOne
  <2>2. [t EXCEPT !.pc = v, !.rev = w] = [m EXCEPT !.rev = w]
    OBVIOUS
  <2> HIDE DEF m
  <2>3. TickIs([m EXCEPT !.rev = w], m.pc, m.rec, m.cursor, m.text)
    <3>1. TickShape(m) BY <2>1 DEF TickIs
    <3> QED BY <3>1, TickSetOne
  <2> QED BY <2>1, <2>2, <2>3 DEF TickIs
<1>6. TickIs([t EXCEPT !.pc = v, !.cursor = w], v, t.rec, w, t.text)
  <2> DEFINE m == [t EXCEPT !.pc = v]
  <2>1. TickIs(m, v, t.rec, t.cursor, t.text)
    BY TickSetOne
  <2>2. [t EXCEPT !.pc = v, !.cursor = w] = [m EXCEPT !.cursor = w]
    OBVIOUS
  <2> HIDE DEF m
  <2>3. TickIs([m EXCEPT !.cursor = w], m.pc, m.rec, w, m.text)
    <3>1. TickShape(m) BY <2>1 DEF TickIs
    <3> QED BY <3>1, TickSetOne
  <2> QED BY <2>1, <2>2, <2>3 DEF TickIs
<1>7. TickIs([t EXCEPT !.pc = v, !.text = w], v, t.rec, t.cursor, w)
  <2> DEFINE m == [t EXCEPT !.pc = v]
  <2>1. TickIs(m, v, t.rec, t.cursor, t.text)
    BY TickSetOne
  <2>2. [t EXCEPT !.pc = v, !.text = w] = [m EXCEPT !.text = w]
    OBVIOUS
  <2> HIDE DEF m
  <2>3. TickIs([m EXCEPT !.text = w], m.pc, m.rec, m.cursor, w)
    <3>1. TickShape(m) BY <2>1 DEF TickIs
    <3> QED BY <3>1, TickSetOne
  <2> QED BY <2>1, <2>2, <2>3 DEF TickIs
<1> QED BY <1>1, <1>2, <1>3, <1>4, <1>5, <1>6, <1>7

\* A tick that is over is in order.
LEMMA TickRests ==
  ASSUME RecordOK, Advance, cursor' \in Nat, tick' = TickIdle
  PROVE  TickOK'
<1>1. RecordOK' BY AdvanceRecord
<1>2. /\ TickIdle.pc = "idle" /\ TickIdle.rec = NoRecord /\ TickIdle.cursor = 0
      /\ TickIdle.text \in BOOLEAN /\ TickIdle.cursor \in Nat /\ TickShape(TickIdle)
  BY DEF TickIdle, TickShape, None
<1>3. rec'.rev \in Nat /\ (rec'.rev = 0 => rec' = NoRecord)
  BY <1>1, RecordFields DEF RecordOK
<1>4. Copy(NoRecord, rec')
  BY <1>3, NoRecordFields DEF Copy
<1>5. TickShape(tick)' /\ Copy(tick.rec, rec)'
  BY <1>2, <1>4 DEF TickShape
<1>6. /\ tick'.cursor \in Nat /\ tick'.text \in BOOLEAN /\ tick'.pc = "idle"
  BY <1>2
<1> QED BY <1>5, <1>6 DEF TickOK, BeforePackage

\* A tick that waits stays in order.
LEMMA TickStays ==
  ASSUME RecordOK, TickOK, Advance, cursor' \in Nat, tick' = tick
  PROVE  TickOK'
<1>1. Copy(tick.rec, rec')
  BY AdvanceCopy DEF TickOK
<1> QED BY <1>1 DEF TickOK, BeforePackage, TickShape, Copy, Live

\* A tick that moves with the record it has stays in order.
LEMMA TickMoves ==
  ASSUME RecordOK, TickOK, Advance, cursor' = cursor, tick.pc # "idle",
         NEW t, tick' = t, TickShape(t), t.rec = tick.rec,
         t.cursor \in Nat, t.text \in BOOLEAN,
         t.pc \in BeforePackage => tick.rec.package = "absent"
  PROVE  TickOK'
<1>1. Copy(tick.rec, rec') /\ Live(tick.rec)
  BY AdvanceCopy DEF TickOK
<1> QED BY <1>1 DEF TickOK, BeforePackage

\* A tick that goes to another place stays in order.
LEMMA TickGoes ==
  ASSUME RecordOK, TickOK, Advance, cursor' = cursor, tick.pc # "idle",
         NEW pc, Goto(pc), pc \in BeforePackage => tick.rec.package = "absent"
  PROVE  TickOK'
<1> DEFINE t == [tick EXCEPT !.pc = pc]
<1>1. /\ TickShape(t) /\ t.rec = tick.rec /\ t.cursor = tick.cursor /\ t.text = tick.text
      /\ t.pc = pc
  BY DEF TickOK, TickShape
<1>2. tick' = t BY DEF Goto
<1> HIDE DEF t
<1> QED BY <1>1, <1>2, TickMoves DEF TickOK

\* The tick reads the record, or keeps what it wrote.
LEMMA TickReads ==
  ASSUME RecordOK, TickOK, Advance, cursor' = cursor,
         NEW t, tick' = t, TickShape(t), t.rec = rec', Live(rec'),
         t.cursor \in Nat, t.text \in BOOLEAN, t.pc \notin BeforePackage
  PROVE  TickOK'
<1>1. RecordOK' BY AdvanceRecord
<1>2. rec' \in Records /\ rec'.rev \in Nat
  BY <1>1, RecordFields DEF RecordOK
<1>3. Copy(rec', rec')
  BY <1>2 DEF Copy
<1> QED BY <1>3 DEF TickOK, BeforePackage

\* An action that is over is in order.
LEMMA ActRests ==
  ASSUME RecordOK, Advance, act' = ActIdle
  PROVE  ActOK'
<1>1. RecordOK' BY AdvanceRecord
<1>2. /\ ActIdle.pc = "idle" /\ ActIdle.rec = NoRecord
      /\ ActIdle.disposition = "none" /\ ActShape(ActIdle)
  BY DEF ActIdle, ActShape
<1>3. rec'.rev \in Nat /\ (rec'.rev = 0 => rec' = NoRecord)
  BY <1>1, RecordFields DEF RecordOK
<1>4. Copy(NoRecord, rec')
  BY <1>3, NoRecordFields DEF Copy
<1> QED BY <1>2, <1>4 DEF ActOK

\* An action that waits stays in order.
LEMMA ActStays ==
  ASSUME RecordOK, ActOK, Advance, act' = act
  PROVE  ActOK'
<1>1. Copy(act.rec, rec')
  BY AdvanceCopy DEF ActOK
<1> QED BY <1>1 DEF ActOK, ActShape, Copy, Live

\* An action that moves with the record it has stays in order.
LEMMA ActMoves ==
  ASSUME RecordOK, ActOK, Advance, act.pc # "idle",
         NEW a, act' = a, ActShape(a), a.rec = act.rec, a.disposition = act.disposition
  PROVE  ActOK'
<1>1. Copy(act.rec, rec') /\ Live(act.rec)
  BY AdvanceCopy DEF ActOK
<1> QED BY <1>1 DEF ActOK

-----------------------------------------------------------------------------
(* The initial states. *)

\* The invariant holds initially.
LEMMA InitInvariant == Init => IInv
<1> SUFFICES ASSUME Init PROVE IInv
  OBVIOUS
<1>1. /\ rec = NoRecord /\ tick = TickIdle /\ act = ActIdle /\ cursor = 1
      /\ reserved = FALSE /\ start = "idle"
  BY DEF Init
<1>2. RecordOK
  BY <1>1, NoRecordFields DEF RecordOK
<1>3. Copy(NoRecord, NoRecord)
  BY NoRecordFields DEF Copy
<1>4. TickOK
  <2>1. /\ TickIdle.pc = "idle" /\ TickIdle.rec = NoRecord
        /\ TickIdle.text \in BOOLEAN /\ TickIdle.cursor \in Nat /\ TickShape(TickIdle)
    BY DEF TickIdle, TickShape, None
  <2> QED BY <1>1, <1>3, <2>1 DEF TickOK, BeforePackage
<1>5. ActOK
  <2>1. /\ ActIdle.pc = "idle" /\ ActIdle.rec = NoRecord
        /\ ActIdle.disposition = "none" /\ ActShape(ActIdle)
    BY DEF ActIdle, ActShape
  <2> QED BY <1>1, <1>3, <2>1 DEF ActOK
<1>6. StartOK /\ ReservationExact
  BY <1>1, NoRecordFields DEF StartOK, ReservationExact, Outstanding
<1> QED BY <1>1, <1>2, <1>4, <1>5, <1>6 DEF IInv

-----------------------------------------------------------------------------
(* The admission. *)

\* Together: the steps that leave both places alone.
LEMMA Assembled ==
  ASSUME IInv, Orderly, TickOK', ActOK'
  PROVE  IInv' /\ ~Undoes
BY AdvanceRecord DEF IInv, Orderly

\* An orderly step of neither tick nor action keeps the invariant.
LEMMA PlacesStay ==
  ASSUME IInv, Orderly, tick' = tick, act' = act, cursor' \in Nat
  PROVE  IInv' /\ ~Undoes
BY TickStays, ActStays, Assembled DEF IInv, Orderly

\* Start keeps the invariant and undoes nothing.
LEMMA StartKeeps ==
  ASSUME IInv, StartStep
  PROVE  IInv' /\ ~Undoes
<1>1. tick' = tick /\ act' = act /\ cursor' \in Nat
  BY DEF StartStep, Claim, Admit, Request, Rejected, Queued, StartUnchanged, Quiet, IInv, TickOK
<1> SUFFICES Orderly
  BY <1>1, PlacesStay
<1>2. CASE Claim
  <2>1. rec = NoRecord
    BY <1>2 DEF Claim, IInv, RecordOK
  <2> QED BY <1>2, <2>1, NoRecordFields
          DEF Claim, Orderly, Advance, ReservationExact, Outstanding, StartOK
<1>3. CASE Admit
  <2>1. rec = NoRecord
    BY <1>3 DEF Admit, IInv, RecordOK, StartOK
  <2>2. reserved = TRUE
    BY <1>3 DEF Admit, IInv, ReservationExact
  <2>3. \/ rec' = First /\ start' = "saved" /\ reserved' = reserved
        \/ reserved' = FALSE /\ start' = "idle" /\ rec' = rec
    BY <1>3 DEF Admit, First
  <2>4. CASE rec' = First /\ start' = "saved" /\ reserved' = reserved
    <3>1. rec'.phase = "queued" /\ rec'.rev = 1
      BY <2>4, FirstFields
    <3>2. Advance /\ StartOK'
      BY <2>1, <2>4, <3>1 DEF Advance, Admitted, StartOK
    <3> QED BY <2>2, <2>4, <3>1, <3>2 DEF Orderly, ReservationExact, Outstanding
  <2>5. CASE reserved' = FALSE /\ start' = "idle" /\ rec' = rec
    BY <2>1, <2>5, NoRecordFields
       DEF Orderly, Advance, ReservationExact, Outstanding, StartOK
  <2> QED BY <2>3, <2>4, <2>5
<1>4. CASE Request
  BY <1>4 DEF Request, KeepsRecord, IInv, Orderly, Advance, ReservationExact,
              Outstanding, StartOK
<1>5. CASE Queued
  BY <1>5 DEF Queued, KeepsRecord, IInv, Orderly, Advance, ReservationExact,
              Outstanding, StartOK
<1>6. CASE Rejected
  <2>1. rec.rev >= 1 /\ rec.rev \in Nat /\ (rec.rev = 1 => rec = First)
    BY <1>6, RecordFields DEF Rejected, IInv, RecordOK, StartOK
  <2>2. Copy(First, rec) /\ Live(First) /\ First \in Records
    BY <2>1, FirstFields DEF Copy, Live
  <2>3. Close(First, "no-update") /\ start' = "idle"
    BY <1>6 DEF Rejected, First
  <2> QED BY <2>2, <2>3, CloseOrderly
<1> QED BY <1>2, <1>3, <1>4, <1>5, <1>6 DEF StartStep

-----------------------------------------------------------------------------
(* The tick. *)

\* An orderly step of the tick keeps the invariant.
LEMMA TickAssembled ==
  ASSUME IInv, Orderly, TickOK', act' = act
  PROVE  IInv' /\ ~Undoes
BY ActStays, Assembled DEF IInv, Orderly

\* A tick that ends keeps the invariant if its write is orderly.
LEMMA TickEnds ==
  ASSUME IInv, Orderly, TickDone, cursor' = cursor, act' = act
  PROVE  IInv' /\ ~Undoes
BY TickRests, TickAssembled DEF IInv, Orderly, TickDone, TickOK

\* A tick that moves to another place without touching the record.
LEMMA TickPasses ==
  ASSUME IInv, Orderly, tick.pc # "idle", cursor' = cursor, act' = act,
         NEW pc, Goto(pc), pc \in BeforePackage => tick.rec.package = "absent"
  PROVE  IInv' /\ ~Undoes
BY TickGoes, TickAssembled DEF IInv, Orderly

\* A tick that goes on with its record keeps the invariant.
LEMMA TickTurns ==
  ASSUME IInv, Orderly, tick.pc # "idle", cursor' = cursor, act' = act,
         NEW pc, NEW c \in Nat, NEW text \in BOOLEAN, TickIs(tick', pc, tick.rec, c, text),
         pc \in BeforePackage => tick.rec.package = "absent"
  PROVE  IInv' /\ ~Undoes
BY TickMoves, TickAssembled DEF IInv, Orderly, TickIs

\* A tick that goes on with the record it wrote keeps the invariant.
LEMMA TickRenews ==
  ASSUME IInv, Orderly, cursor' = cursor, act' = act,
         NEW pc, NEW c \in Nat, NEW text \in BOOLEAN, TickIs(tick', pc, rec', c, text),
         Live(rec'), pc \notin BeforePackage
  PROVE  IInv' /\ ~Undoes
BY TickReads, TickAssembled DEF IInv, Orderly, TickIs

\* The copy of a tick that is under way.
LEMMA TickCopy ==
  ASSUME IInv, tick.pc # "idle"
  PROVE  Copy(tick.rec, rec) /\ Live(tick.rec) /\ tick.rec \in Records
BY DEF IInv, TickOK, Copy

\* What is not closed is live.
LEMMA OutstandingLive ==
  ASSUME IInv, rec.package # "absent" \/ rec.phase # "none", rec.phase # "available"
  PROVE  Live(rec)
<1>1. rec.rev \in Nat
  BY RecordFields DEF IInv, RecordOK
<1>2. rec # NoRecord
  BY NoRecordFields
<1>3. rec.rev # 0
  BY <1>2 DEF IInv, RecordOK
<1> QED BY <1>1, <1>3 DEF IInv, RecordOK, Live

\* List keeps the invariant and undoes nothing.
LEMMA ListKeeps ==
  ASSUME IInv, List
  PROVE  IInv' /\ ~Undoes
<1> DEFINE t == [TickIdle EXCEPT !.pc = IF HasDelivered THEN "recheck" ELSE "job", !.rec = rec]
<1>1. /\ TickShape(t) /\ t.rec = rec /\ t.cursor \in Nat /\ t.text \in BOOLEAN
      /\ t.pc \in {"recheck", "job"}
  <2> DEFINE pc == IF HasDelivered THEN "recheck" ELSE "job"
  <2>1. pc \in {"recheck", "job"}
    OBVIOUS
  <2> HIDE DEF pc
  <2>2. t = [TickIdle EXCEPT !.pc = pc, !.rec = rec]
    BY DEF pc
  <2>3. TickShape(TickIdle) /\ TickIdle.cursor \in Nat /\ TickIdle.text \in BOOLEAN
    BY DEF TickShape, TickIdle, None
  <2> HIDE DEF t
  <2>4. TickIs(t, pc, rec, TickIdle.cursor, TickIdle.text)
    BY <2>2, <2>3, TickSetTwo
  <2> QED BY <2>1, <2>3, <2>4 DEF TickIs
<1>2. /\ tick' = t /\ UNCHANGED <<rec, reserved>> /\ start' = start /\ act' = act
      /\ cursor' = cursor
  BY DEF List, KeepsRecord, TickUnchanged, Quiet
<1> HIDE DEF t
<1>3. Live(rec)
  BY OutstandingLive DEF List, Outstanding
<1>4. Orderly
  BY <1>2, KeepOrderly
<1>5. TickIs(tick', t.pc, rec', t.cursor, t.text) /\ Live(rec')
  BY <1>1, <1>2, <1>3 DEF TickIs
<1> QED BY <1>1, <1>2, <1>4, <1>5, TickRenews DEF BeforePackage

\* ReadJob keeps the invariant and undoes nothing.
LEMMA ReadJobKeeps ==
  ASSUME IInv, ReadJob
  PROVE  IInv' /\ ~Undoes
<1>1. tick.pc = "job" /\ act' = act /\ start' = start /\ cursor' = cursor
  BY DEF ReadJob, TickUnchanged, Quiet
<1>2. CASE Close(tick.rec, "no-update") /\ TickDone
  BY <1>1, <1>2, TickCopy, CloseOrderly, TickEnds
<1>3. CASE /\ KeepsRecord
           /\ tick' = [tick EXCEPT !.job = job,
                         !.pc = IF tick.rec.package = "absent" THEN "authority" ELSE "return"]
  <2> DEFINE pc == IF tick.rec.package = "absent" THEN "authority" ELSE "return"
  <2>1. pc \in BeforePackage => tick.rec.package = "absent"
    BY DEF BeforePackage
  <2>2. tick' = [tick EXCEPT !.job = job, !.pc = pc]
    BY <1>3
  <2> HIDE DEF pc
  <2>3. TickIs(tick', pc, tick.rec, tick.cursor, tick.text)
    BY <2>2, TickSetTwo DEF IInv, TickOK
  <2>4. Orderly BY <1>1, <1>3, KeepOrderly DEF KeepsRecord
  <2> QED BY <1>1, <2>1, <2>3, <2>4, TickTurns DEF IInv, TickOK
<1> QED BY <1>2, <1>3 DEF ReadJob

\* Supervise keeps the invariant and undoes nothing.
LEMMA SuperviseKeeps ==
  ASSUME IInv, Supervise
  PROVE  IInv' /\ ~Undoes
<1>1. /\ tick.pc = "authority" /\ act' = act /\ start' = start /\ cursor' = cursor
      /\ tick.rec.package = "absent"
  BY DEF Supervise, TickUnchanged, Quiet, IInv, TickOK, BeforePackage
<1>2. CASE TickDone
  <2>1. KeepsRecord \/ Patch(tick.rec, [tick.rec EXCEPT !.phase = WorkerPhase(tick.job)])
    BY <1>2 DEF Supervise
  <2>2. WorkerPhase(tick.job) \in Phases \ {"none", "available"}
    BY DEF WorkerPhase, Phases
  <2>3. Orderly
    BY <1>1, <2>1, <2>2, TickCopy, KeepOrderly, PhasePatch DEF KeepsRecord
  <2> QED BY <1>1, <1>2, <2>3, TickEnds
<1>3. CASE /\ KeepsRecord
           /\ tick' = IF Nonterminal(tick.job)
                      THEN [tick EXCEPT !.pc = "cancel", !.tries = IF authority THEN 1 ELSE 2]
                      ELSE [tick EXCEPT !.pc = "confirm"]
  <2> DEFINE tries == IF authority THEN 1 ELSE 2
  <2>1. \/ tick' = [tick EXCEPT !.pc = "cancel", !.tries = tries]
        \/ tick' = [tick EXCEPT !.pc = "confirm"]
    BY <1>3
  <2> HIDE DEF tries
  <2>2. \E pc : TickIs(tick', pc, tick.rec, tick.cursor, tick.text)
    <3>1. TickShape(tick) BY DEF IInv, TickOK
    <3>2. CASE tick' = [tick EXCEPT !.pc = "cancel", !.tries = tries]
      BY <3>1, <3>2, TickSetTwo
    <3>3. CASE tick' = [tick EXCEPT !.pc = "confirm"]
      BY <3>1, <3>3, TickSetOne
    <3> QED BY <2>1, <3>2, <3>3
  <2>3. Orderly BY <1>1, <1>3, KeepOrderly DEF KeepsRecord
  <2> QED BY <1>1, <2>2, <2>3, TickTurns DEF IInv, TickOK
<1> QED BY <1>2, <1>3 DEF Supervise

\* TickCancel keeps the invariant and undoes nothing.
LEMMA TickCancelKeeps ==
  ASSUME IInv, TickCancel \/ TickCancelling
  PROVE  IInv' /\ ~Undoes
<1>1. /\ tick.pc \in {"cancel", "cancelling"} /\ act' = act /\ start' = start
      /\ cursor' = cursor /\ KeepsRecord
  BY DEF TickCancel, TickCancelling, TickUnchanged, Quiet
<1>2. tick.rec.package = "absent" /\ TickShape(tick)
  BY <1>1 DEF IInv, TickOK, BeforePackage
<1>3. \E pc : TickIs(tick', pc, tick.rec, tick.cursor, tick.text)
  <2>1. \/ tick' = [tick EXCEPT !.pc = "cancelling", !.rev = job.rev]
        \/ tick' = [tick EXCEPT !.pc = AfterCancel(tick.tries), !.tries = tick.tries - 1]
    BY DEF TickCancel, TickCancelling
  <2>2. CASE tick' = [tick EXCEPT !.pc = "cancelling", !.rev = job.rev]
    BY <1>2, <2>2, TickSetTwo
  <2>3. CASE tick' = [tick EXCEPT !.pc = AfterCancel(tick.tries), !.tries = tick.tries - 1]
    BY <1>2, <2>3, TickSetTwo
  <2> QED BY <2>1, <2>2, <2>3
<1>4. Orderly BY <1>1, KeepOrderly DEF KeepsRecord
<1> QED BY <1>1, <1>2, <1>3, <1>4, TickTurns DEF IInv, TickOK

\* Confirm keeps the invariant and undoes nothing.
LEMMA ConfirmKeeps ==
  ASSUME IInv, Confirm
  PROVE  IInv' /\ ~Undoes
<1>1. /\ tick.pc = "confirm" /\ act' = act /\ start' = start /\ cursor' = cursor
      /\ tick.rec.package = "absent"
  BY DEF Confirm, TickUnchanged, Quiet, IInv, TickOK, BeforePackage
<1>2. CASE Goto("package") /\ KeepsRecord
  BY <1>1, <1>2, KeepOrderly, TickPasses DEF KeepsRecord
<1>3. CASE Unconfirmed /\ TickDone
  <2>1. "blocked" \in Phases \ {"none", "available"}
    BY DEF Phases
  <2>2. Orderly
    BY <1>1, <1>3, <2>1, TickCopy, PhasePatch DEF Unconfirmed
  <2> QED BY <1>1, <1>3, <2>2, TickEnds
<1> QED BY <1>2, <1>3 DEF Confirm

\* Package keeps the invariant and undoes nothing.
LEMMA PackageKeeps ==
  ASSUME IInv, Package
  PROVE  IInv' /\ ~Undoes
<1>1. /\ tick.pc = "package" /\ act' = act /\ start' = start /\ cursor' = cursor
      /\ tick.rec.package = "absent"
  BY DEF Package, TickUnchanged, Quiet, IInv, TickOK, BeforePackage
<1> DEFINE found == Findings(tick.job)
           new == [tick.rec EXCEPT !.phase = "catching-up", !.stopped = TRUE, !.package = found]
<1>2. found \in Packages /\ found # "absent"
  BY DEF Findings, Packages
<1> HIDE DEF found
<1>3. Copy(tick.rec, rec) /\ Live(tick.rec) /\ tick.rec \in Records
  BY <1>1, TickCopy
<1>4. /\ new \in Records /\ new.phase = "catching-up" /\ new.stopped = TRUE
      /\ new.package = found
  BY <1>2, <1>3 DEF Records, Phases
<1>5. Patch(tick.rec, new)
  BY DEF Package, found
<1> HIDE DEF new
<1>6. CASE Fresh(tick.rec)
  <2>1. tick.rec = rec /\ ~rec.stopped
    BY <1>1, <1>3, <1>6, FreshCopy DEF IInv, RecordOK
  <2>2. Orderly
    BY <1>1, <1>2, <1>3, <1>4, <1>5, <2>1, PatchOrderly
  <2>3. Goto("return")
    BY <1>6 DEF Package
  <2> QED BY <1>1, <2>2, <2>3, TickPasses
<1>7. CASE ~Fresh(tick.rec)
  <2>1. Orderly
    BY <1>1, <1>5, <1>7, KeepOrderly DEF Patch, Write
  <2> QED BY <1>1, <1>7, <2>1, TickEnds DEF Package
<1> QED BY <1>6, <1>7

\* EnterReturn keeps the invariant and undoes nothing.
LEMMA EnterReturnKeeps ==
  ASSUME IInv, EnterReturn
  PROVE  IInv' /\ ~Undoes
<1>1. /\ tick.pc = "return" /\ act' = act /\ start' = start /\ cursor' = cursor
      /\ UNCHANGED <<rec, reserved>>
  BY DEF EnterReturn, KeepsRecord, ReturnUnchanged, Quiet
<1>2. Orderly BY <1>1, KeepOrderly
<1>3. CASE TickDone
  BY <1>1, <1>2, <1>3, TickEnds
<1>4. CASE ~TickDone
  <2> DEFINE pc == IF HasDelivered THEN "recheck" ELSE "entry"
  <2>1. /\ tick' = [tick EXCEPT !.rec = rec, !.pc = pc]
        /\ rec.package # "absent" /\ rec.phase # "available"
    BY <1>4 DEF EnterReturn
  <2>2. pc \notin BeforePackage
    BY DEF BeforePackage
  <2> HIDE DEF pc
  <2>3. TickIs(tick', pc, rec', tick.cursor, tick.text)
    BY <1>1, <2>1, TickSetTwo DEF IInv, TickOK
  <2>4. Live(rec')
    BY <1>1, <2>1, OutstandingLive
  <2> QED BY <1>1, <1>2, <2>2, <2>3, <2>4, TickRenews DEF IInv, TickOK
<1> QED BY <1>3, <1>4

\* The tick blocks the return and ends.
LEMMA BlockKeeps ==
  ASSUME IInv, tick.pc # "idle", start' = start, act' = act, cursor' = cursor, TickDone,
         Patch(tick.rec, [tick.rec EXCEPT !.phase = "blocked"])
  PROVE  IInv' /\ ~Undoes
<1>1. "blocked" \in Phases \ {"none", "available"}
  BY DEF Phases
<1>2. Orderly
  BY <1>1, TickCopy, PhasePatch
<1> QED BY <1>2, TickEnds

\* The tick writes a patch and goes on from what it wrote, or ends.
LEMMA WroteKeeps ==
  ASSUME IInv, tick.pc # "idle", start' = start, act' = act, cursor' = cursor,
         NEW new \in Records, new.phase \notin {"none", "available"},
         new.stopped = tick.rec.stopped, new.package = tick.rec.package,
         Patch(tick.rec, new), NEW pc, pc \notin BeforePackage,
         IF Fresh(tick.rec) THEN tick' = [tick EXCEPT !.pc = pc, !.rec = rec'] ELSE TickDone
  PROVE  IInv' /\ ~Undoes
<1>1. Orderly /\ (Fresh(tick.rec) => Live(rec'))
  BY TickCopy, PatchOrderly
<1>2. CASE Fresh(tick.rec)
  <2>1. TickShape(tick)
    BY DEF IInv, TickOK
  <2>2. tick' = [tick EXCEPT !.pc = pc, !.rec = rec']
    BY <1>2
  <2>3. TickIs(tick', pc, rec', tick.cursor, tick.text)
    BY <2>1, <2>2, TickSetTwo
  <2> QED BY <1>1, <1>2, <2>3, TickRenews DEF IInv, TickOK
<1>3. CASE ~Fresh(tick.rec)
  BY <1>1, <1>3, TickEnds
<1> QED BY <1>2, <1>3

\* PrepareReturn keeps the invariant and undoes nothing.
LEMMA PrepareReturnKeeps ==
  ASSUME IInv, PrepareReturn
  PROVE  IInv' /\ ~Undoes
<1>1. tick.pc = "entry" /\ act' = act /\ start' = start /\ cursor' = cursor
  BY DEF PrepareReturn, ReturnUnchanged, Quiet
<1>2. CASE Patch(tick.rec, [tick.rec EXCEPT !.phase = "blocked"]) /\ TickDone
  BY <1>1, <1>2, BlockKeeps
<1>3. CASE KeepsRecord /\ (Goto("final") \/ Goto("failed"))
  BY <1>1, <1>3, KeepOrderly, TickPasses DEF KeepsRecord, BeforePackage
<1>4. CASE BeginAssessment
  <2> DEFINE n == tick.rec.attempts + 1
             new == [tick.rec EXCEPT !.phase = "catching-up", !.report = None,
                       !.text = FALSE, !.attempts = n]
  <2>0. n \in Nat
    BY <1>1, TickCopy, RecordFields
  <2> HIDE DEF n
  <2>1. /\ new \in Records /\ new.phase = "catching-up"
        /\ new.stopped = tick.rec.stopped /\ new.package = tick.rec.package
    BY <1>1, <2>0, TickCopy DEF Records, Phases, None
  <2>2. Patch(tick.rec, new)
    BY <1>4 DEF BeginAssessment, n
  <2>3. IF Fresh(tick.rec) THEN tick' = [tick EXCEPT !.pc = "run", !.rec = rec'] ELSE TickDone
    BY <1>4 DEF BeginAssessment
  <2> HIDE DEF new
  <2>4. "run" \notin BeforePackage
    BY DEF BeforePackage
  <2> QED BY <1>1, <2>1, <2>2, <2>3, <2>4, WroteKeeps
<1> QED BY <1>2, <1>3, <1>4 DEF PrepareReturn

\* StoreReport keeps the invariant and undoes nothing.
LEMMA StoreReportKeeps ==
  ASSUME IInv, StoreReport
  PROVE  IInv' /\ ~Undoes
<1>1. /\ tick.pc = "reported" /\ act' = act /\ start' = start /\ cursor' = cursor
  BY DEF StoreReport, ReturnUnchanged, Quiet
<1> DEFINE c == tick.cursor  text == tick.text
           new == [tick.rec EXCEPT !.phase = "report-pending", !.report = c, !.text = text]
<1>2. c \in Nat /\ text \in BOOLEAN
  BY DEF IInv, TickOK
<1> HIDE DEF c, text
<1>3. /\ new \in Records /\ new.phase = "report-pending"
      /\ new.stopped = tick.rec.stopped /\ new.package = tick.rec.package
  BY <1>1, <1>2, TickCopy DEF Records, Phases
<1>4. Patch(tick.rec, new)
  BY DEF StoreReport, c, text
<1>5. IF Fresh(tick.rec) THEN tick' = [tick EXCEPT !.pc = "final", !.rec = rec'] ELSE TickDone
  BY DEF StoreReport
<1> HIDE DEF new
<1>6. "final" \notin BeforePackage
  BY DEF BeforePackage
<1> QED BY <1>1, <1>3, <1>4, <1>5, <1>6, WroteKeeps

\* The assessment itself leaves the record alone.
LEMMA AssessKeeps ==
  ASSUME IInv, RunReturn \/ Assess
  PROVE  IInv' /\ ~Undoes
<1>1. /\ tick.pc \in {"run", "running"} /\ act' = act /\ start' = start
      /\ cursor' = cursor /\ KeepsRecord
  BY DEF RunReturn, Assess, ReturnUnchanged, Quiet
<1>2. Orderly BY <1>1, KeepOrderly DEF KeepsRecord
<1>3. TickShape(tick) /\ cursor \in Nat /\ tick.cursor \in Nat /\ tick.text \in BOOLEAN
  BY DEF IInv, TickOK
<1>4. CASE Goto("capacity") \/ Goto("failed")
  BY <1>1, <1>2, <1>4, TickPasses DEF BeforePackage
<1>5. CASE tick' = [tick EXCEPT !.pc = "running", !.cursor = cursor]
  <2>1. TickIs(tick', "running", tick.rec, cursor, tick.text)
    BY <1>3, <1>5, TickSetTwo
  <2> QED BY <1>1, <1>2, <1>3, <2>1, TickTurns DEF BeforePackage
<1>6. CASE \E text \in BOOLEAN : tick' = [tick EXCEPT !.pc = "reported", !.text = text]
  <2>1. PICK text \in BOOLEAN : tick' = [tick EXCEPT !.pc = "reported", !.text = text]
    BY <1>6
  <2>2. TickIs(tick', "reported", tick.rec, tick.cursor, text)
    BY <1>3, <2>1, TickSetTwo
  <2> QED BY <1>1, <1>2, <1>3, <2>2, TickTurns DEF BeforePackage
<1> QED BY <1>4, <1>5, <1>6 DEF RunReturn, Assess

\* FinalCheck keeps the invariant and undoes nothing.
LEMMA FinalCheckKeeps ==
  ASSUME IInv, FinalCheck
  PROVE  IInv' /\ ~Undoes
<1>1. tick.pc = "final" /\ act' = act /\ start' = start /\ cursor' = cursor
  BY DEF FinalCheck, ReturnUnchanged, Quiet
<1>2. CASE Patch(tick.rec, [tick.rec EXCEPT !.phase = "blocked"]) /\ TickDone
  BY <1>1, <1>2, BlockKeeps
<1>3. CASE KeepsRecord /\ (Goto("deliver") \/ TickDone)
  <2>1. Orderly BY <1>1, <1>3, KeepOrderly DEF KeepsRecord
  <2> QED BY <1>1, <1>3, <2>1, TickPasses, TickEnds DEF BeforePackage
<1> QED BY <1>2, <1>3 DEF FinalCheck

\* Under the mutex the record is read again.
LEMMA RereadKeeps ==
  ASSUME IInv, Deliver \/ Recheck
  PROVE  IInv' /\ ~Undoes
<1>1. /\ tick.pc \in {"deliver", "recheck"} /\ act' = act /\ start' = start
      /\ cursor' = cursor /\ UNCHANGED <<rec, reserved>>
  BY DEF Deliver, Recheck, KeepsRecord, ReturnUnchanged, Quiet
<1>2. Orderly BY <1>1, KeepOrderly
<1>3. CASE TickDone
  BY <1>1, <1>2, <1>3, TickEnds
<1>4. CASE ~TickDone
  <2>1. rec.phase # "available"
    BY <1>4 DEF Deliver, Recheck, StillPending
  <2>2. rec.phase # "none"
    <3>1. /\ tick.rec.rev \in Nat /\ rec.rev \in Nat /\ tick.rec.rev >= 1
          /\ tick.rec.rev <= rec.rev
      BY <1>1, TickCopy, RecordFields DEF Copy, Live, IInv, RecordOK
    <3> QED BY <3>1 DEF IInv, RecordOK
  <2>3. Live(rec')
    BY <1>1, <2>1, <2>2, OutstandingLive
  <2>4. PICK pc \in {"saving", "finish"} : tick' = [tick EXCEPT !.pc = pc, !.rec = rec]
    BY <1>4 DEF Deliver, Recheck
  <2>5. TickIs(tick', pc, rec', tick.cursor, tick.text)
    BY <1>1, <2>4, TickSetTwo DEF IInv, TickOK
  <2> QED BY <1>1, <1>2, <2>3, <2>4, <2>5, TickRenews DEF IInv, TickOK, BeforePackage
<1> QED BY <1>3, <1>4

\* Finish keeps the invariant and undoes nothing.
LEMMA FinishKeeps ==
  ASSUME IInv, SaveRoom \/ FinishInbox \/ FinishReturn
  PROVE  IInv' /\ ~Undoes
<1>1. /\ tick.pc \in {"saving", "finish", "acknowledged"} /\ act' = act
      /\ start' = start /\ cursor' = cursor
  BY DEF SaveRoom, FinishInbox, FinishReturn, ReturnUnchanged, Quiet
<1>2. CASE KeepsRecord /\ \E pc \in {"finish", "failed", "acknowledged"} : Goto(pc)
  BY <1>1, <1>2, KeepOrderly, TickPasses DEF KeepsRecord, BeforePackage
<1>3. CASE KeepsRecord /\ TickDone
  BY <1>1, <1>3, KeepOrderly, TickEnds DEF KeepsRecord
<1>4. CASE TickDone /\ \E d \in {"delivered", "no-update"} : Close(tick.rec, d)
  BY <1>1, <1>4, TickCopy, CloseOrderly, TickEnds
<1>5. CASE SaveRoom
  BY <1>2, <1>5 DEF SaveRoom
<1>6. CASE FinishInbox
  BY <1>2, <1>6 DEF FinishInbox
<1>7. CASE FinishReturn
  BY <1>3, <1>4, <1>7 DEF FinishReturn
<1> QED BY <1>5, <1>6, <1>7

\* ReturnFails keeps the invariant and undoes nothing.
LEMMA ReturnFailsKeeps ==
  ASSUME IInv, ReturnFails
  PROVE  IInv' /\ ~Undoes
<1>1. /\ tick.pc \in {"failed", "capacity"} /\ act' = act /\ start' = start
      /\ cursor' = cursor /\ TickDone
  BY DEF ReturnFails, ReturnUnchanged, Quiet
<1>2. CASE rec.phase = "available"
  <2>1. UNCHANGED <<rec, reserved>>
    BY <1>2 DEF ReturnFails, KeepsRecord
  <2> QED BY <1>1, <2>1, KeepOrderly, TickEnds
<1>3. CASE rec.phase # "available"
  <2> DEFINE reason == tick.pc
             new == AfterFailure(reason)
  <2>1. rec \in Records /\ rec.attempts \in Nat
    BY RecordFields DEF IInv, RecordOK
  <2>2. /\ new \in Records /\ new.phase \in {"catching-up", "blocked"}
        /\ new.stopped = rec.stopped /\ new.package = rec.package
    <3> DEFINE n == IF rec.attempts = 0 THEN 0 ELSE rec.attempts - 1
               p == IF rec.attempts \in 1 .. MaxAttempts - 1 THEN "catching-up" ELSE "blocked"
    <3>1. n \in Nat BY <2>1
    <3>2. p \in {"catching-up", "blocked"} OBVIOUS
    <3>3. \/ new = [rec EXCEPT !.phase = "catching-up", !.attempts = n]
          \/ new = [rec EXCEPT !.phase = p]
      BY DEF AfterFailure
    <3> HIDE DEF n, p, new
    <3>4. CASE new = [rec EXCEPT !.phase = "catching-up", !.attempts = n]
      BY <2>1, <3>1, <3>4 DEF Records, Phases
    <3>5. CASE new = [rec EXCEPT !.phase = p]
      <4>1. p \in Phases BY <3>2 DEF Phases
      <4> QED BY <2>1, <3>2, <3>5, <4>1, WithPhase
    <3> QED BY <3>3, <3>4, <3>5
  <2>3. Patch(rec, new)
    BY <1>3 DEF ReturnFails
  <2> HIDE DEF new
  <2>4. Live(rec) /\ Copy(rec, rec)
    <3>1. /\ tick.rec.rev \in Nat /\ rec.rev \in Nat /\ tick.rec.rev >= 1
          /\ tick.rec.rev <= rec.rev
      BY <1>1, TickCopy, RecordFields DEF Copy, Live, IInv, RecordOK
    <3> QED BY <1>3, <2>1, <3>1 DEF IInv, RecordOK, Live, Copy
  <2>5. Orderly
    BY <1>1, <2>2, <2>3, <2>4, PatchOrderly
  <2> QED BY <1>1, <2>5, TickEnds
<1> QED BY <1>2, <1>3

\* Tick keeps the invariant and undoes nothing.
LEMMA TickKeeps ==
  ASSUME IInv, TickStep
  PROVE  IInv' /\ ~Undoes
BY ListKeeps, ReadJobKeeps, SuperviseKeeps, TickCancelKeeps, ConfirmKeeps, PackageKeeps,
   EnterReturnKeeps, PrepareReturnKeeps, AssessKeeps, StoreReportKeeps, FinalCheckKeeps,
   RereadKeeps, FinishKeeps, ReturnFailsKeeps DEF TickStep

-----------------------------------------------------------------------------
(* Human actions. *)

\* An orderly step of an action keeps the invariant.
LEMMA ActAssembled ==
  ASSUME IInv, Orderly, tick' = tick, cursor' = cursor, ActOK'
  PROVE  IInv' /\ ~Undoes
BY TickStays, Assembled DEF IInv, Orderly, TickOK

\* The copy of an action that is under way.
LEMMA ActCopy ==
  ASSUME IInv, act.pc # "idle"
  PROVE  /\ Copy(act.rec, rec) /\ Live(act.rec) /\ act.rec \in Records
         /\ act.disposition \in {"none", "delivered", "no-update"}
BY DEF IInv, ActOK, Copy

\* One field of an action written.
LEMMA ActSetOne ==
  ASSUME NEW a, ActShape(a), NEW v
  PROVE  /\ LET b == [a EXCEPT !.pc = v]
            IN ActShape(b) /\ b.pc = v /\ b.rec = a.rec /\ b.disposition = a.disposition
         /\ LET b == [a EXCEPT !.rev = v]
            IN ActShape(b) /\ b.pc = a.pc /\ b.rec = a.rec /\ b.disposition = a.disposition
BY DEF ActShape

\* An action ends, or goes on with the record it read.
LEMMA ActGoesOn ==
  ASSUME IInv, Orderly, tick' = tick, cursor' = cursor, act.pc # "idle",
         \/ ActDone
         \/ \E pc : act' = [act EXCEPT !.pc = pc]
         \/ \E pc, rev : act' = [act EXCEPT !.pc = pc, !.rev = rev]
  PROVE  IInv' /\ ~Undoes
<1>1. RecordOK /\ ActOK /\ Advance /\ ActShape(act)
  BY DEF IInv, Orderly, ActOK
<1>2. CASE ActDone
  BY <1>1, <1>2, ActRests, ActAssembled DEF ActDone
<1>3. CASE \E pc : act' = [act EXCEPT !.pc = pc]
  <2>1. PICK pc : act' = [act EXCEPT !.pc = pc]
    BY <1>3
  <2>2. ActShape(act') /\ act'.rec = act.rec /\ act'.disposition = act.disposition
    BY <1>1, <2>1, ActSetOne
  <2> QED BY <1>1, <2>2, ActMoves, ActAssembled
<1>4. CASE \E pc, rev : act' = [act EXCEPT !.pc = pc, !.rev = rev]
  <2>1. PICK pc, rev : act' = [act EXCEPT !.pc = pc, !.rev = rev]
    BY <1>4
  <2> DEFINE m == [act EXCEPT !.pc = pc]
  <2>2. ActShape(m) /\ m.rec = act.rec /\ m.disposition = act.disposition
    BY <1>1, ActSetOne
  <2>3. act' = [m EXCEPT !.rev = rev]
    BY <2>1
  <2> HIDE DEF m
  <2>4. ActShape(act') /\ act'.rec = act.rec /\ act'.disposition = act.disposition
    <3>1. LET b == [m EXCEPT !.rev = rev]
          IN ActShape(b) /\ b.rec = m.rec /\ b.disposition = m.disposition
      BY <2>2, ActSetOne
    <3> QED BY <2>2, <2>3, <3>1
  <2> QED BY <1>1, <2>4, ActMoves, ActAssembled
<1> QED BY <1>2, <1>3, <1>4

\* Act keeps the invariant and undoes nothing.
LEMMA ActKeeps ==
  ASSUME IInv, ActStep
  PROVE  IInv' /\ ~Undoes
<1>1. tick' = tick /\ cursor' = cursor /\ start' = start /\ act.pc # "idle"
  BY DEF ActStep, Stop, StopCancel, StopCancelling, ActInbox, ActFinish, ActUnchanged
<1>2. CASE Stop
  <2>1. "stopping" \in Phases \ {"none", "available"}
    BY DEF Phases
  <2>2. Orderly
    BY <1>1, <1>2, <2>1, ActCopy, PhasePatch DEF Stop
  <2> QED BY <1>1, <1>2, <2>2, ActGoesOn DEF Stop
<1>3. CASE StopCancel
  <2>1. Orderly BY <1>1, <1>3, KeepOrderly DEF StopCancel, KeepsRecord
  <2> QED BY <1>1, <1>3, <2>1, ActGoesOn DEF StopCancel, ActDone
<1>4. CASE StopCancelling
  <2>1. Orderly BY <1>1, <1>4, KeepOrderly DEF StopCancelling, KeepsRecord
  <2> QED BY <1>1, <1>4, <2>1, ActGoesOn DEF StopCancelling
<1>5. CASE ActInbox
  <2>1. Orderly BY <1>1, <1>5, KeepOrderly DEF ActInbox, KeepsRecord
  <2> QED BY <1>1, <1>5, <2>1, ActGoesOn DEF ActInbox
<1>6. CASE ActFinish
  <2>1. Orderly
    BY <1>1, <1>6, ActCopy, CloseOrderly DEF ActFinish
  <2> QED BY <1>1, <1>6, <2>1, ActGoesOn DEF ActFinish
<1> QED BY <1>2, <1>3, <1>4, <1>5, <1>6 DEF ActStep

\* An action begins with the record it reads under the mutex.
LEMMA BeginActionKeeps ==
  ASSUME IInv, BeginAction
  PROVE  IInv' /\ ~Undoes
<1>1. /\ tick' = tick /\ cursor' = cursor /\ start' = start /\ Outstanding
  BY DEF BeginAction, ActUnchanged
<1>2. Live(rec) /\ rec \in Records /\ rec.stopped \in BOOLEAN /\ Copy(rec, rec)
  BY <1>1, OutstandingLive, RecordFields DEF Outstanding, IInv, RecordOK, Copy
<1>3. CASE act' = act /\ Patch(rec, rec)
  <2>1. Orderly
    BY <1>1, <1>2, <1>3, PatchOrderly DEF Outstanding
  <2> QED BY <1>1, <1>3, <2>1, PlacesStay DEF IInv, TickOK
<1>4. CASE act' = act /\ rec.package # "absent"
           /\ Patch(rec, [rec EXCEPT !.phase = "catching-up", !.attempts = 0])
  <2> DEFINE new == [rec EXCEPT !.phase = "catching-up", !.attempts = 0]
  <2>1. /\ new \in Records /\ new.phase = "catching-up"
        /\ new.stopped = rec.stopped /\ new.package = rec.package
    BY <1>2 DEF Records, Phases
  <2>2. Patch(rec, new)
    BY <1>4
  <2> HIDE DEF new
  <2>3. Orderly
    BY <1>1, <1>2, <2>1, <2>2, PatchOrderly
  <2> QED BY <1>1, <1>4, <2>3, PlacesStay DEF IInv, TickOK
<1>5. CASE /\ KeepsRecord
           /\ \/ act' = [ActIdle EXCEPT !.pc = "stop", !.rec = rec]
              \/ \E d \in {"delivered", "no-update"} :
                   act' = [ActIdle EXCEPT !.pc = "finish", !.rec = rec, !.disposition = d]
  <2>1. Orderly
    BY <1>1, <1>5, KeepOrderly DEF KeepsRecord
  <2>2. /\ ActShape(act') /\ act'.rec = rec
        /\ act'.disposition \in {"none", "delivered", "no-update"}
    <3>1. CASE act' = [ActIdle EXCEPT !.pc = "stop", !.rec = rec]
      <4>1. act' = [pc |-> "stop", rec |-> rec, rev |-> 0, disposition |-> "none"]
        BY <3>1 DEF ActIdle
      <4> QED BY <4>1 DEF ActShape
    <3>2. ASSUME NEW d \in {"delivered", "no-update"},
                 act' = [ActIdle EXCEPT !.pc = "finish", !.rec = rec, !.disposition = d]
          PROVE  /\ ActShape(act') /\ act'.rec = rec
                 /\ act'.disposition \in {"none", "delivered", "no-update"}
      <4>1. act' = [pc |-> "finish", rec |-> rec, rev |-> 0, disposition |-> d]
        BY <3>2 DEF ActIdle
      <4> QED BY <4>1 DEF ActShape
    <3> QED BY <1>5, <3>1, <3>2
  <2>3. rec' = rec
    BY <1>5 DEF KeepsRecord
  <2>4. ActOK'
    BY <1>2, <2>2, <2>3 DEF ActOK
  <2> QED BY <1>1, <2>1, <2>4, ActAssembled
<1>6. CASE HasDelivered
  BY <1>5, <1>6 DEF BeginAction
<1>7. CASE BeginStop
  BY <1>5, <1>7 DEF BeginStop
<1>8. CASE Dismiss
  BY <1>5, <1>8 DEF Dismiss
<1>9. CASE Retry
  BY <1>3, <1>4, <1>9 DEF Retry
<1> QED BY <1>6, <1>7, <1>8, <1>9 DEF BeginAction

-----------------------------------------------------------------------------
(* The outside, and all steps together. *)

\* Outside keeps the invariant and undoes nothing.
LEMMA OutsideKeeps ==
  ASSUME IInv, Worker \/ Message \/ Flip \/ CancelAll \/ UNCHANGED vars
  PROVE  IInv' /\ ~Undoes
<1>1. cursor' \in Nat
  BY DEF IInv, TickOK, Worker, Message, Flip, CancelAll, vars, workVars
<1>2. UNCHANGED <<rec, reserved, start, tick, act>>
  BY DEF Worker, Message, Flip, CancelAll, KeepsRecord, vars, workVars
<1> QED BY <1>1, <1>2, KeepOrderly, PlacesStay

\* A restart restores the reservation and forgets the activities.
LEMMA RestartKeeps ==
  ASSUME IInv, Restart
  PROVE  IInv' /\ ~Undoes
<1>1. /\ rec' = rec /\ cursor' = cursor /\ start' = "idle" /\ tick' = TickIdle
      /\ act' = ActIdle /\ reserved' = Outstanding
  BY DEF Restart, Restored
<1>2. Orderly
  BY <1>1 DEF Orderly, Advance, ReservationExact, Outstanding, StartOK
<1>3. TickOK' /\ ActOK'
  BY <1>1, <1>2, TickRests, ActRests DEF IInv, Orderly, TickOK
<1> QED BY <1>2, <1>3, Assembled

\* Step keeps the invariant and undoes nothing.
LEMMA StepKeeps ==
  ASSUME IInv, [Next]_vars
  PROVE  IInv' /\ ~Undoes
BY StartKeeps, TickKeeps, BeginActionKeeps, ActKeeps, OutsideKeeps, RestartKeeps DEF Next

\* For every bound and every number of attempts: the invariant holds.
THEOREM WorkInvariant == Spec => []IInv
BY InitInvariant, StepKeeps, PTL DEF Spec

\* The participant is withheld exactly while the protected work is outstanding
\* or is being admitted, for every bound.
THEOREM ReservationIsExact == Spec => []ReservationExact
<1>1. IInv => ReservationExact
  BY DEF IInv
<1> QED BY <1>1, WorkInvariant, PTL

\* A closed record does not change any more, and a confirmed stop keeps its
\* package, for every bound.
THEOREM NothingIsUndone == Spec => NothingUndone
<1>1. ASSUME IInv, [Next]_vars
      PROVE  [/\ rec.phase = "available" => rec' = rec
              /\ rec.stopped => rec'.stopped /\ rec'.package = rec.package]_vars
  BY <1>1, StepKeeps DEF Undoes
<1> QED BY <1>1, WorkInvariant, PTL DEF Spec, NothingUndone

-----------------------------------------------------------------------------
(* The promise of ParticipantAbsence, when the room can be saved.  The second *)
(* invariant is about the report: where it can be while a return is under way *)
(* and what the record says of it.                                            *)

Outcome == IF posted = "no" THEN "no-update" ELSE "delivered"

\* A tick at one of these places has not delivered anything ...
NotYet == {"job", "authority", "cancel", "cancelling", "confirm", "package", "return",
           "entry", "run", "running", "reported", "final", "deliver", "capacity"}
\* ... and at one of these it knows that the work was stopped.
Returning == {"entry", "run", "running", "reported"}
Finishing == {"saving", "finish", "acknowledged"}

Recorded ==
    /\ posted \in {"no", "memory", "saved"}
    /\ posted # "no" => rec.stopped
    /\ rec.phase = "report-pending" => rec.stopped
    /\ rec.disposition = IF rec.phase = "available" THEN Outcome ELSE "none"

TickPlace ==
    /\ tick.pc \in NotYet => posted = "no"
    /\ tick.pc \in Returning => tick.rec.stopped
    /\ tick.pc = "saving" => posted # "no" /\ rec.phase # "available"
    /\ posted = "memory" => tick.pc = "saving"

ActPlace ==
    /\ act.pc \in {"finish", "acknowledged"} => act.disposition = Outcome
    /\ act.pc # "idle" => tick.pc \notin Finishing

DInv == Recorded /\ TickPlace /\ ActPlace

\* A step of the promise, or none.
Follows == [Absence!Next]_(Absence!absence)

\* The second invariant holds initially.
LEMMA InitDelivery == Init => DInv
BY DEF Init, DInv, Recorded, TickPlace, ActPlace, NoRecord, TickIdle, ActIdle,
       NotYet, Returning, Finishing

\* A step that keeps the record is a stutter of the promise.
LEMMA KeepFollows ==
  ASSUME UNCHANGED <<rec, reserved, posted>>, start' = start
  PROVE  Follows
BY DEF Follows, Absence!absence, Stage

\* A step that keeps record and room keeps what is recorded.
LEMMA KeepRecorded ==
  ASSUME DInv, UNCHANGED <<rec, posted>>
  PROVE  Recorded'
BY DEF DInv, Recorded, Outcome

\* An accepted patch of an outstanding record keeps stage and outcome.
LEMMA PatchFollows ==
  ASSUME IInv, DInv, NEW r, Copy(r, rec), Live(r),
         NEW new \in Records, new.phase \notin {"none", "available"},
         new.stopped = r.stopped, new.disposition = r.disposition,
         new.phase = "report-pending" => new.stopped,
         Patch(r, new), start' = start, posted' = posted
  PROVE  Follows /\ Recorded'
<1>1. CASE ~Fresh(r)
  BY <1>1, KeepFollows, KeepRecorded DEF Patch, Write
<1>2. CASE Fresh(r)
  <2>1. r = rec /\ rec.rev \in Nat /\ rec.rev >= 1
    BY <1>2, FreshCopy, LiveCopy, RecordFields DEF IInv, RecordOK
  <2>2. rec' = [new EXCEPT !.rev = rec.rev + 1] /\ reserved' = reserved
    BY <1>2, <2>1 DEF Patch, Write
  <2>3. /\ rec'.rev = rec.rev + 1 /\ rec'.phase = new.phase
        /\ rec'.stopped = rec.stopped /\ rec'.disposition = rec.disposition
    BY <2>1, <2>2 DEF Records
  <2>4. rec.phase \notin {"none", "available"} /\ rec'.rev # 0 /\ rec.rev # 0
    BY <2>1, <2>3 DEF Live
  <2> QED BY <2>2, <2>3, <2>4
          DEF Follows, Absence!absence, Stage, DInv, Recorded, Outcome
<1> QED BY <1>1, <1>2

\* An accepted closing is the return, if its disposition agrees with the room.
LEMMA CloseFollows ==
  ASSUME IInv, DInv, NEW r, Copy(r, rec), Live(r), r \in Records,
         NEW d \in {"delivered", "no-update"}, Fresh(r) => d = Outcome,
         Close(r, d), start' = start \/ (start # "claimed" /\ start' = "idle"),
         posted' = posted
  PROVE  Follows /\ Recorded'
<1>0. rec.rev >= 1 /\ start # "claimed" /\ rec.rev \in Nat /\ rec.rev # 0
  <2>1. rec.rev >= 1 /\ start # "claimed" /\ rec.rev \in Nat
    BY LiveCopy, RecordFields DEF IInv, RecordOK
  <2> QED BY <2>1
<1>1. CASE ~Fresh(r)
  <2>1. UNCHANGED <<rec, reserved>>
    BY <1>1 DEF Close, Write
  <2> QED BY <1>0, <2>1, KeepRecorded DEF Follows, Absence!absence, Stage
<1>2. CASE Fresh(r)
  <2> DEFINE new == [r EXCEPT !.phase = "available", !.disposition = d]
  <2>1. /\ new \in Records /\ new.phase = "available" /\ new.disposition = d
        /\ new.stopped = r.stopped
    BY DEF Records, Phases
  <2>2. rec' = Write(r, new) /\ reserved' = FALSE
    BY <1>2 DEF Close
  <2> HIDE DEF new
  <2>3. r = rec
    BY <1>2, FreshCopy
  <2>4. rec' = [new EXCEPT !.rev = rec.rev + 1]
    BY <1>2, <2>2, <2>3 DEF Write
  <2>5. /\ rec'.rev = rec.rev + 1 /\ rec'.phase = "available"
        /\ rec'.stopped = rec.stopped /\ rec'.disposition = d
    BY <1>0, <2>1, <2>3, <2>4 DEF Records
  <2>6. rec.phase # "available" /\ rec'.rev # 0
    BY <1>0, <2>3, <2>5 DEF Live
  <2>7. d = Outcome
    BY <1>2
  <2>8. Stage \in {"away", "stopped"} /\ Stage' = "back"
    BY <1>0, <2>5, <2>6 DEF Stage
  <2>9. Follows
    BY <2>2, <2>5, <2>7, <2>8 DEF Follows, Absence!Next, Absence!ComeBack, Outcome
  <2> QED BY <2>5, <2>7, <2>9 DEF DInv, Recorded, Outcome
<1> QED BY <1>1, <1>2

\* Patching only the phase.
LEMMA PhaseFollows ==
  ASSUME IInv, DInv, NEW r \in Records, Copy(r, rec), Live(r),
         NEW p \in Phases \ {"none", "available", "report-pending"},
         Patch(r, [r EXCEPT !.phase = p]), start' = start, posted' = posted
  PROVE  Follows /\ Recorded'
<1> DEFINE new == [r EXCEPT !.phase = p]
<1>1. /\ new \in Records /\ new.phase = p /\ new.stopped = r.stopped
      /\ new.disposition = r.disposition
  BY DEF Records
<1>2. Patch(r, new)
  OBVIOUS
<1> HIDE DEF new
<1> QED BY <1>1, <1>2, PatchFollows

\* A tick comes to another place while nothing happens to the report.
LEMMA TickLands ==
  ASSUME DInv, Recorded', posted' = posted, act' = act, tick.pc # "saving",
         tick'.pc # "saving",
         tick'.pc \in NotYet => posted = "no",
         tick'.pc \in Returning => tick'.rec.stopped,
         tick'.pc \in Finishing => act.pc = "idle"
  PROVE  DInv'
BY DEF DInv, TickPlace, ActPlace, Outcome

\* A tick that ends keeps the second invariant.
LEMMA TickEndsWell ==
  ASSUME DInv, Recorded', posted' = posted, act' = act, tick.pc # "saving", TickDone
  PROVE  DInv'
<1>1. tick'.pc = "idle"
  BY DEF TickDone, TickIdle
<1> QED BY <1>1, TickLands DEF NotYet, Returning, Finishing

\* A tick goes to another place with the record it has.
LEMMA TickGoesWell ==
  ASSUME IInv, DInv, Recorded', posted' = posted, act' = act, tick.pc # "saving",
         NEW pc, Goto(pc), pc # "saving",
         pc \in NotYet => posted = "no",
         pc \in Returning => tick.rec.stopped,
         pc \in Finishing => act.pc = "idle"
  PROVE  DInv'
<1>1. TickIs(tick', pc, tick.rec, tick.cursor, tick.text)
  BY TickSetOne DEF IInv, TickOK, Goto
<1>2. tick'.pc = pc /\ tick'.rec = tick.rec
  BY <1>1 DEF TickIs
<1> QED BY <1>2, TickLands

\* What the places of a tick say.
LEMMA PlaceFacts ==
  ASSUME DInv
  PROVE  /\ tick.pc \in NotYet => posted = "no"
         /\ tick.pc \in Returning => tick.rec.stopped
         /\ tick.pc = "saving" => posted # "no" /\ rec.phase # "available"
         /\ act.pc # "idle" => tick.pc \notin Finishing
BY DEF DInv, TickPlace, ActPlace

\* Waiting keeps the second invariant and follows the promise.
LEMMA WaitingFollows ==
  ASSUME IInv, DInv, List \/ TickCancel \/ TickCancelling \/ EnterReturn \/ RunReturn \/ Assess
  PROVE  DInv' /\ Follows
<1>1. /\ UNCHANGED <<rec, reserved, posted>> /\ start' = start /\ act' = act
      /\ tick.pc \notin {"saving", "finish", "acknowledged"}
  BY DEF List, TickCancel, TickCancelling, EnterReturn, RunReturn, Assess, KeepsRecord,
         TickUnchanged, ReturnUnchanged
<1>2. Recorded' /\ Follows
  BY <1>1, KeepRecorded, KeepFollows
<1>3. TickShape(tick)
  BY DEF IInv, TickOK
<1>4. CASE List
  <2> DEFINE pc == IF HasDelivered THEN "recheck" ELSE "job"
  <2>1. /\ tick' = [TickIdle EXCEPT !.pc = pc, !.rec = rec]
        /\ pc \in {"recheck", "job"} /\ (pc = "job" => posted = "no")
    BY <1>4 DEF List, HasDelivered
  <2> HIDE DEF pc
  <2>2. TickShape(TickIdle)
    BY DEF TickShape, TickIdle
  <2>3. TickIs(tick', pc, rec, TickIdle.cursor, TickIdle.text)
    BY <2>1, <2>2, TickSetTwo
  <2>4. tick'.pc = pc
    BY <2>3 DEF TickIs
  <2> QED BY <1>1, <1>2, <2>1, <2>4, TickLands DEF NotYet, Returning, Finishing
<1>5. CASE TickCancel \/ TickCancelling
  <2>1. tick.pc \in {"cancel", "cancelling"} /\ posted = "no"
    BY <1>5, PlaceFacts DEF TickCancel, TickCancelling, NotYet
  <2>2. \/ tick' = [tick EXCEPT !.pc = "cancelling", !.rev = job.rev]
        \/ tick' = [tick EXCEPT !.pc = AfterCancel(tick.tries), !.tries = tick.tries - 1]
    BY <1>5 DEF TickCancel, TickCancelling
  <2>3. AfterCancel(tick.tries) \in {"cancel", "confirm"}
    BY DEF AfterCancel
  <2>4. tick'.pc \in {"cancelling", "cancel", "confirm"}
    <3>1. CASE tick' = [tick EXCEPT !.pc = "cancelling", !.rev = job.rev]
      <4>1. TickIs(tick', "cancelling", tick.rec, tick.cursor, tick.text)
        BY <1>3, <3>1, TickSetTwo
      <4> QED BY <4>1 DEF TickIs
    <3>2. CASE tick' = [tick EXCEPT !.pc = AfterCancel(tick.tries), !.tries = tick.tries - 1]
      <4>1. TickIs(tick', AfterCancel(tick.tries), tick.rec, tick.cursor, tick.text)
        BY <1>3, <3>2, TickSetTwo
      <4> QED BY <2>3, <4>1 DEF TickIs
    <3> QED BY <2>2, <3>1, <3>2
  <2> QED BY <1>1, <1>2, <2>1, <2>4, TickLands DEF Returning, Finishing
<1>6. CASE EnterReturn
  <2>1. posted = "no"
    BY <1>6, PlaceFacts DEF EnterReturn, NotYet
  <2>2. CASE TickDone
    BY <1>1, <1>2, <2>2, TickEndsWell
  <2>3. CASE ~TickDone
    <3>1. tick' = [tick EXCEPT !.rec = rec, !.pc = "entry"] /\ rec.package # "absent"
      BY <1>6, <2>1, <2>3 DEF EnterReturn, HasDelivered
    <3>2. TickIs(tick', "entry", rec, tick.cursor, tick.text)
      BY <1>3, <3>1, TickSetTwo
    <3>3. tick'.pc = "entry" /\ tick'.rec.stopped
      BY <3>1, <3>2 DEF TickIs, IInv, RecordOK
    <3> QED BY <1>1, <1>2, <2>1, <3>3, TickLands DEF Finishing
  <2> QED BY <2>2, <2>3
<1>7. CASE RunReturn \/ Assess
  <2>1. tick.pc \in {"run", "running"} /\ posted = "no" /\ tick.rec.stopped
    BY <1>7, PlaceFacts DEF RunReturn, Assess, NotYet, Returning
  <2>2. tick'.pc \in {"running", "capacity", "failed", "reported"} /\ tick'.rec = tick.rec
    <3>1. CASE Goto("capacity") \/ Goto("failed")
      <4>1. PICK pc \in {"capacity", "failed"} : tick' = [tick EXCEPT !.pc = pc]
        BY <3>1 DEF Goto
      <4>2. TickIs(tick', pc, tick.rec, tick.cursor, tick.text)
        BY <1>3, <4>1, TickSetOne
      <4> QED BY <4>2 DEF TickIs
    <3>2. CASE tick' = [tick EXCEPT !.pc = "running", !.cursor = cursor]
      <4>1. TickIs(tick', "running", tick.rec, cursor, tick.text)
        BY <1>3, <3>2, TickSetTwo
      <4> QED BY <4>1 DEF TickIs
    <3>3. CASE \E text \in BOOLEAN : tick' = [tick EXCEPT !.pc = "reported", !.text = text]
      <4>1. PICK text \in BOOLEAN : tick' = [tick EXCEPT !.pc = "reported", !.text = text]
        BY <3>3
      <4>2. TickIs(tick', "reported", tick.rec, tick.cursor, text)
        BY <1>3, <4>1, TickSetTwo
      <4> QED BY <4>2 DEF TickIs
    <3> QED BY <1>7, <3>1, <3>2, <3>3 DEF RunReturn, Assess
  <2> QED BY <1>1, <1>2, <2>1, <2>2, TickLands DEF Finishing
<1> QED BY <1>4, <1>5, <1>6, <1>7

\* Block keeps the second invariant and follows the promise.
LEMMA BlockFollows ==
  ASSUME IInv, DInv, tick.pc \notin {"idle", "saving"}, start' = start, act' = act,
         posted' = posted, TickDone,
         Patch(tick.rec, [tick.rec EXCEPT !.phase = "blocked"])
  PROVE  DInv' /\ Follows
<1>1. "blocked" \in Phases \ {"none", "available", "report-pending"}
  BY DEF Phases
<1>2. Follows /\ Recorded'
  BY <1>1, TickCopy, PhaseFollows
<1> QED BY <1>2, TickEndsWell

\* A tick writes a patch and goes on with what it wrote, or ends.
LEMMA WroteFollows ==
  ASSUME IInv, DInv, tick.pc \notin {"idle", "saving"}, start' = start, act' = act,
         posted' = posted, posted = "no", tick.rec.stopped,
         NEW new \in Records, new.phase \notin {"none", "available"},
         new.stopped = tick.rec.stopped, new.disposition = tick.rec.disposition,
         Patch(tick.rec, new), NEW pc \in {"run", "final"},
         IF Fresh(tick.rec) THEN tick' = [tick EXCEPT !.pc = pc, !.rec = rec'] ELSE TickDone
  PROVE  DInv' /\ Follows
<1>1. Follows /\ Recorded'
  BY TickCopy, PatchFollows
<1>2. CASE Fresh(tick.rec)
  <2>1. TickShape(tick) /\ tick' = [tick EXCEPT !.pc = pc, !.rec = rec']
    BY <1>2 DEF IInv, TickOK
  <2>2. TickIs(tick', pc, rec', tick.cursor, tick.text)
    BY <2>1, TickSetTwo
  <2>3. rec' = [new EXCEPT !.rev = tick.rec.rev + 1]
    BY <1>2 DEF Patch, Write
  <2>4. rec'.stopped
    BY <2>3 DEF Records
  <2>5. tick'.pc = pc /\ tick'.rec.stopped
    BY <2>2, <2>4 DEF TickIs
  <2> QED BY <1>1, <2>5, TickLands DEF Finishing
<1>3. CASE ~Fresh(tick.rec)
  BY <1>1, <1>3, TickEndsWell
<1> QED BY <1>2, <1>3

\* ReadJob keeps the second invariant and follows the promise.
LEMMA ReadJobFollows ==
  ASSUME IInv, DInv, ReadJob
  PROVE  DInv' /\ Follows
<1>1. /\ tick.pc = "job" /\ start' = start /\ act' = act /\ posted' = posted
      /\ posted = "no"
  BY PlaceFacts DEF ReadJob, TickUnchanged, NotYet
<1>2. CASE Close(tick.rec, "no-update") /\ TickDone
  <2>1. Follows /\ Recorded'
    BY <1>1, <1>2, TickCopy, CloseFollows DEF Outcome
  <2> QED BY <1>1, <1>2, <2>1, TickEndsWell
<1>3. CASE /\ KeepsRecord
           /\ tick' = [tick EXCEPT !.job = job,
                         !.pc = IF tick.rec.package = "absent" THEN "authority" ELSE "return"]
  <2> DEFINE pc == IF tick.rec.package = "absent" THEN "authority" ELSE "return"
  <2>1. TickShape(tick) /\ tick' = [tick EXCEPT !.job = job, !.pc = pc]
    BY <1>3 DEF IInv, TickOK
  <2>2. pc \in {"authority", "return"}
    OBVIOUS
  <2> HIDE DEF pc
  <2>3. TickIs(tick', pc, tick.rec, tick.cursor, tick.text)
    BY <2>1, TickSetTwo
  <2>4. tick'.pc \in {"authority", "return"}
    BY <2>2, <2>3 DEF TickIs
  <2>5. Recorded' /\ Follows
    BY <1>1, <1>3, KeepRecorded, KeepFollows DEF KeepsRecord
  <2> QED BY <1>1, <2>4, <2>5, TickLands DEF Returning, Finishing
<1> QED BY <1>2, <1>3 DEF ReadJob

\* Supervise keeps the second invariant and follows the promise.
LEMMA SuperviseFollows ==
  ASSUME IInv, DInv, Supervise
  PROVE  DInv' /\ Follows
<1>1. /\ tick.pc = "authority" /\ start' = start /\ act' = act /\ posted' = posted
      /\ posted = "no"
  BY PlaceFacts DEF Supervise, TickUnchanged, NotYet
<1>2. CASE TickDone
  <2>1. KeepsRecord \/ Patch(tick.rec, [tick.rec EXCEPT !.phase = WorkerPhase(tick.job)])
    BY <1>2 DEF Supervise
  <2>2. WorkerPhase(tick.job) \in Phases \ {"none", "available", "report-pending"}
    BY DEF WorkerPhase, Phases
  <2>3. Follows /\ Recorded'
    BY <1>1, <2>1, <2>2, TickCopy, KeepFollows, KeepRecorded, PhaseFollows DEF KeepsRecord
  <2> QED BY <1>1, <1>2, <2>3, TickEndsWell
<1>3. CASE /\ KeepsRecord
           /\ tick' = IF Nonterminal(tick.job)
                      THEN [tick EXCEPT !.pc = "cancel", !.tries = IF authority THEN 1 ELSE 2]
                      ELSE [tick EXCEPT !.pc = "confirm"]
  <2> DEFINE tries == IF authority THEN 1 ELSE 2
  <2>1. \/ tick' = [tick EXCEPT !.pc = "cancel", !.tries = tries]
        \/ tick' = [tick EXCEPT !.pc = "confirm"]
    BY <1>3
  <2> HIDE DEF tries
  <2>2. TickShape(tick)
    BY DEF IInv, TickOK
  <2>3. tick'.pc \in {"cancel", "confirm"}
    <3>1. CASE tick' = [tick EXCEPT !.pc = "cancel", !.tries = tries]
      <4>1. TickIs(tick', "cancel", tick.rec, tick.cursor, tick.text)
        BY <2>2, <3>1, TickSetTwo
      <4> QED BY <4>1 DEF TickIs
    <3>2. CASE tick' = [tick EXCEPT !.pc = "confirm"]
      <4>1. TickIs(tick', "confirm", tick.rec, tick.cursor, tick.text)
        BY <2>2, <3>2, TickSetOne
      <4> QED BY <4>1 DEF TickIs
    <3> QED BY <2>1, <3>1, <3>2
  <2>4. Recorded' /\ Follows
    BY <1>1, <1>3, KeepRecorded, KeepFollows DEF KeepsRecord
  <2> QED BY <1>1, <2>3, <2>4, TickLands DEF Returning, Finishing
<1> QED BY <1>2, <1>3 DEF Supervise

\* Confirm keeps the second invariant and follows the promise.
LEMMA ConfirmFollows ==
  ASSUME IInv, DInv, Confirm
  PROVE  DInv' /\ Follows
<1>1. /\ tick.pc = "confirm" /\ start' = start /\ act' = act /\ posted' = posted
      /\ posted = "no"
  BY PlaceFacts DEF Confirm, TickUnchanged, NotYet
<1>2. CASE Goto("package") /\ KeepsRecord
  <2>1. Recorded' /\ Follows
    BY <1>1, <1>2, KeepRecorded, KeepFollows DEF KeepsRecord
  <2> QED BY <1>1, <1>2, <2>1, TickGoesWell DEF Returning, Finishing
<1>3. CASE Unconfirmed /\ TickDone
  BY <1>1, <1>3, BlockFollows DEF Unconfirmed
<1> QED BY <1>2, <1>3 DEF Confirm

\* The one step that confirms a stop.
LEMMA PackageFollows ==
  ASSUME IInv, DInv, Package
  PROVE  DInv' /\ Follows
<1>1. /\ tick.pc = "package" /\ start' = start /\ act' = act /\ posted' = posted
      /\ posted = "no" /\ tick.rec.package = "absent"
  BY PlaceFacts DEF Package, TickUnchanged, NotYet, IInv, TickOK, BeforePackage
<1> DEFINE found == Findings(tick.job)
           new == [tick.rec EXCEPT !.phase = "catching-up", !.stopped = TRUE, !.package = found]
<1>2. found \in Packages
  BY DEF Findings, Packages
<1> HIDE DEF found
<1>3. Copy(tick.rec, rec) /\ Live(tick.rec) /\ tick.rec \in Records
  BY <1>1, TickCopy
<1>4. /\ new \in Records /\ new.phase = "catching-up" /\ new.stopped = TRUE
      /\ new.disposition = tick.rec.disposition
  BY <1>2, <1>3 DEF Records, Phases
<1>5. Patch(tick.rec, new)
  BY DEF Package, found
<1> HIDE DEF new
<1>6. CASE Fresh(tick.rec)
  <2>1. tick.rec = rec /\ ~rec.stopped /\ rec.rev \in Nat /\ rec.rev >= 1 /\ start # "claimed"
    BY <1>1, <1>3, <1>6, FreshCopy, LiveCopy, RecordFields DEF IInv, RecordOK
  <2>2. rec' = [new EXCEPT !.rev = rec.rev + 1] /\ reserved' = reserved
    BY <1>5, <1>6, <2>1 DEF Patch, Write
  <2>3. /\ rec'.rev = rec.rev + 1 /\ rec'.phase = "catching-up"
        /\ rec'.stopped = TRUE /\ rec'.disposition = rec.disposition
    BY <1>4, <2>1, <2>2 DEF Records
  <2>4. rec.phase \notin {"none", "available"} /\ rec'.rev # 0 /\ rec.rev # 0
    BY <1>3, <2>1, <2>3 DEF Live
  <2>5. Stage = "away" /\ Stage' = "stopped"
    BY <2>1, <2>3, <2>4 DEF Stage
  <2>6. Follows
    BY <1>1, <2>2, <2>3, <2>5 DEF Follows, Absence!Next, Absence!ConfirmStop
  <2>7. Recorded'
    BY <1>1, <2>3, <2>4 DEF DInv, Recorded
  <2>8. Goto("return")
    BY <1>6 DEF Package
  <2> QED BY <1>1, <2>6, <2>7, <2>8, TickGoesWell DEF Returning, Finishing
<1>7. CASE ~Fresh(tick.rec)
  <2>1. UNCHANGED <<rec, reserved>>
    BY <1>5, <1>7 DEF Patch, Write
  <2>2. Recorded' /\ Follows
    BY <1>1, <2>1, KeepRecorded, KeepFollows
  <2> QED BY <1>1, <1>7, <2>2, TickEndsWell DEF Package
<1> QED BY <1>6, <1>7

\* PrepareReturn keeps the second invariant and follows the promise.
LEMMA PrepareReturnFollows ==
  ASSUME IInv, DInv, PrepareReturn
  PROVE  DInv' /\ Follows
<1>1. /\ tick.pc = "entry" /\ start' = start /\ act' = act /\ posted' = posted
      /\ posted = "no" /\ tick.rec.stopped
  BY PlaceFacts DEF PrepareReturn, ReturnUnchanged, NotYet, Returning
<1>2. CASE Patch(tick.rec, [tick.rec EXCEPT !.phase = "blocked"]) /\ TickDone
  BY <1>1, <1>2, BlockFollows
<1>3. CASE KeepsRecord /\ (Goto("final") \/ Goto("failed"))
  <2>1. Recorded' /\ Follows
    BY <1>1, <1>3, KeepRecorded, KeepFollows DEF KeepsRecord
  <2> QED BY <1>1, <1>3, <2>1, TickGoesWell DEF Returning, Finishing
<1>4. CASE BeginAssessment
  <2> DEFINE n == tick.rec.attempts + 1
             new == [tick.rec EXCEPT !.phase = "catching-up", !.report = None,
                       !.text = FALSE, !.attempts = n]
  <2>1. n \in Nat
    BY <1>1, TickCopy, RecordFields
  <2> HIDE DEF n
  <2>2. /\ new \in Records /\ new.phase = "catching-up"
        /\ new.stopped = tick.rec.stopped /\ new.disposition = tick.rec.disposition
    BY <1>1, <2>1, TickCopy DEF Records, Phases, None
  <2>3. Patch(tick.rec, new)
    BY <1>4 DEF BeginAssessment, n
  <2>4. IF Fresh(tick.rec) THEN tick' = [tick EXCEPT !.pc = "run", !.rec = rec'] ELSE TickDone
    BY <1>4 DEF BeginAssessment
  <2> HIDE DEF new
  <2> QED BY <1>1, <2>2, <2>3, <2>4, WroteFollows
<1> QED BY <1>2, <1>3, <1>4 DEF PrepareReturn

\* StoreReport keeps the second invariant and follows the promise.
LEMMA StoreReportFollows ==
  ASSUME IInv, DInv, StoreReport
  PROVE  DInv' /\ Follows
<1>1. /\ tick.pc = "reported" /\ start' = start /\ act' = act /\ posted' = posted
      /\ posted = "no" /\ tick.rec.stopped
  BY PlaceFacts DEF StoreReport, ReturnUnchanged, NotYet, Returning
<1> DEFINE c == tick.cursor  text == tick.text
           new == [tick.rec EXCEPT !.phase = "report-pending", !.report = c, !.text = text]
<1>2. c \in Nat /\ text \in BOOLEAN
  BY DEF IInv, TickOK
<1> HIDE DEF c, text
<1>3. /\ new \in Records /\ new.phase = "report-pending"
      /\ new.stopped = tick.rec.stopped /\ new.disposition = tick.rec.disposition
  BY <1>1, <1>2, TickCopy DEF Records, Phases
<1>4. Patch(tick.rec, new)
  BY DEF StoreReport, c, text
<1>5. IF Fresh(tick.rec) THEN tick' = [tick EXCEPT !.pc = "final", !.rec = rec'] ELSE TickDone
  BY DEF StoreReport
<1> HIDE DEF new
<1> QED BY <1>1, <1>3, <1>4, <1>5, WroteFollows

\* FinalCheck keeps the second invariant and follows the promise.
LEMMA FinalCheckFollows ==
  ASSUME IInv, DInv, FinalCheck
  PROVE  DInv' /\ Follows
<1>1. /\ tick.pc = "final" /\ start' = start /\ act' = act /\ posted' = posted
      /\ posted = "no"
  BY PlaceFacts DEF FinalCheck, ReturnUnchanged, NotYet
<1>2. CASE Patch(tick.rec, [tick.rec EXCEPT !.phase = "blocked"]) /\ TickDone
  BY <1>1, <1>2, BlockFollows
<1>3. CASE KeepsRecord /\ (Goto("deliver") \/ TickDone)
  <2>1. Recorded' /\ Follows
    BY <1>1, <1>3, KeepRecorded, KeepFollows DEF KeepsRecord
  <2> QED BY <1>1, <1>3, <2>1, TickGoesWell, TickEndsWell DEF Returning, Finishing
<1> QED BY <1>2, <1>3 DEF FinalCheck

\* The report goes to the room: only for a stopped work, and only once.
LEMMA DeliverFollows ==
  ASSUME IInv, DInv, Deliver
  PROVE  DInv' /\ Follows
<1>1. /\ tick.pc = "deliver" /\ start' = start /\ act' = act /\ act.pc = "idle"
      /\ UNCHANGED <<rec, reserved>> /\ posted = "no"
  BY PlaceFacts DEF Deliver, Locked, KeepsRecord, NotYet
<1>2. CASE TickDone /\ posted' = posted
  BY <1>1, <1>2, KeepRecorded, KeepFollows, TickEndsWell
<1>3. CASE /\ StillPending(tick.rec) /\ posted' = "memory"
           /\ tick' = [tick EXCEPT !.pc = "saving", !.rec = rec]
  <2>1. rec.phase = "report-pending" /\ rec.stopped
    BY <1>3 DEF StillPending, DInv, Recorded
  <2>2. rec.rev # 0
    BY <2>1, NoRecordFields DEF IInv, RecordOK
  <2>3. Follows
    BY <1>1, <1>3, <2>1, <2>2
       DEF Follows, Absence!Next, Absence!Report, Stage
  <2>4. Recorded'
    BY <1>1, <1>3, <2>1 DEF DInv, Recorded
  <2>5. TickIs(tick', "saving", rec, tick.cursor, tick.text)
    BY <1>3, TickSetTwo DEF IInv, TickOK
  <2>6. tick'.pc = "saving"
    BY <2>5 DEF TickIs
  <2> QED BY <1>1, <1>3, <2>1, <2>3, <2>4, <2>6
          DEF DInv, TickPlace, ActPlace, NotYet, Returning
<1>4. CASE /\ posted' = posted
           /\ tick' = [tick EXCEPT !.pc = "finish", !.rec = rec]
  <2>1. TickIs(tick', "finish", rec, tick.cursor, tick.text)
    BY <1>4, TickSetTwo DEF IInv, TickOK
  <2>2. tick'.pc = "finish"
    BY <2>1 DEF TickIs
  <2>3. Recorded' /\ Follows
    BY <1>1, <1>4, KeepRecorded, KeepFollows
  <2> QED BY <1>1, <1>4, <2>2, <2>3, TickLands DEF NotYet, Returning
<1> QED BY <1>2, <1>3, <1>4 DEF Deliver

\* The room is saved; this is where a write that fails would break the promise.
LEMMA SaveRoomFollows ==
  ASSUME IInv, DInv, SaveRoom, SaveMayFail = FALSE
  PROVE  DInv' /\ Follows
<1>1. /\ tick.pc = "saving" /\ start' = start /\ act' = act /\ act.pc = "idle"
      /\ UNCHANGED <<rec, reserved>> /\ posted' = "saved" /\ Goto("finish")
      /\ posted \in {"memory", "saved"}
  BY PlaceFacts DEF SaveRoom, KeepsRecord, Finishing, DInv, Recorded
<1>2. Follows
  BY <1>1 DEF Follows, Absence!Next, Absence!Persist, Absence!absence, Stage
<1>3. Recorded'
  BY <1>1 DEF DInv, Recorded, Outcome
<1>4. TickIs(tick', "finish", tick.rec, tick.cursor, tick.text)
  BY <1>1, TickSetOne DEF IInv, TickOK, Goto
<1>5. tick'.pc = "finish"
  BY <1>4 DEF TickIs
<1> QED BY <1>1, <1>2, <1>3, <1>5 DEF DInv, TickPlace, ActPlace, NotYet, Returning

\* Finish keeps the second invariant and follows the promise.
LEMMA FinishFollows ==
  ASSUME IInv, DInv, Recheck \/ FinishInbox \/ FinishReturn
  PROVE  DInv' /\ Follows
<1>1. /\ tick.pc \in {"recheck", "finish", "acknowledged"} /\ start' = start
      /\ act' = act /\ posted' = posted /\ act.pc = "idle"
  BY PlaceFacts
     DEF Recheck, FinishInbox, FinishReturn, Locked, ReturnUnchanged, Finishing
<1>2. CASE KeepsRecord
  <2>1. Recorded' /\ Follows
    BY <1>1, <1>2, KeepRecorded, KeepFollows DEF KeepsRecord
  <2>2. CASE TickDone
    BY <1>1, <2>1, <2>2, TickEndsWell
  <2>3. CASE Goto("acknowledged")
    BY <1>1, <2>1, <2>3, TickGoesWell DEF NotYet, Returning
  <2>4. CASE tick' = [tick EXCEPT !.pc = "finish", !.rec = rec]
    <3>1. TickIs(tick', "finish", rec, tick.cursor, tick.text)
      BY <2>4, TickSetTwo DEF IInv, TickOK
    <3>2. tick'.pc = "finish"
      BY <3>1 DEF TickIs
    <3> QED BY <1>1, <2>1, <3>2, TickLands DEF NotYet, Returning
  <2> QED BY <2>2, <2>3, <2>4 DEF Recheck, FinishInbox, FinishReturn
<1>3. CASE /\ FinishReturn
           /\ \/ HasDelivered /\ Close(tick.rec, "delivered")
              \/ ~HasDelivered /\ Close(tick.rec, "no-update")
  <2>1. Recorded' /\ Follows
    BY <1>1, <1>3, TickCopy, CloseFollows DEF Outcome, HasDelivered
  <2> QED BY <1>1, <1>3, <2>1, TickEndsWell DEF FinishReturn
<1> QED BY <1>2, <1>3 DEF Recheck, FinishInbox, FinishReturn

\* ReturnFails keeps the second invariant and follows the promise.
LEMMA ReturnFailsFollows ==
  ASSUME IInv, DInv, ReturnFails
  PROVE  DInv' /\ Follows
<1>1. /\ tick.pc \in {"failed", "capacity"} /\ start' = start /\ act' = act
      /\ posted' = posted /\ TickDone
  BY DEF ReturnFails, ReturnUnchanged
<1>2. CASE KeepsRecord
  BY <1>1, <1>2, KeepRecorded, KeepFollows, TickEndsWell DEF KeepsRecord
<1>3. CASE ~KeepsRecord
  <2> DEFINE reason == tick.pc
             new == AfterFailure(reason)
  <2>1. rec \in Records /\ rec.attempts \in Nat /\ rec.phase # "available"
    BY <1>3, RecordFields DEF ReturnFails, IInv, RecordOK
  <2>2. /\ new \in Records /\ new.phase \in {"catching-up", "blocked"}
        /\ new.stopped = rec.stopped /\ new.disposition = rec.disposition
    <3> DEFINE n == IF rec.attempts = 0 THEN 0 ELSE rec.attempts - 1
               p == IF rec.attempts \in 1 .. MaxAttempts - 1 THEN "catching-up" ELSE "blocked"
    <3>1. n \in Nat BY <2>1
    <3>2. p \in {"catching-up", "blocked"} /\ p \in Phases BY DEF Phases
    <3>3. \/ new = [rec EXCEPT !.phase = "catching-up", !.attempts = n]
          \/ new = [rec EXCEPT !.phase = p]
      BY DEF AfterFailure
    <3> HIDE DEF n, p, new
    <3>4. CASE new = [rec EXCEPT !.phase = "catching-up", !.attempts = n]
      BY <2>1, <3>1, <3>4 DEF Records, Phases
    <3>5. CASE new = [rec EXCEPT !.phase = p]
      BY <2>1, <3>2, <3>5 DEF Records
    <3> QED BY <3>3, <3>4, <3>5
  <2>3. Patch(rec, new)
    BY <1>3 DEF ReturnFails
  <2> HIDE DEF new
  <2>4. Live(rec) /\ Copy(rec, rec)
    <3>1. /\ tick.rec.rev \in Nat /\ rec.rev \in Nat /\ tick.rec.rev >= 1
          /\ tick.rec.rev <= rec.rev
      BY <1>1, TickCopy, RecordFields DEF Copy, Live, IInv, RecordOK
    <3> QED BY <2>1, <3>1 DEF IInv, RecordOK, Live, Copy
  <2>5. Follows /\ Recorded'
    BY <1>1, <2>2, <2>3, <2>4, PatchFollows
  <2> QED BY <1>1, <2>5, TickEndsWell
<1> QED BY <1>2, <1>3

\* Tick keeps the second invariant and follows the promise.
LEMMA TickFollows ==
  ASSUME IInv, DInv, TickStep, SaveMayFail = FALSE
  PROVE  DInv' /\ Follows
BY WaitingFollows, ReadJobFollows, SuperviseFollows, ConfirmFollows, PackageFollows,
   PrepareReturnFollows, StoreReportFollows, FinalCheckFollows, DeliverFollows,
   SaveRoomFollows, FinishFollows, ReturnFailsFollows DEF TickStep

\* While the tick stands still, a record that is not closed meanwhile is enough.
LEMMA TickStands ==
  ASSUME DInv, Recorded', tick' = tick, posted' = posted, act' = act,
         tick.pc = "saving" => rec'.phase # "available"
  PROVE  DInv'
BY DEF DInv, TickPlace, ActPlace, Outcome

\* Start keeps the second invariant and follows the promise.
LEMMA StartFollows ==
  ASSUME IInv, DInv, StartStep
  PROVE  DInv' /\ Follows
<1>1. tick' = tick /\ act' = act /\ posted' = posted
  BY DEF StartStep, Claim, Admit, Request, Rejected, Queued, StartUnchanged
<1>2. CASE Claim
  <2>1. rec' = rec /\ rec.rev = 0
    BY <1>2 DEF Claim
  <2>2. Stage = "here" /\ Stage' = "leaving" /\ reserved' = TRUE
    BY <1>2, <2>1 DEF Claim, Stage
  <2>3. Follows
    BY <1>1, <2>1, <2>2 DEF Follows, Absence!Next, Absence!Leave
  <2>4. Recorded'
    BY <1>1, <2>1, KeepRecorded
  <2> QED BY <1>1, <2>1, <2>3, <2>4, TickStands DEF DInv, TickPlace
<1>3. CASE Admit
  <2>1. rec = NoRecord /\ rec.rev = 0 /\ Stage = "leaving"
    BY <1>3 DEF Admit, IInv, RecordOK, StartOK, Stage
  <2>2. CASE rec' = First /\ start' = "saved" /\ reserved' = reserved
    <3>1. /\ rec'.rev = 1 /\ rec'.phase = "queued" /\ rec'.stopped = FALSE
          /\ rec'.disposition = "none" /\ rec.disposition = "none" /\ rec.stopped = FALSE
      BY <2>1, <2>2 DEF First, NoRecord
    <3>2. Stage' = "away"
      BY <3>1 DEF Stage
    <3>3. Follows
      BY <1>1, <2>1, <2>2, <3>1, <3>2 DEF Follows, Absence!Next, Absence!Depart
    <3>4. Recorded'
      BY <1>1, <3>1 DEF DInv, Recorded
    <3> QED BY <1>1, <3>1, <3>3, <3>4, TickStands
  <2>3. CASE reserved' = FALSE /\ start' = "idle" /\ rec' = rec
    <3>1. Stage' = "here"
      BY <2>1, <2>3 DEF Stage
    <3>2. Follows
      BY <1>1, <2>1, <2>3, <3>1 DEF Follows, Absence!Next, Absence!StayAfterAll
    <3>3. Recorded'
      BY <1>1, <2>3, KeepRecorded
    <3> QED BY <1>1, <2>3, <3>2, <3>3, TickStands DEF DInv, TickPlace
  <2> QED BY <1>3, <2>2, <2>3 DEF Admit, First
<1>4. CASE Request \/ Queued
  <2>1. UNCHANGED <<rec, reserved>> /\ rec.rev # 0
    <3>1. rec.rev >= 1 /\ rec.rev \in Nat
      BY <1>4, RecordFields DEF Request, Queued, IInv, RecordOK, StartOK
    <3> QED BY <1>4, <3>1 DEF Request, Queued, KeepsRecord
  <2>2. Follows
    BY <1>1, <2>1 DEF Follows, Absence!absence, Stage
  <2>3. Recorded'
    BY <1>1, <2>1, KeepRecorded
  <2> QED BY <1>1, <2>1, <2>2, <2>3, TickStands DEF DInv, TickPlace
<1>5. CASE Rejected
  <2>1. rec.rev >= 1 /\ rec.rev \in Nat /\ (rec.rev = 1 => rec = First)
        /\ start # "claimed"
    BY <1>5, RecordFields DEF Rejected, IInv, RecordOK, StartOK
  <2>2. Copy(First, rec) /\ Live(First) /\ First \in Records
    BY <2>1, FirstFields DEF Copy, Live
  <2>3. Close(First, "no-update") /\ start' = "idle"
    BY <1>5 DEF Rejected, First
  <2>4. Fresh(First) => rec = First /\ posted = "no"
    BY <2>1, FirstFields DEF Fresh, DInv, Recorded
  <2>5. Follows /\ Recorded'
    BY <1>1, <2>1, <2>2, <2>3, <2>4, CloseFollows DEF Outcome
  <2>6. tick.pc = "saving" => rec' = rec
    <3>1. ASSUME tick.pc = "saving" PROVE ~Fresh(First)
      BY <2>4, <3>1, PlaceFacts
    <3> QED BY <2>3, <3>1 DEF Close, Write
  <2> QED BY <1>1, <2>5, <2>6, TickStands DEF DInv, TickPlace
<1> QED BY <1>2, <1>3, <1>4, <1>5 DEF StartStep

\* BeginAction keeps the second invariant and follows the promise.
LEMMA BeginActionFollows ==
  ASSUME IInv, DInv, BeginAction
  PROVE  DInv' /\ Follows
<1>1. /\ tick' = tick /\ start' = start /\ posted' = posted /\ Outstanding
      /\ tick.pc \notin Finishing
  BY DEF BeginAction, ActUnchanged, Locked, Finishing
<1>2. Live(rec) /\ rec \in Records /\ rec.stopped \in BOOLEAN /\ Copy(rec, rec)
  BY <1>1, OutstandingLive, RecordFields DEF Outstanding, IInv, RecordOK, Copy
<1>3. CASE act' = act /\ rec.stopped /\ Patch(rec, rec)
  <2>1. Follows /\ Recorded'
    BY <1>1, <1>2, <1>3, PatchFollows DEF Outstanding
  <2> QED BY <1>1, <1>3, <2>1, TickStands DEF Finishing
<1>4. CASE act' = act /\ Patch(rec, [rec EXCEPT !.phase = "catching-up", !.attempts = 0])
  <2> DEFINE new == [rec EXCEPT !.phase = "catching-up", !.attempts = 0]
  <2>1. /\ new \in Records /\ new.phase = "catching-up"
        /\ new.stopped = rec.stopped /\ new.disposition = rec.disposition
    BY <1>2 DEF Records, Phases
  <2>2. Patch(rec, new)
    BY <1>4
  <2> HIDE DEF new
  <2>3. Follows /\ Recorded'
    BY <1>1, <1>2, <2>1, <2>2, PatchFollows
  <2> QED BY <1>1, <1>4, <2>3, TickStands DEF Finishing
<1>5. CASE /\ KeepsRecord
           /\ \/ act' = [ActIdle EXCEPT !.pc = "stop", !.rec = rec]
              \/ act' = [ActIdle EXCEPT !.pc = "finish", !.rec = rec, !.disposition = Outcome]
  <2>1. Recorded' /\ Follows
    BY <1>1, <1>5, KeepRecorded, KeepFollows DEF KeepsRecord
  <2>2. act'.pc = "stop" \/ (act'.pc = "finish" /\ act'.disposition = Outcome)
    <3>1. CASE act' = [ActIdle EXCEPT !.pc = "stop", !.rec = rec]
      <4>1. act' = [pc |-> "stop", rec |-> rec, rev |-> 0, disposition |-> "none"]
        BY <3>1 DEF ActIdle
      <4> QED BY <4>1
    <3>2. CASE act' = [ActIdle EXCEPT !.pc = "finish", !.rec = rec, !.disposition = Outcome]
      <4> DEFINE d == Outcome
      <4> HIDE DEF d
      <4>1. act' = [ActIdle EXCEPT !.pc = "finish", !.rec = rec, !.disposition = d]
        BY <3>2 DEF d
      <4>2. act' = [pc |-> "finish", rec |-> rec, rev |-> 0, disposition |-> d]
        BY <4>1 DEF ActIdle
      <4> QED BY <4>2 DEF d
    <3> QED BY <1>5, <3>1, <3>2
  <2>3. Outcome' = Outcome
    BY <1>1 DEF Outcome
  <2> QED BY <1>1, <1>5, <2>1, <2>2, <2>3
          DEF DInv, TickPlace, ActPlace, Finishing, KeepsRecord
<1>6. CASE HasDelivered
  BY <1>5, <1>6 DEF BeginAction, HasDelivered, Outcome
<1>7. CASE ~HasDelivered /\ BeginStop
  BY <1>5, <1>7 DEF BeginStop
<1>8. CASE ~HasDelivered /\ Dismiss
  BY <1>5, <1>8 DEF Dismiss, HasDelivered, Outcome
<1>9. CASE ~HasDelivered /\ Retry
  BY <1>3, <1>4, <1>9 DEF Retry
<1> QED BY <1>6, <1>7, <1>8, <1>9 DEF BeginAction

\* Act keeps the second invariant and follows the promise.
LEMMA ActFollows ==
  ASSUME IInv, DInv, ActStep
  PROVE  DInv' /\ Follows
<1>1. /\ tick' = tick /\ start' = start /\ posted' = posted /\ act.pc # "idle"
      /\ tick.pc \notin Finishing
  BY PlaceFacts
     DEF ActStep, Stop, StopCancel, StopCancelling, ActInbox, ActFinish, ActUnchanged
<1>2. ActShape(act)
  BY DEF IInv, ActOK
<1>3. ASSUME Recorded', act'.pc \in {"finish", "acknowledged"} => act'.disposition = Outcome
      PROVE  DInv'
  BY <1>1, <1>3 DEF DInv, TickPlace, ActPlace, Outcome, Finishing
<1>4. ActIdle.pc = "idle"
  BY DEF ActIdle
<1>5. CASE Stop
  <2>1. "stopping" \in Phases \ {"none", "available", "report-pending"}
    BY DEF Phases
  <2>2. Follows /\ Recorded'
    BY <1>1, <1>5, <2>1, ActCopy, PhaseFollows DEF Stop
  <2>3. act'.pc = "cancel"
    BY <1>2, <1>5, ActSetOne DEF Stop
  <2> QED BY <1>3, <2>2, <2>3
<1>6. CASE StopCancel \/ StopCancelling
  <2>1. Recorded' /\ Follows
    BY <1>1, <1>6, KeepRecorded, KeepFollows DEF StopCancel, StopCancelling, KeepsRecord
  <2>2. act'.pc \in {"idle", "cancelling"}
    <3>1. CASE act' = [act EXCEPT !.pc = "cancelling", !.rev = job.rev]
      <4> DEFINE m == [act EXCEPT !.pc = "cancelling"]
      <4>1. ActShape(m) /\ m.pc = "cancelling"
        BY <1>2, ActSetOne
      <4>2. act' = [m EXCEPT !.rev = job.rev]
        BY <3>1
      <4> HIDE DEF m
      <4>3. LET b == [m EXCEPT !.rev = job.rev] IN b.pc = m.pc
        BY <4>1, ActSetOne
      <4> QED BY <4>1, <4>2, <4>3
    <3> QED BY <1>4, <1>6, <3>1 DEF StopCancel, StopCancelling, ActDone
  <2> QED BY <1>3, <2>1, <2>2
<1>7. CASE ActInbox
  <2>1. Recorded' /\ Follows
    BY <1>1, <1>7, KeepRecorded, KeepFollows DEF ActInbox, KeepsRecord
  <2>2. act'.pc = "acknowledged" /\ act'.disposition = act.disposition
    BY <1>2, <1>7, ActSetOne DEF ActInbox
  <2>3. act.disposition = Outcome
    BY <1>7 DEF ActInbox, DInv, ActPlace
  <2> QED BY <1>3, <2>1, <2>2, <2>3
<1>8. CASE ActFinish
  <2>1. act.disposition = Outcome /\ Close(act.rec, act.disposition) /\ act' = ActIdle
    BY <1>8 DEF ActFinish, ActDone, DInv, ActPlace
  <2>2. Follows /\ Recorded'
    BY <1>1, <2>1, ActCopy, CloseFollows DEF Outcome
  <2> QED BY <1>3, <1>4, <2>1, <2>2
<1> QED BY <1>5, <1>6, <1>7, <1>8 DEF ActStep

\* Outside keeps the second invariant and follows the promise.
LEMMA OutsideFollows ==
  ASSUME IInv, DInv, Worker \/ Message \/ Flip \/ CancelAll \/ UNCHANGED vars
  PROVE  DInv' /\ Follows
<1>1. UNCHANGED <<rec, reserved, start, tick, act>>
  BY DEF Worker, Message, Flip, CancelAll, KeepsRecord, vars, workVars
<1>2. CASE posted' = posted
  <2>1. Recorded' /\ Follows
    BY <1>1, <1>2, KeepRecorded, KeepFollows
  <2> QED BY <1>1, <1>2, <2>1, TickStands DEF DInv, TickPlace
<1>3. CASE posted = "memory" /\ posted' = "saved"
  <2>1. Follows
    BY <1>1, <1>3 DEF Follows, Absence!Next, Absence!Persist, Absence!absence, Stage
  <2>2. DInv'
    BY <1>1, <1>3
       DEF DInv, Recorded, TickPlace, ActPlace, Outcome, NotYet, Returning, Finishing
  <2> QED BY <2>1, <2>2
<1> QED BY <1>2, <1>3 DEF Worker, Message, Flip, CancelAll, vars, workVars

\* A crash loses a report that was not saved, which no record counts on yet.
LEMMA RestartFollows ==
  ASSUME IInv, DInv, Restart
  PROVE  DInv' /\ Follows
<1>1. /\ rec' = rec /\ start' = "idle" /\ tick' = TickIdle /\ act' = ActIdle
      /\ reserved' = Outstanding
      /\ posted' = IF posted = "memory" THEN "no" ELSE posted
  BY DEF Restart, Restored
<1>2. TickIdle.pc = "idle" /\ ActIdle.pc = "idle"
  BY DEF TickIdle, ActIdle
<1>3. posted = "memory" => rec.stopped /\ rec.phase # "available"
  BY DEF DInv, Recorded, TickPlace
<1>4. DInv'
  BY <1>1, <1>2, <1>3
     DEF DInv, Recorded, TickPlace, ActPlace, Outcome, NotYet, Returning, Finishing
<1>5. CASE rec.rev = 0
  <2>1. posted # "memory" /\ ~Outstanding
    BY <1>3, <1>5, NoRecordFields DEF IInv, RecordOK, Outstanding
  <2>2. posted' = posted /\ rec' = rec
    BY <1>1, <2>1
  <2>3. CASE start = "claimed"
    <3>1. Stage = "leaving" /\ Stage' = "here" /\ reserved' = FALSE
      BY <1>1, <1>5, <2>1, <2>3 DEF Stage, Outstanding
    <3> QED BY <1>4, <2>2, <3>1 DEF Follows, Absence!Next, Absence!StayAfterAll
  <2>4. CASE start # "claimed"
    <3>1. reserved = FALSE /\ reserved' = FALSE
      BY <1>1, <2>1, <2>4 DEF IInv, ReservationExact, Outstanding
    <3>2. Stage = "here" /\ Stage' = "here"
      BY <1>1, <1>5, <2>4 DEF Stage
    <3> QED BY <1>4, <2>2, <3>1, <3>2 DEF Follows, Absence!absence
  <2> QED BY <2>3, <2>4
<1>6. CASE rec.rev # 0
  <2>0. start # "claimed"
    BY <1>6 DEF IInv, StartOK
  <2>1. reserved' = reserved /\ start # "claimed"
    <3>1. CASE Outstanding
      BY <1>1, <2>0, <3>1 DEF IInv, ReservationExact, Outstanding
    <3>2. CASE ~Outstanding
      BY <1>1, <2>0, <3>2 DEF IInv, ReservationExact, Outstanding
    <3> QED BY <3>1, <3>2
  <2>2. CASE posted = "memory"
    <3>1. Stage = "stopped" /\ Stage' = "stopped"
      BY <1>1, <1>3, <1>6, <2>2 DEF Stage
    <3> QED BY <1>1, <1>4, <2>1, <2>2, <3>1 DEF Follows, Absence!Next, Absence!Lose
  <2>3. CASE posted # "memory"
    BY <1>1, <1>4, <1>6, <2>1, <2>3 DEF Follows, Absence!absence, Stage
  <2> QED BY <2>2, <2>3
<1> QED BY <1>4, <1>5, <1>6

\* Step keeps the second invariant and follows the promise.
LEMMA StepFollows ==
  ASSUME IInv, DInv, SaveMayFail = FALSE, [Next]_vars
  PROVE  DInv' /\ Follows
BY StartFollows, TickFollows, BeginActionFollows, ActFollows, OutsideFollows, RestartFollows
   DEF Next

\* The initial states are initial states of the promise.
LEMMA InitFollows == Init => Absence!Init
BY DEF Init, Absence!Init, Stage, NoRecord

\* With a room whose writes do not fail, protected work keeps the promise of
\* ParticipantAbsence, for every bound and every number of attempts.
THEOREM KeepsAbsence ==
  ASSUME SaveMayFail = FALSE
  PROVE  Spec => AbsenceKept
<1>1. Init => IInv /\ DInv /\ Absence!Init
  BY InitInvariant, InitDelivery, InitFollows
<1>2. IInv /\ DInv /\ [Next]_vars => IInv' /\ DInv' /\ Follows
  BY StepKeeps, StepFollows
<1> QED BY <1>1, <1>2, PTL DEF Spec, AbsenceKept, Absence!Spec, Follows

\* With a room whose writes do not fail, the disposition of a closed work tells
\* whether its report is in the room, for every bound.
THEOREM DispositionIsTruthful ==
  ASSUME SaveMayFail = FALSE
  PROVE  Spec => []DispositionTruthful
<1>1. Init => IInv /\ DInv
  BY InitInvariant, InitDelivery
<1>2. IInv /\ DInv /\ [Next]_vars => IInv' /\ DInv'
  BY StepKeeps, StepFollows
<1>3. DInv => DispositionTruthful
  BY DEF DInv, Recorded, Outcome, DispositionTruthful, HasDelivered
<1> QED BY <1>1, <1>2, <1>3, PTL DEF Spec

-----------------------------------------------------------------------------
(* The fence.  A return package is written, and a work is closed, only when   *)
(* the execution is over for good: nothing runs at the executor and nothing   *)
(* is left that a dispatch could start.                                       *)

JobRecords == [rev : Nat, status : Statuses, attempts : Nat,
               checkpoint : BOOLEAN, result : BOOLEAN]

\* Nothing runs, and nothing can be dispatched any more.
Ended == start = "idle" /\ executor # "running" /\ job.status # "QUEUED"

\* The places of a tick that has not seen the end of the execution.
Underway == {"idle", "job", "authority", "cancel", "cancelling", "confirm"}

\* What a running execution implies of the job and of the server's side.
RunOK ==
    /\ job \in JobRecords
    /\ job.status # "ABSENT" => job.rev >= 1
    /\ dispatch = "answered" => executor # "running"
    /\ executor = "running" =>
         /\ finished = FALSE /\ job.attempts # 0 /\ job.rev # 1
         /\ job.status \notin {"ABSENT", "COMPLETED", "ACKNOWLEDGED"}

NoJobYet == rec.rev = 0 \/ start \in {"claimed", "saved", "rejected"} => job.status = "ABSENT"

\* A cancellation that comes too late finds the job dispatched or ended.
TickFence ==
    /\ tick.pc # "idle" => start = "idle"
    /\ tick.pc \notin Underway => Ended
    /\ tick.pc = "job" => (tick.rec.package # "absent" => Ended)
    /\ tick.pc = "authority" => tick.job = job \/ job.status # "QUEUED"
    /\ tick.pc = "cancelling" =>
         job.status # "ABSENT" /\ (tick.rev = job.rev \/ job.status # "QUEUED")
    /\ tick.pc = "confirm" => job.status # "QUEUED"

ActFence ==
    /\ act.pc \in {"finish", "acknowledged"} => Ended
    /\ act.pc = "cancelling" => job.status # "ABSENT"

\* The work was stopped or closed, or its report is in the room.
Over == rec.stopped \/ rec.phase = "available" \/ posted # "no"

FenceInv ==
    /\ RunOK /\ NoJobYet /\ TickFence /\ ActFence
    /\ Over => Ended
    /\ posted # "no" => rec.rev # 0

\* What every step but those of the admission does to the job.
JobMoves ==
    /\ RunOK'
    /\ \/ job' = job
       \/ job.status # "ABSENT" /\ job'.status \notin {"ABSENT", "QUEUED"}
    /\ executor' = "running" => executor = "running" \/ job.status = "QUEUED"

-----------------------------------------------------------------------------
(* The job. *)

\* The fields of a job that is moved on.
LEMMA MovedFields ==
  ASSUME NEW j \in JobRecords, NEW s \in Statuses
  PROVE  /\ To(j, s) \in JobRecords /\ To(j, s).status = s /\ To(j, s).rev = j.rev + 1
         /\ To(j, s).attempts = j.attempts /\ To(j, s).rev >= 1 /\ To(j, s).rev # j.rev
         /\ (j.rev >= 1 => To(j, s).rev # 1)
<1> DEFINE m == [j EXCEPT !.status = s]
<1>1. m \in JobRecords /\ m.status = s /\ m.rev = j.rev /\ m.attempts = j.attempts
  BY DEF JobRecords
<1>2. To(j, s) = [m EXCEPT !.rev = @ + 1]
  BY DEF To
<1> HIDE DEF m
<1>3. /\ To(j, s) \in JobRecords /\ To(j, s).status = m.status /\ To(j, s).rev = m.rev + 1
      /\ To(j, s).attempts = m.attempts
  BY <1>1, <1>2 DEF JobRecords
<1>4. j.rev \in Nat
  BY DEF JobRecords
<1> QED BY <1>1, <1>3, <1>4

\* The same of the job that moves.
LEMMA MovedTo ==
  ASSUME RunOK, job.status # "ABSENT", NEW s \in Statuses, job' = Moved(s)
  PROVE  /\ job' \in JobRecords /\ job'.status = s /\ job'.attempts = job.attempts
         /\ job'.rev >= 1 /\ job'.rev # 1
BY MovedFields DEF RunOK, Moved

\* A step that leaves the run alone and moves the job to its end, or not at all.
LEMMA QuietMove ==
  ASSUME RunOK, UNCHANGED <<dispatch, executor, finished>>,
         \/ job' = job
         \/ /\ job.status # "ABSENT"
            /\ \E s \in Statuses \ {"ABSENT", "QUEUED"} :
                 /\ job' = Moved(s)
                 /\ s \in {"COMPLETED", "ACKNOWLEDGED"} => executor # "running"
  PROVE  JobMoves
<1>1. CASE job' = job
  BY <1>1 DEF JobMoves, RunOK
<1>2. ASSUME job.status # "ABSENT", NEW s \in Statuses \ {"ABSENT", "QUEUED"}, job' = Moved(s),
             s \in {"COMPLETED", "ACKNOWLEDGED"} => executor # "running"
      PROVE  JobMoves
  <2>1. /\ job' \in JobRecords /\ job'.status = s /\ job'.attempts = job.attempts
        /\ job'.rev >= 1 /\ job'.rev # 1
    BY <1>2, MovedFields DEF RunOK, Moved
  <2> QED BY <1>2, <2>1 DEF JobMoves, RunOK
<1> QED BY <1>1, <1>2

\* The job and its run are not touched.
LEMMA JobStays ==
  ASSUME RunOK, KeepsJob
  PROVE  JobMoves
BY QuietMove DEF KeepsJob, jobVars

\* A cancellation of a job that exists.
LEMMA CancelMoves ==
  ASSUME RunOK, NEW r, CancelAt(r), OnlyJob, job.status # "ABSENT"
  PROVE  /\ JobMoves
         /\ IF job.rev = r THEN job'.status = "CANCELLED" ELSE job' = job
<1>1. "CANCELLED" \in Statuses \ {"ABSENT", "QUEUED"}
  BY DEF Statuses
<1>2. Moved("CANCELLED").status = "CANCELLED"
  BY <1>1, MovedFields DEF RunOK, Moved
<1>3. JobMoves
  BY <1>1, QuietMove DEF CancelAt, OnlyJob
<1> QED BY <1>2, <1>3 DEF CancelAt

\* The inbox is acknowledged.
LEMMA AcknowledgeMoves ==
  ASSUME RunOK, Acknowledge, OnlyJob
  PROVE  JobMoves
<1>1. "ACKNOWLEDGED" \in Statuses \ {"ABSENT", "QUEUED"}
  BY DEF Statuses
<1>2. job.status = "COMPLETED" => executor # "running"
  BY DEF RunOK
<1> QED BY <1>1, <1>2, QuietMove DEF Acknowledge, OnlyJob

\* A dispatch starts the execution, or cancels what is no longer covered.
LEMMA DispatchMoves ==
  ASSUME RunOK, Dispatch
  PROVE  JobMoves
<1>1. job.status = "QUEUED" /\ job.rev >= 1 /\ job \in JobRecords /\ dispatch = "none"
  BY DEF Dispatch, RunOK
<1>2. {"RUNNING", "CANCELLED"} \subseteq Statuses \ {"ABSENT", "QUEUED"}
  BY DEF Statuses, NonterminalStatuses, Executing
<1>3. CASE job' = Moved("CANCELLED") /\ UNCHANGED <<dispatch, executor, finished>>
  BY <1>1, <1>2, <1>3, QuietMove
<1>4. CASE /\ job' = [Moved("RUNNING") EXCEPT !.attempts = @ + 1]
           /\ dispatch' = "out" /\ executor' = "running" /\ finished' = FALSE
  <2> DEFINE m == Moved("RUNNING")
  <2>1. /\ m \in JobRecords /\ m.status = "RUNNING" /\ m.rev >= 1 /\ m.rev # 1
    BY <1>1, <1>2, MovedFields DEF Moved
  <2>2. job' = [m EXCEPT !.attempts = @ + 1]
    BY <1>4
  <2> HIDE DEF m
  <2>3. /\ job' \in JobRecords /\ job'.status = "RUNNING" /\ job'.rev >= 1 /\ job'.rev # 1
        /\ job'.attempts # 0
    BY <2>1, <2>2 DEF JobRecords
  <2> QED BY <1>1, <1>4, <2>3 DEF JobMoves, RunOK
<1> QED BY <1>3, <1>4 DEF Dispatch

\* A progress report keeps the execution going, or cancels the job.
LEMMA ProgressMoves ==
  ASSUME RunOK, Progress
  PROVE  JobMoves
<1>1. /\ job.status \in Executing /\ job.status # "ABSENT" /\ job.rev >= 1
      /\ job \in JobRecords /\ UNCHANGED <<dispatch, executor, finished>>
  BY DEF Progress, RunOK, Executing
<1>2. {"RUNNING", "WAITING_TOOL", "CANCELLED"} \subseteq Statuses \ {"ABSENT", "QUEUED"}
  BY DEF Statuses, NonterminalStatuses, Executing
<1>3. CASE job' = Moved("CANCELLED")
  BY <1>1, <1>2, <1>3, QuietMove
<1>4. ASSUME NEW s \in {"RUNNING", "WAITING_TOOL"}, NEW saved \in BOOLEAN,
             job' = [Moved(s) EXCEPT !.checkpoint = @ \/ saved]
      PROVE  JobMoves
  <2> DEFINE m == Moved(s)
  <2>1. /\ m \in JobRecords /\ m.status = s /\ m.rev >= 1 /\ m.rev # 1
        /\ m.attempts = job.attempts
    BY <1>1, <1>2, MovedFields DEF Moved
  <2>2. job' = [m EXCEPT !.checkpoint = @ \/ saved]
    BY <1>4
  <2> HIDE DEF m
  <2>3. /\ job' \in JobRecords /\ job'.status = s /\ job'.rev >= 1 /\ job'.rev # 1
        /\ job'.attempts = job.attempts
    BY <2>1, <2>2 DEF JobRecords
  <2> QED BY <1>1, <2>3 DEF JobMoves, RunOK
<1> QED BY <1>3, <1>4 DEF Progress

\* The end of a dispatch, answered or not.
LEMMA EndMoves ==
  ASSUME RunOK, Answer \/ Settle \/ DispatchFails \/ ExecutorStops
  PROVE  JobMoves
<1>1. /\ {"CANCELLED", "COMPLETED", "FAILED", "CHECKPOINTED", "BLOCKED"}
           \subseteq Statuses \ {"ABSENT", "QUEUED"}
      /\ "ABSENT" \notin Executing
  BY DEF Statuses, NonterminalStatuses, Executing
<1>2. CASE Answer \/ ExecutorStops
  BY <1>2 DEF Answer, ExecutorStops, JobMoves, RunOK
<1>3. CASE Settle
  <2>1. /\ dispatch = "answered" /\ dispatch' = "none" /\ executor # "running"
        /\ executor' = executor
    BY <1>3 DEF Settle, RunOK
  <2>2. CASE job' = job
    BY <2>1, <2>2 DEF JobMoves, RunOK
  <2>3. ASSUME job.status # "ABSENT", NEW s \in {"CANCELLED", "FAILED"}, job' = Moved(s)
        PROVE  JobMoves
    <3>1. job' \in JobRecords /\ job'.status = s /\ job'.rev >= 1
      BY <1>1, <2>3, MovedTo
    <3> QED BY <2>1, <2>3, <3>1 DEF JobMoves, RunOK
  <2>4. ASSUME job.status # "ABSENT", job' = [Moved("COMPLETED") EXCEPT !.result = TRUE]
        PROVE  JobMoves
    <3> DEFINE m == Moved("COMPLETED")
    <3>1. m \in JobRecords /\ m.status = "COMPLETED" /\ m.rev >= 1
      BY <1>1, MovedFields DEF RunOK, Moved
    <3>2. job' = [m EXCEPT !.result = TRUE]
      BY <2>4
    <3> HIDE DEF m
    <3>3. job' \in JobRecords /\ job'.status = "COMPLETED" /\ job'.rev >= 1
      BY <3>1, <3>2 DEF JobRecords
    <3> QED BY <2>1, <2>4, <3>3 DEF JobMoves, RunOK
  <2> QED BY <1>1, <1>3, <2>2, <2>3, <2>4 DEF Settle
<1>4. CASE DispatchFails
  <2>1. /\ dispatch' = "none" /\ UNCHANGED <<executor, finished>>
        /\ \/ job' = job
           \/ /\ job.status # "ABSENT"
              /\ \E s \in {"FAILED", "CHECKPOINTED", "BLOCKED"} : job' = Moved(s)
    BY <1>1, <1>4 DEF DispatchFails
  <2>2. CASE job' = job
    BY <2>1, <2>2 DEF JobMoves, RunOK
  <2>3. ASSUME job.status # "ABSENT", NEW s \in {"FAILED", "CHECKPOINTED", "BLOCKED"},
               job' = Moved(s)
        PROVE  JobMoves
    <3>1. /\ job' \in JobRecords /\ job'.status = s /\ job'.attempts = job.attempts
          /\ job'.rev >= 1 /\ job'.rev # 1
      BY <1>1, <2>3, MovedTo
    <3> QED BY <2>1, <2>3, <3>1 DEF JobMoves, RunOK
  <2> QED BY <2>1, <2>2, <2>3
<1> QED BY <1>2, <1>3, <1>4

\* Every step of the run.
LEMMA RunMoves ==
  ASSUME RunOK, RunStep
  PROVE  JobMoves
BY DispatchMoves, ProgressMoves, EndMoves DEF RunStep

\* A restart moves what was executing to a place where nothing dispatches it.
LEMMA RestartMoves ==
  ASSUME RunOK, JobRestart
  PROVE  JobMoves
<1> DEFINE S == {"CHECKPOINTED", "BLOCKED", "CANCELLED"}
           Held(j) == j \in JobRecords /\ j.status \notin {"ABSENT", "QUEUED", "COMPLETED", "ACKNOWLEDGED"}
                      /\ j.rev >= 1 /\ j.rev # 1 /\ j.attempts = job.attempts
<1>1. /\ S \subseteq Statuses /\ "ABSENT" \notin NonterminalStatuses
      /\ Executing \subseteq NonterminalStatuses
      /\ {"REQUESTED", "QUEUED"} \subseteq NonterminalStatuses
  BY DEF Statuses, NonterminalStatuses, Executing
<1>2. ASSUME NEW j \in JobRecords, j.rev >= 1, j.attempts = job.attempts, NEW s \in S
      PROVE  Held(To(j, s))
  <2>1. s \in Statuses /\ s \notin {"ABSENT", "QUEUED", "COMPLETED", "ACKNOWLEDGED"}
    BY <1>1
  <2> HIDE DEF S
  <2>2. /\ To(j, s) \in JobRecords /\ To(j, s).status = s /\ To(j, s).rev >= 1
        /\ To(j, s).rev # 1 /\ To(j, s).attempts = j.attempts
    BY <1>2, <2>1, MovedFields
  <2> QED BY <1>2, <2>1, <2>2
<1>3. ASSUME NEW j \in JobRecords, j.status # "ABSENT" => j.rev >= 1, j.attempts = job.attempts
      PROVE  /\ Reconciled(j) = j \/ (j.status # "ABSENT" /\ Held(Reconciled(j)))
             /\ ShutDown(j) = j \/ (j.status # "ABSENT" /\ Held(ShutDown(j)))
  <2>1. /\ Reconciled(j) = j \/ (j.status \in NonterminalStatuses /\ \E s \in S : Reconciled(j) = To(j, s))
        /\ ShutDown(j) = j \/ (j.status \in NonterminalStatuses /\ \E s \in S : ShutDown(j) = To(j, s))
    BY <1>1 DEF Reconciled, ShutDown, Nonterminal
  <2> HIDE DEF S, Held
  <2> QED BY <1>1, <1>2, <1>3, <2>1
<1> HIDE DEF S, Held
<1>4. /\ job \in JobRecords /\ (job.status # "ABSENT" => job.rev >= 1)
      /\ job' \in {Reconciled(job), Reconciled(ShutDown(job))}
      /\ dispatch' = "none" /\ finished' = FALSE /\ executor' = executor
  BY DEF RunOK, JobRestart
<1>5. ASSUME NEW j, Held(j)
      PROVE  Held(Reconciled(j))
  <2>1. j \in JobRecords /\ j.rev >= 1 /\ j.attempts = job.attempts
    BY <1>5 DEF Held
  <2> QED BY <1>3, <1>5, <2>1
<1>6. job' = job \/ (job.status # "ABSENT" /\ Held(job'))
  BY <1>3, <1>4, <1>5
<1>7. CASE job' = job
  BY <1>4, <1>7 DEF JobMoves, RunOK
<1>8. CASE job.status # "ABSENT" /\ Held(job')
  BY <1>4, <1>8 DEF JobMoves, RunOK, Held
<1> QED BY <1>6, <1>7, <1>8

-----------------------------------------------------------------------------
(* How the fence is kept. *)

\* What a step that is not the admission's may do to the record and the room:
\* it stops or closes the work, or shows the report, only when the end was seen.
Guarded ==
    /\ rec.rev # 0 => rec'.rev # 0
    /\ Over' => Over \/ Ended
    /\ posted' # "no" => posted # "no" \/ rec.rev # 0

Rests == start' \in {start, "idle"}

\* What has ended stays ended.
LEMMA EndedStays ==
  ASSUME Ended, JobMoves, Rests
  PROVE  Ended'
BY DEF Ended, JobMoves, Rests

\* A tick that waits stays inside the fence.
LEMMA TickFenceStays ==
  ASSUME TickFence, JobMoves, Rests, tick' = tick
  PROVE  TickFence'
<1>1. Ended => Ended'
  BY EndedStays
<1>2. job.status # "QUEUED" => job'.status # "QUEUED"
  BY DEF JobMoves
<1>3. job' # job => job'.status \notin {"ABSENT", "QUEUED"}
  BY DEF JobMoves
<1>4. job.status # "ABSENT" => job'.status # "ABSENT"
  BY DEF JobMoves
<1> QED BY <1>1, <1>2, <1>3, <1>4 DEF TickFence, Rests

\* A tick that is over, and one that has seen the end.
LEMMA TickFenceEnds ==
  ASSUME tick'.pc = "idle" \/ (Ended' /\ tick'.pc \notin Underway)
  PROVE  TickFence'
BY DEF TickFence, Underway, Ended

\* An action that waits stays inside the fence.
LEMMA ActFenceStays ==
  ASSUME ActFence, JobMoves, Rests, act' = act
  PROVE  ActFence'
<1>1. Ended => Ended'
  BY EndedStays
<1>2. job.status # "ABSENT" => job'.status # "ABSENT"
  BY DEF JobMoves
<1> QED BY <1>1, <1>2 DEF ActFence

\* Together.
LEMMA FenceKept ==
  ASSUME FenceInv, JobMoves, Rests, Guarded, TickFence', ActFence'
  PROVE  FenceInv'
<1>1. RunOK'
  BY DEF JobMoves
<1>2. NoJobYet'
  <2>1. rec'.rev = 0 => rec.rev = 0
    BY DEF Guarded
  <2>2. start' \in {"claimed", "saved", "rejected"} => start' = start
    BY DEF Rests
  <2>3. job.status = "ABSENT" => job' = job
    BY DEF JobMoves
  <2> QED BY <2>1, <2>2, <2>3 DEF NoJobYet, FenceInv
<1>3. Over' => Ended'
  BY EndedStays DEF Guarded, FenceInv
<1>4. posted' # "no" => rec'.rev # 0
  BY DEF Guarded, FenceInv
<1> QED BY <1>1, <1>2, <1>3, <1>4 DEF FenceInv

\* A step that changes neither the record nor the room.
LEMMA KeepGuarded ==
  ASSUME rec' = rec, posted' = posted
  PROVE  Guarded
BY DEF Guarded, Over

\* A patch that neither stops nor closes the work.
LEMMA PatchGuarded ==
  ASSUME IInv, NEW r, Copy(r, rec), NEW new \in Records,
         new.stopped => r.stopped, new.phase # "available",
         Patch(r, new), posted' = posted
  PROVE  Guarded
<1>1. rec' = Write(r, new)
  BY DEF Patch
<1>2. CASE ~Fresh(r)
  BY <1>1, <1>2, KeepGuarded DEF Write
<1>3. CASE Fresh(r)
  <2>1. r = rec /\ rec.rev \in Nat /\ rec.rev + 1 \in Nat
    BY <1>3, FreshCopy, RecordFields DEF IInv, RecordOK
  <2>2. rec' = [new EXCEPT !.rev = rec.rev + 1]
    BY <1>1, <1>3, <2>1 DEF Write
  <2>3. rec'.rev = rec.rev + 1 /\ rec'.phase = new.phase /\ rec'.stopped = new.stopped
    BY <2>1, <2>2, WithRev
  <2>4. rec'.rev # 0
    BY <2>1, <2>3
  <2> QED BY <2>1, <2>3, <2>4 DEF Guarded, Over
<1> QED BY <1>2, <1>3

\* Whatever is written after the end.
LEMMA EndGuarded ==
  ASSUME Ended, IInv, ~Undoes, rec.rev # 0
  PROVE  Guarded
BY DEF Guarded, Undoes

\* A patch of the phase.
LEMMA PhaseGuarded ==
  ASSUME IInv, NEW r \in Records, Copy(r, rec), NEW p \in Phases, p # "available",
         Patch(r, [r EXCEPT !.phase = p]), posted' = posted
  PROVE  Guarded
<1> DEFINE new == [r EXCEPT !.phase = p]
<1>1. new \in Records /\ new.phase = p /\ new.stopped = r.stopped
  BY WithPhase
<1>2. Patch(r, new)
  OBVIOUS
<1> HIDE DEF new
<1> QED BY <1>1, <1>2, PatchGuarded

\* A tick under way has a record, and nobody is being admitted.
LEMMA TickRecord ==
  ASSUME IInv, FenceInv, tick.pc # "idle"
  PROVE  rec.rev # 0 /\ start = "idle" /\ Copy(tick.rec, rec) /\ tick.rec \in Records
<1>1. Copy(tick.rec, rec) /\ Live(tick.rec) /\ tick.rec \in Records
  BY TickCopy
<1>2. tick.rec.rev \in Nat /\ rec.rev \in Nat
  BY <1>1, RecordFields DEF IInv, RecordOK
<1> QED BY <1>1, <1>2 DEF Copy, Live, FenceInv, TickFence

\* So has an action under way.
LEMMA ActRecord ==
  ASSUME IInv, act.pc # "idle"
  PROVE  rec.rev # 0 /\ Copy(act.rec, rec) /\ act.rec \in Records
<1>1. Copy(act.rec, rec) /\ Live(act.rec) /\ act.rec \in Records
  BY ActCopy
<1>2. act.rec.rev \in Nat /\ rec.rev \in Nat
  BY <1>1, RecordFields DEF IInv, RecordOK
<1> QED BY <1>1, <1>2 DEF Copy, Live

-----------------------------------------------------------------------------
(* The initial states, and the admission. *)

\* The fence holds initially.
LEMMA InitFence == Init => FenceInv
<1> SUFFICES ASSUME Init PROVE FenceInv
  OBVIOUS
<1>1. /\ job = NoJob /\ dispatch = "none" /\ executor = "never" /\ rec = NoRecord
      /\ start = "idle" /\ tick = TickIdle /\ act = ActIdle /\ posted = "no"
  BY DEF Init, JobInit
<1>2. NoJob \in JobRecords /\ NoJob.status = "ABSENT"
  BY DEF NoJob, JobRecords, Statuses
<1>3. TickIdle.pc = "idle" /\ ActIdle.pc = "idle"
  BY DEF TickIdle, ActIdle
<1>4. RunOK /\ NoJobYet
  BY <1>1, <1>2 DEF RunOK, NoJobYet
<1>5. TickFence /\ ActFence
  BY <1>1, <1>3 DEF TickFence, ActFence, Underway
<1>6. ~Over
  BY <1>1, NoRecordFields DEF Over
<1> QED BY <1>1, <1>4, <1>5, <1>6 DEF FenceInv

\* While the work is being admitted neither a return nor a finishing action is
\* under way, and no end was seen.
LEMMA Admission ==
  ASSUME IInv, FenceInv, start # "idle" \/ rec.rev = 0
  PROVE  tick.pc = "idle" /\ act.pc \notin {"finish", "acknowledged"} /\ ~Over
<1>1. tick.pc = "idle"
  BY TickRecord
<1>2. CASE start # "idle"
  BY <1>1, <1>2 DEF FenceInv, ActFence, Ended
<1>3. CASE rec.rev = 0
  <2>1. act.pc = "idle"
    BY <1>3, ActRecord
  <2>2. rec = NoRecord /\ posted = "no"
    BY <1>3 DEF IInv, RecordOK, FenceInv
  <2> QED BY <1>1, <2>1, <2>2, NoRecordFields DEF Over
<1> QED BY <1>2, <1>3

\* The steps of the admission, with no tick under way.
LEMMA AdmissionKept ==
  ASSUME IInv, FenceInv, start # "idle" \/ rec.rev = 0, RunOK', NoJobYet', ~Over' \/ Ended',
         UNCHANGED <<tick, act, posted>>, job.status # "ABSENT" => job'.status # "ABSENT",
         rec.rev # 0 => rec'.rev # 0
  PROVE  FenceInv'
<1>1. tick.pc = "idle" /\ act.pc \notin {"finish", "acknowledged"}
  BY Admission
<1>2. TickFence' /\ ActFence'
  BY <1>1 DEF TickFence, Underway, FenceInv, ActFence
<1> QED BY <1>2 DEF FenceInv

\* The admission stays outside: no job exists before the request, and the job is
\* queued once at most.
LEMMA StartFence ==
  ASSUME IInv, FenceInv, StartStep
  PROVE  FenceInv'
<1>1. UNCHANGED <<tick, act, posted>> /\ (start # "idle" \/ rec.rev = 0)
  BY DEF StartStep, Claim, Admit, Request, Rejected, Queued, StartUnchanged
<1>2. RunOK /\ NoJobYet /\ ~Over /\ (rec.rev # 0 => rec'.rev # 0)
  BY <1>1, Admission, StartKeeps DEF FenceInv, Undoes
<1>3. CASE Claim
  <2>1. RunOK' /\ job' = job
    BY <1>2, <1>3 DEF Claim, KeepsJob, jobVars, RunOK
  <2>2. NoJobYet' /\ ~Over'
    BY <1>1, <1>2, <1>3, <2>1 DEF Claim, NoJobYet, Over
  <2> QED BY <1>1, <1>2, <2>1, <2>2, AdmissionKept
<1>4. CASE Admit
  <2>1. RunOK' /\ job' = job /\ job.status = "ABSENT"
    BY <1>2, <1>4 DEF Admit, KeepsJob, jobVars, RunOK, NoJobYet
  <2>2. rec' = rec \/ rec' = First
    BY <1>4 DEF Admit, First
  <2>3. NoJobYet' /\ ~Over'
    BY <1>1, <1>2, <2>1, <2>2, FirstFields DEF NoJobYet, Over
  <2> QED BY <1>1, <1>2, <2>1, <2>3, AdmissionKept
<1>5. CASE Request
  <2>1. job.status = "ABSENT" /\ executor # "running" /\ rec' = rec
    BY <1>2, <1>5 DEF Request, KeepsRecord, RunOK, NoJobYet
  <2>2. CASE KeepsJob
    <3>1. RunOK' /\ job' = job
      BY <1>2, <2>2 DEF KeepsJob, jobVars, RunOK
    <3>2. NoJobYet' /\ ~Over'
      BY <1>1, <1>2, <2>1, <3>1 DEF NoJobYet, Over
    <3> QED BY <1>1, <1>2, <3>1, <3>2, AdmissionKept
  <2>3. CASE Create /\ OnlyJob /\ start' = "requested"
    <3>1. job' \in JobRecords /\ job'.rev = 1 /\ job'.status = "REQUESTED"
      BY <2>3 DEF Create, NoJob, JobRecords, Statuses, NonterminalStatuses
    <3>2. RunOK'
      BY <1>2, <2>1, <2>3, <3>1 DEF OnlyJob, RunOK
    <3>3. rec.rev # 0
      BY <1>5 DEF Request, IInv, StartOK
    <3>4. NoJobYet' /\ ~Over'
      BY <1>1, <1>2, <2>1, <2>3, <3>3 DEF NoJobYet, Over
    <3> QED BY <1>1, <1>2, <2>1, <3>2, <3>4, AdmissionKept
  <2> QED BY <1>5, <2>2, <2>3 DEF Request
<1>6. CASE Rejected
  <2>1. job.status = "ABSENT" /\ executor # "running" /\ start' = "idle" /\ KeepsJob
    BY <1>2, <1>6 DEF Rejected, RunOK, NoJobYet
  <2>2. RunOK' /\ job' = job /\ Ended' /\ NoJobYet'
    BY <1>2, <2>1 DEF KeepsJob, jobVars, RunOK, Ended, NoJobYet
  <2> QED BY <1>1, <1>2, <2>2, AdmissionKept
<1>7. CASE Queued
  <2>1. rec.rev # 0 /\ rec' = rec /\ start' = "idle" /\ OnlyJob
    BY <1>7 DEF Queued, KeepsRecord, IInv, StartOK
  <2>2. NoJobYet' /\ ~Over'
    BY <1>1, <1>2, <2>1 DEF NoJobYet, Over
  <2>3. job' = IF job.rev = 1 THEN Moved("QUEUED") ELSE job
    BY <1>7 DEF Queued, Enqueue
  <2>4. CASE job' = job
    <3>1. RunOK'
      BY <1>2, <2>1, <2>4 DEF RunOK, OnlyJob
    <3> QED BY <1>1, <1>2, <2>1, <2>2, <2>4, <3>1, AdmissionKept
  <2>5. CASE job.rev = 1 /\ job' = Moved("QUEUED")
    <3>1. executor # "running" /\ job \in JobRecords
      BY <1>2, <2>5 DEF RunOK
    <3>2. "QUEUED" \in Statuses
      BY DEF Statuses, NonterminalStatuses
    <3>3. job' \in JobRecords /\ job'.status = "QUEUED" /\ job'.rev >= 1
      BY <2>5, <3>1, <3>2, MovedFields DEF Moved
    <3>4. RunOK'
      BY <1>2, <2>1, <3>1, <3>3 DEF RunOK, OnlyJob
    <3> QED BY <1>1, <1>2, <2>1, <2>2, <3>3, <3>4, AdmissionKept
  <2> QED BY <2>3, <2>4, <2>5
<1> QED BY <1>3, <1>4, <1>5, <1>6, <1>7 DEF StartStep

-----------------------------------------------------------------------------
(* The tick. *)

\* The place of a tick that moves.
LEMMA TickPlaced ==
  ASSUME NEW t, TickShape(t), NEW p, NEW v
  PROVE  /\ [t EXCEPT !.pc = p].pc = p
         /\ [t EXCEPT !.pc = p, !.tries = v].pc = p
         /\ [t EXCEPT !.pc = p, !.rec = v].pc = p
         /\ [t EXCEPT !.rec = v, !.pc = p].pc = p
         /\ [t EXCEPT !.pc = p, !.cursor = v].pc = p
         /\ [t EXCEPT !.pc = p, !.text = v].pc = p
<1>1. /\ [t EXCEPT !.pc = p].pc = p
      /\ [t EXCEPT !.pc = p, !.tries = v].pc = p
  BY DEF TickShape
<1>2. /\ [t EXCEPT !.pc = p, !.rec = v].pc = p
      /\ [t EXCEPT !.rec = v, !.pc = p].pc = p
  BY DEF TickShape
<1>3. /\ [t EXCEPT !.pc = p, !.cursor = v].pc = p
      /\ [t EXCEPT !.pc = p, !.text = v].pc = p
  BY DEF TickShape
<1> QED BY <1>1, <1>2, <1>3

\* What a tick notes beside the record and the report.
LEMMA TickNotes ==
  ASSUME NEW t, TickShape(t), NEW v, NEW w
  PROVE  /\ LET m == [t EXCEPT !.job = v, !.pc = w] IN m.job = v /\ m.pc = w
         /\ LET m == [t EXCEPT !.pc = v, !.rev = w] IN m.rev = w /\ m.pc = v
<1>1. LET m == [t EXCEPT !.job = v, !.pc = w] IN m.job = v /\ m.pc = w
  BY DEF TickShape
<1>2. LET m == [t EXCEPT !.pc = v, !.rev = w] IN m.rev = w /\ m.pc = v
  BY DEF TickShape
<1> QED BY <1>1, <1>2

\* A tick that ends, its write keeping to the guard.
LEMMA TickOverFence ==
  ASSUME FenceInv, JobMoves, Guarded, TickDone, start' = start, act' = act
  PROVE  FenceInv'
<1>1. tick'.pc = "idle"
  BY DEF TickDone, TickIdle
<1>2. Rests
  BY DEF Rests
<1>3. TickFence' /\ ActFence'
  BY <1>1, <1>2, TickFenceEnds, ActFenceStays DEF FenceInv
<1> QED BY <1>2, <1>3, FenceKept

\* A tick that goes on without a write and without having seen the end.
LEMMA TickOnFence ==
  ASSUME FenceInv, JobMoves, rec' = rec, posted' = posted, start' = "idle", start = "idle",
         act' = act, TickFence'
  PROVE  FenceInv'
BY KeepGuarded, ActFenceStays, FenceKept DEF FenceInv, Rests

\* A tick that has seen the end.
LEMMA TickEndFence ==
  ASSUME IInv, FenceInv, ~Undoes, rec.rev # 0, Ended, JobMoves, start' = start, act' = act,
         tick'.pc \notin Underway \/ tick'.pc = "idle"
  PROVE  FenceInv'
<1>1. Rests
  BY DEF Rests
<1>2. Ended' /\ Guarded
  BY <1>1, EndedStays, EndGuarded
<1>3. TickFence' /\ ActFence'
  BY <1>1, <1>2, TickFenceEnds, ActFenceStays DEF FenceInv
<1> QED BY <1>1, <1>2, <1>3, FenceKept

\* The record is listed.
LEMMA ListFence ==
  ASSUME IInv, FenceInv, List
  PROVE  FenceInv'
<1>1. /\ start = "idle" /\ start' = start /\ act' = act /\ posted' = posted /\ rec' = rec
      /\ KeepsJob /\ Outstanding
  BY DEF List, Admitting, KeepsRecord, TickUnchanged
<1>2. JobMoves /\ job' = job /\ executor' = executor
  BY <1>1, JobStays DEF FenceInv, KeepsJob, jobVars
<1>3. Ended => Ended'
  BY <1>1, <1>2 DEF Ended
<1> DEFINE pc == IF HasDelivered THEN "recheck" ELSE "job"
<1>4. tick'.pc = pc /\ tick'.rec = rec
  BY DEF List, TickIdle
<1>5. CASE HasDelivered
  <2>1. Ended' /\ tick'.pc \notin Underway
    BY <1>3, <1>4, <1>5 DEF HasDelivered, FenceInv, Over, Underway
  <2> QED BY <1>1, <1>2, <2>1, TickFenceEnds, TickOnFence
<1>6. CASE ~HasDelivered
  <2>1. tick'.pc = "job"
    BY <1>4, <1>6
  <2>2. rec.package # "absent" => Ended'
    BY <1>3 DEF IInv, RecordOK, FenceInv, Over
  <2>3. TickFence'
    BY <1>1, <1>4, <2>1, <2>2 DEF TickFence, Underway
  <2> QED BY <1>1, <1>2, <2>3, TickOnFence
<1> QED BY <1>5, <1>6

\* The snapshot of the job: a job that does not exist is over, and so is that of
\* a work with a package.
LEMMA ReadJobFence ==
  ASSUME IInv, FenceInv, ReadJob
  PROVE  FenceInv'
<1>1. /\ tick.pc = "job" /\ start' = start /\ act' = act /\ posted' = posted /\ KeepsJob
  BY DEF ReadJob, TickUnchanged
<1>2. JobMoves /\ job' = job /\ executor' = executor
  BY <1>1, JobStays DEF FenceInv, KeepsJob, jobVars
<1>3. start = "idle" /\ rec.rev # 0 /\ TickShape(tick)
  BY <1>1, TickRecord DEF IInv, TickOK
<1>4. CASE job.status = "ABSENT" /\ TickDone
  <2>1. Ended
    BY <1>3, <1>4 DEF Ended, FenceInv, RunOK
  <2>2. ~Undoes /\ tick'.pc = "idle"
    BY <1>4, ReadJobKeeps DEF TickDone, TickIdle
  <2> QED BY <1>1, <1>2, <1>3, <2>1, <2>2, TickEndFence
<1>5. CASE /\ KeepsRecord
           /\ tick' = [tick EXCEPT !.job = job,
                         !.pc = IF tick.rec.package = "absent" THEN "authority" ELSE "return"]
  <2> DEFINE pc == IF tick.rec.package = "absent" THEN "authority" ELSE "return"
  <2>1. tick' = [tick EXCEPT !.job = job, !.pc = pc]
    BY <1>5
  <2>2. pc \in {"authority", "return"} /\ (pc = "return" => tick.rec.package # "absent")
    OBVIOUS
  <2> HIDE DEF pc
  <2>3. tick'.job = job /\ tick'.pc = pc
    BY <1>3, <2>1, TickNotes
  <2>4. pc = "return" => Ended'
    BY <1>1, <1>2, <2>2 DEF FenceInv, TickFence, Ended
  <2>5. TickFence'
    BY <1>1, <1>2, <1>3, <2>2, <2>3, <2>4 DEF TickFence, Underway
  <2> QED BY <1>1, <1>2, <1>3, <1>5, <2>5, TickOnFence DEF KeepsRecord
<1> QED BY <1>4, <1>5 DEF ReadJob

\* The supervision: only a job that can no longer be queued is left uncancelled.
LEMMA SuperviseFence ==
  ASSUME IInv, FenceInv, Supervise
  PROVE  FenceInv'
<1>1. /\ tick.pc = "authority" /\ start' = start /\ act' = act /\ posted' = posted /\ KeepsJob
  BY DEF Supervise, TickUnchanged
<1>2. JobMoves /\ job' = job
  BY <1>1, JobStays DEF FenceInv, KeepsJob, jobVars
<1>3. start = "idle" /\ Copy(tick.rec, rec) /\ tick.rec \in Records /\ TickShape(tick)
  BY <1>1, TickRecord DEF IInv, TickOK
<1>4. CASE TickDone
  <2>1. KeepsRecord \/ Patch(tick.rec, [tick.rec EXCEPT !.phase = WorkerPhase(tick.job)])
    BY <1>4 DEF Supervise
  <2>2. WorkerPhase(tick.job) \in Phases /\ WorkerPhase(tick.job) # "available"
    BY DEF WorkerPhase, Phases
  <2>3. Guarded
    BY <1>1, <1>3, <2>1, <2>2, KeepGuarded, PhaseGuarded DEF KeepsRecord
  <2> QED BY <1>1, <1>2, <1>4, <2>3, TickOverFence
<1>5. CASE /\ KeepsRecord
           /\ tick' = IF Nonterminal(tick.job)
                      THEN [tick EXCEPT !.pc = "cancel", !.tries = IF authority THEN 1 ELSE 2]
                      ELSE [tick EXCEPT !.pc = "confirm"]
  <2>1. tick'.pc = IF Nonterminal(tick.job) THEN "cancel" ELSE "confirm"
    <3> DEFINE n == IF authority THEN 1 ELSE 2
    <3>1. tick' = IF Nonterminal(tick.job)
                  THEN [tick EXCEPT !.pc = "cancel", !.tries = n]
                  ELSE [tick EXCEPT !.pc = "confirm"]
      BY <1>5
    <3> HIDE DEF n
    <3>2. /\ [tick EXCEPT !.pc = "cancel", !.tries = n].pc = "cancel"
          /\ [tick EXCEPT !.pc = "confirm"].pc = "confirm"
      BY <1>3, TickPlaced
    <3> QED BY <3>1, <3>2
  <2>2. ~Nonterminal(tick.job) => job.status # "QUEUED"
    BY <1>1 DEF Nonterminal, NonterminalStatuses, FenceInv, TickFence
  <2>3. TickFence'
    BY <1>1, <1>2, <1>3, <2>1, <2>2 DEF TickFence, Underway
  <2> QED BY <1>1, <1>2, <1>3, <1>5, <2>3, TickOnFence DEF KeepsRecord
<1> QED BY <1>4, <1>5 DEF Supervise

\* The cancellation: whether it was accepted, came too late or was not needed,
\* the job is not queued afterwards.
LEMMA TickCancelFence ==
  ASSUME IInv, FenceInv, TickCancel \/ TickCancelling
  PROVE  FenceInv'
<1>1. /\ tick.pc \in {"cancel", "cancelling"} /\ start' = start /\ act' = act
      /\ posted' = posted /\ rec' = rec
  BY DEF TickCancel, TickCancelling, TickUnchanged, KeepsRecord
<1>2. start = "idle" /\ TickShape(tick)
  BY <1>1, TickRecord DEF IInv, TickOK
<1>3. ASSUME JobMoves, job'.status # "QUEUED",
             tick' = [tick EXCEPT !.pc = AfterCancel(tick.tries), !.tries = @ - 1]
      PROVE  FenceInv'
  <2> DEFINE pc == AfterCancel(tick.tries)
             n == tick.tries - 1
  <2>1. tick' = [tick EXCEPT !.pc = pc, !.tries = n] /\ pc \in {"cancel", "confirm"}
    BY <1>3 DEF AfterCancel
  <2> HIDE DEF pc, n
  <2>2. tick'.pc \in {"cancel", "confirm"}
    BY <1>2, <2>1, TickPlaced
  <2>3. TickFence'
    BY <1>1, <1>2, <1>3, <2>2 DEF TickFence, Underway
  <2> QED BY <1>1, <1>2, <1>3, <2>3, TickOnFence
<1>4. CASE TickCancel
  <2>1. JobMoves /\ job' = job
    BY <1>4, JobStays DEF TickCancel, FenceInv, KeepsJob, jobVars
  <2>2. CASE Nonterminal(job) /\ tick' = [tick EXCEPT !.pc = "cancelling", !.rev = job.rev]
    <3>1. tick'.pc = "cancelling" /\ tick'.rev = job.rev
      BY <1>2, <2>2, TickNotes
    <3>2. job.status # "ABSENT"
      BY <2>2 DEF Nonterminal, NonterminalStatuses, Executing
    <3>3. TickFence'
      BY <1>1, <1>2, <2>1, <3>1, <3>2 DEF TickFence, Underway
    <3> QED BY <1>1, <1>2, <2>1, <3>3, TickOnFence
  <2>3. CASE ~Nonterminal(job)
    <3>1. job'.status # "QUEUED"
      BY <2>1, <2>3 DEF Nonterminal, NonterminalStatuses
    <3> QED BY <1>3, <1>4, <2>1, <2>3, <3>1 DEF TickCancel
  <2> QED BY <1>4, <2>2, <2>3 DEF TickCancel
<1>5. CASE TickCancelling
  <2>1. job.status # "ABSENT" /\ (tick.rev = job.rev \/ job.status # "QUEUED")
    BY <1>5 DEF TickCancelling, FenceInv, TickFence
  <2>2. JobMoves /\ IF job.rev = tick.rev THEN job'.status = "CANCELLED" ELSE job' = job
    BY <1>5, <2>1, CancelMoves DEF TickCancelling, FenceInv
  <2>3. job'.status # "QUEUED"
    BY <2>1, <2>2
  <2> QED BY <1>3, <1>5, <2>2, <2>3 DEF TickCancelling
<1> QED BY <1>4, <1>5

\* A confirmed stop is the end.
LEMMA ConfirmFence ==
  ASSUME IInv, FenceInv, Confirm
  PROVE  FenceInv'
<1>1. /\ tick.pc = "confirm" /\ start' = start /\ act' = act /\ posted' = posted /\ KeepsJob
  BY DEF Confirm, TickUnchanged
<1>2. JobMoves /\ job' = job
  BY <1>1, JobStays DEF FenceInv, KeepsJob, jobVars
<1>3. /\ start = "idle" /\ rec.rev # 0 /\ Copy(tick.rec, rec) /\ tick.rec \in Records
      /\ TickShape(tick) /\ job.status # "QUEUED"
  BY <1>1, TickRecord DEF IInv, TickOK, FenceInv, TickFence
<1>4. CASE /\ KnownStopped \/ executor # "running"
           /\ Goto("package") /\ KeepsRecord
  <2>1. executor # "running"
    BY <1>4 DEF KnownStopped, FenceInv, RunOK
  <2>2. Ended
    BY <1>3, <2>1 DEF Ended
  <2>3. tick'.pc \notin Underway
    BY <1>3, <1>4, TickPlaced DEF Goto, Underway
  <2>4. ~Undoes
    BY ConfirmKeeps
  <2> QED BY <1>1, <1>2, <1>3, <2>2, <2>3, <2>4, TickEndFence
<1>5. CASE Unconfirmed /\ TickDone
  <2>1. "blocked" \in Phases /\ "blocked" # "available"
    BY DEF Phases
  <2>2. Guarded
    BY <1>1, <1>3, <1>5, <2>1, PhaseGuarded DEF Unconfirmed
  <2> QED BY <1>1, <1>2, <1>5, <2>2, TickOverFence
<1> QED BY <1>4, <1>5 DEF Confirm

Late == {"return", "entry", "run", "running", "reported", "final", "deliver", "saving",
         "finish", "acknowledged", "recheck", "failed", "capacity"}

\* How the package and the return move: to the end, or to a place in S.
MovesTo(S) ==
    \/ TickDone
    \/ \E pc \in S : Goto(pc)
    \/ \E pc \in S : \E v : \/ tick' = [tick EXCEPT !.pc = pc, !.rec = v]
                                \/ tick' = [tick EXCEPT !.rec = v, !.pc = pc]
                                \/ tick' = [tick EXCEPT !.pc = pc, !.cursor = v]
                                \/ tick' = [tick EXCEPT !.pc = pc, !.text = v]

\* Where that leads.
LEMMA MovePlaces ==
  ASSUME IInv, NEW S, MovesTo(S)
  PROVE  tick'.pc \in S \cup {"idle"}
<1>1. TickShape(tick)
  BY DEF IInv, TickOK
<1>2. CASE TickDone
  BY <1>2 DEF TickDone, TickIdle
<1>3. ASSUME NEW pc \in S, Goto(pc)
      PROVE  tick'.pc \in S
  <2>1. [tick EXCEPT !.pc = pc].pc = pc
    BY <1>1, TickPlaced
  <2> QED BY <1>3, <2>1 DEF Goto
<1>4. ASSUME NEW pc \in S, NEW v,
             \/ tick' = [tick EXCEPT !.pc = pc, !.rec = v]
             \/ tick' = [tick EXCEPT !.rec = v, !.pc = pc]
             \/ tick' = [tick EXCEPT !.pc = pc, !.cursor = v]
             \/ tick' = [tick EXCEPT !.pc = pc, !.text = v]
      PROVE  tick'.pc \in S
  <2>1. /\ [tick EXCEPT !.pc = pc, !.rec = v].pc = pc
        /\ [tick EXCEPT !.rec = v, !.pc = pc].pc = pc
        /\ [tick EXCEPT !.pc = pc, !.cursor = v].pc = pc
        /\ [tick EXCEPT !.pc = pc, !.text = v].pc = pc
    BY <1>1, TickPlaced
  <2> QED BY <1>4, <2>1
<1> QED BY <1>2, <1>3, <1>4 DEF MovesTo

ReturnStep ==
    \/ Package \/ EnterReturn \/ PrepareReturn \/ RunReturn \/ Assess \/ StoreReport
    \/ FinalCheck \/ Deliver \/ SaveRoom \/ Recheck \/ FinishInbox \/ FinishReturn \/ ReturnFails

\* The package and the return leave the job alone but for its inbox, and stay late.
LEMMA ReturnPlaces ==
  ASSUME IInv, ReturnStep
  PROVE  /\ tick.pc \in Late \cup {"package"} /\ start' = start /\ act' = act
         /\ KeepsJob \/ (Acknowledge /\ OnlyJob)
         /\ tick'.pc \in Late \cup {"idle"}
<1>1. CASE Package
  <2>1. TickDone \/ Goto("return")
    BY <1>1 DEF Package
  <2>2. tick'.pc \in Late \cup {"idle"}
    BY <2>1, MovePlaces DEF MovesTo, Late
  <2> QED BY <1>1, <2>2 DEF Package, TickUnchanged
<1>2. CASE EnterReturn
  <2> DEFINE pc == IF HasDelivered THEN "recheck" ELSE "entry"
  <2>1. TickDone \/ tick' = [tick EXCEPT !.rec = rec, !.pc = pc]
    BY <1>2 DEF EnterReturn
  <2>2. pc \in Late
    BY DEF Late
  <2> HIDE DEF pc
  <2>3. tick'.pc \in Late \cup {"idle"}
    BY <2>1, <2>2, MovePlaces DEF MovesTo
  <2> QED BY <1>2, <2>3 DEF EnterReturn, ReturnUnchanged, Late
<1>3. CASE PrepareReturn
  <2>1. \/ TickDone \/ Goto("final") \/ Goto("failed")
        \/ tick' = [tick EXCEPT !.pc = "run", !.rec = rec']
    BY <1>3 DEF PrepareReturn, BeginAssessment
  <2>2. tick'.pc \in Late \cup {"idle"}
    BY <2>1, MovePlaces DEF MovesTo, Late
  <2> QED BY <1>3, <2>2 DEF PrepareReturn, ReturnUnchanged, Late
<1>4. CASE RunReturn
  <2>1. Goto("capacity") \/ tick' = [tick EXCEPT !.pc = "running", !.cursor = cursor]
    BY <1>4 DEF RunReturn
  <2>2. tick'.pc \in Late \cup {"idle"}
    BY <2>1, MovePlaces DEF MovesTo, Late
  <2> QED BY <1>4, <2>2 DEF RunReturn, Late
<1>5. CASE Assess
  <2>1. Goto("failed") \/ \E text \in BOOLEAN : tick' = [tick EXCEPT !.pc = "reported", !.text = text]
    BY <1>5 DEF Assess
  <2>2. tick'.pc \in Late \cup {"idle"}
    BY <2>1, MovePlaces DEF MovesTo, Late
  <2> QED BY <1>5, <2>2 DEF Assess, ReturnUnchanged, Late
<1>6. CASE StoreReport
  <2>1. TickDone \/ tick' = [tick EXCEPT !.pc = "final", !.rec = rec']
    BY <1>6 DEF StoreReport
  <2>2. tick'.pc \in Late \cup {"idle"}
    BY <2>1, MovePlaces DEF MovesTo, Late
  <2> QED BY <1>6, <2>2 DEF StoreReport, ReturnUnchanged, Late
<1>7. CASE FinalCheck
  <2>1. TickDone \/ Goto("deliver")
    BY <1>7 DEF FinalCheck
  <2>2. tick'.pc \in Late \cup {"idle"}
    BY <2>1, MovePlaces DEF MovesTo, Late
  <2> QED BY <1>7, <2>2 DEF FinalCheck, ReturnUnchanged, Late
<1>8. CASE Deliver
  <2>1. \/ TickDone
        \/ tick' = [tick EXCEPT !.pc = "saving", !.rec = rec]
        \/ tick' = [tick EXCEPT !.pc = "finish", !.rec = rec]
    BY <1>8 DEF Deliver
  <2>2. tick'.pc \in Late \cup {"idle"}
    BY <2>1, MovePlaces DEF MovesTo, Late
  <2> QED BY <1>8, <2>2 DEF Deliver, Late
<1>9. CASE SaveRoom
  <2>1. Goto("finish") \/ Goto("failed")
    BY <1>9 DEF SaveRoom
  <2>2. tick'.pc \in Late \cup {"idle"}
    BY <2>1, MovePlaces DEF MovesTo, Late
  <2> QED BY <1>9, <2>2 DEF SaveRoom, Late
<1>10. CASE Recheck
  <2>1. TickDone \/ tick' = [tick EXCEPT !.pc = "finish", !.rec = rec]
    BY <1>10 DEF Recheck
  <2>2. tick'.pc \in Late \cup {"idle"}
    BY <2>1, MovePlaces DEF MovesTo, Late
  <2> QED BY <1>10, <2>2 DEF Recheck, ReturnUnchanged, Late
<1>11. CASE FinishInbox
  <2>1. tick'.pc \in Late \cup {"idle"}
    BY <1>11, MovePlaces DEF MovesTo, FinishInbox, Late
  <2> QED BY <1>11, <2>1 DEF FinishInbox, ReturnUnchanged, Late
<1>12. CASE FinishReturn \/ ReturnFails
  <2>1. tick'.pc \in Late \cup {"idle"}
    BY <1>12, MovePlaces DEF MovesTo, FinishReturn, ReturnFails
  <2> QED BY <1>12, <2>1 DEF FinishReturn, ReturnFails, ReturnUnchanged, Late
<1> QED BY <1>1, <1>2, <1>3, <1>4, <1>5, <1>6, <1>7, <1>8, <1>9, <1>10, <1>11, <1>12 DEF ReturnStep

\* After the end the return may write what it likes.
LEMMA ReturnFence ==
  ASSUME IInv, FenceInv, ReturnStep
  PROVE  FenceInv'
<1>1. /\ tick.pc \in Late \cup {"package"} /\ start' = start /\ act' = act
      /\ KeepsJob \/ (Acknowledge /\ OnlyJob)
      /\ tick'.pc \in Late \cup {"idle"}
  BY ReturnPlaces
<1>2. Ended /\ rec.rev # 0
  BY <1>1, TickRecord DEF Late, Underway, FenceInv, TickFence
<1>3. ~Undoes
  BY TickKeeps DEF ReturnStep, TickStep
<1>4. JobMoves
  BY <1>1, JobStays, AcknowledgeMoves DEF FenceInv
<1>5. tick'.pc \notin Underway \/ tick'.pc = "idle"
  BY <1>1 DEF Late, Underway
<1> QED BY <1>1, <1>2, <1>3, <1>4, <1>5, TickEndFence

\* Every step of the tick.
LEMMA TickFenced ==
  ASSUME IInv, FenceInv, TickStep
  PROVE  FenceInv'
BY ListFence, ReadJobFence, SuperviseFence, TickCancelFence, ConfirmFence, ReturnFence
   DEF TickStep, ReturnStep

-----------------------------------------------------------------------------
(* The actions of humans, and the outside. *)

\* The place and the note of an action that moves.
LEMMA ActPlaced ==
  ASSUME NEW a, ActShape(a), NEW p, NEW v
  PROVE  /\ [a EXCEPT !.pc = p].pc = p
         /\ [a EXCEPT !.pc = p, !.rev = v].pc = p
BY DEF ActShape

\* An action that begins has nothing running when it means to close the work.
LEMMA BeginActionFence ==
  ASSUME IInv, FenceInv, BeginAction
  PROVE  FenceInv'
<1>1. /\ start' = start /\ tick' = tick /\ posted' = posted /\ KeepsJob /\ Outstanding
  BY DEF BeginAction, ActUnchanged
<1>2. JobMoves /\ Rests
  BY <1>1, JobStays DEF FenceInv, Rests
<1>3. TickFence'
  BY <1>1, <1>2, TickFenceStays DEF FenceInv
<1>4. rec \in Records /\ Copy(rec, rec)
  BY RecordFields DEF IInv, RecordOK, Copy
<1>5. ASSUME Over, rec' = rec, act'.pc = "finish"
      PROVE  FenceInv'
  <2>1. Ended'
    BY <1>2, <1>5, EndedStays DEF FenceInv
  <2>2. ActFence'
    BY <1>5, <2>1 DEF ActFence
  <2> QED BY <1>1, <1>2, <1>3, <1>5, <2>2, KeepGuarded, FenceKept
<1>6. CASE HasDelivered /\ KeepsRecord
           /\ act' = [ActIdle EXCEPT !.pc = "finish", !.rec = rec, !.disposition = "delivered"]
  BY <1>5, <1>6 DEF HasDelivered, Over, KeepsRecord, ActIdle
<1>7. CASE Dismiss
  BY <1>5, <1>7 DEF Dismiss, Over, KeepsRecord, ActIdle
<1>8. CASE BeginStop
  <2>1. rec' = rec /\ act'.pc = "stop"
    BY <1>8 DEF BeginStop, KeepsRecord, ActIdle
  <2>2. ActFence'
    BY <2>1 DEF ActFence
  <2> QED BY <1>1, <1>2, <1>3, <2>1, <2>2, KeepGuarded, FenceKept
<1>9. CASE Retry
  <2>1. rec.phase # "available" /\ act' = act
    BY <1>1, <1>9 DEF Outstanding, Retry
  <2> DEFINE new == [rec EXCEPT !.phase = "catching-up", !.attempts = 0]
  <2>2. new \in Records /\ new.phase = "catching-up" /\ new.stopped = rec.stopped
    BY <1>4 DEF Records, Phases
  <2>3. Patch(rec, rec) \/ Patch(rec, new)
    BY <1>9 DEF Retry
  <2> HIDE DEF new
  <2>4. Guarded
    BY <1>1, <1>4, <2>1, <2>2, <2>3, PatchGuarded
  <2>5. ActFence'
    BY <1>2, <2>1, ActFenceStays DEF FenceInv
  <2> QED BY <1>2, <1>3, <2>4, <2>5, FenceKept
<1> QED BY <1>6, <1>7, <1>8, <1>9 DEF BeginAction

\* An action that goes on: a stop cancels the job, a finish closes what is over.
LEMMA ActFenced ==
  ASSUME IInv, FenceInv, ActStep
  PROVE  FenceInv'
<1>1. /\ act.pc # "idle" /\ start' = start /\ tick' = tick /\ posted' = posted
  BY DEF ActStep, Stop, StopCancel, StopCancelling, ActInbox, ActFinish, ActUnchanged
<1>2. /\ rec.rev # 0 /\ Copy(act.rec, rec) /\ act.rec \in Records /\ ActShape(act)
  BY <1>1, ActRecord DEF IInv, ActOK
<1>3. Rests
  BY <1>1 DEF Rests
<1>4. ASSUME JobMoves, Guarded, ActFence'
      PROVE  FenceInv'
  <2>1. TickFence'
    BY <1>1, <1>3, <1>4, TickFenceStays DEF FenceInv
  <2> QED BY <1>3, <1>4, <2>1, FenceKept
<1>5. CASE Stop
  <2>1. JobMoves
    BY <1>5, JobStays DEF Stop, FenceInv
  <2>2. "stopping" \in Phases /\ "stopping" # "available"
    BY DEF Phases
  <2>3. Guarded
    BY <1>1, <1>2, <1>5, <2>2, PhaseGuarded DEF Stop
  <2>4. act'.pc = "cancel"
    BY <1>2, <1>5, ActPlaced DEF Stop
  <2>5. ActFence'
    BY <2>4 DEF ActFence
  <2> QED BY <1>4, <2>1, <2>3, <2>5
<1>6. CASE StopCancel
  <2>1. JobMoves /\ job' = job /\ Guarded
    BY <1>1, <1>6, JobStays, KeepGuarded
       DEF StopCancel, FenceInv, KeepsRecord, KeepsJob, jobVars
  <2>2. act'.pc = IF Nonterminal(job) THEN "cancelling" ELSE "idle"
    BY <1>2, <1>6, ActPlaced DEF StopCancel, ActIdle
  <2>3. Nonterminal(job) => job.status # "ABSENT"
    BY DEF Nonterminal, NonterminalStatuses, Executing
  <2>4. ActFence'
    BY <2>1, <2>2, <2>3 DEF ActFence
  <2> QED BY <1>4, <2>1, <2>4
<1>7. CASE StopCancelling
  <2>1. job.status # "ABSENT"
    BY <1>7 DEF StopCancelling, FenceInv, ActFence
  <2>2. JobMoves /\ Guarded
    BY <1>1, <1>7, <2>1, CancelMoves, KeepGuarded DEF StopCancelling, FenceInv, KeepsRecord
  <2>3. ActFence'
    BY <1>7 DEF StopCancelling, ActDone, ActIdle, ActFence
  <2> QED BY <1>4, <2>2, <2>3
<1>8. CASE ActInbox
  <2>1. Ended /\ JobMoves /\ Guarded
    BY <1>1, <1>8, AcknowledgeMoves, KeepGuarded DEF ActInbox, FenceInv, ActFence, KeepsRecord
  <2>2. Ended' /\ act'.pc = "acknowledged"
    BY <1>2, <1>3, <1>8, <2>1, EndedStays, ActPlaced DEF ActInbox
  <2>3. ActFence'
    BY <2>2 DEF ActFence
  <2> QED BY <1>4, <2>1, <2>3
<1>9. CASE ActFinish
  <2>1. Ended /\ JobMoves
    BY <1>9, JobStays DEF ActFinish, FenceInv, ActFence
  <2>2. ~Undoes
    BY ActKeeps
  <2>3. Guarded
    BY <1>2, <2>1, <2>2, EndGuarded
  <2>4. ActFence'
    BY <1>9 DEF ActFinish, ActDone, ActIdle, ActFence
  <2> QED BY <1>4, <2>1, <2>3, <2>4
<1> QED BY <1>5, <1>6, <1>7, <1>8, <1>9 DEF ActStep

\* The worker, the room, the policy and a restart.
LEMMA OutsideFence ==
  ASSUME IInv, FenceInv, Worker \/ Message \/ Flip \/ CancelAll \/ Restart \/ UNCHANGED vars
  PROVE  FenceInv'
<1>1. rec' = rec /\ (posted' # "no" => posted # "no") /\ Guarded /\ Rests
  BY DEF Worker, Message, Flip, CancelAll, Restart, KeepsRecord, vars, workVars, Guarded, Over,
         Rests
<1>2. JobMoves
  <2>1. CASE Worker
    BY <2>1, RunMoves DEF Worker, FenceInv
  <2>2. CASE Message \/ UNCHANGED vars
    BY <2>2, JobStays DEF Message, vars, KeepsJob, FenceInv
  <2>3. CASE Flip
    BY <2>3, QuietMove DEF Flip, FenceInv
  <2>4. CASE CancelAll
    <3>1. job.status # "ABSENT"
      BY <2>4 DEF CancelAll, Nonterminal, NonterminalStatuses, Executing
    <3> QED BY <2>4, <3>1, CancelMoves DEF CancelAll, FenceInv
  <2>5. CASE Restart
    BY <2>5, RestartMoves DEF Restart, FenceInv
  <2> QED BY <2>1, <2>2, <2>3, <2>4, <2>5
<1>3. CASE Restart
  <2>1. tick'.pc = "idle" /\ act'.pc = "idle"
    BY <1>3 DEF Restart, TickIdle, ActIdle
  <2>2. TickFence' /\ ActFence'
    BY <2>1, TickFenceEnds DEF ActFence
  <2> QED BY <1>1, <1>2, <2>2, FenceKept
<1>4. CASE ~Restart
  <2>1. tick' = tick /\ act' = act
    BY <1>4 DEF Worker, Message, Flip, CancelAll, vars, workVars
  <2>2. TickFence' /\ ActFence'
    BY <1>1, <1>2, <2>1, TickFenceStays, ActFenceStays DEF FenceInv
  <2> QED BY <1>1, <1>2, <2>2, FenceKept
<1> QED BY <1>3, <1>4

\* Every step.
LEMMA StepFence ==
  ASSUME IInv, FenceInv, [Next]_vars
  PROVE  FenceInv'
BY StartFence, TickFenced, BeginActionFence, ActFenced, OutsideFence DEF Next

\* For every bound: the fence holds.
THEOREM FenceInvariant == Spec => []FenceInv
BY WorkInvariant, InitFence, StepFence, PTL DEF Spec

\* While the executor may be working, the work is outstanding, its participant is
\* withheld from the room and no return package exists: across restarts, failed
\* dispatches, lost cancellations and an executor that cannot be reached.
THEOREM WorkerIsFenced == Spec => []WorkerFenced
<1>1. ASSUME IInv, FenceInv
      PROVE  WorkerFenced
  <2> SUFFICES ASSUME executor = "running"
               PROVE  Outstanding /\ reserved /\ rec.package = "absent"
    BY DEF WorkerFenced
  <2>1. ~Ended /\ job.status # "ABSENT"
    BY <1>1 DEF Ended, FenceInv, RunOK
  <2>2. ~Over /\ rec.rev # 0
    BY <1>1, <2>1 DEF FenceInv, NoJobYet
  <2>3. rec.phase # "none" /\ rec.rev \in Nat
    BY <1>1, <2>2, RecordFields DEF IInv, RecordOK
  <2>4. Outstanding /\ rec.package = "absent"
    BY <1>1, <2>2, <2>3 DEF Outstanding, Over, IInv, RecordOK
  <2> QED BY <1>1, <2>4 DEF IInv, ReservationExact
<1> QED BY <1>1, WorkInvariant, FenceInvariant, PTL

-----------------------------------------------------------------------------
(* The bound on assessments.  An attempt is counted in the record before the  *)
(* assessment is made, and given back only when it was not made.              *)

\* An attempt is counted and its assessment not yet made.
Spending == tick.pc \in {"run", "capacity"}

CountInv ==
    /\ rec.attempts <= MaxAttempts /\ assessed \in Nat /\ assessed <= rec.attempts
    /\ Spending => assessed + 1 <= rec.attempts /\ rec.phase # "blocked"

\* A step that leaves the count alone, and blocks no return that is about to assess.
Counted ==
    /\ rec'.attempts = rec.attempts /\ assessed' = assessed
    /\ Spending' => Spending /\ (rec.phase # "blocked" => rec'.phase # "blocked")

\* Such a step keeps the count.
LEMMA CountKept ==
  ASSUME CountInv, Counted
  PROVE  CountInv'
BY DEF CountInv, Counted

\* The count at another revision.
LEMMA CountOf ==
  ASSUME NEW r \in Records, NEW n \in Nat
  PROVE  LET new == [r EXCEPT !.rev = n] IN new.attempts = r.attempts /\ new.phase = r.phase
BY DEF Records

\* What a write leaves in the record.
LEMMA WriteCount ==
  ASSUME IInv, NEW r, Copy(r, rec), NEW new \in Records, rec' = Write(r, new)
  PROVE  \/ rec' = rec
         \/ r = rec /\ Fresh(r) /\ rec'.attempts = new.attempts /\ rec'.phase = new.phase
<1>1. CASE ~Fresh(r)
  BY <1>1 DEF Write
<1>2. CASE Fresh(r)
  <2>1. r = rec /\ rec.rev + 1 \in Nat
    BY <1>2, FreshCopy, RecordFields DEF IInv, RecordOK
  <2>2. rec' = [new EXCEPT !.rev = rec.rev + 1]
    BY <1>2, <2>1 DEF Write
  <2> QED BY <1>2, <2>1, <2>2, CountOf
<1> QED BY <1>1, <1>2

\* A patch that keeps the attempts and does not block.
LEMMA PatchCounted ==
  ASSUME IInv, NEW r, Copy(r, rec), NEW new \in Records, rec' = Write(r, new),
         new.attempts = r.attempts, assessed' = assessed,
         \/ ~Spending'
         \/ Spending /\ new.phase # "blocked"
  PROVE  Counted
<1>1. CASE rec' = rec
  BY <1>1 DEF Counted
<1>2. CASE r = rec /\ rec'.attempts = new.attempts /\ rec'.phase = new.phase
  BY <1>2 DEF Counted
<1> QED BY <1>1, <1>2, WriteCount

\* Closing keeps the count.
LEMMA CloseCounted ==
  ASSUME IInv, NEW r \in Records, Copy(r, rec), NEW d \in {"none", "delivered", "no-update"},
         Close(r, d), assessed' = assessed, Spending' => Spending
  PROVE  Counted
<1> DEFINE new == [r EXCEPT !.phase = "available", !.disposition = d]
<1>1. "available" \in Phases
  BY DEF Phases
<1>2. new \in Records /\ new.phase = "available" /\ new.attempts = r.attempts
  BY <1>1 DEF Records
<1>3. rec' = Write(r, new)
  BY DEF Close
<1> HIDE DEF new
<1> QED BY <1>2, <1>3, PatchCounted

\* A patch of the phase keeps the count.
LEMMA PhaseCounted ==
  ASSUME IInv, NEW r \in Records, Copy(r, rec), NEW p \in Phases,
         Patch(r, [r EXCEPT !.phase = p]), assessed' = assessed,
         ~Spending' \/ (Spending /\ p # "blocked")
  PROVE  Counted
<1> DEFINE new == [r EXCEPT !.phase = p]
<1>1. new \in Records /\ new.phase = p /\ new.attempts = r.attempts
  <2>1. new \in Records /\ new.phase = p
    BY WithPhase
  <2>2. new.attempts = r.attempts
    BY DEF Records
  <2> QED BY <2>1, <2>2
<1>2. rec' = Write(r, new)
  BY DEF Patch
<1> HIDE DEF new
<1> QED BY <1>1, <1>2, PatchCounted

\* A step that changes neither the record nor the assessments.
LEMMA KeepCounted ==
  ASSUME rec' = rec, assessed' = assessed, Spending' => Spending
  PROVE  Counted
BY DEF Counted

\* Initially nothing was assessed.
LEMMA InitCount == Init => CountInv
<1> SUFFICES ASSUME Init PROVE CountInv
  OBVIOUS
<1>1. rec.attempts = 0 /\ assessed = 0 /\ tick.pc = "idle"
  BY DEF Init, NoRecord, TickIdle
<1> QED BY <1>1, WorkAssumption DEF CountInv, Spending

\* The admission.
LEMMA StartCount ==
  ASSUME IInv, CountInv, StartStep
  PROVE  CountInv'
<1>1. assessed' = assessed /\ (Spending' <=> Spending)
  BY DEF StartStep, Claim, Admit, Request, Rejected, Queued, StartUnchanged, Spending
<1>2. CASE rec' = rec
  BY <1>1, <1>2, KeepCounted, CountKept
<1>3. CASE Admit /\ rec' # rec
  <2>1. rec = NoRecord /\ rec' = First /\ tick.pc = "idle"
    <3>1. rec.rev = 0
      BY <1>3 DEF Admit, IInv, StartOK
    <3>2. tick.pc = "idle"
      <4>1. rec.rev \in Nat /\ tick.rec \in Records
        BY RecordFields DEF IInv, RecordOK, TickOK, Copy
      <4>2. tick.rec.rev \in Nat
        BY <4>1, RecordFields
      <4> QED BY <3>1, <4>1, <4>2 DEF IInv, TickOK, Copy, Live
    <3> QED BY <1>3, <3>1, <3>2 DEF Admit, First, IInv, RecordOK
  <2>2. NoRecord.attempts = 0 /\ First.attempts = 0
    BY DEF NoRecord, First
  <2>3. Counted
    BY <1>1, <2>1, <2>2 DEF Counted, Spending
  <2> QED BY <2>3, CountKept
<1>4. CASE Rejected
  <2>1. rec.rev >= 1 /\ rec.rev \in Nat /\ (rec.rev = 1 => rec = First)
    BY <1>4, RecordFields DEF Rejected, IInv, RecordOK, StartOK
  <2>2. Copy(First, rec) /\ First \in Records
    BY <2>1, FirstFields DEF Copy
  <2>3. Close(First, "no-update")
    BY <1>4 DEF Rejected, First
  <2> QED BY <1>1, <2>2, <2>3, CloseCounted, CountKept
<1>5. rec' = rec \/ Admit \/ Rejected
  BY DEF StartStep, Claim, Request, Queued, KeepsRecord
<1> QED BY <1>2, <1>3, <1>4, <1>5

-----------------------------------------------------------------------------
(* The count in the tick. *)

\* The tick up to the package.
LEMMA BeforeCount ==
  ASSUME IInv, FenceInv, CountInv,
         List \/ ReadJob \/ Supervise \/ TickCancel \/ TickCancelling \/ Confirm \/ Package
  PROVE  CountInv'
<1>1. assessed' = assessed
  BY DEF List, ReadJob, Supervise, TickCancel, TickCancelling, Confirm, Package, TickUnchanged
<1>2. tick.pc # "idle" => Copy(tick.rec, rec) /\ tick.rec \in Records
  BY TickCopy
<1>3. ~Spending'
  <2>1. TickShape(tick)
    BY DEF IInv, TickOK
  <2>2. CASE List
    BY <2>2 DEF List, TickIdle, Spending
  <2>3. CASE ReadJob
    <3> DEFINE pc == IF tick.rec.package = "absent" THEN "authority" ELSE "return"
    <3>1. TickDone \/ tick' = [tick EXCEPT !.job = job, !.pc = pc]
      BY <2>3 DEF ReadJob
    <3>2. pc \in {"authority", "return"}
      OBVIOUS
    <3> HIDE DEF pc
    <3>3. [tick EXCEPT !.job = job, !.pc = pc].pc = pc /\ TickIdle.pc = "idle"
      BY <2>1, TickNotes DEF TickIdle
    <3> QED BY <3>1, <3>2, <3>3 DEF Spending, TickDone
  <2>4. CASE Supervise
    <3> DEFINE n == IF authority THEN 1 ELSE 2
    <3>1. \/ TickDone \/ tick' = [tick EXCEPT !.pc = "confirm"]
          \/ tick' = [tick EXCEPT !.pc = "cancel", !.tries = n]
      BY <2>4 DEF Supervise
    <3> HIDE DEF n
    <3>2. /\ [tick EXCEPT !.pc = "cancel", !.tries = n].pc = "cancel"
          /\ [tick EXCEPT !.pc = "confirm"].pc = "confirm" /\ TickIdle.pc = "idle"
      BY <2>1, TickPlaced DEF TickIdle
    <3> QED BY <3>1, <3>2 DEF Spending, TickDone
  <2>5. CASE TickCancel \/ TickCancelling
    <3> DEFINE pc == AfterCancel(tick.tries)
               n == tick.tries - 1
    <3>1. \/ tick' = [tick EXCEPT !.pc = "cancelling", !.rev = job.rev]
          \/ tick' = [tick EXCEPT !.pc = pc, !.tries = n]
      BY <2>5 DEF TickCancel, TickCancelling
    <3>2. pc \in {"cancel", "confirm"}
      BY DEF AfterCancel
    <3> HIDE DEF pc, n
    <3>3. /\ [tick EXCEPT !.pc = "cancelling", !.rev = job.rev].pc = "cancelling"
          /\ [tick EXCEPT !.pc = pc, !.tries = n].pc = pc
      BY <2>1, TickPlaced
    <3> QED BY <3>1, <3>2, <3>3 DEF Spending
  <2>6. CASE Confirm \/ Package
    <3>1. TickDone \/ Goto("package") \/ Goto("return")
      BY <2>6 DEF Confirm, Package
    <3>2. /\ [tick EXCEPT !.pc = "package"].pc = "package"
          /\ [tick EXCEPT !.pc = "return"].pc = "return" /\ TickIdle.pc = "idle"
      BY <2>1, TickPlaced DEF TickIdle
    <3> QED BY <3>1, <3>2 DEF Spending, TickDone, Goto
  <2> QED BY <2>2, <2>3, <2>4, <2>5, <2>6
<1>4. CASE KeepsRecord
  BY <1>1, <1>3, <1>4, KeepCounted, CountKept DEF KeepsRecord
<1>5. CASE ReadJob /\ ~KeepsRecord
  <2>1. tick.pc = "job" /\ Close(tick.rec, "no-update")
    BY <1>5 DEF ReadJob
  <2> QED BY <1>1, <1>2, <1>3, <2>1, CloseCounted, CountKept
<1>6. CASE Supervise /\ ~KeepsRecord
  <2>1. tick.pc = "authority" /\ Patch(tick.rec, [tick.rec EXCEPT !.phase = WorkerPhase(tick.job)])
    BY <1>6 DEF Supervise
  <2>2. WorkerPhase(tick.job) \in Phases
    BY DEF WorkerPhase, Phases
  <2> QED BY <1>1, <1>2, <1>3, <2>1, <2>2, PhaseCounted, CountKept
<1>7. CASE Confirm /\ ~KeepsRecord
  <2>1. tick.pc = "confirm" /\ Patch(tick.rec, [tick.rec EXCEPT !.phase = "blocked"])
    BY <1>7 DEF Confirm, Unconfirmed
  <2>2. "blocked" \in Phases
    BY DEF Phases
  <2> QED BY <1>1, <1>2, <1>3, <2>1, <2>2, PhaseCounted, CountKept
<1>8. CASE Package
  <2> DEFINE found == Findings(tick.job)
             new == [tick.rec EXCEPT !.phase = "catching-up", !.stopped = TRUE, !.package = found]
  <2>1. found \in Packages /\ tick.pc = "package"
    BY <1>8 DEF Findings, Packages, Package
  <2>2. rec' = Write(tick.rec, new)
    BY <1>8 DEF Package, Patch
  <2> HIDE DEF found
  <2>3. new \in Records /\ new.attempts = tick.rec.attempts
    BY <1>2, <2>1 DEF Records, Phases
  <2> HIDE DEF new
  <2> QED BY <1>1, <1>2, <1>3, <2>1, <2>2, <2>3, PatchCounted, CountKept
<1>9. KeepsRecord \/ ReadJob \/ Supervise \/ Confirm \/ Package
  BY DEF List, TickCancel, TickCancelling
<1> QED BY <1>4, <1>5, <1>6, <1>7, <1>8, <1>9

\* The return, but for its assessment.
LEMMA ReturnCount ==
  ASSUME IInv, FenceInv, CountInv,
         \/ EnterReturn \/ Assess \/ StoreReport \/ FinalCheck
         \/ Deliver \/ SaveRoom \/ Recheck \/ FinishInbox \/ FinishReturn
  PROVE  CountInv'
<1>1. /\ assessed' = assessed
      /\ tick.pc \in {"return", "running", "reported", "final", "deliver", "saving",
                      "recheck", "finish", "acknowledged"}
  BY DEF EnterReturn, Assess, StoreReport, FinalCheck, Deliver, SaveRoom, Recheck,
         FinishInbox, FinishReturn
<1>2. Copy(tick.rec, rec) /\ tick.rec \in Records
  BY <1>1, TickCopy
<1> DEFINE S == {"recheck", "entry", "failed", "reported", "final", "deliver", "saving",
                 "finish", "acknowledged"}
<1>3. MovesTo(S)
  <2>1. CASE EnterReturn
    <3> DEFINE pc == IF HasDelivered THEN "recheck" ELSE "entry"
    <3>1. TickDone \/ tick' = [tick EXCEPT !.rec = rec, !.pc = pc]
      BY <2>1 DEF EnterReturn
    <3>2. pc \in S
      OBVIOUS
    <3> HIDE DEF pc
    <3> QED BY <3>1, <3>2 DEF MovesTo
  <2>2. CASE Assess
    BY <2>2 DEF Assess, MovesTo
  <2>3. CASE StoreReport
    BY <2>3 DEF StoreReport, MovesTo
  <2>4. CASE FinalCheck
    BY <2>4 DEF FinalCheck, MovesTo
  <2>5. CASE Deliver
    BY <2>5 DEF Deliver, MovesTo
  <2>6. CASE SaveRoom
    BY <2>6 DEF SaveRoom, MovesTo
  <2>7. CASE Recheck
    BY <2>7 DEF Recheck, MovesTo
  <2>8. CASE FinishInbox
    BY <2>8 DEF FinishInbox, MovesTo
  <2>9. CASE FinishReturn
    BY <2>9 DEF FinishReturn, MovesTo
  <2> QED BY <2>1, <2>2, <2>3, <2>4, <2>5, <2>6, <2>7, <2>8, <2>9
<1>4. ~Spending'
  <2>1. tick'.pc \in S \cup {"idle"}
    BY <1>3, MovePlaces
  <2> QED BY <2>1 DEF Spending
<1> HIDE DEF S
<1>5. CASE KeepsRecord
  BY <1>1, <1>4, <1>5, KeepCounted, CountKept DEF KeepsRecord
<1>6. CASE StoreReport
  <2> DEFINE report == tick.cursor
             text == tick.text
             new == [tick.rec EXCEPT !.phase = "report-pending", !.report = report, !.text = text]
  <2>1. report \in Nat /\ text \in BOOLEAN
    BY DEF IInv, TickOK
  <2>2. rec' = Write(tick.rec, new)
    BY <1>6 DEF StoreReport, Patch
  <2> HIDE DEF report, text
  <2>3. new \in Records /\ new.attempts = tick.rec.attempts
    BY <1>2, <2>1 DEF Records, Phases
  <2> HIDE DEF new
  <2> QED BY <1>1, <1>2, <1>4, <2>2, <2>3, PatchCounted, CountKept
<1>7. CASE FinalCheck /\ ~KeepsRecord
  <2>1. Patch(tick.rec, [tick.rec EXCEPT !.phase = "blocked"])
    BY <1>7 DEF FinalCheck
  <2>2. "blocked" \in Phases
    BY DEF Phases
  <2> QED BY <1>1, <1>2, <1>4, <2>1, <2>2, PhaseCounted, CountKept
<1>8. CASE FinishReturn /\ ~KeepsRecord
  <2>1. \E d \in {"delivered", "no-update"} : Close(tick.rec, d)
    BY <1>8 DEF FinishReturn
  <2> QED BY <1>1, <1>2, <1>4, <2>1, CloseCounted, CountKept
<1>9. KeepsRecord \/ StoreReport \/ FinalCheck \/ FinishReturn
  BY DEF EnterReturn, Assess, Deliver, SaveRoom, Recheck, FinishInbox
<1> QED BY <1>5, <1>6, <1>7, <1>8, <1>9

\* Another assessment is counted before it is made, while one is left.
LEMMA PrepareCount ==
  ASSUME IInv, CountInv, PrepareReturn
  PROVE  CountInv'
<1>1. /\ tick.pc = "entry" /\ assessed' = assessed /\ TickShape(tick)
      /\ rec.attempts \in Nat /\ MaxAttempts \in Nat
  BY WorkAssumption, RecordFields DEF PrepareReturn, IInv, TickOK, RecordOK
<1>2. Copy(tick.rec, rec) /\ tick.rec \in Records
  BY <1>1, TickCopy
<1>3. CASE Patch(tick.rec, [tick.rec EXCEPT !.phase = "blocked"]) /\ TickDone
  <2>1. ~Spending'
    BY <1>3 DEF TickDone, TickIdle, Spending
  <2>2. "blocked" \in Phases
    BY DEF Phases
  <2> QED BY <1>1, <1>2, <1>3, <2>1, <2>2, PhaseCounted, CountKept
<1>4. CASE KeepsRecord /\ (Goto("final") \/ Goto("failed"))
  <2>1. /\ [tick EXCEPT !.pc = "final"].pc = "final"
        /\ [tick EXCEPT !.pc = "failed"].pc = "failed"
    BY <1>1, TickPlaced
  <2>2. ~Spending'
    BY <1>4, <2>1 DEF Spending, Goto
  <2> QED BY <1>1, <1>4, <2>2, KeepCounted, CountKept DEF KeepsRecord
<1>5. CASE BeginAssessment /\ AttemptLeft(tick.rec)
  <2> DEFINE n == tick.rec.attempts + 1
             new == [tick.rec EXCEPT !.phase = "catching-up", !.report = None,
                       !.text = FALSE, !.attempts = n]
  <2>1. n \in Nat
    BY <1>2, RecordFields
  <2>2. rec' = Write(tick.rec, new)
    BY <1>5 DEF BeginAssessment, Patch
  <2> HIDE DEF n
  <2>3. new \in Records /\ new.attempts = n /\ new.phase = "catching-up"
    BY <1>2, <2>1 DEF Records, Phases, None
  <2> HIDE DEF new
  <2>4. CASE ~Fresh(tick.rec)
    <3>1. ~Spending' /\ rec' = rec
      BY <1>5, <2>2, <2>4 DEF BeginAssessment, TickDone, TickIdle, Spending, Write
    <3> QED BY <1>1, <3>1, KeepCounted, CountKept
  <2>5. CASE Fresh(tick.rec)
    <3>1. tick.rec = rec
      BY <1>2, <2>5, FreshCopy
    <3>2. rec'.attempts = n /\ rec'.phase = "catching-up"
      <4>1. rec' = [new EXCEPT !.rev = rec.rev + 1] /\ rec.rev + 1 \in Nat
        BY <2>2, <2>5, <3>1, RecordFields DEF Write, IInv, RecordOK
      <4> QED BY <2>3, <4>1, CountOf
    <3>3. rec'.attempts = rec.attempts + 1 /\ rec.attempts < MaxAttempts
      BY <1>5, <3>1, <3>2 DEF AttemptLeft, n
    <3> QED BY <1>1, <3>2, <3>3 DEF CountInv, Spending
  <2> QED BY <2>4, <2>5
<1> QED BY <1>3, <1>4, <1>5 DEF PrepareReturn

\* The counted assessment is made, or waits for capacity.
LEMMA RunCount ==
  ASSUME IInv, CountInv, RunReturn
  PROVE  CountInv'
<1>1. /\ tick.pc = "run" /\ rec' = rec /\ TickShape(tick) /\ rec.attempts \in Nat
  BY RecordFields DEF RunReturn, KeepsRecord, IInv, TickOK, RecordOK
<1>2. Spending
  BY <1>1 DEF Spending
<1>3. CASE tick' = [tick EXCEPT !.pc = "running", !.cursor = cursor] /\ assessed' = assessed + 1
  <2>1. tick'.pc = "running"
    BY <1>1, <1>3, TickPlaced
  <2> QED BY <1>1, <1>2, <1>3, <2>1 DEF CountInv, Spending
<1>4. CASE Goto("capacity") /\ assessed' = assessed
  <2>1. Counted
    BY <1>1, <1>2, <1>4 DEF Counted
  <2> QED BY <2>1, CountKept
<1> QED BY <1>3, <1>4 DEF RunReturn

\* A failure keeps the count; a wait for capacity gives the attempt back.
LEMMA FailsCount ==
  ASSUME IInv, CountInv, ReturnFails
  PROVE  CountInv'
<1>1. assessed' = assessed /\ ~Spending'
  BY DEF ReturnFails, TickDone, TickIdle, Spending
<1>2. /\ rec \in Records /\ rec.attempts \in Nat /\ rec.rev \in Nat /\ Copy(rec, rec)
      /\ rec.rev + 1 \in Nat
  BY RecordFields DEF IInv, RecordOK, Copy
<1>3. CASE KeepsRecord
  BY <1>1, <1>3, KeepCounted, CountKept DEF KeepsRecord
<1>4. CASE Patch(rec, AfterFailure(tick.pc)) /\ tick.pc = "capacity"
  <2>1. assessed + 1 <= rec.attempts /\ assessed \in Nat
    BY <1>4 DEF CountInv, Spending
  <2> DEFINE n == IF rec.attempts = 0 THEN 0 ELSE rec.attempts - 1
             new == [rec EXCEPT !.phase = "catching-up", !.attempts = n]
  <2>2. AfterFailure(tick.pc) = new
    BY <1>4 DEF AfterFailure
  <2>3. n \in Nat
    BY <1>2, <2>1
  <2>4. n + 1 = rec.attempts
    BY <1>2, <2>1
  <2> HIDE DEF n
  <2>5. new \in Records /\ new.attempts = n
    BY <1>2, <2>3 DEF Records, Phases
  <2>6. rec' = [new EXCEPT !.rev = rec.rev + 1]
    BY <1>4, <2>2 DEF Patch, Write, Fresh
  <2> HIDE DEF new
  <2>7. rec'.attempts = n
    BY <1>2, <2>5, <2>6, CountOf
  <2> QED BY <1>1, <1>2, <2>1, <2>3, <2>4, <2>7, WorkAssumption DEF CountInv
<1>5. CASE Patch(rec, AfterFailure(tick.pc)) /\ tick.pc = "failed"
  <2> DEFINE p == IF rec.attempts \in 1 .. MaxAttempts - 1 THEN "catching-up" ELSE "blocked"
  <2>1. Patch(rec, [rec EXCEPT !.phase = p])
    BY <1>5 DEF AfterFailure
  <2>2. p \in Phases
    BY DEF Phases
  <2> HIDE DEF p
  <2> QED BY <1>1, <1>2, <2>1, <2>2, PhaseCounted, CountKept
<1> QED BY <1>3, <1>4, <1>5 DEF ReturnFails

\* The actions: only an accepted retry starts the count again, and it is accepted
\* only of a blocked return, which is not about to assess.
LEMMA ActionCount ==
  ASSUME IInv, CountInv, BeginAction \/ ActStep
  PROVE  CountInv'
<1>1. tick' = tick /\ (Spending' <=> Spending)
  BY DEF BeginAction, ActStep, Stop, StopCancel, StopCancelling, ActInbox, ActFinish,
         ActUnchanged, Spending
<1>2. /\ rec \in Records /\ rec.attempts \in Nat /\ rec.rev + 1 \in Nat /\ Copy(rec, rec)
      /\ rec.phase \in Phases /\ MaxAttempts \in Nat
  BY RecordFields, WorkAssumption DEF IInv, RecordOK, Copy
<1>3. CASE KeepsRecord /\ assessed' = assessed
  BY <1>1, <1>3, KeepCounted, CountKept DEF KeepsRecord
<1>4. CASE Patch(rec, rec) /\ assessed' = assessed /\ rec.phase = "catching-up"
  <2>1. rec' = Write(rec, rec)
    BY <1>4 DEF Patch
  <2> QED BY <1>1, <1>2, <1>4, <2>1, PatchCounted, CountKept
<1>5. CASE /\ Patch(rec, [rec EXCEPT !.phase = "catching-up", !.attempts = 0])
           /\ assessed' = 0 /\ rec.phase = "blocked"
  <2> DEFINE new == [rec EXCEPT !.phase = "catching-up", !.attempts = 0]
  <2>1. new \in Records /\ new.attempts = 0
    BY <1>2 DEF Records, Phases
  <2>2. rec' = [new EXCEPT !.rev = rec.rev + 1]
    BY <1>5 DEF Patch, Write, Fresh
  <2> HIDE DEF new
  <2>3. rec'.attempts = 0
    BY <1>2, <2>1, <2>2, CountOf
  <2>4. ~Spending
    BY <1>5 DEF CountInv
  <2> QED BY <1>1, <1>2, <1>5, <2>3, <2>4 DEF CountInv
<1>6. CASE Stop
  <2>1. act.pc # "idle" /\ assessed' = assessed
        /\ Patch(act.rec, [act.rec EXCEPT !.phase = "stopping"])
    BY <1>6 DEF Stop
  <2>2. "stopping" \in Phases /\ "stopping" # "blocked"
    BY DEF Phases
  <2> QED BY <1>1, <2>1, <2>2, ActCopy, PhaseCounted, CountKept
<1>7. CASE ActFinish
  <2>1. act.pc # "idle" /\ assessed' = assessed /\ Close(act.rec, act.disposition)
    BY <1>7 DEF ActFinish
  <2> QED BY <1>1, <2>1, ActCopy, CloseCounted, CountKept
<1>8. CASE BeginAction
  BY <1>3, <1>4, <1>5, <1>8 DEF BeginAction, BeginStop, Dismiss, Retry
<1>9. CASE StopCancel \/ StopCancelling \/ ActInbox
  BY <1>3, <1>9 DEF StopCancel, StopCancelling, ActInbox
<1> QED BY <1>6, <1>7, <1>8, <1>9 DEF ActStep

\* Every step.
LEMMA StepCount ==
  ASSUME IInv, FenceInv, CountInv, [Next]_vars
  PROVE  CountInv'
<1>1. CASE TickStep
  BY <1>1, BeforeCount, ReturnCount, PrepareCount, RunCount, FailsCount DEF TickStep
<1>2. CASE Worker \/ Message \/ Flip \/ CancelAll \/ Restart \/ UNCHANGED vars
  <2>1. rec' = rec /\ assessed' = assessed /\ (Spending' => Spending)
    BY <1>2 DEF Worker, Message, Flip, CancelAll, Restart, KeepsRecord, vars, workVars,
                Spending, TickIdle
  <2> QED BY <2>1, KeepCounted, CountKept
<1> QED BY <1>1, <1>2, StartCount, ActionCount DEF Next

\* Between two accepted retries no more than MaxAttempts assessments are run, for
\* every bound: whatever the conversation, capacity, actions and restarts do.
THEOREM AssessmentsAreBounded == Spec => []AssessmentsBounded
<1>1. ASSUME IInv, CountInv
      PROVE  AssessmentsBounded
  <2>1. rec.attempts \in Nat /\ MaxAttempts \in Nat
    BY <1>1, RecordFields, WorkAssumption DEF IInv, RecordOK
  <2> QED BY <1>1, <2>1 DEF CountInv, AssessmentsBounded
<1> QED BY <1>1, InitCount, StepCount, WorkInvariant, FenceInvariant, PTL DEF Spec

=============================================================================
