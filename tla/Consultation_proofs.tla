------------------------ MODULE Consultation_proofs ------------------------
(***************************************************************************)
(* What holds of Consultation for every selection, limit, set of requests  *)
(* and number of restarts: its types, that no provider call is made twice, *)
(* that an artifact saw the whole record, and that ends are final.         *)
(***************************************************************************)
EXTENDS Consultation, FiniteSetTheorems, TLAPS

\* Number of inputs is a bound, not a count: keys beyond it are not tracked.
LEMMA InputsNat == MaxInputs \in Nat
BY ConsultationAssumption, FS_CardinalityType DEF MaxInputs

\* Limits are positive, and the selection enumerates finitely many participants.
LEMMA Constants ==
    /\ RoundLimit \in Nat \ {0} /\ ConcurrencyLimit \in Nat \ {0} /\ TurnLimit \in Nat \ {0}
    /\ DialogueEnabled \in BOOLEAN
    /\ IsFiniteSet(Participants)
<1>1. /\ RoundLimit \in Nat \ {0} /\ ConcurrencyLimit \in Nat \ {0}
      /\ TurnLimit \in Nat \ {0} /\ DialogueEnabled \in BOOLEAN
  BY ConsultationAssumption
<1>2. Selected \in Seq(Participants)
  BY ConsultationAssumption
<1>3. IsFiniteSet(1..Len(Selected))
  <2>1. Len(Selected) \in Nat
    BY <1>2
  <2> QED
    BY <2>1, FS_Interval
<1>4. /\ Participants = {Selected[i] : i \in 1..Len(Selected)}
      /\ DOMAIN Selected = 1..Len(Selected)
      /\ Selected = [i \in 1..Len(Selected) |-> Selected[i]]
  BY <1>2 DEF Participants, Range
<1>5. Selected \in Surjection(1..Len(Selected), Participants)
  BY <1>4 DEF Surjection
<1>6. IsFiniteSet(Participants)
  BY <1>3, <1>5, FS_Surjection
<1> QED
  BY <1>1, <1>6

\* The number of turns a participant has had is a number, and one more is a
\* round while there are rounds left.
LEMMA RoundsLeft ==
    ASSUME NEW r, r.turns \subseteq Turns, NEW p \in Participants, HasRounds(r, p)
    PROVE  <<p, TurnsOf(r, p) + 1>> \in Turns
<1>1. IsFiniteSet(1..RoundLimit)
  BY Constants, FS_Interval
<1>2. IsFiniteSet(Turns)
  BY <1>1, Constants, FS_Product DEF Turns
<1>3. IsFiniteSet({t \in r.turns : t[1] = p})
  BY <1>2, FS_Subset
<1>4. TurnsOf(r, p) \in Nat
  BY <1>3, FS_CardinalityType DEF TurnsOf
<1> QED
  BY <1>4, Constants DEF HasRounds, Turns

\* A batch is made of turns.
LEMMA BatchType ==
    ASSUME NEW r, r.turns \subseteq Turns
    PROVE  Batch(r) \subseteq Turns
<1> DEFINE eligible == {p \in Participants : HasRounds(r, p)}
<1>1. \A b \in Batch(r) : \E p \in eligible : b = <<p, TurnsOf(r, p) + 1>>
  BY DEF Batch
<1> QED
  BY <1>1, RoundsLeft

-----------------------------------------------------------------------------
(* Types *)

\* The empty record, view and run.
LEMMA EmptyTyped == NoRecord \in Record /\ NoView \in Views
BY InputsNat DEF NoRecord, NoView, Record, Views, States

Statuses == [0..MaxInputs -> {"none", "started", "completed"}]

\* A record of the right type with these values in the fields the proofs read.
IsRecord(q, revision, state, turns, started, inputs, synthesis, artifact) ==
    /\ q \in Record
    /\ q.revision = revision /\ q.state = state /\ q.turns = turns /\ q.started = started
    /\ q.inputs = inputs /\ q.synthesis = synthesis /\ q.artifact = artifact

\* The fields of a record.
LEMMA Fields ==
    ASSUME NEW r \in Record
    PROVE  /\ r.revision \in Nat /\ r.turns \subseteq Turns /\ r.started \subseteq Turns
           /\ r.inputs \in Seq(Replies) /\ r.state \in States /\ r.duties \subseteq Participants
           /\ r.synthesis \in Statuses /\ r.artifact \in Views /\ r.question \in BOOLEAN
BY DEF Record, Statuses

\* Writing one field of a record.
LEMMA SetOne ==
    ASSUME NEW r \in Record
    PROVE  /\ \A n \in Nat : IsRecord([r EXCEPT !.revision = n], n, r.state, r.turns, r.started, r.inputs, r.synthesis, r.artifact)
           /\ \A v \in States : IsRecord([r EXCEPT !.state = v], r.revision, v, r.turns, r.started, r.inputs, r.synthesis, r.artifact)
           /\ \A v \in BOOLEAN : IsRecord([r EXCEPT !.uncertain = v], r.revision, r.state, r.turns, r.started, r.inputs, r.synthesis, r.artifact)
           /\ \A v \in BOOLEAN : IsRecord([r EXCEPT !.question = v], r.revision, r.state, r.turns, r.started, r.inputs, r.synthesis, r.artifact)
           /\ \A v \in BOOLEAN : IsRecord([r EXCEPT !.execution = v], r.revision, r.state, r.turns, r.started, r.inputs, r.synthesis, r.artifact)
           /\ \A v \in SUBSET Participants : IsRecord([r EXCEPT !.duties = v], r.revision, r.state, r.turns, r.started, r.inputs, r.synthesis, r.artifact)
           /\ \A v \in SUBSET Turns : IsRecord([r EXCEPT !.turns = v], r.revision, r.state, v, r.started, r.inputs, r.synthesis, r.artifact)
           /\ \A v \in SUBSET Turns : IsRecord([r EXCEPT !.started = v], r.revision, r.state, r.turns, v, r.inputs, r.synthesis, r.artifact)
           /\ \A v \in Seq(Replies) : IsRecord([r EXCEPT !.inputs = v], r.revision, r.state, r.turns, r.started, v, r.synthesis, r.artifact)
           /\ \A v \in Statuses : IsRecord([r EXCEPT !.synthesis = v], r.revision, r.state, r.turns, r.started, r.inputs, v, r.artifact)
           /\ \A v \in Views : IsRecord([r EXCEPT !.artifact = v], r.revision, r.state, r.turns, r.started, r.inputs, r.synthesis, v)
<1>1. \A n \in Nat : IsRecord([r EXCEPT !.revision = n], n, r.state, r.turns, r.started, r.inputs, r.synthesis, r.artifact)
  BY DEF Record, IsRecord, Statuses
<1>2. \A v \in States : IsRecord([r EXCEPT !.state = v], r.revision, v, r.turns, r.started, r.inputs, r.synthesis, r.artifact)
  BY DEF Record, IsRecord, Statuses
<1>3. \A v \in BOOLEAN : IsRecord([r EXCEPT !.uncertain = v], r.revision, r.state, r.turns, r.started, r.inputs, r.synthesis, r.artifact)
  BY DEF Record, IsRecord, Statuses
<1>4. \A v \in BOOLEAN : IsRecord([r EXCEPT !.question = v], r.revision, r.state, r.turns, r.started, r.inputs, r.synthesis, r.artifact)
  BY DEF Record, IsRecord, Statuses
<1>5. \A v \in BOOLEAN : IsRecord([r EXCEPT !.execution = v], r.revision, r.state, r.turns, r.started, r.inputs, r.synthesis, r.artifact)
  BY DEF Record, IsRecord, Statuses
<1>6. \A v \in SUBSET Participants : IsRecord([r EXCEPT !.duties = v], r.revision, r.state, r.turns, r.started, r.inputs, r.synthesis, r.artifact)
  BY DEF Record, IsRecord, Statuses
<1>7. \A v \in SUBSET Turns : IsRecord([r EXCEPT !.turns = v], r.revision, r.state, v, r.started, r.inputs, r.synthesis, r.artifact)
  BY DEF Record, IsRecord, Statuses
<1>8. \A v \in SUBSET Turns : IsRecord([r EXCEPT !.started = v], r.revision, r.state, r.turns, v, r.inputs, r.synthesis, r.artifact)
  BY DEF Record, IsRecord, Statuses
<1>9. \A v \in Seq(Replies) : IsRecord([r EXCEPT !.inputs = v], r.revision, r.state, r.turns, r.started, v, r.synthesis, r.artifact)
  BY DEF Record, IsRecord, Statuses
<1>10. \A v \in Statuses : IsRecord([r EXCEPT !.synthesis = v], r.revision, r.state, r.turns, r.started, r.inputs, v, r.artifact)
  BY DEF Record, IsRecord, Statuses
<1>11. \A v \in Views : IsRecord([r EXCEPT !.artifact = v], r.revision, r.state, r.turns, r.started, r.inputs, r.synthesis, v)
  BY DEF Record, IsRecord, Statuses
<1> QED
  BY <1>1, <1>2, <1>3, <1>4, <1>5, <1>6, <1>7, <1>8, <1>9, <1>10, <1>11

\* A change counts.
LEMMA Bump ==
    ASSUME NEW n \in Nat, NEW s, NEW t, NEW st, NEW i, NEW sy, NEW a, NEW q,
           IsRecord(q, n, s, t, st, i, sy, a)
    PROVE  IsRecord(Changed(q), n + 1, s, t, st, i, sy, a)
<1>1. q \in Record /\ q.revision = n /\ n + 1 \in Nat
  BY DEF IsRecord
<1>2. IsRecord([q EXCEPT !.revision = n + 1], n + 1, q.state, q.turns, q.started, q.inputs, q.synthesis, q.artifact)
  BY <1>1, SetOne
<1>3. Changed(q) = [q EXCEPT !.revision = n + 1]
  BY <1>1 DEF Changed
<1> QED
  BY <1>2, <1>3 DEF IsRecord

\* A transition.
LEMMA MovedToIs ==
    ASSUME NEW r \in Record, NEW st \in States
    PROVE  IsRecord(MovedTo(r, st), r.revision + 1, st, r.turns, r.started, r.inputs, r.synthesis, r.artifact)
<1>0. r.revision \in Nat /\ st \in States
  BY Fields DEF States, Terminal
<1> DEFINE r1 == [r EXCEPT !.state = st]
<1>1. IsRecord(r1, r.revision, st, r.turns, r.started, r.inputs, r.synthesis, r.artifact)
  BY <1>0, SetOne
<1>2. MovedTo(r, st) = Changed(r1)
  BY DEF MovedTo, Changed
<1> HIDE DEF r1
<1> QED
  BY <1>0, <1>1, <1>2, Bump

\* A failure.
LEMMA FailedIs ==
    ASSUME NEW r \in Record, NEW b \in BOOLEAN
    PROVE  IsRecord(FailedWith(r, b), r.revision + 1, "failed", r.turns, r.started, r.inputs, r.synthesis, r.artifact)
<1>0. r.revision \in Nat /\ "failed" \in States /\ b \in BOOLEAN
  BY Fields DEF States, Terminal
<1> DEFINE r1 == [r EXCEPT !.state = "failed"]
<1>1. IsRecord(r1, r.revision, "failed", r.turns, r.started, r.inputs, r.synthesis, r.artifact)
  BY <1>0, SetOne
<1> DEFINE r2 == [r1 EXCEPT !.uncertain = b]
<1>2. IsRecord(r2, r.revision, "failed", r.turns, r.started, r.inputs, r.synthesis, r.artifact)
  <2> HIDE DEF r1
  <2>1. r1 \in Record
    BY <1>1 DEF IsRecord
  <2>2. IsRecord(r2, r1.revision, r1.state, r1.turns, r1.started, r1.inputs, r1.synthesis, r1.artifact)
    BY <1>0, <2>1, SetOne
  <2> QED
    BY <1>1, <2>2 DEF IsRecord
<1>3. FailedWith(r, b) = Changed(r2)
  BY DEF FailedWith, Changed
<1> HIDE DEF r2
<1> QED
  BY <1>0, <1>2, <1>3, Bump

\* A claim.
LEMMA ClaimedIs ==
    ASSUME NEW r \in Record, NEW t \in Turns
    PROVE  IsRecord(ClaimedTurn(r, t), r.revision + 1, r.state, r.turns, (r.started \cup {t}), r.inputs, r.synthesis, r.artifact)
<1>0. r.revision \in Nat /\ (r.started \cup {t}) \in SUBSET Turns
  BY Fields DEF States, Terminal
<1> DEFINE r1 == [r EXCEPT !.started = (r.started \cup {t})]
<1>1. IsRecord(r1, r.revision, r.state, r.turns, (r.started \cup {t}), r.inputs, r.synthesis, r.artifact)
  BY <1>0, SetOne
<1>2. ClaimedTurn(r, t) = Changed(r1)
  BY DEF ClaimedTurn, Changed
<1> HIDE DEF r1
<1> QED
  BY <1>0, <1>1, <1>2, Bump

\* An answer of a turn.
LEMMA RecordedIs ==
    ASSUME NEW r \in Record, NEW t \in Turns, NEW b \in BOOLEAN
    PROVE  IsRecord(Recorded(r, t, b), r.revision + 1, r.state, (r.turns \cup {t}), (r.started \ {t}), r.inputs, r.synthesis, r.artifact)
<1>0. r.revision \in Nat /\ (r.turns \cup {t}) \in SUBSET Turns /\ (r.started \ {t}) \in SUBSET Turns /\ (r.question \/ b) \in BOOLEAN
  BY Fields DEF States, Terminal
<1> DEFINE r1 == [r EXCEPT !.turns = (r.turns \cup {t})]
<1>1. IsRecord(r1, r.revision, r.state, (r.turns \cup {t}), r.started, r.inputs, r.synthesis, r.artifact)
  BY <1>0, SetOne
<1> DEFINE r2 == [r1 EXCEPT !.started = (r.started \ {t})]
<1>2. IsRecord(r2, r.revision, r.state, (r.turns \cup {t}), (r.started \ {t}), r.inputs, r.synthesis, r.artifact)
  <2> HIDE DEF r1
  <2>1. r1 \in Record
    BY <1>1 DEF IsRecord
  <2>2. IsRecord(r2, r1.revision, r1.state, r1.turns, (r.started \ {t}), r1.inputs, r1.synthesis, r1.artifact)
    BY <1>0, <2>1, SetOne
  <2> QED
    BY <1>1, <2>2 DEF IsRecord
<1> DEFINE r3 == [r2 EXCEPT !.question = (r.question \/ b)]
<1>3. IsRecord(r3, r.revision, r.state, (r.turns \cup {t}), (r.started \ {t}), r.inputs, r.synthesis, r.artifact)
  <2> HIDE DEF r2
  <2>1. r2 \in Record
    BY <1>2 DEF IsRecord
  <2>2. IsRecord(r3, r2.revision, r2.state, r2.turns, r2.started, r2.inputs, r2.synthesis, r2.artifact)
    BY <1>0, <2>1, SetOne
  <2> QED
    BY <1>2, <2>2 DEF IsRecord
<1>4. Recorded(r, t, b) = Changed(r3)
  BY DEF Recorded, Changed
<1> HIDE DEF r3
<1> QED
  BY <1>0, <1>3, <1>4, Bump

\* The execution.
LEMMA ExecutionIs ==
    ASSUME NEW r \in Record
    PROVE  IsRecord(Changed([r EXCEPT !.execution = TRUE]), r.revision + 1, r.state, r.turns, r.started, r.inputs, r.synthesis, r.artifact)
<1>0. r.revision \in Nat /\ TRUE \in BOOLEAN
  BY Fields DEF States, Terminal
<1> DEFINE r1 == [r EXCEPT !.execution = TRUE]
<1>1. IsRecord(r1, r.revision, r.state, r.turns, r.started, r.inputs, r.synthesis, r.artifact)
  BY <1>0, SetOne
<1>2. Changed([r EXCEPT !.execution = TRUE]) = Changed(r1)
  BY DEF Changed
<1> HIDE DEF r1
<1> QED
  BY <1>0, <1>1, <1>2, Bump

\* A duty.
LEMMA DutyIs ==
    ASSUME NEW r \in Record, NEW p \in Participants
    PROVE  IsRecord(Changed([r EXCEPT !.duties = @ \cup {p}]), r.revision + 1, r.state, r.turns, r.started, r.inputs, r.synthesis, r.artifact)
<1>0. r.revision \in Nat /\ (r.duties \cup {p}) \in SUBSET Participants
  BY Fields DEF States, Terminal
<1> DEFINE r1 == [r EXCEPT !.duties = (r.duties \cup {p})]
<1>1. IsRecord(r1, r.revision, r.state, r.turns, r.started, r.inputs, r.synthesis, r.artifact)
  BY <1>0, SetOne
<1>2. Changed([r EXCEPT !.duties = @ \cup {p}]) = Changed(r1)
  BY DEF Changed
<1> HIDE DEF r1
<1> QED
  BY <1>0, <1>1, <1>2, Bump

\* An input.
LEMMA InputIs ==
    ASSUME NEW r \in Record, NEW k \in Replies
    PROVE  IsRecord(Changed([r EXCEPT !.question = FALSE, !.inputs = Append(@, k)]), r.revision + 1, r.state, r.turns, r.started, Append(r.inputs, k), r.synthesis, r.artifact)
<1>0. r.revision \in Nat /\ FALSE \in BOOLEAN /\ Append(r.inputs, k) \in Seq(Replies)
  BY Fields DEF States, Terminal
<1> DEFINE r1 == [r EXCEPT !.question = FALSE]
<1>1. IsRecord(r1, r.revision, r.state, r.turns, r.started, r.inputs, r.synthesis, r.artifact)
  BY <1>0, SetOne
<1> DEFINE r2 == [r1 EXCEPT !.inputs = Append(r.inputs, k)]
<1>2. IsRecord(r2, r.revision, r.state, r.turns, r.started, Append(r.inputs, k), r.synthesis, r.artifact)
  <2> HIDE DEF r1
  <2>1. r1 \in Record
    BY <1>1 DEF IsRecord
  <2>2. IsRecord(r2, r1.revision, r1.state, r1.turns, r1.started, Append(r.inputs, k), r1.synthesis, r1.artifact)
    BY <1>0, <2>1, SetOne
  <2> QED
    BY <1>1, <2>2 DEF IsRecord
<1>3. Changed([r EXCEPT !.question = FALSE, !.inputs = Append(@, k)]) = Changed(r2)
  BY DEF Changed
<1> HIDE DEF r2
<1> QED
  BY <1>0, <1>2, <1>3, Bump

\* The status of the synthesis.
LEMMA SynthesisIs ==
    ASSUME NEW r \in Record, NEW w \in {"started", "completed"}
    PROVE  IsRecord(SynthesisAt(r, w), r.revision + 1, r.state, r.turns, r.started, r.inputs, [r.synthesis EXCEPT ![SynthesisKey(r)] = w], r.artifact)
<1>0. r.revision \in Nat /\ [r.synthesis EXCEPT ![SynthesisKey(r)] = w] \in Statuses
  BY Fields, InputsNat DEF Statuses
<1> DEFINE r1 == [r EXCEPT !.synthesis = [r.synthesis EXCEPT ![SynthesisKey(r)] = w]]
<1>1. IsRecord(r1, r.revision, r.state, r.turns, r.started, r.inputs, [r.synthesis EXCEPT ![SynthesisKey(r)] = w], r.artifact)
  BY <1>0, SetOne
<1>2. SynthesisAt(r, w) = Changed(r1)
  BY DEF SynthesisAt, Changed
<1> HIDE DEF r1
<1> QED
  BY <1>0, <1>1, <1>2, Bump

\* The end of a synthesis that yields an artifact.
LEMMA CompletedIs ==
    ASSUME NEW r \in Record, NEW view \in Views
    PROVE  IsRecord([SynthesisAt(r, "completed") EXCEPT !.state = "complete", !.artifact = view],
                    r.revision + 1, "complete", r.turns, r.started, r.inputs,
                    [r.synthesis EXCEPT ![SynthesisKey(r)] = "completed"], view)
<1> DEFINE r1 == SynthesisAt(r, "completed")
<1> DEFINE sy == [r.synthesis EXCEPT ![SynthesisKey(r)] = "completed"]
<1> DEFINE r2 == [r1 EXCEPT !.state = "complete"]
<1>1. IsRecord(r1, r.revision + 1, r.state, r.turns, r.started, r.inputs, sy, r.artifact)
  BY SynthesisIs
<1> HIDE DEF r1, sy
<1>2. IsRecord(r2, r.revision + 1, "complete", r.turns, r.started, r.inputs, sy, r.artifact)
  <2>1. r1 \in Record /\ "complete" \in States
    BY <1>1 DEF IsRecord, States, Terminal
  <2>2. IsRecord(r2, r1.revision, "complete", r1.turns, r1.started, r1.inputs, r1.synthesis, r1.artifact)
    BY <2>1, SetOne
  <2> QED
    BY <1>1, <2>2 DEF IsRecord
<1>3. [r1 EXCEPT !.state = "complete", !.artifact = view] = [r2 EXCEPT !.artifact = view]
  OBVIOUS
<1> HIDE DEF r2
<1>4. IsRecord([r2 EXCEPT !.artifact = view], r.revision + 1, "complete", r.turns, r.started, r.inputs, sy, view)
  <2>1. r2 \in Record
    BY <1>2 DEF IsRecord
  <2>2. IsRecord([r2 EXCEPT !.artifact = view], r2.revision, r2.state, r2.turns, r2.started, r2.inputs, r2.synthesis, view)
    BY <2>1, SetOne
  <2> QED
    BY <1>2, <2>2 DEF IsRecord
<1> QED
  BY <1>3, <1>4 DEF r1, sy

\* The end of a synthesis that asks a question.
LEMMA AskedIs ==
    ASSUME NEW r \in Record
    PROVE  IsRecord([SynthesisAt(r, "completed") EXCEPT !.question = TRUE],
                    r.revision + 1, r.state, r.turns, r.started, r.inputs,
                    [r.synthesis EXCEPT ![SynthesisKey(r)] = "completed"], r.artifact)
<1> DEFINE r1 == SynthesisAt(r, "completed")
<1> DEFINE sy == [r.synthesis EXCEPT ![SynthesisKey(r)] = "completed"]
<1>1. IsRecord(r1, r.revision + 1, r.state, r.turns, r.started, r.inputs, sy, r.artifact)
  BY SynthesisIs
<1> HIDE DEF r1, sy
<1>2. r1 \in Record
  BY <1>1 DEF IsRecord
<1>3. IsRecord([r1 EXCEPT !.question = TRUE], r1.revision, r1.state, r1.turns, r1.started, r1.inputs, r1.synthesis, r1.artifact)
  BY <1>2, SetOne
<1> QED
  BY <1>1, <1>3 DEF IsRecord, r1, sy

\* The first record of a start.
LEMMA QueuedIs ==
    IsRecord([NoRecord EXCEPT !.revision = 1, !.state = "queued"], 1, "queued", {}, {}, <<>>,
             NoRecord.synthesis, NoView)
<1>1. NoRecord \in Record
  BY EmptyTyped
<1> QED
  BY <1>1 DEF IsRecord, NoRecord, Record, States, Runnable

-----------------------------------------------------------------------------
(* The run *)

RunType == [pc : Places, seen : Record, batch : SUBSET Turns, todo : SUBSET Turns,
            answers : [Turns -> {"none", "live", "said", "asked", "empty"}],
            aborted : BOOLEAN, view : Views]

\* The empty run is a run.
LEMMA NoRunTyped == NoRun \in RunType
BY EmptyTyped DEF NoRun, RunType, Places

\* A run that ends.
LEMMA EndedIs ==
    ASSUME run \in RunType
    PROVE  /\ Ended \in RunType /\ Ended.pc = "end" /\ Ended.seen = NoRecord
BY NoRunTyped DEF Ended, RunType, Places, NoRun

\* What a write of the run does to it.
LEMMA RunWriteIs ==
    ASSUME run \in RunType, rec \in Record, NEW new \in Record, NEW pc \in Places, RunWrite(new, pc)
    PROVE  /\ rec' \in Record /\ run' \in RunType
           /\ \/ Current(run.seen) /\ rec' = new /\ run'.seen = new /\ run'.pc = pc
              \/ rec' = rec /\ run'.seen = NoRecord /\ run'.pc = "end"
<1>1. CASE Current(run.seen)
  <2>1. rec' = new /\ run' = [run EXCEPT !.seen = new, !.pc = pc]
    BY <1>1 DEF RunWrite
  <2>2. run' \in RunType /\ run'.seen = new /\ run'.pc = pc
    BY <2>1 DEF RunType
  <2> QED
    BY <1>1, <2>1, <2>2
<1>2. CASE ~Current(run.seen)
  <2>1. rec' = rec /\ run' = Ended
    BY <1>2 DEF RunWrite
  <2> QED
    BY <2>1, EndedIs
<1> QED
  BY <1>1, <1>2

\* What a request to schedule does to the run.
LEMMA ScheduleIs ==
    ASSUME run \in RunType, again \in BOOLEAN, NEW state, Schedule(state)
    PROVE  /\ run' \in RunType /\ again' \in BOOLEAN
           /\ \/ run' = run
              \/ state \in Runnable /\ run'.seen = NoRecord /\ run'.pc = "boot"
<1>1. [NoRun EXCEPT !.pc = "boot"] \in RunType
  BY NoRunTyped DEF RunType, Places
<1>2. [NoRun EXCEPT !.pc = "boot"].pc = "boot" /\ [NoRun EXCEPT !.pc = "boot"].seen = NoRecord
  BY DEF NoRun
<1> QED
  BY <1>1, <1>2 DEF Schedule

-----------------------------------------------------------------------------
(* Type correctness *)

StartType == [Starts -> [pc : {"idle", "record", "schedule", "done"}, seen : Record]]
ReplyType == [Replies -> [pc : {"idle", "recorded", "resumed", "done"}, seen : Record,
                          acked : BOOLEAN]]

\* The types, each by its name.
LEMMA Typed ==
    TypeOK <=> /\ rec \in Record /\ run \in RunType /\ again \in BOOLEAN /\ reviving \in BOOLEAN
               /\ start \in StartType /\ reply \in ReplyType /\ cancel \in {"idle", "abort"}
               /\ dispatched \in [Turns -> Nat] /\ synthesised \in [0..MaxInputs -> Nat]
               /\ spent \in [restarts : Nat, cancels : Nat]
BY DEF TypeOK, RunType, StartType, ReplyType

\* The types after a step, each by its name.
LEMMA TypedNext ==
    TypeOK' <=> /\ rec' \in Record /\ run' \in RunType /\ again' \in BOOLEAN /\ reviving' \in BOOLEAN
                /\ start' \in StartType /\ reply' \in ReplyType /\ cancel' \in {"idle", "abort"}
                /\ dispatched' \in [Turns -> Nat] /\ synthesised' \in [0..MaxInputs -> Nat]
                /\ spent' \in [restarts : Nat, cancels : Nat]
BY DEF TypeOK, RunType, StartType, ReplyType

\* A step of the run leaves the requests alone.
LEMMA RunStepTyped ==
    ASSUME TypeOK, RunFrame, rec' \in Record, run' \in RunType,
           dispatched' \in [Turns -> Nat], synthesised' \in [0..MaxInputs -> Nat]
    PROVE  TypeOK'
BY Typed, TypedNext DEF RunFrame, requestVars

\* The types hold initially.
LEMMA TypeInit == Init => TypeOK
<1> SUFFICES ASSUME Init PROVE TypeOK
  OBVIOUS
<1> USE DEF Init
<1>1. rec \in Record /\ run \in RunType
  BY EmptyTyped, NoRunTyped
<1>2. start \in StartType /\ reply \in ReplyType
  BY EmptyTyped DEF StartType, ReplyType
<1>3. dispatched \in [Turns -> Nat] /\ synthesised \in [0..MaxInputs -> Nat]
  OBVIOUS
<1>4. spent \in [restarts : Nat, cancels : Nat]
  OBVIOUS
<1> QED
  BY <1>1, <1>2, <1>3, <1>4, Typed

\* A reply that moves on stays a reply.
LEMMA ReplyMoves ==
    ASSUME NEW f \in ReplyType, NEW k \in Replies, NEW q \in Record,
           NEW pc \in {"idle", "recorded", "resumed", "done"}
    PROVE  [f EXCEPT ![k].pc = pc, ![k].seen = q] \in ReplyType
<1> DEFINE Entry == [pc : {"idle", "recorded", "resumed", "done"}, seen : Record, acked : BOOLEAN]
           e == [f[k] EXCEPT !.pc = pc, !.seen = q]
<1>1. f \in [Replies -> Entry] /\ f[k] \in Entry
  BY DEF ReplyType
<1>2. e \in Entry
  BY <1>1
<1>3. [f EXCEPT ![k].pc = pc, ![k].seen = q] = [f EXCEPT ![k] = e]
  BY <1>1
<1> HIDE DEF e, Entry
<1>4. [f EXCEPT ![k] = e] \in [Replies -> Entry]
  BY <1>1, <1>2
<1> QED
  BY <1>3, <1>4 DEF ReplyType, Entry

\* A run that moves on stays a run.
LEMMA RunMoves ==
    ASSUME NEW x \in RunType, NEW q \in Record, NEW td \in SUBSET Turns, NEW pc \in Places
    PROVE  [x EXCEPT !.seen = q, !.todo = td, !.pc = pc] \in RunType
<1> DEFINE y == [x EXCEPT !.seen = q]
           z == [y EXCEPT !.todo = td]
<1>1. y \in RunType
  BY DEF RunType
<1> HIDE DEF y
<1>2. z \in RunType
  BY <1>1 DEF RunType
<1> HIDE DEF z
<1>3. [z EXCEPT !.pc = pc] \in RunType
  BY <1>2 DEF RunType
<1> QED
  BY <1>3 DEF y, z

\* Every step keeps the types.
LEMMA TypeNext == TypeOK /\ [Next]_vars => TypeOK'
<1> SUFFICES ASSUME TypeOK, [Next]_vars PROVE TypeOK'
  OBVIOUS
<1>0. /\ rec \in Record /\ run \in RunType /\ again \in BOOLEAN /\ reviving \in BOOLEAN
      /\ start \in StartType /\ reply \in ReplyType /\ cancel \in {"idle", "abort"}
      /\ dispatched \in [Turns -> Nat] /\ synthesised \in [0..MaxInputs -> Nat]
      /\ spent \in [restarts : Nat, cancels : Nat]
  BY Typed
<1>seen. run.seen \in Record /\ run.todo \subseteq Turns /\ run.batch \subseteq Turns /\ run.view \in Views
  BY <1>0 DEF RunType
<1>st. "queued" \in States /\ "discussing" \in States /\ "input_required" \in States /\ "cancelled" \in States
  BY DEF States, Runnable, Terminal
<1>1. ASSUME NEW s \in Starts, StartCreate(s) PROVE TypeOK'
  <2>1. rec' \in Record
    BY <1>1, <1>0, QueuedIs DEF StartCreate, IsRecord
  <2>2. start' \in StartType
    BY <1>1, <1>0, <2>1 DEF StartCreate, StartType
  <2> QED
    BY <1>0, <1>1, <2>1, <2>2, TypedNext DEF StartCreate, historyVars
<1>2. ASSUME NEW s \in Starts, StartRecord(s) PROVE TypeOK'
  <2>1. rec' \in Record
    BY <1>2, <1>0, ExecutionIs DEF StartRecord, IsRecord
  <2>2. start' \in StartType
    BY <1>2, <1>0, <2>1 DEF StartRecord, StartType
  <2> QED
    BY <1>0, <1>2, <2>1, <2>2, TypedNext DEF StartRecord, historyVars
<1>3. ASSUME NEW s \in Starts, StartSchedule(s) PROVE TypeOK'
  <2>1. run' \in RunType /\ again' \in BOOLEAN
    BY <1>3, <1>0, ScheduleIs DEF StartSchedule
  <2>2. start' \in StartType
    BY <1>3, <1>0, EmptyTyped DEF StartSchedule, StartType
  <2> QED
    BY <1>0, <1>3, <2>1, <2>2, TypedNext DEF StartSchedule, historyVars
<1>4. ASSUME NEW k \in Replies, Respond(k) PROVE TypeOK'
  <2>1. rec' \in Record
    BY <1>4, <1>0, InputIs DEF Respond, IsRecord
  <2>2. reply' \in ReplyType
    <3>1. reply' = [reply EXCEPT ![k].pc = "recorded", ![k].seen = rec']
      BY <1>4 DEF Respond
    <3>2. reply \in ReplyType
      BY <1>0
    <3> QED
      BY <2>1, <3>1, <3>2, ReplyMoves
  <2> QED
    BY <1>0, <1>4, <2>1, <2>2, TypedNext DEF Respond, historyVars
<1>5. ASSUME NEW k \in Replies, Resume(k) PROVE TypeOK'
  <2>1. rec' \in Record
    <3>1. MovedTo(rec, "discussing") \in Record
      BY <1>0, <1>st, MovedToIs DEF IsRecord
    <3> QED
      BY <1>5, <1>0, <3>1 DEF Resume
  <2>2. reply' \in ReplyType
    <3>1. \E pc \in {"resumed", "done"} : reply' = [reply EXCEPT ![k].pc = pc, ![k].seen = NoRecord]
      BY <1>5 DEF Resume
    <3>2. reply \in ReplyType /\ NoRecord \in Record
      BY <1>0, EmptyTyped
    <3>3. \A pc \in {"resumed", "done"} : [reply EXCEPT ![k].pc = pc, ![k].seen = NoRecord] \in ReplyType
      BY <3>2, ReplyMoves
    <3> QED
      BY <3>1, <3>3
  <2> QED
    BY <1>0, <1>5, <2>1, <2>2, TypedNext DEF Resume, historyVars
<1>6. ASSUME NEW k \in Replies, ReplySchedule(k) PROVE TypeOK'
  <2>1. run' \in RunType /\ again' \in BOOLEAN
    BY <1>6, <1>0, ScheduleIs DEF ReplySchedule
  <2>2. reply' \in ReplyType
    BY <1>6, <1>0 DEF ReplySchedule, ReplyType
  <2> QED
    BY <1>0, <1>6, <2>1, <2>2, TypedNext DEF ReplySchedule, historyVars
<1>7. ASSUME NEW k \in Replies, Replay(k) PROVE TypeOK'
  <2>1. reply' \in ReplyType
    BY <1>7, <1>0 DEF Replay, ReplyType
  <2> QED
    BY <1>0, <1>7, <2>1, TypedNext DEF Replay, historyVars
<1>8. CASE Cancel
  <2>1. rec' \in Record
    BY <1>8, <1>0, <1>st, MovedToIs DEF Cancel, IsRecord
  <2>2. spent' \in [restarts : Nat, cancels : Nat]
    BY <1>8, <1>0 DEF Cancel
  <2> QED
    BY <1>0, <1>8, <2>1, <2>2, TypedNext DEF Cancel, historyVars
<1>9. CASE Abort
  <2>1. run' \in RunType
    BY <1>9, <1>0 DEF Abort, RunType
  <2> QED
    BY <1>0, <1>9, <2>1, TypedNext DEF Abort, historyVars
<1>10. CASE Boot
  <2>1. run' \in RunType
    BY <1>10, <1>0, EndedIs DEF Boot, RunType, Places
  <2> QED
    BY <1>0, <1>10, <2>1, RunStepTyped DEF Boot, historyVars
<1>11. CASE Initialise
  <2>1. FailedWith(run.seen, FALSE) \in Record /\ Changed([run.seen EXCEPT !.execution = TRUE]) \in Record
    BY <1>seen, FailedIs, ExecutionIs DEF IsRecord
  <2>2. rec' \in Record /\ run' \in RunType
    BY <1>11, <1>0, <2>1, RunWriteIs DEF Initialise, Places
  <2> QED
    BY <1>0, <1>11, <2>2, RunStepTyped DEF Initialise, historyVars
<1>12. CASE AssignDuty
  <2>1. PICK p \in Participants : RunWrite(Changed([run.seen EXCEPT !.duties = @ \cup {p}]), "duties")
    BY <1>12 DEF AssignDuty
  <2>2. Changed([run.seen EXCEPT !.duties = @ \cup {p}]) \in Record
    BY <1>seen, DutyIs DEF IsRecord
  <2>3. rec' \in Record /\ run' \in RunType
    BY <1>0, <2>1, <2>2, RunWriteIs DEF Places
  <2> QED
    BY <1>0, <1>12, <2>3, RunStepTyped DEF AssignDuty, historyVars
<1>13. CASE Discuss
  <2>1. MovedTo(run.seen, "discussing") \in Record
    BY <1>seen, <1>st, MovedToIs DEF IsRecord
  <2>2. rec' \in Record /\ run' \in RunType
    BY <1>13, <1>0, <2>1, RunWriteIs DEF Discuss, Places
  <2> QED
    BY <1>0, <1>13, <2>2, RunStepTyped DEF Discuss, historyVars
<1>14. CASE Proceed
  <2>1. run' \in RunType
    BY <1>14, <1>0 DEF Proceed, RunType, Places
  <2> QED
    BY <1>0, <1>14, <2>1, RunStepTyped DEF Proceed, historyVars
<1>15. CASE LeaveDialogue
  <2>1. run' \in RunType
    BY <1>15, <1>0 DEF LeaveDialogue, RunType, Places
  <2> QED
    BY <1>0, <1>15, <2>1, RunStepTyped DEF LeaveDialogue, historyVars
<1>16. CASE RefuseTurn
  <2>1. FailedWith(run.seen, TRUE) \in Record
    BY <1>seen, FailedIs DEF IsRecord
  <2>2. rec' \in Record /\ run' \in RunType
    BY <1>16, <1>0, <2>1, RunWriteIs DEF RefuseTurn, Places
  <2> QED
    BY <1>0, <1>16, <2>2, RunStepTyped DEF RefuseTurn, historyVars
<1>17. CASE OpenRound
  <2>1. FailedWith(run.seen, FALSE) \in Record
    BY <1>seen, FailedIs DEF IsRecord
  <2>2. Batch(run.seen) \subseteq Turns
    BY <1>seen, Fields, BatchType
  <2>3. rec' \in Record /\ run' \in RunType
    <3>1. CASE RunWrite(FailedWith(run.seen, FALSE), "end")
      BY <3>1, <1>0, <2>1, RunWriteIs DEF Places
    <3>2. CASE /\ run' = [run EXCEPT !.pc = "claim", !.batch = Batch(run.seen), !.todo = Batch(run.seen)]
               /\ UNCHANGED rec
      BY <3>2, <1>0, <2>2 DEF RunType, Places
    <3> QED
      BY <1>17, <3>1, <3>2 DEF OpenRound
  <2> QED
    BY <1>0, <1>17, <2>3, RunStepTyped DEF OpenRound, historyVars
<1>18. CASE Claim
  <2>1. PICK t \in run.todo :
           IF Current(run.seen) /\ Unclaimed(rec, t)
           THEN /\ rec' = ClaimedTurn(run.seen, t)
                /\ run' = [run EXCEPT !.seen = rec', !.todo = @ \ {t}]
           ELSE run' = Ended /\ UNCHANGED rec
    BY <1>18 DEF Claim
  <2>2. t \in Turns
    BY <1>seen
  <2>3. ClaimedTurn(run.seen, t) \in Record
    BY <1>seen, <2>2, ClaimedIs DEF IsRecord
  <2>4. rec' \in Record
    BY <1>0, <2>1, <2>3
  <2>5. run' = [run EXCEPT !.seen = rec', !.todo = run.todo \ {t}] \/ run' = Ended
    BY <2>1
  <2>6. [run EXCEPT !.seen = rec', !.todo = run.todo \ {t}] \in RunType
    BY <1>0, <2>4 DEF RunType
  <2>7. run' \in RunType
    BY <1>0, <2>5, <2>6, EndedIs
  <2> QED
    BY <1>0, <1>18, <2>4, <2>7, RunStepTyped DEF Claim, historyVars
<1>19. CASE Dispatch
  <2>1. run' \in RunType
    <3> DEFINE f == [t \in Turns |-> IF t \in run.batch THEN "live" ELSE "none"]
    <3>1. f \in [Turns -> {"none", "live", "said", "asked", "empty"}]
      OBVIOUS
    <3>2. run' = [run EXCEPT !.pc = "waiting", !.todo = run.batch, !.answers = f]
      BY <1>19 DEF Dispatch
    <3> HIDE DEF f
    <3> QED
      BY <1>0, <1>seen, <3>1, <3>2 DEF RunType, Places
  <2>2. dispatched' \in [Turns -> Nat]
    BY <1>0, <1>19 DEF Dispatch
  <2> QED
    BY <1>0, <1>19, <2>1, <2>2, RunStepTyped DEF Dispatch
<1>20. ASSUME NEW t \in Turns, Answer(t) PROVE TypeOK'
  <2>1. run' \in RunType
    <3>1. PICK a \in {"said", "asked", "empty"} : run' = [run EXCEPT !.answers[t] = a]
      BY <1>20 DEF Answer
    <3>2. run' = [run EXCEPT !.answers = [run.answers EXCEPT ![t] = a]]
      BY <3>1
    <3>3. [run.answers EXCEPT ![t] = a] \in [Turns -> {"none", "live", "said", "asked", "empty"}]
      BY <1>0 DEF RunType
    <3> QED
      BY <1>0, <3>2, <3>3 DEF RunType
  <2> QED
    BY <1>0, <1>20, <2>1, RunStepTyped DEF Answer, historyVars
<1>21. CASE DialogueThrows
  <2>1. NoRun.answers \in [Turns -> {"none", "live", "said", "asked", "empty"}]
    BY NoRunTyped DEF RunType
  <2>2. run' \in RunType
    BY <1>21, <1>0, <2>1 DEF DialogueThrows, RunType, Places
  <2> QED
    BY <1>0, <1>21, <2>2, RunStepTyped DEF DialogueThrows, historyVars
<1>22. CASE AllAnswered
  <2>1. run' \in RunType
    BY <1>22, <1>0 DEF AllAnswered, RunType, Places
  <2> QED
    BY <1>0, <1>22, <2>1, RunStepTyped DEF AllAnswered, historyVars
<1>23. CASE Settle
  <2>1. PICK t \in run.todo :
          LET asked == run.answers[t] = "asked"
          IN  IF run.aborted \/ rec.state # "discussing"
              THEN run' = Ended /\ UNCHANGED rec
              ELSE IF run.answers[t] = "empty"
              THEN run' = Ended /\ rec' = FailedWith(rec, FALSE)
              ELSE /\ rec' = Recorded(rec, t, asked)
                   /\ run' = [run EXCEPT !.seen = rec', !.todo = @ \ {t},
                                         !.pc = IF asked THEN "ask" ELSE "settle"]
    BY <1>23 DEF Settle
  <2>2. t \in Turns
    BY <1>seen
  <2>3. FailedWith(rec, FALSE) \in Record
    BY <1>0, FailedIs DEF IsRecord
  <2>4. \A b \in BOOLEAN : Recorded(rec, t, b) \in Record
    BY <1>0, <2>2, RecordedIs DEF IsRecord
  <2>5. Recorded(rec, t, run.answers[t] = "asked") \in Record
    BY <2>4
  <2>6. rec' \in Record
    BY <1>0, <2>1, <2>3, <2>5
  <2>7. \/ run' = Ended
        \/ \E pc \in Places : run' = [run EXCEPT !.seen = rec', !.todo = run.todo \ {t}, !.pc = pc]
    BY <2>1 DEF Places
  <2>8. \A pc \in Places : [run EXCEPT !.seen = rec', !.todo = run.todo \ {t}, !.pc = pc] \in RunType
    <3>1. run \in RunType /\ run.todo \ {t} \in SUBSET Turns
      BY <1>0, <1>seen
    <3> QED
      BY <2>6, <3>1, RunMoves
  <2>9. run' \in RunType
    <3>1. Ended \in RunType
      BY <1>0, EndedIs
    <3> QED
      BY <2>7, <2>8, <3>1
  <2> QED
    BY <1>0, <1>23, <2>6, <2>9, RunStepTyped DEF Settle, historyVars
<1>24. CASE NextRound
  <2>1. NoRun.answers \in [Turns -> {"none", "live", "said", "asked", "empty"}]
    BY NoRunTyped DEF RunType
  <2>2. run' \in RunType
    BY <1>24, <1>0, <2>1 DEF NextRound, RunType, Places
  <2> QED
    BY <1>0, <1>24, <2>2, RunStepTyped DEF NextRound, historyVars
<1>25. CASE Ask
  <2>1. MovedTo(run.seen, "input_required") \in Record
    BY <1>seen, <1>st, MovedToIs DEF IsRecord
  <2>2. rec' \in Record /\ run' \in RunType
    BY <1>25, <1>0, <2>1, RunWriteIs DEF Ask, Places
  <2> QED
    BY <1>0, <1>25, <2>2, RunStepTyped DEF Ask, historyVars
<1>26. CASE Synthesis
  <2>1. /\ SynthesisAt(rec, "started") \in Record /\ FailedWith(rec, TRUE) \in Record
        /\ MovedTo(rec, "input_required") \in Record
    BY <1>0, <1>st, SynthesisIs, FailedIs, MovedToIs DEF IsRecord
  <2>2. rec' \in Record /\ run' \in RunType
    <3>1. \/ run' = Ended
          \/ rec' = SynthesisAt(rec, "started") /\ run' = [run EXCEPT !.pc = "synthesise", !.seen = rec']
      BY <1>26 DEF Synthesis
    <3>2. rec' \in Record
      BY <1>26, <1>0, <2>1 DEF Synthesis
    <3>3. [run EXCEPT !.pc = "synthesise", !.seen = rec'] \in RunType
      BY <1>0, <3>2 DEF RunType, Places
    <3> QED
      BY <1>0, <3>1, <3>2, <3>3, EndedIs
  <2> QED
    BY <1>0, <1>26, <2>2, RunStepTyped DEF Synthesis, historyVars
<1>27. CASE Synthesise
  <2>1. run.seen.turns \subseteq Turns /\ run.seen.inputs \in Seq(Replies)
    BY <1>seen, Fields
  <2>2. [turns |-> run.seen.turns, inputs |-> run.seen.inputs] \in Views
    BY <2>1 DEF Views
  <2>3. run' \in RunType
    BY <1>27, <1>0, <2>2 DEF Synthesise, RunType, Places
  <2>4. synthesised' \in [0..MaxInputs -> Nat]
    <3> DEFINE n == SynthesisKey(run.seen)
    <3>1. synthesised' = [synthesised EXCEPT ![n] = synthesised[n] + 1]
      BY <1>27 DEF Synthesise
    <3> HIDE DEF n
    <3>2. CASE n \in 0..MaxInputs
      <4>1. synthesised[n] + 1 \in Nat
        BY <1>0, <3>2
      <4> QED
        BY <1>0, <3>1, <4>1
    <3>3. CASE n \notin 0..MaxInputs
      <4>1. synthesised' = synthesised
        BY <1>0, <3>1, <3>3
      <4> QED
        BY <1>0, <4>1
    <3> QED
      BY <3>2, <3>3
  <2> QED
    BY <1>0, <1>27, <2>3, <2>4, RunStepTyped DEF Synthesise
<1>28. CASE Complete
  <2>1. rec' \in Record
    BY <1>28, <1>0, <1>seen, CompletedIs DEF Complete, IsRecord
  <2>2. run' \in RunType
    BY <1>28, <1>0, EndedIs DEF Complete
  <2> QED
    BY <1>0, <1>28, <2>1, <2>2, RunStepTyped DEF Complete, historyVars
<1>29. CASE SynthesisAsks
  <2>1. [SynthesisAt(rec, "completed") EXCEPT !.question = TRUE] \in Record
    BY <1>0, AskedIs DEF IsRecord
  <2>2. rec' \in Record /\ run' \in RunType
    <3>1. \/ run' = Ended
          \/ run' = [run EXCEPT !.pc = "ask", !.seen = rec']
      BY <1>29 DEF SynthesisAsks
    <3>2. rec' \in Record
      BY <1>29, <1>0, <2>1 DEF SynthesisAsks
    <3>3. [run EXCEPT !.pc = "ask", !.seen = rec'] \in RunType
      BY <1>0, <3>2 DEF RunType, Places
    <3> QED
      BY <1>0, <3>1, <3>2, <3>3, EndedIs
  <2> QED
    BY <1>0, <1>29, <2>2, RunStepTyped DEF SynthesisAsks, historyVars
<1>30. CASE SynthesisThrows
  <2>1. run' \in RunType
    BY <1>30, <1>0 DEF SynthesisThrows, RunType, Places
  <2> QED
    BY <1>0, <1>30, <2>1, RunStepTyped DEF SynthesisThrows, historyVars
<1>31. CASE Catch
  <2>1. FailedWith(rec, FALSE) \in Record
    BY <1>0, FailedIs DEF IsRecord
  <2>2. rec' \in Record /\ run' \in RunType
    BY <1>31, <1>0, <2>1, EndedIs DEF Catch
  <2> QED
    BY <1>0, <1>31, <2>2, RunStepTyped DEF Catch, historyVars
<1>32. CASE End
  <2>1. reviving' \in BOOLEAN
    BY <1>0, <1>32 DEF End, Remembered
  <2> QED
    BY <1>0, <1>32, <2>1, NoRunTyped, TypedNext DEF End, requestVars, historyVars
<1>33. CASE Revive
  <2>1. run' \in RunType /\ again' \in BOOLEAN
    BY <1>33, <1>0, ScheduleIs DEF Revive
  <2> QED
    BY <1>0, <1>33, <2>1, TypedNext DEF Revive, requestVars, historyVars
<1>34. CASE Restart
  <2>1. run' \in RunType
    BY <1>34, NoRunTyped DEF Restart, RunType, Places
  <2>2. start' \in StartType
    BY <1>34, <1>0, EmptyTyped DEF Restart, StartType
  <2>3. reply' \in ReplyType
    BY <1>34, <1>0, EmptyTyped DEF Restart, ReplyType
  <2>4. spent' \in [restarts : Nat, cancels : Nat]
    <3>1. spent' = [spent EXCEPT !.restarts = spent.restarts + 1]
      BY <1>34 DEF Restart
    <3> QED
      BY <1>0, <3>1
  <2> QED
    BY <1>0, <1>34, <2>1, <2>2, <2>3, <2>4, TypedNext DEF Restart, historyVars
<1>35. CASE UNCHANGED vars
  BY <1>0, <1>35, TypedNext DEF vars
<1> QED
  BY <1>1, <1>2, <1>3, <1>4, <1>5, <1>6, <1>7, <1>8, <1>9, <1>10, <1>11, <1>12, <1>13, <1>14, <1>15,
     <1>16, <1>17, <1>18, <1>19, <1>20, <1>21, <1>22, <1>23, <1>24, <1>25, <1>26, <1>27, <1>28, <1>29,
     <1>30, <1>31, <1>32, <1>33, <1>34, <1>35
     DEF Next, RunStep, ProviderStep, HandlerStep, ClientStep

\* Every reachable state is well typed.
THEOREM TypeCorrect == Spec => []TypeOK
<1>1. Init => TypeOK
  BY TypeInit
<1>2. TypeOK /\ [Next]_vars => TypeOK'
  BY TypeNext
<1> QED
  BY <1>1, <1>2, PTL DEF Spec

-----------------------------------------------------------------------------
(* The inductive invariant *)

\* Before the first start there is nothing, and a revision counts from there.
Fresh ==
    rec.state = "absent" =>
        /\ rec = NoRecord /\ run = NoRun
        /\ \A s \in Starts : start[s].pc = "idle"
        /\ \A k \in Replies : reply[k].pc = "idle"

\* The run's snapshot is the record or is older than it.
Snapshot ==
    /\ rec.revision = 0 => rec = NoRecord
    /\ run.seen.revision <= rec.revision
    /\ run.seen.revision = rec.revision => run.seen = rec

\* A turn whose call was made is in the record, and was made once.
Claims ==
    \A t \in Turns : /\ dispatched[t] <= 1
                     /\ dispatched[t] = 1 => t \in rec.turns \cup rec.started

\* While a batch is claimed, its claimed turns are recorded and not yet called.
BatchClaimed ==
    run.pc = "claim" =>
        \A t \in run.batch \ run.todo : t \in rec.turns \cup rec.started /\ dispatched[t] = 0

\* A synthesis key that was called is not free in the record.
Keys ==
    \A n \in 0..MaxInputs : /\ synthesised[n] <= 1
                            /\ synthesised[n] = 1 => rec.synthesis[n] # "none"

\* The key claimed for the synthesis about to be called was never called.
KeyClaimed ==
    run.pc = "synthesise" =>
        \A n \in 0..MaxInputs :
            n = SynthesisKey(run.seen) => rec.synthesis[n] # "none" /\ synthesised[n] = 0

\* Nothing is said or answered while a synthesis runs on the record.
View(r) == [turns |-> r.turns, inputs |-> r.inputs]
Synthesising ==
    /\ run.pc \in {"synthesise", "synthesising"} => rec.state \in {"discussing"} \cup Terminal
    /\ run.pc = "synthesise" /\ rec.state = "discussing" => View(run.seen) = View(rec)
    /\ run.pc = "synthesising" /\ rec.state = "discussing" => run.view = View(rec)

IInv ==
    /\ TypeOK
    /\ Fresh /\ Snapshot /\ Claims /\ BatchClaimed /\ Keys /\ KeyClaimed
    /\ Synthesising /\ ArtifactSawEverything

\* A change of a record that is neither absent nor over forgets no operation.
Grown ==
    /\ rec.state \notin Terminal \cup {"absent"}
    /\ rec'.revision = rec.revision + 1 /\ rec'.state # "absent"
    /\ rec.turns \cup rec.started \subseteq rec'.turns \cup rec'.started
    /\ \A n \in 0..MaxInputs : rec.synthesis[n] # "none" => rec'.synthesis[n] # "none"

Changing == rec' = rec \/ Grown
Special == {"claim", "synthesise", "synthesising"}

\* The parts of the invariant about the record and its history alone.
LEMMA HistoryKept ==
    ASSUME IInv, TypeOK', Changing, UNCHANGED historyVars
    PROVE  Claims' /\ Keys'
BY DEF IInv, Claims, Keys, Changing, Grown, historyVars

\* The snapshot stays behind the record.
LEMMA SnapshotKept ==
    ASSUME IInv, TypeOK', Changing, run'.seen \in {run.seen, NoRecord, rec'}
    PROVE  Snapshot'
<1>1. rec.revision \in Nat /\ rec'.revision \in Nat /\ run.seen.revision \in Nat
  <2>1. rec \in Record /\ rec' \in Record /\ run.seen \in Record
    BY Typed, TypedNext DEF IInv, RunType
  <2> QED
    BY <2>1, Fields
<1>2. NoRecord.revision = 0
  BY DEF NoRecord
<1> QED
  BY <1>1, <1>2 DEF IInv, Snapshot, Changing, Grown

\* A step that leaves the run outside claims and syntheses.
LEMMA PlainStep ==
    ASSUME IInv, TypeOK', UNCHANGED historyVars, rec.state # "absent",
           Changing, rec' = rec \/ (rec'.state = "complete" => rec'.artifact = View(rec')),
           run'.pc \notin Special, run'.seen \in {run.seen, NoRecord, rec'}
    PROVE  IInv'
<1>1. Claims' /\ Keys' /\ Snapshot'
  BY HistoryKept, SnapshotKept
<1>2. rec'.state # "absent"
  BY DEF Changing, Grown
<1>3. Fresh' /\ BatchClaimed' /\ KeyClaimed' /\ Synthesising'
  BY <1>2 DEF Fresh, BatchClaimed, KeyClaimed, Synthesising, Special
<1>4. ArtifactSawEverything'
  BY DEF IInv, ArtifactSawEverything, View
<1> QED
  BY <1>1, <1>3, <1>4 DEF IInv

\* A step that leaves the run in its place; a record under synthesis is then
\* neither answered nor added to.
RunKept ==
    /\ run'.pc = run.pc /\ run'.seen = run.seen /\ run'.batch = run.batch
    /\ run'.todo = run.todo /\ run'.view = run.view
\* A step that leaves the run in its place keeps the invariant.
LEMMA KeptStep ==
    ASSUME IInv, TypeOK', UNCHANGED historyVars, rec.state # "absent", RunKept, Changing,
           rec' = rec \/ (rec'.state # "complete" /\ rec'.turns = rec.turns),
           rec.state = "discussing" =>
               rec'.inputs = rec.inputs /\ rec'.state \in {"discussing", "cancelled"}
    PROVE  IInv'
<1>1. Claims' /\ Keys' /\ Snapshot'
  BY HistoryKept, SnapshotKept DEF RunKept
<1>2. Fresh'
  BY DEF Changing, Grown, Fresh
<1>3. BatchClaimed'
  BY DEF IInv, BatchClaimed, RunKept, Changing, Grown, historyVars
<1>4. KeyClaimed'
  BY DEF IInv, KeyClaimed, RunKept, Changing, Grown, historyVars, SynthesisKey
<1>5. Synthesising'
  <2>1. "cancelled" \in Terminal
    BY DEF Terminal
  <2> QED
    BY <2>1 DEF IInv, Synthesising, RunKept, Changing, Grown, View
<1>6. ArtifactSawEverything'
  BY DEF IInv, ArtifactSawEverything
<1> QED
  BY <1>1, <1>2, <1>3, <1>4, <1>5, <1>6 DEF IInv

\* A step that changes nothing but the marks of requests.
LEMMA SameStep ==
    ASSUME IInv, TypeOK', UNCHANGED <<rec, run, start, historyVars>>,
           \A k \in Replies : reply'[k].pc = reply[k].pc
    PROVE  IInv'
BY DEF IInv, Fresh, Snapshot, Claims, BatchClaimed, Keys, KeyClaimed, Synthesising, View,
       ArtifactSawEverything, historyVars, SynthesisKey

\* A write of the run that claims no turn and no synthesis.
LEMMA RunWriteStep ==
    ASSUME IInv, TypeOK', UNCHANGED historyVars, run.pc # "none",
           NEW new \in Record, NEW pc \in Places \ Special, RunWrite(new, pc),
           new.revision = run.seen.revision + 1,
           new.state \in {run.seen.state, "discussing", "failed", "input_required"},
           new.turns = run.seen.turns, new.started = run.seen.started,
           new.synthesis = run.seen.synthesis
    PROVE  IInv'
<1>1. rec \in Record /\ run \in RunType
  BY Typed DEF IInv
<1>2. rec.state # "absent"
  BY DEF IInv, Fresh, NoRun
<1>3. CASE Current(run.seen) /\ rec' = new /\ run'.seen = new /\ run'.pc = pc
  <2>1. rec = run.seen /\ rec.state \notin Terminal
    BY <1>3 DEF IInv, Snapshot, Current
  <2>2. rec'.state \notin {"absent", "complete"}
    BY <1>2, <1>3, <2>1 DEF Terminal
  <2>3. Grown
    BY <1>2, <1>3, <2>1, <2>2 DEF Grown
  <2> QED
    BY <1>2, <1>3, <2>2, <2>3, PlainStep DEF Changing
<1>4. CASE rec' = rec /\ run'.seen = NoRecord /\ run'.pc = "end"
  BY <1>2, <1>4, PlainStep DEF Changing, Special
<1> QED
  BY <1>1, <1>3, <1>4, RunWriteIs

\* The invariant holds initially.
LEMMA InvInit == Init => IInv
<1> SUFFICES ASSUME Init PROVE IInv
  OBVIOUS
<1>1. TypeOK
  BY TypeInit
<1>2. NoRecord.revision = 0 /\ NoRecord.state = "absent" /\ NoRun.seen = NoRecord /\ NoRun.pc = "none"
  BY DEF NoRecord, NoRun
<1>3. Fresh
  BY DEF Init, Fresh
<1>4. Snapshot
  BY <1>2 DEF Init, Snapshot
<1>5. Claims /\ Keys
  BY DEF Init, Claims, Keys
<1>6. BatchClaimed /\ KeyClaimed /\ Synthesising
  BY <1>2 DEF Init, BatchClaimed, KeyClaimed, Synthesising
<1>7. ArtifactSawEverything
  BY <1>2 DEF Init, ArtifactSawEverything
<1> QED
  BY <1>1, <1>3, <1>4, <1>5, <1>6, <1>7 DEF IInv

\* A status once set stays set.
LEMMA KeyKept ==
    ASSUME NEW r \in Record, NEW w \in {"started", "completed"}, NEW n \in 0..MaxInputs,
           r.synthesis[n] # "none"
    PROVE  [r.synthesis EXCEPT ![SynthesisKey(r)] = w][n] # "none"
<1>1. r.synthesis \in Statuses
  BY Fields
<1> QED
  BY <1>1 DEF Statuses

\* A change of the record that keeps its operations, at a state that may change.
LEMMA GrownBy ==
    ASSUME rec \in Record, rec.state \notin Terminal \cup {"absent"},
           NEW st, NEW t, NEW sd, NEW i, NEW sy, NEW a,
           IsRecord(rec', rec.revision + 1, st, t, sd, i, sy, a), st # "absent",
           rec.turns \cup rec.started \subseteq t \cup sd,
           \A n \in 0..MaxInputs : rec.synthesis[n] # "none" => sy[n] # "none"
    PROVE  Grown
BY DEF Grown, IsRecord

\* The steps of requests, cancellations and restarts keep the invariant.
LEMMA InvRequests ==
    ASSUME IInv, TypeOK'
    PROVE  /\ \A s \in Starts : StartCreate(s) \/ StartRecord(s) \/ StartSchedule(s) => IInv'
           /\ \A k \in Replies : Respond(k) \/ Resume(k) \/ ReplySchedule(k) \/ Replay(k) => IInv'
           /\ Cancel \/ Abort \/ Revive \/ Restart => IInv'
<1>0. rec \in Record /\ run \in RunType /\ again \in BOOLEAN /\ run.seen \in Record
  BY Typed DEF IInv, RunType
<1>st. /\ "discussing" \in States /\ "cancelled" \in States /\ "discussing" \notin Terminal
       /\ "input_required" \notin Terminal /\ "queued" \notin Terminal /\ "absent" \notin Runnable
       /\ "absent" \notin Terminal
  BY DEF States, Terminal, Runnable
<1>1. ASSUME NEW s \in Starts, StartCreate(s) PROVE IInv'
  <2>1. CASE rec.state # "absent"
    <3>1. rec' = rec /\ UNCHANGED <<run, historyVars>>
      BY <1>1, <2>1 DEF StartCreate
    <3> QED
      BY <2>1, <3>1, KeptStep DEF RunKept, Changing, IInv, ArtifactSawEverything
  <2>2. CASE rec.state = "absent"
    <3>1. rec = NoRecord /\ run = NoRun
      BY <2>2 DEF IInv, Fresh
    <3>2. IsRecord(rec', 1, "queued", {}, {}, <<>>, NoRecord.synthesis, NoView)
      BY <1>1, <2>2, QueuedIs DEF StartCreate
    <3>3. UNCHANGED <<run, historyVars>>
      BY <1>1 DEF StartCreate
    <3>4. /\ NoRecord.revision = 0 /\ NoRun.seen = NoRecord /\ NoRun.pc = "none" /\ NoRecord.turns = {}
          /\ NoRecord.started = {}
      BY DEF NoRecord, NoRun
    <3>5. Snapshot'
      BY <3>1, <3>2, <3>3, <3>4 DEF Snapshot, IsRecord
    <3>6. Claims' /\ Keys'
      BY <3>1, <3>2, <3>3, <3>4 DEF IInv, Claims, Keys, IsRecord, historyVars
    <3>7. Fresh' /\ BatchClaimed' /\ KeyClaimed' /\ Synthesising' /\ ArtifactSawEverything'
      BY <3>1, <3>2, <3>3, <3>4
         DEF Fresh, BatchClaimed, KeyClaimed, Synthesising, ArtifactSawEverything, IsRecord
    <3> QED
      BY <3>5, <3>6, <3>7 DEF IInv
  <2> QED
    BY <2>1, <2>2
<1>2. ASSUME NEW s \in Starts, StartRecord(s) PROVE IInv'
  <2>1. rec.state # "absent" /\ UNCHANGED <<run, historyVars>>
    BY <1>2 DEF StartRecord, IInv, Fresh
  <2>2. CASE Current(start[s].seen)
    <3>1. IsRecord(rec', rec.revision + 1, rec.state, rec.turns, rec.started, rec.inputs, rec.synthesis, rec.artifact)
      BY <1>0, <1>2, <2>2, ExecutionIs DEF StartRecord
    <3>2. rec.state \notin Terminal
      BY <2>2 DEF Current
    <3>3. Grown
      BY <1>0, <2>1, <3>1, <3>2, GrownBy
    <3>4. rec'.state = rec.state /\ rec'.turns = rec.turns /\ rec'.inputs = rec.inputs
      BY <3>1 DEF IsRecord
    <3>5. rec'.state # "complete"
      BY <3>2, <3>4 DEF Terminal
    <3> QED
      BY <2>1, <3>3, <3>4, <3>5, KeptStep DEF RunKept, Changing
  <2>3. CASE ~Current(start[s].seen)
    <3>1. rec' = rec
      BY <1>2, <2>3 DEF StartRecord
    <3> QED
      BY <2>1, <3>1, KeptStep DEF RunKept, Changing
  <2> QED
    BY <2>2, <2>3
<1>3. ASSUME NEW s \in Starts, StartSchedule(s) PROVE IInv'
  <2>1. rec.state # "absent" /\ UNCHANGED <<rec, historyVars>>
    BY <1>3 DEF StartSchedule, IInv, Fresh
  <2>2. Schedule(start[s].seen.state)
    BY <1>3 DEF StartSchedule
  <2>3. CASE run' = run
    BY <2>1, <2>3, KeptStep DEF RunKept, Changing
  <2>4. CASE run'.seen = NoRecord /\ run'.pc = "boot"
    BY <2>1, <2>4, PlainStep DEF Changing, Special
  <2> QED
    BY <1>0, <2>2, <2>3, <2>4, ScheduleIs
<1>4. ASSUME NEW k \in Replies, Respond(k) PROVE IInv'
  <2>1. rec.state = "input_required" /\ UNCHANGED <<run, historyVars>>
    BY <1>4 DEF Respond, CanAnswer
  <2>2. IsRecord(rec', rec.revision + 1, rec.state, rec.turns, rec.started, Append(rec.inputs, k), rec.synthesis, rec.artifact)
    BY <1>0, <1>4, InputIs DEF Respond
  <2>3. Grown
    BY <1>0, <1>st, <2>1, <2>2, GrownBy
  <2>4. rec'.state = "input_required" /\ rec'.turns = rec.turns
    BY <2>1, <2>2 DEF IsRecord
  <2> QED
    BY <2>1, <2>3, <2>4, KeptStep DEF RunKept, Changing
<1>5. ASSUME NEW k \in Replies, Resume(k) PROVE IInv'
  <2>1. rec.state # "absent" /\ UNCHANGED <<run, historyVars>>
    BY <1>5 DEF Resume, IInv, Fresh
  <2>2. CASE Current(reply[k].seen)
    <3>1. rec' = MovedTo(rec, "discussing")
      BY <1>5, <2>2 DEF Resume
    <3>2. IsRecord(rec', rec.revision + 1, "discussing", rec.turns, rec.started, rec.inputs, rec.synthesis, rec.artifact)
      BY <1>0, <1>st, <3>1, MovedToIs
    <3>3. rec.state \notin Terminal
      BY <2>2 DEF Current
    <3>4. Grown
      BY <1>0, <2>1, <3>2, <3>3, GrownBy
    <3>5. rec'.state = "discussing" /\ rec'.turns = rec.turns /\ rec'.inputs = rec.inputs
      BY <3>2 DEF IsRecord
    <3> QED
      BY <2>1, <3>4, <3>5, KeptStep DEF RunKept, Changing
  <2>3. CASE ~Current(reply[k].seen)
    <3>1. rec' = rec
      BY <1>5, <2>3 DEF Resume
    <3> QED
      BY <2>1, <3>1, KeptStep DEF RunKept, Changing
  <2> QED
    BY <2>2, <2>3
<1>6. ASSUME NEW k \in Replies, ReplySchedule(k) PROVE IInv'
  <2>1. rec.state # "absent" /\ UNCHANGED <<rec, historyVars>>
    BY <1>6 DEF ReplySchedule, IInv, Fresh
  <2>2. Schedule("discussing")
    BY <1>6 DEF ReplySchedule
  <2>3. CASE run' = run
    BY <2>1, <2>3, KeptStep DEF RunKept, Changing
  <2>4. CASE run'.seen = NoRecord /\ run'.pc = "boot"
    BY <2>1, <2>4, PlainStep DEF Changing, Special
  <2> QED
    BY <1>0, <2>2, <2>3, <2>4, ScheduleIs
<1>7. ASSUME NEW k \in Replies, Replay(k) PROVE IInv'
  <2>1. \A j \in Replies : reply'[j].pc = reply[j].pc
    <3>1. reply \in ReplyType
      BY Typed DEF IInv
    <3> QED
      BY <1>7, <3>1 DEF Replay, ReplyType
  <2> QED
    BY <1>7, <2>1, SameStep DEF Replay
<1>8. CASE Cancel
  <2>1. rec.state \notin Terminal \cup {"absent"} /\ UNCHANGED <<run, historyVars>>
    BY <1>8 DEF Cancel
  <2>2. rec' = MovedTo(rec, "cancelled")
    BY <1>8 DEF Cancel
  <2>3. IsRecord(rec', rec.revision + 1, "cancelled", rec.turns, rec.started, rec.inputs, rec.synthesis, rec.artifact)
    BY <1>0, <1>st, <2>2, MovedToIs
  <2>4. Grown
    BY <1>0, <2>1, <2>3, GrownBy
  <2>5. rec'.state = "cancelled" /\ rec'.turns = rec.turns /\ rec'.inputs = rec.inputs
    BY <2>3 DEF IsRecord
  <2> QED
    BY <2>1, <2>4, <2>5, KeptStep DEF RunKept, Changing
<1>9. CASE Abort
  <2>1. UNCHANGED <<rec, start, reply, historyVars>>
    BY <1>9 DEF Abort
  <2>2. CASE run.pc = "none"
    <3>1. run' = run
      BY <1>9, <2>2 DEF Abort
    <3> QED
      BY <2>1, <3>1, SameStep
  <2>3. CASE run.pc # "none"
    <3>1. run' = [run EXCEPT !.aborted = TRUE]
      BY <1>9, <2>3 DEF Abort
    <3>2. RunKept
      BY <1>0, <3>1 DEF RunKept, RunType
    <3>3. rec.state # "absent"
      BY <2>3 DEF IInv, Fresh, NoRun
    <3> QED
      BY <2>1, <3>2, <3>3, KeptStep DEF Changing
  <2> QED
    BY <2>2, <2>3
<1>10. CASE Revive
  <2>1. UNCHANGED <<rec, start, reply, historyVars>> /\ Schedule(rec.state)
    BY <1>10 DEF Revive, requestVars
  <2>2. CASE run' = run
    BY <2>1, <2>2, SameStep
  <2>3. CASE rec.state \in Runnable /\ run'.seen = NoRecord /\ run'.pc = "boot"
    BY <1>st, <2>1, <2>3, PlainStep DEF Changing, Special
  <2> QED
    BY <1>0, <2>1, <2>2, <2>3, ScheduleIs
<1>11. CASE Restart
  <2>1. rec.state # "absent" /\ UNCHANGED <<rec, historyVars>>
    BY <1>11 DEF Restart
  <2>2. run' = [NoRun EXCEPT !.pc = "boot"] \/ run' = NoRun
    BY <1>11 DEF Restart
  <2>3. run'.pc \in {"boot", "none"} /\ run'.seen = NoRecord
    BY <2>2 DEF NoRun
  <2> QED
    BY <2>1, <2>3, PlainStep DEF Changing, Special
<1> QED
  BY <1>1, <1>2, <1>3, <1>4, <1>5, <1>6, <1>7, <1>8, <1>9, <1>10, <1>11

\* The steps of the run that leave the record alone.
LEMMA InvQuiet ==
    ASSUME IInv, TypeOK'
    PROVE  /\ Boot \/ Proceed \/ LeaveDialogue \/ DialogueThrows \/ AllAnswered \/ NextRound
              \/ SynthesisThrows \/ End => IInv'
           /\ \A t \in Turns : Answer(t) => IInv'
<1>0. run \in RunType
  BY Typed DEF IInv
<1>1. SUFFICES ASSUME UNCHANGED <<rec, historyVars>>, run.pc # "none",
                      run'.pc \notin Special, run'.seen \in {run.seen, NoRecord, rec'}
               PROVE  IInv'
  <2>1. ASSUME Boot
        PROVE  UNCHANGED <<rec, historyVars>> /\ run.pc # "none" /\ run'.pc \notin Special
               /\ run'.seen \in {run.seen, NoRecord, rec'}
    BY <1>0, <2>1, EndedIs DEF Boot, RunType, Special
  <2>2. ASSUME Proceed \/ LeaveDialogue
        PROVE  UNCHANGED <<rec, historyVars>> /\ run.pc # "none" /\ run'.pc \notin Special
               /\ run'.seen = run.seen
    BY <1>0, <2>2 DEF Proceed, LeaveDialogue, RunType, Special
  <2>3. ASSUME DialogueThrows \/ AllAnswered \/ NextRound \/ SynthesisThrows
        PROVE  UNCHANGED <<rec, historyVars>> /\ run.pc # "none" /\ run'.pc \notin Special
               /\ run'.seen = run.seen
    BY <1>0, <2>3 DEF DialogueThrows, AllAnswered, NextRound, SynthesisThrows, RunType, Special
  <2>4. ASSUME End
        PROVE  UNCHANGED <<rec, historyVars>> /\ run.pc # "none" /\ run'.pc \notin Special
               /\ run'.seen = NoRecord
    BY <2>4 DEF End, NoRun, Special
  <2>5. ASSUME NEW t \in Turns, Answer(t)
        PROVE  UNCHANGED <<rec, historyVars>> /\ run.pc # "none" /\ run'.pc \notin Special
               /\ run'.seen = run.seen
    BY <1>0, <2>5 DEF Answer, RunType, Special
  <2> QED
    BY <1>1, <2>1, <2>2, <2>3, <2>4, <2>5
<1>2. rec.state # "absent"
  BY <1>1 DEF IInv, Fresh, NoRun
<1> QED
  BY <1>1, <1>2, PlainStep DEF Changing

\* The writes of the run that claim nothing.
LEMMA InvWrites ==
    ASSUME IInv, TypeOK'
    PROVE  Initialise \/ AssignDuty \/ Discuss \/ RefuseTurn \/ Ask => IInv'
<1>0. run.seen \in Record
  BY Typed DEF IInv, RunType
<1>st. "discussing" \in States /\ "input_required" \in States
  BY DEF States, Runnable
<1>pc. {"end", "duties"} \subseteq Places \ Special
  BY DEF Places, Special
<1>f. \A b \in BOOLEAN :
        IsRecord(FailedWith(run.seen, b), run.seen.revision + 1, "failed", run.seen.turns, run.seen.started,
                 run.seen.inputs, run.seen.synthesis, run.seen.artifact)
  BY <1>0, FailedIs
<1>1. CASE Initialise
  <2>1. run.pc # "none" /\ UNCHANGED historyVars
    BY <1>1 DEF Initialise
  <2>2. CASE RunWrite(FailedWith(run.seen, FALSE), "end")
    BY <1>f, <1>pc, <2>1, <2>2, RunWriteStep DEF IsRecord
  <2>3. CASE RunWrite(Changed([run.seen EXCEPT !.execution = TRUE]), "duties")
    <3>1. IsRecord(Changed([run.seen EXCEPT !.execution = TRUE]), run.seen.revision + 1, run.seen.state,
                   run.seen.turns, run.seen.started, run.seen.inputs, run.seen.synthesis, run.seen.artifact)
      BY <1>0, ExecutionIs
    <3> QED
      BY <1>pc, <2>1, <2>3, <3>1, RunWriteStep DEF IsRecord
  <2> QED
    BY <1>1, <2>2, <2>3 DEF Initialise
<1>2. CASE AssignDuty
  <2>1. run.pc # "none" /\ UNCHANGED historyVars
    BY <1>2 DEF AssignDuty
  <2>2. PICK p \in Participants : RunWrite(Changed([run.seen EXCEPT !.duties = @ \cup {p}]), "duties")
    BY <1>2 DEF AssignDuty
  <2>3. IsRecord(Changed([run.seen EXCEPT !.duties = @ \cup {p}]), run.seen.revision + 1, run.seen.state,
                 run.seen.turns, run.seen.started, run.seen.inputs, run.seen.synthesis, run.seen.artifact)
    BY <1>0, DutyIs
  <2> QED
    BY <1>pc, <2>1, <2>2, <2>3, RunWriteStep DEF IsRecord
<1>3. CASE Discuss
  <2>1. run.pc # "none" /\ UNCHANGED historyVars /\ RunWrite(MovedTo(run.seen, "discussing"), "duties")
    BY <1>3 DEF Discuss
  <2>2. IsRecord(MovedTo(run.seen, "discussing"), run.seen.revision + 1, "discussing",
                 run.seen.turns, run.seen.started, run.seen.inputs, run.seen.synthesis, run.seen.artifact)
    BY <1>0, <1>st, MovedToIs
  <2> QED
    BY <1>pc, <2>1, <2>2, RunWriteStep DEF IsRecord
<1>4. CASE RefuseTurn
  <2>1. run.pc # "none" /\ UNCHANGED historyVars /\ RunWrite(FailedWith(run.seen, TRUE), "end")
    BY <1>4 DEF RefuseTurn
  <2> QED
    BY <1>f, <1>pc, <2>1, RunWriteStep DEF IsRecord
<1>5. CASE Ask
  <2>1. run.pc # "none" /\ UNCHANGED historyVars /\ RunWrite(MovedTo(run.seen, "input_required"), "end")
    BY <1>5 DEF Ask
  <2>2. IsRecord(MovedTo(run.seen, "input_required"), run.seen.revision + 1, "input_required",
                 run.seen.turns, run.seen.started, run.seen.inputs, run.seen.synthesis, run.seen.artifact)
    BY <1>0, <1>st, MovedToIs
  <2> QED
    BY <1>pc, <2>1, <2>2, RunWriteStep DEF IsRecord
<1> QED
  BY <1>1, <1>2, <1>3, <1>4, <1>5

\* The steps of a round: a batch is opened, claimed turn by turn, and called.
LEMMA InvRound ==
    ASSUME IInv, TypeOK'
    PROVE  OpenRound \/ Claim \/ Dispatch \/ Settle => IInv'
<1>0. /\ rec \in Record /\ run \in RunType /\ run.seen \in Record /\ run.todo \subseteq Turns
      /\ dispatched \in [Turns -> Nat] /\ run.batch \subseteq Turns
  BY Typed DEF IInv, RunType
<1>end. /\ Ended.pc = "end" /\ Ended.seen = NoRecord /\ "end" \notin Special
        /\ "end" \in Places \ Special
  BY <1>0, EndedIs DEF Special, Places
<1>st. "absent" \notin Terminal /\ "discussing" \notin Terminal
  BY DEF Terminal
<1>1. CASE OpenRound
  <2>1. run.pc # "none" /\ UNCHANGED historyVars
    BY <1>1 DEF OpenRound
  <2>2. CASE /\ run' = [run EXCEPT !.pc = "claim", !.batch = Batch(run.seen), !.todo = Batch(run.seen)]
             /\ UNCHANGED rec
    <3>1. /\ run'.pc = "claim" /\ run'.seen = run.seen /\ run'.batch = run'.todo
      BY <1>0, <2>2 DEF RunType
    <3>2. Claims' /\ Keys' /\ Snapshot'
      BY <2>1, <2>2, <3>1, HistoryKept, SnapshotKept DEF Changing
    <3>3. rec.state # "absent"
      BY <2>1 DEF IInv, Fresh, NoRun
    <3>4. Fresh' /\ BatchClaimed' /\ KeyClaimed' /\ Synthesising' /\ ArtifactSawEverything'
      BY <2>2, <3>1, <3>3
         DEF IInv, Fresh, BatchClaimed, KeyClaimed, Synthesising, ArtifactSawEverything
    <3> QED
      BY <3>2, <3>4 DEF IInv
  <2>3. CASE RunWrite(FailedWith(run.seen, FALSE), "end")
    <3>1. IsRecord(FailedWith(run.seen, FALSE), run.seen.revision + 1, "failed", run.seen.turns,
                   run.seen.started, run.seen.inputs, run.seen.synthesis, run.seen.artifact)
      BY <1>0, FailedIs
    <3> QED
      BY <1>end, <2>1, <2>3, <3>1, RunWriteStep DEF IsRecord
  <2> QED
    BY <1>1, <2>2, <2>3 DEF OpenRound
<1>2. CASE Claim
  <2>1. PICK t \in run.todo :
           IF Current(run.seen) /\ Unclaimed(rec, t)
           THEN /\ rec' = ClaimedTurn(run.seen, t)
                /\ run' = [run EXCEPT !.seen = rec', !.todo = @ \ {t}]
           ELSE run' = Ended /\ UNCHANGED rec
    BY <1>2 DEF Claim
  <2>2. run.pc = "claim" /\ UNCHANGED historyVars
    BY <1>2 DEF Claim
  <2>3. rec.state # "absent"
    BY <2>2 DEF IInv, Fresh, NoRun
  <2>4. CASE Current(run.seen) /\ Unclaimed(rec, t)
    <3>1. rec = run.seen /\ rec.state \notin Terminal
      BY <2>4 DEF Current, IInv, Snapshot
    <3>2. t \in Turns
      BY <1>0
    <3>3. IsRecord(rec', rec.revision + 1, rec.state, rec.turns, rec.started \cup {t}, rec.inputs,
                   rec.synthesis, rec.artifact)
      BY <1>0, <2>1, <2>4, <3>1, <3>2, ClaimedIs
    <3>4. Grown
      BY <1>0, <2>3, <3>1, <3>3, GrownBy
    <3>5. /\ run'.pc = "claim" /\ run'.seen = rec' /\ run'.batch = run.batch
          /\ run'.todo = run.todo \ {t}
      BY <1>0, <2>1, <2>2, <2>4 DEF RunType
    <3>6. Claims' /\ Keys' /\ Snapshot'
      BY <2>2, <3>4, <3>5, HistoryKept, SnapshotKept DEF Changing
    <3>7. dispatched[t] = 0
      <4>1. dispatched[t] \in Nat /\ dispatched[t] <= 1
        BY <1>0, <3>2 DEF IInv, Claims
      <4>2. dispatched[t] # 1
        BY <2>4, <3>2 DEF IInv, Claims, Unclaimed
      <4> QED
        BY <4>1, <4>2
    <3>8. BatchClaimed'
      <4>1. rec'.turns = rec.turns /\ rec'.started = rec.started \cup {t}
        BY <3>3 DEF IsRecord
      <4> QED
        BY <2>2, <3>5, <3>7, <4>1 DEF IInv, BatchClaimed, historyVars
    <3>9. Fresh' /\ KeyClaimed' /\ Synthesising'
      BY <3>4, <3>5 DEF Fresh, KeyClaimed, Synthesising, Grown
    <3>10. ArtifactSawEverything'
      BY <3>1, <3>3 DEF ArtifactSawEverything, IsRecord, Terminal
    <3> QED
      BY <3>6, <3>8, <3>9, <3>10 DEF IInv
  <2>5. CASE ~(Current(run.seen) /\ Unclaimed(rec, t))
    <3>1. run' = Ended /\ rec' = rec
      BY <2>1, <2>5
    <3> QED
      BY <1>end, <2>2, <2>3, <3>1, PlainStep DEF Changing
  <2> QED
    BY <2>4, <2>5
<1>3. CASE Dispatch
  <2>1. run.pc = "claim" /\ run.todo = {} /\ UNCHANGED <<rec, synthesised>>
    BY <1>3 DEF Dispatch
  <2>2. run'.pc = "waiting" /\ run'.seen = run.seen
    BY <1>0, <1>3 DEF Dispatch, RunType
  <2>3. rec.state # "absent"
    BY <2>1 DEF IInv, Fresh, NoRun
  <2>4. Claims'
    <3> SUFFICES ASSUME NEW t \in Turns
                 PROVE  /\ dispatched'[t] <= 1
                        /\ dispatched'[t] = 1 => t \in rec'.turns \cup rec'.started
      BY DEF Claims
    <3>1. CASE t \in run.batch
      <4>1. t \in rec.turns \cup rec.started /\ dispatched[t] = 0
        BY <2>1, <3>1 DEF IInv, BatchClaimed
      <4>2. dispatched'[t] = dispatched[t] + 1
        BY <1>3, <3>1 DEF Dispatch
      <4> QED
        BY <2>1, <4>1, <4>2
    <3>2. CASE t \notin run.batch
      <4>1. dispatched'[t] = dispatched[t]
        BY <1>3, <3>2 DEF Dispatch
      <4> QED
        BY <2>1, <4>1 DEF IInv, Claims
    <3> QED
      BY <3>1, <3>2
  <2>5. Keys' /\ Snapshot' /\ ArtifactSawEverything'
    BY <2>1, <2>2 DEF IInv, Keys, Snapshot, ArtifactSawEverything
  <2>6. Fresh' /\ BatchClaimed' /\ KeyClaimed' /\ Synthesising'
    BY <2>1, <2>2, <2>3 DEF Fresh, BatchClaimed, KeyClaimed, Synthesising
  <2> QED
    BY <2>4, <2>5, <2>6 DEF IInv
<1>4. CASE Settle
  <2>1. PICK t \in run.todo :
          LET asked == run.answers[t] = "asked"
          IN  IF run.aborted \/ rec.state # "discussing"
              THEN run' = Ended /\ UNCHANGED rec
              ELSE IF run.answers[t] = "empty"
              THEN run' = Ended /\ rec' = FailedWith(rec, FALSE)
              ELSE /\ rec' = Recorded(rec, t, asked)
                   /\ run' = [run EXCEPT !.seen = rec', !.todo = @ \ {t},
                                         !.pc = IF asked THEN "ask" ELSE "settle"]
    BY <1>4 DEF Settle
  <2>2. run.pc = "settle" /\ UNCHANGED historyVars
    BY <1>4 DEF Settle
  <2>3. rec.state # "absent"
    BY <2>2 DEF IInv, Fresh, NoRun
  <2>4. CASE run.aborted \/ rec.state # "discussing"
    <3>1. run' = Ended /\ rec' = rec
      BY <2>1, <2>4
    <3> QED
      BY <1>end, <2>2, <2>3, <3>1, PlainStep DEF Changing
  <2>5. CASE ~(run.aborted \/ rec.state # "discussing") /\ run.answers[t] = "empty"
    <3>1. run' = Ended /\ rec' = FailedWith(rec, FALSE)
      BY <2>1, <2>5
    <3>2. IsRecord(rec', rec.revision + 1, "failed", rec.turns, rec.started, rec.inputs,
                   rec.synthesis, rec.artifact)
      BY <1>0, <3>1, FailedIs
    <3>3. Grown
      BY <1>0, <1>st, <2>3, <2>5, <3>2, GrownBy
    <3>4. rec'.state = "failed"
      BY <3>2 DEF IsRecord
    <3> QED
      BY <1>end, <2>2, <2>3, <3>1, <3>3, <3>4, PlainStep DEF Changing
  <2>6. CASE ~(run.aborted \/ rec.state # "discussing") /\ run.answers[t] # "empty"
    <3>1. rec' = Recorded(rec, t, run.answers[t] = "asked")
      BY <2>1, <2>6
    <3>2. \E pc \in {"ask", "settle"} : run' = [run EXCEPT !.seen = rec', !.todo = run.todo \ {t}, !.pc = pc]
      BY <2>1, <2>6
    <3>3. t \in Turns
      BY <1>0
    <3>4. IsRecord(rec', rec.revision + 1, rec.state, rec.turns \cup {t}, rec.started \ {t}, rec.inputs,
                   rec.synthesis, rec.artifact)
      BY <1>0, <3>1, <3>3, RecordedIs
    <3>5. Grown
      BY <1>0, <1>st, <2>3, <2>6, <3>4, GrownBy
    <3>6. run'.seen = rec' /\ run'.pc \in {"ask", "settle"}
      BY <1>0, <3>2 DEF RunType
    <3>7. rec'.state = "discussing"
      BY <2>6, <3>4 DEF IsRecord
    <3> QED
      BY <2>2, <2>3, <3>5, <3>6, <3>7, PlainStep DEF Changing, Special
  <2> QED
    BY <2>4, <2>5, <2>6
<1> QED
  BY <1>1, <1>2, <1>3, <1>4

\* The synthesis: its key is claimed, it is called, and it ends.
LEMMA InvSynthesis ==
    ASSUME IInv, TypeOK'
    PROVE  Synthesis \/ Synthesise \/ Complete \/ SynthesisAsks \/ Catch => IInv'
<1>0. /\ rec \in Record /\ run \in RunType /\ run.seen \in Record /\ run.view \in Views
      /\ synthesised \in [0..MaxInputs -> Nat]
  BY Typed DEF IInv, RunType
<1>end. Ended.pc = "end" /\ Ended.seen = NoRecord /\ "end" \notin Special
  BY <1>0, EndedIs DEF Special
<1>st. /\ "absent" \notin Terminal /\ "discussing" \notin Terminal /\ "input_required" \in States
  BY DEF Terminal, States
<1>1. CASE Synthesis
  <2>1. run.pc = "synthesis" /\ UNCHANGED historyVars
    BY <1>1 DEF Synthesis
  <2>2. rec.state # "absent"
    BY <2>1 DEF IInv, Fresh, NoRun
  <2>3. CASE run.aborted \/ rec.state # "discussing"
    <3>1. run' = Ended /\ rec' = rec
      BY <1>1, <2>3 DEF Synthesis
    <3> QED
      BY <1>end, <2>1, <2>2, <3>1, PlainStep DEF Changing
  <2>4. CASE /\ ~(run.aborted \/ rec.state # "discussing")
             /\ rec.synthesis[SynthesisKey(rec)] = "started"
    <3>1. run' = Ended /\ rec' = FailedWith(rec, TRUE)
      BY <1>1, <2>4 DEF Synthesis
    <3>2. IsRecord(rec', rec.revision + 1, "failed", rec.turns, rec.started, rec.inputs,
                   rec.synthesis, rec.artifact)
      BY <1>0, <3>1, FailedIs
    <3>3. Grown /\ rec'.state = "failed"
      BY <1>0, <1>st, <2>2, <2>4, <3>2, GrownBy DEF IsRecord
    <3> QED
      BY <1>end, <2>1, <2>2, <3>1, <3>3, PlainStep DEF Changing
  <2>5. CASE /\ ~(run.aborted \/ rec.state # "discussing")
             /\ rec.synthesis[SynthesisKey(rec)] = "completed"
    <3>1. run' = Ended /\ rec' = MovedTo(rec, "input_required")
      BY <1>1, <2>5 DEF Synthesis
    <3>2. IsRecord(rec', rec.revision + 1, "input_required", rec.turns, rec.started, rec.inputs,
                   rec.synthesis, rec.artifact)
      BY <1>0, <1>st, <3>1, MovedToIs
    <3>3. Grown /\ rec'.state = "input_required"
      BY <1>0, <1>st, <2>2, <2>5, <3>2, GrownBy DEF IsRecord
    <3> QED
      BY <1>end, <2>1, <2>2, <3>1, <3>3, PlainStep DEF Changing
  <2>6. CASE /\ ~(run.aborted \/ rec.state # "discussing")
             /\ rec.synthesis[SynthesisKey(rec)] \notin {"started", "completed"}
    <3>1. rec' = SynthesisAt(rec, "started")
      BY <1>1, <2>6 DEF Synthesis
    <3>2. run' = [run EXCEPT !.pc = "synthesise", !.seen = rec']
      BY <1>1, <2>6 DEF Synthesis
    <3>3. IsRecord(rec', rec.revision + 1, rec.state, rec.turns, rec.started, rec.inputs,
                   [rec.synthesis EXCEPT ![SynthesisKey(rec)] = "started"], rec.artifact)
      BY <1>0, <3>1, SynthesisIs
    <3>k. \A n \in 0..MaxInputs :
             rec.synthesis[n] # "none" => [rec.synthesis EXCEPT ![SynthesisKey(rec)] = "started"][n] # "none"
      BY <1>0, KeyKept
    <3>4. Grown
      <4> DEFINE sy == [rec.synthesis EXCEPT ![SynthesisKey(rec)] = "started"]
      <4>1. IsRecord(rec', rec.revision + 1, rec.state, rec.turns, rec.started, rec.inputs, sy, rec.artifact)
        BY <3>3
      <4>2. \A n \in 0..MaxInputs : rec.synthesis[n] # "none" => sy[n] # "none"
        BY <3>k
      <4>3. rec.state \notin Terminal \cup {"absent"}
        BY <1>st, <2>2, <2>6
      <4> HIDE DEF sy
      <4> QED
        BY <1>0, <4>1, <4>2, <4>3, GrownBy
    <3>5. run'.pc = "synthesise" /\ run'.seen = rec'
      BY <1>0, <3>2 DEF RunType
    <3>6. Claims' /\ Keys' /\ Snapshot'
      BY <2>1, <3>4, <3>5, HistoryKept, SnapshotKept DEF Changing
    <3>7. KeyClaimed'
      <4> SUFFICES ASSUME NEW n \in 0..MaxInputs, n = SynthesisKey(rec')
                   PROVE  rec'.synthesis[n] # "none" /\ synthesised[n] = 0
        BY <2>1, <3>5 DEF KeyClaimed, historyVars
      <4>1. n = SynthesisKey(rec)
        BY <3>3 DEF SynthesisKey, IsRecord
      <4>2. rec'.synthesis = [rec.synthesis EXCEPT ![n] = "started"]
        BY <3>3, <4>1 DEF IsRecord
      <4>3. rec.synthesis \in Statuses
        BY <1>0, Fields
      <4>4. rec.synthesis[n] = "none"
        BY <2>6, <4>1, <4>3 DEF Statuses
      <4>5. synthesised[n] \in Nat /\ synthesised[n] <= 1 /\ synthesised[n] # 1
        BY <1>0, <4>4 DEF IInv, Keys
      <4>6. rec'.synthesis[n] = "started"
        BY <4>2, <4>3 DEF Statuses
      <4> QED
        BY <4>5, <4>6
    <3>8. rec'.state = "discussing"
      BY <2>6, <3>3 DEF IsRecord
    <3>9. Fresh' /\ BatchClaimed' /\ Synthesising' /\ ArtifactSawEverything'
      BY <3>5, <3>8 DEF Fresh, BatchClaimed, Synthesising, ArtifactSawEverything
    <3> QED
      BY <3>6, <3>7, <3>9 DEF IInv
  <2> QED
    BY <2>3, <2>4, <2>5, <2>6
<1>2. CASE Synthesise
  <2>1. run.pc = "synthesise" /\ UNCHANGED <<rec, dispatched>>
    BY <1>2 DEF Synthesise
  <2>2. run'.pc = "synthesising" /\ run'.seen = run.seen /\ run'.view = View(run.seen)
    BY <1>0, <1>2 DEF Synthesise, RunType, View
  <2>3. rec.state # "absent"
    BY <2>1 DEF IInv, Fresh, NoRun
  <2>4. Keys'
    <3> SUFFICES ASSUME NEW n \in 0..MaxInputs
                 PROVE  /\ synthesised'[n] <= 1
                        /\ synthesised'[n] = 1 => rec'.synthesis[n] # "none"
      BY DEF Keys
    <3>1. CASE n = SynthesisKey(run.seen)
      <4>1. rec.synthesis[n] # "none" /\ synthesised[n] = 0
        BY <2>1, <3>1 DEF IInv, KeyClaimed
      <4>2. synthesised'[n] = synthesised[n] + 1
        BY <1>0, <1>2, <3>1 DEF Synthesise
      <4> QED
        BY <2>1, <4>1, <4>2
    <3>2. CASE n # SynthesisKey(run.seen)
      <4>1. synthesised'[n] = synthesised[n]
        BY <1>0, <1>2, <3>2 DEF Synthesise
      <4> QED
        BY <2>1, <4>1 DEF IInv, Keys
    <3> QED
      BY <3>1, <3>2
  <2>5. Claims' /\ Snapshot' /\ ArtifactSawEverything'
    BY <2>1, <2>2 DEF IInv, Claims, Snapshot, ArtifactSawEverything
  <2>6. Synthesising'
    BY <2>1, <2>2 DEF IInv, Synthesising, View
  <2>7. Fresh' /\ BatchClaimed' /\ KeyClaimed'
    BY <2>1, <2>2, <2>3 DEF Fresh, BatchClaimed, KeyClaimed
  <2> QED
    BY <2>4, <2>5, <2>6, <2>7 DEF IInv
<1>3. CASE Complete
  <2>1. run.pc = "synthesising" /\ run' = Ended /\ UNCHANGED historyVars
    BY <1>3 DEF Complete
  <2>2. rec.state # "absent"
    BY <2>1 DEF IInv, Fresh, NoRun
  <2>3. CASE rec.state = "discussing"
    <3>1. IsRecord(rec', rec.revision + 1, "complete", rec.turns, rec.started, rec.inputs,
                   [rec.synthesis EXCEPT ![SynthesisKey(rec)] = "completed"], run.view)
      <4>1. rec' = [SynthesisAt(rec, "completed") EXCEPT !.state = "complete", !.artifact = run.view]
        BY <1>3, <2>3 DEF Complete
      <4>2. rec \in Record /\ run.view \in Views
        BY <1>0
      <4>3. IsRecord([SynthesisAt(rec, "completed") EXCEPT !.state = "complete", !.artifact = run.view],
                     rec.revision + 1, "complete", rec.turns, rec.started, rec.inputs,
                     [rec.synthesis EXCEPT ![SynthesisKey(rec)] = "completed"], run.view)
        BY <4>2, CompletedIs, Zenon
      <4> QED
        BY <4>1, <4>3, Zenon
    <3>2. Grown
      <4> DEFINE sy == [rec.synthesis EXCEPT ![SynthesisKey(rec)] = "completed"]
      <4>1. IsRecord(rec', rec.revision + 1, "complete", rec.turns, rec.started, rec.inputs, sy, run.view)
        BY <3>1
      <4>2. \A n \in 0..MaxInputs : rec.synthesis[n] # "none" => sy[n] # "none"
        BY <1>0, KeyKept
      <4>3. rec \in Record /\ rec.state \notin Terminal \cup {"absent"}
        BY <1>0, <1>st, <2>3
      <4> HIDE DEF sy
      <4> QED
        BY <4>1, <4>2, <4>3 DEF Grown, IsRecord
    <3>3. run.view = View(rec)
      BY <2>1, <2>3 DEF IInv, Synthesising
    <3>4. rec'.artifact = View(rec')
      BY <3>1, <3>3 DEF View, IsRecord
    <3> QED
      BY <1>end, <2>1, <2>2, <3>2, <3>4, PlainStep DEF Changing
  <2>4. CASE rec.state # "discussing"
    <3>1. rec' = rec
      BY <1>3, <2>4 DEF Complete
    <3> QED
      BY <1>end, <2>1, <2>2, <3>1, PlainStep DEF Changing
  <2> QED
    BY <2>3, <2>4
<1>4. CASE SynthesisAsks
  <2>1. run.pc = "synthesising" /\ UNCHANGED historyVars
    BY <1>4 DEF SynthesisAsks
  <2>2. rec.state # "absent"
    BY <2>1 DEF IInv, Fresh, NoRun
  <2>3. CASE rec.state = "discussing"
    <3>1. rec' = [SynthesisAt(rec, "completed") EXCEPT !.question = TRUE]
      BY <1>4, <2>3 DEF SynthesisAsks
    <3>2. run' = [run EXCEPT !.pc = "ask", !.seen = rec']
      BY <1>4, <2>3 DEF SynthesisAsks
    <3>3. IsRecord(rec', rec.revision + 1, rec.state, rec.turns, rec.started, rec.inputs,
                   [rec.synthesis EXCEPT ![SynthesisKey(rec)] = "completed"], rec.artifact)
      BY <1>0, <3>1, AskedIs
    <3>k. \A n \in 0..MaxInputs :
             rec.synthesis[n] # "none" => [rec.synthesis EXCEPT ![SynthesisKey(rec)] = "completed"][n] # "none"
      BY <1>0, KeyKept
    <3>g. Grown
      <4> DEFINE sy == [rec.synthesis EXCEPT ![SynthesisKey(rec)] = "completed"]
      <4>1. IsRecord(rec', rec.revision + 1, rec.state, rec.turns, rec.started, rec.inputs, sy, rec.artifact)
        BY <3>3
      <4>2. \A n \in 0..MaxInputs : rec.synthesis[n] # "none" => sy[n] # "none"
        BY <3>k
      <4>3. rec.state \notin Terminal \cup {"absent"}
        BY <1>st, <2>2, <2>3
      <4> HIDE DEF sy
      <4> QED
        BY <1>0, <4>1, <4>2, <4>3, GrownBy
    <3>4. Grown /\ rec'.state = "discussing"
      BY <2>3, <3>3, <3>g DEF IsRecord
    <3>5. run'.pc = "ask" /\ run'.seen = rec'
      BY <1>0, <3>2 DEF RunType
    <3> QED
      BY <2>1, <2>2, <3>4, <3>5, PlainStep DEF Changing, Special
  <2>4. CASE rec.state # "discussing"
    <3>1. run' = Ended /\ rec' = rec
      BY <1>4, <2>4 DEF SynthesisAsks
    <3> QED
      BY <1>end, <2>1, <2>2, <3>1, PlainStep DEF Changing
  <2> QED
    BY <2>3, <2>4
<1>5. CASE Catch
  <2>1. run.pc = "catch" /\ run' = Ended /\ UNCHANGED historyVars
    BY <1>5 DEF Catch
  <2>2. rec.state # "absent"
    BY <2>1 DEF IInv, Fresh, NoRun
  <2>3. CASE rec.state \notin Terminal /\ ~run.aborted
    <3>1. IsRecord(rec', rec.revision + 1, "failed", rec.turns, rec.started, rec.inputs,
                   rec.synthesis, rec.artifact)
      BY <1>0, <1>5, <2>3, FailedIs DEF Catch
    <3>2. Grown /\ rec'.state = "failed"
      BY <1>0, <2>2, <2>3, <3>1, GrownBy DEF IsRecord
    <3> QED
      BY <1>end, <2>1, <2>2, <3>2, PlainStep DEF Changing
  <2>4. CASE ~(rec.state \notin Terminal /\ ~run.aborted)
    <3>1. rec' = rec
      BY <1>5, <2>4 DEF Catch
    <3> QED
      BY <1>end, <2>1, <2>2, <3>1, PlainStep DEF Changing
  <2> QED
    BY <2>3, <2>4
<1> QED
  BY <1>1, <1>2, <1>3, <1>4, <1>5

\* The invariant is inductive.
LEMMA InvNext == IInv /\ [Next]_vars => IInv'
<1> SUFFICES ASSUME IInv, [Next]_vars PROVE IInv'
  OBVIOUS
<1>1. TypeOK'
  BY TypeNext DEF IInv
<1>2. CASE RunStep \/ ProviderStep
  BY <1>1, <1>2, InvQuiet, InvWrites, InvRound, InvSynthesis DEF RunStep, ProviderStep
<1>3. CASE HandlerStep \/ ClientStep \/ Restart
  BY <1>1, <1>3, InvRequests DEF HandlerStep, ClientStep
<1>4. CASE UNCHANGED vars
  <2>1. UNCHANGED <<rec, run, start, reply, historyVars>>
    BY <1>4 DEF vars, historyVars
  <2> QED
    BY <1>1, <2>1, SameStep
<1> QED
  BY <1>2, <1>3, <1>4 DEF Next

-----------------------------------------------------------------------------
(* What holds of every behaviour *)

\* The invariant holds of every behaviour.
LEMMA Invariant == Spec => []IInv
BY InvInit, InvNext, PTL DEF Spec

\* No provider call is made twice, for any number of restarts and requests.
THEOREM DispatchedOnceHolds == Spec => []DispatchedOnce
<1>1. IInv => DispatchedOnce
  BY DEF IInv, Claims, Keys, DispatchedOnce
<1> QED
  BY <1>1, Invariant, PTL

\* An artifact was synthesised from everything the record holds.
THEOREM ArtifactComplete == Spec => []ArtifactSawEverything
<1>1. IInv => ArtifactSawEverything
  BY DEF IInv
<1> QED
  BY <1>1, Invariant, PTL

\* Nothing changes a record that is over, whichever write comes late.
LEMMA FinalStep == [Next]_vars => (rec.state \in Terminal => rec' = rec)
<1> SUFFICES ASSUME [Next]_vars, rec.state \in Terminal PROVE rec' = rec
  OBVIOUS
<1>0. rec.state \notin {"absent", "discussing", "input_required"}
  BY DEF Terminal
<1>1. \A new, pc : RunWrite(new, pc) => rec' = rec
  BY DEF RunWrite, Current
<1>2. CASE RunStep
  <2>1. CASE Boot \/ Proceed \/ LeaveDialogue \/ Dispatch \/ AllAnswered \/ NextRound \/ Synthesise \/ End
    BY <2>1 DEF Boot, Proceed, LeaveDialogue, Dispatch, AllAnswered, NextRound, Synthesise, End
  <2>2. CASE Initialise \/ AssignDuty \/ Discuss \/ RefuseTurn \/ OpenRound \/ Ask
    BY <1>1, <2>2 DEF Initialise, AssignDuty, Discuss, RefuseTurn, OpenRound, Ask
  <2>3. CASE Claim
    BY <2>3 DEF Claim, Current
  <2>4. CASE Settle
    BY <1>0, <2>4 DEF Settle
  <2>5. CASE Synthesis
    BY <1>0, <2>5 DEF Synthesis
  <2>6. CASE Catch
    BY <2>6 DEF Catch
  <2> QED
    BY <1>2, <2>1, <2>2, <2>3, <2>4, <2>5, <2>6 DEF RunStep
<1>3. CASE ProviderStep
  BY <1>0, <1>3 DEF ProviderStep, Answer, DialogueThrows, Complete, SynthesisAsks, SynthesisThrows
<1>4. CASE HandlerStep
  BY <1>4 DEF HandlerStep, StartRecord, StartSchedule, Resume, ReplySchedule, Abort, Revive, Current
<1>5. CASE ClientStep
  BY <1>0, <1>5 DEF ClientStep, StartCreate, Respond, CanAnswer, Replay, Cancel
<1>6. CASE Restart
  BY <1>6 DEF Restart
<1>7. CASE UNCHANGED vars
  BY <1>7 DEF vars
<1> QED
  BY <1>2, <1>3, <1>4, <1>5, <1>6, <1>7 DEF Next

\* One end wins.
THEOREM EndsAreFinal == Spec => TerminalIsFinal
<1>1. [Next]_vars => [rec.state \in Terminal => rec' = rec]_vars
  BY FinalStep
<1> QED
  BY <1>1, PTL DEF Spec, TerminalIsFinal
=============================================================================
