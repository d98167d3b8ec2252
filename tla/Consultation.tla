---------------------------- MODULE Consultation ----------------------------
(***************************************************************************)
(* One consultation of a room: server/consultation-service.ts over the     *)
(* record of shared/consultation-domain.ts, whose every change is a        *)
(* compare-and-set on its revision.                                        *)
(*                                                                         *)
(* A run drives the consultation through dialogue and synthesis; start     *)
(* requests (and their retries), answers to a blocking question and a      *)
(* cancellation interleave with it at its awaits, and the process may be   *)
(* restarted at any point: the record is what survives.  Calls of a        *)
(* provider are claimed in the record before they are made.                *)
(*                                                                         *)
(* A read of the record directly followed by its write is one step where   *)
(* the lost race has the same outcome as reading later.  The repository    *)
(* itself does not fail.                                                   *)
(***************************************************************************)
EXTENDS Naturals, FiniteSets, SequencesExt

CONSTANTS Selected,          \* execution.participantIds, a sequence
          DialogueEnabled,   \* request.dialogue.enabled
          TurnLimit, RoundLimit, ConcurrencyLimit,   \* request.dialogue
          Starts, Replies,   \* requests to start, and the keys of the answers
          MaxRestarts, MaxCancels                     \* bounds

Participants == Range(Selected)
Turns  == Participants \X (1..RoundLimit)    \* the operation key of a turn
MaxInputs == Cardinality(Replies)

ASSUME ConsultationAssumption ==
    /\ Selected \in Seq(Participants) /\ IsInjective(Selected)
    /\ DialogueEnabled \in BOOLEAN
    /\ {TurnLimit, RoundLimit, ConcurrencyLimit} \subseteq Nat \ {0}
    /\ IsFiniteSet(Replies) /\ {MaxRestarts, MaxCancels} \subseteq Nat

VARIABLES rec,         \* the durable record; "absent" before the first start
          run,         \* the active run: place, snapshot, batch, answers
          again,       \* reschedule holds the consultation
          reviving,    \* the end of a run is about to schedule another
          start,       \* the start requests
          reply,       \* the answers of humans
          cancel,      \* the cancellation: "idle", "abort"
          dispatched,  \* provider calls made for each turn (history)
          synthesised, \* provider calls made for each synthesis key (history)
          spent        \* restarts and cancellations used

vars == <<rec, run, again, reviving, start, reply, cancel, dispatched, synthesised, spent>>

Terminal == {"complete", "failed", "cancelled"}
Runnable == {"queued", "discussing"}
NoView   == [turns |-> {}, inputs |-> <<>>]

\* turns are the completed operations, started those claimed and not completed;
\* synthesis holds the status of the operation key for each number of inputs.
NoRecord == [revision |-> 0, state |-> "absent", execution |-> FALSE, duties |-> {},
             turns |-> {}, started |-> {}, inputs |-> <<>>, question |-> FALSE,
             synthesis |-> [n \in 0..MaxInputs |-> "none"], artifact |-> NoView,
             uncertain |-> FALSE]
NoRun == [pc |-> "none", seen |-> NoRecord, batch |-> {}, todo |-> {},
          answers |-> [t \in Turns |-> "none"], aborted |-> FALSE, view |-> NoView]

Init ==
    /\ rec = NoRecord /\ run = NoRun /\ again = FALSE /\ reviving = FALSE
    /\ start = [s \in Starts |-> [pc |-> "idle", seen |-> NoRecord]]
    /\ reply = [k \in Replies |-> [pc |-> "idle", seen |-> NoRecord, acked |-> FALSE]]
    /\ cancel = "idle"
    /\ dispatched = [t \in Turns |-> 0]
    /\ synthesised = [n \in 0..MaxInputs |-> 0]
    /\ spent = [restarts |-> 0, cancels |-> 0]

-----------------------------------------------------------------------------
(* The record.                                                             *)

\* A change is accepted at the expected revision, and never by an ended record.
Current_unversioned(seen) == TRUE
Current(seen) == rec.revision = seen.revision /\ rec.state \notin Terminal

Changed(r) == [r EXCEPT !.revision = @ + 1]
MovedTo(r, state) == Changed([r EXCEPT !.state = state])
FailedWith(r, uncertain) == Changed([r EXCEPT !.state = "failed", !.uncertain = uncertain])

\* A claim enters the operation as started; its key must be new.
Unclaimed(r, t) == t \notin r.turns \cup r.started
ClaimedTurn_memory(r, t) == Changed(r)
ClaimedTurn(r, t) == Changed([r EXCEPT !.started = @ \cup {t}])

\* The turn of an answer, its operation completed, and the question it asked.
Recorded(r, t, asked) ==
    Changed([r EXCEPT !.turns = @ \cup {t}, !.started = @ \ {t},
                      !.question = @ \/ asked])

SynthesisKey(r) == Len(r.inputs)
SynthesisAt(r, status) == Changed([r EXCEPT !.synthesis[SynthesisKey(r)] = status])

-----------------------------------------------------------------------------
(* schedule(): one run at a time; a second request is remembered.          *)

Schedule(state) ==
    IF state \notin Runnable THEN UNCHANGED <<run, again>>
    ELSE IF run.pc # "none" THEN again' = TRUE /\ UNCHANGED run
    ELSE run' = [NoRun EXCEPT !.pc = "boot"] /\ UNCHANGED again

requestVars == <<start, reply, cancel, spent>>
historyVars == <<dispatched, synthesised>>

StartCreate(s) ==
    /\ start[s].pc = "idle"
    /\ rec' = IF rec.state # "absent" THEN rec ELSE [NoRecord EXCEPT !.revision = 1, !.state = "queued"]
    /\ start' = [start EXCEPT ![s] =
         [pc |-> IF rec'.execution THEN "schedule" ELSE "record", seen |-> rec']]
    /\ UNCHANGED <<run, again, reviving, reply, cancel, spent, historyVars>>

StartRecord(s) ==
    /\ start[s].pc = "record"
    /\ rec' = IF Current(start[s].seen) THEN Changed([rec EXCEPT !.execution = TRUE]) ELSE rec
    /\ start' = [start EXCEPT ![s] = [pc |-> "schedule", seen |-> rec']]
    /\ UNCHANGED <<run, again, reviving, reply, cancel, spent, historyVars>>

StartSchedule(s) ==
    /\ start[s].pc = "schedule"
    /\ Schedule(start[s].seen.state)
    /\ start' = [start EXCEPT ![s] = [pc |-> "done", seen |-> NoRecord]]
    /\ UNCHANGED <<rec, reviving, reply, cancel, spent, historyVars>>

-----------------------------------------------------------------------------
(* Answers.  respond() of the MCP service looks for the key among the      *)
(* inputs and acknowledges a replay; a new answer is recorded and then     *)
(* resumes the consultation.                                               *)

CanAnswer_any == rec.state \in {"input_required", "discussing"}
CanAnswer == rec.state = "input_required"

Respond(k) ==
    /\ reply[k].pc = "idle" /\ k \notin Range(rec.inputs) /\ CanAnswer
    /\ rec' = Changed([rec EXCEPT !.question = FALSE, !.inputs = Append(@, k)])
    /\ reply' = [reply EXCEPT ![k].pc = "recorded", ![k].seen = rec']
    /\ UNCHANGED <<run, again, reviving, start, cancel, spent, historyVars>>

Resume(k) ==
    /\ reply[k].pc = "recorded"
    /\ IF Current(reply[k].seen)
       THEN /\ rec' = MovedTo(rec, "discussing")
            /\ reply' = [reply EXCEPT ![k].pc = "resumed", ![k].seen = NoRecord]
       ELSE /\ reply' = [reply EXCEPT ![k].pc = "done", ![k].seen = NoRecord]
            /\ UNCHANGED rec
    /\ UNCHANGED <<run, again, reviving, start, cancel, spent, historyVars>>

ReplySchedule(k) ==
    /\ reply[k].pc = "resumed"
    /\ Schedule("discussing")
    /\ reply' = [reply EXCEPT ![k].pc = "done", ![k].acked = TRUE]
    /\ UNCHANGED <<rec, reviving, start, cancel, spent, historyVars>>

Replay(k) ==
    /\ k \in Range(rec.inputs) /\ ~reply[k].acked
    /\ reply' = [reply EXCEPT ![k].acked = TRUE]
    /\ UNCHANGED <<rec, run, again, reviving, start, cancel, spent, historyVars>>

-----------------------------------------------------------------------------
(* Cancellation: the record first, then the run.                           *)

Cancel ==
    /\ cancel = "idle" /\ spent.cancels < MaxCancels
    /\ rec.state \notin Terminal \cup {"absent"}
    /\ rec' = MovedTo(rec, "cancelled")
    /\ cancel' = "abort"
    /\ spent' = [spent EXCEPT !.cancels = @ + 1]
    /\ UNCHANGED <<run, again, reviving, start, reply, historyVars>>

Abort ==
    /\ cancel = "abort"
    /\ cancel' = "idle" /\ again' = FALSE
    /\ run' = IF run.pc = "none" THEN run ELSE [run EXCEPT !.aborted = TRUE]
    /\ UNCHANGED <<rec, reviving, start, reply, spent, historyVars>>

-----------------------------------------------------------------------------
(* The run.                                                                *)

Ended == [NoRun EXCEPT !.pc = "end", !.aborted = run.aborted]

\* Work goes by the order of the selection.
Position(p) == CHOOSE i \in DOMAIN Selected : Selected[i] = p
IsFirst(p, S) == p \in S /\ \A q \in S : Position(p) <= Position(q)
IsFirstTurn(t, S) == t \in S /\ \A u \in S : Position(t[1]) <= Position(u[1])

\* The run writes on its snapshot and goes on, or has lost a race and ends.
RunWrite(new, pc) ==
    IF Current(run.seen)
    THEN rec' = new /\ run' = [run EXCEPT !.seen = new, !.pc = pc]
    ELSE run' = Ended /\ UNCHANGED rec

RunFrame == UNCHANGED <<again, reviving, requestVars>>

Boot ==
    /\ run.pc = "boot"
    /\ run' = IF rec.state \in Runnable /\ ~run.aborted
              THEN [run EXCEPT !.pc = IF rec.execution THEN "duties" ELSE "initialise", !.seen = rec]
              ELSE Ended
    /\ RunFrame /\ UNCHANGED <<rec, historyVars>>

Initialise ==
    /\ run.pc = "initialise"
    /\ IF DialogueEnabled /\ Selected = <<>>
       THEN RunWrite(FailedWith(run.seen, FALSE), "end")
       ELSE RunWrite(Changed([run.seen EXCEPT !.execution = TRUE]), "duties")
    /\ RunFrame /\ UNCHANGED historyVars

AssignDuty ==
    /\ run.pc = "duties"
    /\ \E p \in Participants :
          /\ IsFirst(p, Participants \ run.seen.duties)
          /\ RunWrite(Changed([run.seen EXCEPT !.duties = @ \cup {p}]), "duties")
    /\ RunFrame /\ UNCHANGED historyVars

Discuss ==
    /\ run.pc = "duties" /\ Participants \subseteq run.seen.duties
    /\ run.seen.state = "queued"
    /\ RunWrite(MovedTo(run.seen, "discussing"), "duties")
    /\ RunFrame /\ UNCHANGED historyVars

Proceed ==
    /\ run.pc = "duties" /\ Participants \subseteq run.seen.duties
    /\ run.seen.state = "discussing"
    /\ run' = [run EXCEPT !.pc =
         IF DialogueEnabled /\ Cardinality(run.seen.turns) < TurnLimit THEN "round" ELSE "synthesis"]
    /\ RunFrame /\ UNCHANGED <<rec, historyVars>>

\* The next turns: the first of those who have rounds left, as many as the
\* limits allow.
TurnsOf(r, p) == Cardinality({t \in r.turns : t[1] = p})
HasRounds(r, p) == TurnsOf(r, p) < RoundLimit
PlacesLeft(r) == Min({ConcurrencyLimit, TurnLimit - Cardinality(r.turns)})
Batch(r) ==
    LET eligible == {p \in Participants : HasRounds(r, p)}
        before(p) == {q \in eligible : Position(q) < Position(p)}
    IN  {<<p, TurnsOf(r, p) + 1>> : p \in {q \in eligible : Cardinality(before(q)) < PlacesLeft(r)}}

LeaveDialogue ==
    /\ run.pc = "round"
    /\ run.aborted \/ (run.seen.started = {} /\ Batch(run.seen) = {})
    /\ run' = [run EXCEPT !.pc = "synthesis"]
    /\ RunFrame /\ UNCHANGED <<rec, historyVars>>

\* A turn whose call may have been made is not made again.
RefuseTurn ==
    /\ run.pc = "round" /\ ~run.aborted /\ run.seen.started # {}
    /\ RunWrite(FailedWith(run.seen, TRUE), "end")
    /\ RunFrame /\ UNCHANGED historyVars

OpenRound ==
    /\ run.pc = "round" /\ ~run.aborted /\ run.seen.started = {}
    /\ Batch(run.seen) # {}
    /\ \/ /\ run' = [run EXCEPT !.pc = "claim", !.batch = Batch(run.seen), !.todo = Batch(run.seen)]
          /\ UNCHANGED rec
       \/ RunWrite(FailedWith(run.seen, FALSE), "end")   \* the time ceiling
    /\ RunFrame /\ UNCHANGED historyVars

Claim ==
    /\ run.pc = "claim"
    /\ \E t \in run.todo :
          /\ IsFirstTurn(t, run.todo)
          /\ IF Current(run.seen) /\ Unclaimed(rec, t)
             THEN /\ rec' = ClaimedTurn(run.seen, t)
                  /\ run' = [run EXCEPT !.seen = rec', !.todo = @ \ {t}]
             ELSE run' = Ended /\ UNCHANGED rec
    /\ RunFrame /\ UNCHANGED historyVars

Dispatch ==
    /\ run.pc = "claim" /\ run.todo = {}
    /\ run' = [run EXCEPT !.pc = "waiting", !.todo = run.batch,
                          !.answers = [t \in Turns |-> IF t \in run.batch THEN "live" ELSE "none"]]
    /\ dispatched' = [t \in Turns |-> IF t \in run.batch THEN dispatched[t] + 1 ELSE dispatched[t]]
    /\ RunFrame /\ UNCHANGED <<rec, synthesised>>

Answer(t) ==
    /\ run.pc = "waiting" /\ run.answers[t] = "live"
    /\ \E a \in {"said", "asked", "empty"} : run' = [run EXCEPT !.answers[t] = a]
    /\ RunFrame /\ UNCHANGED <<rec, historyVars>>

\* A turn fails or the time ceiling is reached: the others are not waited for.
DialogueThrows ==
    /\ run.pc = "waiting" /\ \E t \in Turns : run.answers[t] = "live"
    /\ run' = [run EXCEPT !.pc = "catch", !.answers = NoRun.answers]
    /\ RunFrame /\ UNCHANGED <<rec, historyVars>>

AllAnswered ==
    /\ run.pc = "waiting" /\ \A t \in Turns : run.answers[t] # "live"
    /\ run' = [run EXCEPT !.pc = "settle"]
    /\ RunFrame /\ UNCHANGED <<rec, historyVars>>

\* The answers are recorded one by one; a question leaves the rest aside.
Settle ==
    /\ run.pc = "settle"
    /\ \E t \in run.todo :
          /\ IsFirstTurn(t, run.todo)
          /\ LET asked == run.answers[t] = "asked"
             IN  IF run.aborted \/ rec.state # "discussing"
                 THEN run' = Ended /\ UNCHANGED rec
                 ELSE IF run.answers[t] = "empty"
                 THEN run' = Ended /\ rec' = FailedWith(rec, FALSE)
                 ELSE /\ rec' = Recorded(rec, t, asked)
                      /\ run' = [run EXCEPT !.seen = rec', !.todo = @ \ {t},
                                            !.pc = IF asked THEN "ask" ELSE "settle"]
    /\ RunFrame /\ UNCHANGED historyVars

NextRound ==
    /\ run.pc = "settle" /\ run.todo = {}
    /\ run' = [run EXCEPT !.pc = "round", !.batch = {}, !.answers = NoRun.answers]
    /\ RunFrame /\ UNCHANGED <<rec, historyVars>>

Ask ==
    /\ run.pc = "ask"
    /\ RunWrite(MovedTo(run.seen, "input_required"), "end")
    /\ RunFrame /\ UNCHANGED historyVars

\* runSynthesis(): claim the key, or settle what an earlier run left.
Synthesis ==
    /\ run.pc = "synthesis"
    /\ LET status == rec.synthesis[SynthesisKey(rec)]
           claimed == SynthesisAt(rec, "started")
       IN  IF run.aborted \/ rec.state # "discussing" THEN run' = Ended /\ UNCHANGED rec
           ELSE IF status = "started" THEN run' = Ended /\ rec' = FailedWith(rec, TRUE)
           ELSE IF status = "completed" THEN run' = Ended /\ rec' = MovedTo(rec, "input_required")
           ELSE rec' = claimed /\ run' = [run EXCEPT !.pc = "synthesise", !.seen = claimed]
    /\ RunFrame /\ UNCHANGED historyVars

Synthesise ==
    /\ run.pc = "synthesise"
    /\ synthesised' = [synthesised EXCEPT ![SynthesisKey(run.seen)] = @ + 1]
    /\ run' = [run EXCEPT !.pc = "synthesising",
                          !.view = [turns |-> run.seen.turns, inputs |-> run.seen.inputs]]
    /\ RunFrame /\ UNCHANGED <<rec, dispatched>>

Complete ==
    /\ run.pc = "synthesising"
    /\ rec' = IF rec.state = "discussing"
              THEN [SynthesisAt(rec, "completed") EXCEPT !.state = "complete", !.artifact = run.view]
              ELSE rec
    /\ run' = Ended
    /\ RunFrame /\ UNCHANGED historyVars

SynthesisAsks ==
    /\ run.pc = "synthesising"
    /\ IF rec.state = "discussing"
       THEN /\ rec' = [SynthesisAt(rec, "completed") EXCEPT !.question = TRUE]
            /\ run' = [run EXCEPT !.pc = "ask", !.seen = rec']
       ELSE run' = Ended /\ UNCHANGED rec
    /\ RunFrame /\ UNCHANGED historyVars

SynthesisThrows ==
    /\ run.pc = "synthesising"
    /\ run' = [run EXCEPT !.pc = "catch"]
    /\ RunFrame /\ UNCHANGED <<rec, historyVars>>

Catch ==
    /\ run.pc = "catch"
    /\ rec' = IF rec.state \notin Terminal /\ ~run.aborted THEN FailedWith(rec, FALSE) ELSE rec
    /\ run' = Ended
    /\ RunFrame /\ UNCHANGED historyVars

\* finally: the run is no longer active, and a remembered request is taken up.
Remembered_dropped == FALSE
Remembered == again

End ==
    /\ run.pc = "end"
    /\ run' = NoRun /\ again' = FALSE
    /\ reviving' = (reviving \/ Remembered)
    /\ UNCHANGED <<rec, requestVars, historyVars>>

Revive ==
    /\ reviving /\ reviving' = FALSE
    /\ Schedule(rec.state)
    /\ UNCHANGED <<rec, requestVars, historyVars>>

-----------------------------------------------------------------------------
(* A restart loses everything but the record; reconcile() schedules what   *)
(* was queued or discussing before any request is served.                  *)

Restart ==
    /\ spent.restarts < MaxRestarts /\ rec.state # "absent"
    /\ spent' = [spent EXCEPT !.restarts = @ + 1]
    /\ run' = IF rec.state \in Runnable THEN [NoRun EXCEPT !.pc = "boot"] ELSE NoRun
    /\ again' = FALSE /\ reviving' = FALSE /\ cancel' = "idle"
    /\ start' = [s \in Starts |-> IF start[s].pc = "idle" THEN start[s]
                                  ELSE [pc |-> "done", seen |-> NoRecord]]
    /\ reply' = [k \in Replies |-> IF reply[k].pc = "idle" THEN reply[k]
                                   ELSE [reply[k] EXCEPT !.pc = "done", !.seen = NoRecord]]
    /\ UNCHANGED <<rec, historyVars>>

RunStep ==
    \/ Boot \/ Initialise \/ AssignDuty \/ Discuss \/ Proceed
    \/ LeaveDialogue \/ RefuseTurn \/ OpenRound \/ Claim \/ Dispatch
    \/ AllAnswered \/ Settle \/ NextRound \/ Ask
    \/ Synthesis \/ Synthesise \/ Catch \/ End
ProviderStep ==
    \/ \E t \in Turns : Answer(t)
    \/ DialogueThrows \/ Complete \/ SynthesisAsks \/ SynthesisThrows
HandlerStep ==
    \/ \E s \in Starts : StartRecord(s) \/ StartSchedule(s)
    \/ \E k \in Replies : Resume(k) \/ ReplySchedule(k)
    \/ Abort \/ Revive
ClientStep ==
    \/ \E s \in Starts : StartCreate(s)
    \/ \E k \in Replies : Respond(k) \/ Replay(k)
    \/ Cancel

Next == RunStep \/ ProviderStep \/ HandlerStep \/ ClientStep \/ Restart

Spec == Init /\ [][Next]_vars

\* The event loop serves every step that is ready, and a call of a provider
\* ends: a dialogue by its time ceiling, a synthesis by the attempt's timeout.
Fairness ==
    /\ WF_vars(RunStep) /\ WF_vars(ProviderStep) /\ WF_vars(Revive) /\ WF_vars(Abort)
    /\ \A s \in Starts : WF_vars(StartRecord(s) \/ StartSchedule(s))
    /\ \A k \in Replies : WF_vars(Resume(k) \/ ReplySchedule(k))

FairSpec == Spec /\ Fairness

-----------------------------------------------------------------------------
(* Properties.                                                             *)

States == {"absent", "input_required"} \cup Runnable \cup Terminal
Views  == [turns : SUBSET Turns, inputs : Seq(Replies)]
Record == [revision : Nat, state : States, execution : BOOLEAN, duties : SUBSET Participants,
           turns : SUBSET Turns, started : SUBSET Turns, inputs : Seq(Replies),
           question : BOOLEAN, synthesis : [0..MaxInputs -> {"none", "started", "completed"}],
           artifact : Views, uncertain : BOOLEAN]
Places == {"none", "boot", "initialise", "duties", "round", "claim", "waiting", "settle",
           "ask", "synthesis", "synthesise", "synthesising", "catch", "end"}

\* Every variable has its type; in particular no participant is ever asked for
\* a turn beyond the last round, which Turns does not contain.
TypeOK ==
    /\ rec \in Record
    /\ run \in [pc : Places, seen : Record, batch : SUBSET Turns, todo : SUBSET Turns,
                answers : [Turns -> {"none", "live", "said", "asked", "empty"}],
                aborted : BOOLEAN, view : Views]
    /\ again \in BOOLEAN /\ reviving \in BOOLEAN
    /\ start \in [Starts -> [pc : {"idle", "record", "schedule", "done"}, seen : Record]]
    /\ reply \in [Replies -> [pc : {"idle", "recorded", "resumed", "done"}, seen : Record, acked : BOOLEAN]]
    /\ cancel \in {"idle", "abort"}
    /\ dispatched \in [Turns -> Nat] /\ synthesised \in [0..MaxInputs -> Nat]
    /\ spent \in [restarts : Nat, cancels : Nat]

\* No call of a provider is ever made twice, for a turn or for a synthesis,
\* through restarts, retried starts and answers.
DispatchedOnce ==
    /\ \A t \in Turns : dispatched[t] <= 1
    /\ \A n \in 0..MaxInputs : synthesised[n] <= 1

\* The artifact of a complete consultation was synthesised from every turn and
\* every answer the record holds.
ArtifactSawEverything ==
    rec.state = "complete" => rec.artifact = [turns |-> rec.turns, inputs |-> rec.inputs]

\* One end wins: what comes late changes nothing in an ended record.
TerminalIsFinal == [][rec.state \in Terminal => rec' = rec]_vars

\* A queued or discussed consultation comes to a question or to an end, through
\* restarts and whatever requests arrive while a run ends.
Progress == rec.state \in Runnable ~> rec.state \notin Runnable

=============================================================================
