--------------------------- MODULE ProtectedWork ---------------------------
(***************************************************************************)
(* One piece of protected work from admission to the report in the room:   *)
(* server/protected-work-service.ts over server/protected-work-store.ts,   *)
(* wired in server/index.ts, on top of the job of InvestigationJob.        *)
(*                                                                         *)
(* Three activities of the server interleave at their awaits: the          *)
(* admission of the request, the one-second tick (which also runs the      *)
(* return to the chat, and is never re-entered), and the actions of        *)
(* humans.  Each works on a snapshot of the record and writes by compare-  *)
(* and-set on its revision; only the actions and the last steps of a       *)
(* return exclude each other.  A restart may come at any point.            *)
(*                                                                         *)
(* A patch and the release of the reservation that follows it are one      *)
(* step, and so is a read directly followed by its write under the mutex.  *)
(***************************************************************************)
EXTENDS InvestigationJob

CONSTANTS MaxAttempts,   \* return assessments before the return blocks (3 in the code)
          SaveMayFail,   \* the room's storage may refuse a write
          MaxRestarts, MaxActions, MaxMessages, MaxFlips, MaxBusy  \* bounds

ASSUME WorkAssumption ==
    /\ MaxAttempts \in Nat \ {0} /\ SaveMayFail \in BOOLEAN
    /\ {MaxRestarts, MaxActions, MaxMessages, MaxFlips, MaxBusy} \subseteq Nat

VARIABLES rec,       \* the durable record; rev = 0 before admission
          reserved,  \* ParticipantReservations holds the owner for this work
          start,     \* where the admission stands
          tick,      \* the tick and its return: place and local copies
          act,       \* the human action under the mutex: place and local copies
          aborted,   \* the abort signal of the return under way
          cursor,    \* the conversation: grows with every message, topic or roster change
          posted,    \* the report in the room: "no", "memory", "saved"
          eligible,  \* canStart(owner)
          assessed,  \* return assessments run since the last accepted retry (history)
          spent      \* how much of each bound is used

workVars == <<rec, reserved, start, tick, act, aborted, cursor, posted,
              eligible, assessed, spent>>
vars == <<jobVars, workVars>>

None == 0                \* no report; cursors start at 1
Phases == {"none", "queued", "busy", "stopping", "catching-up",
           "report-pending", "blocked", "available"}
Packages == {"absent", "nothing", "checkpoint", "result"}

NoRecord == [rev |-> 0, phase |-> "none", stopped |-> FALSE, package |-> "absent",
             attempts |-> 0, report |-> None, text |-> FALSE, disposition |-> "none"]
TickIdle == [pc |-> "idle", rec |-> NoRecord, job |-> NoJob, rev |-> 0, tries |-> 0,
             cursor |-> None, text |-> FALSE]
ActIdle == [pc |-> "idle", rec |-> NoRecord, rev |-> 0, disposition |-> "none"]

Outstanding == rec.phase \notin {"none", "available"}
Admitting   == start # "idle"
HasDelivered == posted # "no"

\* exclusive(): the actions, and the finishing part of a tick or a return.
Locked == act.pc # "idle" \/ tick.pc \in {"saving", "finish", "acknowledged"}

\* What a return package can say of a job.
Findings(j) ==
    IF j.result THEN "result" ELSE IF j.checkpoint THEN "checkpoint" ELSE "nothing"

\* put(): accepted when nobody wrote since the snapshot r was read.
Fresh(r) == rec.rev = r.rev
\* Mutant: a put without the comparison.
WriteOver(r, new) == [new EXCEPT !.rev = rec.rev + 1]

Write(r, new) == IF Fresh(r) THEN [new EXCEPT !.rev = r.rev + 1] ELSE rec

-----------------------------------------------------------------------------
(* Initial state, types and helpers of the actions. *)

Init ==
    /\ JobInit
    /\ rec = NoRecord /\ reserved = FALSE /\ start = "idle"
    /\ tick = TickIdle /\ act = ActIdle /\ aborted = FALSE
    /\ cursor = 1 /\ posted = "no" /\ eligible = TRUE /\ assessed = 0
    /\ spent = [restarts |-> 0, actions |-> 0, messages |-> 0, flips |-> 0, busy |-> 0]

RecordType == [rev : Nat, phase : Phases, stopped : BOOLEAN, package : Packages,
               attempts : 0 .. MaxAttempts, report : Nat, text : BOOLEAN,
               disposition : {"none", "delivered", "no-update"}]

TypeOK ==
    /\ JobTypeOK
    /\ rec \in RecordType /\ tick.rec \in RecordType /\ act.rec \in RecordType
    /\ reserved \in BOOLEAN /\ aborted \in BOOLEAN /\ eligible \in BOOLEAN
    /\ start \in {"idle", "claimed", "saved", "rejected", "requested"}
    /\ posted \in {"no", "memory", "saved"}
    /\ cursor \in 1 .. MaxMessages + 1 /\ assessed \in Nat

Goto(pc) == tick' = [tick EXCEPT !.pc = pc]
TickDone == tick' = TickIdle
ActDone  == act' = ActIdle

\* Mutant: the reservation is released although the patch lost.
CloseAlways(r, disposition) ==
    /\ rec' = Write(r, [r EXCEPT !.phase = "available", !.disposition = disposition])
    /\ reserved' = FALSE

\* patch(record, ...phase available...) and, when it was accepted, release().
Close(r, disposition) ==
    /\ rec' = Write(r, [r EXCEPT !.phase = "available", !.disposition = disposition])
    /\ reserved' = IF Fresh(r) THEN FALSE ELSE reserved

Patch(r, new) == rec' = Write(r, new) /\ UNCHANGED reserved

KeepsJob == UNCHANGED jobVars
KeepsRecord == UNCHANGED <<rec, reserved>>
Quiet == UNCHANGED <<cursor, eligible, spent>>   \* nothing happens outside

-----------------------------------------------------------------------------
(* The admission: admit() of start(). *)

StartUnchanged == UNCHANGED <<tick, act, aborted, posted, assessed>> /\ Quiet

\* canStart and claim follow the lookup of an earlier record without a wait.
Claim ==
    /\ start = "idle" /\ rec.rev = 0 /\ eligible /\ ~reserved
    /\ reserved' = TRUE /\ start' = "claimed"
    /\ KeepsJob /\ UNCHANGED rec /\ StartUnchanged

\* put(record, 0): persisted, or refused (admission capacity, write error).
Admit ==
    /\ start = "claimed"
    /\ \/ /\ rec' = [NoRecord EXCEPT !.rev = 1, !.phase = "queued"]
          /\ start' = "saved" /\ UNCHANGED reserved
       \/ /\ reserved' = FALSE /\ start' = "idle" /\ UNCHANGED rec
    /\ KeepsJob /\ StartUnchanged

\* investigations.request(): created, rejected, or the call throws, which
\* leaves the record to the tick.
Request ==
    /\ start = "saved" /\ KeepsRecord
    /\ \/ /\ authority /\ Create
          /\ OnlyJob
          /\ start' = "requested"
       \/ start' \in {"rejected", "idle"} /\ KeepsJob
    /\ StartUnchanged

\* The rejection is recorded from the record the admission wrote.
Rejected ==
    /\ start = "rejected" /\ start' = "idle"
    /\ Close([NoRecord EXCEPT !.rev = 1, !.phase = "queued"], "no-update")
    /\ KeepsJob /\ StartUnchanged

Queued ==
    /\ start = "requested" /\ start' = "idle" /\ Enqueue
    /\ OnlyJob
    /\ KeepsRecord /\ StartUnchanged

StartStep == Claim \/ Admit \/ Request \/ Rejected \/ Queued

-----------------------------------------------------------------------------
(* The tick, up to the durable return package. *)

TickUnchanged == UNCHANGED <<start, act, aborted, posted, assessed>> /\ Quiet

\* Mutant: a pending report is not taken up again either.
Waiting_pending == {"blocked", "report-pending"}

\* The phases that wait for a human.
Waiting == {"blocked"}

\* The record is listed; one whose report is in the room is closed under the mutex.
List ==
    /\ tick.pc = "idle" /\ ~Admitting /\ Outstanding
    /\ HasDelivered \/ rec.phase \notin Waiting
    /\ tick' = [TickIdle EXCEPT !.pc = IF HasDelivered THEN "recheck" ELSE "job", !.rec = rec]
    /\ KeepsJob /\ KeepsRecord /\ TickUnchanged

\* investigations.list(): the snapshot of the job the package is built from.
ReadJob ==
    /\ tick.pc = "job"
    /\ \/ /\ job.status = "ABSENT"
          /\ Close(tick.rec, "no-update") /\ TickDone
       \/ /\ job.status # "ABSENT" /\ KeepsRecord
          /\ tick' = [tick EXCEPT !.job = job,
                        !.pc = IF tick.rec.package = "absent" THEN "authority" ELSE "return"]
    /\ KeepsJob /\ TickUnchanged

WorkerPhase(j) == IF j.attempts > 0 THEN "busy" ELSE "queued"

\* A revoked job is cancelled, and cancelled once more like any job that still
\* looks nonterminal.
Supervise ==
    /\ tick.pc = "authority"
    /\ IF /\ authority /\ tick.rec.phase # "stopping"
          /\ tick.job.status \in {"REQUESTED", "QUEUED"} \cup Executing
       THEN /\ IF tick.rec.phase = WorkerPhase(tick.job) THEN KeepsRecord
               ELSE Patch(tick.rec, [tick.rec EXCEPT !.phase = WorkerPhase(tick.job)])
            /\ TickDone
       ELSE /\ KeepsRecord
            /\ tick' = IF Nonterminal(tick.job)
                       THEN [tick EXCEPT !.pc = "cancel", !.tries = IF authority THEN 1 ELSE 2]
                       ELSE [tick EXCEPT !.pc = "confirm"]
    /\ KeepsJob /\ TickUnchanged

AfterCancel(n) == IF n > 1 THEN "cancel" ELSE "confirm"

TickCancel ==
    /\ tick.pc = "cancel" /\ KeepsJob
    /\ tick' = IF Nonterminal(job)
               THEN [tick EXCEPT !.pc = "cancelling", !.rev = job.rev]
               ELSE [tick EXCEPT !.pc = AfterCancel(tick.tries), !.tries = @ - 1]
    /\ KeepsRecord /\ TickUnchanged

TickCancelling ==
    /\ tick.pc = "cancelling" /\ CancelAt(tick.rev)
    /\ OnlyJob
    /\ tick' = [tick EXCEPT !.pc = AfterCancel(tick.tries), !.tries = @ - 1]
    /\ KeepsRecord /\ TickUnchanged

\* Mutant: an unconfirmed termination is left for the next tick.
Unconfirmed_silent == KeepsRecord

Unconfirmed == Patch(tick.rec, [tick.rec EXCEPT !.phase = "blocked"])

\* confirmStopped(): known here, or asked of the executor, which may be
\* unreachable and never says "stopped" of an execution that goes on.
Confirm ==
    /\ tick.pc = "confirm"
    /\ \/ /\ KnownStopped \/ executor # "running"
          /\ Goto("package") /\ KeepsRecord
       \/ ~KnownStopped /\ Unconfirmed /\ TickDone
    /\ KeepsJob /\ TickUnchanged

\* The return package, from the listed job and the listed record.
Package ==
    /\ tick.pc = "package"
    /\ Patch(tick.rec, [tick.rec EXCEPT !.phase = "catching-up", !.stopped = TRUE,
                                         !.package = Findings(tick.job)])
    /\ IF Fresh(tick.rec) THEN Goto("return") ELSE TickDone
    /\ KeepsJob /\ TickUnchanged

-----------------------------------------------------------------------------
(* The return to the chat: returnToChat(), run by the job queue. *)

ReturnUnchanged == UNCHANGED <<start, act, posted>> /\ Quiet

\* canStart and returnBlocker together.
MayReturn == authority /\ eligible

EnterReturn ==
    /\ tick.pc = "return"
    /\ IF rec.package = "absent" \/ rec.phase \in {"available", "blocked"} THEN TickDone
       ELSE tick' = [tick EXCEPT !.rec = rec, !.pc = IF HasDelivered THEN "recheck" ELSE "entry"]
    /\ KeepsJob /\ KeepsRecord /\ UNCHANGED <<aborted, assessed>> /\ ReturnUnchanged

AttemptLeft(r) == r.attempts < MaxAttempts

\* Another assessment is counted before it is made.
BeginAssessment ==
    LET next == [tick.rec EXCEPT !.phase = "catching-up", !.report = None, !.text = FALSE,
                                 !.attempts = @ + 1]
    IN /\ Patch(tick.rec, next)
       /\ IF Fresh(tick.rec)
          THEN tick' = [tick EXCEPT !.pc = "run", !.rec = rec'] /\ aborted' = FALSE
          ELSE TickDone /\ UNCHANGED aborted

PrepareReturn ==
    /\ tick.pc = "entry"
    /\ \/ /\ ~MayReturn /\ Patch(tick.rec, [tick.rec EXCEPT !.phase = "blocked"])
          /\ TickDone /\ UNCHANGED aborted
       \/ /\ MayReturn /\ tick.rec.report = cursor
          /\ Goto("final") /\ KeepsRecord /\ UNCHANGED aborted
       \/ /\ MayReturn /\ tick.rec.report # cursor /\ ~AttemptLeft(tick.rec)
          /\ Goto("failed") /\ KeepsRecord /\ UNCHANGED aborted
       \/ /\ MayReturn /\ tick.rec.report # cursor /\ AttemptLeft(tick.rec)
          /\ BeginAssessment
    /\ KeepsJob /\ UNCHANGED assessed /\ ReturnUnchanged

\* runReturn(): generation capacity first, then a provider turn that reads the
\* room as it is now.
RunReturn ==
    /\ tick.pc = "run"
    /\ \/ /\ tick' = [tick EXCEPT !.pc = "running", !.cursor = cursor]
          /\ assessed' = assessed + 1 /\ UNCHANGED spent
       \/ /\ spent.busy < MaxBusy /\ spent' = [spent EXCEPT !.busy = @ + 1]
          /\ Goto("capacity") /\ UNCHANGED assessed
    /\ KeepsJob /\ KeepsRecord
    /\ UNCHANGED <<start, act, posted, aborted, cursor, eligible>>

\* The turn fails, is aborted, or yields a report (with or without text).
Assess ==
    /\ tick.pc = "running"
    /\ \/ Goto("failed")
       \/ /\ ~aborted
          /\ \E text \in BOOLEAN : tick' = [tick EXCEPT !.pc = "reported", !.text = text]
    /\ KeepsJob /\ KeepsRecord /\ UNCHANGED <<aborted, assessed>> /\ ReturnUnchanged

StoreReport ==
    /\ tick.pc = "reported" /\ ~Locked
    /\ Patch(tick.rec, [tick.rec EXCEPT !.phase = "report-pending",
                          !.report = tick.cursor, !.text = tick.text])
    /\ IF Fresh(tick.rec) THEN tick' = [tick EXCEPT !.pc = "final", !.rec = rec'] ELSE TickDone
    /\ KeepsJob /\ UNCHANGED <<aborted, assessed>> /\ ReturnUnchanged

FinalCheck ==
    /\ tick.pc = "final"
    /\ IF tick.rec.report # cursor THEN KeepsRecord /\ TickDone
       ELSE IF MayReturn THEN KeepsRecord /\ Goto("deliver")
       ELSE Patch(tick.rec, [tick.rec EXCEPT !.phase = "blocked"]) /\ TickDone
    /\ KeepsJob /\ UNCHANGED <<aborted, assessed>> /\ ReturnUnchanged

StillPending(r) == rec.rev = r.rev /\ rec.phase = "report-pending" /\ rec.report = cursor

\* Under the mutex: still the same record and the same conversation.  A report
\* with a text is appended to the room in memory; then the room is saved.
Deliver ==
    /\ tick.pc = "deliver" /\ ~Locked
    /\ IF ~StillPending(tick.rec) THEN TickDone /\ UNCHANGED posted
       ELSE IF rec.text
       THEN posted' = "memory" /\ tick' = [tick EXCEPT !.pc = "saving", !.rec = rec]
       ELSE UNCHANGED posted /\ tick' = [tick EXCEPT !.pc = "finish", !.rec = rec]
    /\ KeepsJob /\ KeepsRecord /\ UNCHANGED <<start, act, aborted, assessed>> /\ Quiet

SaveRoom ==
    /\ tick.pc = "saving"
    /\ \/ posted' = "saved" /\ Goto("finish")
       \/ SaveMayFail /\ UNCHANGED posted /\ Goto("failed")                \* JSON file
       \/ SaveMayFail /\ posted = "memory" /\ posted' = "no" /\ Goto("failed")   \* SQLite
    /\ KeepsJob /\ KeepsRecord /\ UNCHANGED <<start, act, aborted, assessed>> /\ Quiet

\* A report that is already in the room only has to be acknowledged.
Recheck ==
    /\ tick.pc = "recheck" /\ ~Locked
    /\ IF rec.phase = "available" THEN TickDone
       ELSE tick' = [tick EXCEPT !.pc = "finish", !.rec = rec]
    /\ KeepsJob /\ KeepsRecord /\ UNCHANGED <<aborted, assessed>> /\ ReturnUnchanged

\* finish(): the inbox first, then the record; a return without an update still
\* depends on the conversation.
FinishInbox ==
    /\ tick.pc = "finish" /\ Goto("acknowledged") /\ Acknowledge
    /\ OnlyJob
    /\ KeepsRecord /\ UNCHANGED <<aborted, assessed>> /\ ReturnUnchanged

FinishReturn ==
    /\ tick.pc = "acknowledged" /\ TickDone
    /\ IF HasDelivered THEN Close(tick.rec, "delivered")
       ELSE IF tick.rec.report = cursor THEN Close(tick.rec, "no-update")
       ELSE KeepsRecord
    /\ KeepsJob /\ UNCHANGED <<aborted, assessed>> /\ ReturnUnchanged

\* Mutant: every failure gives the attempt back.
AfterFailure_refund(reason) ==
    [rec EXCEPT !.phase = "catching-up", !.attempts = IF @ = 0 THEN 0 ELSE @ - 1]

\* Waiting for capacity gives the attempt back; otherwise the last attempt (or
\* none made) blocks, and before it another one may follow.
AfterFailure(reason) ==
    IF reason = "capacity"
    THEN [rec EXCEPT !.phase = "catching-up", !.attempts = IF @ = 0 THEN 0 ELSE @ - 1]
    ELSE [rec EXCEPT !.phase = IF rec.attempts \in 1 .. MaxAttempts - 1
                               THEN "catching-up" ELSE "blocked"]

\* The catch of the return.
ReturnFails ==
    /\ tick.pc \in {"failed", "capacity"} /\ ~Locked /\ TickDone
    /\ IF rec.phase = "available" THEN KeepsRecord ELSE Patch(rec, AfterFailure(tick.pc))
    /\ KeepsJob /\ UNCHANGED <<aborted, assessed>> /\ ReturnUnchanged

TickStep ==
    \/ List \/ ReadJob \/ Supervise \/ TickCancel \/ TickCancelling \/ Confirm \/ Package
    \/ EnterReturn \/ PrepareReturn \/ RunReturn \/ Assess \/ StoreReport \/ FinalCheck
    \/ Deliver \/ SaveRoom \/ Recheck \/ FinishInbox \/ FinishReturn \/ ReturnFails

-----------------------------------------------------------------------------
(* Human actions, one at a time under the mutex: applyAction(). *)

ActUnchanged == UNCHANGED <<start, tick, cursor, posted, eligible>>

\* stop, dismiss and retry-return, as the record read under the mutex allows.
\* A dismissal aborts the turn of a return that is under way.
BeginStop ==
    /\ ~rec.stopped /\ rec.phase # "stopping" /\ KeepsRecord
    /\ act' = [ActIdle EXCEPT !.pc = "stop", !.rec = rec]
    /\ UNCHANGED <<aborted, assessed>>

Dismiss ==
    /\ rec.stopped /\ KeepsRecord
    /\ aborted' = (aborted \/ tick.pc \in {"run", "running"})
    /\ act' = [ActIdle EXCEPT !.pc = "finish", !.rec = rec, !.disposition = "no-update"]
    /\ UNCHANGED assessed

\* A retry while catching up only records its receipt, which is a write too.
Retry ==
    /\ rec.stopped /\ UNCHANGED <<act, aborted>>
    /\ \/ /\ rec.phase = "catching-up" /\ Patch(rec, rec) /\ UNCHANGED assessed
       \/ /\ rec.phase = "blocked" /\ rec.package # "absent"
          /\ Patch(rec, [rec EXCEPT !.phase = "catching-up", !.attempts = 0])
          /\ assessed' = 0

BeginAction ==
    /\ Outstanding /\ ~Locked /\ spent.actions < MaxActions
    /\ spent' = [spent EXCEPT !.actions = @ + 1]
    /\ IF HasDelivered
       THEN /\ act' = [ActIdle EXCEPT !.pc = "finish", !.rec = rec, !.disposition = "delivered"]
            /\ KeepsRecord /\ UNCHANGED <<aborted, assessed>>
       ELSE BeginStop \/ Dismiss \/ Retry
    /\ KeepsJob /\ ActUnchanged

\* The stop goes on to cancel the job whether or not its patch was accepted.
Stop ==
    /\ act.pc = "stop" /\ act' = [act EXCEPT !.pc = "cancel"]
    /\ Patch(act.rec, [act.rec EXCEPT !.phase = "stopping"])
    /\ KeepsJob /\ ActUnchanged /\ UNCHANGED <<aborted, assessed, spent>>

StopCancel ==
    /\ act.pc = "cancel" /\ KeepsJob
    /\ act' = IF Nonterminal(job) THEN [act EXCEPT !.pc = "cancelling", !.rev = job.rev]
              ELSE ActIdle
    /\ KeepsRecord /\ ActUnchanged /\ UNCHANGED <<aborted, assessed, spent>>

StopCancelling ==
    /\ act.pc = "cancelling" /\ CancelAt(act.rev) /\ ActDone
    /\ OnlyJob
    /\ KeepsRecord /\ ActUnchanged /\ UNCHANGED <<aborted, assessed, spent>>

ActInbox ==
    /\ act.pc = "finish" /\ act' = [act EXCEPT !.pc = "acknowledged"] /\ Acknowledge
    /\ OnlyJob
    /\ KeepsRecord /\ ActUnchanged /\ UNCHANGED <<aborted, assessed, spent>>

ActFinish ==
    /\ act.pc = "acknowledged" /\ ActDone
    /\ Close(act.rec, act.disposition)
    /\ KeepsJob /\ ActUnchanged /\ UNCHANGED <<aborted, assessed, spent>>

ActStep == Stop \/ StopCancel \/ StopCancelling \/ ActInbox \/ ActFinish

-----------------------------------------------------------------------------
(* What happens outside these activities. *)

\* A message, a topic or a roster change moves the conversation on; saving it
\* saves the whole room, a report that is only in memory included.
Message ==
    /\ spent.messages < MaxMessages /\ spent' = [spent EXCEPT !.messages = @ + 1]
    /\ cursor' = cursor + 1
    /\ posted' = IF posted = "memory" THEN "saved" ELSE posted
    /\ KeepsJob /\ KeepsRecord
    /\ UNCHANGED <<start, tick, act, aborted, eligible, assessed>>

\* Authority is revoked or comes back (policy, roster epoch, emergency stop);
\* the participant becomes ineligible or eligible.
Flip ==
    /\ spent.flips < MaxFlips /\ spent' = [spent EXCEPT !.flips = @ + 1]
    /\ \/ authority' = ~authority /\ UNCHANGED eligible
       \/ eligible' = ~eligible /\ UNCHANGED authority
    /\ UNCHANGED <<job, dispatch, executor, finished, reports>> /\ KeepsRecord
    /\ UNCHANGED <<start, tick, act, aborted, cursor, posted, assessed>>

\* cancelAll() of a policy change reaches the job.
CancelAll ==
    /\ ~authority /\ Nonterminal(job) /\ CancelAt(job.rev)
    /\ OnlyJob
    /\ UNCHANGED workVars

\* Mutant: a blocked work is taken for one that ended.
Restored_blocked == rec.phase \notin {"none", "available", "blocked"}

\* The reservation is restored from the ledger before anything can be dispatched.
Restored == Outstanding

\* A crash, or a stop that was asked for, and the start that follows.
Restart ==
    /\ spent.restarts < MaxRestarts /\ spent' = [spent EXCEPT !.restarts = @ + 1]
    /\ JobRestart
    /\ reserved' = Restored
    /\ start' = "idle" /\ tick' = TickIdle /\ act' = ActIdle /\ aborted' = FALSE
    /\ posted' = IF posted = "memory" THEN "no" ELSE posted
    /\ UNCHANGED <<rec, cursor, eligible, assessed>>

Worker == RunStep /\ UNCHANGED workVars

Next == \/ StartStep \/ TickStep \/ BeginAction \/ ActStep \/ Worker
        \/ Message \/ Flip \/ CancelAll \/ Restart

Spec == Init /\ [][Next]_vars

\* The timer keeps ticking, started work is carried on, the pump dispatches, the
\* time budget ends a dispatch and an abandoned execution comes to its end.
FairSpec ==
    /\ Spec
    /\ WF_vars(StartStep) /\ WF_vars(TickStep) /\ WF_vars(ActStep)
    /\ WF_vars(Dispatch /\ UNCHANGED workVars)
    /\ WF_vars((Answer \/ DispatchFails) /\ UNCHANGED workVars)
    /\ WF_vars(Settle /\ UNCHANGED workVars)
    /\ WF_vars(ExecutorStops /\ UNCHANGED workVars)

-----------------------------------------------------------------------------
(* Properties. *)

\* While the executor may be working, the work is outstanding, its participant
\* is withheld from the room and no return package exists, across restarts,
\* failed dispatches and an executor that cannot be reached.
WorkerFenced ==
    executor = "running" => Outstanding /\ reserved /\ rec.package = "absent"

\* The participant is withheld exactly while the work is outstanding or is being
\* admitted: no exit, lost race or restart leaks the reservation or gives it up early.
ReservationExact == reserved <=> Outstanding \/ start = "claimed"

\* The disposition tells the truth: a work closed as delivered has its report in
\* the room, and one closed without an update never gets one.
DispositionTruthful ==
    rec.phase = "available" => (rec.disposition = "delivered" <=> HasDelivered)

\* Between two accepted retries no more than MaxAttempts assessments are run,
\* whatever the conversation, capacity, actions and restarts do.
AssessmentsBounded == assessed <= MaxAttempts

\* Nothing late undoes an end: a closed record does not change any more, and a
\* confirmed stop keeps its package.
NothingUndone ==
    [][/\ rec.phase = "available" => rec' = rec
       /\ rec.stopped => rec'.stopped /\ rec'.package = rec.package]_vars

\* Where the participant is, as the room sees it.
Stage ==
    IF rec.rev = 0 THEN IF start = "claimed" THEN "leaving" ELSE "here"
    ELSE IF rec.phase = "available" THEN "back"
    ELSE IF rec.stopped THEN "stopped" ELSE "away"

Absence == INSTANCE ParticipantAbsence
             WITH stage <- Stage, withheld <- reserved, report <- posted,
                  outcome <- rec.disposition

\* Protected work keeps the promise of ParticipantAbsence: one departure, one
\* report at most and only after a confirmed stop, one return whose disposition
\* agrees with the room.
AbsenceKept == Absence!Spec

\* A stop the ledger accepted ends in a confirmed stop, an unconfirmed one that
\* is shown as blocked, or a closed work.
StopAnswered ==
    rec.phase = "stopping" ~> rec.stopped \/ rec.phase \in {"blocked", "available"}

\* A return package is delivered, closed without an update, or shown as blocked.
ReturnEnds == rec.stopped ~> rec.phase \in {"blocked", "available"}

\* Catching up with a report for the conversation as it is: nothing is assessed
\* again, and only a pending report is delivered.
Stranded == rec.phase = "catching-up" /\ rec.report = cursor

\* Whatever authority, eligibility, capacity, messages, retries and restarts do, a
\* return package is delivered, closed without an update or shown as blocked,
\* except one that is stranded: a report that was blocked before its delivery and
\* retried stays until the conversation moves, and moving it is enough.
ReturnEndsUnlessStranded ==
    rec.stopped ~> rec.phase \in {"blocked", "available"} \/ Stranded

=============================================================================
