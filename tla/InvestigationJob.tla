-------------------------- MODULE InvestigationJob --------------------------
(***************************************************************************)
(* The bounded investigation that carries out one piece of protected work: *)
(* server/investigation-service.ts over server/investigation-store.ts.     *)
(* The job record is durable and every transition of it is a compare-and-  *)
(* set on its revision.  The run of the job (the awaited dispatch and the  *)
(* set of finished dispatches) lives in memory and is lost by a restart.   *)
(* The executor is another program: a dispatch that fails or is aborted    *)
(* here may go on running there.                                           *)
(*                                                                         *)
(* A protected job is never resumed, so it is dispatched at most once.     *)
(* Dispatch is one step with the transition to RUNNING: nothing else runs  *)
(* between the two in the server, and a crash between them looks to every  *)
(* other part like a dispatch whose executor stopped at once.              *)
(***************************************************************************)
EXTENDS Naturals

CONSTANTS RetryLimit,      \* attempts after the first that keep a checkpoint
          MaxProgress      \* bound on progress reports of an execution

ASSUME InvestigationAssumption == RetryLimit \in Nat /\ MaxProgress \in Nat

VARIABLES job,        \* the durable record
          dispatch,   \* the server's side of the run: "none", "out", "answered"
          executor,   \* the other program: "never", "running", "stopped"
          finished,   \* finishedDispatches holds the job
          authority,  \* revalidate() finds policy, scope and epoch unchanged
          reports     \* progress reports made so far (bounded)

jobVars == <<job, dispatch, executor, finished, authority, reports>>
OnlyJob == UNCHANGED <<dispatch, executor, finished, authority, reports>>

Executing  == {"RUNNING", "WAITING_TOOL"}
NonterminalStatuses == {"REQUESTED", "QUEUED", "CHECKPOINTED", "BLOCKED"} \cup Executing
Statuses == NonterminalStatuses \cup
            {"ABSENT", "COMPLETED", "FAILED", "CANCELLED", "ACKNOWLEDGED"}

NoJob == [rev |-> 0, status |-> "ABSENT", attempts |-> 0,
          checkpoint |-> FALSE, result |-> FALSE]

Nonterminal(j) == j.status \in NonterminalStatuses

\* transition(): the record one revision further.
To(j, status) == [j EXCEPT !.status = status, !.rev = @ + 1]
Moved(status) == To(job, status)

JobTypeOK ==
    /\ job \in [rev : Nat, status : Statuses, attempts : Nat,
                checkpoint : BOOLEAN, result : BOOLEAN]
    /\ dispatch \in {"none", "out", "answered"}
    /\ executor \in {"never", "running", "stopped"}
    /\ finished \in BOOLEAN /\ authority \in BOOLEAN
    /\ reports \in 0 .. MaxProgress

JobInit ==
    /\ job = NoJob /\ dispatch = "none" /\ executor = "never"
    /\ finished = FALSE /\ authority = TRUE /\ reports = 0

-----------------------------------------------------------------------------
(* Requests and cancellation, called by the protected-work service. *)

Create == job' = [NoJob EXCEPT !.rev = 1, !.status = "REQUESTED"]

\* The queue transition of request() starts from the record it created.
Enqueue == job' = IF job.rev = 1 THEN Moved("QUEUED") ELSE job

\* cancel() reads the record, waits, and then compares and sets.
CancelAt(rev) == job' = IF job.rev = rev THEN Moved("CANCELLED") ELSE job

\* acknowledge(entry, close) of the job's inbox entry.
Acknowledge == job' = IF job.status = "COMPLETED" THEN Moved("ACKNOWLEDGED") ELSE job

\* Mutant: a cancelled job counts as stopped.
CancelledIsStopped ==
    \/ finished
    \/ job.status \in {"COMPLETED", "ACKNOWLEDGED", "CANCELLED"}
    \/ job.attempts = 0

\* What confirmStopped() knows without asking the executor.
KnownStopped ==
    \/ finished
    \/ job.status \in {"COMPLETED", "ACKNOWLEDGED"}
    \/ job.attempts = 0

-----------------------------------------------------------------------------
(* The run of the job. *)

Dispatch ==
    /\ job.status = "QUEUED" /\ dispatch = "none"
    /\ \/ /\ authority
          /\ job' = [Moved("RUNNING") EXCEPT !.attempts = @ + 1]
          /\ dispatch' = "out" /\ executor' = "running" /\ finished' = FALSE
       \/ /\ ~authority
          /\ job' = Moved("CANCELLED")
          /\ UNCHANGED <<dispatch, executor, finished>>
    /\ UNCHANGED <<authority, reports>>

Progress ==
    /\ dispatch = "out" /\ executor = "running" /\ reports < MaxProgress
    /\ job.status \in Executing
    /\ IF authority
       THEN \E saved \in BOOLEAN :
              job' = [Moved(IF job.status = "RUNNING" THEN "WAITING_TOOL" ELSE "RUNNING")
                        EXCEPT !.checkpoint = @ \/ saved]
       ELSE job' = Moved("CANCELLED")
    /\ reports' = reports + 1
    /\ UNCHANGED <<dispatch, executor, finished, authority>>

\* The executor's answer arrives; the job is settled later, from a fresh read.
Answer ==
    /\ dispatch = "out" /\ executor = "running"
    /\ dispatch' = "answered" /\ executor' = "stopped" /\ finished' = TRUE
    /\ UNCHANGED <<job, authority, reports>>

Settle ==
    /\ dispatch = "answered" /\ dispatch' = "none"
    /\ \/ job.status \notin Executing /\ UNCHANGED job
       \/ job.status \in Executing /\ ~authority /\ job' = Moved("CANCELLED")
       \/ /\ job.status \in Executing /\ authority
          /\ \/ job' = [Moved("COMPLETED") EXCEPT !.result = TRUE]
             \/ job' = Moved("FAILED")
    /\ UNCHANGED <<executor, finished, authority, reports>>

\* The awaited call throws: on the time budget, on a network error, or because
\* a cancellation aborted it (the job is then no longer executing).
DispatchFails ==
    /\ dispatch = "out" /\ dispatch' = "none"
    /\ \/ job.status \notin Executing /\ UNCHANGED job
       \/ /\ job.status \in Executing
          /\ \/ job' = Moved("FAILED")
             \/ job' = Moved(IF job.checkpoint /\ job.attempts <= RetryLimit
                             THEN "CHECKPOINTED" ELSE "BLOCKED")
    /\ UNCHANGED <<executor, finished, authority, reports>>

\* An execution nobody waits for comes to its end.
ExecutorStops ==
    /\ executor = "running" /\ dispatch # "out"
    /\ executor' = "stopped"
    /\ UNCHANGED <<job, dispatch, finished, authority, reports>>

\* reconcile() after a restart: an execution that was under way is not assumed
\* to be running, and what the current policy no longer covers is cancelled.
Reconciled(j) ==
    IF j.status \in Executing THEN To(j, IF j.checkpoint THEN "CHECKPOINTED" ELSE "BLOCKED")
    ELSE IF Nonterminal(j) /\ ~authority THEN To(j, "CANCELLED")
    ELSE j

\* shutdown() of a stop that was asked for keeps a checkpoint and cancels the rest.
ShutDown(j) ==
    IF j.status \in Executing /\ j.checkpoint THEN To(j, "CHECKPOINTED")
    ELSE IF j.status \in {"REQUESTED", "QUEUED"} \cup Executing THEN To(j, "CANCELLED")
    ELSE j

\* Both come back with an empty memory; the other program is not affected.
JobRestart ==
    /\ job' \in {Reconciled(job), Reconciled(ShutDown(job))}
    /\ dispatch' = "none" /\ finished' = FALSE
    /\ UNCHANGED <<executor, authority, reports>>

RunStep == Dispatch \/ Progress \/ Answer \/ Settle \/ DispatchFails \/ ExecutorStops
=============================================================================
