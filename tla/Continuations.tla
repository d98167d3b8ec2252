--------------------------- MODULE Continuations ---------------------------
(***************************************************************************)
(* Durable continuations: background work of an agent under its writer     *)
(* assignment, one unfinished job per agent, dispatched to an executor,    *)
(* fenced by revalidation and by compare-and-set, with its result in the   *)
(* inbox of the agent (server/continuation-service.ts, the continuation    *)
(* records of server/room-store.ts).                                       *)
(*                                                                         *)
(* A call reads a record, revalidates it and proposes its successor in one *)
(* step, and the store takes or refuses the proposal in a later one: what  *)
(* happens in between makes the compare-and-set fail.  Every proposal      *)
(* follows the table of transitions for the status it has read.            *)
(***************************************************************************)
EXTENDS AssignmentLifecycle, Sequences, SequencesExt

CONSTANTS
    JobCount,     \* continuations, numbered in the order of their creation
    RetryLimit,   \* retryLimit of the budget
    InboxLimit,   \* maxInboxEntriesPerAgent
    MaxEvents     \* bound: worktree changes, revocations and their end, policy changes,
                  \* stops and their end, progress calls, restarts, and requests to
                  \* resume, to cancel, to close or archive an entry, to cancel or
                  \* dispose an assignment

Jobs == 1..JobCount

ASSUME ContinuationAssumption ==
    /\ {JobCount, RetryLimit, MaxEvents} \subseteq Nat
    /\ InboxLimit \in Nat \ {0}

VARIABLES
    job,       \* job[j]: the stored record of j
    inbox,     \* inbox[a]: jobs with an open entry in the inbox of a, oldest first
    policy,    \* [revision, enabled] of the continuation policy
    stopped,   \* the emergency stop of the heartbeat is active
    run,       \* run[j]: where run(j) stands in this process
    writes,    \* proposals that the store has yet to take
    sweep,     \* cancelAll has yet to read the records
    closing,   \* jobs whose entry is closed and that acknowledgeJob has yet to close
    restarts,  \* history: restarts so far
    fenced,    \* history: jobs dispatched after their authority was gone, and to
               \* which it has not come back since
    crossed,   \* history: jobs whose executor settled with a progress call in
               \* flight, and jobs that a restart has found QUEUED
    events     \* bound: what the environment has done so far

records  == <<job, inbox>>
control  == <<policy, stopped>>
process  == <<run, writes, sweep, closing>>
history  == <<restarts, fenced, crossed>>
vars     == <<assignmentVars, records, control, process, history, events>>

Nonterminal == {"QUEUED", "RUNNING", "WAITING_TOOL", "BLOCKED"}
Live        == {"RUNNING", "WAITING_TOOL"}
Settled     == {"COMPLETED", "FAILED", "CANCELLED"}

Record(s, p, status, rev) ==
    [status |-> status, rev |-> rev, attempts |-> 0, policy |-> p,
     assignment |-> s, disposition |-> "PENDING"]

Init ==
    /\ AssignmentInit
    /\ job = [j \in Jobs |-> Record(NoAssignment, 0, "ABSENT", 0)]
    /\ inbox = [a \in Agents |-> <<>>]
    /\ policy = [revision |-> 1, enabled |-> TRUE]
    /\ stopped = FALSE
    /\ run = [j \in Jobs |-> "none"]
    /\ writes = {} /\ sweep = FALSE /\ closing = {}
    /\ restarts = 0 /\ fenced = {} /\ crossed = {} /\ events = 0

Happens == events < MaxEvents /\ events' = events + 1
Owner(r) == Agent[r.assignment]
---------------------------------------------------------------------------
(* revalidate: the policy and the stop first, then the assignment. *)
PolicyHolds(r) == policy.enabled /\ policy.revision = r.policy /\ ~stopped
Governs(r) == PolicyHolds(r) /\ governed[r.assignment]
Revalidate(r, ok) ==
    IF PolicyHolds(r) THEN Reconcile /\ ok = Authority(r.assignment)
                      ELSE UNCHANGED assignmentVars /\ ok = FALSE

(* The record of j after a transition. *)
To(j, status) == [job[j] EXCEPT !.status = status, !.rev = @ + 1]
Closed(j, status) == [To(j, status) EXCEPT !.disposition = "CLOSED"]
Cancelled(j) == Closed(j, "CANCELLED")

(* A proposal; run(j) goes on at "then" when it is accepted. *)
Write(by, j, record, then) == [by |-> by, job |-> j, record |-> record, then |-> then]
Propose(w) == writes' = writes \cup {w}
InFlight(by, j) == \E w \in writes : w.by = by /\ w.job = j
RunGoes(j, at) == run' = [run EXCEPT ![j] = at]

(* create and createFromRoom *)
Create(j) ==
    /\ job[j].status = "ABSENT" /\ ~InFlight("create", j)
    /\ \A k \in 1..(j - 1) : job[k].status # "ABSENT" \/ InFlight("create", k)
    /\ \E s \in Assignments :
          LET r == Record(s, policy.revision, "QUEUED", 1)
          IN  /\ Revalidate(r, TRUE)
              /\ Propose(Write("create", j, r, "scheduled"))
    /\ UNCHANGED <<records, control, run, sweep, closing, history, events>>

(* runLifecycle before the dispatch *)
Start(j) ==
    /\ run[j] = "scheduled"
    /\ IF job[j].status # "QUEUED"
       THEN RunGoes(j, "none") /\ UNCHANGED <<assignmentVars, writes>>
       ELSE \E ok \in BOOLEAN :
               /\ Revalidate(job[j], ok)
               /\ Propose(IF ok THEN Write("run", j, [To(j, "RUNNING") EXCEPT !.attempts = @ + 1], "executing")
                                ELSE Write("run", j, Cancelled(j), "none"))
               /\ RunGoes(j, "writing")
    /\ UNCHANGED <<records, control, sweep, closing, history, events>>

(* An attempt that follows others may find the time of the job used up.  It *)
(* fails the record that it claimed: had that changed since, the store      *)
(* would refuse the write.                                                  *)
OutOfTime(j) ==
    /\ run[j] = "spent"
    /\ IF job[j].status = "RUNNING"
       THEN Propose(Write("run", j, Closed(j, "FAILED"), "none")) /\ RunGoes(j, "writing")
       ELSE RunGoes(j, "none") /\ UNCHANGED writes
    /\ UNCHANGED <<assignmentVars, records, control, sweep, closing, history, events>>

(* dispatch: the executor answers within its budget or not, or throws, or *)
(* the timer aborts it; one that was aborted by a cancellation is dropped. *)
Settles(j) ==
    /\ run[j] \in {"executing", "aborted"}
    /\ \E outcome \in {"returned", "over", "threw", "timeout"} :
          RunGoes(j, IF run[j] = "aborted" THEN "none" ELSE outcome)
    /\ crossed' = IF InFlight("progress", j) THEN crossed \cup {j} ELSE crossed
    /\ UNCHANGED <<assignmentVars, records, control, writes, sweep, closing, restarts, fenced, events>>

(* What runLifecycle makes of the outcome. *)
\* Mutant: the authority is not looked at again after the dispatch.
Verdict_trusted(j, ok) ==
    CASE run[j] = "returned" -> [To(j, "COMPLETED") EXCEPT !.disposition = "INBOX"]
      [] run[j] = "threw" /\ job[j].attempts <= RetryLimit -> To(j, "BLOCKED")
      [] OTHER -> Closed(j, "FAILED")
Verdict(j, ok) ==
    IF ~ok THEN Cancelled(j)
    ELSE CASE run[j] = "returned" -> [To(j, "COMPLETED") EXCEPT !.disposition = "INBOX"]
           [] run[j] = "threw" /\ job[j].attempts <= RetryLimit -> To(j, "BLOCKED")
           [] OTHER -> Closed(j, "FAILED")

(* runLifecycle after the dispatch: an answer first ends the tool wait. *)
Finish(j) ==
    /\ run[j] \in {"returned", "over", "threw", "timeout"}
    /\ IF job[j].status \notin Live
       THEN RunGoes(j, "none") /\ UNCHANGED <<assignmentVars, writes>>
       ELSE \E ok \in BOOLEAN :
               /\ Revalidate(job[j], ok)
               /\ Propose(IF ok /\ job[j].status = "WAITING_TOOL" /\ run[j] \in {"returned", "over"}
                          THEN Write("run", j, To(j, "RUNNING"), run[j])
                          ELSE Write("run", j, Verdict(j, ok), "none"))
               /\ RunGoes(j, "writing")
    /\ UNCHANGED <<records, control, sweep, closing, history, events>>

(* executorProgress, called by the executor of the current attempt *)
Progress(j) ==
    /\ Happens
    /\ run[j] = "executing" /\ job[j].status \in Live /\ ~InFlight("progress", j)
    /\ \E ok \in BOOLEAN :
          /\ Revalidate(job[j], ok)
          /\ Propose(Write("progress", j,
                IF ~ok THEN Cancelled(j)
                ELSE To(j, IF job[j].status = "RUNNING" THEN "WAITING_TOOL" ELSE "RUNNING"), "none"))
    /\ UNCHANGED <<records, control, run, sweep, closing, history>>

\* Mutant: a job that is resumed is queued and never run.
Resume_parked(j) ==
    /\ Happens
    /\ job[j].status = "BLOCKED" /\ ~InFlight("resume", j)
    /\ \E ok \in BOOLEAN :
          /\ Revalidate(job[j], ok)
          /\ Propose(Write("resume", j, IF ok THEN To(j, "QUEUED") ELSE Cancelled(j), "none"))
    /\ UNCHANGED <<records, control, run, sweep, closing, history>>
Resume(j) ==
    /\ Happens
    /\ job[j].status = "BLOCKED" /\ ~InFlight("resume", j)
    /\ \E ok \in BOOLEAN :
          /\ Revalidate(job[j], ok)
          /\ Propose(Write("resume", j, IF ok THEN To(j, "QUEUED") ELSE Cancelled(j),
                           IF ok THEN "scheduled" ELSE "none"))
    /\ UNCHANGED <<records, control, run, sweep, closing, history>>
---------------------------------------------------------------------------
(* hasActiveOwner *)
HasActiveOwner(j, r) ==
    \E k \in Jobs \ {j} : job[k].status \in Nonterminal /\ Owner(job[k]) = Owner(r)

Accepted(w) ==
    /\ job[w.job].rev + 1 = w.record.rev
    /\ w.record.status \in Nonterminal => ~HasActiveOwner(w.job, w.record)

(* What a call other than run(j) does to run(j) once its write is accepted. *)
\* Mutant: a cancellation leaves the executor alone.
After_unaborted(w) == IF w.then = "scheduled" THEN "scheduled" ELSE run[w.job]
After(w) ==
    IF w.then = "scheduled" THEN "scheduled"
    ELSE IF w.record.status = "CANCELLED" /\ run[w.job] = "executing" THEN "aborted"
    ELSE run[w.job]

(* completeContinuation stores the entry of j, and archives the oldest one *)
(* with its job when there are too many.                                   *)
Archived(r) == [r EXCEPT !.rev = @ + 1, !.disposition = "ARCHIVED"]
\* Mutant: the job of the archived entry is left as it was.
Land_kept(j, r) ==
    LET entries == Append(inbox[Owner(r)], j)
    IN  /\ inbox' = [inbox EXCEPT ![Owner(r)] = IF Len(entries) > InboxLimit THEN Tail(entries) ELSE entries]
        /\ job' = [job EXCEPT ![j] = r]
Land(j, r) ==
    LET entries == Append(inbox[Owner(r)], j)
        full    == Len(entries) > InboxLimit
    IN  /\ inbox' = [inbox EXCEPT ![Owner(r)] = IF full THEN Tail(entries) ELSE entries]
        /\ job' = [k \in Jobs |-> IF k = j THEN r
                                   ELSE IF full /\ k = Head(entries) THEN Archived(job[k])
                                   ELSE job[k]]

(* A compare-and-set of the store, and what its caller does with the result. *)
Commit(w) ==
    /\ w \in writes
    /\ writes' = writes \ {w}
    /\ IF ~Accepted(w)
       THEN UNCHANGED <<records, fenced>>
       ELSE /\ IF w.record.status = "COMPLETED"
               THEN Land(w.job, w.record)
               ELSE job' = [job EXCEPT ![w.job] = w.record] /\ UNCHANGED inbox
            /\ fenced' = IF w.then # "executing" THEN fenced
                         ELSE IF Governs(w.record) THEN fenced \ {w.job} ELSE fenced \cup {w.job}
    /\ \E spent \in BOOLEAN :
          /\ spent => w.then = "executing" /\ w.record.attempts > 1
          /\ RunGoes(w.job, CASE w.by = "run" /\ Accepted(w)  -> IF spent THEN "spent" ELSE w.then
                              [] w.by = "run" /\ ~Accepted(w) -> "none"
                              [] w.by # "run" /\ Accepted(w)  -> After(w)
                              [] OTHER                        -> run[w.job])
    /\ UNCHANGED <<assignmentVars, control, sweep, closing, restarts, crossed, events>>

(* cancel reads and writes again until its write is accepted. *)
Cancel(j) ==
    /\ Happens
    /\ job[j].status \in Nonterminal
    /\ job' = [job EXCEPT ![j] = Cancelled(j)]
    /\ run' = [run EXCEPT ![j] = IF @ = "executing" THEN "aborted" ELSE @]
    /\ UNCHANGED <<assignmentVars, inbox, control, writes, sweep, closing, history>>

(* A new policy, or the emergency stop: each is followed by cancelAll. *)
UpdatePolicy ==
    /\ Happens
    /\ \E enabled \in BOOLEAN : policy' = [revision |-> policy.revision + 1, enabled |-> enabled]
    /\ sweep' = TRUE
    /\ UNCHANGED <<assignmentVars, records, stopped, run, writes, closing, history>>

EmergencyStop ==
    /\ Happens
    /\ ~stopped /\ stopped' = TRUE
    /\ sweep' = TRUE
    /\ UNCHANGED <<assignmentVars, records, policy, run, writes, closing, history>>

(* Authority comes back: no record is looked at, and a job that was        *)
(* dispatched without it goes on with it.  Authorising the heartbeat again *)
(* ends the emergency stop, without a sweep and without a new policy.      *)
FencesFall == fenced' = {j \in fenced : ~Governs(job[j])'}

Authorize ==
    /\ Happens
    /\ stopped /\ stopped' = FALSE
    /\ UNCHANGED <<assignmentVars, records, policy, process, restarts, crossed>>
    /\ FencesFall

ReinstateAssignment ==
    /\ Happens
    /\ \E s \in Assignments : Reinstate(s)
    /\ UNCHANGED <<records, control, process, restarts, crossed>>
    /\ FencesFall

(* cancelAll; a write that loses is not repeated. *)
CancelAll ==
    /\ sweep /\ sweep' = FALSE
    /\ writes' = writes \cup {Write("stop", j, Cancelled(j), "none") :
                                 j \in {k \in Jobs : job[k].status \in Nonterminal}}
    /\ UNCHANGED <<assignmentVars, records, control, run, closing, history, events>>

(* The open entry of j leaves its inbox. *)
EntryLeaves(j) ==
    \E a \in Agents : \E i \in DOMAIN inbox[a] :
        inbox[a][i] = j /\ inbox' = [inbox EXCEPT ![a] = RemoveAt(@, i)]

(* acknowledgeInbox with close, and the job after it *)
CloseEntry(j) ==
    /\ Happens
    /\ EntryLeaves(j)
    /\ closing' = closing \cup {j}
    /\ UNCHANGED <<assignmentVars, job, control, run, writes, sweep, history>>

AcknowledgeJob(j) ==
    /\ j \in closing /\ closing' = closing \ {j}
    /\ job' = [job EXCEPT ![j] = IF @.status \in Settled THEN Closed(j, "ACKNOWLEDGED") ELSE @]
    /\ UNCHANGED <<assignmentVars, inbox, control, run, writes, sweep, history, events>>

(* archiveExpired *)
ArchiveExpired(j) ==
    /\ Happens
    /\ EntryLeaves(j)
    /\ job' = [job EXCEPT ![j] = Archived(@)]
    /\ UNCHANGED <<assignmentVars, control, process, history>>

(* The process dies; the next one reconciles its records before it serves. *)
Recovered(j) ==
    CASE job[j].status \in Live -> To(j, "BLOCKED")
      [] job[j].status \in {"QUEUED", "BLOCKED"} /\ ~(PolicyHolds(job[j]) /\ Authority(job[j].assignment)) -> Cancelled(j)
      [] OTHER -> job[j]
Restart ==
    /\ Happens
    /\ job' = [j \in Jobs |-> Recovered(j)]
    /\ Reconciled /\ mutating' = NoAssignment
    /\ run' = [j \in Jobs |-> "none"]
    /\ writes' = {} /\ sweep' = FALSE /\ closing' = {}
    /\ restarts' = restarts + 1
    /\ crossed' = crossed \cup {j \in Jobs : job[j].status = "QUEUED"}
    /\ UNCHANGED <<worktree, governed, inbox, control, fenced>>
---------------------------------------------------------------------------
Assignment ==
    /\ \/ (Reconcile \/ PutAssignment \/ \E s \in Assignments : AddWorktree(s)) /\ UNCHANGED events
       \/ Happens /\ \E s \in Assignments : CancelAssignment(s) \/ RemoveWorktree(s) \/ Touch(s) \/ Revoke(s)
    /\ UNCHANGED <<records, control, process, history>>

Next ==
    \/ Assignment \/ ReinstateAssignment \/ UpdatePolicy
    \/ EmergencyStop \/ Authorize \/ CancelAll \/ Restart
    \/ \E j \in Jobs : \/ Create(j) \/ Start(j) \/ OutOfTime(j) \/ Settles(j) \/ Finish(j)
                       \/ Progress(j) \/ Resume(j) \/ Cancel(j)
                       \/ CloseEntry(j) \/ AcknowledgeJob(j) \/ ArchiveExpired(j)
    \/ \E w \in writes : Commit(w)

(* A call goes on, the store answers, and the timer ends every dispatch. *)
Fairness ==
    /\ WF_vars(Assignment /\ PutAssignment)
    /\ \A j \in Jobs : WF_vars(Start(j) \/ OutOfTime(j) \/ Settles(j) \/ Finish(j))
    /\ \A j \in Jobs : WF_vars(\E w \in writes : w.job = j /\ Commit(w))

Spec == Init /\ [][Next]_vars
FairSpec == Spec /\ Fairness
---------------------------------------------------------------------------
(***************************************************************************)
(* An executor that has not been aborted works for a job that is RUNNING   *)
(* or WAITING_TOOL, and no other executor works for the same agent: a      *)
(* cancellation, a stop or a failed validation that settles the job takes  *)
(* its executor with it before the agent can be given another job          *)
(* (maxConcurrentPerAgent 1).                                              *)
(***************************************************************************)
OneExecutor ==
    \A j \in Jobs : run[j] = "executing" =>
        /\ job[j].status \in Live
        /\ \A k \in Jobs \ {j} : run[k] = "executing" => Owner(job[k]) # Owner(job[j])

(***************************************************************************)
(* The open entries of an inbox are those of the COMPLETED jobs whose      *)
(* result is in the INBOX, at most maxInboxEntriesPerAgent of them.  A job *)
(* without its entry is about to be acknowledged, unless a restart came    *)
(* between the two writes of acknowledgeInbox.                             *)
(***************************************************************************)
InboxMatches ==
    /\ \A a \in Agents : Len(inbox[a]) <= InboxLimit
    /\ \A j \in Jobs :
          LET open   == \E a \in Agents : Contains(inbox[a], j)
              landed == job[j].status = "COMPLETED" /\ job[j].disposition = "INBOX"
          IN  /\ open => landed
              /\ landed => open \/ j \in closing \/ restarts > 0

(***************************************************************************)
(* A job that was dispatched after its authority was gone, because the     *)
(* claim of its attempt crossed an emergency stop, a new policy or a       *)
(* revocation, lands no result while its authority is not given back       *)
(* ("fences an emergency-stop race"): the answer is validated once more    *)
(* before it lands.  Once a human authorises the heartbeat again the stop  *)
(* holds no longer, and the job that slipped through it may land.          *)
(***************************************************************************)
FencedDoesNotLand ==
    [][\A j \in Jobs : job'[j].status = "COMPLETED" => job[j].status = "COMPLETED" \/ j \notin fenced]_vars

(***************************************************************************)
(* A job that is QUEUED, RUNNING or WAITING_TOOL does not stay so: it      *)
(* lands, fails, is cancelled or is blocked until it is resumed.  Excused  *)
(* are a job that a restart has found QUEUED, which is never scheduled     *)
(* again, and one whose executor settled while a progress call of it was   *)
(* in flight: the write of runLifecycle may lose, and is not repeated.     *)
(***************************************************************************)
Busy(j) == job[j].status \in {"QUEUED", "RUNNING", "WAITING_TOOL"} /\ j \notin crossed
JobsSettle == \A j \in Jobs : []<>~Busy(j)
=============================================================================
