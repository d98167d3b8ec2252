# A verification project for AllMyFriendsAreAgents

AllMyFriendsAreAgents is a chat room in which several coding agents (child
processes of different model providers) talk with humans and with each other,
go away on protected investigations, and are consulted by outside clients. The
server is one Node process: nothing in it runs in parallel, but every `await` is
a point where a message, a roster edit, a timer, a cancellation or a restart may
come in between; only the coordinator heartbeat is meant for several processes over one
file. The browser follows the server over an event stream. This directory models the parts of the system where that
matters in TLA+, checks them with TLC, and proves the most important invariants
with TLAPS for every value of their parameters.

Paths below are relative to the repository. `PROJECT.json` maps each definition
to the lines it models and lists the runs, the mutants that show that each
property can fail, the hazards and the theorems.

Contents: [1 Inventory](#1-inventory), [2 Plan](#2-plan),
[3 Modules](#3-the-modules-and-the-code), [4 Runs](#4-the-runs-what-they-check-and-show),
[5 Bounds](#5-bounds), [6 Fairness](#6-fairness-and-deadlock),
[7 Proofs](#7-what-is-proved), [8 Model-checked only](#8-what-is-only-model-checked),
[9 Disagreements](#9-disagreements-between-code-and-documentation),
[10 Not modelled](#10-what-is-not-modelled-and-why).

To repeat a run: `tlc -config <cfg> <MC module>` with the pairs of section 4. To
repeat a proof: `tlapm <module>_proofs.tla`.

## 1 Inventory

The server keeps three kinds of state: durable records (a room snapshot in JSON
or SQLite, and one ledger per feature, mostly written by compare-and-set on a
revision), ledgers in memory (who is generating, who is reserved, which job is
pending), and the positions of the handlers that are awaiting something.

### Modelled components

| Component | State | Operations | Interacts with | Hard behaviour | What makes it correct |
|---|---|---|---|---|---|
| **Generation admission** `active-generations.ts`, `room-runtime-registry.ts`, `protected-work-store.ts`, composed in `index.ts` | tracker (reservations, generations), capacity counters per room, provider and process, owner of each participant | reserve, activate, start, spawn, settle, release; timer; roster edit; claim and release by protected work; restart | every caller that runs an agent | three ledgers, each released on other paths; a roster edit waits for children and clears entries that appeared meanwhile | counters equal the leases out; limits hold; one process per participant; foreground ends before protected work; leases come back |
| **Room messages and turn delivery** `index.ts`, `job-queue.ts`, `room-activity.ts`, `burst-delivery.ts`, `agent-context-cursor.ts` | transcript, activity revision, topic, roster, job queue, turns in flight, stored sessions, cursors | message, developer message, room action, topic change, roster edit, start and steps of a turn, job end, shutdown | energy policy (which turn next), admission (may it run), store | turns run concurrently and are interrupted between any two awaits; routes store and interrupt in different orders; coalescing | nothing said is stale; no message lost; sessions and cursors follow what was delivered |
| **Energy conversation policy** `conversation.ts` (`runEnergyConversation`) | budgets (messages, turns, energy), remaining and invited candidates, mentions, pair counts, phase | openings (concurrent or not), floor, mentions, invitations, continuations, synthesis, objections, reconciliation | turn delivery performs each turn and reports its outcome | concurrent openings share a budget counted when they end; failures and cancellations of one of several | ceilings; everybody addressed is asked; no turn without allowance; the run drains and ends |
| **Directed conversation loop** `conversation.ts` (`runAgentConversation`), `index.ts` (`performConversation`) | queue and turns in flight, deferred mentions, order of completion, follow-ups | start, the end of a turn (with what it queues and starts), a throwing turn, the drain | turn delivery, as above; `performConversation` chooses between it and the energy policy | mentions of agents at work are put off and compete for the allowance with later ones | allowance kept; one turn per agent; nobody named is forgotten; drains and ends |
| **Protected work** `protected-work-service.ts`, `protected-work-store.ts`, `protected-return.ts` | one ledger record per work, a reservation, the tick's and the action's snapshots | admit, tick, return to the chat, stop, dismiss, retry, restart | investigations (the job), admission (reservation, generation gate), room (the report) | snapshots across awaits, a mutex that covers only some paths, crashes, a write of the room that fails | participant withheld exactly while away; at most one report, only after a confirmed stop; the disposition is the truth; the return ends |
| **Investigations** `investigation-service.ts`, `investigation-store.ts` | a durable job, the awaited dispatch, the set of finished dispatches | request, enqueue, dispatch, progress, settle, cancel, reconcile | an external executor, protected work | the executor may go on after the server has given it up | no return package while the executor may work |
| **Consultation** `consultation-service.ts`, `consultation-mcp.ts`, the repositories | one record per consultation (turn claims, inputs, synthesis claims, artifact), the active run | start, answer, cancel, run (duties, rounds, synthesis), reschedule, restart | providers; clients that retry | paid calls must not be made twice through restarts, retries and lost races | claimed before called; limits; complete artifacts; final ends; progress |
| **Room event stream and client reconciliation** `room-event-stream.ts`, `src/room-reconciliation.ts`, `src/App.tsx` | stream id, version and last published state; the connection; the browser's position, messages, pending send | connect, broadcast, append/delta/snapshot, resync, watchdog, reload for a newer protocol, send, resend, give back | message routes, browser storage | events lost or cut off, a stream replaced by a restart, an answer that races the event it belongs to | the view is the one of its position; nothing shown twice or offered again when seen; the browser converges; reloads end |
| **Commands** `command-runtime.ts`, `command-record.ts`, records in `room-store.ts` | selections, attempts, round-robin pointer (durable); launches, live entries, timers | submit, replay, launch, activate, claim, complete, deliver, watchdogs, reassign, initialize | admission (capacity, reservations), room activity, roster | two watchdogs race a late answer; delivery repeated after a restart; a write that fails | one answer per task from the attempt nobody took over; tasks settle; reservations return |
| **Assignments and continuations** `assignment-lifecycle.ts`, `continuation-service.ts` | assignments and worktrees; jobs, inboxes, policy, emergency stop | create, cancel, dispose, reconcile; create, dispatch, progress, settle, resume, cancel, acknowledge, expire, restart | git worktrees, executor, tasks and roster (authority), heartbeat (whose stop is theirs) | authority is checked, then the store decides later; an executor that outlives its job | one writer; one executor per agent; what was dispatched without authority does not land without it; inbox and jobs agree; jobs settle |
| **Coordinator heartbeat** `coordinator-heartbeat.ts`, its routes | lease, runtime state, dispatches in a shared file; timers and ticks | tick, select by pages, begin, dispatch, settle, stop, authorize, end and start | improvements (repository), an external executor | several processes, reads that are awaited, a process held up beyond its lease | one dispatch at a time; a success stands; a stop fences; selected work is served |

### Components not modelled (state, and what would make them correct)

| Component | State and operations | What makes it correct | Status |
|---|---|---|---|
| **Tasks and improvements** | records with a revision and their history; pure functions apply a change for an expected revision | a change of an old revision conflicts; illegal transitions are refused | planned, as operators |
| **Preflight** `preflight-gate.ts`, `preflight-store.ts`, `preflightTurns` | durable counters of suppressions; decides which participants a human message invokes | a participant suppressed for long is invoked within the threshold and one decision per other participant, while its energy has an ambient seat; the counters survive a restart | planned |
| **Installer and background service** | a lifecycle lock between processes | mutual exclusion; an abandoned lock stays closed | planned (lock only) |
| **Contributions and GitHub** | claims, answers of an external service | one push per claim | later |
| **Room store and storage** | a snapshot and its file or tables; migrations | writes are ordered and atomic | used as an atomic store by the models; the files are I/O |
| **Room lifecycle and runtimes** | open, dormant, archived rooms | no lost runtime | capacity is in GenerationAdmission, the rest is not modelled |
| **Provider and agent health, presence** | counters and timers | health follows outcomes | small, later |
| **Transcript and context**, **Agent processes and providers**, **OpenRouter spend and catalog**, **Identity and access**, **MCP endpoints and diagnostics**, **Control plane and deployment**, **Browser client** (rendering) | text assembly, child processes, accounting of an external service, permissions, transport, git, rendering | see `PROJECT.json` | not modelled: I/O, formatting or external (section 10) |

How they meet: a message route stores the message, moves the activity revision
and enqueues a conversation job (RoomTurns); the job runs one of the two engines
(ConversationRun, EnergyConversation, DirectedConversation), whose every turn asks for admission (GenerationAdmission)
and is delivered by `performTurn` (RoomTurns again). Protected work takes its
participant out of admission, drives an investigation (InvestigationJob) and
comes back through a room message. A consultation runs beside the room, with
its own record. A command goes to a participant outside of the conversation: it takes
a generation from the same ledgers, and drops its answer when the room has moved
on. Continuations and the heartbeat are background work: the first writes in a
worktree its assignment owns, the second hands improvements to an executor
elsewhere, and both obey one emergency stop. Whatever changes the room ends in a
broadcast, which the event stream turns into numbered events for the browser.

## 2 Plan

Order, the most important behaviour first. 1 to 9 are done.

1. `GenerationAdmission`: everything else relies on it.
2. `RoomTurns`: the life of a message and of a turn. It leaves the choice of
   turns open, which the two engines (3 and 9) then make.
3. `EnergyConversation`: the policy on its own, with open outcomes of turns.
4. `InvestigationJob`, `ProtectedWork` (composes it), `ParticipantAbsence` (the
   abstract promise), and `Consultation`.
5. `RoomProtocol`: server stream, channel and client.
6. `CommandRuntime`: attempts, watchdogs, reassignment, delivery and redelivery
   after a restart.
7. `AssignmentLifecycle` and `Continuations` (which composes it).
8. `CoordinatorHeartbeat`: processes that share a lease.
9. `DirectedConversation`: the loop beside the energy policy, and `ConversationRun`, which
   composes the two as the room does.
10. The retention of the protected-work ledger, polls of the commands, the
    preflight gate and its counters, the installer's lock, and the task and improvement machines as operators
    against a reference.
11. Compositions: RoomTurns with GenerationAdmission (a turn that is refused),
    CommandRuntime with GenerationAdmission (now a count of participants taken elsewhere),
    the heartbeat's stop with Continuations (now one flag).

Every safety property that a run checks is also a theorem (section 7). Still worth proving
are the compositions of item 11 once they are modelled, and that what the heartbeat hands to
its executor refines one dispatch per improvement.

All modules are written to be proved about: parameters are CONSTANTS with a
named ASSUME, each operation is one action, no operator is RECURSIVE, and proofs
stand in a module of their own.

## 3 The modules and the code

An action is what the process does between two awaits. Handlers are modelled
whole; a read directly followed by its write is one step where the comment of
the module says why that loses nothing.

**GenerationAdmission.** `run[r]` is one execution with its position
(`reserved`, `activated`, `started`, `running`, `ended`, or `leased` in another
room). `Reserve` is `reserveCanonicalGeneration`; `Activate`, `LifecycleStart`,
`Spawn`, `Settle`, `Release` follow `runAgent` and its caller's `finally`.
`GenerationTimeout` is the six-minute timer that makes the tracker forget a
generation whose process lives on; `EditRoster` and `ClearAgents` are the two
halves of a roster PUT, before and after it has waited for the children.
`Claim` ... `WorkAvailable` are protected admission and release.
`SlowAgents` and `EditedAgents` say of whom the timer and the roster edits may
make the tracker forget something; the others are the *steady* participants.

**RoomTurns.** `route[m]` is how far the handler of a message went: the room
route stores then interrupts, the developer routes interrupt then store, and
both then enqueue. `pending`, `job`, `closed` are `CoalescingJobQueue`; `JobEnds` is a job that
returns, `StatusThrows` the status write of a job that fails, and `ReportFails` the report of a failed job
that fails as well: the queue is then `Rejected`, idle with its pending jobs. `turn[t]` is a
turn with what it awaits (named in the module) and what it saw when it began:
activity revision, transcript length, roster and topic. `Interpret`, `Pace`,
`SessionSaved`, `MessagePosted` repeat the checks `performTurnUnchecked` and
`deliverBurst` make after each await. `TurnThrows` is a write that fails: it
interrupts the room, and the peers of the job must fall silent.

**EnergyConversation.** A behaviour is one conversation with the options `opt`
(candidates, policy, broadcast). `Complete(t, r)` is the return of a turn into
`record`, with every outcome `performTurn` can have (answered with n messages,
a state and mentions; declined; failed; cancelled; thrown). The other actions are the
choices of the loop. Draws at random are nondeterministic.

**DirectedConversation** and **ConversationRun.** `pending` are the turns in flight in the order
they were started, `queued` the queue. `TurnEnds` is what `runAgentConversation` does between
two awaits of its race: `Promoted` is the mention that waited for the agent that ended, `Reactions`
the loop over the mentions (`Asked`) or the one reply (`Replies`), `Fill` is `fillAvailableSlots`.
A turn that was cancelled or failed is one that says nothing: the loop does not look at it, so the turns
that are queued still start. `TurnThrows` and `TurnDrains` are the error and those it waits for.
`ConversationRun` is `performConversation`: it extends the one engine, instantiates the
other with the plans `PlanOf` computes from the same options, and lets `staged` choose.
`mentioned` and `unanswered` are history.

**InvestigationJob** and **ProtectedWork.** The job is durable, the dispatch and `finished` are in memory, the
`executor` is another program that may outlive both. `ProtectedWork` EXTENDS it and adds the record of the
work and the three activities that hold snapshots of it: the admission (`start`), the tick with the return it
runs (`tick`), and a human action (`act`). `Write` is the compare-and-set of the ledger. `posted` tells a
report in memory from one on disk; `SaveRoom` fails either leaving it in memory (JSON backend) or not
(SQLite). `Restart` keeps what is durable. `Flip` is authority or eligibility that is lost or comes back
between any two reads of it. A return is `Stranded` when it is catching up with a report for the conversation
as it is (section 9). `ParticipantAbsence` is what the room is promised; the mapping is `Absence` in
ProtectedWork (stage, withheld, report, outcome).

**Consultation.** `rec` is the durable record; its `revision` orders all writes,
and `RunWrite` is a write on the run's own snapshot. `run` is the active run,
with its place in `run()`, `runDialogue()` or `runSynthesis()`. `again` and
`reviving` are the reschedule set and the `finally` that acts on it.
`dispatched` and `synthesised` are history: the paid calls that were made.

**RoomProtocol.** `log` and `fields` are the public room; `stream` is the object of one
boot with the version and the state it published last. `EventsFor` is the comparison in
`broadcast`, `Connect` the baseline and the snapshot of GET /api/events, `wire` what
has been written to the connection. In the browser, `Receive` is `onmessage`
(`Reconciliation` decides, `InstallSnapshot` and `Merge` apply), `BeginResync`, `Watchdog`,
`StreamError` and `Reconnect` are the ways out of a stream, and `SubmitMessage`,
`ResendPending`, `ReturnPendingToDraft` with `Acknowledged`, `Refused`, `OutcomeUnknown` the life of
a message whose sender may never learn its outcome. `Lose` is an event that is missing
between others, which the gap check is for.

**CommandRuntime.** `attempts[t]` are the durable attempts of a task, `run[r]` a launch
of this process (it outlives its entry in `live` when the entry is cleared), `pending`
the calls that have begun or will: launches, failures (`failAndReassign`), deliveries.
`Launch` ... `Complete` follow `launch`, `markActive`, `complete`; `Watchdog` is either of the two
timers; `Deliver` and `DeliverTask` are `resumeDelivery`, one message at a time;
`Restart` and `Recover` are a crash and `initialize`. A compare-and-set on `updatedAt`
is one on the status, which changes with it. `Take` and `GiveBack` are the rest of the
server, which holds a participant for a while. `barred` are the participants whose health, whose provider's
health, protected work or the room's job forbids a launch (`commandAgentAvailable`): `Settle` records the health of a
run, as `performCommandTask` does, and `Bar` is what others record, or end, at any time.

**AssignmentLifecycle** and **Continuations.** `lifecycle[s]` is the record of an assignment and `worktree[s]`
what git finds; creation and disposal touch them in two steps, and `Reconcile` compares them as every
authority check does. `Continuations` EXTENDS it. A call reads the job, revalidates it and *proposes* its
successor; `Commit` is the store that takes or refuses the proposal (`Verdict`, `After`, `Land`). `run[j]` is
what this process does for the job, `sweep` the half of `cancelAll` that follows the stop, `closing` the
second write of `acknowledgeInbox`. Authority goes (`EmergencyStop`, `UpdatePolicy`, `Revoke`) and, but for a
policy, comes back: `Authorize` is a human who authorizes the heartbeat again, whose flag the stop is, and
`ReinstateAssignment` an edit that gives the roster, the settings or the source work what it took away;
neither sweeps nor moves the policy. `fenced` is history: the jobs dispatched without their authority, until
that is given back.

**CoordinatorHeartbeat.** `tick[p]` is where the tick of a process stands between awaited reads: `gate`,
`select` (page by page), `check`, `reread`, `handoff`, `executing`. `lease`, `authorized` and `dispatch` are
the shared file, which is read and written at once. Time is abstract: the lease of a process that works cannot
run out, unless the process is held up (`LeaseExpires` puts it into `late`). The lease, the retry delay and
the time budget are configured independently of each other (`server/index.ts:404-409`); a budget beyond the
lease is such a hold-up, and a short retry delay is noticed only once the lease is lost. `late`, `overtaken`,
`halted`, `twice` are history that the properties refer to.

Definitions whose comment begins with "Mutant", or that come right before the
definition they vary (`..._bug`, `..._any`), are the plausible mistakes the
properties are tested with; no action uses them.

## 4 The runs: what they check and show

| Run | Module, cfg | Checks | Shows |
|---|---|---|---|
| `admission_safety` | MCGenerationAdmission, `_safety` | ProcessesWithinLimits, ExclusiveExecution, LeaseReturned | the limits hold although the tracker forgets one of two participants; the steady one is never run twice or beside its work; leases come back |
| `turns_delivery` | MCRoomTurns, `_delivery` | StoreFollowsDelivery, PostsHeardEveryone, FailureSilencesPeers | two turns with bursts against two messages, a topic change, a roster edit and a failing write: the repeated checks leave no window |
| `turns_queue` | same, `_queue` | EveryMessageConsumed | coalescing, continuations, failing jobs and shutdown lose no message whose handler finished, unless the report of a failed job fails too |
| `conversation_engines` | MCConversationRun, `ConversationRun_engines` | WithinPolicy, NamedAreAsked, NothingInFlight, StartsWhatItMay, RunEnds | both engines as the room runs them: mentions, pair caps, put-off mentions and budgets, four candidates through all phases, one to three workers, with cancelled and thrown turns in any order |
| `protected_fence` | MCProtectedWork, `_fence` | ReservationExact, StopAnswered, ReturnEndsUnlessStranded | restarts, authority lost and restored, an unreachable executor, failing writes: the participant is withheld exactly while away, stops are answered, and a return ends or is shown as blocked unless it is stranded |
| `protected_return` | same, `_return` | AssessmentsBounded, WorkerFenced, NothingUndone, AbsenceKept | two human actions, a message, a change of authority, a busy gate and a restart around the return; refinement of ParticipantAbsence |
| `protected_stuck` | same, `_stuck` | ReturnEnds | **violated** when the room's storage refuses one write |
| `consultation_dispatch` | MCConsultation, `_dispatch` | DispatchedOnce, ArtifactSawEverything, TerminalIsFinal, Progress | two starts, an answer, a cancellation and a restart at every place of a run |
| `room_view` | MCRoomProtocol, `_view` | ViewIsPublished, ShownOnce, OfferIsUnseen, Converges, ReloadsEnd | one optimistic message, another's message and a change, with a broken or stale connection or a lost event, a restart that may bring a newer protocol, and a resend |
| `commands_attempts` | MCCommandRuntime, `_attempts` | OneAnswer, TasksSettle, LeasesReturned | every watchdog races every answer, with a restart, a repeated request, an interruption, a roster edit or a failing write, and a participant taken or barred elsewhere |
| `continuations` | MCContinuations, `Continuations_jobs` | OneWriter, OneExecutor, InboxMatches, FencedDoesNotLand, JobsSettle | two jobs, two assignments and two events of any kind, stops and their end among them, between any two steps |
| `heartbeat_dispatch` | MCCoordinatorHeartbeat, `_dispatch` | OneDispatch, SuccessStands, StopFences, Served | two processes, three improvements in pages of two, two events between any two awaited reads |

Type invariants and the lemmas of section 7 (`CapacityLedger`, `NoPhantomGeneration`,
`WorkKeepsReservation`, `DispositionTruthful`, `CoalescingLosesNothing`) are stated in
the modules and not in these runs: they are proved instead.

Each property of a passing run is also checked against a mutant of the code it
is about, and fails there.

## 5 Bounds

Bounds stand in guards and are CONSTANTS, so the proofs hold for all of them.

- Admission: three runs, two participants, two providers (one with a limit below
  the room's), one other room, one work. Limits of 2 are reached, and a third run
  meets each refusal; two runs of one participant and a third beside them are
  enough for every pairwise property.
- Turns: two participants and two turns at once, bursts up to two (the smallest with
  an await between two messages), one event of each kind that may fall into a
  turn. Properties speak of one turn and one event, or of two turns. The queue
  run has two messages of one key (to be coalesced), one of another, an
  action and two failures (of a job and of its report); its turns say nothing (MaxBurst 0), since the queue only sees
  them end or throw. `turns_delivery` uses symmetry over participants, which is
  sound as it checks no liveness and no definition tells them apart.
- Energy: the policies `low` and `balanced` of the code. Four candidates exceed
  the flat ceilings of `low`, and reach synthesis, objections and reconciliation
  in `balanced`; the concurrency is 1 or 2. The instances with mentions have two
  candidates, a third participant who can only be mentioned, and one mention per turn.
- Directed runs: two mentions per turn, so that one may be asked and one put off by the same reply; one
  worker, two (a mention of an agent in the queue, and of one at work) and three; allowances of none, one
  (a put-off mention and a new one compete), three and four.
- Protected work: MaxAttempts 2 for the code's 3 (both have a first, a last and a
  retried assessment), RetryLimit 1, one restart at any point, a message and a busy gate. The two passing
  runs divide the rest: one action, two changes of authority or eligibility (it is lost and comes back)
  and failing writes in one; progress reports, two actions and one such change in the other.
- Consultation: two participants, two rounds, a turn limit of 3 that cuts the last
  batch short, concurrency 2, two start requests, one answer, one restart and
  one cancellation.
- Room stream: one optimistic message (ids are told apart by equality only), one message of
  somebody else, one change of the other fields, one loss, one restart, one resend. This is the
  smallest instance in which an append, a delta and a snapshot each meet a gap, a
  late answer and a new stream; `log` grows to two.
- Commands: one task, two participants, two launches at once, an answer of at most one message (the second
  message of a burst meets the code of the first), one fault of any kind, and one participant taken or barred
  by another part of the server, beside those that its own failed runs bar; what bars a participant may end at
  any time and as often as it likes. Reassignment, exhaustion of the participants, and a launch left over from
  a reassigned attempt are reached. The proofs cover any number of tasks and faults.
- Continuations: two jobs and two assignments of one agent, since the limits are per agent;
  retry limit and inbox limit 1, so that both are met; two events, because the recorded races
  need two (a stop and a restart, a revocation and a resume, a stop and the authorization that ends it).
- Heartbeat: two processes (the lease separates pairs), three improvements in pages of two (one is
  beyond the first page), two attempts, two events.

## 6 Fairness and deadlock

- Admission: WF of `RunEnds(r)`: every await of a run settles, because the supervisor's
  timeout ends a child that hangs. Nothing is assumed of clients, edits or restarts.
- Turns: WF of each turn's steps (a provider process has a timeout, timers and writes
  complete) and of `JobEnds`. A turn that throws is never forced, nor is a report that fails or the
  enqueueing that would end its wait.
- Conversations: WF of `RunNext`; every `performTurn` returns.
- Protected work: WF of the admission, the tick (an interval timer), a human action
  that has begun, the pump's dispatch, the end of a dispatch (the time budget), its settlement,
  and the end of an abandoned execution. Nothing is assumed of humans, of the storage, or of authority and
  eligibility, which may stay lost or come back; what a return that is retried with its report kept is then left with
  is `Stranded`, and `ReturnEndsUnlessStranded` excuses it.
- Consultation: WF of the run, of the provider call (time ceiling and attempt
  timeout), of `Revive`, `Abort`, and of each request handler.
- Room stream: WF of the server's `Connect` and `Broadcast` (both are straight-line code), of `Receive` and
  `StreamError` (the browser's event loop), of `Watchdog` on a connection that is not open, of the retry timer
  `Reconnect`, and of `Settle` (a request has a timeout). Nothing is assumed of users or of
  requests being served.
- Commands: WF of the calls that have begun, of the writes and timers of the launches, of the
  settlement of an aborted process (the supervisor kills it), of `Resume` per attempt (a
  deferred attempt is tried again by its own timer), and of `GiveBack` (other generations end).
  A provider may hang: the watchdogs are what ends it. A participant that is barred may stay so for ever, and
  `TasksSettle` excuses a recovered attempt as long as it waits for one (`PutOff`).
- Continuations: WF of the record that follows a worktree, of the steps of each job in this process (the
  dispatch has a time budget), and of the store's answer to each job's proposal.
- Heartbeat: WF of each process's interval and of its reads, of the expiry of a lease whose owner
  is dead, and of the retry delay. `Served` further assumes in its premise that humans leave some process
  authorized.

Deadlock is checked for admission. The other models stop where the system does: all
messages of the instance are handled, the conversation or the consultation has
ended, the work is closed. There `CHECK_DEADLOCK FALSE` is set and the liveness
properties say that the end is the right one.

## 7 What is proved

The theorems hold for every value of the constants that satisfies the named
ASSUME of the module (finite sets, positive limits): any number of runs, rooms,
participants, messages, processes and restarts. None of them uses fairness.

**GenerationAdmission_proofs.** `TypeCorrect`, `CapacityLedgerCorrect`,
`ProcessLimits`, `WorkReservation`, `NoPhantom`, `ProcessExclusion` (the property
`ExclusiveExecution`). The counters are compared with cardinalities of sets of leases, so
the invariant `LedgerInv` is the ledger, the counters within their limits, and that a
canonical run holds a canonical lease; the lemmas say what adding or removing a lease does
to those sets. `TrackInv` adds what exclusion needs: every live run of a steady participant
is tracked. It is not true of the others (section 9).

**RoomTurns_proofs**, first part, about RoomTurns. `TypeCorrect`, and `HeardTheRoom` and
`SilentAfterFailure` from `HeardInv`: a turn whose revision is still current has seen every
announced message and the present topic, and its job has not failed (the roster is
compared before each message). Neither property is inductive alone: a message is stored
before it is announced (or announced before it is stored), and the invariant says what a
turn that starts in between has. `NothingLost` follows from `LossInv`, which adds that every
position is within the transcript and `consumed` never ahead of it: a job that starts takes
the whole transcript, hence covers every message of its key. `StoredFollowsDelivery` is from
`StoreInv`: a stored session is that of a turn of its agent, under the present topic, that stands
where it can no longer be refused, and how many messages a turn has written fits that place.

**RoomTurns_proofs**, second part, about RoomProtocol, whose specification is called `StreamSpec`
so that one module can extend both. `StreamIsSound` is the inductive invariant `StreamInv`, and `ViewIsCurrent`,
`MessagesAreShownOnce`, `OffersAreUnseen` follow. That the browser shows the last published
state is a statement about versions it never saw, hence the heart of the invariant is a history
(`Told`): there *exists* a function from versions to what each shows, with which the
last published state, every event on the wire and in the browser's hands, and its position
agree. A broadcast extends the function (`HistoryContinues`), a new stream begins another.
The rest says that the log has each client id once, that every event's messages stand apart
and are in the log, that an optimistic message is in the list at most once and only with an id
that was given out. `Kept` and `Merge` are loops over lists; what they return is proved
along the loop by the least step that would go wrong (`LeastOf`, from the well-foundedness of
the naturals), since the library's induction theorems cannot be used here.

**ConversationRun_proofs.** About the staged engine, `BudgetKept`, `TurnsMaySpeak`, `EndsDrained`, `Stops`
from `BudgetInv`: the allowances of the openings in flight and of those not
yet started, added to what was accounted, fit into the ceilings (what is in flight was paid
in advance), and no two turns run outside the concurrent openings. About the directed one,
`DirectInv`: turns started and queued are the turns asked for and the follow-ups spent
(`Accounts`); those in flight and in the queue are of different agents; no worker is free beside a
queue (`WorkersBusy`); and while follow-ups are left, a put-off mention has a turn to wait for and whoever
was named is queued or put off (`Owed`). `Owed` does not survive the last follow-up, which is why the run may
then end with mentions unheard. `RunImplementsEngines` shows that the composed specification
implements both, so that `WithinPolicyHolds`, `NothingInFlightHolds`, `StartsWhatItMayHolds` and
`MentionsFollowedHolds` follow for `RunSpec`, with the allowance that `performConversation` computes.
`NamedAreAskedHolds` adds the staged half, `AddressedHolds`: whomever a visible message named is
invited or still in the queue of mentions, while who works, spoke last or replied in a pair was
invited, and the loop leaves the queue only empty or with a reason.
The lemmas on sequences (concatenation and removal without repetition, the queue split by
`Fill`) stand before them.

**ProtectedWork_proofs.** `ReservationIsExact` and `NothingIsUndone` for every
bound and whatever writes fail: every snapshot is the record or an older
revision of it, hence a write that is accepted starts from the present record.
`FenceInvariant`, also whatever fails, says that once a report exists, or the work is
stopped or closed, the execution is over for good (`Ended`): nothing runs at the executor and no queued job is
left that a dispatch could start; at each place of the tick and of an action it says what of that is
already known. `WorkerIsFenced` follows. `AssessmentsAreBounded` is from `CountInv`: the record
counts an assessment before it is made and gives it back only when it was not made, so that no
restart can make one that is not counted.
Under `SaveMayFail = FALSE`, `KeepsAbsence` (every step maps to a step of
ParticipantAbsence or a stutter) and `DispositionIsTruthful`, from an invariant
that says where the report may be at each place of a return. The assumption is
needed: with failing writes of the JSON backend a work can be closed as delivered from a
report that is only in memory (section 9).

**Consultation_proofs.** `TypeCorrect`, `DispatchedOnceHolds`, `ArtifactComplete`,
`EndsAreFinal`. The invariant: the run's snapshot is the record or older; a call
that was made has its operation in the record; turns a batch has claimed
were never called; a free synthesis key was never called; nothing is recorded
while a synthesis is under way, so that the view it took is still the record's.

**CommandRuntime_proofs.** `OneAnswerHolds`, from `CommandInv`: all attempts of a task but
the last are superseded and have different participants; a delivery is about an attempt that was
answered; whatever is launched, watched or about to be claimed names an attempt; what the room holds
comes from answered attempts. A step may change a status only forward (`Evolves`), so
an answered attempt stays answered and cannot be superseded, and only the last attempt
of a task can be answered. The launches need an invariant of their own because a launch
outlives its entry and a claim changes the entry of another launch.

**Continuations_proofs.** `OneWriterHolds` from `Assigned`: at most one assignment of those that
were never COMPLETED holds the writer slot, also while one is being created.
`OneExecutorHolds` and `FencedJobsDoNotLand` from `JobInv`, which says of every proposal that
waits for the store that it follows the table of transitions from the revision it read, so that
a proposal for an older revision is refused, and that a job which was dispatched
after its authority was gone, and to which it has not been given back, is without authority still and has no proposal to
land that could pass. `ReturnSteps` is the step by which authority comes back: it takes out of `fenced` exactly the jobs that
have it again. `InboxesMatch` says the
same of the inbox from `InboxInv`: an inbox holds each entry once and only for landed jobs of its agent, a job
whose second write is due has none, and a proposal the store may still take is for an unsettled job.

**CoordinatorHeartbeat_proofs.** `DispatchExclusion`, `SuccessKept`, `StopsFence` from
`HeartbeatInv`: who waits for the executor has the lease or was held up (`Held`); a tick
that a stop found is without the lease (`Fenced`) and every tick under way after a stop
was found by it (`Found`); an attempt under way is recorded and is the only one of its key
(`Claimed`).

## 8 What is only model-checked

Liveness under fairness (`LeaseReturned`, `EveryMessageConsumed`, `RunEnds`,
`StopAnswered`, `ReturnEndsUnlessStranded`, `Progress`, `Converges`, `ReloadsEnd`, `TasksSettle`,
`LeasesReturned`, `JobsSettle`, `Served`): it needs ENABLED and fairness, which the
prover does not handle. Nothing else: no theorem rests on something that only TLC checked,
and no module has a RECURSIVE operator.

## 9 Disagreements between code and documentation

With a run that shows it (quoted in `PROJECT.json`, `findings`): `protected_stuck`
(`server/protected-work-service.ts:234`). If the storage refuses the write of a report, the return goes back
to catching up with a current report: no later pass assesses again, delivers or blocks, and the participant
stays withheld, against docs/planning/154-protected-participation.md:119-121. No failure is needed for the
same state: authority or eligibility lost before a delivery (lines 190-191, 215-216) blocks the work and keeps
its report, and a human retry (line 134) sets catching-up with that report still current; nothing is assessed
(line 194), and line 222 delivers only from report-pending. A message, a topic or a roster change ends it, as
does a dismissal. `ReturnEndsUnlessStranded` excuses both ways, and nothing else.

Met while modelling, and reproduced with TLC on the way. The models contain these
behaviours, and where a property would fail because of one it names the excuse:

- `server/index.ts:1168`: when the report of a failed job (a message and a status) throws as well, the job rejects
  and the drain of `server/job-queue.ts` ends with jobs pending. They wait until another job is enqueued
  (`EveryMessageConsumed` excuses `Rejected`). The promise of the drain is discarded (line 47) and nothing handles unhandled
  rejections, so under Node's default the process ends instead: the queue is in memory, and after a restart a stored
  message is heard only by the job of a later one.
- `server/roster-api.ts:180`: a roster PUT waits for the children that exist, then clears every
  tracked entry of the participant. A run between its start and its spawn is forgotten and
  spawns later; protected work is then admitted beside it, against
  docs/planning/154-protected-participation.md:80 ("Existing foreground execution must finish or be
  explicitly stopped before protected execution begins."). `ExclusiveExecution` is therefore about participants
  whose roster entry is not edited.
- `server/conversation.ts:652`: a turn cancelled after it posted reports no messages, so the budget
  does not see them, and line 646 reconciles after a cancelled objection when an earlier one was
  material: the room gets more than the ceiling. `WithinCeilings` counts as the code does.
- `server/consultation-service.ts:188`: a restart between the two writes of an answer leaves a
  consultation that waits for the answer it has, and the client's retry is acknowledged.
- `server/index.ts:1052`: a crash between the stored session and the first message leaves a provider
  session that remembers a message nobody has seen.
- `server/protected-work-service.ts:137`: a stop writes its patch and then cancels the job; both
  may lose to the tick, and neither result is looked at, so the stop is acknowledged and has no effect.
- `server/protected-work-service.ts:174`: the return package is built from the job as it was listed
  before the cancellation, so a checkpoint that arrived in between is missing.
- `server/investigation-service.ts:106`: a job is created and queued in two writes; after a
  restart between them it stays REQUESTED, which no pump takes, until somebody stops the work.
- `server/room-store.ts:395`: with the JSON backend a failed save leaves the message in
  memory; a later step can close the work as delivered, and a restart then loses the report. This is why
  two theorems assume that writes succeed.
- `server/consultation-service.ts:324`: a question asked by one turn of a concurrent batch
  drops the answers of the others and leaves their claims, so the run that resumes
  refuses them. The executor in `server/index.ts` never asks, so this is latent.
- `src/App.tsx:600`: a second post whose outcome is unknown overwrites the text kept of the first,
  which can then not be sent again, against what `src/reconnect-flow.test.tsx:793` has of one. And the last event before a
  silence is not missed until the next one comes: the heartbeats of the stream carry no version.
- `server/command-runtime.ts:398`: an attempt stores the epoch of RoomActivity, which counts from zero in every process
  (`server/room-activity.ts:2`): after a restart a stored answer that nothing overtook is dropped as stale,
  against the test "recovers a durable delivery outbox" (`server/command-runtime.test.ts:165`), whose record has no epoch.
- `server/command-runtime.ts:294`: `launch` does not read the attempt again. A repeated request (line 354)
  launches an attempt that is being reassigned, or waits in `deferRecovered`; the generation is wasted and its
  reservation may stay (`LeasesReturned` excuses `repeated`). A reassignment whose publication fails
  leaves the successor without a launch (`TasksSettle` excuses `failed`, line 413).
- `server/command-runtime.ts:358`: a recovered QUEUED attempt whose participant may not be launched is
  deferred every 250 ms as long as its roster entry is current (`agentCurrent` looks at nothing else). Bad
  health (`unavailable`) and a provider that needs action do not expire, so its task may wait for ever and is
  not given to somebody else, as a fresh attempt would be (`TasksSettle` excuses `PutOff`).
- `server/continuation-service.ts`: an emergency stop whose sweep loses to a claim is not repeated, so a job
  is dispatched under the stop, and only the validation of its result keeps it out. That validation reads the
  flag of the heartbeat (`server/index.ts:441`), which a human's authorization of the heartbeat clears without
  a sweep or a new policy (`server/index.ts:1486`): a job that slipped through the stop lands if the
  authorization comes before its answer, and one dispatched to a participant that the roster had just disabled
  lands if that is undone. `FencedDoesNotLand` promises no more than that it does not land until then. A job
  found QUEUED by a restart is never scheduled and cannot be resumed, and one whose executor settles while a
  progress call is in flight can stay RUNNING (`JobsSettle` excuses `crossed`); a restart between the two
  writes of an acknowledgement leaves a COMPLETED job in the INBOX without an entry (`InboxMatches` excuses
  `restarts`).
- `server/assignment-lifecycle.ts`: a COMPLETED assignment whose worktree becomes dirty turns RECOVERABLE again, beside
  the next writer (`OneWriter` excuses `completed`).
- `server/coordinator-heartbeat.ts:443`: a stop in the await before the lease, or of another process, does not
  stop the tick in progress (`overtaken`); a process held up beyond its lease can write FAILED over the
  other's SUCCEEDED (`twice`); improvements behind the first maxSelectedPerTick open ones wait until those
  change (`Served` is about that window).

Met while surveying, in code that no module models:

- `server/index.ts:598`: `preflightTurns` records its decision, which resets the counters of the participants it
  invokes, before the check of line 606 may drop their turns.
- `shared/preflight.ts:7`: the default mode is `enforce`, against
  docs/planning/energy-aware-preflight-invocation-gating.md:66 ("the default at merge is `off`"); and
  `server/room-settings-api.ts:58-86` accepts `enforce` without looking at the evidence that its line 105 demands
  ("Enforcement is rejected unless an existing shadow sample spans 200 evaluated would-suppress dispositions").

## 10 What is not modelled, and why

- Text: prompts, parsing, redaction, formatting, logging. A turn or a provider call is
  modelled by its outcomes.
- The file system and SQLite: a store write changes the state when it is called and
  may throw where the code has a path for it (RoomTurns, ProtectedWork, CommandRuntime).
- In RoomTurns: presence conversations, style updates (one more await with the same
  check), command deliveries, and restarts. In EnergyConversation: the ranking of candidates
  and observability facts, which decide nothing. In DirectedConversation: instructions and
  diff preferences, and a `performTurn` that throws before it returns a promise (it is async). In ProtectedWork: receipts,
  retention and the archive of the ledger, and a second work of the same participant. In
  InvestigationJob: the autonomous lane, policy administration, budgets. In
  Consultation: transport, authentication, affinities, and failures of the
  repository itself.
- In RoomProtocol: several tabs, a change of identity, malformed events, the order of optimistic messages
  among each other. In CommandRuntime: polls, points of view, `gh` and help, the shutdown of `close()`, the
  compaction of old records, and session and cursor writes of a delivery (which are RoomTurns'). In Continuations: the
  binding of source work in SQLite, failures of the store and of git, and the contents of capabilities and
  tokens; task revision, claim, manifest and roster are one flag, `governed`. In CoordinatorHeartbeat:
  the repository that waits for the JSON queue and the contents of an improvement.
- The components of section 1 that are marked as planned come in the order of section 2. The
  rest is pure I/O, an external service, rendering or an installer, where a model
  would only restate the calls.
