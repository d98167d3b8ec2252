--------------------------- MODULE CommandRuntime ---------------------------
(***************************************************************************)
(* /task: a command of the room is accepted, one participant at a time     *)
(* attempts it under two watchdogs, and at most one answer reaches the     *)
(* room, across reassignments, resubmissions and restarts                  *)
(* (server/command-runtime.ts, the command records of server/room-store.ts *)
(* and the dependencies that server/index.ts gives to the runtime).        *)
(*                                                                         *)
(* One action is what the process does between two awaits, except that     *)
(* candidates, pointer and acceptance are one step (the code repeats them  *)
(* until the compare-and-set of the pointer succeeds).  updatedAt changes  *)
(* exactly when the status does, so a compare-and-set on it is one on the  *)
(* status.  A roster edit stands for a change of a configuration too.      *)
(***************************************************************************)
EXTENDS Integers, Sequences, FiniteSets, SequencesExt, FiniteSetsExt

CONSTANTS
    Tasks,            \* submissions of /task
    AgentCount,       \* participants, numbered in the order of the roster
    ConcurrencyLimit, \* agentConcurrency
    Pinnable,         \* bound: participants that a task may be pinned to
    MaxBurst,         \* bound: visible messages of an answer (3 in the code)
    MaxRuns,          \* bound: launches at the same time
    MaxUses,          \* bound: participants taken or barred by another part of the server
    MaxEvents         \* bound: interruptions, roster edits, crashes, resubmissions
                      \* and failing writes

Agents == 1..AgentCount
NoAgent == 0
Unasked == -1
Runs == 1..MaxRuns

ASSUME CommandAssumption ==
    /\ IsFiniteSet(Tasks)
    /\ {AgentCount, ConcurrencyLimit, MaxRuns} \subseteq Nat \ {0}
    /\ Pinnable \subseteq Agents
    /\ {MaxBurst, MaxUses, MaxEvents} \subseteq Nat

VARIABLES
    selection,  \* selection[t]: the pinned participant, NoAgent, or Unasked
    attempts,   \* attempts[t]: the attempts of t
    pointer,    \* lastAssignedAgentId, NoAgent if null
    room,       \* the command messages of the room, by delivery id, as stored
    epoch,      \* RoomActivity.revision of this process
    revision,   \* revision of the roster
    enabled,    \* participants that are enabled
    taken,      \* participants reserved by another part of the server
    barred,     \* participants that their health, their provider's health or protected
                \* work bars from commands; all of them while the room's own job runs
    run,        \* run[r]: a launch of this process, or Free
    live,       \* CommandRuntime.live, as the launches its entries belong to
    pending,    \* calls that have yet to run: launches, failures, deliveries
    retries,    \* attempts with a deferRecovered timer
    recovering, \* attempts that initialize() has yet to take up
    failed,     \* history: a write of the store has failed
    repeated,   \* history: a request has been submitted again
    events,     \* bound: what the environment has done so far
    uses        \* bound: how often another part of the server took or barred one

durable  == <<selection, attempts, pointer, room>>
outside  == <<epoch, revision, enabled, taken, barred, uses>>
process  == <<run, live, pending, retries, recovering>>
faults   == <<failed, repeated, events>>
vars     == <<durable, outside, process, faults>>

-----------------------------------------------------------------------------
Ids == UNION {{t} \X DOMAIN attempts[t] : t \in Tasks}
At(id) == attempts[id[1]][id[2]]
Status(id) == At(id).status
SetStatus(id, s) == attempts' = [attempts EXCEPT ![id[1]][id[2]].status = s]

\* captureEpoch.
Attempt(a) == [agent |-> a, status |-> "queued", size |-> 0, epoch |-> epoch,
               revision |-> revision]
AttemptCurrent(id) == /\ At(id).agent \in enabled
                      /\ At(id).epoch = epoch
                      /\ At(id).revision = revision

\* Active generations and reservations; a launch holds one of the two, or none.
Generating == {run[r].agent : r \in {q \in Runs : run[q].pc = "generating"}}
Reserved   == taken \cup {run[r].agent : r \in {q \in Runs : run[q].lease = "reserved"}}
Occupied   == Cardinality(Generating \cup Reserved)
CanLaunch(a)  == a \in enabled \ (barred \cup Generating) /\ Occupied < ConcurrencyLimit
CanReserve(a) == a \notin Generating \cup Reserved /\ Occupied < ConcurrencyLimit

\* The first eligible participant after the pointer, as a set with it or none.
RoundRobin(excluded) ==
    LET eligible  == {a \in Agents \ excluded : CanLaunch(a)}
        Offset(a) == (a - pointer - 1) % AgentCount
    IN  {a \in eligible : \A b \in eligible : Offset(a) <= Offset(b)}

Call(kind, id)  == [kind |-> kind, id |-> id, at |-> "start", sent |-> 0]
Entries(id)     == {r \in live : run[r].id = id}
Free == [id |-> << >>, agent |-> NoAgent, pc |-> "free", timer |-> "none", lease |-> "none",
         aborted |-> FALSE, entry |-> 0]
\* The launches and the entries of live from now on; what nothing refers to is forgotten.
Now(runs, entries) ==
    /\ live' = entries
    /\ run' = [r \in Runs |-> IF /\ runs[r].pc = "ended" /\ runs[r].timer = "none"
                                /\ runs[r].lease = "none" /\ r \notin entries
                                /\ \A q \in Runs : runs[q].entry # r
                             THEN Free ELSE runs[r]]

\* Mutant: the lease of the entry is not released.
Cleared_kept(id, abort) ==
    [r \in Runs |-> IF r \notin Entries(id) THEN run[r] ELSE
        [run[r] EXCEPT !.timer = "none", !.aborted = @ \/ (abort /\ run[r].pc # "ended")]]
\* clearLive(): the launches without the entry of id, its timer and its reservation.
Cleared(id, abort) ==
    [r \in Runs |-> IF r \notin Entries(id) THEN run[r] ELSE
        [run[r] EXCEPT !.timer = "none", !.lease = "none",
                       !.aborted = @ \/ (abort /\ run[r].pc # "ended")]]

Event == events < MaxEvents /\ events' = events + 1

Init ==
    /\ selection = [t \in Tasks |-> Unasked] /\ attempts = [t \in Tasks |-> << >>]
    /\ pointer = NoAgent /\ room = << >>
    /\ epoch = 0 /\ revision = 1 /\ enabled = Agents /\ taken = {} /\ barred = {}
    /\ run = [r \in Runs |-> Free] /\ live = {} /\ pending = {} /\ retries = {} /\ recovering = {}
    /\ failed = FALSE /\ repeated = FALSE /\ events = 0 /\ uses = 0

-----------------------------------------------------------------------------
(* submit and replay *)

\* dispatch(): a pinned task needs its participant and leaves the pointer alone, another
\* takes the next eligible one; submission, attempt and pointer are stored at once.
Submit(t) ==
    /\ recovering = {} /\ selection[t] = Unasked
    /\ \E pin \in Pinnable \cup {NoAgent} :
         \E a \in IF pin = NoAgent THEN RoundRobin({}) ELSE {b \in {pin} : CanLaunch(b)} :
            /\ selection' = [selection EXCEPT ![t] = pin]
            /\ attempts' = [attempts EXCEPT ![t] = <<Attempt(a)>>]
            /\ pointer' = IF pin = NoAgent THEN a ELSE pointer
    /\ pending' = pending \cup {Call("launch", <<t, 1>>)}
    /\ UNCHANGED <<room, outside, run, live, retries, recovering, faults>>

\* replay() of a duplicate: resumeAcceptedWork launches or delivers what no live entry owns.
Resubmit(t) ==
    /\ recovering = {} /\ attempts[t] # << >>
    /\ Event /\ repeated' = TRUE /\ UNCHANGED failed
    /\ LET id == <<t, Len(attempts[t])>> IN
         /\ Entries(id) = {} /\ Status(id) \in {"queued", "delivery-pending"}
         /\ pending' = pending \cup {Call(IF Status(id) = "queued" THEN "launch" ELSE "deliver", id)}
    /\ UNCHANGED <<durable, outside, run, live, retries, recovering>>

-----------------------------------------------------------------------------
(* launch, the generation and its outcome *)

\* Mutant: the first watchdog is not armed.
NewRun_unwatched(id) == [id |-> id, agent |-> At(id).agent, pc |-> "preparing", timer |-> "none",
                         lease |-> "reserved", aborted |-> FALSE, entry |-> 0]
NewRun(id) == [id |-> id, agent |-> At(id).agent, pc |-> "preparing", timer |-> "stage1",
               lease |-> "reserved", aborted |-> FALSE, entry |-> 0]

Starts(id, new) ==
    LET r == Min({q \in Runs : run[q] = Free})
    IN  Now([run EXCEPT ![r] = new], (live \ Entries(id)) \cup {r})

\* launch(): the attempt is the one it was called with, and is not read again.  A
\* reservation that fails defers a recovered attempt and reassigns any other.
Launch(c) ==
    /\ c \in pending /\ c.kind \in {"launch", "relaunch"} /\ Free \in Range(run)
    /\ LET a == At(c.id).agent
           deferred == c.kind = "relaunch" /\ a \in enabled
       IN \/ /\ CanLaunch(a) /\ CanReserve(a)
             /\ Starts(c.id, NewRun(c.id))
             /\ pending' = pending \ {c} /\ UNCHANGED retries
          \/ /\ ~(CanLaunch(a) /\ CanReserve(a))
             /\ pending' = (pending \ {c}) \cup (IF deferred THEN {} ELSE {Call("fail", c.id)})
             /\ retries' = IF deferred THEN retries \cup {c.id} ELSE retries
             /\ UNCHANGED <<run, live>>
    /\ UNCHANGED <<durable, outside, recovering, faults>>

\* The timer of deferRecovered, which a launch in the meantime does not clear.
Retry(id) ==
    /\ id \in retries
    /\ retries' = retries \ {id} /\ pending' = pending \cup {Call("relaunch", id)}
    /\ UNCHANGED <<durable, outside, run, live, recovering, faults>>

\* markActive(), up to the compare-and-set: it finds its entry by the id of the attempt.
Activate(r) ==
    /\ run[r].pc = "preparing"
    /\ \/ /\ Entries(run[r].id) = {}
          /\ run' = [run EXCEPT ![r].pc = "failed"] /\ UNCHANGED pending
       \/ /\ Entries(run[r].id) # {} /\ run[r].agent \notin enabled
          /\ run' = [run EXCEPT ![r].pc = "failed"]
          /\ pending' = pending \cup {Call("fail", run[r].id)}
       \/ \E e \in Entries(run[r].id) :
            /\ run[r].agent \in enabled /\ UNCHANGED pending
            /\ run' = [run EXCEPT ![r].pc = "claiming", ![r].entry = e]
    /\ UNCHANGED <<durable, outside, live, retries, recovering, faults>>

\* Its compare-and-set, and then the generation starts.
Claim(r) ==
    /\ run[r].pc = "claiming"
    /\ IF Status(run[r].id) = "queued"
       THEN /\ SetStatus(run[r].id, "active")
            /\ LET e == run[r].entry
                   lease == IF run[e].lease = "reserved" THEN "activated" ELSE run[e].lease
               IN run' = [run EXCEPT ![r].pc = "generating", ![r].entry = 0,
                                     ![e].timer = "stage2", ![e].lease = lease]
       ELSE run' = [run EXCEPT ![r].pc = "failed", ![r].entry = 0] /\ UNCHANGED attempts
    /\ UNCHANGED <<selection, pointer, room, outside, live, pending, retries, recovering, faults>>

\* executeTask settles; an error comes at any time, also before the generation.  Success is
\* recorded as good health, an error as bad health unless the run was cancelled.
Settle(r) ==
    /\ \/ /\ run[r].pc = "generating" /\ run' = [run EXCEPT ![r].pc = "answered"]
          /\ barred' = barred \ {run[r].agent}
       \/ /\ run[r].pc \in {"preparing", "generating"} /\ run' = [run EXCEPT ![r].pc = "failed"]
          /\ \/ barred' = barred \cup {run[r].agent}
             \/ (run[r].aborted \/ epoch # At(run[r].id).epoch) /\ UNCHANGED barred
    /\ UNCHANGED <<durable, epoch, revision, enabled, taken, uses, live, pending, retries, recovering, faults>>

\* fail() and the reading half of complete(): a late answer stops here.
Outcome(r) ==
    /\ run[r].pc \in {"answered", "failed"}
    /\ LET id == run[r].id
           open == Status(id) \in {"queued", "active"}
           complete == run[r].pc = "answered" /\ open /\ AttemptCurrent(id)
       IN /\ Now([run EXCEPT ![r].pc = IF complete THEN "completing" ELSE "ended",
                             ![r].aborted = @ /\ complete], live)
          /\ pending' = pending \cup {Call("fail", i) : i \in {j \in {id} : open /\ ~complete}}
    /\ UNCHANGED <<durable, outside, retries, recovering, faults>>

\* Mutant: the answer is stored whatever has become of the attempt.
Unchanged_anyway(id) == TRUE
\* What the compare-and-set of complete() asks for: validAttemptTransition stores an
\* answer over "active" only.
Unchanged(id) == Status(id) = "active"
\* complete(): the answer becomes durable, the entry is cleared, the delivery begins.
Complete(r) ==
    /\ run[r].pc = "completing"
    /\ LET id == run[r].id IN
       IF Unchanged(id)
       THEN /\ \E size \in 0..MaxBurst :
                 attempts' = [attempts EXCEPT ![id[1]][id[2]] =
                                 [@ EXCEPT !.status = "delivery-pending", !.size = size]]
            /\ Now([Cleared(id, FALSE) EXCEPT ![r].pc = "ended", ![r].aborted = FALSE], live \ Entries(id))
            /\ pending' = pending \cup {Call("deliver", id)}
       ELSE /\ Now([run EXCEPT ![r].pc = "ended", ![r].aborted = FALSE], live)
            /\ UNCHANGED <<attempts, pending>>
    /\ UNCHANGED <<selection, pointer, room, outside, retries, recovering, faults>>

-----------------------------------------------------------------------------
(* resumeDelivery *)

Becomes(c, d) == pending' = (pending \ {c}) \cup {d}

\* Its beginning: an answer whose authority changed is dropped, another one is delivered.
Deliver(c) ==
    /\ c \in pending /\ c.kind = "deliver" /\ c.at = "start"
    /\ IF AttemptCurrent(c.id)
       THEN Becomes(c, [c EXCEPT !.at = "sending"]) /\ UNCHANGED attempts
       ELSE /\ pending' = pending \ {c}
            /\ IF Status(c.id) = "delivery-pending" THEN SetStatus(c.id, "completed")
               ELSE UNCHANGED attempts
    /\ UNCHANGED <<selection, pointer, room, outside, run, live, retries, recovering, faults>>

AddCommandDeliveryMessageOnce(id, k) ==
    room' = IF <<id, k>> \in Range(room) THEN room ELSE Append(room, <<id, k>>)

\* deliverTask stores one message after the other, then the attempt is complete.
DeliverTask(c) ==
    /\ c \in pending /\ c.kind = "deliver" /\ c.at = "sending"
    /\ IF c.sent < At(c.id).size
       THEN /\ AddCommandDeliveryMessageOnce(c.id, c.sent + 1)
            /\ Becomes(c, [c EXCEPT !.sent = @ + 1]) /\ UNCHANGED attempts
       ELSE /\ pending' = pending \ {c} /\ UNCHANGED room
            /\ IF Status(c.id) = "delivery-pending" THEN SetStatus(c.id, "completed")
               ELSE UNCHANGED attempts
    /\ UNCHANGED <<selection, pointer, outside, run, live, retries, recovering, faults>>

\* The store refuses a message: the answer waits for a resubmission or a restart.
DeliveryFails(c) ==
    /\ c \in pending /\ c.kind = "deliver" /\ c.at = "sending" /\ Event /\ failed' = TRUE
    /\ pending' = pending \ {c}
    /\ UNCHANGED <<durable, outside, run, live, retries, recovering, repeated>>

-----------------------------------------------------------------------------
(* The watchdogs and failAndReassign *)

Watchdog(r) ==
    /\ run[r].timer # "none"
    /\ Now([run EXCEPT ![r].timer = "none"], live)
    /\ pending' = pending \cup {Call("fail", run[r].id)}
    /\ UNCHANGED <<durable, outside, retries, recovering, faults>>

\* failAndReassign reads the attempt, and gives up its entry before it stores anything.
FailAndReassign(c) ==
    /\ c \in pending /\ c.kind = "fail" /\ c.at = "start"
    /\ IF Status(c.id) \in {"queued", "active"}
       THEN /\ Becomes(c, [c EXCEPT !.at = Status(c.id)])
            /\ Now(Cleared(c.id, TRUE), live \ Entries(c.id))
       ELSE pending' = pending \ {c} /\ UNCHANGED <<live, run>>
    /\ UNCHANGED <<durable, outside, retries, recovering, faults>>

Tried(t) == {attempts[t][n].agent : n \in DOMAIN attempts[t]}
Successors(t) == IF selection[t] = NoAgent THEN RoundRobin(Tried(t)) ELSE {}

\* reassignCommandAttempt, or compareAndSetCommandAttempt without a successor.
Supersede(id, next) ==
    attempts' = [attempts EXCEPT ![id[1]] = [@ EXCEPT ![id[2]].status = "superseded"] \o next]

\* The write of failAndReassign: it is lost when the attempt moved on, else the attempt is
\* superseded, with a successor if there is one, and the room is told; a publication that
\* fails leaves the successor without a launch.
Reassign(c) ==
    /\ c \in pending /\ c.kind = "fail" /\ c.at \in {"queued", "active"}
    /\ LET t == c.id[1]
           next == <<t, Len(attempts[t]) + 1>>
       IN \/ /\ Status(c.id) # c.at
             /\ pending' = pending \ {c} /\ UNCHANGED <<attempts, pointer, live, run, faults>>
          \/ /\ Status(c.id) = c.at
             /\ Now(Cleared(c.id, TRUE), live \ Entries(c.id))
             /\ \/ /\ Successors(t) = {} /\ Supersede(c.id, << >>)
                   /\ pending' = pending \ {c} /\ UNCHANGED <<pointer, faults>>
                \/ \E a \in Successors(t) :
                     /\ Supersede(c.id, <<Attempt(a)>>) /\ pointer' = a
                     /\ \/ /\ pending' = (pending \ {c}) \cup {Call("launch", next)}
                           /\ UNCHANGED faults
                        \/ /\ Event /\ failed' = TRUE /\ UNCHANGED repeated
                           /\ pending' = pending \ {c}
    /\ UNCHANGED <<selection, room, outside, retries, recovering>>

-----------------------------------------------------------------------------
(* Restarts *)

\* The process ends; what is durable stays, and the revision of RoomActivity starts over.
Restart ==
    /\ Event
    /\ run' = [r \in Runs |-> Free] /\ live' = {} /\ pending' = {} /\ retries' = {} /\ taken' = {} /\ epoch' = 0
    /\ recovering' = {id \in Ids : Status(id) \in {"queued", "active", "delivery-pending"}}
    /\ UNCHANGED <<durable, revision, enabled, barred, uses, failed, repeated>>

\* initialize(): a stored answer is delivered, a queued attempt launched again, an active
\* one has lost its process and waits for the second watchdog (armRecovered).
Recover(id) ==
    /\ id \in recovering /\ recovering' = recovering \ {id}
    /\ CASE Status(id) = "delivery-pending" ->
              pending' = pending \cup {Call("deliver", id)} /\ UNCHANGED <<run, live>>
         [] Status(id) = "queued" ->
              pending' = pending \cup {Call("relaunch", id)} /\ UNCHANGED <<run, live>>
         [] OTHER ->
              /\ Starts(id, [NewRun(id) EXCEPT !.pc = "ended", !.timer = "stage2", !.lease = "none"])
              /\ UNCHANGED pending
    /\ UNCHANGED <<durable, outside, retries, faults>>

-----------------------------------------------------------------------------
(* The rest of the server *)

Interrupt ==
    /\ Event
    /\ epoch' = epoch + 1
    /\ UNCHANGED <<durable, revision, enabled, taken, barred, uses, process, failed, repeated>>

EditRoster(a) ==
    /\ Event
    /\ revision' = revision + 1
    /\ enabled' = (enabled \ {a}) \cup ({a} \ enabled)
    /\ UNCHANGED <<durable, epoch, taken, barred, uses, process, failed, repeated>>

Take(a) ==
    /\ uses < MaxUses /\ CanReserve(a) /\ taken' = taken \cup {a} /\ uses' = uses + 1
    /\ UNCHANGED <<durable, epoch, revision, enabled, barred, process, faults>>

GiveBack ==
    /\ taken # {} /\ taken' = {}
    /\ UNCHANGED <<durable, epoch, revision, enabled, barred, uses, process, faults>>

\* A turn elsewhere records the health of its participant, a cool-down ends, a person asks
\* for a provider again or a restart forgets that, protected work or the room's job
\* begins or ends.  Bad health and a used-up provider do not end by themselves.
Bar(a) ==
    /\ \/ a \in barred /\ barred' = barred \ {a} /\ UNCHANGED uses
       \/ a \notin barred /\ uses < MaxUses /\ barred' = barred \cup {a} /\ uses' = uses + 1
    /\ UNCHANGED <<durable, epoch, revision, enabled, taken, process, faults>>

-----------------------------------------------------------------------------
Proceed(c) == Launch(c) \/ Deliver(c) \/ DeliverTask(c) \/ FailAndReassign(c) \/ Reassign(c)
Write(r)   == Claim(r) \/ Outcome(r) \/ Complete(r)

Next ==
    \/ \E t \in Tasks : Submit(t) \/ Resubmit(t)
    \/ \E c \in pending : Proceed(c) \/ DeliveryFails(c)
    \/ \E r \in Runs : Activate(r) \/ Settle(r) \/ Write(r) \/ Watchdog(r)
    \/ \E id \in retries : Retry(id)
    \/ \E id \in recovering : Recover(id)
    \/ \E a \in Agents : EditRoster(a) \/ Take(a) \/ Bar(a)
    \/ Restart \/ Interrupt \/ GiveBack

Resume(id) == \/ Recover(id) \/ Retry(id)
              \/ \E c \in pending : c.kind = "relaunch" /\ c.id = id /\ Proceed(c)

\* Calls and writes that began proceed, deferred attempts are tried again, timers fire,
\* an aborted process settles and other parts of the server give their reservations
\* back.  A provider may hang, and who is barred may stay so.
Fairness ==
    /\ WF_vars(\E c \in pending : c.kind # "relaunch" /\ Proceed(c))
    /\ \A id \in Tasks \X Agents : WF_vars(Resume(id))
    /\ WF_vars(\E r \in Runs : Write(r) \/ Watchdog(r) \/ (run[r].aborted /\ Settle(r)))
    /\ WF_vars(GiveBack)

Spec == Init /\ [][Next]_vars /\ Fairness

-----------------------------------------------------------------------------
(* What the runtime promises *)

\* A task has one open attempt at most, its last one, and asks no participant twice.
OneAttempt ==
    \A t \in Tasks : \A n, m \in DOMAIN attempts[t] : n < m =>
        /\ attempts[t][n].status = "superseded"
        /\ attempts[t][n].agent # attempts[t][m].agent

\* No message of a command is stored twice, those of a task come from one attempt, and
\* never from one that was taken away from its participant; no participant is asked twice.
OneAnswer ==
    /\ \A i, j \in DOMAIN room : room[i] = room[j] => i = j
    /\ \A i, j \in DOMAIN room : room[i][1][1] = room[j][1][1] => room[i][1] = room[j][1]
    /\ \A i \in DOMAIN room : Status(room[i][1]) \in {"delivery-pending", "completed"}
    /\ OneAttempt

\* A recovered attempt that was put off, of a participant that is barred.
PutOff(t) == LET id == <<t, Len(attempts[t])>> IN id \in retries /\ At(id).agent \in barred
Settled(t) == Status(<<t, Len(attempts[t])>>) \in {"completed", "superseded"}

\* An accepted task ends, with its answer or as one that nobody could do, when no
\* publication fails and it is not put off again and again: a recovered attempt waits for
\* its participant as long as that is barred, and nobody else gets the task.  What was
\* accepted stays so, hence this is []<> and says the same as a ~> would.
TasksSettle == \A t \in Tasks :
    []<>(attempts[t] = << >> \/ Settled(t) \/ failed \/ PutOff(t))

\* Every reservation of a launch is given back, as []<> for the same reason.
LeasesReturned == \A r \in Runs : []<>(run[r].lease = "none" \/ repeated)

=============================================================================
