------------------------------ MODULE RoomTurns ------------------------------
(***************************************************************************)
(* A message enters the room, interrupts what the agents are saying, and   *)
(* is answered by a later job.                                             *)
(*                                                                         *)
(* Four parts of the server share this behaviour:                          *)
(*   - the message routes and the settings route (server/index.ts);        *)
(*   - CoalescingJobQueue, one job at a time, one pending job per key      *)
(*     (server/job-queue.ts);                                              *)
(*   - RoomActivity, a revision that every interruption moves              *)
(*     (server/room-activity.ts);                                          *)
(*   - performTurnUnchecked and deliverBurst, which turn a generation into *)
(*     messages of the room (server/index.ts, server/burst-delivery.ts).   *)
(* One action is what the process does between two awaits.  A write of the *)
(* store changes its state when it is called, and is then awaited.  The    *)
(* conversation engine is left open here: it may start any turn, in any    *)
(* order, up to the concurrency limit (EnergyConversation has its policy). *)
(***************************************************************************)
EXTENDS Integers, Sequences, FiniteSets, SequencesExt

CONSTANTS
    Agents,           \* participants of the roster
    RoomMessages,     \* messages posted on /api/messages
    Continuations,    \* those of them that carry a continuation request
    DeveloperMessages,\* messages delivered through the developer bridge
    ConcurrencyLimit, \* agentConcurrency
    MaxTurns,         \* bound: turns started in a behaviour
    MaxBurst,         \* bound: visible messages of a turn
    MaxTopics,        \* bound: topic changes
    MaxRosterEdits,   \* bound: roster edits
    MaxActions,       \* bound: room actions (ask, review, roundtable, continue)
    MaxFailures,      \* bound: store writes and route steps that throw
    MayShutDown       \* whether the server shuts down in a behaviour

Messages == RoomMessages \cup DeveloperMessages

ASSUME RoomTurnsAssumption ==
    /\ IsFiniteSet(Messages)
    /\ RoomMessages \cap DeveloperMessages = {}
    /\ Continuations \subseteq RoomMessages
    /\ {ConcurrencyLimit, MaxTurns} \subseteq Nat \ {0}
    /\ {MaxBurst, MaxTopics, MaxRosterEdits, MaxActions, MaxFailures} \subseteq Nat
    /\ MayShutDown \in BOOLEAN

VARIABLES
    route,     \* route[m]: how far the handler of message m went
    place,     \* place[m]: position of m in the transcript, 0 when absent
    stored,    \* number of messages in the transcript
    revision,  \* RoomActivity.revision
    topic,     \* number of topic changes so far
    roster,    \* revision of the roster
    enabled,   \* enabled participants of the roster
    pending,   \* CoalescingJobQueue.pending, the keys
    closed,    \* CoalescingJobQueue.closed
    stopping,  \* performShutdown went past roomActivity.interrupt()
    job,       \* the job that runs; its key is "none" when running is false
    turn,      \* turn[t]: the t-th turn, with its position in the code
    session,   \* session[a]: turn whose provider session is stored, 0 if none
    cursor,    \* cursor[a]: lastSeenMessageId as a position, 0 if null
    consumed,  \* history: transcript length seen by the latest message job
    failures,  \* history: what has thrown so far
    actions    \* history: room actions accepted so far

roomVars  == <<topic, roster, enabled>>
queueVars == <<pending, closed, stopping, job, consumed>>
agentVars == <<session, cursor>>
vars == <<route, place, stored, revision, roomVars, queueVars, turn,
          agentVars, failures, actions>>

-----------------------------------------------------------------------------
(* Where a turn is, named for what it awaits:                              *)
(*   generating   runAgent                                                 *)
(*   generated    the health and journal writes after it                   *)
(*   pacing       RoomActivity.wait, before a message of the burst         *)
(*   saving       setSession, before the first message                     *)
(*   posting      addMessage of one message of the burst                   *)
(*   quiet        setSession of a turn without visible message             *)
(*   closing      its status message                                       *)
(* and how it ended; overtaken is "activity-changed-after-delivery".       *)
Awaiting == {"generating", "generated", "pacing", "saving", "posting", "quiet", "closing"}
Ended    == {"cancelled", "failed", "thrown", "delivered", "overtaken"}

Active       == {t \in DOMAIN turn : turn[t].pc \in Awaiting}
ActiveOf(a)  == {t \in Active : turn[t].agent = a}
NoJob        == [key |-> "none", failed |-> FALSE]
Rejected     == [key |-> "none", failed |-> TRUE]
Idle         == job.key = "none"
MessageKeys  == {"message-conversation", "developer-message-conversation"}
Keys         == MessageKeys \cup {"action"}
KeyOf(m)     == IF m \in RoomMessages THEN "message-conversation"
                ELSE "developer-message-conversation"

TurnRecord == [agent : Agents, pc : Awaiting \cup Ended, rev : Nat, seen : Nat,
               roster : Nat, topic : Nat, size : Nat, written : Nat]
JobRecord  == [key : Keys \cup {"none"}, failed : BOOLEAN]

TypeOK ==
    /\ route \in [Messages -> {"new", "stored", "announced", "queued", "dropped"}]
    /\ place \in [Messages -> Nat] /\ stored \in Nat
    /\ revision \in Nat /\ topic \in Nat /\ roster \in Nat
    /\ enabled \subseteq Agents
    /\ pending \in Seq(Keys) /\ closed \in BOOLEAN /\ stopping \in BOOLEAN
    /\ job \in JobRecord
    /\ turn \in Seq(TurnRecord)
    /\ session \in [Agents -> 0..Len(turn)]
    /\ cursor \in [Agents -> Nat]
    /\ consumed \in Nat /\ failures \in Nat /\ actions \in Nat

Init ==
    /\ route = [m \in Messages |-> "new"]
    /\ place = [m \in Messages |-> 0] /\ stored = 0
    /\ revision = 0 /\ topic = 0 /\ roster = 1 /\ enabled = Agents
    /\ pending = << >> /\ closed = FALSE /\ stopping = FALSE
    /\ job = NoJob /\ turn = << >>
    /\ session = [a \in Agents |-> 0] /\ cursor = [a \in Agents |-> 0]
    /\ consumed = 0 /\ failures = 0 /\ actions = 0

-----------------------------------------------------------------------------
(* CoalescingJobQueue *)

\* A job that starts takes the snapshot of its state, which for a message job
\* holds every message stored so far.
Starts(key) ==
    /\ job' = [key |-> key, failed |-> FALSE]
    /\ consumed' = IF key \in MessageKeys THEN stored ELSE consumed

\* enqueue: rejected when closed, coalesced with a pending job of its key while
\* one runs, else queued; an idle queue drains at once, and starts with what a
\* rejected drain left behind.
Enqueue(key) ==
    IF closed \/ (~Idle /\ key \in ToSet(pending))
    THEN UNCHANGED <<pending, job, consumed>>
    ELSE LET waiting == Append(pending, key) IN
         IF Idle
         THEN Starts(Head(waiting)) /\ pending' = Tail(waiting)
         ELSE pending' = waiting /\ UNCHANGED <<job, consumed>>

\* Mutant: a failed job stops the drain, so the pending jobs wait for ever.
JobEnds_stuck ==
    /\ ~Idle /\ Active = {}
    /\ revision' = IF job.failed THEN revision + 1 ELSE revision
    /\ IF pending = << >> \/ job.failed
       THEN job' = NoJob /\ UNCHANGED <<pending, consumed>>
       ELSE Starts(Head(pending)) /\ pending' = Tail(pending)
    /\ UNCHANGED <<route, place, stored, roomVars, closed, stopping, turn,
                   agentVars, failures, actions>>

\* The conversation returns when none of its turns is left; runJob interrupts
\* once more when it threw, and drain shifts the next job.
JobEnds ==
    /\ ~Idle /\ Active = {}
    /\ revision' = IF job.failed THEN revision + 1 ELSE revision
    /\ IF pending = << >>
       THEN job' = NoJob /\ UNCHANGED <<pending, consumed>>
       ELSE Starts(Head(pending)) /\ pending' = Tail(pending)
    /\ UNCHANGED <<route, place, stored, roomVars, closed, stopping, turn,
                   agentVars, failures, actions>>

\* A status write of the job itself throws, "working" before its turns or "idle"
\* after them.
StatusThrows ==
    /\ failures < MaxFailures
    /\ ~Idle /\ ~job.failed /\ Active = {}
    /\ job' = [job EXCEPT !.failed = TRUE]
    /\ failures' = failures + 1
    /\ UNCHANGED <<route, place, stored, revision, roomVars, pending, closed, stopping,
                   consumed, turn, agentVars, actions>>

\* runJob interrupts and its own report of the failure throws: the job rejects,
\* and drain ends with it although jobs are pending.
ReportFails ==
    /\ failures < MaxFailures
    /\ ~Idle /\ job.failed /\ Active = {}
    /\ revision' = revision + 1
    /\ job' = Rejected
    /\ failures' = failures + 1
    /\ UNCHANGED <<route, place, stored, roomVars, pending, closed, stopping, consumed,
                   turn, agentVars, actions>>

-----------------------------------------------------------------------------
(* The routes *)

Stores(m) ==
    /\ stored' = stored + 1
    /\ place' = [place EXCEPT ![m] = stored + 1]

\* POST /api/messages, up to the write of the message.
ReceiveRoomMessage(m) ==
    /\ m \in RoomMessages /\ route[m] = "new"
    /\ Stores(m)
    /\ route' = [route EXCEPT ![m] = "stored"]
    /\ UNCHANGED <<revision, roomVars, queueVars, turn, agentVars, failures, actions>>

\* Mutant: the message is queued without interrupting the turns under way.
AnnounceRoomMessage_silent(m) ==
    /\ m \in RoomMessages /\ route[m] = "stored"
    /\ UNCHANGED <<revision, stored>>
    /\ IF m \in Continuations
       THEN route' = [route EXCEPT ![m] = "announced"] /\ UNCHANGED queueVars
       ELSE /\ route' = [route EXCEPT ![m] = "queued"]
            /\ Enqueue(KeyOf(m)) /\ UNCHANGED <<closed, stopping>>
    /\ UNCHANGED <<place, roomVars, turn, agentVars, failures, actions>>

\* After the write and the continuation: interrupt, and enqueue at once unless
\* the status of a continuation is written in between.
AnnounceRoomMessage(m) ==
    /\ m \in RoomMessages /\ route[m] = "stored"
    /\ revision' = revision + 1 /\ UNCHANGED stored
    /\ IF m \in Continuations
       THEN route' = [route EXCEPT ![m] = "announced"] /\ UNCHANGED queueVars
       ELSE /\ route' = [route EXCEPT ![m] = "queued"]
            /\ Enqueue(KeyOf(m)) /\ UNCHANGED <<closed, stopping>>
    /\ UNCHANGED <<place, roomVars, turn, agentVars, failures, actions>>

\* deliverMcpDeveloperMessage and deliverDeveloperMessage: interrupt, then write.
ReceiveDeveloperMessage(m) ==
    /\ m \in DeveloperMessages /\ route[m] = "new"
    /\ revision' = revision + 1
    /\ Stores(m)
    /\ route' = [route EXCEPT ![m] = "announced"]
    /\ UNCHANGED <<roomVars, queueVars, turn, agentVars, failures, actions>>

\* The last write was awaited: the handler enqueues the conversation.
EnqueueConversation(m) ==
    /\ route[m] = "announced"
    /\ route' = [route EXCEPT ![m] = "queued"]
    /\ UNCHANGED stored /\ Enqueue(KeyOf(m))
    /\ UNCHANGED <<place, revision, roomVars, closed, stopping, turn, agentVars,
                   failures, actions>>

\* The awaited write or continuation throws: the handler answers an error.  A
\* retry of the client takes the duplicate path, which enqueues nothing.
RouteThrows(m) ==
    /\ failures < MaxFailures /\ route[m] \in {"stored", "announced"}
    /\ route' = [route EXCEPT ![m] = "dropped"]
    /\ failures' = failures + 1
    /\ UNCHANGED <<place, stored, revision, roomVars, queueVars, turn, agentVars, actions>>

\* POST /api/actions: refused while a job runs.
RoomAction ==
    /\ actions < MaxActions /\ Idle
    /\ actions' = actions + 1
    /\ UNCHANGED stored /\ Enqueue("action")
    /\ UNCHANGED <<route, place, revision, roomVars, closed, stopping, turn,
                   agentVars, failures>>

\* PATCH /api/settings with another topic: interrupt, then forget every session
\* and cursor.
ChangeTopic ==
    /\ topic < MaxTopics
    /\ revision' = revision + 1 /\ topic' = topic + 1
    /\ session' = [a \in Agents |-> 0] /\ cursor' = [a \in Agents |-> 0]
    /\ UNCHANGED <<route, place, stored, roster, enabled, queueVars, turn,
                   failures, actions>>

\* updateRoster: a new revision; a participant that is disabled or whose
\* configuration changed loses its session.
EditRoster(a, on, reconfigured) ==
    /\ roster <= MaxRosterEdits
    /\ roster' = roster + 1
    /\ enabled' = IF on THEN enabled \cup {a} ELSE enabled \ {a}
    /\ session' = [b \in Agents |->
                     IF b \notin enabled' \/ (b = a /\ reconfigured) THEN 0 ELSE session[b]]
    /\ UNCHANGED <<route, place, stored, revision, topic, queueVars, turn, cursor,
                   failures, actions>>

\* performShutdown: close the queue, which drops the pending jobs ...
CloseQueue ==
    /\ MayShutDown /\ ~closed
    /\ closed' = TRUE /\ pending' = << >>
    /\ UNCHANGED <<route, place, stored, revision, roomVars, stopping, job, consumed,
                   turn, agentVars, failures, actions>>

\* ... and interrupt once the command runtime has closed.
InterruptAtShutdown ==
    /\ closed /\ ~stopping
    /\ stopping' = TRUE /\ revision' = revision + 1
    /\ UNCHANGED <<route, place, stored, roomVars, pending, closed, job, consumed, turn,
                   agentVars, failures, actions>>

-----------------------------------------------------------------------------
(* Turns *)

routeFrame == <<route, place, stored, roomVars, pending, closed, stopping, consumed, actions>>

Goto(t, pc) == turn' = [turn EXCEPT ![t].pc = pc]
Forget(t) == session' = [session EXCEPT ![turn[t].agent] = 0]
KeepSession(t) == session' = [session EXCEPT ![turn[t].agent] = t]

\* agentStillEnabled: the roster has not changed since the turn began.
StillEnabled(t) == turn[t].roster = roster
\* RoomActivity.isCurrent for the revision of the turn.
Current(t)      == turn[t].rev = revision
Deliverable(t)  == Current(t) /\ StillEnabled(t)

\* The conversation starts a turn: its snapshot of the transcript, its revision
\* and its roster epoch are read together.  A participant that is disabled,
\* protected or without capacity returns before that and changes nothing.
StartTurn(a) ==
    /\ ~Idle /\ ~job.failed /\ Len(turn) < MaxTurns
    /\ a \in enabled /\ ActiveOf(a) = {} /\ Cardinality(Active) < ConcurrencyLimit
    /\ turn' = Append(turn, [agent |-> a, pc |-> "generating", rev |-> revision,
                             seen |-> stored, roster |-> roster, topic |-> topic,
                             size |-> 0, written |-> 0])
    /\ UNCHANGED <<routeFrame, revision, job, agentVars, failures>>

\* runAgent returns a result of n visible messages.
Generated(t, n) ==
    /\ turn[t].pc = "generating"
    /\ turn' = [turn EXCEPT ![t].pc = "generated", ![t].size = n]
    /\ UNCHANGED <<routeFrame, revision, job, agentVars, failures>>

\* runAgent throws.  A stale roster forgets the session; an abort needs an
\* interruption; any other error is recorded as a failure of the provider.
GenerationFails(t) ==
    /\ turn[t].pc = "generating"
    /\ IF StillEnabled(t)
       THEN /\ UNCHANGED session
            /\ \/ ~Current(t) /\ Goto(t, "cancelled")
               \/ Goto(t, "failed")
       ELSE Forget(t) /\ Goto(t, "cancelled")
    /\ UNCHANGED <<routeFrame, revision, job, cursor, failures>>

\* runAgent found its stored session unusable and invalidated it.
InvalidateSession(t) ==
    /\ turn[t].pc = "generating" /\ session[turn[t].agent] # 0
    /\ Forget(t)
    /\ UNCHANGED <<routeFrame, revision, job, turn, cursor, failures>>

\* Mutant: the session of the result is saved before the result is discarded.
Interpret_careless(t) ==
    /\ turn[t].pc = "generated"
    /\ IF ~Deliverable(t)
       THEN KeepSession(t) /\ Goto(t, "cancelled")
       ELSE IF turn[t].size = 0
       THEN KeepSession(t) /\ Goto(t, "quiet")
       ELSE Goto(t, "pacing") /\ UNCHANGED session
    /\ UNCHANGED <<routeFrame, revision, job, cursor, failures>>

\* The result is interpreted; it is discarded when the room or the roster moved.
\* Without a visible message the session is saved at once.
Interpret(t) ==
    /\ turn[t].pc = "generated"
    /\ IF ~Deliverable(t)
       THEN Forget(t) /\ Goto(t, "cancelled")
       ELSE IF turn[t].size = 0
       THEN KeepSession(t) /\ Goto(t, "quiet")
       ELSE Goto(t, "pacing") /\ UNCHANGED session
    /\ UNCHANGED <<routeFrame, revision, job, cursor, failures>>

Post(t) == turn' = [turn EXCEPT ![t].pc = "posting", ![t].written = @ + 1]

\* The wait before a message ends.  A stale burst is cancelled and its session
\* forgotten; the first message saves the session before it is written.
Pace(t) ==
    /\ turn[t].pc = "pacing"
    /\ IF ~Deliverable(t)
       THEN Forget(t) /\ Goto(t, "cancelled")
       ELSE IF turn[t].written = 0
       THEN KeepSession(t) /\ Goto(t, "saving")
       ELSE Post(t) /\ UNCHANGED session
    /\ UNCHANGED <<routeFrame, revision, job, cursor, failures>>

\* Mutant: nothing is checked again after the session was saved.
SessionSaved_unchecked(t) ==
    /\ turn[t].pc = "saving"
    /\ Post(t) /\ UNCHANGED session
    /\ UNCHANGED <<routeFrame, revision, job, cursor, failures>>

\* setSession returned: the turn is checked again before its first message.
SessionSaved(t) ==
    /\ turn[t].pc = "saving"
    /\ IF Deliverable(t)
       THEN Post(t) /\ UNCHANGED session
       ELSE Forget(t) /\ Goto(t, "cancelled")
    /\ UNCHANGED <<routeFrame, revision, job, cursor, failures>>

\* advanceAgentContextCursor, for a disposition that is not malformed.
AdvanceCursor(t) ==
    cursor' = IF StillEnabled(t) THEN [cursor EXCEPT ![turn[t].agent] = turn[t].seen]
              ELSE cursor

\* Mutant: the cursor moves with every message of the burst.
MessagePosted_eager(t) ==
    /\ turn[t].pc = "posting"
    /\ IF turn[t].written < turn[t].size
       THEN Goto(t, "pacing") /\ AdvanceCursor(t)
       ELSE IF ~Current(t)
       THEN Goto(t, "overtaken") /\ UNCHANGED cursor
       ELSE Goto(t, "delivered") /\ (AdvanceCursor(t) \/ UNCHANGED cursor)
    /\ UNCHANGED <<routeFrame, revision, job, session, failures>>

\* addMessage returned.  After the last message the turn is complete, unless
\* the room moved meanwhile: then the cursor stays.
MessagePosted(t) ==
    /\ turn[t].pc = "posting"
    /\ IF turn[t].written < turn[t].size
       THEN Goto(t, "pacing") /\ UNCHANGED cursor
       ELSE IF ~Current(t)
       THEN Goto(t, "overtaken") /\ UNCHANGED cursor
       ELSE Goto(t, "delivered") /\ (AdvanceCursor(t) \/ UNCHANGED cursor)
    /\ UNCHANGED <<routeFrame, revision, job, session, failures>>

\* setSession of a quiet turn returned: keep it only if nothing moved.
QuietSaved(t) ==
    /\ turn[t].pc = "quiet"
    /\ IF Deliverable(t)
       THEN Goto(t, "closing") /\ UNCHANGED session
       ELSE Forget(t) /\ Goto(t, "cancelled")
    /\ UNCHANGED <<routeFrame, revision, job, cursor, failures>>

\* The status message of a quiet turn was written.
QuietClosed(t) ==
    /\ turn[t].pc = "closing"
    /\ Goto(t, "delivered")
    /\ AdvanceCursor(t) \/ UNCHANGED cursor
    /\ UNCHANGED <<routeFrame, revision, job, session, failures>>

\* Mutant: the error is passed on without interrupting the other turns.
TurnThrows_alone(t) ==
    /\ failures < MaxFailures
    /\ turn[t].pc \in Awaiting \ {"generating"}
    /\ Goto(t, "thrown")
    /\ UNCHANGED revision
    /\ job' = [job EXCEPT !.failed = TRUE]
    /\ failures' = failures + 1
    /\ UNCHANGED <<routeFrame, agentVars>>

\* A write of the store or of the journal throws: performTurn interrupts the
\* room and passes the error on, and the conversation fails once its other
\* turns have settled.  What the turn already saved stays.
TurnThrows(t) ==
    /\ failures < MaxFailures
    /\ turn[t].pc \in Awaiting \ {"generating"}
    /\ Goto(t, "thrown")
    /\ revision' = revision + 1
    /\ job' = [job EXCEPT !.failed = TRUE]
    /\ failures' = failures + 1
    /\ UNCHANGED <<routeFrame, agentVars>>

TurnStep(t) ==
    \/ \E n \in 0..MaxBurst : Generated(t, n)
    \/ GenerationFails(t)
    \/ Interpret(t)
    \/ Pace(t)
    \/ SessionSaved(t)
    \/ MessagePosted(t)
    \/ QuietSaved(t)
    \/ QuietClosed(t)

Next ==
    \/ \E m \in Messages : \/ ReceiveRoomMessage(m)
                           \/ AnnounceRoomMessage(m)
                           \/ ReceiveDeveloperMessage(m)
                           \/ EnqueueConversation(m)
                           \/ RouteThrows(m)
    \/ RoomAction
    \/ ChangeTopic
    \/ \E a \in Agents, on \in BOOLEAN, reconfigured \in BOOLEAN :
           EditRoster(a, on, reconfigured)
    \/ CloseQueue
    \/ InterruptAtShutdown
    \/ JobEnds
    \/ StatusThrows
    \/ ReportFails
    \/ \E a \in Agents : StartTurn(a)
    \/ \E t \in DOMAIN turn : TurnStep(t) \/ InvalidateSession(t) \/ TurnThrows(t)

Spec == Init /\ [][Next]_vars

\* A provider process ends within its timeout and every timer and write of a
\* turn completes; so does a conversation whose turns have ended.
Fairness ==
    /\ \A t \in 1..MaxTurns : WF_vars(t \in DOMAIN turn /\ TurnStep(t))
    /\ WF_vars(JobEnds)

FairSpec == Spec /\ Fairness

-----------------------------------------------------------------------------
(* Properties *)

Posted(t)    == t \in DOMAIN turn /\ turn'[t].written > turn[t].written
Announced(m) == route[m] \in {"announced", "queued"}

\* An agent only speaks when its prompt held every message that was announced to
\* the room before, from every route, and the room still has the topic and the
\* roster the turn began under, also in the middle of a burst: the checks repeated
\* after each await of the delivery leave no window for a stale remark.
PostsHeardEveryone ==
    [][\A t \in DOMAIN turn : Posted(t) =>
          /\ \A m \in Messages : Announced(m) => place[m] <= turn[t].seen
          /\ turn[t].topic = topic /\ turn[t].roster = roster]_vars

\* Once a turn of a job has thrown, no other turn of that job is heard: the
\* interruption reaches the bursts that are in flight at that moment.
FailureSilencesPeers ==
    [][\A t \in DOMAIN turn : Posted(t) => ~job.failed]_vars

\* The provider session that is stored for an agent at rest is one whose every
\* message reached the room, under the present topic; the only other way to keep
\* one is a write that threw.  A cancelled burst never leaves its session behind.
SessionFollowsDelivery ==
    \A a \in Agents : session[a] # 0 /\ ActiveOf(a) = {} =>
        LET t == turn[session[a]] IN
        /\ t.agent = a /\ t.topic = topic
        /\ \/ t.pc \in {"delivered", "overtaken"} /\ t.written = t.size
           \/ t.pc = "thrown"

\* A cursor only ever points at what a completed turn of that agent was shown: a
\* failed, cancelled or overtaken generation never advances it.
CursorFollowsDelivery ==
    \A a \in Agents : cursor[a] # 0 =>
        \E t \in DOMAIN turn : /\ turn[t].agent = a /\ turn[t].pc = "delivered"
                               /\ turn[t].seen = cursor[a]

\* What is stored about an agent follows what the room was given of its turns.
StoreFollowsDelivery == SessionFollowsDelivery /\ CursorFollowsDelivery

\* Coalescing drops no message: one whose handler has finished was in the snapshot
\* of a job that started, or a job of its key is still pending, until shutdown.
CoalescingLosesNothing ==
    \A m \in Messages : route[m] = "queued" =>
        \/ place[m] <= consumed
        \/ KeyOf(m) \in ToSet(pending)
        \/ closed

\* Every message whose handler finished is eventually in the snapshot of a job,
\* whatever interrupts or fails meanwhile, unless the server shuts down.  Only a
\* drain rejected by the report of a failure leaves it waiting, and then no longer
\* than until the next job is enqueued.
EveryMessageConsumed ==
    \A m \in Messages :
        route[m] = "queued" ~> \/ place[m] <= consumed
                               \/ closed
                               \/ job = Rejected
=============================================================================
