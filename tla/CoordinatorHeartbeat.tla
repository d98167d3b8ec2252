------------------------ MODULE CoordinatorHeartbeat ------------------------
(***************************************************************************)
(* The heartbeat: processes that share a SQLite file take turns, under a   *)
(* lease, to hand governed improvements to an external executor, until a   *)
(* human stops them (server/coordinator-heartbeat.ts, the heartbeat routes *)
(* of server/index.ts).                                                    *)
(*                                                                         *)
(* The reads of the room's repository are awaited and other handlers run   *)
(* in between; the coordinator's own file is read and written at once.     *)
(* The lease, the retry delay and the time budget of a dispatch are set    *)
(* independently of each other.  A process loses its lease while it works  *)
(* when it died, was held up, or was given a budget beyond the lease.      *)
(***************************************************************************)
EXTENDS Integers, Sequences, SequencesExt, FiniteSets

CONSTANTS
    Procs,          \* server processes over the same coordinator file
    Improvements,
    MaxSelected,    \* maxSelectedPerTick, and the size of a page
    MaxDispatched,  \* maxDispatchedPerTick
    MaxAttempts,    \* maxAttempts for a revision of an improvement
    MaxEvents       \* bound: stops, authorizations, ends and starts of a
                    \* process, processes held up, changes of the room's stop
                    \* and of the improvements

Nobody == "nobody"
Gone   == "gone"      \* a process that ended without giving its lease back

ASSUME HeartbeatAssumption ==
    /\ {MaxSelected, MaxDispatched, MaxAttempts} \subseteq Nat \ {0}
    /\ MaxEvents \in Nat
    /\ IsFiniteSet(Improvements)
    /\ Procs \cap {Nobody, Gone} = {}

VARIABLES
    improvement, \* [rev, open]: open when some action is authorized for it
    order,       \* those that are APPROVED or IN_PROGRESS, the last updated first
    roomStop,    \* the emergency stop of the room's repository
    authorized,  \* the stored runtime state: enabled, not emergencyStopped
    lease,       \* the owner of the stored lease
    dispatch,    \* the stored dispatch of a revision of an improvement
    up,          \* processes that run
    timer,       \* processes whose interval is set
    tick,        \* tick[p]: where the tick of p stands
    late,        \* history: processes whose tick has outlived its lease
    overtaken,   \* history: ticks a stop found before their lease or in another process
    twice,       \* history: keys begun while another process waited for them
    halted,      \* history: ticks a stop of their own process found under the lease
    events

room    == <<improvement, order, roomStop>>
stored  == <<authorized, lease, dispatch>>
ticks   == <<late, overtaken, halted>>
history == <<ticks, twice>>
vars    == <<room, stored, up, timer, tick, history, events>>

Revisions == 1..(MaxEvents + 1)
Keys   == [imp : Improvements, rev : Revisions]
Actionable(i) == improvement[i].open
KeyOf(i) == [imp |-> i, rev |-> improvement[i].rev]

NoTick == [pc |-> "idle", cursor |-> 0, work |-> <<>>, count |-> 0, aborted |-> FALSE]

Init ==
    /\ improvement = [i \in Improvements |-> [rev |-> 1, open |-> TRUE]]
    /\ order = SetToSeq(Improvements)
    /\ roomStop = FALSE /\ authorized = TRUE /\ lease = Nobody
    /\ dispatch = [k \in Keys |-> [status |-> "NONE", attempts |-> 0, due |-> FALSE]]
    /\ up = Procs /\ timer = Procs
    /\ tick = [p \in Procs |-> NoTick]
    /\ late = {} /\ overtaken = {} /\ halted = {} /\ twice = {} /\ events = 0

Happens == events < MaxEvents /\ events' = events + 1
At(p, pc) == tick[p].pc = pc
Selected(p) == Head(tick[p].work)
Executing(p, k) == At(p, "executing") /\ Selected(p) = k
-----------------------------------------------------------------------------
(* How a step of a tick ends. *)
Goes(p, t) == tick' = [tick EXCEPT ![p] = t] /\ UNCHANGED <<lease, ticks>>

Released(p) == IF lease = p THEN Nobody ELSE lease

Leave(p) ==
    /\ tick' = [tick EXCEPT ![p] = NoTick] /\ lease' = Released(p)
    /\ late' = late \ {p} /\ overtaken' = overtaken \ {p} /\ halted' = halted \ {p}

Loop(p, t) == IF t.work = <<>> \/ t.count = MaxDispatched
              THEN Leave(p) ELSE Goes(p, [t EXCEPT !.pc = "check"])

Skip(p) == Loop(p, [tick[p] EXCEPT !.work = Tail(@)])

(* The interval and start() call safeTick, which does nothing while a tick runs. *)
Tick(p) ==
    /\ p \in timer /\ At(p, "idle") /\ authorized
    /\ Goes(p, [NoTick EXCEPT !.pc = "gate"])
    /\ UNCHANGED <<room, authorized, dispatch, up, timer, twice, events>>

(* tryAcquireLease *)
\* Mutant: the lease of another process is taken over.
Free_anyway == TRUE
Free == lease = Nobody

(* A tick takes the lease when the room is not stopped. *)
Acquire(p) ==
    /\ At(p, "gate")
    /\ IF roomStop \/ ~Free
       THEN Leave(p)
       ELSE /\ lease' = p /\ tick' = [tick EXCEPT ![p].pc = "select"]
            /\ UNCHANGED ticks
    /\ UNCHANGED <<room, authorized, dispatch, up, timer, twice, events>>

(* candidates: a page of the list as it is now, from the offset on *)
Select(p) ==
    /\ At(p, "select")
    /\ LET from  == tick[p].cursor
           to    == IF from + MaxSelected < Len(order) THEN from + MaxSelected ELSE Len(order)
           open  == SelectSeq(SubSeq(order, from + 1, to), Actionable)
           found == tick[p].work \o [n \in DOMAIN open |-> KeyOf(open[n])]
           t     == [tick[p] EXCEPT !.cursor = to,
                        !.work = SubSeq(found, 1, IF Len(found) < MaxSelected THEN Len(found) ELSE MaxSelected)]
       IN  IF Len(found) < MaxSelected /\ to < Len(order) THEN Goes(p, t) ELSE Loop(p, t)
    /\ UNCHANGED <<room, authorized, dispatch, up, timer, twice, events>>

(* The first look at the room's stop, for a candidate *)
CheckStop(p) ==
    /\ At(p, "check")
    /\ IF roomStop THEN Leave(p) ELSE Goes(p, [tick[p] EXCEPT !.pc = "reread"])
    /\ UNCHANGED <<room, authorized, dispatch, up, timer, twice, events>>

Reread(p) ==
    /\ At(p, "reread")
    /\ LET i == Selected(p).imp
       IN  IF KeyOf(i) = Selected(p) /\ Actionable(i)
           THEN Goes(p, [tick[p] EXCEPT !.pc = "handoff"])
           ELSE Skip(p)
    /\ UNCHANGED <<room, authorized, dispatch, up, timer, twice, events>>

(* beginDispatch *)
\* Mutant: a success does not end the attempts.
Retryable_again(d) ==
    /\ d.attempts < MaxAttempts
    /\ d.status = "DISPATCHING" => d.due
\* Mutant: an attempt that never ended is not tried again.
Retryable_failed(d) == d.status \in {"NONE", "FAILED"} /\ d.attempts < MaxAttempts
Retryable(d) ==
    /\ d.status # "SUCCEEDED" /\ d.attempts < MaxAttempts
    /\ d.status = "DISPATCHING" => d.due

(* The last look at the room's stop, the renewal of the lease, the claim of *)
(* the attempt and the call of the executor. *)
Begin(p) ==
    /\ At(p, "handoff")
    /\ LET k == Selected(p)
       IN  IF roomStop \/ lease # p
           THEN Leave(p) /\ UNCHANGED <<dispatch, twice>>
           ELSE IF Retryable(dispatch[k])
           THEN /\ dispatch' = [dispatch EXCEPT ![k] = [status |-> "DISPATCHING",
                                    attempts |-> @.attempts + 1, due |-> FALSE]]
                /\ twice' = twice \cup {j \in {k} : \E q \in Procs : Executing(q, j)}
                /\ Goes(p, [tick[p] EXCEPT !.pc = "executing"])
           ELSE Skip(p) /\ UNCHANGED <<dispatch, twice>>
    /\ UNCHANGED <<room, authorized, up, timer, events>>

(* The executor answers or fails, the time is up, or a stop aborts the call: *)
(* recordSuccess and recordFailure write whatever the record says.           *)
Settle(p) ==
    /\ At(p, "executing")
    /\ \E status \in (IF tick[p].aborted THEN {"FAILED"} ELSE {"SUCCEEDED", "FAILED"}) :
          dispatch' = [dispatch EXCEPT ![Selected(p)].status = status]
    /\ Loop(p, [tick[p] EXCEPT !.work = Tail(@), !.count = @ + 1, !.aborted = FALSE])
    /\ UNCHANGED <<room, authorized, up, timer, twice, events>>
-----------------------------------------------------------------------------
(* stop *)
\* Mutant: the lease is left to the tick that holds it.
StopTimer_held(p) ==
    /\ timer' = timer \ {p}
    /\ tick' = [tick EXCEPT ![p].aborted = At(p, "executing")]
    /\ UNCHANGED lease
StopTimer(p) ==
    /\ timer' = timer \ {p}
    /\ tick' = [tick EXCEPT ![p].aborted = At(p, "executing")]
    /\ lease' = Released(p)

EmergencyStop(p) ==
    /\ p \in up /\ Happens
    /\ authorized' = FALSE /\ StopTimer(p)
    /\ LET ticking == {q \in Procs : ~At(q, "idle")}
           own     == {p} \cap {q \in ticking : ~At(q, "gate")}
       IN  overtaken' = overtaken \cup (ticking \ own) /\ halted' = halted \cup own
    /\ UNCHANGED <<room, dispatch, up, late, twice>>

Authorize(p) ==
    /\ p \in up /\ Happens
    /\ authorized' = TRUE /\ timer' = timer \cup {p}
    /\ UNCHANGED <<room, lease, dispatch, up, tick, history>>

(* A process ends: close() gives the lease back, a crash does not. What the *)
(* executor was told goes on, and nobody hears of it.                       *)
End(p) ==
    /\ p \in up /\ Happens
    /\ up' = up \ {p} /\ timer' = timer \ {p} /\ tick' = [tick EXCEPT ![p] = NoTick]
    /\ lease' \in {Released(p), IF lease = p THEN Gone ELSE lease}
    /\ late' = late \ {p} /\ overtaken' = overtaken \ {p} /\ halted' = halted \ {p}
    /\ UNCHANGED <<room, authorized, dispatch, twice>>

(* The next process has an owner id of its own. *)
Start(p) ==
    /\ p \notin up /\ Happens
    /\ up' = up \cup {p} /\ timer' = (IF authorized THEN timer \cup {p} ELSE timer)
    /\ UNCHANGED <<room, stored, tick, history>>

(* The time of the lease passes since it was taken or renewed. *)
LeaseExpires ==
    /\ lease # Nobody /\ lease' = Nobody
    /\ IF lease = Gone THEN UNCHANGED <<late, events>>
                       ELSE late' = late \cup {lease} /\ Happens
    /\ UNCHANGED <<room, authorized, dispatch, up, timer, tick, overtaken, halted, twice>>

(* The retry delay passes since an attempt began.  It may be the shorter    *)
(* one, but nobody can tell as long as who waits for it has the lease.      *)
RetryDue(k) ==
    /\ dispatch[k].status = "DISPATCHING" /\ ~dispatch[k].due
    /\ \A p \in Procs : Executing(p, k) => p \in late \/ tick[p].aborted
    /\ dispatch' = [dispatch EXCEPT ![k].due = TRUE]
    /\ UNCHANGED <<room, authorized, lease, up, timer, tick, history, events>>

(* What governs an improvement changes, and with it its revision. *)
Change(i) ==
    /\ Happens
    /\ \E open \in BOOLEAN :
          improvement' = [improvement EXCEPT ![i] = [rev |-> @.rev + 1, open |-> open]]
    /\ order' = <<i>> \o Remove(order, i)
    /\ UNCHANGED <<roomStop, stored, up, timer, tick, history>>

ChangeRoomStop ==
    /\ Happens /\ roomStop' = ~roomStop
    /\ UNCHANGED <<improvement, order, stored, up, timer, tick, history>>

Step(p) == \/ Acquire(p) \/ Select(p) \/ CheckStop(p) \/ Reread(p)
           \/ Begin(p) \/ Settle(p)

Next ==
    \/ \E p \in Procs : \/ Tick(p) \/ Step(p) \/ EmergencyStop(p) \/ Authorize(p)
                        \/ End(p) \/ Start(p)
    \/ LeaseExpires \/ ChangeRoomStop
    \/ \E k \in Keys : RetryDue(k)
    \/ \E i \in Improvements : Change(i)

Spec == Init /\ [][Next]_vars

(* Intervals fire, reads return, a dispatch ends within its time, and what  *)
(* a dead process has left expires.                                         *)
FairSpec ==
    /\ Spec
    /\ \A p \in Procs : WF_vars(Tick(p)) /\ WF_vars(Step(p))
    /\ WF_vars(LeaseExpires /\ lease = Gone)
    /\ \A k \in Keys : WF_vars(RetryDue(k))
-----------------------------------------------------------------------------
TypeOK ==
    /\ improvement \in [Improvements -> [rev : Revisions, open : BOOLEAN]]
    /\ order \in Seq(Improvements)
    /\ roomStop \in BOOLEAN /\ authorized \in BOOLEAN
    /\ lease \in Procs \cup {Nobody, Gone}
    /\ dispatch \in [Keys -> [status : {"NONE", "DISPATCHING", "SUCCEEDED", "FAILED"},
                              attempts : 0..MaxAttempts, due : BOOLEAN]]
    /\ up \subseteq Procs /\ timer \subseteq up
    /\ tick \in [Procs -> [pc : {"idle", "gate", "select", "check", "reread", "handoff", "executing"},
                           cursor : Nat, work : Seq(Keys), count : Nat, aborted : BOOLEAN]]
    /\ late \subseteq Procs /\ overtaken \subseteq Procs /\ halted \subseteq Procs /\ twice \subseteq Keys
    /\ events \in 0..MaxEvents

(***************************************************************************)
(* maxConcurrency is 1: of two processes that wait for the executor, one   *)
(* has been told to stop, or was held up beyond its lease.                 *)
(***************************************************************************)
Waits(p) == At(p, "executing") /\ ~tick[p].aborted
OneDispatch ==
    \A p, q \in Procs : Waits(p) /\ Waits(q) /\ p # q => late \cap {p, q} # {}

(***************************************************************************)
(* A recorded success stands, and its revision is not dispatched again: no *)
(* crash, stop or retry of another process undoes it, unless a process was *)
(* held up so long that another began the same attempt beside it.          *)
(***************************************************************************)
SuccessStands ==
    [][\A k \in Keys : dispatch[k].status = "SUCCEEDED" =>
          dispatch'[k] = dispatch[k] \/ k \in twice]_vars

(***************************************************************************)
(* A stop fences the tick it finds under the lease of its own process: the *)
(* tick begins no further dispatch, not even after a new authorization.    *)
(* Otherwise a dispatch begins only while authorized, except in a tick     *)
(* that had read the runtime state before the stop and had yet to take its *)
(* lease, or that runs in another process.                                 *)
(***************************************************************************)
Begins(p) == At(p, "handoff") /\ tick'[p].pc = "executing"
StopFences ==
    [][\A p \in Procs : Begins(p) => p \notin halted /\ (authorized \/ p \in overtaken)]_vars

(***************************************************************************)
(* While some process stays authorized, every improvement among the first  *)
(* maxSelectedPerTick that are open comes to a success or to its last      *)
(* attempt, whatever process dies on the way.  (Those behind them wait for *)
(* the first ones to be changed.)                                          *)
(***************************************************************************)
Window ==
    LET open == SelectSeq(order, Actionable)
    IN  {open[n] : n \in DOMAIN open \cap 1..MaxSelected}
Done(k) == dispatch[k].status = "SUCCEEDED" \/ dispatch[k].attempts = MaxAttempts
Served == <>[](authorized /\ ~roomStop /\ timer # {})
              => <>[](\A i \in Window : Done(KeyOf(i)))
=============================================================================
