-------------------- MODULE CoordinatorHeartbeat_proofs --------------------
(***************************************************************************)
(* Proofs about CoordinatorHeartbeat for any processes, improvements,      *)
(* limits and number of crashes, stops and authorizations.  The invariant  *)
(* relates each tick to the lease, to the stops and to the stored          *)
(* dispatches.                                                             *)
(***************************************************************************)
EXTENDS CoordinatorHeartbeat, TLAPS

-----------------------------------------------------------------------------
(* The invariant *)

IsTick(t) == t = [pc |-> t.pc, cursor |-> t.cursor, work |-> t.work,
                  count |-> t.count, aborted |-> t.aborted]
Typed ==
    /\ tick = [p \in Procs |-> tick[p]] /\ \A p \in Procs : IsTick(tick[p])
    /\ dispatch \in [Keys -> [status : {"NONE", "DISPATCHING", "SUCCEEDED", "FAILED"},
                              attempts : Nat, due : BOOLEAN]]

\* A process that waits for the executor holds the lease, unless it was held up.
Held == \A p \in Procs : Waits(p) /\ p \notin late => lease = p

\* A tick that a stop of its process found is under way, without the lease.
Fenced == \A p \in Procs : p \in halted =>
              lease # p /\ ~At(p, "idle") /\ ~At(p, "gate")

\* After a stop, every tick under way is one that the stop has found.
Found == ~authorized => \A p \in Procs : At(p, "idle") \/ p \in overtaken \cup halted

\* An attempt under way is the only one of its key, and is recorded as such.
Claimed ==
    \A p \in Procs : \A k \in Keys : Executing(p, k) /\ k \notin twice =>
        /\ dispatch[k].status = "DISPATCHING"
        /\ \A q \in Procs : Executing(q, k) => q = p

HeartbeatInv == Typed /\ Held /\ Fenced /\ Found /\ Claimed

\* Initially no tick is under way.
LEMMA InvInit == Init => HeartbeatInv
  BY DEF Init, HeartbeatInv, Typed, IsTick, Held, Waits, Fenced, Found, Claimed,
         Executing, At, NoTick

-----------------------------------------------------------------------------
(* The steps of a tick *)

\* A step that ends a tick.
LEMMA LeaveStep ==
    ASSUME HeartbeatInv, NEW p \in Procs, Leave(p), UNCHANGED <<authorized, dispatch, twice>>
    PROVE  HeartbeatInv'
  <1>1. /\ tick' = [q \in Procs |-> IF q = p THEN NoTick ELSE tick[q]]
        /\ \A q \in Procs : q # p => (lease = q <=> lease' = q)
        /\ late' = late \ {p} /\ overtaken' = overtaken \ {p} /\ halted' = halted \ {p}
    BY HeartbeatAssumption DEF Leave, Released, HeartbeatInv, Typed
  <1>2. Typed'
    BY <1>1 DEF HeartbeatInv, Typed, IsTick, NoTick
  <1>3. Held' /\ Fenced' /\ Found' /\ Claimed'
    BY <1>1 DEF HeartbeatInv, Held, Waits, Fenced, Found, Claimed, Executing, Selected, At, NoTick
  <1> QED BY <1>2, <1>3 DEF HeartbeatInv

\* A step that moves a tick to a place where it does not wait for the executor.
LEMMA MoveStep ==
    ASSUME HeartbeatInv, NEW p \in Procs, NEW t, Goes(p, t), IsTick(t),
           t.pc \notin {"idle", "executing"}, t.pc = "gate" => At(p, "idle"),
           At(p, "idle") => authorized,
           UNCHANGED <<authorized, dispatch, twice>>
    PROVE  HeartbeatInv'
  <1>1. tick' = [q \in Procs |-> IF q = p THEN t ELSE tick[q]]
    BY DEF Goes, HeartbeatInv, Typed
  <1>2. UNCHANGED <<lease, late, overtaken, halted>>
    BY DEF Goes, ticks
  <1>3. Typed'
    BY <1>1 DEF HeartbeatInv, Typed
  <1>4. Held' /\ Fenced' /\ Found' /\ Claimed'
    BY <1>1, <1>2 DEF HeartbeatInv, Held, Waits, Fenced, Found, Claimed, Executing, Selected, At
  <1> QED BY <1>3, <1>4 DEF HeartbeatInv

\* A step to the next candidate, or to the end.
LEMMA LoopStep ==
    ASSUME HeartbeatInv, NEW p \in Procs, NEW t, Loop(p, t), IsTick(t), ~At(p, "idle"),
           UNCHANGED <<authorized, dispatch, twice>>
    PROVE  HeartbeatInv'
  <1>1. CASE Leave(p)
    BY <1>1, LeaveStep
  <1>2. CASE Goes(p, [t EXCEPT !.pc = "check"])
    <2> DEFINE u == [t EXCEPT !.pc = "check"]
    <2>1. IsTick(u) /\ u.pc = "check"
      BY DEF IsTick
    <2>2. Goes(p, u)
      BY <1>2
    <2> HIDE DEF u
    <2> QED BY <2>1, <2>2, MoveStep
  <1> QED BY <1>1, <1>2 DEF Loop

\* What an update of a tick keeps of it.
LEMMA Updates ==
    ASSUME NEW t, IsTick(t), NEW w, NEW c, NEW pc
    PROVE  /\ IsTick([t EXCEPT !.work = w]) /\ [t EXCEPT !.work = w].pc = t.pc
           /\ IsTick([t EXCEPT !.pc = pc]) /\ [t EXCEPT !.pc = pc].pc = pc
           /\ [t EXCEPT !.pc = pc].work = t.work /\ [t EXCEPT !.pc = pc].aborted = t.aborted
           /\ IsTick([t EXCEPT !.cursor = c]) /\ [t EXCEPT !.cursor = c].pc = t.pc
  <1>1. PICK a, b, d, e, f : t = [pc |-> a, cursor |-> b, work |-> d, count |-> e, aborted |-> f]
    BY DEF IsTick
  <1>2. [t EXCEPT !.work = w] = [pc |-> a, cursor |-> b, work |-> w, count |-> e, aborted |-> f]
    BY <1>1
  <1>3. [t EXCEPT !.pc = pc] = [pc |-> pc, cursor |-> b, work |-> d, count |-> e, aborted |-> f]
    BY <1>1
  <1>4. [t EXCEPT !.cursor = c] = [pc |-> a, cursor |-> c, work |-> d, count |-> e, aborted |-> f]
    BY <1>1
  <1> QED BY <1>1, <1>2, <1>3, <1>4 DEF IsTick

\* The attempt begins under the lease, and is the only one of its key unless
\* the key is known to be attempted twice.
LEMMA BeginStep ==
    ASSUME HeartbeatInv, NEW p \in Procs, Begin(p)
    PROVE  HeartbeatInv'
  <1> DEFINE k == Selected(p)
  <1>t. IsTick(tick[p]) /\ ~At(p, "idle")
    BY DEF HeartbeatInv, Typed, Begin, At
  <1>1. CASE roomStop \/ lease # p
    BY <1>1, LeaveStep DEF Begin
  <1>2. CASE ~(roomStop \/ lease # p) /\ ~Retryable(dispatch[k])
    <2>1. Loop(p, [tick[p] EXCEPT !.work = Tail(@)]) /\ UNCHANGED <<authorized, dispatch, twice>>
      BY <1>2 DEF Begin, Skip
    <2>2. IsTick([tick[p] EXCEPT !.work = Tail(@)])
      BY <1>t, Updates
    <2> QED BY <1>t, <2>1, <2>2, LoopStep
  <1>3. CASE lease = p /\ Retryable(dispatch[k])
               /\ dispatch' = [dispatch EXCEPT ![k] = [status |-> "DISPATCHING",
                                    attempts |-> @.attempts + 1, due |-> FALSE]]
               /\ twice' = twice \cup {j \in {k} : \E q \in Procs : Executing(q, j)}
               /\ Goes(p, [tick[p] EXCEPT !.pc = "executing"])
    <2> DEFINE t == [tick[p] EXCEPT !.pc = "executing"]
    <2>1. tick' = [q \in Procs |-> IF q = p THEN t ELSE tick[q]]
          /\ UNCHANGED <<lease, late, overtaken, halted, authorized>>
      BY <1>3 DEF Goes, HeartbeatInv, Typed, Begin, ticks
    <2>2. IsTick(t) /\ t.pc = "executing" /\ t.work = tick[p].work /\ t.aborted = tick[p].aborted
      BY <1>t, Updates
    <2> HIDE DEF t
    <2>a. k \in Keys => dispatch[k].attempts \in Nat
      BY DEF HeartbeatInv, Typed
    <2>b. dispatch' \in [Keys -> [status : {"NONE", "DISPATCHING", "SUCCEEDED", "FAILED"},
                                  attempts : Nat, due : BOOLEAN]]
      <3> DEFINE D == [status : {"NONE", "DISPATCHING", "SUCCEEDED", "FAILED"},
                       attempts : Nat, due : BOOLEAN]
                 d == [status |-> "DISPATCHING", attempts |-> dispatch[k].attempts + 1, due |-> FALSE]
      <3>1. dispatch \in [Keys -> D] /\ dispatch' = [dispatch EXCEPT ![k] = d]
        BY <1>3 DEF HeartbeatInv, Typed
      <3>2. k \in Keys => d \in D
        BY <2>a
      <3> HIDE DEF d, D, k
      <3>3. dispatch' \in [Keys -> D]
        BY <3>1, <3>2
      <3> QED BY <3>3 DEF D
    <2>3. Typed'
      BY <2>b, <2>1, <2>2 DEF HeartbeatInv, Typed
    <2>4. Held' /\ Fenced' /\ Found'
      BY <1>3, <1>t, <2>1, <2>2 DEF HeartbeatInv, Held, Waits, Fenced, Found, At
    <2>5. \A q \in Procs : \A j \in Keys : Executing(q, j)' <=>
              (IF q = p THEN j = k ELSE Executing(q, j))
      BY <2>1, <2>2 DEF Executing, Selected, At
    <2>6. Claimed'
      BY <1>3, <2>5 DEF HeartbeatInv, Claimed, Typed
    <2> QED BY <2>3, <2>4, <2>6 DEF HeartbeatInv
  <1> QED BY <1>1, <1>2, <1>3 DEF Begin

\* The attempt ends; its process waited alone unless the key is attempted twice.
LEMMA SettleStep ==
    ASSUME HeartbeatInv, NEW p \in Procs, Settle(p)
    PROVE  HeartbeatInv'
  <1> DEFINE k == Selected(p)
             t == [tick[p] EXCEPT !.work = Tail(@), !.count = @ + 1, !.aborted = FALSE]
  <1>1. IsTick(tick[p]) /\ At(p, "executing")
    BY DEF HeartbeatInv, Typed, Settle
  <1>2. PICK status \in {"SUCCEEDED", "FAILED"} : dispatch' = [dispatch EXCEPT ![k].status = status]
    BY DEF Settle
  <1>3. dispatch' \in [Keys -> [status : {"NONE", "DISPATCHING", "SUCCEEDED", "FAILED"},
                                attempts : Nat, due : BOOLEAN]]
        /\ \A j \in Keys : j # k => dispatch'[j] = dispatch[j]
    BY <1>2 DEF HeartbeatInv, Typed
  <1>4. \A j \in Keys : \A q \in Procs : Executing(q, j) /\ q # p /\ j = k => j \in twice
    BY <1>1 DEF HeartbeatInv, Claimed, Executing
  <1>5. PICK n : n = [t EXCEPT !.pc = "check"]
    OBVIOUS
  <1>6. IsTick(n) /\ n.pc = "check"
    BY <1>1, <1>5 DEF IsTick
  <1>7. Loop(p, t) /\ UNCHANGED <<authorized, twice>>
    BY DEF Settle
  <1> HIDE DEF t
  <1>8. CASE Leave(p)
    <2>1. /\ tick' = [q \in Procs |-> IF q = p THEN NoTick ELSE tick[q]]
          /\ \A q \in Procs : q # p => (lease = q <=> lease' = q)
          /\ late' = late \ {p} /\ overtaken' = overtaken \ {p} /\ halted' = halted \ {p}
      BY <1>8, HeartbeatAssumption DEF Leave, Released, HeartbeatInv, Typed
    <2>2. Typed'
      BY <1>3, <2>1 DEF HeartbeatInv, Typed, IsTick, NoTick
    <2>3. Held' /\ Fenced' /\ Found'
      BY <1>7, <2>1 DEF HeartbeatInv, Held, Waits, Fenced, Found, At, NoTick
    <2>4. \A q \in Procs : \A j \in Keys : Executing(q, j)' <=> q # p /\ Executing(q, j)
      BY <2>1 DEF Executing, Selected, At, NoTick
    <2>5. Claimed'
      BY <1>3, <1>4, <1>7, <2>4 DEF HeartbeatInv, Claimed
    <2> QED BY <2>2, <2>3, <2>5 DEF HeartbeatInv
  <1>9. CASE Goes(p, n)
    <2>1. tick' = [q \in Procs |-> IF q = p THEN n ELSE tick[q]]
          /\ UNCHANGED <<lease, late, overtaken, halted>>
      BY <1>9 DEF Goes, HeartbeatInv, Typed, ticks
    <2>2. Typed'
      BY <1>3, <1>6, <2>1 DEF HeartbeatInv, Typed
    <2>3. Held' /\ Fenced' /\ Found'
      BY <1>1, <1>6, <1>7, <2>1 DEF HeartbeatInv, Held, Waits, Fenced, Found, At
    <2>4. \A q \in Procs : \A j \in Keys : Executing(q, j)' <=> q # p /\ Executing(q, j)
      BY <1>6, <2>1 DEF Executing, Selected, At
    <2>5. Claimed'
      BY <1>3, <1>4, <1>7, <2>4 DEF HeartbeatInv, Claimed
    <2> QED BY <2>2, <2>3, <2>5 DEF HeartbeatInv
  <1> QED BY <1>5, <1>7, <1>8, <1>9 DEF Loop

\* Taking the lease when nobody holds it.
LEMMA AcquireStep ==
    ASSUME HeartbeatInv, NEW p \in Procs, Acquire(p)
    PROVE  HeartbeatInv'
  <1>1. CASE Leave(p)
    BY <1>1, LeaveStep DEF Acquire
  <1>2. CASE lease = Nobody /\ lease' = p /\ tick' = [tick EXCEPT ![p].pc = "select"] /\ UNCHANGED ticks
    <2> DEFINE t == [tick[p] EXCEPT !.pc = "select"]
    <2>1. IsTick(t) /\ t.pc = "select"
      <3>1. IsTick(tick[p])
        BY DEF HeartbeatInv, Typed
      <3> QED BY <3>1, Updates
    <2>2. tick' = [q \in Procs |-> IF q = p THEN t ELSE tick[q]]
          /\ UNCHANGED <<authorized, dispatch, twice, late, overtaken, halted>>
      BY <1>2 DEF Acquire, HeartbeatInv, Typed, ticks
    <2> HIDE DEF t
    <2>3. Typed'
      BY <2>1, <2>2 DEF HeartbeatInv, Typed
    <2>4. Held' /\ Fenced' /\ Found' /\ Claimed'
      BY <1>2, <2>1, <2>2, HeartbeatAssumption
      DEF Acquire, HeartbeatInv, Held, Waits, Fenced, Found, Claimed, Executing, Selected, At
    <2> QED BY <2>3, <2>4 DEF HeartbeatInv
  <1> QED BY <1>1, <1>2 DEF Acquire, Free

\* Every step of a tick.
LEMMA TickStep ==
    ASSUME HeartbeatInv, NEW p \in Procs, Tick(p) \/ Step(p)
    PROVE  HeartbeatInv'
  <1>t. IsTick(tick[p])
    BY DEF HeartbeatInv, Typed
  <1>1. CASE Tick(p)
    <2>1. IsTick([NoTick EXCEPT !.pc = "gate"]) /\ [NoTick EXCEPT !.pc = "gate"].pc = "gate"
      <3>1. IsTick(NoTick)
        BY DEF IsTick, NoTick
      <3> QED BY <3>1, Updates
    <2> QED BY <1>1, <2>1, MoveStep DEF Tick
  <1>2. CASE Acquire(p)
    BY <1>2, AcquireStep
  <1>3. CASE Select(p)
    <2>1. PICK c, w : LET t == [tick[p] EXCEPT !.cursor = c, !.work = w] IN Goes(p, t) \/ Loop(p, t)
      BY <1>3 DEF Select
    <2> DEFINE t == [tick[p] EXCEPT !.cursor = c, !.work = w]
    <2>3. IsTick(t) /\ t.pc = tick[p].pc
      <3> DEFINE u == [tick[p] EXCEPT !.cursor = c]
      <3>1. IsTick(u) /\ u.pc = tick[p].pc
        BY <1>t, Updates
      <3> HIDE DEF u
      <3>2. IsTick([u EXCEPT !.work = w]) /\ [u EXCEPT !.work = w].pc = u.pc
        BY <3>1, Updates
      <3> QED BY <3>1, <3>2 DEF u
    <2>4. t.pc = "select" /\ ~At(p, "idle") /\ UNCHANGED <<authorized, dispatch, twice>>
      BY <1>3, <2>3 DEF Select, At
    <2>5. Goes(p, t) \/ Loop(p, t)
      BY <2>1
    <2> HIDE DEF t
    <2> QED BY <2>3, <2>4, <2>5, MoveStep, LoopStep
  <1>4. CASE CheckStop(p)
    <2>1. IsTick([tick[p] EXCEPT !.pc = "reread"]) /\ [tick[p] EXCEPT !.pc = "reread"].pc = "reread"
      BY <1>t, Updates
    <2>2. ~At(p, "idle") /\ UNCHANGED <<authorized, dispatch, twice>>
      BY <1>4 DEF CheckStop, At
    <2>3. Leave(p) \/ Goes(p, [tick[p] EXCEPT !.pc = "reread"])
      BY <1>4 DEF CheckStop
    <2> QED BY <2>1, <2>2, <2>3, LeaveStep, MoveStep
  <1>5. CASE Reread(p)
    <2>1. IsTick([tick[p] EXCEPT !.pc = "handoff"]) /\ [tick[p] EXCEPT !.pc = "handoff"].pc = "handoff"
          /\ IsTick([tick[p] EXCEPT !.work = Tail(@)])
      BY <1>t, Updates
    <2>2. ~At(p, "idle") /\ UNCHANGED <<authorized, dispatch, twice>>
      BY <1>5 DEF Reread, At
    <2>3. Goes(p, [tick[p] EXCEPT !.pc = "handoff"]) \/ Loop(p, [tick[p] EXCEPT !.work = Tail(@)])
      BY <1>5 DEF Reread, Skip
    <2> QED BY <2>1, <2>2, <2>3, MoveStep, LoopStep
  <1>6. CASE Begin(p)
    BY <1>6, BeginStep
  <1>7. CASE Settle(p)
    BY <1>7, SettleStep
  <1> QED BY <1>1, <1>2, <1>3, <1>4, <1>5, <1>6, <1>7 DEF Step

-----------------------------------------------------------------------------
(* What happens around the ticks *)

\* A stop fences the tick of its own process and marks every other one.
LEMMA StopStep ==
    ASSUME HeartbeatInv, NEW p \in Procs, EmergencyStop(p)
    PROVE  HeartbeatInv'
  <1> DEFINE t == [tick[p] EXCEPT !.aborted = At(p, "executing")]
  <1>1. tick' = [q \in Procs |-> IF q = p THEN t ELSE tick[q]]
    BY DEF EmergencyStop, StopTimer, HeartbeatInv, Typed
  <1>2. IsTick(t) /\ t.pc = tick[p].pc /\ t.work = tick[p].work /\ t.aborted = At(p, "executing")
    <2>1. PICK a, b, d, e, f :
             tick[p] = [pc |-> a, cursor |-> b, work |-> d, count |-> e, aborted |-> f]
      BY DEF HeartbeatInv, Typed, IsTick
    <2> QED BY <2>1 DEF IsTick
  <1> HIDE DEF t
  <1>3. Typed'
    BY <1>1, <1>2 DEF EmergencyStop, HeartbeatInv, Typed
  <1>4. /\ \A q \in Procs : q # p => (lease = q <=> lease' = q)
        /\ lease' # p
    BY HeartbeatAssumption DEF EmergencyStop, StopTimer, Released
  <1>5. \A q \in Procs : At(q, "idle")' = At(q, "idle") /\ At(q, "gate")' = At(q, "gate")
    BY <1>1, <1>2 DEF At
  <1>6. \A q \in Procs : \A k \in Keys : Executing(q, k)' = Executing(q, k)
    BY <1>1, <1>2 DEF Executing, Selected, At
  <1>7. \A q \in Procs : Waits(q)' => q # p /\ Waits(q)
    BY <1>1, <1>2 DEF Waits, At
  <1>8. late' = late /\ Held'
    BY <1>4, <1>7 DEF EmergencyStop, HeartbeatInv, Held
  <1>9. \A q \in Procs : /\ q \in halted' => q \in halted \/ (q = p /\ ~At(q, "idle") /\ ~At(q, "gate"))
                         /\ q \in overtaken' \cup halted' <=> q \in overtaken \cup halted \/ ~At(q, "idle")
    BY DEF EmergencyStop
  <1>10. Fenced' /\ Found'
    BY <1>4, <1>5, <1>9 DEF HeartbeatInv, Fenced, Found
  <1>11. Claimed'
    BY <1>6 DEF EmergencyStop, HeartbeatInv, Claimed
  <1> QED BY <1>3, <1>8, <1>10, <1>11 DEF HeartbeatInv

\* The end of a process is the end of its tick.
LEMMA EndStep ==
    ASSUME HeartbeatInv, NEW p \in Procs, End(p)
    PROVE  HeartbeatInv'
  <1>1. /\ tick' = [q \in Procs |-> IF q = p THEN NoTick ELSE tick[q]]
        /\ \A q \in Procs : q # p => (lease = q <=> lease' = q)
        /\ late' = late \ {p} /\ overtaken' = overtaken \ {p} /\ halted' = halted \ {p}
        /\ UNCHANGED <<authorized, dispatch, twice>>
    BY HeartbeatAssumption DEF End, Released, HeartbeatInv, Typed
  <1>2. Typed'
    BY <1>1 DEF HeartbeatInv, Typed, IsTick, NoTick
  <1>3. Held' /\ Fenced' /\ Found' /\ Claimed'
    BY <1>1 DEF HeartbeatInv, Held, Waits, Fenced, Found, Claimed, Executing, Selected, At, NoTick
  <1> QED BY <1>2, <1>3 DEF HeartbeatInv

\* What passes while every tick stays where it is.
LEMMA OtherSteps ==
    ASSUME HeartbeatInv,
           \/ \E p \in Procs : Authorize(p) \/ Start(p)
           \/ LeaseExpires \/ ChangeRoomStop \/ UNCHANGED vars
           \/ \E k \in Keys : RetryDue(k)
           \/ \E i \in Improvements : Change(i)
    PROVE  HeartbeatInv'
  <1>1. UNCHANGED <<tick, halted, overtaken, twice>>
    BY DEF Authorize, Start, LeaseExpires, ChangeRoomStop, RetryDue, Change, vars, stored, history, ticks
  <1>2. /\ dispatch' \in [Keys -> [status : {"NONE", "DISPATCHING", "SUCCEEDED", "FAILED"},
                                  attempts : Nat, due : BOOLEAN]]
        /\ \A k \in Keys : dispatch'[k].status = dispatch[k].status
    <2>1. CASE UNCHANGED dispatch
      BY <2>1 DEF HeartbeatInv, Typed
    <2>2. ASSUME NEW j \in Keys, RetryDue(j)
          PROVE  /\ dispatch' \in [Keys -> [status : {"NONE", "DISPATCHING", "SUCCEEDED", "FAILED"},
                                            attempts : Nat, due : BOOLEAN]]
                 /\ \A k \in Keys : dispatch'[k].status = dispatch[k].status
      <3>1. dispatch' = [dispatch EXCEPT ![j].due = TRUE]
        BY <2>2 DEF RetryDue
      <3>2. dispatch \in [Keys -> [status : {"NONE", "DISPATCHING", "SUCCEEDED", "FAILED"},
                                    attempts : Nat, due : BOOLEAN]]
        BY DEF HeartbeatInv, Typed
      <3> QED BY <3>1, <3>2
    <2> QED BY <2>1, <2>2 DEF Authorize, Start, LeaseExpires, ChangeRoomStop, Change, vars, stored
  <1>3. Typed'
    BY <1>1, <1>2 DEF HeartbeatInv, Typed
  <1>4. late' = late \cup ({lease} \ {lease'}) \/ (late' = late /\ (lease' = lease \/ lease = Gone))
    BY HeartbeatAssumption
    DEF Authorize, Start, LeaseExpires, ChangeRoomStop, RetryDue, Change, vars, stored, history, ticks
  <1>5. lease' \in {lease, Nobody}
    BY DEF Authorize, Start, LeaseExpires, ChangeRoomStop, RetryDue, Change, vars, stored
  <1>6. Held'
    BY <1>1, <1>4, <1>5, HeartbeatAssumption DEF HeartbeatInv, Held, Waits, At
  <1>7. Fenced'
    BY <1>1, <1>5, HeartbeatAssumption DEF HeartbeatInv, Fenced, At
  <1>8. authorized' = authorized \/ authorized' = TRUE
    BY DEF Authorize, Start, LeaseExpires, ChangeRoomStop, RetryDue, Change, vars, stored
  <1>9. Found'
    BY <1>1, <1>8 DEF HeartbeatInv, Found, At
  <1>10. Claimed'
    BY <1>1, <1>2 DEF HeartbeatInv, Claimed, Executing, Selected, At
  <1> QED BY <1>3, <1>6, <1>7, <1>9, <1>10 DEF HeartbeatInv

\* The invariant holds throughout.
LEMMA Invariance == Spec => []HeartbeatInv
  <1>1. HeartbeatInv /\ [Next]_vars => HeartbeatInv'
    BY TickStep, StopStep, EndStep, OtherSteps DEF Next
  <1> QED BY InvInit, <1>1, PTL DEF Spec

\* A dispatch begins under the lease of its own process.
LEMMA BeginsUnderLease ==
    ASSUME HeartbeatInv, [Next]_vars, NEW p \in Procs, Begins(p)
    PROVE  lease = p
  <1>1. tick[p].pc = "handoff" /\ tick'[p].pc = "executing" /\ tick = [q \in Procs |-> tick[q]]
    BY DEF Begins, At, HeartbeatInv, Typed
  <1>2. ~Leave(p)
    BY <1>1 DEF Leave, NoTick
  <1>3. \A t : IsTick(t) => ~Loop(p, t)
    <2> SUFFICES ASSUME NEW t, IsTick(t), Loop(p, t) PROVE FALSE
      OBVIOUS
    <2>1. Goes(p, [t EXCEPT !.pc = "check"])
      BY <1>2 DEF Loop
    <2>2. [t EXCEPT !.pc = "check"].pc = "check"
      BY Updates
    <2> QED BY <1>1, <2>1, <2>2 DEF Goes
  <1>4. ASSUME NEW q \in Procs, Tick(q) \/ Step(q), q # p PROVE FALSE
    <2>1. \A t : Goes(q, t) => FALSE
      BY <1>1, <1>4 DEF Goes
    <2>2. ~Leave(q)
      BY <1>1, <1>4 DEF Leave
    <2>3. \A t : ~Loop(q, t)
      BY <2>1, <2>2 DEF Loop
    <2> QED BY <1>1, <1>4, <2>1, <2>2, <2>3
            DEF Step, Tick, Acquire, Select, CheckStop, Reread, Begin, Settle, Skip
  <1>5. ASSUME Tick(p) \/ Step(p) PROVE Begin(p)
    BY <1>1, <1>5 DEF Step, Tick, Acquire, Select, CheckStop, Reread, Settle, At
  <1>6. ASSUME NEW q \in Procs, EmergencyStop(q) \/ End(q) PROVE FALSE
    <2>1. CASE EmergencyStop(q)
      <3>1. tick'[p].pc = tick[p].pc
        <4>1. IsTick(tick[q])
          BY DEF HeartbeatInv, Typed
        <4>2. [tick[q] EXCEPT !.aborted = At(q, "executing")].pc = tick[q].pc
          BY <4>1 DEF IsTick
        <4> QED BY <2>1, <4>2, <1>1 DEF EmergencyStop, StopTimer
      <3> QED BY <1>1, <3>1
    <2>2. CASE End(q)
      BY <1>1, <2>2 DEF End, NoTick
    <2> QED BY <1>6, <2>1, <2>2
  <1>7. ASSUME UNCHANGED tick PROVE FALSE
    BY <1>1, <1>7
  <1>8. Begin(p)
    BY <1>4, <1>5, <1>6, <1>7
    DEF Next, Authorize, Start, LeaseExpires, ChangeRoomStop, RetryDue, Change, vars
  <1>9. IsTick([tick[p] EXCEPT !.work = Tail(@)])
    <2>1. IsTick(tick[p])
      BY DEF HeartbeatInv, Typed
    <2> QED BY <2>1, Updates
  <1>10. ~Skip(p)
    BY <1>3, <1>9 DEF Skip
  <1> QED BY <1>2, <1>8, <1>10 DEF Begin

-----------------------------------------------------------------------------
(* The theorems *)

\* Of two processes that wait for the executor one was held up beyond its lease,
\* for any number of processes (tryAcquireLease, renewLease).
THEOREM DispatchExclusion == Spec => []OneDispatch
  <1>1. HeartbeatInv => OneDispatch
    BY DEF HeartbeatInv, Held, OneDispatch
  <1> QED BY <1>1, Invariance, PTL

\* A recorded success stays as it is, and is not dispatched again, unless its
\* revision was begun by two processes at once (beginDispatch, recordFailure).
THEOREM SuccessKept == Spec => SuccessStands
  <1> DEFINE Kept == \A k \in Keys : dispatch[k].status = "SUCCEEDED" =>
                        dispatch'[k] = dispatch[k] \/ k \in twice
  <1>1. ASSUME HeartbeatInv, [Next]_vars PROVE Kept
    <2>1. CASE UNCHANGED dispatch
      BY <2>1
    <2>2. ASSUME NEW p \in Procs, Begin(p) PROVE Kept
      <3>1. \A k \in Keys : k # Selected(p) => dispatch'[k] = dispatch[k]
        <4>1. dispatch' = dispatch \/ \E d : dispatch' = [dispatch EXCEPT ![Selected(p)] = d]
          BY <2>2 DEF Begin
        <4> QED BY <1>1, <4>1 DEF HeartbeatInv, Typed
      <3>2. dispatch[Selected(p)].status = "SUCCEEDED" => dispatch' = dispatch
        BY <2>2 DEF Begin, Retryable
      <3> QED BY <3>1, <3>2
    <2>3. ASSUME NEW p \in Procs, Settle(p) PROVE Kept
      <3>1. \E s \in {"SUCCEEDED", "FAILED"} : dispatch' = [dispatch EXCEPT ![Selected(p)].status = s]
        BY <2>3 DEF Settle
      <3>2. \A k \in Keys : k # Selected(p) => dispatch'[k] = dispatch[k]
        BY <3>1 DEF HeartbeatInv, Typed
      <3>3. Selected(p) \in Keys => dispatch[Selected(p)].status # "SUCCEEDED" \/ Selected(p) \in twice
        <4>1. Executing(p, Selected(p))
          BY <2>3 DEF Settle, Executing
        <4>2. ~Executing(p, Selected(p)) \/ Selected(p) \notin Keys \/ Selected(p) \in twice
              \/ dispatch[Selected(p)].status = "DISPATCHING"
          <5> SUFFICES ASSUME Executing(p, Selected(p)), Selected(p) \in Keys, Selected(p) \notin twice
                       PROVE  dispatch[Selected(p)].status = "DISPATCHING"
            OBVIOUS
          <5> QED BY <1>1 DEF HeartbeatInv, Claimed
        <4> QED BY <4>1, <4>2
      <3> QED BY <3>2, <3>3
    <2>4. ASSUME NEW k \in Keys, RetryDue(k) PROVE Kept
      BY <2>4 DEF RetryDue, HeartbeatInv, Typed
    <2>5. UNCHANGED dispatch \/ (\E p \in Procs : Begin(p) \/ Settle(p)) \/ (\E k \in Keys : RetryDue(k))
      BY <1>1 DEF Next, Step, Tick, Acquire, Select, CheckStop, Reread, EmergencyStop, Authorize,
                  End, Start, LeaseExpires, ChangeRoomStop, Change, vars, stored
    <2> QED BY <2>1, <2>2, <2>3, <2>4, <2>5
  <1>2. HeartbeatInv /\ [Next]_vars => [Kept]_vars
    BY <1>1
  <1> QED BY Invariance, <1>2, PTL DEF Spec, SuccessStands

\* A tick that a stop has found under the lease of its own process begins nothing
\* more, and no other one does that the stop had not found (stop, renewLease).
THEOREM StopsFence == Spec => StopFences
  <1> DEFINE Fences == \A p \in Procs : Begins(p) => p \notin halted /\ (authorized \/ p \in overtaken)
  <1>1. ASSUME HeartbeatInv, [Next]_vars, NEW p \in Procs, Begins(p)
        PROVE  p \notin halted /\ (authorized \/ p \in overtaken)
    <2>1. lease = p
      BY <1>1, BeginsUnderLease
    <2> QED BY <1>1, <2>1 DEF Begins, HeartbeatInv, Fenced, Found, At
  <1>2. HeartbeatInv /\ [Next]_vars => [Fences]_vars
    BY <1>1
  <1> QED BY Invariance, <1>2, PTL DEF Spec, StopFences
=============================================================================
