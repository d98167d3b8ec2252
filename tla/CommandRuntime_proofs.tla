------------------------ MODULE CommandRuntime_proofs ------------------------
(***************************************************************************)
(* Proofs about CommandRuntime for any tasks, participants, bursts and any *)
(* number of interruptions, repeated requests, failing writes and crashes. *)
(* The invariant says which attempts the calls, the launches and the room  *)
(* may refer to, and what has become of those.                             *)
(***************************************************************************)
EXTENDS CommandRuntime, SequenceTheorems, TLAPS

-----------------------------------------------------------------------------
(* The invariant *)

Statuses == {"queued", "active", "delivery-pending", "completed", "superseded"}
Answered == {"delivery-pending", "completed"}
Open     == {"queued", "active"}
Records  == [agent : Agents, status : Statuses, size : Nat, epoch : Nat, revision : Nat]
Calls    == [kind : {"launch", "relaunch", "deliver", "fail"}, id : Tasks \X Nat,
             at : {"start", "sending", "queued", "active"}, sent : Nat]

\* The attempts of a task: all but the last one are superseded.
Attempted ==
    /\ attempts \in [Tasks -> Seq(Records)]
    /\ selection \in [Tasks -> Int]
    /\ \A t \in Tasks : selection[t] = Unasked => attempts[t] = << >>
    /\ OneAttempt
    /\ epoch \in Nat /\ revision \in Nat

\* A call is about an attempt, and what is delivered has been answered.
Called ==
    /\ \A c \in pending : c \in Calls /\ c.id \in Ids /\ (c.kind = "deliver" => Status(c.id) \in Answered)
    /\ retries \subseteq Ids /\ recovering \subseteq Ids

IsRun(x) == x = [id |-> x.id, agent |-> x.agent, pc |-> x.pc, timer |-> x.timer,
                 lease |-> x.lease, aborted |-> x.aborted, entry |-> x.entry]
\* What may be launched, watched or claimed is an attempt.
RunsOf(runs, ids) ==
    /\ runs = [r \in Runs |-> runs[r]]
    /\ \A r \in Runs : /\ IsRun(runs[r])
                       /\ runs[r].pc # "free" \/ runs[r].timer # "none" => runs[r].id \in ids
                       /\ runs[r].entry \in Runs => runs[runs[r].entry].id \in ids
Launched == RunsOf(run, Ids)

\* What the room shows comes from answered attempts, and nothing is shown twice.
Shown ==
    /\ room \in Seq((Tasks \X Nat) \X Nat)
    /\ \A i, j \in DOMAIN room : room[i] = room[j] => i = j
    /\ \A i \in DOMAIN room : room[i][1] \in Ids /\ Status(room[i][1]) \in Answered

CommandInv == Attempted /\ Called /\ Launched /\ Shown

\* An attempt is named by its task and its place.
LEMMA Names ==
    ASSUME attempts \in [Tasks -> Seq(Records)]
    PROVE  /\ \A t \in Tasks : \A n \in DOMAIN attempts[t] : <<t, n>> \in Ids
           /\ \A id \in Ids : /\ id = <<id[1], id[2]>> /\ id[1] \in Tasks
                              /\ id[2] \in DOMAIN attempts[id[1]] /\ id[2] \in Nat
                              /\ At(id) \in Records /\ Status(id) \in Statuses
  <1>1. \A t \in Tasks : \A n \in DOMAIN attempts[t] : <<t, n>> \in Ids
    BY DEF Ids
  <1>2. ASSUME NEW id \in Ids
        PROVE  /\ id = <<id[1], id[2]>> /\ id[1] \in Tasks
               /\ id[2] \in DOMAIN attempts[id[1]] /\ id[2] \in Nat
               /\ At(id) \in Records /\ Status(id) \in Statuses
    <2>1. PICK t \in Tasks : id \in {t} \X DOMAIN attempts[t]
      BY <1>2 DEF Ids
    <2>2. id = <<id[1], id[2]>> /\ id[1] = t /\ id[2] \in DOMAIN attempts[t]
      BY <2>1
    <2>3. attempts[t] \in Seq(Records)
      OBVIOUS
    <2>4. id[2] \in Nat /\ attempts[t][id[2]] \in Records
      BY <2>2, <2>3
    <2> QED BY <2>2, <2>4 DEF At, Status, Records
  <1> QED BY <1>1, <1>2

\* An open attempt is the last one of its task.
LEMMA OpenIsLast ==
    ASSUME Attempted, NEW id \in Ids, Status(id) # "superseded"
    PROVE  id[2] = Len(attempts[id[1]])
  <1>1. /\ id[1] \in Tasks /\ id[2] \in DOMAIN attempts[id[1]] /\ attempts[id[1]] \in Seq(Records)
    BY Names DEF Attempted
  <1>2. Len(attempts[id[1]]) \in DOMAIN attempts[id[1]] /\ id[2] <= Len(attempts[id[1]])
        /\ id[2] \in Nat /\ Len(attempts[id[1]]) \in Nat
    BY <1>1
  <1> QED BY <1>1, <1>2 DEF Attempted, OneAttempt, Status, At

-----------------------------------------------------------------------------
(* What the steps do to the attempts *)

\* The status of an attempt after the step.
Becoming(id) == attempts'[id[1]][id[2]].status

\* An attempt stays, keeps its participant, and is final once superseded or answered.
Evolves ==
    \A t \in Tasks : \A n \in DOMAIN attempts[t] :
        /\ n \in DOMAIN attempts'[t]
        /\ attempts[t][n].status \in Answered => attempts'[t][n].status \in Answered

\* An attempt keeps its name and, once answered, its answer.
LEMMA Evolution ==
    ASSUME Attempted, Attempted', Evolves
    PROVE  /\ Ids \subseteq Ids'
           /\ \A id \in Ids : Status(id) \in Answered => Becoming(id) \in Answered
  <1> SUFFICES ASSUME NEW id \in Ids
               PROVE  id \in Ids' /\ (Status(id) \in Answered => Becoming(id) \in Answered)
    OBVIOUS
  <1>1. id = <<id[1], id[2]>> /\ id[1] \in Tasks /\ id[2] \in DOMAIN attempts[id[1]]
    BY Names DEF Attempted
  <1>2. id[2] \in DOMAIN attempts'[id[1]]
    BY <1>1 DEF Evolves
  <1>3. id \in Ids'
    BY <1>1, <1>2 DEF Ids
  <1>4. Status(id) \in Answered => Becoming(id) \in Answered
    BY <1>1 DEF Evolves, Becoming, Status, At
  <1> QED BY <1>3, <1>4

\* The whole invariant, from what a step does to each part of the state.
LEMMA Carries ==
    ASSUME CommandInv, Attempted', Evolves,
           \A c \in pending' : c \in pending \/ (/\ c \in Calls /\ c.id \in Ids'
                                                 /\ c.kind = "deliver" => Becoming(c.id) \in Answered),
           retries' \subseteq Ids', recovering' \subseteq Ids',
           RunsOf(run', Ids \cup Ids'), Shown' \/ UNCHANGED room
    PROVE  CommandInv'
  <1>1. /\ Ids \subseteq Ids'
        /\ \A id \in Ids : Status(id) \in Answered => Becoming(id) \in Answered
    BY Evolution DEF CommandInv
  <1>2. Called'
    <2>1. ASSUME NEW c \in pending'
          PROVE  c \in Calls /\ c.id \in Ids' /\ (c.kind = "deliver" => Becoming(c.id) \in Answered)
      <3>1. CASE c \in pending
        <4>1. c \in Calls /\ c.id \in Ids /\ (c.kind = "deliver" => Status(c.id) \in Answered)
          BY <3>1 DEF CommandInv, Called
        <4>2. c.id \in Ids' /\ (Status(c.id) \in Answered => Becoming(c.id) \in Answered)
          BY <1>1, <4>1
        <4> QED BY <4>1, <4>2
      <3>2. CASE c \notin pending
        BY <2>1, <3>2
      <3> QED BY <3>1, <3>2
    <2> QED BY <2>1 DEF Called, Becoming, Status, At
  <1>3. Launched'
    BY <1>1 DEF Launched, RunsOf
  <1>4. Shown'
    BY <1>1 DEF CommandInv, Shown, Becoming, Status, At
  <1> QED BY <1>2, <1>3, <1>4 DEF CommandInv

\* A step that leaves the attempts alone.
LEMMA Same ==
    ASSUME CommandInv, UNCHANGED <<selection, attempts>>, epoch' \in Nat, revision' \in Nat
    PROVE  Attempted' /\ Evolves /\ Ids' = Ids /\ \A id : Becoming(id) = Status(id)
  BY DEF CommandInv, Attempted, OneAttempt, Evolves, Ids, Becoming, Status, At

\* Another status of an attempt that is still open or becomes an answered one.
LEMMA StatusStep ==
    ASSUME Attempted, NEW id \in Ids, NEW r \in Records, r.agent = At(id).agent,
           Status(id) # "superseded", Status(id) \in Answered => r.status \in Answered,
           attempts' = [attempts EXCEPT ![id[1]][id[2]] = r],
           UNCHANGED selection, epoch' \in Nat, revision' \in Nat
    PROVE  Attempted' /\ Evolves /\ Becoming(id) = r.status
  <1> DEFINE t == id[1]  n == id[2]
  <1>1. /\ t \in Tasks /\ n \in DOMAIN attempts[t] /\ attempts[t] \in Seq(Records)
        /\ attempts \in [Tasks -> Seq(Records)]
    BY Names DEF Attempted
  <1>2. n = Len(attempts[t])
    BY OpenIsLast
  <1> DEFINE a == [attempts[t] EXCEPT ![n] = r]
  <1>3. attempts' = [attempts EXCEPT ![t] = a]
    BY <1>1
  <1>4. /\ a \in Seq(Records) /\ Len(a) = Len(attempts[t]) /\ DOMAIN a = DOMAIN attempts[t]
        /\ a[n] = r /\ \A m \in DOMAIN a : m # n => a[m] = attempts[t][m]
    BY <1>1
  <1> HIDE DEF a
  <1>5. attempts' \in [Tasks -> Seq(Records)] /\ attempts'[t] = a
        /\ \A u \in Tasks : u # t => attempts'[u] = attempts[u]
    BY <1>1, <1>3, <1>4
  <1>6. \A u \in Tasks : selection[u] = Unasked => attempts'[u] = << >>
    <2>1. attempts[t] # << >>
      BY <1>1
    <2> QED BY <1>5, <2>1 DEF Attempted
  <1>7. \A u \in Tasks : \A m \in DOMAIN attempts[u] :
           /\ m \in DOMAIN attempts'[u] /\ attempts'[u][m].agent = attempts[u][m].agent
           /\ <<u, m>> # <<t, n>> => attempts'[u][m] = attempts[u][m]
    BY <1>1, <1>4, <1>5 DEF At
  <1>8. \A u \in Tasks : DOMAIN attempts'[u] = DOMAIN attempts[u]
    BY <1>4, <1>5
  <1>9. OneAttempt'
    <2> SUFFICES ASSUME NEW u \in Tasks, NEW k \in DOMAIN attempts'[u], NEW m \in DOMAIN attempts'[u], k < m
                 PROVE  attempts'[u][k].status = "superseded" /\ attempts'[u][k].agent # attempts'[u][m].agent
      BY DEF OneAttempt
    <2>1. k \in DOMAIN attempts[u] /\ m \in DOMAIN attempts[u]
      BY <1>8
    <2>2. attempts[u][k].status = "superseded" /\ attempts[u][k].agent # attempts[u][m].agent
      BY <2>1 DEF Attempted, OneAttempt
    <2>3. <<u, k>> # <<t, n>>
      BY <1>2, <1>1, <2>1
    <2> QED BY <1>7, <2>1, <2>2, <2>3
  <1>10. Evolves
    BY <1>1, <1>4, <1>5, <1>7 DEF Evolves, Status, At
  <1>11. Becoming(id) = r.status
    BY <1>4, <1>5 DEF Becoming
  <1> QED BY <1>5, <1>6, <1>9, <1>10, <1>11 DEF Attempted

-----------------------------------------------------------------------------
(* What the steps do to the launches *)

\* One field of a launch.
SetPc(x, v) == [x EXCEPT !.pc = v]
SetTimer(x, v) == [x EXCEPT !.timer = v]
SetLease(x, v) == [x EXCEPT !.lease = v]
SetAborted(x, v) == [x EXCEPT !.aborted = v]
SetEntry(x, v) == [x EXCEPT !.entry = v]

\* What setting pc leaves of a launch.
LEMMA PcField ==
    ASSUME NEW x, IsRun(x), NEW v, NEW y, y = SetPc(x, v)
    PROVE  IsRun(y) /\ y.id = x.id /\ y.timer = x.timer /\ y.entry = x.entry /\ y.pc = v
  <1>1. PICK a, b, c, d, e, f, g :
           x = [id |-> a, agent |-> b, pc |-> c, timer |-> d, lease |-> e, aborted |-> f, entry |-> g]
    BY DEF IsRun
  <1>2. y = [id |-> a, agent |-> b, pc |-> v, timer |-> d, lease |-> e, aborted |-> f, entry |-> g]
    BY <1>1 DEF SetPc
  <1> QED BY <1>1, <1>2 DEF IsRun

\* What setting timer leaves of a launch.
LEMMA TimerField ==
    ASSUME NEW x, IsRun(x), NEW v, NEW y, y = SetTimer(x, v)
    PROVE  IsRun(y) /\ y.id = x.id /\ y.timer = v /\ y.entry = x.entry /\ y.pc = x.pc
  <1>1. PICK a, b, c, d, e, f, g :
           x = [id |-> a, agent |-> b, pc |-> c, timer |-> d, lease |-> e, aborted |-> f, entry |-> g]
    BY DEF IsRun
  <1>2. y = [id |-> a, agent |-> b, pc |-> c, timer |-> v, lease |-> e, aborted |-> f, entry |-> g]
    BY <1>1 DEF SetTimer
  <1> QED BY <1>1, <1>2 DEF IsRun

\* What setting lease leaves of a launch.
LEMMA LeaseField ==
    ASSUME NEW x, IsRun(x), NEW v, NEW y, y = SetLease(x, v)
    PROVE  IsRun(y) /\ y.id = x.id /\ y.timer = x.timer /\ y.entry = x.entry /\ y.pc = x.pc
  <1>1. PICK a, b, c, d, e, f, g :
           x = [id |-> a, agent |-> b, pc |-> c, timer |-> d, lease |-> e, aborted |-> f, entry |-> g]
    BY DEF IsRun
  <1>2. y = [id |-> a, agent |-> b, pc |-> c, timer |-> d, lease |-> v, aborted |-> f, entry |-> g]
    BY <1>1 DEF SetLease
  <1> QED BY <1>1, <1>2 DEF IsRun

\* What setting aborted leaves of a launch.
LEMMA AbortedField ==
    ASSUME NEW x, IsRun(x), NEW v, NEW y, y = SetAborted(x, v)
    PROVE  IsRun(y) /\ y.id = x.id /\ y.timer = x.timer /\ y.entry = x.entry /\ y.pc = x.pc
  <1>1. PICK a, b, c, d, e, f, g :
           x = [id |-> a, agent |-> b, pc |-> c, timer |-> d, lease |-> e, aborted |-> f, entry |-> g]
    BY DEF IsRun
  <1>2. y = [id |-> a, agent |-> b, pc |-> c, timer |-> d, lease |-> e, aborted |-> v, entry |-> g]
    BY <1>1 DEF SetAborted
  <1> QED BY <1>1, <1>2 DEF IsRun

\* What setting entry leaves of a launch.
LEMMA EntryField ==
    ASSUME NEW x, IsRun(x), NEW v, NEW y, y = SetEntry(x, v)
    PROVE  IsRun(y) /\ y.id = x.id /\ y.timer = x.timer /\ y.entry = v /\ y.pc = x.pc
  <1>1. PICK a, b, c, d, e, f, g :
           x = [id |-> a, agent |-> b, pc |-> c, timer |-> d, lease |-> e, aborted |-> f, entry |-> g]
    BY DEF IsRun
  <1>2. y = [id |-> a, agent |-> b, pc |-> c, timer |-> d, lease |-> e, aborted |-> f, entry |-> v]
    BY <1>1 DEF SetEntry
  <1> QED BY <1>1, <1>2 DEF IsRun

\* One launch changes to another one of an attempt.
LEMMA RunsChange ==
    ASSUME NEW ids, NEW runs, RunsOf(runs, ids), NEW r, NEW x, IsRun(x), x.id \in ids,
           x.entry \in Runs => runs[x.entry].id \in ids
    PROVE  RunsOf([runs EXCEPT ![r] = x], ids)
  BY DEF RunsOf

\* The same for one field of a launch.
LEMMA RunsField ==
    ASSUME NEW ids, NEW runs, RunsOf(runs, ids), NEW r, NEW v
    PROVE  /\ v = "none" \/ (r \in Runs => runs[r].id \in ids) => RunsOf([runs EXCEPT ![r].timer = v], ids)
           /\ RunsOf([runs EXCEPT ![r].lease = v], ids)
           /\ RunsOf([runs EXCEPT ![r].aborted = v], ids)
           /\ (v \in Runs => runs[v].id \in ids) => RunsOf([runs EXCEPT ![r].entry = v], ids)
           /\ (r \in Runs => runs[r].pc # "free") => RunsOf([runs EXCEPT ![r].pc = v], ids)
  <1>1. CASE r \notin Runs
    <2>1. /\ [runs EXCEPT ![r].timer = v] = runs /\ [runs EXCEPT ![r].lease = v] = runs
          /\ [runs EXCEPT ![r].aborted = v] = runs /\ [runs EXCEPT ![r].entry = v] = runs
          /\ [runs EXCEPT ![r].pc = v] = runs
      BY <1>1 DEF RunsOf
    <2> QED BY <1>1, <2>1
  <1>2. CASE r \in Runs
    <2>1. PICK x : x = runs[r] /\ IsRun(x)
      BY <1>2 DEF RunsOf
    <2>2. ASSUME NEW y, IsRun(y), y.id = x.id,
                 y.pc # "free" \/ y.timer # "none" => y.id \in ids,
                 y.entry \in Runs => runs[y.entry].id \in ids
          PROVE  RunsOf([runs EXCEPT ![r] = y], ids)
      BY <1>2, <2>1, <2>2 DEF RunsOf
    <2>3. /\ IsRun(x) /\ x.id = runs[r].id /\ x.pc = runs[r].pc
          /\ x.pc # "free" \/ x.timer # "none" => x.id \in ids
          /\ x.entry \in Runs => runs[x.entry].id \in ids
      BY <1>2, <2>1 DEF RunsOf
    <2>4. v = "none" \/ runs[r].id \in ids => RunsOf([runs EXCEPT ![r] = [x EXCEPT !.timer = v]], ids)
      <3> DEFINE y == SetTimer(x, v)
      <3>1. IsRun(y) /\ y.id = x.id /\ y.timer = v /\ y.entry = x.entry /\ y.pc = x.pc
        BY <2>3, TimerField
      <3> HIDE DEF y
      <3>2. v = "none" \/ runs[r].id \in ids => RunsOf([runs EXCEPT ![r] = y], ids)
        BY <2>1, <2>2, <2>3, <3>1
      <3> QED BY <3>2 DEF y, SetTimer
    <2>5. RunsOf([runs EXCEPT ![r] = [x EXCEPT !.lease = v]], ids)
      <3> DEFINE y == SetLease(x, v)
      <3>1. IsRun(y) /\ y.id = x.id /\ y.timer = x.timer /\ y.entry = x.entry /\ y.pc = x.pc
        BY <2>3, LeaseField
      <3> HIDE DEF y
      <3>2. RunsOf([runs EXCEPT ![r] = y], ids)
        BY <2>1, <2>2, <2>3, <3>1
      <3> QED BY <3>2 DEF y, SetLease
    <2>6. RunsOf([runs EXCEPT ![r] = [x EXCEPT !.aborted = v]], ids)
      <3> DEFINE y == SetAborted(x, v)
      <3>1. IsRun(y) /\ y.id = x.id /\ y.timer = x.timer /\ y.entry = x.entry /\ y.pc = x.pc
        BY <2>3, AbortedField
      <3> HIDE DEF y
      <3>2. RunsOf([runs EXCEPT ![r] = y], ids)
        BY <2>1, <2>2, <2>3, <3>1
      <3> QED BY <3>2 DEF y, SetAborted
    <2>7. (v \in Runs => runs[v].id \in ids) => RunsOf([runs EXCEPT ![r] = [x EXCEPT !.entry = v]], ids)
      <3> DEFINE y == SetEntry(x, v)
      <3>1. IsRun(y) /\ y.id = x.id /\ y.timer = x.timer /\ y.entry = v /\ y.pc = x.pc
        BY <2>3, EntryField
      <3> HIDE DEF y
      <3>2. (v \in Runs => runs[v].id \in ids) => RunsOf([runs EXCEPT ![r] = y], ids)
        BY <2>1, <2>2, <2>3, <3>1
      <3> QED BY <3>2 DEF y, SetEntry
    <2>8. x.pc # "free" => RunsOf([runs EXCEPT ![r] = [x EXCEPT !.pc = v]], ids)
      <3> DEFINE y == SetPc(x, v)
      <3>1. IsRun(y) /\ y.id = x.id /\ y.timer = x.timer /\ y.entry = x.entry /\ y.pc = v
        BY <2>3, PcField
      <3> HIDE DEF y
      <3>2. x.pc # "free" => RunsOf([runs EXCEPT ![r] = y], ids)
        BY <2>1, <2>2, <2>3, <3>1
      <3> QED BY <3>2 DEF y, SetPc
    <2> QED BY <1>2, <2>1, <2>4, <2>5, <2>6, <2>7, <2>8
  <1> QED BY <1>1, <1>2

\* No launch changes the attempt it belongs to.
LEMMA RunsKeepIds ==
    ASSUME NEW ids, NEW runs, RunsOf(runs, ids), NEW r, NEW v, NEW q \in Runs
    PROVE  [runs EXCEPT ![r].pc = v][q].id = runs[q].id /\ [runs EXCEPT ![r].entry = v][q].id = runs[q].id
  <1>1. CASE q # r
    BY <1>1 DEF RunsOf
  <1>2. CASE q = r
    <2>1. PICK x : x = runs[r] /\ IsRun(x)
      BY <1>2 DEF RunsOf
    <2>2. [x EXCEPT !.pc = v].id = x.id /\ [x EXCEPT !.entry = v].id = x.id
      <3>1. PICK a, b, c, d, e, f, g :
               x = [id |-> a, agent |-> b, pc |-> c, timer |-> d, lease |-> e, aborted |-> f, entry |-> g]
        BY <2>1 DEF IsRun
      <3> QED BY <3>1
    <2>3. /\ [runs EXCEPT ![r].pc = v][q] = [x EXCEPT !.pc = v]
          /\ [runs EXCEPT ![r].entry = v][q] = [x EXCEPT !.entry = v]
      BY <1>2, <2>1 DEF RunsOf
    <2> QED BY <1>2, <2>1, <2>2, <2>3
  <1> QED BY <1>1, <1>2

\* More attempts to refer to.
LEMMA RunsGrow ==
    ASSUME NEW ids, NEW more, NEW runs, RunsOf(runs, ids), ids \subseteq more
    PROVE  RunsOf(runs, more)
  BY DEF RunsOf

\* Forgetting the launches that nothing refers to.
LEMMA Forgets ==
    ASSUME NEW ids, NEW runs, RunsOf(runs, ids), NEW entries, Now(runs, entries)
    PROVE  RunsOf(run', ids)
  <1>1. IsRun(Free) /\ Free.pc = "free" /\ Free.timer = "none" /\ Free.entry \notin Runs
    BY DEF Free, IsRun, Runs
  <1>2. /\ run' = [r \in Runs |-> run'[r]]
        /\ \A r \in Runs : /\ run'[r] \in {Free, runs[r]}
                           /\ \A q \in Runs : runs[q].entry = r => run'[r] = runs[r]
    BY DEF Now
  <1>3. ASSUME NEW r \in Runs, run'[r].entry \in Runs
        PROVE  run'[run'[r].entry].id \in ids
    <2>1. run'[r] = runs[r]
      BY <1>1, <1>2, <1>3
    <2>2. run'[runs[r].entry] = runs[runs[r].entry]
      BY <1>2, <1>3, <2>1
    <2> QED BY <1>3, <2>1, <2>2 DEF RunsOf
  <1> QED BY <1>1, <1>2, <1>3 DEF RunsOf

\* Clearing an entry changes no launch but for its timer, its lease and its abortion.
LEMMA Clears ==
    ASSUME NEW ids, RunsOf(run, ids), NEW id, NEW abort
    PROVE  /\ RunsOf(Cleared(id, abort), ids)
           /\ \A r \in Runs : Cleared(id, abort)[r].id = run[r].id /\ Cleared(id, abort)[r].pc = run[r].pc
  <1>1. ASSUME NEW r \in Runs
        PROVE  /\ IsRun(Cleared(id, abort)[r])
               /\ Cleared(id, abort)[r].id = run[r].id /\ Cleared(id, abort)[r].pc = run[r].pc
               /\ Cleared(id, abort)[r].timer \in {"none", run[r].timer}
               /\ Cleared(id, abort)[r].entry = run[r].entry
    <2>1. PICK x : x = run[r] /\ IsRun(x)
      BY DEF RunsOf
    <2>2. CASE r \notin Entries(id)
      <3>1. Cleared(id, abort)[r] = x
        BY <2>1, <2>2 DEF Cleared
      <3> QED BY <2>1, <3>1
    <2>3. CASE r \in Entries(id)
      <3> DEFINE y == SetTimer(x, "none")
                 z == SetLease(y, "none")
                 w == z.aborted \/ (abort /\ x.pc # "ended")
                 u == SetAborted(z, w)
      <3>1. IsRun(y) /\ y.id = x.id /\ y.pc = x.pc /\ y.timer = "none" /\ y.entry = x.entry
        <4>1. IsRun(x)
          BY <2>1
        <4> QED BY <4>1, TimerField
      <3>2. IsRun(z) /\ z.id = y.id /\ z.pc = y.pc /\ z.timer = y.timer /\ z.entry = y.entry
        <4> HIDE DEF y
        <4> QED BY <3>1, LeaseField
      <3>3. IsRun(u) /\ u.id = z.id /\ u.pc = z.pc /\ u.timer = z.timer /\ u.entry = z.entry
        <4> HIDE DEF z, w
        <4> QED BY <3>2, AbortedField
      <3>4. Cleared(id, abort)[r] = u
        BY <2>1, <2>3 DEF Cleared, SetTimer, SetLease, SetAborted
      <3> HIDE DEF u, w, z, y
      <3> QED BY <2>1, <3>1, <3>2, <3>3, <3>4
    <2> QED BY <2>2, <2>3
  <1>2. Cleared(id, abort) = [r \in Runs |-> Cleared(id, abort)[r]]
    BY DEF Cleared
  <1> QED BY <1>1, <1>2 DEF RunsOf

-----------------------------------------------------------------------------
(* Steps that leave the attempts alone *)

\* A call about an attempt.
LEMMA NewCall ==
    ASSUME CommandInv, NEW id \in Ids, NEW kind \in {"launch", "relaunch", "deliver", "fail"}
    PROVE  /\ Call(kind, id) \in Calls /\ Call(kind, id).id = id /\ Call(kind, id).kind = kind
           /\ Call(kind, id).at = "start" /\ Call(kind, id).sent = 0
  <1>1. id \in Tasks \X Nat
    BY Names DEF CommandInv, Attempted
  <1> QED BY <1>1 DEF Call, Calls

\* Neither the attempts nor the room change.
LEMMA Idle ==
    ASSUME CommandInv, UNCHANGED <<selection, attempts, room>>, epoch' \in Nat, revision' \in Nat,
           \A c \in pending' : c \in pending \/ (/\ c \in Calls /\ c.id \in Ids
                                                 /\ c.kind = "deliver" => Status(c.id) \in Answered),
           retries' \subseteq Ids, recovering' \subseteq Ids, RunsOf(run', Ids)
    PROVE  CommandInv'
  <1>1. Attempted' /\ Evolves /\ Ids' = Ids /\ \A id : Becoming(id) = Status(id)
    BY Same
  <1>2. RunsOf(run', Ids \cup Ids')
    BY <1>1
  <1>3. \A c \in pending' : c \in pending \/ (/\ c \in Calls /\ c.id \in Ids'
                                              /\ c.kind = "deliver" => Becoming(c.id) \in Answered)
    BY <1>1
  <1> QED BY <1>1, <1>2, <1>3, Carries

\* Requests, timers, failures and the rest of the server.
LEMMA QuietSteps ==
    ASSUME CommandInv,
           \/ \E t \in Tasks : Resubmit(t)
           \/ \E c \in pending : DeliveryFails(c)
           \/ \E id \in retries : Retry(id)
           \/ \E r \in Runs : Watchdog(r)
           \/ \E a \in Agents : EditRoster(a) \/ Take(a) \/ Bar(a)
           \/ Interrupt \/ GiveBack \/ UNCHANGED vars
    PROVE  CommandInv'
  <1>r. /\ RunsOf(run, Ids) /\ retries \subseteq Ids /\ recovering \subseteq Ids
        /\ epoch \in Nat /\ revision \in Nat /\ attempts \in [Tasks -> Seq(Records)]
    BY DEF CommandInv, Launched, Called, Attempted
  <1>1. ASSUME NEW t \in Tasks, Resubmit(t) PROVE CommandInv'
    <2> DEFINE id == <<t, Len(attempts[t])>>
               kind == IF Status(id) = "queued" THEN "launch" ELSE "deliver"
    <2>1. id \in Ids
      BY <1>1, <1>r, Names DEF Resubmit
    <2>2. kind = "deliver" => Status(id) \in Answered
      BY <1>1 DEF Resubmit, Answered
    <2>3. pending' = pending \cup {Call(kind, id)}
      BY <1>1 DEF Resubmit
    <2>4. kind \in {"launch", "relaunch", "deliver", "fail"}
      OBVIOUS
    <2> HIDE DEF id, kind
    <2>5. \A c \in pending' : c \in pending \/ (/\ c \in Calls /\ c.id \in Ids
                                                /\ c.kind = "deliver" => Status(c.id) \in Answered)
      BY <2>1, <2>2, <2>3, <2>4, NewCall
    <2> QED BY <1>1, <1>r, <2>5, Idle DEF Resubmit, durable, outside
  <1>2. ASSUME NEW c \in pending, DeliveryFails(c) PROVE CommandInv'
    BY <1>2, <1>r, Idle DEF DeliveryFails, durable, outside
  <1>3. ASSUME NEW id \in retries, Retry(id) PROVE CommandInv'
    <2>1. \A c \in pending' : c \in pending \/ (/\ c \in Calls /\ c.id \in Ids
                                                /\ c.kind = "deliver" => Status(c.id) \in Answered)
      BY <1>3, <1>r, NewCall DEF Retry
    <2> QED BY <1>3, <1>r, <2>1, Idle DEF Retry, durable, outside
  <1>4. ASSUME NEW r \in Runs, Watchdog(r) PROVE CommandInv'
    <2>1. run[r].id \in Ids
      BY <1>4, <1>r DEF Watchdog, RunsOf
    <2>2. \A c \in pending' : c \in pending \/ (/\ c \in Calls /\ c.id \in Ids
                                                /\ c.kind = "deliver" => Status(c.id) \in Answered)
      BY <1>4, <2>1, NewCall DEF Watchdog
    <2>3. RunsOf([run EXCEPT ![r].timer = "none"], Ids)
      BY <1>r, RunsField
    <2>4. RunsOf(run', Ids)
      BY <1>4, <2>3, Forgets DEF Watchdog
    <2> QED BY <1>4, <1>r, <2>2, <2>4, Idle DEF Watchdog, durable, outside
  <1>5. ASSUME NEW a \in Agents, EditRoster(a) \/ Take(a) \/ Bar(a) PROVE CommandInv'
    BY <1>5, <1>r, Idle DEF EditRoster, Take, Bar, durable, process
  <1>6. CASE Interrupt \/ GiveBack \/ UNCHANGED vars
    BY <1>6, <1>r, Idle DEF Interrupt, GiveBack, vars, durable, process, outside
  <1> QED BY <1>1, <1>2, <1>3, <1>4, <1>5, <1>6

\* A new launch.
LEMMA StartsKeeps ==
    ASSUME NEW ids, RunsOf(run, ids), NEW id, NEW x, IsRun(x), x.id \in ids, x.entry = 0, Starts(id, x)
    PROVE  RunsOf(run', ids)
  <1> DEFINE r == Min({q \in Runs : run[q] = Free})
  <1>1. Now([run EXCEPT ![r] = x], (live \ Entries(id)) \cup {r})
    BY DEF Starts
  <1> HIDE DEF r
  <1>2. x.entry \notin Runs
    BY DEF Runs
  <1>3. RunsOf([run EXCEPT ![r] = x], ids)
    BY <1>2, RunsChange
  <1> QED BY <1>1, <1>3, Forgets

\* Launches, their outcomes, and the failures that give their entries up.
LEMMA LaunchSteps ==
    ASSUME CommandInv,
           \/ \E c \in pending : Launch(c) \/ FailAndReassign(c)
           \/ \E r \in Runs : Activate(r) \/ Settle(r) \/ Outcome(r)
           \/ \E id \in recovering : Recover(id)
           \/ Restart
    PROVE  CommandInv'
  <1>r. /\ RunsOf(run, Ids) /\ retries \subseteq Ids /\ recovering \subseteq Ids
        /\ epoch \in Nat /\ revision \in Nat /\ attempts \in [Tasks -> Seq(Records)]
        /\ \A c \in pending : c \in Calls /\ c.id \in Ids
    BY DEF CommandInv, Launched, Called, Attempted
  <1>n. ASSUME NEW id \in Ids
        PROVE  /\ IsRun(NewRun(id)) /\ NewRun(id).id = id /\ NewRun(id).entry = 0
    BY DEF NewRun, IsRun
  <1>1. ASSUME NEW c \in pending, Launch(c) PROVE CommandInv'
    <2>1. \A d \in pending' : d \in pending \/ d = Call("fail", c.id)
      BY <1>1 DEF Launch
    <2>2. \A d \in pending' : d \in pending \/ (/\ d \in Calls /\ d.id \in Ids
                                                /\ d.kind = "deliver" => Status(d.id) \in Answered)
      BY <1>r, <2>1, NewCall
    <2>3. retries' \subseteq Ids
      BY <1>1, <1>r DEF Launch
    <2>4. Starts(c.id, NewRun(c.id)) \/ UNCHANGED run
      BY <1>1 DEF Launch
    <2>5. RunsOf(run', Ids)
      BY <1>r, <1>n, <2>4, StartsKeeps
    <2> QED BY <1>1, <1>r, <2>2, <2>3, <2>5, Idle DEF Launch, durable, outside
  <1>2. ASSUME NEW c \in pending, FailAndReassign(c) PROVE CommandInv'
    <2>1. \A d \in pending' : d \in pending \/ (/\ d \in Calls /\ d.id \in Ids
                                                /\ d.kind = "deliver" => Status(d.id) \in Answered)
      <3>1. CASE Status(c.id) \in Open
        <4> DEFINE d == [c EXCEPT !.at = Status(c.id)]
        <4>1. d \in Calls /\ d.id = c.id /\ d.kind = "fail"
          BY <1>r, <1>2, <3>1 DEF FailAndReassign, Calls, Open
        <4>2. pending' = (pending \ {c}) \cup {d}
          BY <1>2, <3>1 DEF FailAndReassign, Becomes, Open
        <4> HIDE DEF d
        <4> QED BY <1>r, <4>1, <4>2
      <3>2. CASE Status(c.id) \notin Open
        BY <1>2, <3>2 DEF FailAndReassign, Open
      <3> QED BY <3>1, <3>2
    <2>2. RunsOf(Cleared(c.id, TRUE), Ids)
      BY <1>r, Clears
    <2>3. Now(Cleared(c.id, TRUE), live \ Entries(c.id)) \/ UNCHANGED run
      BY <1>2 DEF FailAndReassign
    <2>4. RunsOf(run', Ids)
      BY <1>r, <2>2, <2>3, Forgets
    <2> QED BY <1>2, <1>r, <2>1, <2>4, Idle DEF FailAndReassign, durable, outside
  <1>3. ASSUME NEW r \in Runs, Activate(r) PROVE CommandInv'
    <2>1. run[r].pc = "preparing" /\ run[r].id \in Ids
      BY <1>3, <1>r DEF Activate, RunsOf
    <2>2. \A c \in pending' : c \in pending \/ (/\ c \in Calls /\ c.id \in Ids
                                                /\ c.kind = "deliver" => Status(c.id) \in Answered)
      BY <1>3, <2>1, NewCall DEF Activate
    <2>3. RunsOf([run EXCEPT ![r].pc = "failed"], Ids)
      BY <1>r, <2>1, RunsField
    <2>4. ASSUME NEW e \in Entries(run[r].id),
                 run' = [run EXCEPT ![r].pc = "claiming", ![r].entry = e]
          PROVE  RunsOf(run', Ids)
      <3> DEFINE m == [run EXCEPT ![r].pc = "claiming"]
      <3>1. RunsOf(m, Ids)
        BY <1>r, <2>1, RunsField
      <3>2. e \in Runs => m[e].id \in Ids
        <4>1. run[e].id \in Ids
          BY <2>1 DEF Entries
        <4>2. e \in Runs => m[e].id = run[e].id
          BY <1>r, PcField DEF RunsOf, SetPc
        <4> QED BY <4>1, <4>2
      <3>3. run' = [m EXCEPT ![r].entry = e]
        BY <2>4
      <3> HIDE DEF m
      <3>4. RunsOf([m EXCEPT ![r].entry = e], Ids)
        BY <3>1, <3>2, RunsField
      <3> QED BY <3>3, <3>4
    <2>5. RunsOf(run', Ids)
      BY <1>3, <2>3, <2>4 DEF Activate
    <2> QED BY <1>3, <1>r, <2>2, <2>5, Idle DEF Activate, durable, outside
  <1>4. ASSUME NEW r \in Runs, Settle(r) PROVE CommandInv'
    <2>1. /\ run[r].pc # "free"
          /\ run' = [run EXCEPT ![r].pc = "answered"] \/ run' = [run EXCEPT ![r].pc = "failed"]
      BY <1>4 DEF Settle
    <2>2. RunsOf([run EXCEPT ![r].pc = "answered"], Ids)
      BY <1>r, <2>1, RunsField
    <2>3. RunsOf([run EXCEPT ![r].pc = "failed"], Ids)
      BY <1>r, <2>1, RunsField
    <2>4. RunsOf(run', Ids)
      BY <2>1, <2>2, <2>3
    <2>5. UNCHANGED <<durable, epoch, revision, pending, retries, recovering>>
      BY <1>4 DEF Settle
    <2> QED BY <1>r, <2>4, <2>5, Idle DEF durable
  <1>5. ASSUME NEW r \in Runs, Outcome(r) PROVE CommandInv'
    <2>1. run[r].pc \in {"answered", "failed"} /\ run[r].id \in Ids
      BY <1>5, <1>r DEF Outcome, RunsOf
    <2>2. \A c \in pending' : c \in pending \/ c = Call("fail", run[r].id)
      BY <1>5 DEF Outcome
    <2>3. \A c \in pending' : c \in pending \/ (/\ c \in Calls /\ c.id \in Ids
                                                /\ c.kind = "deliver" => Status(c.id) \in Answered)
      BY <2>1, <2>2, NewCall
    <2>4. PICK pc, yes : Now([run EXCEPT ![r].pc = pc, ![r].aborted = @ /\ yes], live)
      BY <1>5 DEF Outcome
    <2> DEFINE m == [run EXCEPT ![r].pc = pc]
    <2>5. RunsOf(m, Ids)
      BY <1>r, <2>1, RunsField
    <2>6. Now([m EXCEPT ![r].aborted = m[r].aborted /\ yes], live)
      BY <2>4
    <2> HIDE DEF m
    <2>7. RunsOf([m EXCEPT ![r].aborted = m[r].aborted /\ yes], Ids)
      BY <2>5, RunsField
    <2>8. RunsOf(run', Ids)
      BY <2>6, <2>7, Forgets
    <2> QED BY <1>5, <1>r, <2>3, <2>8, Idle DEF Outcome, durable, outside
  <1>6. ASSUME NEW id \in recovering, Recover(id) PROVE CommandInv'
    <2>1. id \in Ids
      BY <1>r
    <2>2. \/ pending' = pending
          \/ pending' = pending \cup {Call("relaunch", id)}
          \/ Status(id) = "delivery-pending" /\ pending' = pending \cup {Call("deliver", id)}
      BY <1>6 DEF Recover
    <2>3. \A c \in pending' : c \in pending \/ (/\ c \in Calls /\ c.id \in Ids
                                                /\ c.kind = "deliver" => Status(c.id) \in Answered)
      BY <2>1, <2>2, NewCall DEF Answered
    <2> DEFINE x == SetLease(SetTimer(SetPc(NewRun(id), "ended"), "stage2"), "none")
    <2>4. Starts(id, x) \/ UNCHANGED run
      BY <1>6 DEF Recover, SetLease, SetTimer, SetPc
    <2>5. IsRun(x) /\ x.id = id /\ x.entry = 0
      <3> DEFINE y == SetPc(NewRun(id), "ended")
                 z == SetTimer(y, "stage2")
      <3>0. IsRun(NewRun(id)) /\ NewRun(id).id = id /\ NewRun(id).entry = 0
        BY <1>n, <2>1
      <3>1. IsRun(y) /\ y.id = NewRun(id).id /\ y.entry = NewRun(id).entry
        BY <3>0, PcField
      <3>2. IsRun(z) /\ z.id = y.id /\ z.entry = y.entry
        <4> HIDE DEF y
        <4> QED BY <3>1, TimerField
      <3>3. x = SetLease(z, "none")
        OBVIOUS
      <3>4. IsRun(x) /\ x.id = z.id /\ x.entry = z.entry
        <4> HIDE DEF x, z
        <4> QED BY <3>2, <3>3, LeaseField
      <3> HIDE DEF x, y, z
      <3> QED BY <3>0, <3>1, <3>2, <3>4
    <2> HIDE DEF x
    <2>6. RunsOf(run', Ids)
      BY <1>r, <2>1, <2>4, <2>5, StartsKeeps
    <2> QED BY <1>6, <1>r, <2>3, <2>6, Idle DEF Recover, durable, outside
  <1>7. CASE Restart
    <2>1. RunsOf([r \in Runs |-> Free], Ids)
      <3>1. IsRun(Free) /\ Free.pc = "free" /\ Free.timer = "none" /\ Free.entry = 0
        BY DEF Free, IsRun
      <3>2. 0 \notin Runs
        BY DEF Runs
      <3> QED BY <3>1, <3>2 DEF RunsOf
    <2> QED BY <1>7, <1>r, <2>1, Idle DEF Restart, durable
  <1> QED BY <1>1, <1>2, <1>3, <1>4, <1>5, <1>6, <1>7

-----------------------------------------------------------------------------
(* Steps that change the attempts *)

\* Another status of an attempt.
LEMMA SetStatusStep ==
    ASSUME Attempted, NEW id \in Ids, NEW s \in Statuses, SetStatus(id, s),
           Status(id) # "superseded", Status(id) \in Answered => s \in Answered,
           UNCHANGED selection, epoch' \in Nat, revision' \in Nat
    PROVE  Attempted' /\ Evolves /\ Becoming(id) = s
  <1> DEFINE r == [At(id) EXCEPT !.status = s]
  <1>1. At(id) \in Records
    BY Names DEF Attempted
  <1>2. r \in Records /\ r.agent = At(id).agent /\ r.status = s
    BY <1>1 DEF Records
  <1>3. attempts' = [attempts EXCEPT ![id[1]][id[2]] = r]
    BY DEF SetStatus, At
  <1> HIDE DEF r
  <1> QED BY <1>2, <1>3, StatusStep

\* A participant that has not tried the task takes an open attempt over, or nobody does.
LEMMA SupersedeStep ==
    ASSUME Attempted, NEW id \in Ids, Status(id) \in Open, NEW next, Supersede(id, next),
           next = << >> \/ \E a \in Agents \ Tried(id[1]) : next = <<Attempt(a)>>,
           UNCHANGED selection, epoch' \in Nat, revision' \in Nat
    PROVE  /\ Attempted' /\ Evolves
           /\ next # << >> => <<id[1], Len(attempts[id[1]]) + 1>> \in Ids'
  <1> DEFINE t == id[1]  n == id[2]
  <1>1. /\ t \in Tasks /\ n \in DOMAIN attempts[t] /\ attempts[t] \in Seq(Records)
        /\ attempts \in [Tasks -> Seq(Records)]
    BY Names DEF Attempted
  <1>2. n = Len(attempts[t]) /\ n \in Nat \ {0}
    BY <1>1, OpenIsLast DEF Open
  <1> DEFINE x == [attempts[t][n] EXCEPT !.status = "superseded"]
             b == [attempts[t] EXCEPT ![n] = x]
             w == b \o next
  <1>x. x \in Records /\ x.status = "superseded" /\ x.agent = attempts[t][n].agent
    <2>1. attempts[t][n] \in Records
      BY <1>1
    <2> QED BY <2>1 DEF Records, Statuses
  <1>3. /\ b \in Seq(Records) /\ Len(b) = n /\ b[n].status = "superseded"
        /\ \A m \in 1..n : b[m].agent = attempts[t][m].agent /\ (m # n => b[m] = attempts[t][m])
    <2> HIDE DEF x
    <2> QED BY <1>1, <1>2, <1>x
  <1>4. /\ next \in Seq(Records) /\ Len(next) \in {0, 1}
        /\ Len(next) = 1 => next[1].agent \in Agents \ Tried(t)
    <2>1. CASE next = << >>
      BY <2>1
    <2>2. ASSUME NEW a \in Agents \ Tried(t), next = <<Attempt(a)>>
          PROVE  /\ next \in Seq(Records) /\ Len(next) \in {0, 1}
                 /\ Len(next) = 1 => next[1].agent \in Agents \ Tried(t)
      <3>1. Attempt(a) \in Records /\ Attempt(a).agent = a
        BY DEF Attempted, Attempt, Records, Statuses
      <3> QED BY <2>2, <3>1
    <2> QED BY <2>1, <2>2
  <1>5. attempts' = [attempts EXCEPT ![t] = w]
    BY DEF Supersede
  <1> HIDE DEF x, b
  <1>6. /\ w \in Seq(Records) /\ Len(w) = n + Len(next) /\ \A m \in 1..n : w[m] = b[m]
        /\ Len(next) = 1 => w[n + 1] = next[1]
    <2>1. /\ w \in Seq(Records) /\ Len(w) = Len(b) + Len(next)
          /\ \A i \in 1..Len(b) + Len(next) : w[i] = IF i <= Len(b) THEN b[i] ELSE next[i - Len(b)]
      <3>1. b \in Seq(Records) /\ next \in Seq(Records)
        BY <1>3, <1>4
      <3> QED BY <3>1, ConcatProperties, Zenon
    <2> HIDE DEF w
    <2>0. Len(b) = n /\ n \in Nat /\ Len(next) \in Nat
      BY <1>2, <1>3, <1>4
    <2>2. \A m \in 1..n : w[m] = b[m]
      <3> SUFFICES ASSUME NEW m \in 1..n PROVE w[m] = b[m]
        OBVIOUS
      <3>1. m \in 1..Len(b) + Len(next) /\ m <= Len(b)
        BY <2>0
      <3> QED BY <2>1, <3>1, Zenon
    <2>3. Len(next) = 1 => w[n + 1] = next[1]
      <3> SUFFICES ASSUME Len(next) = 1 PROVE w[n + 1] = next[1]
        OBVIOUS
      <3>1. n + 1 \in 1..Len(b) + Len(next) /\ ~(n + 1 <= Len(b)) /\ (n + 1) - Len(b) = 1
        BY <2>0
      <3> QED BY <2>1, <3>1
    <2> QED BY <1>3, <2>1, <2>2, <2>3
  <1> HIDE DEF w
  <1>7. attempts' \in [Tasks -> Seq(Records)] /\ attempts'[t] = w
        /\ \A u \in Tasks : u # t => attempts'[u] = attempts[u]
    BY <1>1, <1>5, <1>6
  <1>8. \A u \in Tasks : selection[u] = Unasked => attempts'[u] = << >>
    <2>1. attempts[t] # << >>
      BY <1>1
    <2> QED BY <1>7, <2>1 DEF Attempted
  <1>9. DOMAIN attempts[t] = 1..n /\ DOMAIN w = 1..Len(w)
    BY <1>1, <1>2, <1>6
  <1>10. OneAttempt'
    <2> SUFFICES ASSUME NEW u \in Tasks, NEW k \in DOMAIN attempts'[u], NEW m \in DOMAIN attempts'[u], k < m
                 PROVE  attempts'[u][k].status = "superseded" /\ attempts'[u][k].agent # attempts'[u][m].agent
      BY DEF OneAttempt
    <2>1. CASE u # t
      BY <1>7, <2>1 DEF Attempted, OneAttempt
    <2>2. CASE u = t
      <3>1. k \in 1..n /\ m \in 1..(n + Len(next)) /\ attempts'[u] = w
        <4>1. attempts'[u] = w
          BY <1>7, <2>2
        <4>2. k \in 1..Len(w) /\ m \in 1..Len(w)
          BY <1>9, <4>1
        <4>3. \E d \in {0, 1} : Len(next) = d /\ Len(w) = n + d
          BY <1>4, <1>6
        <4> HIDE DEF n
        <4> QED BY <1>2, <4>1, <4>2, <4>3
      <3>2. w[k].status = "superseded"
        <4>1. CASE k = n
          BY <1>3, <1>6, <3>1, <4>1
        <4>2. CASE k # n
          <5>1. k < n /\ n \in DOMAIN attempts[t] /\ k \in DOMAIN attempts[t]
            BY <1>2, <1>9, <3>1, <4>2
          <5>2. attempts[t][k].status = "superseded"
            BY <1>1, <5>1 DEF Attempted, OneAttempt
          <5> QED BY <1>3, <1>6, <3>1, <4>2, <5>2
        <4> QED BY <4>1, <4>2
      <3>3. w[k].agent = attempts[t][k].agent
        BY <1>3, <1>6, <3>1
      <3>4. CASE m \in 1..n
        <4>1. w[m].agent = attempts[t][m].agent
          BY <1>3, <1>6, <3>4
        <4>2. attempts[t][k].agent # attempts[t][m].agent
          BY <1>1, <1>9, <3>1, <3>4 DEF Attempted, OneAttempt
        <4> QED BY <3>1, <3>2, <3>3, <4>1, <4>2
      <3>5. CASE m \notin 1..n
        <4>1. m = n + 1 /\ Len(next) = 1
          <5>1. \E d \in {0, 1} : Len(next) = d /\ m \in 1..(n + d)
            BY <1>4, <3>1
          <5> HIDE DEF n
          <5> QED BY <1>2, <3>5, <5>1
        <4>2. attempts[t][k].agent \in Tried(t)
          BY <1>9, <3>1 DEF Tried
        <4> QED BY <1>4, <1>6, <3>1, <3>2, <3>3, <4>1, <4>2
      <3> QED BY <3>4, <3>5
    <2> QED BY <2>1, <2>2
  <1>11. Evolves
    <2> SUFFICES ASSUME NEW u \in Tasks, NEW m \in DOMAIN attempts[u]
                 PROVE  /\ m \in DOMAIN attempts'[u]
                        /\ attempts[u][m].status \in Answered => attempts'[u][m].status \in Answered
      BY DEF Evolves
    <2>1. CASE u # t
      BY <1>7, <2>1
    <2>2. CASE u = t
      <3>1. m \in 1..n /\ m \in 1..Len(w)
        BY <1>2, <1>4, <1>6, <1>9, <2>2
      <3>2. m = n => attempts[t][m].status \notin Answered
        BY DEF Status, At, Open, Answered
      <3> QED BY <1>3, <1>6, <1>7, <1>9, <2>2, <3>1, <3>2
    <2> QED BY <2>1, <2>2
  <1>12. next # << >> => <<t, n + 1>> \in Ids'
    <2>1. next # << >> => Len(next) = 1
      BY <1>4
    <2>2. next # << >> => n + 1 \in DOMAIN attempts'[t]
      BY <1>2, <1>6, <1>7, <1>9, <2>1
    <2> QED BY <1>1, <2>2 DEF Ids
  <1> QED BY <1>2, <1>7, <1>8, <1>10, <1>11, <1>12 DEF Attempted

\* The first attempt of a task.
LEMMA SubmitStep ==
    ASSUME Attempted, NEW t \in Tasks, selection[t] = Unasked,
           NEW pin \in Agents \cup {NoAgent}, NEW a \in Agents,
           selection' = [selection EXCEPT ![t] = pin],
           attempts' = [attempts EXCEPT ![t] = <<Attempt(a)>>], epoch' \in Nat, revision' \in Nat
    PROVE  Attempted' /\ Evolves /\ <<t, 1>> \in Ids'
  <1>1. attempts[t] = << >> /\ attempts \in [Tasks -> Seq(Records)]
    BY DEF Attempted
  <1>2. Attempt(a) \in Records
    BY DEF Attempted, Attempt, Records, Statuses
  <1> DEFINE w == <<Attempt(a)>>
  <1>3. w \in Seq(Records) /\ DOMAIN w = {1}
    BY <1>2
  <1> HIDE DEF w
  <1>4. attempts' = [attempts EXCEPT ![t] = w]
    BY DEF w
  <1>5. attempts' \in [Tasks -> Seq(Records)] /\ attempts'[t] = w
        /\ \A u \in Tasks : u # t => attempts'[u] = attempts[u]
    BY <1>1, <1>3, <1>4
  <1>6. pin \in Int /\ pin # Unasked
    BY DEF Agents, NoAgent, Unasked
  <1>7. selection' \in [Tasks -> Int] /\ selection'[t] # Unasked
        /\ \A u \in Tasks : u # t => selection'[u] = selection[u]
    BY <1>6 DEF Attempted
  <1>8. \A u \in Tasks : selection'[u] = Unasked => attempts'[u] = << >>
    BY <1>5, <1>7 DEF Attempted
  <1>9. OneAttempt'
    BY <1>3, <1>5 DEF Attempted, OneAttempt
  <1>10. Evolves
    BY <1>1, <1>5 DEF Evolves
  <1>11. <<t, 1>> \in Ids'
    BY <1>3, <1>5 DEF Ids
  <1> QED BY <1>5, <1>7, <1>8, <1>9, <1>10, <1>11 DEF Attempted

\* The participants of the next turn are among those that were not excluded.
LEMMA RoundRobinAmong ==
    ASSUME NEW excluded
    PROVE  RoundRobin(excluded) \subseteq Agents \ excluded
  BY DEF RoundRobin

\* The attempts change, the room does not.
LEMMA Moves ==
    ASSUME CommandInv, Attempted', Evolves, UNCHANGED <<room, retries, recovering>>,
           \A c \in pending' : c \in pending \/ (/\ c \in Calls /\ c.id \in Ids'
                                                 /\ c.kind = "deliver" => Becoming(c.id) \in Answered),
           RunsOf(run', Ids)
    PROVE  CommandInv'
  <1>1. Ids \subseteq Ids'
    BY Evolution DEF CommandInv
  <1>2. RunsOf(run', Ids \cup Ids')
    BY RunsGrow
  <1>3. retries' \subseteq Ids' /\ recovering' \subseteq Ids'
    BY <1>1 DEF CommandInv, Called
  <1> QED BY <1>2, <1>3, Carries

\* Requests, claims, answers, deliveries and reassignments.
LEMMA StoreSteps ==
    ASSUME CommandAssumption, CommandInv,
           \/ \E t \in Tasks : Submit(t)
           \/ \E r \in Runs : Claim(r) \/ Complete(r)
           \/ \E c \in pending : Deliver(c) \/ DeliverTask(c) \/ Reassign(c)
    PROVE  CommandInv'
  <1>r. /\ RunsOf(run, Ids) /\ Attempted /\ epoch \in Nat /\ revision \in Nat
        /\ retries \subseteq Ids /\ recovering \subseteq Ids
        /\ \A c \in pending : /\ c \in Calls /\ c.id \in Ids
                              /\ c.kind = "deliver" => Status(c.id) \in Answered
    BY DEF CommandInv, Launched, Called, Attempted
  <1>d. ASSUME NEW c \in pending, c.kind = "deliver", SetStatus(c.id, "completed"),
               pending' = pending \ {c},
               UNCHANGED <<selection, room, epoch, revision, run, retries, recovering>>
        PROVE  CommandInv'
    <2>1. c.id \in Ids /\ Status(c.id) # "superseded"
      BY <1>d, <1>r DEF Answered
    <2>2. "completed" \in Statuses /\ "completed" \in Answered
      BY DEF Statuses, Answered
    <2>3. Attempted' /\ Evolves
      BY <1>d, <1>r, <2>1, <2>2, SetStatusStep
    <2> QED BY <1>d, <1>r, <2>3, Moves
  <1>1. ASSUME NEW t \in Tasks, Submit(t) PROVE CommandInv'
    <2>1. PICK pin \in Pinnable \cup {NoAgent}, a \in Agents :
             /\ selection' = [selection EXCEPT ![t] = pin]
             /\ attempts' = [attempts EXCEPT ![t] = <<Attempt(a)>>]
      <3>1. RoundRobin({}) \subseteq Agents
        BY RoundRobinAmong
      <3>2. Pinnable \subseteq Agents
        BY DEF CommandAssumption
      <3> QED BY <1>1, <3>1, <3>2 DEF Submit
    <2>2. pin \in Agents \cup {NoAgent}
      BY DEF CommandAssumption
    <2>3. Attempted' /\ Evolves /\ <<t, 1>> \in Ids'
      BY <1>1, <1>r, <2>1, <2>2, SubmitStep DEF Submit, outside
    <2>4. /\ Call("launch", <<t, 1>>) \in Calls /\ Call("launch", <<t, 1>>).id = <<t, 1>>
          /\ Call("launch", <<t, 1>>).kind = "launch"
      BY DEF Call, Calls
    <2>5. pending' = pending \cup {Call("launch", <<t, 1>>)}
      BY <1>1 DEF Submit
    <2>6. \A c \in pending' : c \in pending \/ (/\ c \in Calls /\ c.id \in Ids'
                                                /\ c.kind = "deliver" => Becoming(c.id) \in Answered)
      BY <2>3, <2>4, <2>5
    <2> QED BY <1>1, <1>r, <2>3, <2>6, Moves DEF Submit
  <1>2. ASSUME NEW r \in Runs, Claim(r) PROVE CommandInv'
    <2>1. run[r].pc = "claiming" /\ run[r].id \in Ids
      BY <1>2, <1>r DEF Claim, RunsOf
    <2>2. 0 \notin Runs
      BY DEF Runs
    <2>3. CASE Status(run[r].id) = "queued"
      <3>1. "active" \in Statuses /\ "queued" \notin Answered
        BY DEF Statuses, Answered
      <3>2. Attempted' /\ Evolves
        BY <1>2, <1>r, <2>1, <2>3, <3>1, SetStatusStep DEF Claim, outside
      <3> DEFINE e == run[r].entry
                 m == [run EXCEPT ![r].pc = "generating"]
                 n == [m EXCEPT ![r].entry = 0]
                 o == [n EXCEPT ![e].timer = "stage2"]
                 v == IF run[e].lease = "reserved" THEN "activated" ELSE run[e].lease
      <3>3. run' = [o EXCEPT ![e].lease = v]
        BY <1>2, <2>3 DEF Claim
      <3>4. RunsOf(m, Ids) /\ \A q \in Runs : m[q].id = run[q].id
        <4>1. RunsOf(m, Ids)
          BY <1>r, <2>1, RunsField
        <4>2. \A q \in Runs : m[q].id = run[q].id
          BY <1>r, RunsKeepIds
        <4> QED BY <4>1, <4>2
      <3> HIDE DEF m
      <3>5. RunsOf(n, Ids) /\ \A q \in Runs : n[q].id = m[q].id
        <4>1. RunsOf(n, Ids)
          BY <2>2, <3>4, RunsField
        <4>2. \A q \in Runs : n[q].id = m[q].id
          BY <3>4, RunsKeepIds
        <4> QED BY <4>1, <4>2
      <3> HIDE DEF n
      <3>6. e \in Runs => n[e].id \in Ids
        BY <1>r, <3>4, <3>5 DEF RunsOf
      <3>7. RunsOf(o, Ids)
        BY <3>5, <3>6, RunsField
      <3> HIDE DEF o, v
      <3>8. RunsOf([o EXCEPT ![e].lease = v], Ids)
        BY <3>7, RunsField
      <3>9. pending' = pending
        BY <1>2 DEF Claim
      <3> QED BY <1>2, <1>r, <3>2, <3>3, <3>8, <3>9, Moves DEF Claim
    <2>4. CASE Status(run[r].id) # "queued"
      <3> DEFINE m == [run EXCEPT ![r].pc = "failed"]
      <3>1. RunsOf(m, Ids)
        BY <1>r, <2>1, RunsField
      <3>2. run' = [m EXCEPT ![r].entry = 0]
        BY <1>2, <2>4 DEF Claim
      <3> HIDE DEF m
      <3>3. RunsOf([m EXCEPT ![r].entry = 0], Ids)
        BY <2>2, <3>1, RunsField
      <3>4. RunsOf(run', Ids)
        BY <3>2, <3>3
      <3> QED BY <1>2, <1>r, <2>4, <3>4, Idle DEF Claim, outside
    <2> QED BY <2>3, <2>4
  <1>3. ASSUME NEW r \in Runs, Complete(r) PROVE CommandInv'
    <2> DEFINE id == run[r].id
    <2>1. run[r].pc = "completing" /\ id \in Ids
      BY <1>3, <1>r DEF Complete, RunsOf
    <2>2. ASSUME NEW runs, RunsOf(runs, Ids), runs[r].pc = "completing", NEW entries,
                 Now([runs EXCEPT ![r].pc = "ended", ![r].aborted = FALSE], entries)
          PROVE  RunsOf(run', Ids)
      <3> DEFINE m == [runs EXCEPT ![r].pc = "ended"]
      <3>1. RunsOf(m, Ids)
        BY <2>2, RunsField
      <3>2. Now([m EXCEPT ![r].aborted = FALSE], entries)
        BY <2>2
      <3> HIDE DEF m
      <3>3. RunsOf([m EXCEPT ![r].aborted = FALSE], Ids)
        BY <3>1, RunsField
      <3> QED BY <3>2, <3>3, Forgets
    <2>3. CASE Unchanged(id)
      <3>1. Status(id) = "active"
        BY <2>3 DEF Unchanged
      <3>2. PICK size \in 0..MaxBurst :
               attempts' = [attempts EXCEPT ![id[1]][id[2]] =
                               [@ EXCEPT !.status = "delivery-pending", !.size = size]]
        BY <1>3, <2>3 DEF Complete
      <3> DEFINE x == [At(id) EXCEPT !.status = "delivery-pending", !.size = size]
      <3>3. At(id) \in Records
        BY <1>r, <2>1, Names DEF Attempted
      <3>4. x \in Records /\ x.agent = At(id).agent /\ x.status = "delivery-pending"
        <4>1. size \in Nat
          BY DEF CommandAssumption
        <4> DEFINE y == [At(id) EXCEPT !.status = "delivery-pending"]
        <4>2. y \in Records /\ y.agent = At(id).agent /\ y.status = "delivery-pending"
          BY <3>3 DEF Records, Statuses
        <4>3. x = [y EXCEPT !.size = size]
          OBVIOUS
        <4> HIDE DEF x, y
        <4> QED BY <4>1, <4>2, <4>3 DEF Records
      <3>5. attempts' = [attempts EXCEPT ![id[1]][id[2]] = x]
        BY <3>2 DEF At
      <3>6. "active" # "superseded" /\ "active" \notin Answered /\ "delivery-pending" \in Answered
        BY DEF Answered
      <3>7. UNCHANGED <<selection, epoch, revision>>
        BY <1>3 DEF Complete, outside
      <3> HIDE DEF x, id
      <3>8. Attempted' /\ Evolves /\ Becoming(id) = "delivery-pending"
        BY <1>r, <2>1, <3>1, <3>4, <3>5, <3>6, <3>7, StatusStep
      <3>9. \A c \in pending' : c \in pending \/ c = Call("deliver", id)
        BY <1>3, <2>3 DEF Complete, id
      <3>10. id \in Ids'
        BY <1>r, <2>1, <3>8, Evolution
      <3>11. \A c \in pending' : c \in pending \/ (/\ c \in Calls /\ c.id \in Ids'
                                                   /\ c.kind = "deliver" => Becoming(c.id) \in Answered)
        BY <2>1, <3>6, <3>8, <3>9, <3>10, NewCall
      <3>12. RunsOf(run', Ids)
        <4>1. RunsOf(Cleared(id, FALSE), Ids) /\ Cleared(id, FALSE)[r].pc = "completing"
          BY <1>r, <2>1, Clears
        <4>2. Now([Cleared(id, FALSE) EXCEPT ![r].pc = "ended", ![r].aborted = FALSE], live \ Entries(id))
          BY <1>3, <2>3 DEF Complete, id
        <4> QED BY <2>2, <4>1, <4>2
      <3> QED BY <1>3, <1>r, <3>8, <3>11, <3>12, Moves DEF Complete
    <2>4. CASE ~Unchanged(id)
      <3>1. Now([run EXCEPT ![r].pc = "ended", ![r].aborted = FALSE], live) /\ UNCHANGED <<attempts, pending>>
        BY <1>3, <2>4 DEF Complete
      <3>2. RunsOf(run', Ids)
        BY <1>r, <2>1, <2>2, <3>1
      <3> QED BY <1>3, <1>r, <3>1, <3>2, Idle DEF Complete, outside
    <2> QED BY <2>3, <2>4
  <1>4. ASSUME NEW c \in pending, Deliver(c) PROVE CommandInv'
    <2>1. CASE AttemptCurrent(c.id)
      <3> DEFINE d == [c EXCEPT !.at = "sending"]
      <3>1. d \in Calls /\ d.id = c.id /\ d.kind = c.kind
        BY <1>r DEF Calls
      <3>2. pending' = (pending \ {c}) \cup {d}
        BY <1>4, <2>1 DEF Deliver, Becomes
      <3> HIDE DEF d
      <3>3. \A i \in pending' : i \in pending \/ (/\ i \in Calls /\ i.id \in Ids
                                                  /\ i.kind = "deliver" => Status(i.id) \in Answered)
        BY <1>r, <3>1, <3>2
      <3> QED BY <1>4, <1>r, <2>1, <3>3, Idle DEF Deliver, outside
    <2>2. CASE ~AttemptCurrent(c.id) /\ Status(c.id) = "delivery-pending"
      BY <1>4, <1>d, <2>2 DEF Deliver, outside
    <2>3. CASE ~AttemptCurrent(c.id) /\ Status(c.id) # "delivery-pending"
      <3>1. pending' \subseteq pending
        BY <1>4, <2>3 DEF Deliver
      <3> QED BY <1>4, <1>r, <2>3, <3>1, Idle DEF Deliver, outside
    <2> QED BY <2>1, <2>2, <2>3
  <1>5. ASSUME NEW c \in pending, DeliverTask(c) PROVE CommandInv'
    <2>1. CASE c.sent < At(c.id).size
      <3> DEFINE d == [c EXCEPT !.sent = @ + 1]
                 k == c.sent + 1
      <3>1. d \in Calls /\ d.id = c.id /\ d.kind = c.kind /\ k \in Nat
        BY <1>r DEF Calls
      <3>2. pending' = (pending \ {c}) \cup {d} /\ AddCommandDeliveryMessageOnce(c.id, k)
        BY <1>5, <2>1 DEF DeliverTask, Becomes
      <3>3. UNCHANGED <<selection, attempts, epoch, revision, run, retries, recovering>>
        BY <1>5, <2>1 DEF DeliverTask, outside
      <3> HIDE DEF d, k
      <3>4. Attempted' /\ Evolves /\ Ids' = Ids /\ \A id : Becoming(id) = Status(id)
        BY <1>r, <3>3, Same
      <3>5. \A i \in pending' : i \in pending \/ (/\ i \in Calls /\ i.id \in Ids'
                                                  /\ i.kind = "deliver" => Becoming(i.id) \in Answered)
        BY <1>r, <3>1, <3>2, <3>4
      <3>6. Shown' \/ UNCHANGED room
        <4>1. CASE <<c.id, k>> \in Range(room)
          BY <3>2, <4>1 DEF AddCommandDeliveryMessageOnce
        <4>2. CASE <<c.id, k>> \notin Range(room)
          <5> DEFINE x == <<c.id, k>>
          <5>1. room' = Append(room, x)
            BY <3>2, <4>2 DEF AddCommandDeliveryMessageOnce
          <5>2. x \in (Tasks \X Nat) \X Nat /\ x[1] = c.id
            BY <1>r, <3>1 DEF Calls
          <5>3. x[1] \in Ids /\ Status(x[1]) \in Answered
            BY <1>5, <1>r, <5>2 DEF DeliverTask
          <5>4. \A i \in DOMAIN room : room[i] # x
            BY <4>2 DEF Range
          <5>5. /\ room \in Seq((Tasks \X Nat) \X Nat)
                /\ \A i, j \in DOMAIN room : room[i] = room[j] => i = j
                /\ \A i \in DOMAIN room : room[i][1] \in Ids /\ Status(room[i][1]) \in Answered
            BY DEF CommandInv, Shown
          <5> HIDE DEF x
          <5>6. /\ room' \in Seq((Tasks \X Nat) \X Nat)
                /\ \A i \in DOMAIN room' : \/ i \in DOMAIN room /\ room'[i] = room[i]
                                           \/ i = Len(room) + 1 /\ room'[i] = x
            <6>1. Len(room) \in Nat /\ DOMAIN room = 1..Len(room)
              BY <5>5
            <6>2. /\ Append(room, x) \in Seq((Tasks \X Nat) \X Nat)
                  /\ DOMAIN Append(room, x) = 1..(Len(room) + 1)
                  /\ \A i \in 1..Len(room) : Append(room, x)[i] = room[i]
                  /\ Append(room, x)[Len(room) + 1] = x
              BY <5>2, <5>5
            <6>3. \A i \in 1..(Len(room) + 1) : i \in 1..Len(room) \/ i = Len(room) + 1
              BY <6>1
            <6> QED BY <5>1, <6>1, <6>2, <6>3, Zenon
          <5>7. \A i, j \in DOMAIN room' : room'[i] = room'[j] => i = j
            BY <5>4, <5>5, <5>6
          <5>8. \A i \in DOMAIN room' : room'[i][1] \in Ids' /\ Becoming(room'[i][1]) \in Answered
            BY <3>4, <5>3, <5>5, <5>6
          <5> QED BY <5>6, <5>7, <5>8 DEF Shown, Becoming, Status, At
        <4> QED BY <4>1, <4>2
      <3>7. RunsOf(run', Ids \cup Ids') /\ retries' \subseteq Ids' /\ recovering' \subseteq Ids'
        BY <1>r, <3>3, <3>4
      <3> QED BY <3>4, <3>5, <3>6, <3>7, Carries
    <2>2. CASE ~(c.sent < At(c.id).size) /\ Status(c.id) = "delivery-pending"
      BY <1>5, <1>d, <2>2 DEF DeliverTask, outside
    <2>3. CASE ~(c.sent < At(c.id).size) /\ Status(c.id) # "delivery-pending"
      <3>1. pending' \subseteq pending
        BY <1>5, <2>3 DEF DeliverTask
      <3> QED BY <1>5, <1>r, <2>3, <3>1, Idle DEF DeliverTask, outside
    <2> QED BY <2>1, <2>2, <2>3
  <1>6. ASSUME NEW c \in pending, Reassign(c) PROVE CommandInv'
    <2> DEFINE t == c.id[1]
               next == <<t, Len(attempts[t]) + 1>>
    <2>1. CASE Status(c.id) # c.at
      <3>1. pending' \subseteq pending /\ UNCHANGED <<run, attempts>>
        BY <1>6, <2>1 DEF Reassign
      <3> QED BY <1>6, <1>r, <3>1, Idle DEF Reassign, outside
    <2>2. CASE Status(c.id) = c.at
      <3>1. Status(c.id) \in Open /\ UNCHANGED <<selection, room, epoch, revision, retries, recovering>>
        BY <1>6, <2>2 DEF Reassign, Open, outside
      <3>2. RunsOf(run', Ids)
        <4>1. Now(Cleared(c.id, TRUE), live \ Entries(c.id))
          BY <1>6, <2>2 DEF Reassign
        <4> QED BY <1>r, <4>1, Clears, Forgets
      <3>3. Successors(t) \subseteq Agents \ Tried(t)
        BY RoundRobinAmong DEF Successors
      <3>4. PICK s : /\ Supersede(c.id, s)
                     /\ \/ s = << >> /\ pending' \subseteq pending
                        \/ /\ \E a \in Successors(t) : s = <<Attempt(a)>>
                           /\ \A d \in pending' : d \in pending \/ d = Call("launch", next)
        <4>1. CASE Supersede(c.id, << >>) /\ pending' = pending \ {c}
          BY <4>1
        <4>2. ASSUME NEW a \in Successors(t), Supersede(c.id, <<Attempt(a)>>),
                     \/ pending' = (pending \ {c}) \cup {Call("launch", next)}
                     \/ pending' = pending \ {c}
              PROVE  \E s : /\ Supersede(c.id, s)
                            /\ \/ s = << >> /\ pending' \subseteq pending
                               \/ /\ \E b \in Successors(t) : s = <<Attempt(b)>>
                                  /\ \A d \in pending' : d \in pending \/ d = Call("launch", next)
          <5> WITNESS <<Attempt(a)>>
          <5> QED BY <4>2
        <4> QED BY <1>6, <2>2, <4>1, <4>2 DEF Reassign
      <3>5. s = << >> \/ \E a \in Agents \ Tried(t) : s = <<Attempt(a)>>
        BY <3>3, <3>4
      <3>6. /\ Attempted' /\ Evolves
            /\ s # << >> => next \in Ids'
        BY <1>r, <3>1, <3>4, <3>5, SupersedeStep
      <3>7. \A d \in pending' : d \in pending \/ (/\ d \in Calls /\ d.id \in Ids'
                                                  /\ d.kind = "deliver" => Becoming(d.id) \in Answered)
        <4>1. CASE s = << >> /\ pending' \subseteq pending
          BY <4>1
        <4>2. CASE s # << >> /\ \A d \in pending' : d \in pending \/ d = Call("launch", next)
          <5>1. next \in Tasks \X Nat /\ next \in Ids'
            <6>1. t \in Tasks /\ attempts[t] \in Seq(Records)
              BY <1>r, Names DEF Attempted
            <6>2. Len(attempts[t]) + 1 \in Nat
              BY <6>1
            <6>3. next = <<t, Len(attempts[t]) + 1>>
              OBVIOUS
            <6>4. next \in Tasks \X Nat
              BY <6>1, <6>2, <6>3
            <6> QED BY <3>6, <4>2, <6>4
          <5>2. /\ Call("launch", next) \in Calls /\ Call("launch", next).id = next
                /\ Call("launch", next).kind = "launch"
            BY <5>1 DEF Call, Calls
          <5> QED BY <4>2, <5>1, <5>2
        <4>3. (\E a \in Successors(t) : s = <<Attempt(a)>>) => s # << >>
          OBVIOUS
        <4> QED BY <3>4, <4>1, <4>2, <4>3
      <3> QED BY <1>r, <3>1, <3>2, <3>6, <3>7, Moves
    <2> QED BY <2>1, <2>2
  <1> QED BY <1>1, <1>2, <1>3, <1>4, <1>5, <1>6

-----------------------------------------------------------------------------
(* The invariant and the theorem *)

\* At first there is no attempt, no run and no message.
LEMMA CommandInit == Init => CommandInv
  <1> SUFFICES ASSUME Init PROVE CommandInv
    OBVIOUS
  <1>1. attempts = [t \in Tasks |-> << >>] /\ selection = [t \in Tasks |-> Unasked] /\ room = << >>
        /\ epoch = 0 /\ revision = 1 /\ pending = {} /\ retries = {} /\ recovering = {}
        /\ run = [r \in Runs |-> Free]
    BY DEF Init
  <1>2. Attempted
    BY <1>1 DEF Attempted, OneAttempt, Unasked
  <1>3. Launched
    <2>1. IsRun(Free) /\ Free.pc = "free" /\ Free.timer = "none" /\ Free.entry = 0 /\ 0 \notin Runs
      BY DEF Free, IsRun, Runs
    <2> QED BY <1>1, <2>1 DEF Launched, RunsOf
  <1>4. Called /\ Shown
    BY <1>1 DEF Called, Shown
  <1> QED BY <1>2, <1>3, <1>4 DEF CommandInv

\* Every step of the command runtime keeps the invariant.
LEMMA CommandStep ==
    ASSUME CommandAssumption, CommandInv, [Next]_vars
    PROVE  CommandInv'
  BY QuietSteps, LaunchSteps, StoreSteps DEF Next, Proceed, Write

\* No message of a command is stored twice, a task is answered by one attempt, and by none
\* that was taken away from its participant: what the room shows belongs to the last
\* attempt of its task (delivery of server/command-runtime.ts, all tasks and participants).
THEOREM OneAnswerHolds == Spec => []OneAnswer
  <1>1. CommandInv => OneAnswer
    <2> SUFFICES ASSUME CommandInv PROVE OneAnswer
      OBVIOUS
    <2>1. Attempted /\ Shown
      BY DEF CommandInv
    <2>2. ASSUME NEW i \in DOMAIN room
          PROVE  /\ room[i][1] \in Ids /\ Status(room[i][1]) # "superseded"
                 /\ room[i][1] = <<room[i][1][1], Len(attempts[room[i][1][1]])>>
      <3>1. room[i][1] \in Ids /\ Status(room[i][1]) # "superseded"
        BY <2>1 DEF Shown, Answered
      <3>2. room[i][1] = <<room[i][1][1], room[i][1][2]>>
        BY <2>1, <3>1, Names DEF Attempted
      <3> QED BY <2>1, <3>1, <3>2, OpenIsLast
    <2>3. \A i, j \in DOMAIN room : room[i][1][1] = room[j][1][1] => room[i][1] = room[j][1]
      BY <2>2
    <2> QED BY <2>1, <2>3 DEF OneAnswer, Shown, Answered, Attempted
  <1>2. CommandAssumption
    BY CommandAssumption
  <1> QED BY <1>1, <1>2, CommandInit, CommandStep, PTL DEF Spec
=============================================================================
