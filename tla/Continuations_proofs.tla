------------------------ MODULE Continuations_proofs ------------------------
(***************************************************************************)
(* Proofs about Continuations and AssignmentLifecycle for any jobs, agents *)
(* and assignments, any limits and any number of events.                   *)
(***************************************************************************)
EXTENDS Continuations, FiniteSetTheorems, SequenceTheorems, TLAPS

-----------------------------------------------------------------------------
(* The writer slot *)

Assigned ==
    /\ lifecycle \in [Assignments -> {"NONE", "ACTIVE", "RECOVERABLE", "MISSING",
                                      "COMPLETED", "CANCELLED", "DISPOSED"}]
    /\ mutating \in Assignments \cup {NoAssignment}
    /\ \A s \in Assignments : lifecycle[s] = "COMPLETED" => s \in completed
    /\ \A s \in Assignments \ completed : \A t \in Assignments \ completed :
          ReservesWriterSlot(s) /\ ReservesWriterSlot(t) => s = t
    /\ mutating # NoAssignment /\ lifecycle[mutating] = "NONE" =>
          \A t \in Assignments : ~ReservesWriterSlot(t)

\* Initially there is no assignment.
LEMMA AssignedInit == AssignmentInit => Assigned
  BY DEF AssignmentInit, Assigned, ReservesWriterSlot, Writable

\* Reconciliation gives the slot to none that did not have it, except to one
\* that has been COMPLETED.
LEMMA ReconciledStep ==
    ASSUME Assigned, Reconciled, mutating' \in {mutating, NoAssignment},
           mutating' # NoAssignment => mutating = NoAssignment
    PROVE  Assigned'
  <1>1. \A s \in Assignments : lifecycle'[s] = Observed(s)
    BY DEF Reconciled
  <1>2. \A s \in Assignments : s \notin completed' => s \notin completed /\ Observed(s) # "COMPLETED"
    BY DEF Reconciled
  <1>3. \A s \in Assignments \ completed : ReservesWriterSlot(s)' => ReservesWriterSlot(s)
    <2> TAKE s \in Assignments \ completed
    <2>1. lifecycle[s] \in {"NONE", "ACTIVE", "RECOVERABLE", "MISSING", "CANCELLED", "DISPOSED"}
      BY DEF Assigned
    <2>2. CASE lifecycle[s] \in {"NONE", "CANCELLED", "DISPOSED"}
      <3>1. lifecycle'[s] = lifecycle[s]
        BY <1>1, <2>2 DEF Observed
      <3> QED BY <3>1, <2>2 DEF ReservesWriterSlot, Writable
    <2>3. CASE lifecycle[s] \in {"ACTIVE", "RECOVERABLE", "MISSING"}
      BY <2>3 DEF ReservesWriterSlot, Writable
    <2> QED BY <2>1, <2>2, <2>3
  <1>4. \A s \in Assignments : Observed(s) \in {"NONE", "ACTIVE", "RECOVERABLE", "MISSING",
                                                "COMPLETED", "CANCELLED", "DISPOSED"}
    BY DEF Assigned, Observed
  <1> QED BY <1>1, <1>2, <1>3, <1>4 DEF Assigned, Reconciled, NoAssignment

\* Every step that an assignment may take.
LEMMA AssignedStep ==
    ASSUME Assigned,
           \/ Reconcile \/ PutAssignment \/ UNCHANGED assignmentVars
           \/ \E s \in Assignments : \/ AddWorktree(s) \/ CancelAssignment(s) \/ RemoveWorktree(s)
                                     \/ Touch(s) \/ Revoke(s) \/ Reinstate(s)
           \/ Reconciled /\ mutating' = NoAssignment
    PROVE  Assigned'
  <1>1. CASE Reconcile \/ (Reconciled /\ mutating' = NoAssignment)
    BY <1>1, ReconciledStep DEF Reconcile
  <1>2. CASE PutAssignment
    <2> USE <1>2 DEF PutAssignment
    <2>1. mutating \in Assignments /\ NoAssignment \notin Assignments
      BY DEF Assigned, Assignments, NoAssignment
    <2>2. \A s \in Assignments : lifecycle'[s] =
             IF s # mutating THEN lifecycle[s] ELSE IF lifecycle[s] = "NONE" THEN "ACTIVE" ELSE "DISPOSED"
      BY <2>1 DEF Assigned
    <2>3. \A s \in Assignments : ReservesWriterSlot(s)' =>
             ReservesWriterSlot(s) \/ (s = mutating /\ lifecycle[s] = "NONE")
      BY <2>2 DEF ReservesWriterSlot, Writable
    <2> QED BY <2>1, <2>2, <2>3 DEF Assigned
  <1>3. CASE \E s \in Assignments : AddWorktree(s)
    BY <1>3 DEF AddWorktree, Assigned, ReservesWriterSlot
  <1>4. CASE \E s \in Assignments : CancelAssignment(s)
    BY <1>4 DEF CancelAssignment, Assigned, ReservesWriterSlot, Writable, NoAssignment
  <1>5. CASE \E s \in Assignments : RemoveWorktree(s)
    BY <1>5 DEF RemoveWorktree, Assigned, ReservesWriterSlot
  <1>6. CASE UNCHANGED assignmentVars \/ \E s \in Assignments : Touch(s) \/ Revoke(s) \/ Reinstate(s)
    BY <1>6 DEF Touch, Revoke, Reinstate, assignmentVars, Assigned, ReservesWriterSlot
  <1> QED BY <1>1, <1>2, <1>3, <1>4, <1>5, <1>6

\* No step of a job changes an assignment otherwise.
LEMMA AssignedNext ==
    ASSUME Assigned, [Next]_vars
    PROVE  Assigned'
  <1>1. ASSUME NEW r, NEW ok, Revalidate(r, ok) PROVE Reconcile \/ UNCHANGED assignmentVars
    BY <1>1 DEF Revalidate
  <1>2. ASSUME NEW j \in Jobs,
               \/ Create(j) \/ Start(j) \/ OutOfTime(j) \/ Settles(j) \/ Finish(j)
               \/ Progress(j) \/ Resume(j) \/ Cancel(j)
               \/ CloseEntry(j) \/ AcknowledgeJob(j) \/ ArchiveExpired(j)
        PROVE  Reconcile \/ UNCHANGED assignmentVars
    BY <1>1, <1>2 DEF Create, Start, OutOfTime, Settles, Finish, Progress, Resume, Cancel,
                      CloseEntry, AcknowledgeJob, ArchiveExpired
  <1>3. Restart => Reconciled /\ mutating' = NoAssignment
    BY DEF Restart
  <1>4. ASSUME \/ UpdatePolicy \/ EmergencyStop \/ Authorize \/ CancelAll
               \/ (\E w \in writes : Commit(w)) \/ UNCHANGED vars
        PROVE  UNCHANGED assignmentVars
    BY <1>4 DEF UpdatePolicy, EmergencyStop, Authorize, CancelAll, Commit, vars
  <1>5. Assignment => \/ Reconcile \/ PutAssignment
                      \/ \E s \in Assignments : \/ AddWorktree(s) \/ CancelAssignment(s)
                                                \/ RemoveWorktree(s) \/ Touch(s) \/ Revoke(s)
    BY DEF Assignment
  <1>6. ReinstateAssignment => \E s \in Assignments : Reinstate(s)
    BY DEF ReinstateAssignment
  <1>7. CASE Assignment \/ ReinstateAssignment
    BY <1>5, <1>6, <1>7, AssignedStep
  <1>8. CASE Restart
    BY <1>3, <1>8, AssignedStep
  <1>9. CASE ~(Assignment \/ ReinstateAssignment \/ Restart)
    <2>1. Reconcile \/ UNCHANGED assignmentVars
      BY <1>2, <1>4, <1>9 DEF Next
    <2> QED BY <2>1, AssignedStep
  <1> QED BY <1>7, <1>8, <1>9

\* Of the assignments that have never been COMPLETED at most one is writable, for
\* any number of assignments, losses of worktrees and restarts (reservesWriterSlot).
THEOREM OneWriterHolds == Spec => []OneWriter
  <1>1. Init => Assigned
    BY AssignedInit DEF Init
  <1>2. Assigned => OneWriter
    <2> SUFFICES ASSUME Assigned PROVE OneWriter
      OBVIOUS
    <2> DEFINE W == {s \in Assignments \ completed : lifecycle[s] \in Writable}
    <2>1. \A s, t \in W : s = t
      BY DEF Assigned, ReservesWriterSlot
    <2>2. CASE W = {}
      BY <2>2, FS_EmptySet DEF OneWriter
    <2>3. CASE W # {}
      <3>1. PICK s : W = {s}
        BY <2>1, <2>3
      <3>2. Cardinality(W) = 1
        BY <3>1, FS_Singleton
      <3> QED BY <3>2 DEF OneWriter
    <2> QED BY <2>2, <2>3
  <1> QED BY <1>1, <1>2, AssignedNext, PTL DEF Spec

-----------------------------------------------------------------------------
(* The jobs *)

Statuses == Nonterminal \cup Settled \cup {"ABSENT", "ACKNOWLEDGED"}
Records  == [status : Statuses, rev : Nat, attempts : Nat, policy : Nat,
             assignment : Nat, disposition : {"PENDING", "INBOX", "CLOSED", "ARCHIVED"}]
Outcomes == {"returned", "over", "threw", "timeout"}
Places   == Outcomes \cup {"none", "scheduled", "writing", "executing", "spent", "aborted"}
Writes   == [by : {"create", "run", "progress", "resume", "stop"}, job : Jobs, record : Records,
             then : Outcomes \cup {"none", "scheduled", "executing"}]

\* Two records of the same creation.
SameOrigin(r, q) == r.policy = q.policy /\ r.assignment = q.assignment

Typed ==
    /\ job \in [Jobs -> Records] /\ run \in [Jobs -> Places]
    /\ writes \subseteq Writes
    /\ policy \in [revision : Nat, enabled : BOOLEAN]

\* A proposal follows the record it was made from, or one that is gone; a result
\* that may still land was proposed while its job was not fenced.
Proposed(w) ==
    /\ w.then = "executing" => w.by = "run" /\ w.record.status = "RUNNING"
    /\ w.by # "run" => w.then = "scheduled" \/ w.record.status \in Live \cup {"CANCELLED"}
    /\ w.record.status # "ABSENT" /\ w.record.policy <= policy.revision
    /\ 1 <= w.record.rev /\ w.record.rev <= job[w.job].rev + 1
    /\ w.record.rev = job[w.job].rev + 1 =>
          /\ job[w.job].status # "ABSENT" => SameOrigin(w.record, job[w.job])
          /\ w.record.status = "COMPLETED" => w.job \notin fenced

Recorded ==
    \A j \in Jobs : /\ job[j].policy <= policy.revision
                    /\ job[j].status # "ABSENT" => job[j].rev >= 1
                    /\ j \in fenced => job[j].status # "ABSENT" /\ ~Governs(job[j])

\* An agent has one unfinished job, and an executor works for such a job.
OneJob ==
    \A j, k \in Jobs : /\ job[j].status \in Nonterminal /\ job[k].status \in Nonterminal
                       /\ Owner(job[j]) = Owner(job[k])
                       => j = k
Executing == \A j \in Jobs : run[j] = "executing" => job[j].status \in Live

JobInv == Typed /\ (\A w \in writes : Proposed(w)) /\ Recorded /\ OneJob /\ Executing

\* Initially nothing is recorded, proposed or run.
LEMMA JobInit == Init => JobInv
  <1> SUFFICES ASSUME Init PROVE JobInv
    OBVIOUS
  <1>1. \A j \in Jobs : job[j] = [status |-> "ABSENT", rev |-> 0, attempts |-> 0, policy |-> 0,
                                 assignment |-> 0, disposition |-> "PENDING"]
    BY DEF Init, Record, NoAssignment
  <1>2. job \in [Jobs -> Records]
    <2>1. Record(NoAssignment, 0, "ABSENT", 0) \in Records
      BY DEF Record, Records, NoAssignment, Statuses
    <2> QED BY <2>1 DEF Init
  <1>3. Typed
    <2>1. run \in [Jobs -> Places] /\ writes = {}
      BY DEF Init, Places
    <2>2. policy \in [revision : Nat, enabled : BOOLEAN]
      BY DEF Init
    <2> QED BY <1>2, <2>1, <2>2 DEF Typed
  <1>4. Recorded /\ OneJob /\ Executing
    BY <1>1 DEF Init, Recorded, OneJob, Executing, Nonterminal
  <1> QED BY <1>3, <1>4 DEF JobInv, Init

\* What a step may do to the record of j.
Moved(j) ==
    \/ job'[j] = job[j]
    \/ /\ job'[j].rev = job[j].rev + 1 /\ job'[j].policy <= policy'.revision
       /\ job[j].status # "ABSENT" => SameOrigin(job'[j], job[j]) /\ job'[j].status # "ABSENT"

\* Authority that is gone does not come back to a record.
Lasting ==
    /\ policy'.revision >= policy.revision
    /\ \A r \in Records : r.policy <= policy.revision /\ Governs(r)' => Governs(r)

\* The invariant but for OneJob and Executing, from what a step does to each part.
LEMMA JobStep ==
    ASSUME JobInv, Typed', Lasting, \A j \in Jobs : Moved(j),
           \A w \in writes' : w \in writes \/ Proposed(w)',
           \A j \in Jobs : j \in fenced' => j \in fenced \/ ( /\ job'[j].rev = job[j].rev + 1
                                                             /\ job'[j].status # "ABSENT"
                                                             /\ ~Governs(job[j])')
    PROVE  (\A w \in writes' : Proposed(w)') /\ Recorded'
  <1>1. \A j \in Jobs : /\ job[j] \in Records /\ job'[j] \in Records
                        /\ job[j].rev \in Nat /\ job'[j].rev \in Nat /\ job[j].policy \in Nat
    BY DEF JobInv, Typed, Records
  <1>2. policy.revision \in Nat /\ policy'.revision \in Nat /\ policy'.revision >= policy.revision
    BY DEF JobInv, Typed, Lasting
  <1>3. ASSUME NEW w \in writes PROVE Proposed(w)'
    <2>1. Proposed(w) /\ w.job \in Jobs /\ w.record.rev \in Nat /\ w.record.policy \in Nat
      BY <1>3 DEF JobInv, Typed, Records, Writes
    <2>2. w.record.policy <= policy'.revision
      BY <1>2, <2>1 DEF Proposed
    <2>3. CASE job'[w.job] = job[w.job]
      <3>1. w.job \in fenced' => w.job \in fenced
        BY <1>1, <2>1, <2>3
      <3> QED BY <2>1, <2>2, <2>3, <3>1 DEF Proposed
    <2>4. CASE job'[w.job].rev = job[w.job].rev + 1
      <3>1. w.record.rev <= job'[w.job].rev /\ job'[w.job].rev \in Nat
        BY <1>1, <2>1, <2>4 DEF Proposed
      <3>2. w.record.rev <= job'[w.job].rev + 1 /\ w.record.rev # job'[w.job].rev + 1
        BY <2>1, <3>1
      <3> QED BY <2>1, <2>2, <3>2 DEF Proposed
    <2> QED BY <2>1, <2>3, <2>4 DEF Moved
  <1>4. ASSUME NEW j \in Jobs
        PROVE  /\ job'[j].policy <= policy'.revision
               /\ job'[j].status # "ABSENT" => job'[j].rev >= 1
               /\ j \in fenced' => job'[j].status # "ABSENT" /\ ~Governs(job[j])'
    <2>1. /\ job[j].policy <= policy.revision /\ (job[j].status # "ABSENT" => job[j].rev >= 1)
          /\ j \in fenced => job[j].status # "ABSENT" /\ ~Governs(job[j])
      BY DEF JobInv, Recorded
    <2>2. job'[j].policy <= policy'.revision
      BY <1>1, <1>2, <2>1 DEF Moved
    <2>3. job'[j].status # "ABSENT" => job'[j].rev >= 1
      BY <1>1, <2>1 DEF Moved
    <2>4. ASSUME j \in fenced PROVE job'[j].status # "ABSENT" /\ ~Governs(job[j])'
      <3>1. ~Governs(job[j]) /\ job[j].status # "ABSENT"
        BY <2>1, <2>4
      <3>2. SameOrigin(job'[j], job[j]) /\ job'[j].status # "ABSENT"
        BY <3>1 DEF Moved, SameOrigin
      <3>3. Governs(job[j])' => Governs(job'[j])
        BY <1>1, <2>1, <3>2 DEF Lasting, SameOrigin
      <3>4. Governs(job'[j]) => Governs(job[j])
        BY <3>2 DEF SameOrigin, Governs, PolicyHolds
      <3> QED BY <3>1, <3>2, <3>3, <3>4
    <2> QED BY <2>2, <2>3, <2>4
  <1> QED BY <1>3, <1>4 DEF Recorded

-----------------------------------------------------------------------------
(* Proposals *)

\* The records that follow the one of j.
LEMMA Successors ==
    ASSUME JobInv, NEW j \in Jobs, NEW st \in Statuses \ {"ABSENT"}
    PROVE  /\ To(j, st) \in Records /\ To(j, st).status = st
           /\ To(j, st).rev = job[j].rev + 1 /\ SameOrigin(To(j, st), job[j])
           /\ Closed(j, st) \in Records /\ Closed(j, st).status = st
           /\ Closed(j, st).rev = job[j].rev + 1 /\ SameOrigin(Closed(j, st), job[j])
  <1>1. job[j] \in Records
    BY DEF JobInv, Typed
  <1>2. /\ To(j, st) \in Records /\ To(j, st).status = st
        /\ To(j, st).rev = job[j].rev + 1 /\ SameOrigin(To(j, st), job[j])
    <2>1. PICK r \in Records : r = job[j]
      BY <1>1
    <2> DEFINE u == [r EXCEPT !.status = st]
    <2>2. /\ u \in Records /\ u.status = st /\ u.rev = r.rev /\ SameOrigin(u, r)
      BY DEF Records, SameOrigin
    <2>3. To(j, st) = [u EXCEPT !.rev = @ + 1]
      BY <2>1 DEF To
    <2> HIDE DEF u
    <2>4. /\ [u EXCEPT !.rev = @ + 1] \in Records /\ [u EXCEPT !.rev = @ + 1].status = u.status
          /\ [u EXCEPT !.rev = @ + 1].rev = u.rev + 1 /\ SameOrigin([u EXCEPT !.rev = @ + 1], u)
      BY <2>2 DEF Records, SameOrigin
    <2> QED BY <2>1, <2>2, <2>3, <2>4 DEF SameOrigin
  <1>3. /\ Closed(j, st) \in Records /\ Closed(j, st).status = To(j, st).status
        /\ Closed(j, st).rev = To(j, st).rev /\ SameOrigin(Closed(j, st), To(j, st))
    BY <1>2 DEF Closed, Records, SameOrigin
  <1> QED BY <1>2, <1>3 DEF SameOrigin

\* A proposal made from the present record.
LEMMA Fresh ==
    ASSUME JobInv, NEW j \in Jobs, NEW r \in Records,
           r.rev = job[j].rev + 1, SameOrigin(r, job[j]), r.status # "ABSENT",
           NEW by \in {"create", "run", "progress", "resume", "stop"},
           NEW then \in Outcomes \cup {"none", "scheduled", "executing"},
           then = "executing" => by = "run" /\ r.status = "RUNNING",
           by # "run" => then = "scheduled" \/ r.status \in Live \cup {"CANCELLED"},
           r.status = "COMPLETED" => j \notin fenced
    PROVE  Write(by, j, r, then) \in Writes /\ Proposed(Write(by, j, r, then))
  <1> DEFINE w == Write(by, j, r, then)
  <1>1. w \in Writes /\ w.by = by /\ w.job = j /\ w.record = r /\ w.then = then
    BY DEF Write, Writes
  <1>2. job[j].rev \in Nat /\ r.policy <= policy.revision
    BY DEF JobInv, Typed, Records, Recorded, SameOrigin
  <1> HIDE DEF w
  <1>3. w.record.rev = job[w.job].rev + 1 /\ 1 <= w.record.rev
    BY <1>1, <1>2
  <1>4. Proposed(w)
    BY <1>1, <1>2, <1>3 DEF Proposed
  <1> QED BY <1>1, <1>4 DEF w

\* A step that leaves the records alone.
LEMMA ProposeStep ==
    ASSUME JobInv, UNCHANGED <<job, fenced, policy>>, run' \in [Jobs -> Places],
           \A w \in writes' : w \in writes \/ (w \in Writes /\ Proposed(w)),
           stopped => stopped', \A s : governed'[s] => governed[s],
           \A j \in Jobs : run'[j] = "executing" => run[j] = "executing"
    PROVE  JobInv'
  <1>1. Typed'
    BY DEF JobInv, Typed
  <1>2. \A w \in writes' : Proposed(w)'
    BY DEF JobInv, Proposed
  <1>3. Recorded'
    BY DEF JobInv, Recorded, Governs, PolicyHolds
  <1>4. OneJob' /\ Executing'
    BY DEF JobInv, OneJob, Executing, Owner
  <1> QED BY <1>1, <1>2, <1>3, <1>4 DEF JobInv

\* A job whose authority was found to hold is not fenced.
LEMMA Validated ==
    ASSUME JobInv, NEW j \in Jobs, NEW ok, Revalidate(job[j], ok)
    PROVE  UNCHANGED governed /\ (ok => j \notin fenced)
  BY DEF Revalidate, Reconcile, assignmentVars, Authority, JobInv, Recorded, Governs

\* create, and the proposals of run(j), executorProgress and resume.
LEMMA ProposalSteps ==
    ASSUME JobInv, NEW j \in Jobs,
           Create(j) \/ Start(j) \/ OutOfTime(j) \/ Finish(j) \/ Progress(j) \/ Resume(j)
    PROVE  JobInv'
  <1>r. job[j] \in Records /\ run \in [Jobs -> Places] /\ writes \subseteq Writes
        /\ policy.revision \in Nat
    BY DEF JobInv, Typed
  <1>p. \A at \in Places : RunGoes(j, at) =>
           /\ run' \in [Jobs -> Places]
           /\ at # "executing" => \A i \in Jobs : run'[i] = "executing" => run[i] = "executing"
    BY <1>r DEF RunGoes
  <1>q. {"none", "writing"} \subseteq Places
    BY DEF Places
  <1>s. {"QUEUED", "RUNNING", "WAITING_TOOL", "BLOCKED", "COMPLETED", "FAILED", "CANCELLED"}
           \subseteq Statuses \ {"ABSENT"}
    BY DEF Statuses, Nonterminal, Settled
  <1>c. /\ Cancelled(j) \in Records /\ Cancelled(j).status = "CANCELLED"
        /\ Cancelled(j).rev = job[j].rev + 1 /\ SameOrigin(Cancelled(j), job[j])
    BY <1>s, Successors DEF Cancelled
  <1>1. CASE Create(j)
    <2>1. PICK s \in Assignments :
             /\ Revalidate(Record(s, policy.revision, "QUEUED", 1), TRUE)
             /\ Propose(Write("create", j, Record(s, policy.revision, "QUEUED", 1), "scheduled"))
      BY <1>1 DEF Create
    <2> DEFINE r == Record(s, policy.revision, "QUEUED", 1)
               w == Write("create", j, r, "scheduled")
    <2>2. r \in Records /\ r.status = "QUEUED" /\ r.rev = 1 /\ r.policy = policy.revision
      BY <1>r, <1>s, AssignmentAssumption DEF Record, Records, Assignments
    <2> HIDE DEF r
    <2>3. w \in Writes /\ w.job = j /\ w.record = r /\ w.then = "scheduled" /\ w.by = "create"
      BY <2>2 DEF Write, Writes
    <2>4. job[j].status = "ABSENT" /\ job[j].rev \in Nat
      BY <1>1, <1>r DEF Create, Records
    <2> HIDE DEF w
    <2>5. Proposed(w)
      BY <1>r, <2>2, <2>3, <2>4 DEF Proposed
    <2>6. writes' = writes \cup {w} /\ UNCHANGED <<governed, run, job, fenced, policy, stopped>>
      BY <1>1, <2>1 DEF Propose, Create, Revalidate, Reconcile, assignmentVars, records, control,
                        history, r, w
    <2> QED BY <1>r, <2>3, <2>5, <2>6, ProposeStep
  <1>2. CASE Start(j)
    <2>1. CASE RunGoes(j, "none") /\ UNCHANGED <<assignmentVars, writes>>
      BY <1>p, <1>q, <1>2, <2>1, ProposeStep DEF Start, records, control, history, assignmentVars
    <2>2. CASE \E ok \in BOOLEAN :
               /\ Revalidate(job[j], ok)
               /\ Propose(IF ok THEN Write("run", j, [To(j, "RUNNING") EXCEPT !.attempts = @ + 1], "executing")
                                ELSE Write("run", j, Cancelled(j), "none"))
               /\ RunGoes(j, "writing")
      <3>1. PICK ok \in BOOLEAN :
               /\ Revalidate(job[j], ok)
               /\ Propose(IF ok THEN Write("run", j, [To(j, "RUNNING") EXCEPT !.attempts = @ + 1], "executing")
                                ELSE Write("run", j, Cancelled(j), "none"))
        BY <2>2
      <3> DEFINE r == [To(j, "RUNNING") EXCEPT !.attempts = @ + 1]
      <3>2. r \in Records /\ r.status = "RUNNING" /\ r.rev = job[j].rev + 1 /\ SameOrigin(r, job[j])
        <4>1. /\ To(j, "RUNNING") \in Records /\ To(j, "RUNNING").status = "RUNNING"
              /\ To(j, "RUNNING").rev = job[j].rev + 1 /\ SameOrigin(To(j, "RUNNING"), job[j])
          BY <1>s, Successors
        <4> QED BY <4>1 DEF Records, SameOrigin
      <3> HIDE DEF r
      <3>3. Write("run", j, r, "executing") \in Writes /\ Proposed(Write("run", j, r, "executing"))
        BY <3>2, Fresh
      <3>4. Write("run", j, Cancelled(j), "none") \in Writes /\ Proposed(Write("run", j, Cancelled(j), "none"))
        BY <1>c, Fresh
      <3>5. \A w \in writes' : w \in writes \/ (w \in Writes /\ Proposed(w))
        BY <3>1, <3>3, <3>4 DEF Propose, r
      <3>6. UNCHANGED <<governed, job, fenced, policy, stopped>>
        BY <1>2, <3>1, Validated DEF Start, records, control, history
      <3> QED BY <1>p, <1>q, <2>2, <3>5, <3>6, ProposeStep
    <2> QED BY <1>2, <2>1, <2>2 DEF Start
  <1>3. CASE OutOfTime(j)
    <2>1. /\ Closed(j, "FAILED") \in Records /\ Closed(j, "FAILED").status = "FAILED"
          /\ Closed(j, "FAILED").rev = job[j].rev + 1 /\ SameOrigin(Closed(j, "FAILED"), job[j])
      BY <1>s, Successors
    <2>2. Write("run", j, Closed(j, "FAILED"), "none") \in Writes
          /\ Proposed(Write("run", j, Closed(j, "FAILED"), "none"))
      BY <2>1, Fresh
    <2>3. CASE Propose(Write("run", j, Closed(j, "FAILED"), "none")) /\ RunGoes(j, "writing")
      BY <1>p, <1>q, <1>3, <2>2, <2>3, ProposeStep
         DEF OutOfTime, Propose, records, control, history, assignmentVars
    <2>4. CASE RunGoes(j, "none") /\ UNCHANGED writes
      BY <1>p, <1>q, <1>3, <2>4, ProposeStep
         DEF OutOfTime, records, control, history, assignmentVars
    <2> QED BY <1>3, <2>3, <2>4 DEF OutOfTime
  <1>4. CASE Finish(j)
    <2>1. CASE RunGoes(j, "none") /\ UNCHANGED <<assignmentVars, writes>>
      BY <1>p, <1>q, <1>4, <2>1, ProposeStep DEF Finish, records, control, history, assignmentVars
    <2>2. CASE ~(RunGoes(j, "none") /\ UNCHANGED <<assignmentVars, writes>>)
      <3>1. PICK ok \in BOOLEAN :
               /\ Revalidate(job[j], ok)
               /\ Propose(IF ok /\ job[j].status = "WAITING_TOOL" /\ run[j] \in {"returned", "over"}
                          THEN Write("run", j, To(j, "RUNNING"), run[j])
                          ELSE Write("run", j, Verdict(j, ok), "none"))
               /\ RunGoes(j, "writing")
        BY <1>4, <2>2 DEF Finish
      <3>2. ok => j \notin fenced
        BY <3>1, Validated
      <3>3. /\ To(j, "RUNNING") \in Records /\ To(j, "RUNNING").status = "RUNNING"
            /\ To(j, "RUNNING").rev = job[j].rev + 1 /\ SameOrigin(To(j, "RUNNING"), job[j])
        BY <1>s, Successors
      <3>4. /\ Verdict(j, ok) \in Records /\ Verdict(j, ok).status # "ABSENT"
            /\ Verdict(j, ok).rev = job[j].rev + 1 /\ SameOrigin(Verdict(j, ok), job[j])
            /\ Verdict(j, ok).status = "COMPLETED" => ok
        <4>1. /\ To(j, "COMPLETED") \in Records /\ To(j, "COMPLETED").status = "COMPLETED"
              /\ To(j, "COMPLETED").rev = job[j].rev + 1 /\ SameOrigin(To(j, "COMPLETED"), job[j])
          BY <1>s, Successors
        <4>2. LET r == [To(j, "COMPLETED") EXCEPT !.disposition = "INBOX"]
              IN  r \in Records /\ r.status = "COMPLETED" /\ r.rev = job[j].rev + 1 /\ SameOrigin(r, job[j])
          BY <4>1 DEF Records, SameOrigin
        <4>3. /\ To(j, "BLOCKED") \in Records /\ To(j, "BLOCKED").status = "BLOCKED"
              /\ To(j, "BLOCKED").rev = job[j].rev + 1 /\ SameOrigin(To(j, "BLOCKED"), job[j])
              /\ Closed(j, "FAILED") \in Records /\ Closed(j, "FAILED").status = "FAILED"
              /\ Closed(j, "FAILED").rev = job[j].rev + 1 /\ SameOrigin(Closed(j, "FAILED"), job[j])
          BY <1>s, Successors
        <4>4. Verdict(j, ok) \in {Cancelled(j), [To(j, "COMPLETED") EXCEPT !.disposition = "INBOX"],
                                  To(j, "BLOCKED"), Closed(j, "FAILED")}
              /\ (~ok => Verdict(j, ok) = Cancelled(j))
          BY DEF Verdict
        <4> QED BY <1>c, <4>2, <4>3, <4>4
      <3>5. Write("run", j, Verdict(j, ok), "none") \in Writes /\ Proposed(Write("run", j, Verdict(j, ok), "none"))
        BY <3>2, <3>4, Fresh
      <3>6. ASSUME run[j] \in {"returned", "over"}
            PROVE  Write("run", j, To(j, "RUNNING"), run[j]) \in Writes
                   /\ Proposed(Write("run", j, To(j, "RUNNING"), run[j]))
        <4>1. PICK then \in Outcomes : then = run[j] /\ then # "executing"
          BY <3>6 DEF Outcomes
        <4>2. Write("run", j, To(j, "RUNNING"), then) \in Writes
              /\ Proposed(Write("run", j, To(j, "RUNNING"), then))
          BY <3>3, <4>1, Fresh
        <4> QED BY <4>1, <4>2
      <3>7. \A w \in writes' : w \in writes \/ (w \in Writes /\ Proposed(w))
        BY <3>1, <3>5, <3>6 DEF Propose
      <3>8. UNCHANGED <<governed, job, fenced, policy, stopped>>
        BY <1>4, <3>1, Validated DEF Finish, records, control, history
      <3> QED BY <1>p, <1>q, <3>1, <3>7, <3>8, ProposeStep
    <2> QED BY <2>1, <2>2
  <1>5. CASE Progress(j)
    <2>1. PICK ok \in BOOLEAN :
          /\ Revalidate(job[j], ok)
          /\ Propose(Write("progress", j,
                IF ~ok THEN Cancelled(j)
                ELSE To(j, IF job[j].status = "RUNNING" THEN "WAITING_TOOL" ELSE "RUNNING"), "none"))
      BY <1>5 DEF Progress
    <2> DEFINE r == IF ~ok THEN Cancelled(j)
                    ELSE To(j, IF job[j].status = "RUNNING" THEN "WAITING_TOOL" ELSE "RUNNING")
    <2>2. r \in Records /\ r.rev = job[j].rev + 1 /\ SameOrigin(r, job[j])
          /\ r.status \in {"CANCELLED", "RUNNING", "WAITING_TOOL"}
      BY <1>c, <1>s, Successors
    <2> HIDE DEF r
    <2>3. Write("progress", j, r, "none") \in Writes /\ Proposed(Write("progress", j, r, "none"))
      BY <2>2, Fresh DEF Live
    <2>4. \A w \in writes' : w \in writes \/ (w \in Writes /\ Proposed(w))
      BY <2>1, <2>3 DEF Propose, r
    <2>5. UNCHANGED <<governed, job, fenced, policy, stopped, run>>
      BY <1>5, <2>1, Validated DEF Progress, records, control, history
    <2> QED BY <1>r, <2>4, <2>5, ProposeStep
  <1>6. CASE Resume(j)
    <2>1. PICK ok \in BOOLEAN :
          /\ Revalidate(job[j], ok)
          /\ Propose(Write("resume", j, IF ok THEN To(j, "QUEUED") ELSE Cancelled(j),
                           IF ok THEN "scheduled" ELSE "none"))
      BY <1>6 DEF Resume
    <2>2. /\ To(j, "QUEUED") \in Records /\ To(j, "QUEUED").status = "QUEUED"
          /\ To(j, "QUEUED").rev = job[j].rev + 1 /\ SameOrigin(To(j, "QUEUED"), job[j])
      BY <1>s, Successors
    <2>3. Write("resume", j, To(j, "QUEUED"), "scheduled") \in Writes
          /\ Proposed(Write("resume", j, To(j, "QUEUED"), "scheduled"))
      BY <2>2, Fresh
    <2>4. Write("resume", j, Cancelled(j), "none") \in Writes
          /\ Proposed(Write("resume", j, Cancelled(j), "none"))
      BY <1>c, Fresh
    <2>5. \A w \in writes' : w \in writes \/ (w \in Writes /\ Proposed(w))
      BY <2>1, <2>3, <2>4 DEF Propose
    <2>6. UNCHANGED <<governed, job, fenced, policy, stopped, run>>
      BY <1>6, <2>1, Validated DEF Resume, records, control, history
    <2> QED BY <1>r, <2>5, <2>6, ProposeStep
  <1> QED BY <1>1, <1>2, <1>3, <1>4, <1>5, <1>6

-----------------------------------------------------------------------------
(* The store and the environment *)

\* No job becomes unfinished, or goes to another agent.
LEMMA NoNewOwner ==
    ASSUME JobInv,
           \A j \in Jobs : job'[j].status \in Nonterminal =>
               job[j].status \in Nonterminal /\ job'[j].assignment = job[j].assignment
    PROVE  OneJob'
  BY DEF JobInv, OneJob, Owner

\* The world around the jobs.
LEMMA AroundSteps ==
    ASSUME JobInv, UNCHANGED <<job, writes, fenced>>, Lasting, policy' \in [revision : Nat, enabled : BOOLEAN],
           run' \in [Jobs -> Places],
           \A j \in Jobs : run'[j] = "executing" => run[j] = "executing"
    PROVE  JobInv'
  <1>1. Typed'
    BY DEF JobInv, Typed
  <1>2. (\A w \in writes' : Proposed(w)') /\ Recorded'
    BY <1>1, JobStep DEF Moved
  <1>3. OneJob' /\ Executing'
    BY NoNewOwner DEF JobInv, Executing, OneJob, Owner
  <1> QED BY <1>1, <1>2, <1>3 DEF JobInv

\* Authority lasts while policy, stop and assignments stay as they are.
LEMMA SamePolicy ==
    ASSUME JobInv, UNCHANGED <<policy, stopped>>, \A s : governed'[s] => governed[s]
    PROVE  Lasting
  BY DEF JobInv, Typed, Lasting, Governs, PolicyHolds

\* The steps of the environment, and the settling of an executor.
LEMMA EnvironmentSteps ==
    ASSUME JobInv,
           \/ UpdatePolicy \/ EmergencyStop \/ Assignment \/ UNCHANGED vars
           \/ \E j \in Jobs : CloseEntry(j) \/ Settles(j)
    PROVE  JobInv'
  <1>r. job \in [Jobs -> Records] /\ run \in [Jobs -> Places] /\ policy \in [revision : Nat, enabled : BOOLEAN]
    BY DEF JobInv, Typed
  <1>1. CASE UpdatePolicy
    <2>1. /\ policy'.revision = policy.revision + 1 /\ policy' \in [revision : Nat, enabled : BOOLEAN]
          /\ policy.revision \in Nat
      BY <1>r, <1>1 DEF UpdatePolicy
    <2>2. \A r \in Records : r.policy <= policy.revision => r.policy # policy'.revision
      BY <2>1 DEF Records
    <2>3. Lasting
      BY <2>1, <2>2 DEF Lasting, Governs, PolicyHolds
    <2> QED BY <1>r, <1>1, <2>1, <2>3, AroundSteps DEF UpdatePolicy, records, history
  <1>2. CASE EmergencyStop
    <2>1. Lasting
      BY <1>r, <1>2 DEF EmergencyStop, Lasting, Governs, PolicyHolds, assignmentVars
    <2> QED BY <1>r, <1>2, <2>1, AroundSteps DEF EmergencyStop, records, history
  <1>3. CASE Assignment
    <2>1. \A s : governed'[s] => governed[s]
      <3>1. UNCHANGED governed \/ \E s \in Assignments : governed[s] /\ governed' = [governed EXCEPT ![s] = FALSE]
        BY <1>3 DEF Assignment, Reconcile, PutAssignment, AddWorktree, CancelAssignment, RemoveWorktree,
                    Touch, Revoke
      <3>2. CASE UNCHANGED governed
        BY <3>2
      <3>3. ASSUME NEW t \in Assignments, governed[t], governed' = [governed EXCEPT ![t] = FALSE]
            PROVE  \A s : governed'[s] => governed[s]
        BY <3>3
      <3> QED BY <3>1, <3>2, <3>3
    <2>2. Lasting
      BY <1>3, <2>1, SamePolicy DEF Assignment, control
    <2> QED BY <1>r, <1>3, <2>2, AroundSteps DEF Assignment, records, control, process, history
  <1>4. CASE UNCHANGED vars
    <2>1. Lasting
      BY <1>4, SamePolicy DEF vars, control, assignmentVars
    <2> QED BY <1>r, <1>4, <2>1, AroundSteps DEF vars, records, control, process, history
  <1>5. ASSUME NEW j \in Jobs, CloseEntry(j) PROVE JobInv'
    <2>1. Lasting
      BY <1>5, SamePolicy DEF CloseEntry, control, assignmentVars
    <2> QED BY <1>r, <1>5, <2>1, AroundSteps DEF CloseEntry, control, history
  <1>6. ASSUME NEW j \in Jobs, Settles(j) PROVE JobInv'
    <2>1. Lasting
      BY <1>6, SamePolicy DEF Settles, control, assignmentVars
    <2>2. PICK at \in Outcomes \cup {"none"} : run' = [run EXCEPT ![j] = at]
      BY <1>6 DEF Settles, RunGoes, Outcomes
    <2>3. at \in Places /\ at # "executing"
      BY DEF Outcomes, Places
    <2>4. run' \in [Jobs -> Places] /\ \A i \in Jobs : run'[i] = "executing" => run[i] = "executing"
      BY <1>r, <2>2, <2>3
    <2> QED BY <1>r, <1>6, <2>1, <2>4, AroundSteps DEF Settles, records, control
  <1> QED BY <1>1, <1>2, <1>3, <1>4, <1>5, <1>6

\* When authority comes back, the jobs that have it again are no longer fenced.
LEMMA ReturnSteps ==
    ASSUME JobInv, Authorize \/ ReinstateAssignment
    PROVE  JobInv'
  <1>1. UNCHANGED <<job, run, writes, policy>>
    BY DEF Authorize, ReinstateAssignment, records, control, process
  <1>2. \A j \in Jobs : j \in fenced' => j \in fenced /\ ~Governs(job[j])'
    BY DEF Authorize, ReinstateAssignment, FencesFall
  <1>3. Typed'
    BY <1>1 DEF JobInv, Typed
  <1>4. \A w \in writes' : Proposed(w)'
    <2>1. \A w \in writes : w.job \in Jobs /\ Proposed(w)
      BY DEF JobInv, Typed, Writes
    <2> QED BY <1>1, <1>2, <2>1 DEF Proposed
  <1>5. Recorded'
    BY <1>1, <1>2 DEF JobInv, Recorded
  <1>6. OneJob' /\ Executing'
    BY <1>1 DEF JobInv, OneJob, Executing, Owner
  <1> QED BY <1>3, <1>4, <1>5, <1>6 DEF JobInv

\* The sweep proposes the cancellation of every unfinished job.
LEMMA SweepStep ==
    ASSUME JobInv, CancelAll
    PROVE  JobInv'
  <1>1. ASSUME NEW j \in Jobs
        PROVE  Write("stop", j, Cancelled(j), "none") \in Writes
               /\ Proposed(Write("stop", j, Cancelled(j), "none"))
    BY Fresh, Successors DEF Cancelled, Statuses, Settled
  <1>2. \A w \in writes' : w \in writes \/ (w \in Writes /\ Proposed(w))
    BY <1>1 DEF CancelAll
  <1>3. run' \in [Jobs -> Places] /\ UNCHANGED <<job, fenced, policy, stopped, governed, run>>
    BY DEF CancelAll, JobInv, Typed, records, control, history, assignmentVars
  <1> QED BY <1>2, <1>3, ProposeStep

\* What archiving does to a record.
LEMMA ArchivedRecord ==
    ASSUME NEW r \in Records
    PROVE  /\ Archived(r) \in Records /\ Archived(r).status = r.status
           /\ Archived(r).rev = r.rev + 1 /\ SameOrigin(Archived(r), r)
  <1> DEFINE u == [r EXCEPT !.rev = @ + 1]
  <1>1. /\ u \in Records /\ u.status = r.status /\ u.rev = r.rev + 1 /\ SameOrigin(u, r)
    BY DEF Records, SameOrigin
  <1>2. Archived(r) = [u EXCEPT !.disposition = "ARCHIVED"]
    BY DEF Archived
  <1> HIDE DEF u
  <1>3. LET v == [u EXCEPT !.disposition = "ARCHIVED"]
        IN  v \in Records /\ v.status = u.status /\ v.rev = u.rev /\ SameOrigin(v, u)
    BY <1>1 DEF Records, SameOrigin
  <1> QED BY <1>1, <1>2, <1>3 DEF SameOrigin

\* cancel, acknowledgeJob and archiveExpired change one record at once.
LEMMA DirectSteps ==
    ASSUME JobInv, NEW j \in Jobs, Cancel(j) \/ AcknowledgeJob(j) \/ ArchiveExpired(j)
    PROVE  JobInv'
  <1>r. job \in [Jobs -> Records] /\ run \in [Jobs -> Places] /\ writes \subseteq Writes
        /\ policy \in [revision : Nat, enabled : BOOLEAN]
    BY DEF JobInv, Typed
  <1>1. PICK r \in Records :
           /\ job' = [job EXCEPT ![j] = r]
           /\ r = job[j] \/ (r.rev = job[j].rev + 1 /\ SameOrigin(r, job[j]))
           /\ r.status # "ABSENT" \/ r.status = job[j].status
           /\ r.status \notin Nonterminal \/ r.status = job[j].status
           /\ job[j].status \in Live => r.status \in Live \/ (Cancel(j) /\ r.status = "CANCELLED")
    <2>1. CASE Cancel(j)
      <3>1. /\ Cancelled(j) \in Records /\ Cancelled(j).status = "CANCELLED"
            /\ Cancelled(j).rev = job[j].rev + 1 /\ SameOrigin(Cancelled(j), job[j])
        BY Successors DEF Cancelled, Statuses, Settled
      <3> QED BY <2>1, <3>1 DEF Cancel, Nonterminal
    <2>2. CASE AcknowledgeJob(j) /\ job[j].status \in Settled
      <3>1. /\ Closed(j, "ACKNOWLEDGED") \in Records /\ Closed(j, "ACKNOWLEDGED").status = "ACKNOWLEDGED"
            /\ Closed(j, "ACKNOWLEDGED").rev = job[j].rev + 1
            /\ SameOrigin(Closed(j, "ACKNOWLEDGED"), job[j])
        BY Successors DEF Statuses
      <3>2. job' = [job EXCEPT ![j] = Closed(j, "ACKNOWLEDGED")]
        BY <2>2 DEF AcknowledgeJob
      <3> QED BY <2>2, <3>1, <3>2 DEF Settled, Live, Nonterminal
    <2>3. CASE AcknowledgeJob(j) /\ job[j].status \notin Settled
      <3>1. job' = [job EXCEPT ![j] = job[j]]
        BY <2>3 DEF AcknowledgeJob
      <3> QED BY <1>r, <3>1
    <2>4. CASE ArchiveExpired(j)
      <3>1. /\ Archived(job[j]) \in Records /\ Archived(job[j]).status = job[j].status
            /\ Archived(job[j]).rev = job[j].rev + 1 /\ SameOrigin(Archived(job[j]), job[j])
        BY <1>r, ArchivedRecord
      <3>2. job' = [job EXCEPT ![j] = Archived(job[j])]
        BY <2>4 DEF ArchiveExpired
      <3> QED BY <3>1, <3>2
    <2> QED BY <2>1, <2>2, <2>3, <2>4
  <1>2. UNCHANGED <<governed, policy, stopped, fenced, writes>>
    BY DEF Cancel, AcknowledgeJob, ArchiveExpired, assignmentVars, control, process, history
  <1>3. run' = run \/ (Cancel(j) /\ run' = [run EXCEPT ![j] = IF @ = "executing" THEN "aborted" ELSE @])
    BY DEF Cancel, AcknowledgeJob, ArchiveExpired, process
  <1>4. run' \in [Jobs -> Places]
    BY <1>r, <1>3 DEF Places
  <1>5. Typed'
    BY <1>r, <1>1, <1>2, <1>4 DEF Typed
  <1>6. \A k \in Jobs : Moved(k)
    BY <1>r, <1>1, <1>2 DEF Moved, SameOrigin, JobInv, Recorded
  <1>7. (\A w \in writes' : Proposed(w)') /\ Recorded'
    BY <1>2, <1>5, <1>6, SamePolicy, JobStep
  <1>8. OneJob'
    BY <1>r, <1>1, NoNewOwner DEF SameOrigin
  <1>9. Executing'
    BY <1>r, <1>1, <1>3 DEF JobInv, Executing, Cancel
  <1> QED BY <1>5, <1>7, <1>8, <1>9 DEF JobInv

\* A restart blocks what was running and cancels what is no longer authorised.
LEMMA RestartStep ==
    ASSUME JobInv, Restart
    PROVE  JobInv'
  <1>1. ASSUME NEW j \in Jobs
        PROVE  /\ job'[j] \in Records
               /\ job'[j] = job[j] \/ (job'[j].rev = job[j].rev + 1 /\ SameOrigin(job'[j], job[j]))
               /\ job'[j].status # "ABSENT" \/ job'[j].status = job[j].status
               /\ job'[j].status \in Nonterminal => job[j].status \in Nonterminal
    <2>1. /\ To(j, "BLOCKED") \in Records /\ To(j, "BLOCKED").status = "BLOCKED"
          /\ To(j, "BLOCKED").rev = job[j].rev + 1 /\ SameOrigin(To(j, "BLOCKED"), job[j])
          /\ Cancelled(j) \in Records /\ Cancelled(j).status = "CANCELLED"
          /\ Cancelled(j).rev = job[j].rev + 1 /\ SameOrigin(Cancelled(j), job[j])
      BY Successors DEF Cancelled, Statuses, Settled, Nonterminal
    <2>2. job'[j] = Recovered(j) /\ job[j] \in Records
      BY DEF Restart, JobInv, Typed
    <2>3. \/ Recovered(j) \in {Cancelled(j), job[j]}
          \/ Recovered(j) = To(j, "BLOCKED") /\ job[j].status \in Live
      BY DEF Recovered
    <2> QED BY <2>1, <2>2, <2>3 DEF Live, Nonterminal
  <1>2. job' \in [Jobs -> Records]
    BY <1>1 DEF Restart
  <1>3. /\ UNCHANGED <<governed, policy, stopped, fenced>> /\ writes' = {}
        /\ run' = [j \in Jobs |-> "none"]
    BY DEF Restart, control
  <1>4. Typed'
    BY <1>2, <1>3 DEF Typed, JobInv, Places
  <1>5. \A j \in Jobs : Moved(j)
    BY <1>1, <1>3 DEF Moved, SameOrigin, JobInv, Recorded
  <1>6. (\A w \in writes' : Proposed(w)') /\ Recorded'
    BY <1>3, <1>4, <1>5, SamePolicy, JobStep
  <1>7. OneJob'
    BY <1>1, NoNewOwner DEF SameOrigin
  <1>8. Executing'
    BY <1>3 DEF Executing
  <1> QED BY <1>4, <1>6, <1>7, <1>8 DEF JobInv

\* What an accepted proposal does to the records; the one of another job may only
\* be archived.
LEMMA Accepts ==
    ASSUME JobInv, NEW w \in writes, Commit(w), Accepted(w)
    PROVE  /\ job'[w.job] = w.record
           /\ \A k \in Jobs \ {w.job} : job'[k] = job[k] \/ job'[k] = Archived(job[k])
           /\ job' \in [Jobs -> Records]
  <1>1. job \in [Jobs -> Records] /\ w.job \in Jobs /\ w.record \in Records
    BY DEF JobInv, Typed, Writes
  <1>2. \A k \in Jobs : Archived(job[k]) \in Records
    BY <1>1, ArchivedRecord
  <1>3. CASE w.record.status = "COMPLETED"
    <2>1. Land(w.job, w.record)
      BY <1>3 DEF Commit
    <2>2. \A k \in Jobs : job'[k] \in {IF k = w.job THEN w.record ELSE job[k],
                                       IF k = w.job THEN w.record ELSE Archived(job[k])}
      BY <2>1 DEF Land
    <2>3. job' = [k \in Jobs |-> job'[k]]
      BY <2>1 DEF Land
    <2> QED BY <1>1, <1>2, <2>2, <2>3
  <1>4. CASE w.record.status # "COMPLETED"
    BY <1>1, <1>4 DEF Commit
  <1> QED BY <1>3, <1>4

\* The compare-and-set of the store.
LEMMA CommitStep ==
    ASSUME JobInv, NEW w \in writes, Commit(w)
    PROVE  JobInv'
  <1>r. /\ job \in [Jobs -> Records] /\ run \in [Jobs -> Places] /\ writes' \subseteq writes
        /\ w \in Writes /\ w.job \in Jobs /\ w.record \in Records /\ Proposed(w)
        /\ policy \in [revision : Nat, enabled : BOOLEAN]
        /\ UNCHANGED <<policy, stopped, governed>>
    BY DEF JobInv, Typed, Writes, Commit, control, assignmentVars
  <1>s. Lasting
    BY <1>r, SamePolicy
  <1>p. PICK at : /\ run' = [run EXCEPT ![w.job] = at] /\ at \in Places
                  /\ at = "executing" => /\ w.by = "run" => Accepted(w) /\ w.then = "executing"
                                         /\ w.by # "run" => /\ run[w.job] = "executing"
                                                            /\ Accepted(w) => /\ w.then # "scheduled"
                                                                              /\ w.record.status # "CANCELLED"
    <2>1. PICK spent \in BOOLEAN :
             RunGoes(w.job, CASE w.by = "run" /\ Accepted(w)  -> IF spent THEN "spent" ELSE w.then
                              [] w.by = "run" /\ ~Accepted(w) -> "none"
                              [] w.by # "run" /\ Accepted(w)  -> After(w)
                              [] OTHER                        -> run[w.job])
      BY DEF Commit
    <2>2. run[w.job] \in Places /\ w.then \in Places
      BY <1>r DEF Writes, Places
    <2>3. CASE w.by = "run" /\ Accepted(w)
      <3> DEFINE x == IF spent THEN "spent" ELSE w.then
      <3>1. run' = [run EXCEPT ![w.job] = x]
        BY <2>1, <2>3 DEF RunGoes
      <3>2. x \in Places /\ (x = "executing" => w.then = "executing")
        BY <2>2 DEF Places
      <3> HIDE DEF x
      <3> QED BY <2>3, <3>1, <3>2
    <2>4. CASE w.by = "run" /\ ~Accepted(w)
      <3>1. run' = [run EXCEPT ![w.job] = "none"] /\ "none" \in Places
        BY <2>1, <2>4 DEF RunGoes, Places
      <3>2. "none" # "executing"
        OBVIOUS
      <3> QED BY <3>1, <3>2, Zenon
    <2>5. CASE w.by # "run" /\ Accepted(w)
      <3>1. run' = [run EXCEPT ![w.job] = After(w)]
        BY <2>1, <2>5 DEF RunGoes
      <3>2. /\ After(w) \in Places
            /\ After(w) = "executing" => /\ run[w.job] = "executing" /\ w.then # "scheduled"
                                         /\ w.record.status # "CANCELLED"
        BY <2>2 DEF After, Places
      <3> QED BY <2>5, <3>1, <3>2
    <2>6. CASE w.by # "run" /\ ~Accepted(w)
      BY <2>1, <2>2, <2>6 DEF RunGoes
    <2> QED BY <2>3, <2>4, <2>5, <2>6
  <1>1. CASE ~Accepted(w)
    <2>1. UNCHANGED <<job, fenced>>
      BY <1>1 DEF Commit, records
    <2>2. run' \in [Jobs -> Places] /\ \A j \in Jobs : run'[j] = "executing" => run[j] = "executing"
      BY <1>r, <1>p, <1>1
    <2>3. Typed'
      BY <1>r, <2>1, <2>2 DEF Typed, JobInv
    <2>4. (\A v \in writes' : Proposed(v)') /\ Recorded'
      BY <1>r, <1>s, <2>1, <2>3, JobStep DEF Moved
    <2>5. OneJob' /\ Executing'
      BY <2>1, <2>2, NoNewOwner DEF JobInv, Executing, OneJob, Owner
    <2> QED BY <2>3, <2>4, <2>5 DEF JobInv
  <1>2. CASE Accepted(w)
    <2>1. /\ job'[w.job] = w.record /\ job' \in [Jobs -> Records]
          /\ \A k \in Jobs \ {w.job} : job'[k] = job[k] \/ job'[k] = Archived(job[k])
      BY <1>2, Accepts
    <2>2. \A k \in Jobs \ {w.job} : /\ job'[k].status = job[k].status
                                    /\ job'[k].assignment = job[k].assignment
                                    /\ job'[k] = job[k] \/ (/\ job'[k].rev = job[k].rev + 1
                                                            /\ SameOrigin(job'[k], job[k]))
      <3> TAKE k \in Jobs \ {w.job}
      <3>1. /\ Archived(job[k]).status = job[k].status /\ Archived(job[k]).rev = job[k].rev + 1
            /\ SameOrigin(Archived(job[k]), job[k])
        BY <1>r, ArchivedRecord
      <3> QED BY <2>1, <3>1 DEF SameOrigin
    <2>3. /\ w.record.rev = job[w.job].rev + 1
          /\ w.record.status \in Nonterminal => ~HasActiveOwner(w.job, w.record)
      BY <1>r, <1>2 DEF Accepted, Records
    <2>4. Typed'
      BY <1>r, <1>p, <2>1 DEF Typed, JobInv
    <2>5. \A j \in Jobs : Moved(j)
      <3> TAKE j \in Jobs
      <3>1. CASE j = w.job
        BY <1>r, <2>1, <2>3, <3>1 DEF Moved, Proposed
      <3>2. CASE j # w.job
        BY <1>r, <2>2, <3>2 DEF Moved, SameOrigin, JobInv, Recorded
      <3> QED BY <3>1, <3>2
    <2>6. \A j \in Jobs : j \in fenced' => j \in fenced \/ ( /\ job'[j].rev = job[j].rev + 1
                                                            /\ job'[j].status # "ABSENT"
                                                            /\ ~Governs(job[j])')
      <3> TAKE j \in Jobs
      <3> HAVE j \in fenced'
      <3>1. CASE j \in fenced
        BY <3>1
      <3>2. CASE j \notin fenced
        <4>1. j = w.job /\ ~Governs(w.record)
          BY <1>2, <3>2 DEF Commit
        <4>2. ~Governs(job[j])'
          BY <1>r, <2>1, <4>1 DEF Governs, PolicyHolds
        <4> QED BY <1>r, <2>1, <2>3, <4>1, <4>2 DEF Proposed
      <3> QED BY <3>1, <3>2
    <2>7. (\A v \in writes' : Proposed(v)') /\ Recorded'
      BY <1>r, <1>s, <2>4, <2>5, <2>6, JobStep
    <2>8. OneJob'
      BY <1>r, <2>1, <2>2, <2>3 DEF JobInv, OneJob, HasActiveOwner, Owner
    <2>9. Executing'
      <3> SUFFICES ASSUME NEW j \in Jobs, run'[j] = "executing" PROVE job'[j].status \in Live
        BY DEF Executing
      <3>1. CASE j # w.job
        BY <1>r, <1>p, <2>2, <3>1 DEF JobInv, Executing
      <3>2. CASE j = w.job /\ w.by = "run"
        BY <1>r, <1>p, <2>1, <3>2 DEF Proposed, Live
      <3>3. CASE j = w.job /\ w.by # "run"
        BY <1>r, <1>p, <1>2, <2>1, <3>3 DEF Proposed
      <3> QED BY <3>1, <3>2, <3>3
    <2> QED BY <2>4, <2>7, <2>8, <2>9 DEF JobInv
  <1> QED BY <1>1, <1>2

\* The invariant holds throughout.
LEMMA JobInvariance == Spec => []JobInv
  <1>1. JobInv /\ [Next]_vars => JobInv'
    BY ProposalSteps, EnvironmentSteps, ReturnSteps, SweepStep, DirectSteps, RestartStep, CommitStep DEF Next
  <1> QED BY JobInit, <1>1, PTL DEF Spec

-----------------------------------------------------------------------------
(* The theorems about jobs *)

\* An executor that was not aborted works for a job that runs, and is the only one
\* of its agent, for any jobs and agents (hasActiveOwner, cancelWithReason).
THEOREM OneExecutorHolds == Spec => []OneExecutor
  <1>1. JobInv => OneExecutor
    BY DEF JobInv, Executing, OneJob, OneExecutor, Live, Nonterminal
  <1> QED BY <1>1, JobInvariance, PTL

\* A job that was dispatched after its authority was gone lands no result while that is
\* not given back, however stops, authorisations, policies, revocations and late writes
\* cross (runLifecycle, revalidate, compareAndSetContinuation).
THEOREM FencedJobsDoNotLand == Spec => FencedDoesNotLand
  <1> DEFINE Landing == \A j \in Jobs : job'[j].status = "COMPLETED" =>
                           job[j].status = "COMPLETED" \/ j \notin fenced
  <1>1. ASSUME JobInv, [Next]_vars PROVE Landing
    <2>1. ASSUME UNCHANGED job PROVE Landing
      BY <2>1
    <2>2. ASSUME NEW w \in writes, Commit(w) PROVE Landing
      <3>1. CASE ~Accepted(w)
        BY <2>2, <3>1 DEF Commit, records
      <3>2. CASE Accepted(w)
        <4>1. /\ job'[w.job] = w.record
              /\ \A k \in Jobs \ {w.job} : job'[k] = job[k] \/ job'[k] = Archived(job[k])
          BY <1>1, <2>2, <3>2, Accepts
        <4>2. \A k \in Jobs \ {w.job} : job'[k].status = job[k].status
          BY <1>1, <4>1, ArchivedRecord DEF JobInv, Typed
        <4>3. w.record.status = "COMPLETED" => w.job \notin fenced
          BY <1>1, <3>2 DEF JobInv, Proposed, Accepted
        <4> QED BY <4>1, <4>2, <4>3
      <3> QED BY <3>1, <3>2
    <2>3. ASSUME NEW j \in Jobs, Cancel(j) \/ AcknowledgeJob(j) \/ ArchiveExpired(j) PROVE Landing
      <3>1. job[j] \in Records /\ job = [k \in Jobs |-> job[k]]
        BY <1>1 DEF JobInv, Typed
      <3>2. Cancelled(j).status = "CANCELLED" /\ Closed(j, "ACKNOWLEDGED").status = "ACKNOWLEDGED"
        BY <1>1, Successors DEF Cancelled, Statuses, Settled
      <3>3. Archived(job[j]).status = job[j].status
        BY <3>1, ArchivedRecord
      <3>4. PICK r : job' = [job EXCEPT ![j] = r] /\ (r.status # "COMPLETED" \/ r.status = job[j].status)
        BY <2>3, <3>1, <3>2, <3>3 DEF Cancel, AcknowledgeJob, ArchiveExpired
      <3> QED BY <3>1, <3>4
    <2>4. ASSUME Restart PROVE Landing
      <3>1. \A j \in Jobs : /\ job'[j] \in {To(j, "BLOCKED"), Cancelled(j), job[j]}
                            /\ To(j, "BLOCKED").status = "BLOCKED" /\ Cancelled(j).status = "CANCELLED"
        BY <1>1, <2>4, Successors DEF Restart, Recovered, Cancelled, Statuses, Settled, Nonterminal
      <3> QED BY <3>1
    <2>5. \/ UNCHANGED job \/ (\E w \in writes : Commit(w)) \/ Restart
          \/ \E j \in Jobs : Cancel(j) \/ AcknowledgeJob(j) \/ ArchiveExpired(j)
      BY <1>1 DEF Next, Assignment, ReinstateAssignment, UpdatePolicy, EmergencyStop, Authorize, CancelAll, Create, Start, OutOfTime,
                  Settles, Finish, Progress, Resume, CloseEntry, vars, records
    <2> QED BY <2>1, <2>2, <2>3, <2>4, <2>5
  <1>2. JobInv /\ [Next]_vars => [Landing]_vars
    BY <1>1
  <1> QED BY JobInvariance, <1>2, PTL DEF Spec, FencedDoesNotLand

-----------------------------------------------------------------------------
(* The inbox of an agent *)

\* Taking out one entry of a sequence without repetitions.
LEMMA RemovedAt ==
    ASSUME NEW S, NEW s \in Seq(S), IsInjective(s), NEW i \in DOMAIN s
    PROVE  LET r == RemoveAt(s, i)
           IN  /\ r \in Seq(S) /\ Len(r) <= Len(s) /\ IsInjective(r)
               /\ ToSet(r) = ToSet(s) \ {s[i]}
  <1> DEFINE p == SubSeq(s, 1, i - 1)
             q == SubSeq(s, i + 1, Len(s))
             r == p \o q
  <1>1. /\ i \in 1..Len(s) /\ Len(s) \in Nat
        /\ \A k \in DOMAIN s : s[k] \in S
    OBVIOUS
  <1>2. /\ p \in Seq(S) /\ Len(p) = i - 1
        /\ \A k \in 1..(i - 1) : p[k] = s[k]
    BY <1>1
  <1>3. /\ q \in Seq(S) /\ Len(q) = Len(s) - i
        /\ \A k \in 1..(Len(s) - i) : q[k] = s[i + k]
    BY <1>1
  <1> HIDE DEF p, q
  <1>4. /\ r \in Seq(S) /\ Len(r) = Len(s) - 1 /\ DOMAIN r = 1..(Len(s) - 1)
        /\ \A k \in 1..(Len(s) - 1) : r[k] = IF k < i THEN p[k] ELSE q[k - (i - 1)]
    <2>1. /\ r \in Seq(S) /\ Len(r) = Len(p) + Len(q)
          /\ \A k \in 1..(Len(p) + Len(q)) : r[k] = IF k <= Len(p) THEN p[k] ELSE q[k - Len(p)]
      BY <1>2, <1>3, ConcatProperties
    <2>2. Len(p) + Len(q) = Len(s) - 1 /\ \A k \in Nat : k <= Len(p) <=> k < i
      BY <1>1, <1>2, <1>3
    <2>3. DOMAIN r = 1..Len(r)
      BY <2>1
    <2> HIDE DEF r
    <2>4. \A k \in 1..(Len(s) - 1) : r[k] = IF k < i THEN p[k] ELSE q[k - (i - 1)]
      BY <1>2, <2>1, <2>2
    <2> QED BY <2>1, <2>2, <2>3, <2>4
  <1>5. \A k \in 1..(Len(s) - 1) : r[k] = IF k < i THEN s[k] ELSE s[k + 1]
    <2> TAKE k \in 1..(Len(s) - 1)
    <2>1. CASE k < i
      BY <1>1, <1>2, <1>4, <2>1
    <2>2. CASE ~(k < i)
      <3>1. k - (i - 1) \in 1..(Len(s) - i) /\ i + (k - (i - 1)) = k + 1
        BY <1>1, <2>2
      <3> QED BY <1>3, <1>4, <2>2, <3>1
    <2> QED BY <2>1, <2>2
  <1> HIDE DEF r
  <1>6. IsInjective(r)
    <2> SUFFICES ASSUME NEW k \in 1..(Len(s) - 1), NEW l \in 1..(Len(s) - 1), r[k] = r[l]
                 PROVE  k = l
      BY <1>4 DEF IsInjective
    <2> DEFINE at(n) == IF n < i THEN n ELSE n + 1
    <2>1. at(k) \in DOMAIN s /\ at(l) \in DOMAIN s
      BY <1>1
    <2>2. s[at(k)] = s[at(l)]
      BY <1>5
    <2>3. at(k) = at(l)
      BY <2>1, <2>2 DEF IsInjective
    <2> QED BY <1>1, <2>3
  <1>7. ToSet(r) = ToSet(s) \ {s[i]}
    <2>1. ASSUME NEW k \in 1..(Len(s) - 1) PROVE r[k] \in ToSet(s) \ {s[i]}
      <3>1. CASE k < i
        <4>1. k \in DOMAIN s /\ k # i /\ r[k] = s[k]
          BY <1>1, <1>5, <3>1
        <4> QED BY <4>1 DEF ToSet, IsInjective
      <3>2. CASE ~(k < i)
        <4>1. k + 1 \in DOMAIN s /\ k + 1 # i /\ r[k] = s[k + 1]
          BY <1>1, <1>5, <3>2
        <4> QED BY <4>1 DEF ToSet, IsInjective
      <3> QED BY <3>1, <3>2
    <2>2. ASSUME NEW k \in DOMAIN s, s[k] # s[i] PROVE s[k] \in ToSet(r)
      <3>1. CASE k < i
        <4>1. k \in DOMAIN r /\ r[k] = s[k]
          BY <1>1, <1>4, <1>5, <3>1
        <4> QED BY <4>1 DEF ToSet
      <3>2. CASE k > i
        <4>1. k - 1 \in DOMAIN r /\ r[k - 1] = s[k]
          BY <1>1, <1>4, <1>5, <3>2
        <4> QED BY <4>1 DEF ToSet
      <3>3. k < i \/ k > i
        BY <1>1, <2>2
      <3> QED BY <3>1, <3>2, <3>3
    <2> QED BY <1>4, <2>1, <2>2 DEF ToSet
  <1>8. Len(r) <= Len(s)
    BY <1>1, <1>4
  <1> QED BY <1>4, <1>6, <1>7, <1>8 DEF r, p, q, RemoveAt

\* A new entry at the end.
LEMMA AppendedEntry ==
    ASSUME NEW S, NEW s \in Seq(S), IsInjective(s), NEW e \in S, e \notin ToSet(s)
    PROVE  LET r == Append(s, e)
           IN  /\ r \in Seq(S) /\ Len(r) = Len(s) + 1 /\ IsInjective(r)
               /\ ToSet(r) = ToSet(s) \cup {e}
               /\ Len(s) > 0 => Head(r) = s[1]
  <1> DEFINE r == Append(s, e)
  <1>1. /\ r \in Seq(S) /\ Len(r) = Len(s) + 1 /\ Len(s) \in Nat
        /\ DOMAIN r = 1..(Len(s) + 1) /\ DOMAIN s = 1..Len(s)
        /\ r[Len(s) + 1] = e /\ \A i \in 1..Len(s) : r[i] = s[i]
        /\ Len(s) > 0 => Head(r) = s[1]
    OBVIOUS
  <1> HIDE DEF r
  <1>2. \A i \in DOMAIN s : s[i] # e
    BY DEF ToSet
  <1>3. IsInjective(r)
    BY <1>1, <1>2 DEF IsInjective
  <1>4. ToSet(r) = ToSet(s) \cup {e}
    <2>1. \A i \in DOMAIN r : r[i] \in ToSet(s) \cup {e}
      BY <1>1 DEF ToSet
    <2>2. \A i \in DOMAIN s : i \in DOMAIN r /\ r[i] = s[i]
      BY <1>1
    <2>3. Len(s) + 1 \in DOMAIN r
      BY <1>1
    <2> QED BY <1>1, <2>1, <2>2, <2>3 DEF ToSet
  <1> QED BY <1>1, <1>3, <1>4 DEF r

\* The oldest entry leaves.
LEMMA TailEntries ==
    ASSUME NEW S, NEW s \in Seq(S), IsInjective(s), s # <<>>
    PROVE  /\ Tail(s) \in Seq(S) /\ Len(Tail(s)) = Len(s) - 1 /\ IsInjective(Tail(s))
           /\ ToSet(Tail(s)) = ToSet(s) \ {Head(s)} /\ Head(s) \in ToSet(s)
  <1>1. /\ Tail(s) \in Seq(S) /\ Len(Tail(s)) = Len(s) - 1 /\ Len(s) \in Nat \ {0}
        /\ DOMAIN Tail(s) = 1..(Len(s) - 1) /\ DOMAIN s = 1..Len(s)
        /\ \A i \in 1..(Len(s) - 1) : Tail(s)[i] = s[i + 1]
        /\ Head(s) = s[1] /\ 1 \in DOMAIN s
    OBVIOUS
  <1>2. IsInjective(Tail(s))
    <2> SUFFICES ASSUME NEW k \in 1..(Len(s) - 1), NEW l \in 1..(Len(s) - 1), Tail(s)[k] = Tail(s)[l]
                 PROVE  k = l
      BY <1>1 DEF IsInjective
    <2>1. k + 1 \in DOMAIN s /\ l + 1 \in DOMAIN s /\ s[k + 1] = s[l + 1]
      BY <1>1
    <2>2. k + 1 = l + 1
      BY <2>1 DEF IsInjective
    <2> QED BY <2>2
  <1>3. \A i \in DOMAIN Tail(s) : Tail(s)[i] \in ToSet(s) \ {Head(s)}
    <2> TAKE i \in DOMAIN Tail(s)
    <2>1. i + 1 \in DOMAIN s /\ i + 1 # 1 /\ Tail(s)[i] = s[i + 1]
      BY <1>1
    <2> QED BY <1>1, <2>1 DEF ToSet, IsInjective
  <1>4. \A i \in DOMAIN s : s[i] # Head(s) => s[i] \in ToSet(Tail(s))
    <2> SUFFICES ASSUME NEW i \in DOMAIN s, s[i] # Head(s) PROVE s[i] \in ToSet(Tail(s))
      OBVIOUS
    <2>1. i - 1 \in DOMAIN Tail(s) /\ Tail(s)[i - 1] = s[i]
      BY <1>1
    <2> QED BY <2>1 DEF ToSet
  <1>5. ToSet(Tail(s)) = ToSet(s) \ {Head(s)}
    <2>1. Head(s) \notin ToSet(Tail(s)) /\ ToSet(Tail(s)) \subseteq ToSet(s)
      BY <1>3 DEF ToSet
    <2>2. \A x \in ToSet(s) : x # Head(s) => x \in ToSet(Tail(s))
      BY <1>4 DEF ToSet
    <2> QED BY <2>1, <2>2
  <1>6. Head(s) \in ToSet(s)
    BY <1>1 DEF ToSet
  <1> QED BY <1>1, <1>2, <1>5, <1>6

Landed(j) == job[j].status = "COMPLETED" /\ job[j].disposition = "INBOX"
Open(j)   == \E a \in Agents : j \in ToSet(inbox[a])

\* An inbox holds each of its entries once, and the entries are those of landed
\* jobs of its agent.
Inboxes ==
    /\ inbox \in [Agents -> Seq(Jobs)]
    /\ \A a \in Agents : /\ Len(inbox[a]) <= InboxLimit /\ IsInjective(inbox[a])
                         /\ \A j \in ToSet(inbox[a]) : Landed(j) /\ Owner(job[j]) = a

LandedIsOpen == \A j \in Jobs : Landed(j) => Open(j) \/ j \in closing \/ restarts > 0

\* A job that acknowledgeJob has yet to close has no entry any more.
ClosingIsShut == \A j \in closing : j \in Jobs /\ job[j].status = "COMPLETED" /\ ~Open(j)

HasAssignment == \A j \in Jobs : job[j].status # "ABSENT" => job[j].assignment \in Assignments

\* A proposal that the store may still take is for a job that is not settled.
Unsettled(w) ==
    /\ w.record.assignment \in Assignments
    /\ w.record.status = "COMPLETED" => w.record.disposition = "INBOX"
    /\ w.record.rev = job[w.job].rev + 1 => job[w.job].status \in Nonterminal \cup {"ABSENT"}

InboxInv ==
    /\ JobInv /\ Inboxes /\ LandedIsOpen /\ ClosingIsShut /\ HasAssignment
    /\ \A w \in writes : Unsettled(w)
    /\ restarts \in Nat

\* Initially there is no entry, no job and no proposal.
LEMMA InboxInit == Init => InboxInv
  <1> SUFFICES ASSUME Init PROVE InboxInv
    OBVIOUS
  <1>1. \A j \in Jobs : job[j].status = "ABSENT"
    BY DEF Init, Record
  <1>2. Inboxes
    <2>1. \A a \in Agents : inbox[a] = <<>> /\ <<>> \in Seq(Jobs) /\ ToSet(<<>>) = {}
                            /\ IsInjective(<<>>) /\ Len(<<>>) = 0
      BY DEF Init, ToSet, IsInjective
    <2> QED BY <2>1, ContinuationAssumption DEF Init, Inboxes
  <1> QED BY <1>1, <1>2, JobInit
          DEF Init, InboxInv, LandedIsOpen, ClosingIsShut, HasAssignment, Landed

\* What a step must do to a record for the proposals of others to stay outdated.
Advances(j) == job'[j] = job[j] \/ job'[j].rev = job[j].rev + 1

\* Proposals that were made for a record that has changed are refused from then on.
LEMMA UnsettledStep ==
    ASSUME InboxInv, \A j \in Jobs : Advances(j),
           \A w \in writes' : w \in writes \/ Unsettled(w)'
    PROVE  \A w \in writes' : Unsettled(w)'
  <1> SUFFICES ASSUME NEW w \in writes PROVE Unsettled(w)'
    OBVIOUS
  <1>1. /\ w.job \in Jobs /\ w.record.rev \in Nat /\ job[w.job].rev \in Nat
        /\ w.record.rev <= job[w.job].rev + 1 /\ Unsettled(w)
    BY DEF InboxInv, JobInv, Typed, Writes, Records, Proposed
  <1>2. CASE job'[w.job] = job[w.job]
    BY <1>1, <1>2 DEF Unsettled
  <1>3. CASE job'[w.job].rev = job[w.job].rev + 1
    <2>1. w.record.rev # job'[w.job].rev + 1
      BY <1>1, <1>3
    <2> QED BY <1>1, <2>1 DEF Unsettled
  <1> QED BY <1>1, <1>2, <1>3 DEF Advances

\* A step that leaves the entries and their jobs alone, and lands none.
LEMMA InboxFrame ==
    ASSUME InboxInv, UNCHANGED inbox,
           \A j \in Jobs : /\ Open(j) => job'[j] = job[j]
                           /\ Landed(j)' => Landed(j)
                           /\ Landed(j)' /\ j \in closing => j \in closing' \/ restarts' > 0
                           /\ j \in closing' => j \in closing /\ job'[j].status = "COMPLETED",
           restarts > 0 => restarts' > 0, closing' \subseteq closing
    PROVE  Inboxes' /\ LandedIsOpen' /\ ClosingIsShut'
  <1>0. \A a \in Agents : ToSet(inbox[a]) \subseteq Jobs
    BY DEF InboxInv, Inboxes, ToSet
  <1>1. Inboxes'
    <2>1. ASSUME NEW a \in Agents, NEW j \in ToSet(inbox[a])
          PROVE  Landed(j)' /\ (Owner(job[j]) = a)'
      <3>1. j \in Jobs /\ Open(j) /\ Landed(j) /\ Owner(job[j]) = a
        BY <1>0, <2>1 DEF InboxInv, Inboxes, Open
      <3> QED BY <3>1 DEF Landed, Owner
    <2> QED BY <2>1 DEF InboxInv, Inboxes
  <1>2. LandedIsOpen'
    BY DEF InboxInv, LandedIsOpen, Open
  <1>3. ClosingIsShut'
    BY DEF InboxInv, ClosingIsShut, Open
  <1> QED BY <1>1, <1>2, <1>3

\* A step that changes no record, no entry and closes nothing.
LEMMA InboxStill ==
    ASSUME InboxInv, JobInv', UNCHANGED <<job, inbox, closing, restarts>>,
           \A w \in writes' : w \in writes \/ Unsettled(w)
    PROVE  InboxInv'
  <1>1. Inboxes' /\ LandedIsOpen' /\ ClosingIsShut'
    <2>1. \A j \in Jobs : (Landed(j)' => Landed(j)) /\ (j \in closing => job[j].status = "COMPLETED")
      BY DEF Landed, InboxInv, ClosingIsShut
    <2> QED BY <2>1, InboxFrame
  <1>2. \A w \in writes' : Unsettled(w)'
    <2>1. \A w : Unsettled(w) => Unsettled(w)'
      BY DEF Unsettled
    <2> QED BY <2>1, UnsettledStep DEF Advances
  <1> QED BY <1>1, <1>2 DEF InboxInv, HasAssignment

\* A proposal made from the record of an unfinished job.
LEMMA FreshUnsettled ==
    ASSUME InboxInv, NEW j \in Jobs, job[j].status \in Nonterminal,
           NEW r, SameOrigin(r, job[j]),
           r.status = "COMPLETED" => r.disposition = "INBOX",
           NEW by, NEW then
    PROVE  Unsettled(Write(by, j, r, then))
  <1>1. job[j].assignment \in Assignments
    BY DEF InboxInv, HasAssignment, Nonterminal
  <1> QED BY <1>1 DEF Unsettled, Write, SameOrigin

\* The records that are proposed for an unfinished job.
LEMMA ProposedRecords ==
    ASSUME InboxInv, NEW j \in Jobs, job[j].status \in Nonterminal, NEW by, NEW then
    PROVE  /\ Unsettled(Write(by, j, Cancelled(j), then))
           /\ \A st \in Nonterminal : Unsettled(Write(by, j, To(j, st), then))
           /\ Unsettled(Write(by, j, [To(j, "RUNNING") EXCEPT !.attempts = @ + 1], then))
           /\ Unsettled(Write(by, j, Closed(j, "FAILED"), then))
           /\ \A ok \in BOOLEAN : Unsettled(Write(by, j, Verdict(j, ok), then))
  <1>j. JobInv
    BY DEF InboxInv
  <1>0. Nonterminal \cup Settled \subseteq Statuses \ {"ABSENT"}
    BY DEF Statuses, Nonterminal, Settled
  <1>1. Unsettled(Write(by, j, Cancelled(j), then))
    <2>1. SameOrigin(Cancelled(j), job[j]) /\ Cancelled(j).status = "CANCELLED"
      BY <1>j, <1>0, Successors DEF Cancelled, Settled
    <2> QED BY <2>1, FreshUnsettled
  <1>2. ASSUME NEW st \in Nonterminal PROVE Unsettled(Write(by, j, To(j, st), then))
    <2>1. SameOrigin(To(j, st), job[j]) /\ To(j, st).status # "COMPLETED"
      BY <1>j, <1>0, Successors DEF Nonterminal
    <2> QED BY <2>1, FreshUnsettled
  <1>3. Unsettled(Write(by, j, [To(j, "RUNNING") EXCEPT !.attempts = @ + 1], then))
    <2> DEFINE r == [To(j, "RUNNING") EXCEPT !.attempts = @ + 1]
    <2>1. SameOrigin(To(j, "RUNNING"), job[j]) /\ To(j, "RUNNING").status = "RUNNING"
          /\ To(j, "RUNNING") \in Records
      BY <1>j, <1>0, Successors DEF Nonterminal
    <2>2. SameOrigin(r, job[j]) /\ r.status = "RUNNING"
      BY <2>1 DEF SameOrigin, Records
    <2> HIDE DEF r
    <2>3. Unsettled(Write(by, j, r, then))
      BY <2>2, FreshUnsettled
    <2> QED BY <2>3 DEF r
  <1>4. Unsettled(Write(by, j, Closed(j, "FAILED"), then))
    <2>1. SameOrigin(Closed(j, "FAILED"), job[j]) /\ Closed(j, "FAILED").status = "FAILED"
      BY <1>j, <1>0, Successors DEF Settled
    <2> QED BY <2>1, FreshUnsettled
  <1>5. ASSUME NEW ok \in BOOLEAN PROVE Unsettled(Write(by, j, Verdict(j, ok), then))
    <2> DEFINE r == [To(j, "COMPLETED") EXCEPT !.disposition = "INBOX"]
    <2>1. SameOrigin(To(j, "COMPLETED"), job[j]) /\ To(j, "COMPLETED") \in Records
      BY <1>j, <1>0, Successors DEF Settled
    <2>2. SameOrigin(r, job[j]) /\ r.disposition = "INBOX"
      BY <2>1 DEF SameOrigin, Records
    <2> HIDE DEF r
    <2>3. Unsettled(Write(by, j, r, then))
      BY <2>2, FreshUnsettled
    <2>4. Verdict(j, ok) \in {Cancelled(j), r, To(j, "BLOCKED"), Closed(j, "FAILED")}
      BY DEF Verdict, r
    <2>5. CASE Verdict(j, ok) = Cancelled(j)
      BY <1>1, <2>5
    <2>6. CASE Verdict(j, ok) = r
      BY <2>3, <2>6
    <2>7. CASE Verdict(j, ok) = To(j, "BLOCKED")
      BY <1>2, <2>7 DEF Nonterminal
    <2>8. CASE Verdict(j, ok) = Closed(j, "FAILED")
      BY <1>4, <2>8
    <2> QED BY <2>4, <2>5, <2>6, <2>7, <2>8
  <1> QED BY <1>1, <1>2, <1>3, <1>4, <1>5

\* Whoever proposes does so for a job that is not settled.
LEMMA ProposersKeepInbox ==
    ASSUME InboxInv, JobInv', NEW j \in Jobs,
           Create(j) \/ Start(j) \/ OutOfTime(j) \/ Finish(j) \/ Progress(j) \/ Resume(j)
    PROVE  InboxInv'
  <1>1. UNCHANGED <<job, inbox, closing, restarts>>
    BY DEF Create, Start, OutOfTime, Finish, Progress, Resume, records, history
  <1>2. CASE Create(j)
    <2>1. PICK s \in Assignments :
             Propose(Write("create", j, Record(s, policy.revision, "QUEUED", 1), "scheduled"))
      BY <1>2 DEF Create
    <2>2. job[j].status = "ABSENT"
      BY <1>2 DEF Create
    <2>3. Unsettled(Write("create", j, Record(s, policy.revision, "QUEUED", 1), "scheduled"))
      BY <2>2 DEF Unsettled, Write, Record
    <2> QED BY <1>1, <2>1, <2>3, InboxStill DEF Propose
  <1>3. CASE Start(j)
    <2>1. CASE UNCHANGED writes
      BY <1>1, <2>1, InboxStill
    <2>2. CASE ~UNCHANGED writes
      <3>1. PICK ok \in BOOLEAN :
               Propose(IF ok THEN Write("run", j, [To(j, "RUNNING") EXCEPT !.attempts = @ + 1], "executing")
                             ELSE Write("run", j, Cancelled(j), "none"))
        BY <1>3, <2>2 DEF Start
      <3>2. job[j].status \in Nonterminal
        BY <1>3, <2>2 DEF Start, Nonterminal
      <3>3. /\ Unsettled(Write("run", j, Cancelled(j), "none"))
            /\ Unsettled(Write("run", j, [To(j, "RUNNING") EXCEPT !.attempts = @ + 1], "executing"))
        BY <3>2, ProposedRecords
      <3>4. \A w \in writes' : w \in writes \/ Unsettled(w)
        BY <3>1, <3>3 DEF Propose
      <3> QED BY <1>1, <3>4, InboxStill
    <2> QED BY <2>1, <2>2
  <1>4. CASE OutOfTime(j)
    <2>1. CASE UNCHANGED writes
      BY <1>1, <2>1, InboxStill
    <2>2. CASE ~UNCHANGED writes
      <3>1. /\ job[j].status \in Nonterminal
            /\ Propose(Write("run", j, Closed(j, "FAILED"), "none"))
        BY <1>4, <2>2 DEF OutOfTime, Nonterminal
      <3>2. Unsettled(Write("run", j, Closed(j, "FAILED"), "none"))
        BY <3>1, ProposedRecords
      <3>3. \A w \in writes' : w \in writes \/ Unsettled(w)
        BY <3>1, <3>2 DEF Propose
      <3> QED BY <1>1, <3>3, InboxStill
    <2> QED BY <2>1, <2>2
  <1>5. CASE Finish(j)
    <2>1. CASE UNCHANGED writes
      BY <1>1, <2>1, InboxStill
    <2>2. CASE ~UNCHANGED writes
      <3>1. PICK ok \in BOOLEAN :
               Propose(IF ok /\ job[j].status = "WAITING_TOOL" /\ run[j] \in {"returned", "over"}
                       THEN Write("run", j, To(j, "RUNNING"), run[j])
                       ELSE Write("run", j, Verdict(j, ok), "none"))
        BY <1>5, <2>2 DEF Finish
      <3>2. job[j].status \in Nonterminal /\ "RUNNING" \in Nonterminal
        BY <1>5, <2>2 DEF Finish, Nonterminal, Live
      <3>3. /\ Unsettled(Write("run", j, To(j, "RUNNING"), run[j]))
            /\ Unsettled(Write("run", j, Verdict(j, ok), "none"))
        BY <3>2, ProposedRecords
      <3>4. \A w \in writes' : w \in writes \/ Unsettled(w)
        BY <3>1, <3>3 DEF Propose
      <3> QED BY <1>1, <3>4, InboxStill
    <2> QED BY <2>1, <2>2
  <1>6. CASE Progress(j)
    <2>1. PICK ok \in BOOLEAN :
             Propose(Write("progress", j,
                IF ~ok THEN Cancelled(j)
                ELSE To(j, IF job[j].status = "RUNNING" THEN "WAITING_TOOL" ELSE "RUNNING"), "none"))
      BY <1>6 DEF Progress
    <2>2. job[j].status \in Nonterminal /\ {"RUNNING", "WAITING_TOOL"} \subseteq Nonterminal
      BY <1>6 DEF Progress, Nonterminal, Live
    <2>3. /\ Unsettled(Write("progress", j, Cancelled(j), "none"))
          /\ \A st \in Nonterminal : Unsettled(Write("progress", j, To(j, st), "none"))
      BY <2>2, ProposedRecords
    <2>4. \A w \in writes' : w \in writes \/ Unsettled(w)
      BY <2>1, <2>2, <2>3 DEF Propose
    <2> QED BY <1>1, <2>4, InboxStill
  <1>7. CASE Resume(j)
    <2>1. PICK ok \in BOOLEAN :
             Propose(Write("resume", j, IF ok THEN To(j, "QUEUED") ELSE Cancelled(j),
                           IF ok THEN "scheduled" ELSE "none"))
      BY <1>7 DEF Resume
    <2>2. job[j].status \in Nonterminal /\ "QUEUED" \in Nonterminal
      BY <1>7 DEF Resume, Nonterminal
    <2>3. /\ Unsettled(Write("resume", j, Cancelled(j), "none"))
          /\ Unsettled(Write("resume", j, To(j, "QUEUED"), "scheduled"))
      BY <2>2, ProposedRecords
    <2>4. \A w \in writes' : w \in writes \/ Unsettled(w)
      BY <2>1, <2>3 DEF Propose
    <2> QED BY <1>1, <2>4, InboxStill
  <1> QED BY <1>2, <1>3, <1>4, <1>5, <1>6, <1>7

\* The sweep proposes for unfinished jobs only, and the environment for none.
LEMMA EnvironmentKeepsInbox ==
    ASSUME InboxInv, JobInv',
           \/ UpdatePolicy \/ EmergencyStop \/ Authorize \/ Assignment \/ ReinstateAssignment
           \/ CancelAll \/ UNCHANGED vars
           \/ \E j \in Jobs : Settles(j)
    PROVE  InboxInv'
  <1>1. UNCHANGED <<job, inbox, closing, restarts>>
    BY DEF UpdatePolicy, EmergencyStop, Authorize, Assignment, ReinstateAssignment, CancelAll, Settles,
           vars, records, process, history
  <1>2. \A w \in writes' : w \in writes \/ Unsettled(w)
    <2>1. CASE \/ UpdatePolicy \/ EmergencyStop \/ Authorize \/ Assignment \/ ReinstateAssignment
               \/ UNCHANGED vars \/ \E j \in Jobs : Settles(j)
      BY <2>1 DEF UpdatePolicy, EmergencyStop, Authorize, Assignment, ReinstateAssignment, Settles,
                  vars, process
    <2>2. CASE CancelAll
      <3>1. \A j \in Jobs : job[j].status \in Nonterminal =>
               Unsettled(Write("stop", j, Cancelled(j), "none"))
        BY ProposedRecords
      <3> QED BY <2>2, <3>1 DEF CancelAll
    <2> QED BY <2>1, <2>2
  <1> QED BY <1>1, <1>2, InboxStill

\* An entry that leaves is the only one of its job.
LEMMA EntryIsGone ==
    ASSUME InboxInv, NEW j \in Jobs, EntryLeaves(j)
    PROVE  /\ inbox' \in [Agents -> Seq(Jobs)] /\ Landed(j) /\ Open(j)
           /\ \A a \in Agents : /\ Len(inbox'[a]) <= InboxLimit /\ IsInjective(inbox'[a])
                                /\ ToSet(inbox'[a]) = ToSet(inbox[a]) \ {j}
  <1>0. /\ inbox \in [Agents -> Seq(Jobs)] /\ InboxLimit \in Nat
        /\ \A a \in Agents : /\ Len(inbox[a]) <= InboxLimit /\ IsInjective(inbox[a])
                             /\ \A k \in ToSet(inbox[a]) : Landed(k) /\ Owner(job[k]) = a
    BY ContinuationAssumption DEF InboxInv, Inboxes
  <1>a. PICK a \in Agents : \E i \in DOMAIN inbox[a] :
           inbox[a][i] = j /\ inbox' = [inbox EXCEPT ![a] = RemoveAt(inbox[a], i)]
    BY DEF EntryLeaves
  <1>1. PICK i \in DOMAIN inbox[a] :
           inbox[a][i] = j /\ inbox' = [inbox EXCEPT ![a] = RemoveAt(inbox[a], i)]
    BY <1>a
  <1>2. /\ RemoveAt(inbox[a], i) \in Seq(Jobs) /\ Len(RemoveAt(inbox[a], i)) <= Len(inbox[a])
        /\ IsInjective(RemoveAt(inbox[a], i))
        /\ ToSet(RemoveAt(inbox[a], i)) = ToSet(inbox[a]) \ {j}
    BY <1>0, <1>1, RemovedAt
  <1>3. j \in ToSet(inbox[a]) /\ Landed(j) /\ Owner(job[j]) = a
    BY <1>0, <1>1 DEF ToSet
  <1>4. inbox' \in [Agents -> Seq(Jobs)]
    BY <1>0, <1>1, <1>2
  <1>5. ASSUME NEW b \in Agents
        PROVE  /\ Len(inbox'[b]) <= InboxLimit /\ IsInjective(inbox'[b])
               /\ ToSet(inbox'[b]) = ToSet(inbox[b]) \ {j}
    <2>1. CASE b = a
      <3>1. inbox'[b] = RemoveAt(inbox[a], i)
        BY <1>0, <1>1, <2>1
      <3>2. Len(RemoveAt(inbox[a], i)) \in Nat /\ Len(inbox[a]) \in Nat
        BY <1>0, <1>2
      <3> QED BY <1>0, <1>2, <2>1, <3>1, <3>2
    <2>2. CASE b # a
      <3>1. inbox'[b] = inbox[b]
        BY <1>0, <1>1, <2>2
      <3>2. j \notin ToSet(inbox[b])
        BY <1>0, <1>3, <2>2
      <3> QED BY <1>0, <3>1, <3>2
    <2> QED BY <2>1, <2>2
  <1> QED BY <1>3, <1>4, <1>5 DEF Open

\* acknowledgeInbox: the entry leaves before its job is closed.
LEMMA CloseEntryKeepsInbox ==
    ASSUME InboxInv, JobInv', NEW j \in Jobs, CloseEntry(j)
    PROVE  InboxInv'
  <1>1. /\ inbox' \in [Agents -> Seq(Jobs)] /\ Landed(j)
        /\ \A a \in Agents : /\ Len(inbox'[a]) <= InboxLimit /\ IsInjective(inbox'[a])
                             /\ ToSet(inbox'[a]) = ToSet(inbox[a]) \ {j}
    BY EntryIsGone DEF CloseEntry
  <1>2. UNCHANGED <<job, writes, restarts>> /\ closing' = closing \cup {j}
    BY DEF CloseEntry, history
  <1>3. Inboxes'
    BY <1>1, <1>2 DEF InboxInv, Inboxes, Landed, Owner
  <1>4. LandedIsOpen' /\ ClosingIsShut'
    BY <1>1, <1>2 DEF InboxInv, LandedIsOpen, ClosingIsShut, Open, Landed
  <1>5. \A w \in writes' : Unsettled(w)'
    BY <1>2, UnsettledStep DEF Advances
  <1> QED BY <1>2, <1>3, <1>4, <1>5 DEF InboxInv, HasAssignment

\* archiveExpired: the entry leaves and its job is archived.
LEMMA ArchiveKeepsInbox ==
    ASSUME InboxInv, JobInv', NEW j \in Jobs, ArchiveExpired(j)
    PROVE  InboxInv'
  <1>1. /\ inbox' \in [Agents -> Seq(Jobs)] /\ Landed(j) /\ Open(j)
        /\ \A a \in Agents : /\ Len(inbox'[a]) <= InboxLimit /\ IsInjective(inbox'[a])
                             /\ ToSet(inbox'[a]) = ToSet(inbox[a]) \ {j}
    BY EntryIsGone DEF ArchiveExpired
  <1>2. /\ job \in [Jobs -> Records] /\ job' = [job EXCEPT ![j] = Archived(job[j])]
        /\ UNCHANGED <<writes, closing, restarts>>
    BY DEF ArchiveExpired, InboxInv, JobInv, Typed, process, history
  <1>3. /\ job'[j] = Archived(job[j]) /\ job'[j].rev = job[j].rev + 1
        /\ job'[j].status = "COMPLETED" /\ job'[j].disposition = "ARCHIVED"
        /\ job'[j].assignment = job[j].assignment
        /\ \A k \in Jobs : k # j => job'[k] = job[k]
    <2>1. job'[j] = Archived(job[j]) /\ job[j] \in Records
      BY <1>2
    <2>2. Archived(job[j]).disposition = "ARCHIVED"
      BY <2>1 DEF Archived, Records
    <2>3. /\ Archived(job[j]).status = job[j].status /\ Archived(job[j]).rev = job[j].rev + 1
          /\ SameOrigin(Archived(job[j]), job[j])
      BY <2>1, ArchivedRecord
    <2> QED BY <1>1, <1>2, <2>1, <2>2, <2>3 DEF Landed, SameOrigin
  <1>4. Inboxes'
    <2>1. ASSUME NEW a \in Agents, NEW k \in ToSet(inbox'[a])
          PROVE  Landed(k)' /\ (Owner(job[k]) = a)'
      <3>1. k \in ToSet(inbox[a]) /\ k # j
        BY <1>1, <2>1
      <3>2. Landed(k) /\ Owner(job[k]) = a
        BY <3>1 DEF InboxInv, Inboxes
      <3>3. k \in Jobs
        BY <3>1 DEF InboxInv, Inboxes, ToSet
      <3> QED BY <1>3, <3>1, <3>2, <3>3 DEF Landed, Owner
    <2> QED BY <1>1, <2>1 DEF Inboxes
  <1>5. LandedIsOpen'
    <2> SUFFICES ASSUME NEW k \in Jobs, Landed(k)'
                 PROVE  (Open(k) \/ k \in closing \/ restarts > 0)'
      BY DEF LandedIsOpen
    <2>1. k # j /\ Landed(k)
      BY <1>3 DEF Landed
    <2> QED BY <1>1, <1>2, <2>1 DEF InboxInv, LandedIsOpen, Open
  <1>6. ClosingIsShut'
    <2> SUFFICES ASSUME NEW k \in closing
                 PROVE  k \in Jobs /\ (job[k].status = "COMPLETED")' /\ ~Open(k)'
      BY <1>2 DEF ClosingIsShut
    <2>1. k \in Jobs /\ job[k].status = "COMPLETED" /\ ~Open(k)
      BY DEF InboxInv, ClosingIsShut
    <2> QED BY <1>1, <1>3, <2>1 DEF Open
  <1>7. \A w \in writes' : Unsettled(w)'
    BY <1>2, <1>3, UnsettledStep DEF Advances
  <1>8. HasAssignment'
    BY <1>1, <1>3 DEF InboxInv, HasAssignment, Landed
  <1> QED BY <1>2, <1>4, <1>5, <1>6, <1>7, <1>8 DEF InboxInv

\* cancel takes a job that is not settled, and acknowledgeJob one without an entry.
LEMMA CancelKeepsInbox ==
    ASSUME InboxInv, JobInv', NEW j \in Jobs, Cancel(j)
    PROVE  InboxInv'
  <1>1. /\ job \in [Jobs -> Records] /\ job' = [job EXCEPT ![j] = Cancelled(j)]
        /\ job[j].status \in Nonterminal /\ UNCHANGED <<inbox, writes, closing, restarts>>
    BY DEF Cancel, InboxInv, JobInv, Typed, history
  <1>2. /\ Cancelled(j).status = "CANCELLED" /\ Cancelled(j).rev = job[j].rev + 1
        /\ SameOrigin(Cancelled(j), job[j])
    BY Successors DEF InboxInv, Cancelled, Statuses, Settled
  <1>3. /\ \A k \in Jobs : k # j => job'[k] = job[k]
        /\ job'[j] = Cancelled(j) /\ ~Landed(j)' /\ ~Landed(j) /\ job[j].status # "COMPLETED"
    BY <1>1, <1>2 DEF Landed, Nonterminal
  <1>4. ~Open(j)
    BY <1>3 DEF InboxInv, Inboxes, Open
  <1>5. Inboxes' /\ LandedIsOpen' /\ ClosingIsShut'
    <2>1. \A k \in Jobs : (Landed(k)' => Landed(k)) /\ (k \in closing => job'[k].status = "COMPLETED")
      BY <1>3 DEF Landed, InboxInv, ClosingIsShut
    <2> QED BY <1>1, <1>3, <1>4, <2>1, InboxFrame
  <1>6. \A w \in writes' : Unsettled(w)'
    BY <1>1, <1>2, <1>3, UnsettledStep DEF Advances
  <1>7. HasAssignment'
    BY <1>1, <1>2, <1>3 DEF InboxInv, HasAssignment, SameOrigin, Nonterminal
  <1> QED BY <1>1, <1>5, <1>6, <1>7 DEF InboxInv

\* The job of an entry that was closed is closed in its turn.
LEMMA AcknowledgeKeepsInbox ==
    ASSUME InboxInv, JobInv', NEW j \in Jobs, AcknowledgeJob(j)
    PROVE  InboxInv'
  <1>1. /\ job \in [Jobs -> Records] /\ job[j].status = "COMPLETED" /\ ~Open(j)
        /\ job' = [job EXCEPT ![j] = Closed(j, "ACKNOWLEDGED")]
        /\ closing' = closing \ {j} /\ UNCHANGED <<inbox, writes, restarts>>
    <2>1. job[j].status = "COMPLETED" /\ ~Open(j)
      BY DEF AcknowledgeJob, InboxInv, ClosingIsShut
    <2> QED BY <2>1 DEF AcknowledgeJob, InboxInv, JobInv, Typed, history, Settled
  <1>2. /\ Closed(j, "ACKNOWLEDGED").status = "ACKNOWLEDGED"
        /\ Closed(j, "ACKNOWLEDGED").rev = job[j].rev + 1
        /\ SameOrigin(Closed(j, "ACKNOWLEDGED"), job[j])
    BY Successors DEF InboxInv, Statuses
  <1>3. /\ \A k \in Jobs : k # j => job'[k] = job[k]
        /\ job'[j] = Closed(j, "ACKNOWLEDGED") /\ ~Landed(j)'
    BY <1>1, <1>2 DEF Landed
  <1>4. Inboxes' /\ LandedIsOpen' /\ ClosingIsShut'
    <2>1. \A k \in Jobs : /\ Landed(k)' => Landed(k) /\ k # j
                          /\ k \in closing' => k \in closing /\ job'[k].status = "COMPLETED"
      BY <1>1, <1>3 DEF Landed, InboxInv, ClosingIsShut
    <2> QED BY <1>1, <1>3, <2>1, InboxFrame
  <1>5. \A w \in writes' : Unsettled(w)'
    BY <1>1, <1>2, <1>3, UnsettledStep DEF Advances
  <1>6. HasAssignment'
    BY <1>1, <1>2, <1>3 DEF InboxInv, HasAssignment, SameOrigin
  <1> QED BY <1>1, <1>4, <1>5, <1>6 DEF InboxInv

\* A restart may come between the two writes of acknowledgeInbox; it settles no
\* other job.
LEMMA RestartKeepsInbox ==
    ASSUME InboxInv, JobInv', Restart
    PROVE  InboxInv'
  <1>1. /\ writes' = {} /\ closing' = {} /\ UNCHANGED inbox
        /\ restarts \in Nat /\ restarts' = restarts + 1
    BY DEF Restart, InboxInv
  <1>2. ASSUME NEW j \in Jobs
        PROVE  \/ job'[j] = job[j]
               \/ /\ job[j].status \in Nonterminal /\ job'[j].status # "COMPLETED"
                  /\ job'[j].assignment = job[j].assignment
    <2>1. job'[j] = Recovered(j)
      BY DEF Restart
    <2>2. /\ To(j, "BLOCKED").status = "BLOCKED" /\ SameOrigin(To(j, "BLOCKED"), job[j])
          /\ Cancelled(j).status = "CANCELLED" /\ SameOrigin(Cancelled(j), job[j])
      BY Successors DEF InboxInv, Cancelled, Statuses, Settled, Nonterminal
    <2>3. \/ Recovered(j) = job[j]
          \/ Recovered(j) \in {Cancelled(j), To(j, "BLOCKED")} /\ job[j].status \in Nonterminal
      BY DEF Recovered, Live, Nonterminal
    <2> QED BY <2>1, <2>2, <2>3 DEF SameOrigin
  <1>3. Inboxes' /\ LandedIsOpen' /\ ClosingIsShut'
    <2>1. \A j \in Jobs : (Open(j) => job'[j] = job[j]) /\ (Landed(j)' => Landed(j))
      <3> TAKE j \in Jobs
      <3>1. Open(j) => job[j].status = "COMPLETED"
        BY DEF InboxInv, Inboxes, Open, Landed
      <3> QED BY <1>2, <3>1 DEF Landed, Nonterminal
    <2> QED BY <1>1, <2>1, InboxFrame
  <1>4. HasAssignment'
    BY <1>2 DEF InboxInv, HasAssignment, Nonterminal
  <1> QED BY <1>1, <1>3, <1>4 DEF InboxInv

\* completeContinuation: the entry of a job enters, and the oldest one may leave.
LEMMA LandKeepsInbox ==
    ASSUME InboxInv, NEW j \in Jobs, NEW r \in Records, Land(j, r),
           r.status = "COMPLETED", r.disposition = "INBOX", r.assignment \in Assignments,
           job[j].status # "COMPLETED", UNCHANGED <<closing, restarts>>
    PROVE  Inboxes' /\ LandedIsOpen' /\ ClosingIsShut'
  <1> DEFINE o == Owner(r)
             entries == Append(inbox[o], j)
             full == Len(entries) > InboxLimit
             Out == IF full THEN {Head(entries)} ELSE {}
  <1>0. /\ inbox \in [Agents -> Seq(Jobs)] /\ InboxLimit \in Nat \ {0}
        /\ \A a \in Agents : /\ Len(inbox[a]) <= InboxLimit /\ IsInjective(inbox[a])
                             /\ \A k \in ToSet(inbox[a]) : k \in Jobs /\ Landed(k) /\ Owner(job[k]) = a
    <2>1. \A a \in Agents : ToSet(inbox[a]) \subseteq Jobs
      BY DEF InboxInv, Inboxes, ToSet
    <2> QED BY <2>1, ContinuationAssumption DEF InboxInv, Inboxes
  <1>1. o \in Agents
    BY AssignmentAssumption DEF Owner
  <1>2. ~Open(j) /\ ~Landed(j) /\ j \notin closing
    BY <1>0 DEF Open, Landed, InboxInv, ClosingIsShut
  <1>3. /\ inbox[o] \in Seq(Jobs) /\ IsInjective(inbox[o]) /\ j \notin ToSet(inbox[o])
        /\ Len(inbox[o]) <= InboxLimit /\ Len(inbox[o]) \in Nat
    BY <1>0, <1>1, <1>2 DEF Open
  <1>4. /\ entries \in Seq(Jobs) /\ Len(entries) = Len(inbox[o]) + 1 /\ IsInjective(entries)
        /\ ToSet(entries) = ToSet(inbox[o]) \cup {j}
        /\ Len(inbox[o]) > 0 => Head(entries) = inbox[o][1]
    BY <1>3, AppendedEntry
  <1>5. /\ inbox' = [inbox EXCEPT ![o] = IF full THEN Tail(entries) ELSE entries]
        /\ job' = [k \in Jobs |-> IF k = j THEN r
                                  ELSE IF full /\ k = Head(entries) THEN Archived(job[k])
                                  ELSE job[k]]
    BY DEF Land
  <1> HIDE DEF o, entries
  <1>6. /\ inbox'[o] \in Seq(Jobs) /\ Len(inbox'[o]) <= InboxLimit /\ IsInjective(inbox'[o])
        /\ ToSet(inbox'[o]) = (ToSet(inbox[o]) \cup {j}) \ Out
        /\ Out \subseteq ToSet(inbox[o])
    <2>1. CASE ~full
      <3>1. inbox'[o] = entries /\ Out = {}
        BY <1>0, <1>1, <1>5, <2>1
      <3> QED BY <1>0, <1>4, <1>3, <2>1, <3>1
    <2>2. CASE full
      <3>1. inbox'[o] = Tail(entries) /\ Out = {Head(entries)}
        BY <1>0, <1>1, <1>5, <2>2
      <3>2. entries # <<>>
        BY <1>3, <1>4
      <3>3. /\ Tail(entries) \in Seq(Jobs) /\ Len(Tail(entries)) = Len(entries) - 1
            /\ IsInjective(Tail(entries)) /\ ToSet(Tail(entries)) = ToSet(entries) \ {Head(entries)}
        BY <1>4, <3>2, TailEntries
      <3>4. Len(inbox[o]) > 0
        BY <1>0, <1>3, <1>4, <2>2
      <3>5. Head(entries) \in ToSet(inbox[o])
        BY <1>3, <1>4, <3>4 DEF ToSet
      <3>6. Len(Tail(entries)) <= InboxLimit
        BY <1>0, <1>3, <1>4, <3>3
      <3> QED BY <1>4, <3>1, <3>3, <3>5, <3>6
    <2> QED BY <2>1, <2>2
  <1>7. \A b \in Agents : b # o => inbox'[b] = inbox[b]
    BY <1>0, <1>5
  <1>8. /\ job'[j] = r
        /\ \A k \in Jobs : k # j /\ k \notin Out => job'[k] = job[k]
        /\ \A k \in Jobs : k # j /\ k \in Out => job'[k] = Archived(job[k])
    BY <1>5
  <1> HIDE DEF Out
  <1>9. Inboxes'
    <2>1. inbox' \in [Agents -> Seq(Jobs)]
      <3>1. \A b \in Agents : inbox'[b] \in Seq(Jobs)
        BY <1>0, <1>6, <1>7
      <3> QED BY <1>0, <1>5, <3>1
    <2>2. ASSUME NEW b \in Agents, NEW k \in ToSet(inbox'[b])
          PROVE  Landed(k)' /\ (Owner(job[k]) = b)'
      <3>1. CASE b = o /\ k = j
        BY <1>8, <3>1 DEF Landed, Owner, o
      <3>2. CASE b = o /\ k # j
        <4>1. k \in ToSet(inbox[o]) /\ k \notin Out
          BY <1>6, <2>2, <3>2
        <4> QED BY <1>0, <1>1, <1>8, <3>2, <4>1 DEF Landed, Owner
      <3>3. CASE b # o
        <4>1. k \in ToSet(inbox[b]) /\ k \in Jobs /\ Landed(k) /\ Owner(job[k]) = b
          BY <1>0, <1>7, <2>2, <3>3
        <4>2. k # j /\ k \notin Out
          BY <1>0, <1>1, <1>2, <1>6, <3>3, <4>1
        <4> QED BY <1>8, <4>1, <4>2 DEF Landed, Owner
      <3> QED BY <3>1, <3>2, <3>3
    <2>3. \A b \in Agents : Len(inbox'[b]) <= InboxLimit /\ IsInjective(inbox'[b])
      BY <1>0, <1>6, <1>7
    <2> QED BY <2>1, <2>2, <2>3 DEF Inboxes
  <1>10. LandedIsOpen'
    <2> SUFFICES ASSUME NEW k \in Jobs, Landed(k)'
                 PROVE  (Open(k) \/ k \in closing \/ restarts > 0)'
      BY DEF LandedIsOpen
    <2>1. CASE k = j
      <3>1. j \in ToSet(inbox'[o])
        BY <1>3, <1>6
      <3> QED BY <1>1, <2>1, <3>1 DEF Open
    <2>2. CASE k # j /\ k \in Out
      <3>1. job[k] \in Records /\ job'[k] = Archived(job[k])
        BY <1>8, <2>2 DEF InboxInv, JobInv, Typed
      <3>2. job'[k].disposition = "ARCHIVED"
        BY <3>1 DEF Archived, Records
      <3> QED BY <3>2 DEF Landed
    <2>3. CASE k # j /\ k \notin Out
      <3>1. Landed(k)
        BY <1>8, <2>3 DEF Landed
      <3>2. ASSUME NEW b \in Agents, k \in ToSet(inbox[b]) PROVE k \in ToSet(inbox'[b])
        BY <1>6, <1>7, <2>3, <3>2
      <3> QED BY <3>1, <3>2 DEF InboxInv, LandedIsOpen, Open
    <2> QED BY <2>1, <2>2, <2>3
  <1>11. ClosingIsShut'
    <2> SUFFICES ASSUME NEW k \in closing
                 PROVE  k \in Jobs /\ (job[k].status = "COMPLETED")' /\ ~Open(k)'
      BY DEF ClosingIsShut
    <2>1. k \in Jobs /\ job[k].status = "COMPLETED" /\ ~Open(k) /\ k # j
      BY <1>2 DEF InboxInv, ClosingIsShut
    <2>2. k \notin Out
      BY <1>1, <1>6, <2>1 DEF Open
    <2> QED BY <1>6, <1>7, <1>8, <2>1, <2>2 DEF Open
  <1> QED BY <1>9, <1>10, <1>11

\* The store takes a proposal, or refuses it.
LEMMA CommitKeepsInbox ==
    ASSUME InboxInv, JobInv', NEW w \in writes, Commit(w)
    PROVE  InboxInv'
  <1>0. /\ JobInv /\ job \in [Jobs -> Records] /\ w.job \in Jobs /\ w.record \in Records
        /\ Unsettled(w) /\ writes' \subseteq writes /\ UNCHANGED <<closing, restarts>>
    BY DEF InboxInv, JobInv, Typed, Writes, Commit
  <1>1. CASE ~Accepted(w)
    <2>1. UNCHANGED <<job, inbox>>
      BY <1>1 DEF Commit, records
    <2> QED BY <1>0, <2>1, InboxStill
  <1>2. CASE Accepted(w)
    <2>1. /\ job'[w.job] = w.record
          /\ \A k \in Jobs \ {w.job} : job'[k] = job[k] \/ job'[k] = Archived(job[k])
      BY <1>0, <1>2, Accepts
    <2>2. /\ w.record.rev = job[w.job].rev + 1
          /\ job[w.job].status \in Nonterminal \cup {"ABSENT"}
      BY <1>0, <1>2 DEF Accepted, Unsettled, Records
    <2>3. \A k \in Jobs : k # w.job => /\ job'[k].status = job[k].status
                                       /\ job'[k].assignment = job[k].assignment
                                       /\ job'[k] = job[k] \/ job'[k].rev = job[k].rev + 1
      <3> SUFFICES ASSUME NEW k \in Jobs, k # w.job
                   PROVE  /\ job'[k].status = job[k].status
                          /\ job'[k].assignment = job[k].assignment
                          /\ job'[k] = job[k] \/ job'[k].rev = job[k].rev + 1
        OBVIOUS
      <3>1. /\ Archived(job[k]).status = job[k].status /\ Archived(job[k]).rev = job[k].rev + 1
            /\ SameOrigin(Archived(job[k]), job[k])
        BY <1>0, ArchivedRecord
      <3> QED BY <2>1, <3>1 DEF SameOrigin
    <2>4. \A w1 \in writes' : Unsettled(w1)'
      BY <1>0, <2>1, <2>2, <2>3, UnsettledStep DEF Advances
    <2>5. HasAssignment'
      BY <1>0, <2>1, <2>3 DEF InboxInv, HasAssignment, Unsettled
    <2>6. job[w.job].status # "COMPLETED"
      BY <2>2 DEF Nonterminal
    <2>7. Inboxes' /\ LandedIsOpen' /\ ClosingIsShut'
      <3>1. CASE w.record.status = "COMPLETED"
        <4>1. Land(w.job, w.record)
          BY <1>2, <3>1 DEF Commit
        <4> QED BY <1>0, <2>6, <3>1, <4>1, LandKeepsInbox DEF Unsettled
      <3>2. CASE w.record.status # "COMPLETED"
        <4>1. UNCHANGED inbox /\ \A k \in Jobs : k # w.job => job'[k] = job[k]
          BY <1>0, <1>2, <3>2 DEF Commit
        <4>2. ~Open(w.job) /\ ~Landed(w.job)' /\ w.job \notin closing
          BY <2>1, <2>6, <3>2 DEF InboxInv, Inboxes, ClosingIsShut, Open, Landed
        <4>3. \A k \in Jobs : /\ Open(k) => job'[k] = job[k]
                              /\ Landed(k)' => Landed(k)
                              /\ k \in closing => job'[k].status = "COMPLETED"
          BY <4>1, <4>2 DEF Landed, InboxInv, ClosingIsShut
        <4> QED BY <1>0, <4>1, <4>3, InboxFrame
      <3> QED BY <3>1, <3>2
    <2> QED BY <1>0, <2>4, <2>5, <2>7 DEF InboxInv
  <1> QED BY <1>1, <1>2

\* The inbox of an agent and the records of its jobs agree: an open entry is that of
\* a landed job, and a landed job has its entry until it is being acknowledged
\* (completeContinuation, acknowledgeInbox, archiveContinuationInbox).
THEOREM InboxesMatch == Spec => []InboxMatches
  <1>1. InboxInv => InboxMatches
    <2> SUFFICES ASSUME InboxInv PROVE InboxMatches
      OBVIOUS
    <2>1. ASSUME NEW a \in Agents, NEW j PROVE Contains(inbox[a], j) <=> j \in ToSet(inbox[a])
      <3>1. inbox[a] \in Seq(Jobs) /\ DOMAIN inbox[a] = 1..Len(inbox[a])
        BY DEF InboxInv, Inboxes
      <3> QED BY <3>1 DEF Contains, ToSet
    <2>2. \A j : (\E a \in Agents : Contains(inbox[a], j)) <=> Open(j)
      BY <2>1 DEF Open
    <2>3. \A j \in Jobs : Open(j) => Landed(j)
      BY DEF InboxInv, Inboxes, Open
    <2> QED BY <2>2, <2>3 DEF InboxInv, Inboxes, LandedIsOpen, InboxMatches, Landed
  <1>2. InboxInv /\ [Next]_vars => InboxInv'
    <2> SUFFICES ASSUME InboxInv, [Next]_vars PROVE InboxInv'
      OBVIOUS
    <2>1. JobInv'
      BY ProposalSteps, EnvironmentSteps, ReturnSteps, SweepStep, DirectSteps, RestartStep, CommitStep
         DEF Next, InboxInv
    <2> QED BY <2>1, ProposersKeepInbox, EnvironmentKeepsInbox, CloseEntryKeepsInbox,
               ArchiveKeepsInbox, CancelKeepsInbox, AcknowledgeKeepsInbox, RestartKeepsInbox,
               CommitKeepsInbox
            DEF Next
  <1> QED BY <1>1, <1>2, InboxInit, PTL DEF Spec
=============================================================================
