----------------------- MODULE AssignmentLifecycle -----------------------
(***************************************************************************)
(* Governed writer assignments: each has a record in the store and a Git   *)
(* worktree on disk, and the records are reconciled with the worktrees     *)
(* (server/assignment-lifecycle.ts).                                       *)
(*                                                                         *)
(* Operations wait for each other on mutationQueue, so a step of one is    *)
(* only interrupted by the agents that write in the worktrees, and by a    *)
(* restart: creation and disposal are two steps each, first the worktree,  *)
(* then the record.  Requests that an expected revision, an idempotency    *)
(* key or a malformed input turns away change nothing.                     *)
(***************************************************************************)
EXTENDS Integers, FiniteSets

CONSTANTS
    AssignmentCount,  \* assignments, numbered in the order of their creation
    Agents,
    Agent             \* Agent[s]: the participant that s makes a writer

Assignments == 1..AssignmentCount
NoAssignment == 0

ASSUME AssignmentAssumption ==
    /\ AssignmentCount \in Nat \ {0}
    /\ Agent \in [Assignments -> Agents]

VARIABLES
    lifecycle,  \* lifecycle[s]: lifecycleStatus, "NONE" without a record
    worktree,   \* worktree[s]: what git finds: "ahead" has commits that are not merged
    governed,   \* governed[s]: task, work claim, manifest, roster, source work, project
                \* and confinement authorise s
    mutating,   \* the assignment whose creation or disposal holds mutationQueue
    completed   \* history: assignments that have been COMPLETED

assignmentVars == <<lifecycle, worktree, governed, mutating, completed>>

Worktrees  == {"absent", "clean", "dirty", "ahead", "merged"}
Writable   == {"ACTIVE", "RECOVERABLE"}

AssignmentInit ==
    /\ lifecycle = [s \in Assignments |-> "NONE"]
    /\ worktree = [s \in Assignments |-> "absent"]
    /\ governed = [s \in Assignments |-> TRUE]
    /\ mutating = NoAssignment
    /\ completed = {}

(* What reconciliation makes of the record of s. *)
Observed(s) ==
    IF lifecycle[s] \in {"NONE", "CANCELLED", "DISPOSED"} THEN lifecycle[s]
    ELSE CASE worktree[s] = "absent" -> "MISSING"
           [] worktree[s] = "dirty"  -> "RECOVERABLE"
           [] worktree[s] = "merged" -> "COMPLETED"
           [] OTHER -> IF lifecycle[s] = "COMPLETED" THEN "COMPLETED" ELSE "ACTIVE"

(* Reconciliation of every record; completed remembers what it found. *)
Reconciled ==
    /\ lifecycle' = [s \in Assignments |-> Observed(s)]
    /\ completed' = completed \cup {s \in Assignments : Observed(s) = "COMPLETED"}

Reconcile ==
    /\ mutating = NoAssignment
    /\ Reconciled
    /\ UNCHANGED <<worktree, governed, mutating>>

(* authorityForContinuation after its reconciliation: the workspace that is *)
(* handed to an agent is that of its first writable assignment.            *)
Authority(s) ==
    /\ governed[s]
    /\ Observed(s) \in Writable
    /\ \A t \in 1..(s - 1) : Agent[t] = Agent[s] => Observed(t) \notin Writable

\* Mutant: an assignment whose worktree cannot be found gives the slot away.
ReservesWriterSlot_found(s) == lifecycle[s] \in Writable
ReservesWriterSlot(s) == lifecycle[s] \in Writable \cup {"MISSING"}

(* create: the checks and the worktree. *)
AddWorktree(s) ==
    /\ mutating = NoAssignment
    /\ \A t \in 1..(s - 1) : lifecycle[t] # "NONE" \/ worktree[t] # "absent"
    /\ governed[s] /\ lifecycle[s] = "NONE" /\ worktree[s] = "absent"
    /\ ~\E t \in Assignments : ReservesWriterSlot(t)
    /\ worktree' = [worktree EXCEPT ![s] = "clean"]
    /\ mutating' = s
    /\ UNCHANGED <<lifecycle, governed, completed>>

(* cancel: only the record; the worktree is preserved. *)
CancelAssignment(s) ==
    /\ mutating = NoAssignment
    /\ lifecycle[s] \notin {"NONE", "CANCELLED", "DISPOSED"}
    /\ lifecycle' = [lifecycle EXCEPT ![s] = "CANCELLED"]
    /\ UNCHANGED <<worktree, governed, mutating, completed>>

(* dispose: the checks and the removal of the worktree. *)
RemoveWorktree(s) ==
    /\ mutating = NoAssignment
    /\ lifecycle[s] \in {"CANCELLED", "COMPLETED"}
    /\ worktree[s] \notin {"absent", "dirty"}
    /\ worktree' = [worktree EXCEPT ![s] = "absent"]
    /\ mutating' = s
    /\ UNCHANGED <<lifecycle, governed, completed>>

(* The record of the creation or the disposal. *)
PutAssignment ==
    /\ mutating # NoAssignment
    /\ lifecycle' = [lifecycle EXCEPT ![mutating] =
                        IF @ = "NONE" THEN "ACTIVE" ELSE "DISPOSED"]
    /\ mutating' = NoAssignment
    /\ UNCHANGED <<worktree, governed, completed>>

(* What agents, humans and git do to a worktree. *)
Moves == {<<"clean", "dirty">>, <<"dirty", "ahead">>, <<"ahead", "dirty">>,
          <<"ahead", "merged">>, <<"merged", "dirty">>}
Touch(s) ==
    /\ lifecycle[s] # "NONE"
    /\ \E w \in Worktrees :
          /\ \/ <<worktree[s], w>> \in Moves
             \/ worktree[s] # "absent" /\ w = "absent"
             \/ lifecycle[s] = "MISSING" /\ worktree[s] = "absent" /\ w = "dirty"
          /\ worktree' = [worktree EXCEPT ![s] = w]
    /\ UNCHANGED <<lifecycle, governed, mutating, completed>>

(* The work claim is released or expires, the task or the manifest changes, *)
(* the participant is disabled, source work waits for its reconciliation.  *)
Revoke(s) ==
    /\ governed[s]
    /\ governed' = [governed EXCEPT ![s] = FALSE]
    /\ UNCHANGED <<lifecycle, worktree, mutating, completed>>

(* What the roster, the reconciliation of source work or the settings took *)
(* away may come back for the same authority epoch; a claim, a task or a   *)
(* manifest that changed does not, and is a revocation without this step.  *)
Reinstate(s) ==
    /\ ~governed[s]
    /\ governed' = [governed EXCEPT ![s] = TRUE]
    /\ UNCHANGED <<lifecycle, worktree, mutating, completed>>

(***************************************************************************)
(* Of the assignments that have never been COMPLETED, at most one may be   *)
(* written by its agent ("Trusted lifecycle prototype permits only one     *)
(* active writable assignment").  One that has been COMPLETED gave the     *)
(* slot away, and is a second writer once its worktree is dirty again.     *)
(***************************************************************************)
OneWriter == Cardinality({s \in Assignments \ completed : lifecycle[s] \in Writable}) <= 1
=============================================================================
