------------------------- MODULE DirectedConversation -------------------------
(***************************************************************************)
(* runAgentConversation (server/conversation.ts): the turns a person asks  *)
(* for with a room action (ask, review, roundtable), run by up to          *)
(* `concurrency` workers, and the follow-ups that these turns cause within *)
(* an allowance.                                                           *)
(*                                                                         *)
(* One action is what happens between two awaits of the race: one turn has *)
(* ended, a mention that waited for its agent is queued first, the turn's  *)
(* own mentions or one reply are queued, and the free workers start what   *)
(* is queued.  A turn that was cancelled or failed says nothing and the    *)
(* run goes on; a turn that throws ends it.                                *)
(***************************************************************************)
EXTENDS Integers, Sequences, FiniteSets, SequencesExt

CONSTANTS
    Agents,       \* participants of the room
    Plans,        \* what a run may be asked: [turns, allowance, concurrency, mentionable];
                  \* turns names nobody twice and concurrency is positive
    MaxMentions   \* bound: participants one turn mentions

VARIABLES
    plan,        \* initialTurns, maxFollowUps, concurrencyLimit and whom replies may name
    outcome,     \* "not-started", "running", or the terminal reason
    queued,      \* queued
    pending,     \* pending, in the order the turns were started
    deferred,    \* deferredMentions
    completedOrder, \* completedOrder, the first place is 1 and 0 is none
    followUps,   \* followUps
    attempted,   \* facts.counts.attemptedTurns
    thrown,      \* a completed turn carried an error
    unanswered   \* history: agents mentioned that have started no turn since

followVars == <<deferred, completedOrder, followUps, attempted, unanswered>>
direct == <<plan, outcome, queued, pending, thrown, followVars>>

Ended == {"run-failed", "follow-up-limit", "queue-exhausted"}

Init ==
    /\ plan \in Plans /\ outcome = "not-started"
    /\ queued = << >> /\ pending = << >> /\ deferred = {}
    /\ completedOrder = [a \in Agents |-> 0]
    /\ followUps = 0 /\ attempted = 0 /\ thrown = FALSE /\ unanswered = {}

-----------------------------------------------------------------------------

\* fillAvailableSlots: the workers that are free take the head of the queue.
Fill(active, queue) ==
    LET free == plan.concurrency - Len(active)
        k    == IF free <= Len(queue) THEN free ELSE Len(queue)
    IN /\ pending' = active \o SubSeq(queue, 1, k)
       /\ queued' = SubSeq(queue, k + 1, Len(queue))
       /\ attempted' = attempted + k

Start ==
    /\ outcome = "not-started" /\ outcome' = "running"
    /\ Fill(<< >>, plan.turns)
    /\ UNCHANGED <<plan, deferred, completedOrder, followUps, thrown, unanswered>>

\* Mutant: a mention that waited is forgotten when its agent ends its turn.
Promoted_never(a) == << >>
\* The mention that waited for agent a, when a follow-up is left for it.
Promoted(a) == IF a \in deferred /\ followUps < plan.allowance THEN <<a>> ELSE << >>

\* Mutant: the follow-up just spent on a waiting mention is not counted.
Left_stale(a) == plan.allowance - followUps
\* Follow-ups left once the mention that waited for agent a has its own.
Left(a) == plan.allowance - followUps - Len(Promoted(a))

\* Agents of S in some order: n of them, or all when they are fewer.
Some(S, n) ==
    {s \in UNION {[1..k -> S] : k \in 0..n} :
        IsInjective(s) /\ (Len(s) < n => ToSet(s) = S)}

\* Mutant: a mention does not look whether its agent has a turn.
Asked_again(targets, busy, left) ==
    {[added |-> s, waits |-> {}] : s \in Some(targets, left)}
\* The loop over the mentions, in the order of the room: those without a turn are
\* asked while follow-ups are left, those with one wait until it ends; the loop
\* breaks when no follow-up is left.
Asked(targets, busy, left) ==
    {m \in [added : Some(targets \ busy, left), waits : SUBSET (targets \cap busy)] :
        Len(m.added) < left => m.waits = targets \cap busy}

\* Nobody was mentioned: of those that have completed a turn and have none now, the
\* one that completed first replies.
Nothing == {[added |-> << >>, waits |-> {}]}
Replies(a, completed, busy) ==
    LET free == {b \in Agents \ (busy \cup {a}) : completed[b] > 0}
    IN IF free = {} THEN Nothing
       ELSE {[added |-> <<b>>, waits |-> {}] :
                b \in {f \in free : \A g \in free : completed[f] <= completed[g]}}

\* What the end of a turn of agent a adds to the queue.
Reactions(a, speaks, targets, completed, busy, left) ==
    IF left <= 0 \/ ~speaks THEN Nothing
    ELSE IF targets # {} THEN Asked(targets, busy, left)
    ELSE Replies(a, completed, busy)

\* The turn of the i-th worker ends.
TurnEnds(i, speaks, targets) ==
    LET a    == pending[i]
        rest == RemoveAt(pending, i)
        busy == ToSet(rest) \cup ToSet(Promoted(a) \o queued)
    IN
    /\ outcome = "running" /\ ~thrown
    \* completionSequence: the turns that have completed before this one
    /\ completedOrder' = [completedOrder EXCEPT ![a] = attempted - Len(pending) + 1]
    /\ \E m \in Reactions(a, speaks, targets, completedOrder', busy, Left(a)) :
          /\ Fill(rest, Promoted(a) \o queued \o m.added)
          /\ followUps' = followUps + Len(Promoted(a)) + Len(m.added)
          /\ deferred' = (deferred \ ToSet(Promoted(a))) \cup m.waits
    /\ unanswered' = (unanswered \cup targets)
                         \ ToSet(SubSeq(pending', Len(rest) + 1, Len(pending')))
    /\ UNCHANGED <<plan, outcome, thrown>>

\* The turn of the i-th worker throws; nothing is started any more.
TurnThrows(i) ==
    /\ outcome = "running" /\ ~thrown /\ thrown' = TRUE
    /\ pending' = RemoveAt(pending, i)
    /\ UNCHANGED <<plan, outcome, queued, followVars>>

\* After an error the other turns are waited for, whatever they return.
TurnDrains(i) ==
    /\ outcome = "running" /\ thrown
    /\ pending' = RemoveAt(pending, i)
    /\ UNCHANGED <<plan, outcome, queued, thrown, followVars>>

\* Mutant: the error reaches the caller at once.
Finish_undrained ==
    /\ outcome = "running"
    /\ thrown \/ (pending = << >> /\ queued = << >>)
    /\ outcome' = IF thrown THEN "run-failed"
                  ELSE IF followUps >= plan.allowance THEN "follow-up-limit"
                  ELSE "queue-exhausted"
    /\ UNCHANGED <<plan, queued, pending, thrown, followVars>>

\* No turn is running; a run that did not fail has an empty queue then.
Finish ==
    /\ outcome = "running" /\ pending = << >>
    /\ outcome' = IF thrown THEN "run-failed"
                  ELSE IF followUps >= plan.allowance THEN "follow-up-limit"
                  ELSE "queue-exhausted"
    /\ UNCHANGED <<plan, queued, pending, thrown, followVars>>

\* Whom a visible reply of agent a may name: participants of the room other than a.
Namings(a) == {T \in SUBSET (plan.mentionable \ {a}) : Cardinality(T) <= MaxMentions}

Next ==
    \/ Start
    \/ \E i \in DOMAIN pending :
          \/ \E T \in Namings(pending[i]) : TurnEnds(i, TRUE, T)
          \/ TurnEnds(i, FALSE, {})
          \/ TurnThrows(i)
          \/ TurnDrains(i)
    \/ Finish

Spec == Init /\ [][Next]_direct

-----------------------------------------------------------------------------
(* Properties *)

TypeOK ==
    /\ plan \in Plans /\ outcome \in Ended \cup {"not-started", "running"}
    /\ queued \in Seq(Agents) /\ pending \in Seq(Agents)
    /\ completedOrder \in [Agents -> Nat]
    /\ deferred \subseteq Agents /\ unanswered \subseteq Agents
    /\ followUps \in 0..plan.allowance /\ attempted \in Nat /\ thrown \in BOOLEAN

\* An agent never has a second turn, running or queued, beside its first: a mention of
\* an agent at work is put off, and taken up only when that turn is over.
OneTurnEach == IsInjective(pending \o queued)

\* A run that ends with follow-ups left has heard everyone whom a reply named, also
\* those that were at work when they were named, and has put off nobody.
MentionsFollowed == outcome = "queue-exhausted" => unanswered = {} /\ deferred = {}

\* The run neither returns nor throws while a turn is running, and returns only with an
\* empty queue.
Drained ==
    /\ outcome \in Ended => pending = << >>
    /\ outcome \in Ended \ {"run-failed"} => queued = << >>

\* Once a turn has thrown, no turn starts.
NothingAfterThrow == [][thrown => attempted' = attempted]_direct
=============================================================================
