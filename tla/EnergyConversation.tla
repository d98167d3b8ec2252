-------------------------- MODULE EnergyConversation --------------------------
(***************************************************************************)
(* runEnergyConversation (server/conversation.ts): who speaks next after a *)
(* human message, and when the conversation stops.                         *)
(*                                                                         *)
(* A run has openings (one after the other or by concurrent workers), a    *)
(* conversational floor when nobody spoke, follow-ups (direct mentions     *)
(* first, then invitations drawn at random, then continuations), and for   *)
(* an unresolved point a synthesis, objections to it, a reconciliation.    *)
(* One action is what happens between two awaits: the end of a turn        *)
(* (Complete), or the choice of what comes next.  What a turn returns is   *)
(* open: performTurn promises at most `limit` messages, no more.           *)
(***************************************************************************)
EXTENDS Integers, Sequences, FiniteSets, SequencesExt

CONSTANTS
    Agents,       \* participants that may be mentioned
    Options,      \* candidates, policies and broadcast options a run may have
    MaxMentions   \* bound: participants one turn mentions

\* A policy of CONVERSATION_ENERGY_POLICIES with the options of the run: candidates
\* is the ranked sequence of whom it may invite, mentionable whom its replies may
\* name, certain is secondaryChance = 1, participants is ignored when all holds.
OptionRecord ==
    [candidates : Seq(Agents), mentionable : SUBSET Agents, participants : Nat,
     all : BOOLEAN, certain : BOOLEAN, soft : Nat, messages : Nat, turns : Nat,
     inviteAll : BOOLEAN, stopOnSettled : BOOLEAN, floor : BOOLEAN, concurrency : Nat]

ASSUME EnergyAssumption ==
    /\ IsFiniteSet(Agents)
    /\ \A o \in Options : o \in OptionRecord
    /\ \A o \in Options : /\ IsInjective(o.candidates)
                          /\ o.concurrency >= 1 /\ o.participants >= 1
                          /\ o.participants <= o.messages /\ o.participants <= o.turns
    /\ MaxMentions \in Nat

VARIABLES
    opt,          \* the options of this run
    phase,        \* phase, with "start" before the openings, "resolving" after the loop
    verdict,      \* why the run ended and whether it calls itself settled
    concurrent,   \* whether recordConcurrent runs
    batch,        \* openings its workers have not started
    openingLimit, \* messages each of them may send
    remaining,    \* remaining
    invited,      \* invited
    running,      \* activeTurns, with the limit each turn was given
    mentions,     \* pendingMentions
    pairReplies,  \* pairReplies
    last,         \* lastOutcome<< >> before the first
    lastUsed,     \* usedContinuationSources holds the key of lastOutcome
    attempts,     \* secondaryAttempts
    missed,       \* secondaryAttemptAlreadyFailed
    responseTurns, visible, energySpent, declines,
    cancelled,    \* cancelled
    settled,      \* broadcastSettled
    failed,       \* a turn has thrown
    unresolved,   \* some visible outcome was open or blocked
    responders,   \* agents of visibleOutcomes, each once
    recent,       \* what the latest recorded turn returned
    material,     \* materialObjection
    synthesizer,  \* the agent of the synthesis
    objectors,    \* objectors not asked yet
    mentioned     \* history: agents that a visible message has mentioned

runVars    == <<opt, verdict>>
openVars   == <<concurrent, batch, openingLimit>>
inviteVars == <<remaining, invited>>
budgetVars == <<responseTurns, visible, energySpent>>
flagVars   == <<declines, cancelled, settled, failed>>
followVars == <<mentions, pairReplies, lastUsed, attempts, missed>>
outcomeVars == <<last, unresolved, responders, recent, material, mentioned>>
convergeVars == <<synthesizer, objectors>>
vars == <<phase, running, convergeVars, runVars, openVars, inviteVars, budgetVars, flagVars,
          followVars, outcomeVars>>

\* What only the end of a turn or of the run changes.
frame == <<runVars, budgetVars, flagVars, outcomeVars>>

Phases == {"start", "opening", "conversation-floor", "follow-up", "resolving",
           "synthesis", "objection", "reconciliation"}
States == {"none", "open", "settled", "blocked"}
Pairs  == {{a, b} : a \in Agents, b \in Agents}
NoAgent == "none"
Going == [reason |-> "none", settled |-> FALSE]

Smaller(m, n) == IF m <= n THEN m ELSE n
Larger(m, n)  == IF m >= n THEN m ELSE n

-----------------------------------------------------------------------------
(* Budgets *)

Candidates == opt.candidates
MaxObjectionTurns == 4
ParticipantLimit == IF opt.all THEN Len(Candidates) ELSE opt.participants
ConvergenceReserve == 2 + Smaller(MaxObjectionTurns, Larger(0, ParticipantLimit - 1))

\* A run that may hear the whole room has room for everyone and for convergence.
Scaled(ceiling) ==
    IF opt.inviteAll \/ opt.all
    THEN Larger(ceiling, Len(Candidates) + ConvergenceReserve)
    ELSE ceiling

MessageCeiling == Scaled(opt.messages)
TurnCeiling    == Scaled(opt.turns)
Exhausted == visible >= MessageCeiling \/ responseTurns >= TurnCeiling

\* There is no lastOutcome; it is set whenever responseTurns grows.
NobodySpoke == responseTurns = 0

Init ==
    /\ opt \in Options /\ phase = "start" /\ verdict = Going
    /\ concurrent = FALSE /\ batch = << >> /\ openingLimit = 0
    /\ remaining = Candidates /\ invited = {} /\ running = {}
    /\ mentions = << >> /\ pairReplies = [p \in Pairs |-> 0]
    /\ last = [agent |-> NoAgent, state |-> "none", worthy |-> FALSE]
    /\ lastUsed = FALSE /\ attempts = 0 /\ missed = FALSE
    /\ responseTurns = 0 /\ visible = 0 /\ energySpent = 0 /\ declines = 0
    /\ cancelled = FALSE /\ settled = FALSE /\ failed = FALSE
    /\ unresolved = FALSE /\ responders = << >>
    /\ recent = [responded |-> FALSE, state |-> "none"]
    /\ material = FALSE /\ synthesizer = NoAgent /\ objectors = << >>
    /\ mentioned = {}

-----------------------------------------------------------------------------
(* record *)

\* A turn starts with what is left of the message budget; retry marks a
\* continuation of an open point, whose source is free again if it fails.
Start(a, limit, retry) ==
    /\ invited' = invited \cup {a}
    /\ running' = running \cup {[agent |-> a, retry |-> retry,
                                 limit |-> Smaller(limit, MessageCeiling - visible)]}

\* What performTurn may return: n is the number of messages it reports; a turn that
\* was cancelled or has thrown reports none, though its burst may be in the room.
Returns(t) ==
    [kind : {"answered"}, n : 1..t.limit, state : States, worthy : BOOLEAN,
     targets : {s \in UNION {[1..k -> opt.mentionable \ {t.agent}] : k \in 0..MaxMentions} :
                    IsInjective(s)}]
    \cup [kind : {"declined"}, n : {0}, state : States, worthy : {FALSE}, targets : {<< >>}]
    \cup [kind : {"failed", "cancelled", "thrown"}, n : {0}, state : {"none"},
          worthy : {FALSE}, targets : {<< >>}]

\* The turn answered: it spends energy, and whom it mentions is to be asked.
Answered(t, r) ==
    /\ responseTurns' = responseTurns + 1
    /\ visible' = visible + r.n
    /\ energySpent' = energySpent + r.n + responseTurns \div 2
    /\ mentions' = mentions \o
           [i \in DOMAIN r.targets |->
               [source |-> t.agent, target |-> r.targets[i],
                running |-> \E u \in running : u.agent = r.targets[i]]]
    /\ last' = [agent |-> t.agent, state |-> r.state, worthy |-> r.worthy]
    /\ lastUsed' = FALSE
    /\ settled' = (settled \/ (opt.stopOnSettled /\ r.state = "settled"))
    /\ unresolved' = (unresolved \/ r.state \in {"open", "blocked"})
    /\ responders' = IF t.agent \in ToSet(responders) THEN responders
                     ELSE Append(responders, t.agent)
    /\ material' = (material \/ (phase = "objection" /\ r.state = "open"))
    /\ mentioned' = mentioned \cup ToSet(r.targets)
    /\ UNCHANGED declines

Silent(t, r) ==
    /\ declines' = IF r.kind = "declined" THEN declines + 1 ELSE declines
    /\ lastUsed' = (lastUsed /\ ~t.retry)
    /\ UNCHANGED <<responseTurns, visible, energySpent, mentions, last, settled,
                   unresolved, responders, material, mentioned>>

Complete(t, r) ==
    /\ running' = running \ {t}
    /\ cancelled' = (cancelled \/ r.kind = "cancelled")
    /\ failed' = (failed \/ r.kind = "thrown")
    /\ recent' = [responded |-> r.kind = "answered", state |-> r.state]
    /\ IF r.kind = "answered" THEN Answered(t, r) ELSE Silent(t, r)
    /\ UNCHANGED <<phase, convergeVars, runVars, openVars, inviteVars, pairReplies,
                   attempts, missed>>

\* The run ends; nothing else changes.
Finish(reason, isSettled) ==
    /\ verdict' = [reason |-> reason, settled |-> isSettled]
    /\ UNCHANGED <<opt, phase, running, convergeVars, openVars, inviteVars,
                   budgetVars, flagVars, followVars, outcomeVars>>

\* Nothing is awaited: the run chooses what comes next.
Idle == verdict = Going /\ ~concurrent /\ running = {} /\ ~failed

\* Mutant: the first error is rethrown while other openings are still running.
RunFails_undrained ==
    /\ verdict = Going /\ failed
    /\ Finish("run-failed", FALSE)

\* A turn that throws ends the run, once the other openings have ended.
RunFails ==
    /\ verdict = Going /\ failed /\ running = {}
    /\ Finish("run-failed", FALSE)

-----------------------------------------------------------------------------
(* Openings *)

\* Mutant: concurrent openings may each use a whole burst.
OpeningLimit_burst(k) == 3
\* One message each when several open, else a burst.
OpeningLimit(k) == IF k > 1 THEN 1 ELSE 3

\* Concurrent openings: everybody who is invited, or the first k candidates that
\* the draws admit; a draw that fails is remembered.
OpenConcurrently(k) ==
    /\ Idle /\ phase = "start" /\ phase' = "opening"
    /\ opt.concurrency > 1 /\ ~opt.stopOnSettled /\ remaining # << >>
    /\ LET most == Smaller(Larger(1, ParticipantLimit), Len(remaining)) IN
       IF opt.inviteAll
       THEN k = Len(remaining) /\ UNCHANGED <<attempts, missed>>
       ELSE /\ k <= most /\ (k < most => ~opt.certain)
            /\ missed' = (k < most)
            /\ attempts' = IF k < most THEN k ELSE k - 1
    /\ concurrent' = TRUE /\ openingLimit' = OpeningLimit(k)
    /\ batch' = SubSeq(remaining, 1, k)
    /\ remaining' = SubSeq(remaining, k + 1, Len(remaining))
    /\ UNCHANGED <<frame, invited, running, convergeVars, mentions, pairReplies,
                   lastUsed>>

\* Mutant: a worker takes the next opening without looking at cancelled.
StartOpening_blind ==
    /\ verdict = Going /\ concurrent /\ batch # << >> /\ ~settled /\ ~failed
    /\ Cardinality(running) < opt.concurrency
    /\ Start(Head(batch), openingLimit, FALSE)
    /\ batch' = Tail(batch)
    /\ UNCHANGED <<frame, phase, convergeVars, concurrent, openingLimit, remaining,
                   followVars>>

\* A worker takes the next opening of the batch.
StartOpening ==
    /\ verdict = Going /\ concurrent /\ batch # << >> /\ ~cancelled /\ ~settled /\ ~failed
    /\ Cardinality(running) < opt.concurrency
    /\ Start(Head(batch), openingLimit, FALSE)
    /\ batch' = Tail(batch)
    /\ UNCHANGED <<frame, phase, convergeVars, concurrent, openingLimit, remaining,
                   followVars>>

\* The workers have returned.
OpeningsDone ==
    /\ verdict = Going /\ concurrent /\ running = {} /\ ~failed
    /\ batch = << >> \/ cancelled \/ settled
    /\ concurrent' = FALSE
    /\ UNCHANGED <<frame, phase, running, convergeVars, batch, openingLimit,
                   inviteVars, followVars>>

\* Without concurrency the run opens one candidate after the other.
OpenInTurn ==
    /\ Idle /\ phase = "start" /\ phase' = "opening"
    /\ opt.concurrency = 1 \/ opt.stopOnSettled \/ remaining = << >>
    /\ UNCHANGED <<frame, running, convergeVars, openVars, inviteVars, followVars>>

MoreOpenings ==
    /\ remaining # << >> /\ ~cancelled
    /\ IF opt.inviteAll THEN ~settled /\ visible < MessageCeiling ELSE NobodySpoke

OpenNext ==
    /\ Idle /\ phase = "opening" /\ MoreOpenings
    /\ Start(Head(remaining), IF opt.inviteAll THEN 1 ELSE 3, FALSE)
    /\ remaining' = Tail(remaining)
    /\ UNCHANGED <<frame, phase, convergeVars, openVars, followVars>>

TakesFloor == NobodySpoke /\ ~cancelled /\ opt.floor
              /\ declines = Cardinality(invited) /\ invited # {}

FloorCandidate == Candidates[SelectInSeq(Candidates, LAMBDA a : a \in invited)]

\* Everyone who was asked declined a conversational message: the first of them
\* is asked once more.
TakeFloor ==
    /\ Idle /\ phase = "opening" /\ ~MoreOpenings /\ TakesFloor
    /\ phase' = "conversation-floor"
    /\ Start(FloorCandidate, 1, FALSE)
    /\ UNCHANGED <<frame, convergeVars, remaining, openVars, followVars>>

FloorTaken ==
    /\ Idle /\ phase = "conversation-floor"
    /\ Finish(IF cancelled THEN "cancelled" ELSE "conversation-floor-completed", ~cancelled)

OpeningEnds ==
    /\ Idle /\ phase = "opening" /\ ~MoreOpenings /\ ~TakesFloor
    /\ NobodySpoke \/ cancelled \/ settled
    /\ IF NobodySpoke \/ cancelled
       THEN Finish(IF cancelled THEN "cancelled" ELSE "no-visible-output", ~cancelled)
       ELSE Finish("broadcast-settled-response", TRUE)

OpeningLeadsOn ==
    /\ Idle /\ phase = "opening" /\ ~MoreOpenings
    /\ ~NobodySpoke /\ ~cancelled /\ ~settled
    /\ phase' = "follow-up"
    /\ UNCHANGED <<frame, running, convergeVars, openVars, inviteVars, followVars>>

-----------------------------------------------------------------------------
(* Follow-ups *)

Looping == Idle /\ phase = "follow-up" /\ ~Exhausted /\ ~cancelled /\ ~settled

PairOf(m) == {m.source, m.target}

\* A mention is not followed when its pair has had two, or when its target was
\* not speaking while it was made and has spoken last since.
Skipped(m) == pairReplies[PairOf(m)] >= 2 \/ (~m.running /\ last.agent = m.target)

\* Mutant: a mention that is skipped stays at the head of the queue.
SkipMention_stuck ==
    /\ Looping /\ mentions # << >> /\ Skipped(Head(mentions))
    /\ UNCHANGED vars

SkipMention ==
    /\ Looping /\ mentions # << >> /\ Skipped(Head(mentions))
    /\ mentions' = Tail(mentions)
    /\ UNCHANGED <<frame, phase, running, convergeVars, openVars, inviteVars,
                   pairReplies, lastUsed, attempts, missed>>

TakeMention ==
    /\ Looping /\ mentions # << >> /\ ~Skipped(Head(mentions))
    /\ pairReplies' = [pairReplies EXCEPT ![PairOf(Head(mentions))] = @ + 1]
    /\ mentions' = Tail(mentions)
    /\ Start(Head(mentions).target, 3, FALSE)
    /\ UNCHANGED <<frame, phase, convergeVars, remaining, openVars, lastUsed,
                   attempts, missed>>

\* nextFreshCandidate: place of the first candidate that was not asked, or 0.
Fresh == SelectInSeq(remaining, LAMBDA a : a \notin invited)

\* Another draw for a fresh candidate is allowed.
MayDraw ==
    /\ ~missed /\ attempts < ParticipantLimit - 1
    /\ opt.all \/ energySpent < opt.soft

\* The draw succeeds and a fresh candidate is invited.
InviteFresh ==
    /\ Looping /\ mentions = << >> /\ MayDraw /\ Fresh # 0
    /\ attempts' = attempts + 1
    /\ remaining' = RemoveAt(remaining, Fresh)
    /\ Start(remaining[Fresh], 3, FALSE)
    /\ UNCHANGED <<frame, phase, convergeVars, openVars, mentions, pairReplies,
                   lastUsed, missed>>

\* Nobody is invited: the miss of the openings counts, a draw fails or finds
\* nobody, or no draw is allowed.
NoInvitation ==
    /\ Looping /\ mentions = << >>
    /\ MayDraw => Fresh = 0 \/ ~opt.certain
    /\ missed' = FALSE
    /\ attempts' = IF MayDraw THEN attempts + 1 ELSE attempts

ExplicitlyOpen == last.state = "open" /\ responseTurns < 2

\* The latest outcome may be continued, once.
Continuable ==
    /\ \/ ExplicitlyOpen
       \/ last.worthy /\ energySpent + 1 + responseTurns \div 2 <= opt.soft
    /\ ~lastUsed

ContinueAmbient ==
    /\ NoInvitation /\ Continuable /\ Fresh # 0
    /\ lastUsed' = TRUE
    /\ remaining' = RemoveAt(remaining, Fresh)
    /\ Start(remaining[Fresh], 3, ExplicitlyOpen)
    /\ UNCHANGED <<frame, phase, convergeVars, openVars, mentions, pairReplies>>

\* Mutant: the loop also breaks while direct mentions wait.
StopFollowing_early ==
    /\ Looping /\ phase' = "resolving"
    /\ missed' = FALSE /\ UNCHANGED <<attempts, lastUsed>>
    /\ UNCHANGED <<frame, running, convergeVars, openVars, inviteVars, mentions,
                   pairReplies>>

\* Nobody is left to continue: the loop breaks.
StopFollowing ==
    /\ NoInvitation /\ (Continuable => Fresh = 0)
    /\ lastUsed' = (lastUsed \/ Continuable)
    /\ phase' = "resolving"
    /\ UNCHANGED <<frame, running, convergeVars, openVars, inviteVars, mentions,
                   pairReplies>>

\* The loop condition fails.
StopLooping ==
    /\ Idle /\ phase = "follow-up"
    /\ Exhausted \/ cancelled \/ settled
    /\ phase' = "resolving"
    /\ UNCHANGED <<frame, running, convergeVars, openVars, inviteVars, followVars>>

-----------------------------------------------------------------------------
(* Resolution *)

Resolvable == ~cancelled /\ ~settled /\ unresolved /\ responseTurns >= 2 /\ ~Exhausted

Resolve ==
    /\ Idle /\ phase = "resolving" /\ ~Resolvable
    /\ IF cancelled THEN Finish("cancelled", FALSE)
       ELSE IF settled THEN Finish("broadcast-settled-response", TRUE)
       ELSE IF ~unresolved THEN Finish("no-explicit-unresolved-state", TRUE)
       ELSE IF responseTurns < 2 THEN Finish("open-without-second-responder", FALSE)
       ELSE Finish("safety-ceiling", FALSE)

Synthesize ==
    /\ Idle /\ phase = "resolving" /\ Resolvable
    /\ phase' = "synthesis" /\ synthesizer' = last.agent
    /\ objectors' = LET others == SelectSeq(responders, LAMBDA a : a # last.agent) IN
                     SubSeq(others, 1, Smaller(MaxObjectionTurns, Len(others)))
    /\ Start(last.agent, 1, FALSE)
    /\ UNCHANGED <<frame, remaining, openVars, followVars>>

Objectable == ~cancelled /\ recent.responded /\ recent.state \notin {"settled", "blocked"}
              /\ ~Exhausted

SynthesisEnds ==
    /\ Idle /\ phase = "synthesis" /\ ~Objectable
    /\ IF cancelled THEN Finish("cancelled", FALSE)
       ELSE IF ~recent.responded THEN Finish("synthesis-no-response", TRUE)
       ELSE IF recent.state = "settled" THEN Finish("synthesis-settled", TRUE)
       ELSE IF recent.state = "blocked" THEN Finish("blocked-input", FALSE)
       ELSE Finish("safety-ceiling", FALSE)

AskObjections ==
    /\ Idle /\ phase = "synthesis" /\ Objectable
    /\ phase' = "objection"
    /\ UNCHANGED <<frame, running, convergeVars, openVars, inviteVars, followVars>>

Blocked == phase = "objection" /\ recent.state = "blocked"
Asking  == Idle /\ phase = "objection" /\ ~Blocked

AskObjector ==
    /\ Asking /\ objectors # << >> /\ ~cancelled /\ ~Exhausted
    /\ Start(Head(objectors), 1, FALSE)
    /\ objectors' = Tail(objectors)
    /\ UNCHANGED <<frame, phase, synthesizer, remaining, openVars, followVars>>

Asked == objectors = << >> \/ cancelled \/ Exhausted

ObjectionBlocks ==
    /\ Idle /\ Blocked
    /\ Finish("blocked-input", FALSE)

ObjectionsEnd ==
    /\ Asking /\ Asked /\ (material => Exhausted)
    /\ IF ~material THEN Finish("no-material-objection", TRUE)
       ELSE Finish("safety-ceiling", FALSE)

\* A material objection is reconciled by the agent that wrote the synthesis, even
\* when a later objection was cancelled.
Reconcile ==
    /\ Asking /\ Asked /\ material /\ ~Exhausted
    /\ phase' = "reconciliation"
    /\ Start(synthesizer, 1, FALSE)
    /\ UNCHANGED <<frame, convergeVars, remaining, openVars, followVars>>

ReconciliationEnds ==
    /\ Idle /\ phase = "reconciliation"
    /\ IF cancelled THEN Finish("cancelled", FALSE)
       ELSE IF recent.state = "settled" THEN Finish("reconciliation-settled", TRUE)
       ELSE IF ~recent.responded THEN Finish("reconciliation-no-response", TRUE)
       ELSE IF recent.state = "blocked" THEN Finish("blocked-input", FALSE)
       ELSE Finish("unresolved-reconciliation", FALSE)

Next ==
    \/ \E t \in running : \E r \in Returns(t) : Complete(t, r)
    \/ RunFails
    \/ \E k \in 1..Len(Candidates) : OpenConcurrently(k)
    \/ StartOpening \/ OpeningsDone
    \/ OpenInTurn \/ OpenNext \/ TakeFloor \/ FloorTaken
    \/ OpeningEnds \/ OpeningLeadsOn
    \/ SkipMention \/ TakeMention \/ InviteFresh \/ ContinueAmbient
    \/ StopFollowing \/ StopLooping
    \/ Resolve \/ Synthesize \/ SynthesisEnds \/ AskObjections
    \/ AskObjector \/ ObjectionBlocks \/ ObjectionsEnd
    \/ Reconcile \/ ReconciliationEnds

Spec == Init /\ [][Next]_vars

-----------------------------------------------------------------------------
(* Properties *)

TurnRecord == [agent : Agents, retry : BOOLEAN, limit : 0..3]

TypeOK ==
    /\ opt \in Options /\ phase \in Phases
    /\ verdict.settled \in BOOLEAN
    /\ concurrent \in BOOLEAN /\ openingLimit \in {0, 1, 3}
    /\ batch \in Seq(Agents) /\ remaining \in Seq(Agents)
    /\ invited \subseteq Agents /\ running \subseteq TurnRecord
    /\ mentions \in Seq([source : Agents, target : Agents, running : BOOLEAN])
    /\ pairReplies \in [Pairs -> 0..2]
    /\ last \in [agent : Agents \cup {NoAgent}, state : States, worthy : BOOLEAN]
    /\ {responseTurns, visible, energySpent, declines, attempts} \subseteq Nat
    /\ {lastUsed, missed, cancelled, settled, failed, unresolved, material} \subseteq BOOLEAN
    /\ responders \in Seq(Agents) /\ objectors \in Seq(Agents)
    /\ recent \in [responded : BOOLEAN, state : States]
    /\ synthesizer \in Agents \cup {NoAgent} /\ mentioned \subseteq Agents

\* The budget the run accounts for is never overdrawn, in whatever order the
\* concurrent openings end and whatever phases follow: neither in messages nor in
\* turns that spoke.
WithinCeilings == visible <= MessageCeiling /\ responseTurns <= TurnCeiling

\* No agent is set to work without the allowance to say something: the message
\* budget is never used up when a turn starts, in any phase.
NoMuteTurn == \A t \in running : t.limit >= 1

\* A run that has ended has no turn in flight: an error, a cancellation or a
\* settled answer waits for the openings that still run.
RunDrains == verdict # Going => running = {}

\* A run that reaches its resolution with budget left has asked everyone whom a
\* visible message addressed, also those it had not meant to invite.
AddressedAreAsked ==
    phase = "resolving" /\ ~Exhausted /\ ~cancelled /\ ~settled => mentioned \subseteq invited

\* After a turn has thrown no turn starts; after a settled answer to a question for
\* one, only objections to a synthesis and their reconciliation; after a cancelled
\* turn only the reconciliation, which also follows a cancelled objection.
StopsWhenTold ==
    [][~(running' \subseteq running) =>
         /\ ~failed
         /\ settled => phase' \in {"objection", "reconciliation"}
         /\ cancelled => phase' = "reconciliation"]_vars
=============================================================================
