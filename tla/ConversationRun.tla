---------------------------- MODULE ConversationRun ----------------------------
(***************************************************************************)
(* performConversation (server/index.ts): one conversation of the room,    *)
(* run by one of the two engines.  A message, a developer's message, a     *)
(* presence announcement and the action "continue" are staged, the other   *)
(* room actions are directed; both are given the same turns, the same      *)
(* energy policy and the same number of workers.                           *)
(***************************************************************************)
EXTENDS EnergyConversation

CONSTANTS
    Runs,           \* what is asked: [staged, opt]
    DirectMentions  \* bound: participants one directed turn mentions

ASSUME RunAssumption ==
    Runs \subseteq [staged : BOOLEAN, opt : Options]

VARIABLES
    staged,         \* whether runEnergyConversation runs, else runAgentConversation
    plan, outcome, queued, pending, deferred, completedOrder, followUps, attempted, thrown,
    unanswered      \* the variables of DirectedConversation

\* Mutant: the turns that were asked for are not subtracted.
PlanOf_whole(o) ==
    [turns |-> o.candidates, allowance |-> o.turns,
     concurrency |-> o.concurrency, mentionable |-> o.mentionable]
\* The allowance for follow-ups is what the turns leave of the policy's ceiling.
PlanOf(o) ==
    [turns |-> o.candidates, allowance |-> Larger(0, o.turns - Len(o.candidates)),
     concurrency |-> o.concurrency, mentionable |-> o.mentionable]

Directed == INSTANCE DirectedConversation
                WITH Plans <- {PlanOf(r.opt) : r \in Runs}, MaxMentions <- DirectMentions

directVars == <<plan, outcome, queued, pending, deferred, completedOrder, followUps,
                attempted, thrown, unanswered>>
runAll == <<staged, vars, directVars>>

RunInit ==
    /\ Init
    /\ staged \in BOOLEAN /\ [staged |-> staged, opt |-> opt] \in Runs
    /\ plan = PlanOf(opt) /\ Directed!Init

RunNext ==
    \/ staged /\ Next /\ UNCHANGED <<staged, directVars>>
    \/ ~staged /\ Directed!Next /\ UNCHANGED <<staged, vars>>

RunSpec == RunInit /\ [][RunNext]_runAll

\* Every turn ends (performTurn bounds the provider's time) and the run goes on.
FairRunSpec == RunSpec /\ WF_runAll(RunNext)

-----------------------------------------------------------------------------
(* Properties *)

\* Whatever is asked of the room, neither engine runs more turns than the policy
\* allows: a staged run keeps within its ceilings and starts no turn that may say
\* nothing, a directed one keeps within the ceiling that its own turns may already
\* exceed, with one turn for an agent at a time.
WithinPolicy ==
    /\ WithinCeilings /\ NoMuteTurn
    /\ attempted + Len(queued) <= Larger(opt.turns, Len(opt.candidates))
    /\ Directed!OneTurnEach

\* Whoever a visible reply names is asked, in both engines, unless the budget of the
\* run was used up or the run was told to stop.
NamedAreAsked == AddressedAreAsked /\ Directed!MentionsFollowed

\* The queue of the room is given back with no turn in flight: a run that ended, in
\* whatever way, has waited for every turn it started.
NothingInFlight == RunDrains /\ Directed!Drained

\* What a thrown, cancelled or settled turn forbids is not started.
StartsWhatItMay == StopsWhenTold /\ Directed!NothingAfterThrow

\* Every conversation ends, however its turns name one another.
RunEnds == <>(verdict # Going \/ outcome \in Directed!Ended)
=============================================================================
