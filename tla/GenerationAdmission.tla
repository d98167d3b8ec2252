------------------------ MODULE GenerationAdmission ------------------------
(***************************************************************************)
(* Who may start a provider process, and when.                             *)
(*                                                                         *)
(* Three synchronous ledgers of one Node process are composed by           *)
(* reserveCanonicalGeneration (server/index.ts):                           *)
(*   - RoomGenerationCapacity counts leases per room, per provider and in  *)
(*     total (server/room-runtime-registry.ts);                            *)
(*   - ActiveGenerationTracker keeps the reservations and generations of   *)
(*     the canonical room, by participant (server/active-generations.ts);  *)
(*   - ParticipantReservations gives a participant to protected work       *)
(*     (server/protected-work-store.ts).                                   *)
(* A run is one execution of a participant: a room turn, a command, a      *)
(* consultation turn, or the return of protected work.  What it does       *)
(* between two awaits is one action, so roster edits, the six-minute timer *)
(* of the tracker, and protected admission interleave with it.             *)
(***************************************************************************)
EXTENDS Integers, FiniteSets

CONSTANTS
    Runs,              \* identities of executions that may be alive at once
    Agents,            \* participants
    Providers,         \* provider scopes of the roster
    Canonical,         \* the canonical room
    OtherRooms,        \* rooms that lease through RoomRuntimeRegistry.reserve
    Works,             \* identities of protected work
    NoWork,            \* a run that is not the return of protected work
    AgentConcurrency,  \* agentConcurrency: the limit given to the tracker
    PerRoomLimit,      \* perRoomLimit of RoomGenerationCapacity
    GlobalLimit,       \* globalLimit of RoomGenerationCapacity
    ProviderLimit,     \* providerLimits[p] ?? globalLimit, a function of p
    SlowAgents,        \* whose runs may outlast ACTIVE_GENERATION_TIMEOUT_MS
    EditedAgents       \* whose entry in the roster may be edited

Rooms == {Canonical} \cup OtherRooms

ASSUME AdmissionAssumption ==
    /\ IsFiniteSet(Runs)
    /\ NoWork \notin Works
    /\ Canonical \notin OtherRooms
    /\ AgentConcurrency \in Nat \ {0}
    /\ PerRoomLimit \in Nat \ {0}
    /\ GlobalLimit \in Nat \ {0}
    /\ ProviderLimit \in [Providers -> Nat \ {0}]
    /\ SlowAgents \subseteq Agents
    /\ EditedAgents \subseteq Agents

VARIABLES
    run,             \* run[r]: where execution r is, and what it leased
    generations,     \* ActiveGenerationTracker.generations (its keys)
    reservations,    \* ActiveGenerationTracker.reservations (its keys)
    globalActive,    \* RoomGenerationCapacity.globalActive
    roomActive,      \* RoomGenerationCapacity.roomActive, 0 when absent
    providerActive,  \* RoomGenerationCapacity.providerActive, 0 when absent
    owners,          \* ParticipantReservations.owners, NoWork when absent
    work,            \* work[w]: phase of the protected work and its owner
    clearing         \* roster edit whose terminateScope is awaited

trackerVars  == <<generations, reservations>>
capacityVars == <<globalActive, roomActive, providerActive>>
protectVars  == <<owners, work>>
vars == <<run, trackerVars, capacityVars, protectVars, clearing>>

-----------------------------------------------------------------------------
(* The position of an execution in the code:                               *)
(*   reserved   reserveCanonicalGeneration returned a lease                *)
(*   activated  onGenerationStart moved the reservation to a generation    *)
(*   started    lifecycle.start ran, no child process yet                  *)
(*   running    the child process is registered with the supervisor        *)
(*   ended      runAgent settled; the caller's finally has still to run    *)
(*   leased     a lease of another room, held by RoomRuntimeRegistry       *)
CanonicalPc == {"reserved", "activated", "started", "running", "ended"}
LivePc      == CanonicalPc \cup {"leased"}
IdleRun     == [pc |-> "idle"]
LiveRun     == [pc : LivePc, room : Rooms, agent : Agents,
                provider : Providers, work : Works \cup {NoWork}]

WorkPhase == {"none", "claimed", "queued", "executing", "catching-up", "available"}
NoOwner   == [phase |-> "none"]
OwnedWork == [phase : WorkPhase, owner : Agents]
NoEdit    == [active |-> FALSE, agents |-> {}, waiting |-> {}]

Leased      == {r \in Runs : run[r].pc # "idle"}
LeasedIn(m) == {r \in Leased : run[r].room = m}
LeasedBy(p) == {r \in Leased : run[r].provider = p}
Tracked     == generations \cup reservations

TypeOK ==
    /\ run \in [Runs -> {IdleRun} \cup LiveRun]
    /\ generations \subseteq Runs
    /\ reservations \subseteq Runs
    /\ globalActive \in Int
    /\ roomActive \in [Rooms -> Int]
    /\ providerActive \in [Providers -> Int]
    /\ owners \in [Agents -> Works \cup {NoWork}]
    /\ work \in [Works -> {NoOwner} \cup OwnedWork]
    /\ clearing \in [active : BOOLEAN, agents : SUBSET Agents, waiting : SUBSET Runs]

Init ==
    /\ run = [r \in Runs |-> IdleRun]
    /\ generations = {}
    /\ reservations = {}
    /\ globalActive = 0
    /\ roomActive = [m \in Rooms |-> 0]
    /\ providerActive = [p \in Providers |-> 0]
    /\ owners = [a \in Agents |-> NoWork]
    /\ work = [w \in Works |-> NoOwner]
    /\ clearing = NoEdit

-----------------------------------------------------------------------------
(* Definitions named ..._bug are the mistakes the properties must reveal;   *)
(* no action uses them.                                                    *)
Allows_bug(a, w) == TRUE                              \* dispatch ignores protected work

(* ParticipantReservations.allows and ActiveGenerationTracker.hasAgent.    *)
Allows(a, w) == owners[a] \in {NoWork, w}
HasAgent(a)  == \E r \in Tracked : run[r].agent = a

CapacityAvailable_bug(m, p) ==                        \* off by one at the limit
    roomActive[m] <= PerRoomLimit /\ globalActive <= GlobalLimit

CapacityAvailable(m, p) ==
    /\ roomActive[m] < PerRoomLimit
    /\ globalActive < GlobalLimit
    /\ providerActive[p] < ProviderLimit[p]

(* RoomGenerationCapacity.reserve, and the release closure it returns.     *)
TakeCapacity(m, p) ==
    /\ globalActive' = globalActive + 1
    /\ roomActive' = [roomActive EXCEPT ![m] = @ + 1]
    /\ providerActive' = [providerActive EXCEPT ![p] = @ + 1]

GiveCapacity(m, p) ==
    /\ globalActive' = globalActive - 1
    /\ roomActive' = [roomActive EXCEPT ![m] = @ - 1]
    /\ providerActive' = [providerActive EXCEPT ![p] = @ - 1]

(* reserveCanonicalGeneration(agent, protectedWorkId): refused while       *)
(* protected work holds the participant, when no capacity is left, or when *)
(* the tracker is full or already knows the participant.  The return of    *)
(* protected work w is the one run that passes w.                          *)
Reserve(r, a, p, w) ==
    /\ run[r] = IdleRun
    /\ w # NoWork => work[w] = [phase |-> "catching-up", owner |-> a]
    /\ Allows(a, w)
    /\ CapacityAvailable(Canonical, p)
    /\ Cardinality(generations) + Cardinality(reservations) < AgentConcurrency
    /\ ~HasAgent(a)
    /\ run' = [run EXCEPT ![r] = [pc |-> "reserved", room |-> Canonical,
                                  agent |-> a, provider |-> p, work |-> w]]
    /\ reservations' = reservations \cup {r}
    /\ TakeCapacity(Canonical, p)
    /\ UNCHANGED <<generations, protectVars, clearing>>

MoveTo(r, pc) == run' = [run EXCEPT ![r].pc = pc]

(* onGenerationStart: lease.activate(generationId).  A reservation that a  *)
(* roster edit cleared meanwhile refuses, and runAgent throws              *)
(* AgentGenerationCancelledError before any process exists.                *)
Activate(r) ==
    /\ run[r].pc = "reserved"
    /\ IF r \in reservations
         THEN /\ MoveTo(r, "activated")
              /\ generations' = generations \cup {r}
              /\ reservations' = reservations \ {r}
         ELSE /\ MoveTo(r, "ended")
              /\ UNCHANGED trackerVars
    /\ UNCHANGED <<capacityVars, protectVars, clearing>>

(* lifecycle.start after the await of onGenerationStart: a no-op while the *)
(* generation is tracked, an insertion when it was cleared in between.     *)
LifecycleStart(r) ==
    /\ run[r].pc = "activated"
    /\ MoveTo(r, "started")
    /\ generations' = generations \cup {r}
    /\ UNCHANGED <<reservations, capacityVars, protectVars, clearing>>

Spawn(r) ==
    /\ run[r].pc = "started"
    /\ MoveTo(r, "running")
    /\ UNCHANGED <<trackerVars, capacityVars, protectVars, clearing>>

(* runAgent settles: a failure before the start, the end of the child, or  *)
(* its termination; the finally of runAgent calls lifecycle.finish.        *)
Settle(r) ==
    /\ run[r].pc \in {"reserved", "started", "running"}
    /\ MoveTo(r, "ended")
    /\ generations' = generations \ {r}
    /\ clearing' = [clearing EXCEPT !.waiting = @ \ {r}]
    /\ UNCHANGED <<reservations, capacityVars, protectVars>>

Release_stuck(r) ==                                   \* release only what was never activated
    /\ run[r].pc = "ended" /\ r \in reservations
    /\ run' = [run EXCEPT ![r] = IdleRun]
    /\ reservations' = reservations \ {r}
    /\ GiveCapacity(Canonical, run[r].provider)
    /\ UNCHANGED <<generations, protectVars, clearing>>

(* sharedReservation.release() in the caller's finally.                    *)
Release(r) ==
    /\ run[r].pc = "ended"
    /\ run' = [run EXCEPT ![r] = IdleRun]
    /\ reservations' = reservations \ {r}
    /\ GiveCapacity(Canonical, run[r].provider)
    /\ UNCHANGED <<generations, protectVars, clearing>>

(* The timer armed by ActiveGenerationTracker.start.                       *)
GenerationTimeout(r) ==
    /\ r \in generations
    /\ run[r].agent \in SlowAgents
    /\ generations' = generations \ {r}
    /\ UNCHANGED <<run, reservations, capacityVars, protectVars, clearing>>

-----------------------------------------------------------------------------
(* RoomRuntimeRegistry.reserve and its release, for the other rooms.       *)
RegistryReserve(r, m, a, p) ==
    /\ run[r] = IdleRun
    /\ \A s \in LeasedIn(m) : run[s].agent # a
    /\ CapacityAvailable(m, p)
    /\ run' = [run EXCEPT ![r] = [pc |-> "leased", room |-> m, agent |-> a,
                                  provider |-> p, work |-> NoWork]]
    /\ TakeCapacity(m, p)
    /\ UNCHANGED <<trackerVars, protectVars, clearing>>

RegistryRelease(r) ==
    /\ run[r].pc = "leased"
    /\ run' = [run EXCEPT ![r] = IdleRun]
    /\ GiveCapacity(run[r].room, run[r].provider)
    /\ UNCHANGED <<trackerVars, protectVars, clearing>>

-----------------------------------------------------------------------------
(* PUT of the roster: the new roster is stored, then terminateScope awaits  *)
(* the end of the children of the invalidated participants that exist at   *)
(* that moment.                                                            *)
EditRoster(S) ==
    /\ ~clearing.active
    /\ clearing' = [active |-> TRUE, agents |-> S,
                    waiting |-> {r \in Runs : /\ run[r].pc = "running"
                                              /\ run[r].agent \in S}]
    /\ UNCHANGED <<run, trackerVars, capacityVars, protectVars>>

(* ... and then clearAgent forgets everything tracked for them.            *)
ClearAgents ==
    /\ clearing.active
    /\ clearing.waiting = {}
    /\ LET kept(T) == {r \in T : run[r].agent \notin clearing.agents}
       IN /\ generations' = kept(generations)
          /\ reservations' = kept(reservations)
    /\ clearing' = NoEdit
    /\ UNCHANGED <<run, capacityVars, protectVars>>

-----------------------------------------------------------------------------
(* ProtectedWorkService.admit: the synchronous claim, the durable record,  *)
(* the investigation it requests, and the ways an admission is undone.     *)
Claim(w, a) ==
    /\ work[w] = NoOwner
    /\ owners[a] = NoWork
    /\ ~HasAgent(a)
    /\ owners' = [owners EXCEPT ![a] = w]
    /\ work' = [work EXCEPT ![w] = [phase |-> "claimed", owner |-> a]]
    /\ UNCHANGED <<run, trackerVars, capacityVars, clearing>>

WorkStep(w, from, to) ==
    /\ work[w].phase \in from
    /\ work' = [work EXCEPT ![w].phase = to]
    /\ UNCHANGED <<run, trackerVars, capacityVars, clearing>>

RecordWork(w)   == WorkStep(w, {"claimed"}, "queued") /\ UNCHANGED owners
DispatchWork(w) == WorkStep(w, {"queued"}, "executing") /\ UNCHANGED owners
WorkStopped(w)  == WorkStep(w, {"queued", "executing"}, "catching-up") /\ UNCHANGED owners

ReleaseOwner(w) ==
    owners' = [a \in Agents |-> IF /\ a = work[w].owner
                                   /\ owners[a] = w THEN NoWork ELSE owners[a]]

(* A put that fails releases the claim; the tick recovers a record without *)
(* a worker; the return ends the work.                                     *)
AdmissionFails(w) ==
    /\ work[w].phase = "claimed"
    /\ ReleaseOwner(w)
    /\ work' = [work EXCEPT ![w] = NoOwner]
    /\ UNCHANGED <<run, trackerVars, capacityVars, clearing>>

WorkAvailable(w) ==
    /\ WorkStep(w, {"queued", "catching-up"}, "available")
    /\ ReleaseOwner(w)

(* The process dies: children, tracker and capacity are gone, and          *)
(* initialize restores one reservation per record that is not available.   *)
HeldBy(a) == {w \in Works : /\ work[w].phase \in {"queued", "executing", "catching-up"}
                            /\ work[w].owner = a}

Restart ==
    /\ run' = [r \in Runs |-> IdleRun]
    /\ generations' = {}
    /\ reservations' = {}
    /\ globalActive' = 0
    /\ roomActive' = [m \in Rooms |-> 0]
    /\ providerActive' = [p \in Providers |-> 0]
    /\ work' = [w \in Works |-> IF work[w].phase = "claimed" THEN NoOwner ELSE work[w]]
    /\ owners' = [a \in Agents |-> IF HeldBy(a) = {} THEN NoWork
                                    ELSE CHOOSE w \in HeldBy(a) : TRUE]
    /\ clearing' = NoEdit

-----------------------------------------------------------------------------
RunStep(r) ==
    \/ \E a \in Agents, p \in Providers, w \in Works \cup {NoWork} : Reserve(r, a, p, w)
    \/ Activate(r)
    \/ LifecycleStart(r)
    \/ Spawn(r)
    \/ Settle(r)
    \/ Release(r)
    \/ GenerationTimeout(r)
    \/ \E m \in OtherRooms, a \in Agents, p \in Providers : RegistryReserve(r, m, a, p)
    \/ RegistryRelease(r)

ProtectedStep(w) ==
    \/ \E a \in Agents : Claim(w, a)
    \/ RecordWork(w)
    \/ DispatchWork(w)
    \/ WorkStopped(w)
    \/ AdmissionFails(w)
    \/ WorkAvailable(w)

Next ==
    \/ \E r \in Runs : RunStep(r)
    \/ \E w \in Works : ProtectedStep(w)
    \/ \E S \in SUBSET EditedAgents : EditRoster(S)
    \/ ClearAgents
    \/ Restart

Spec == Init /\ [][Next]_vars

(* Every await of a run settles: the supervisor's timeout ends a child that *)
(* hangs, and the finally blocks then run.                                 *)
RunEnds(r) == Activate(r) \/ LifecycleStart(r) \/ Settle(r) \/ Release(r) \/ RegistryRelease(r)
FairSpec == Spec /\ \A r \in Runs : WF_vars(RunEnds(r))

-----------------------------------------------------------------------------
(* Every counter of RoomGenerationCapacity equals the number of leases that *)
(* are out: no path of a run -- refusal, failure, cancelled activation,    *)
(* timeout, roster edit -- leaks a unit or returns one twice.              *)
CapacityLedger ==
    /\ globalActive = Cardinality(Leased)
    /\ \A m \in Rooms : roomActive[m] = Cardinality(LeasedIn(m))
    /\ \A p \in Providers : providerActive[p] = Cardinality(LeasedBy(p))

(* The child processes alive never exceed the limits of the room, of the   *)
(* process and of their provider, although the tracker may have forgotten  *)
(* some of them (timer, roster edit) and admits new runs meanwhile.        *)
Processes == {r \in Runs : run[r].pc = "running"}
ProcessesWithinLimits ==
    /\ Cardinality(Processes) <= PerRoomLimit
    /\ Cardinality(Processes) <= GlobalLimit
    /\ \A p \in Providers :
         Cardinality({r \in Processes : run[r].provider = p}) <= ProviderLimit[p]

(* What the room shows as typing (activeGenerations.snapshot) and what     *)
(* blocks a participant is always a run that is still alive; a reservation *)
(* never outlives its run, and never coexists with its own generation.     *)
NoPhantomGeneration ==
    /\ \A r \in generations : run[r].pc \in {"activated", "started", "running"}
    /\ \A r \in reservations : run[r].pc \in {"reserved", "ended"}

(* The participants of whom neither the timer nor a roster edit makes the  *)
(* tracker forget a live run.                                              *)
Steady == Agents \ (SlowAgents \cup EditedAgents)

(* A steady participant never has two provider processes at once, whatever *)
(* the tracker forgets of the others.                                      *)
Executing(r) == run[r].pc = "running"
OneProcessPerAgent ==
    \A r, s \in Runs :
        (Executing(r) /\ Executing(s) /\ r # s /\ run[r].agent = run[s].agent)
            => run[r].agent \notin Steady

(* Foreground: a run that is not the return of the work.                   *)
Beside(r, w) ==
    /\ work[w].phase = "executing" /\ Executing(r)
    /\ run[r].work = NoWork /\ run[r].agent = work[w].owner

(* docs/planning/154-protected-participation.md: existing foreground       *)
(* execution must finish or be explicitly stopped before protected         *)
(* execution begins.  It holds of the steady participants; a roster edit   *)
(* or the timer lets the process of another one go on unseen.              *)
ForegroundEndsFirstTracked ==
    \A r \in Runs, w \in Works : Beside(r, w) => work[w].owner \notin Steady

(* A steady participant executes one thing at a time, foreground or        *)
(* protected, whatever the tracker forgets of the others.                  *)
ExclusiveExecution == OneProcessPerAgent /\ ForegroundEndsFirstTracked

(* While protected work holds its participant (it is recorded and not yet  *)
(* available), the reservation is there, so no foreground run of the       *)
(* participant can be admitted, also after a restart.                      *)
WorkKeepsReservation ==
    \A w \in Works : work[w].phase \in {"claimed", "queued", "executing", "catching-up"}
                       => owners[work[w].owner] = w

(* Every lease comes back: with every await of a run settling, the run's   *)
(* slot is free again later, whatever cleared or cancelled it.             *)
LeaseReturned == \A r \in Runs : (run[r].pc # "idle") ~> (run[r].pc = "idle")
=============================================================================
