SPECIFICATION FairSpec
CONSTANTS
    openai = openai
    Runs = {r1, r2, r3}
    Agents = {a1, a2}
    Providers = {openai, anthropic}
    Canonical = canonical
    OtherRooms = {side}
    Works = {w1}
    NoWork = noWork
    AgentConcurrency = 2
    PerRoomLimit = 2
    GlobalLimit = 2
    ProviderLimit <- MCProviderLimit
    SlowAgents = {a1}
    EditedAgents = {a1}
INVARIANTS
    ProcessesWithinLimits
    ExclusiveExecution
PROPERTY LeaseReturned
