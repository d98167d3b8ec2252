SPECIFICATION Spec
CONSTANTS
    Tasks = {t1}
    AgentCount = 2
    ConcurrencyLimit = 2
    Pinnable = {1}
    MaxBurst = 1
    MaxRuns = 2
    MaxUses = 1
    MaxEvents = 1
INVARIANTS
    OneAnswer
CHECK_DEADLOCK FALSE
PROPERTIES
    TasksSettle
    LeasesReturned
