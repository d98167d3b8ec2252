SPECIFICATION FairSpec
CONSTANTS
    Agents = {a1}
    RoomMessages = {h1, h2}
    Continuations = {h2}
    DeveloperMessages = {d1}
    ConcurrencyLimit = 2
    MaxTurns = 1
    MaxBurst = 0
    MaxTopics = 0
    MaxRosterEdits = 0
    MaxActions = 1
    MaxFailures = 2
    MayShutDown = TRUE
PROPERTIES
    EveryMessageConsumed
CHECK_DEADLOCK FALSE
