SPECIFICATION Spec
CONSTANTS
    Agents = {a1, a2}
    RoomMessages = {h1}
    Continuations = {}
    DeveloperMessages = {d1}
    ConcurrencyLimit = 2
    MaxTurns = 2
    MaxBurst = 2
    MaxTopics = 1
    MaxRosterEdits = 1
    MaxActions = 0
    MaxFailures = 1
    MayShutDown = FALSE
INVARIANTS
    StoreFollowsDelivery
PROPERTIES
    PostsHeardEveryone
    FailureSilencesPeers
SYMMETRY MCSymmetry
CHECK_DEADLOCK FALSE
