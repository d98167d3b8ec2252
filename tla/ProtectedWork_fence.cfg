SPECIFICATION FairSpec
CONSTANTS
    RetryLimit = 1
    MaxProgress = 0
    MaxAttempts = 2
    SaveMayFail = TRUE
    MaxRestarts = 1
    MaxActions = 1
    MaxMessages = 1
    MaxFlips = 2
    MaxBusy = 1
INVARIANTS
    ReservationExact
PROPERTIES
    StopAnswered
    ReturnEndsUnlessStranded
CHECK_DEADLOCK FALSE
