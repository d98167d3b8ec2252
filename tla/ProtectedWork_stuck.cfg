SPECIFICATION FairSpec
CONSTANTS
    RetryLimit = 1
    MaxProgress = 0
    MaxAttempts = 2
    SaveMayFail = TRUE
    MaxRestarts = 0
    MaxActions = 0
    MaxMessages = 0
    MaxFlips = 0
    MaxBusy = 0
PROPERTIES
    ReturnEnds
CHECK_DEADLOCK FALSE
