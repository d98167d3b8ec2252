SPECIFICATION FairSpec
CONSTANTS
    RetryLimit = 1
    MaxProgress = 1
    MaxAttempts = 2
    SaveMayFail = FALSE
    MaxRestarts = 1
    MaxActions = 2
    MaxMessages = 1
    MaxFlips = 1
    MaxBusy = 1
INVARIANTS
    AssessmentsBounded
    WorkerFenced
PROPERTIES
    NothingUndone
    AbsenceKept
CHECK_DEADLOCK FALSE
