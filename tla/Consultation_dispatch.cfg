SPECIFICATION FairSpec
CONSTANTS
    p1 = p1
    p2 = p2
    Selected <- MCTwo
    DialogueEnabled = TRUE
    TurnLimit = 3
    RoundLimit = 2
    ConcurrencyLimit = 2
    Starts = {s1, s2}
    Replies = {k1}
    MaxRestarts = 1
    MaxCancels = 1
INVARIANTS
    DispatchedOnce
    ArtifactSawEverything
PROPERTIES
    Progress
    TerminalIsFinal
CHECK_DEADLOCK FALSE
