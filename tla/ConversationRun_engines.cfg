SPECIFICATION FairRunSpec
CONSTANTS
    a1 = a1
    a2 = a2
    a3 = a3
    a4 = a4
    Agents = {a1, a2, a3, a4}
    Options <- MCOptions
    Runs <- MCRuns
    MaxMentions = 1
    DirectMentions = 2
INVARIANTS
    WithinPolicy
    NamedAreAsked
    NothingInFlight
PROPERTIES
    StartsWhatItMay
    RunEnds
CHECK_DEADLOCK FALSE
