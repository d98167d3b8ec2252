SPECIFICATION FairSpec
CONSTANTS
    AssignmentCount = 2
    a1 = a1
    Agents <- MCAgents
    Agent <- MCAgent
    JobCount = 2
    RetryLimit = 1
    InboxLimit = 1
    MaxEvents = 2
CHECK_DEADLOCK FALSE
INVARIANTS
    OneWriter OneExecutor InboxMatches
PROPERTIES
    FencedDoesNotLand JobsSettle
