CONSTANTS
    KeepRecent = 2
    Batches <- PlansOrWrite
    Answers <- EveryKind
    Sizes = {1}
    MaxRetries = 1
    TurnLimit = 3
    MaxRuns = 2
    MaxEntries = 7
    MaxEvents = 2
CHECK_DEADLOCK FALSE
SPECIFICATION Spec
INVARIANTS
    LiveContextIsRebuilt
    EveryCallAnswered
    ModeIsTold
    NothingLost
    RetryBudget
    NoStalePlan
