CONSTANTS
    Prompts = {p1}
    Submissions = {s1}
    Messages = {}
    Client = Client
    None = None
    MaxTurns = 2
    MaxRuns = 2
    MaxReopens = 1
    MaxStops = 2
    MaxFaults = 1
CHECK_DEADLOCK FALSE
SPECIFICATION LiveSpec
INVARIANTS
    HistoryOnce
    WithdrawnIsFinal
    InsertedNotLost
    NoStrandedWaiter
    SuccessEmptiesQueue
PROPERTIES
    WaiterEventuallyTold
