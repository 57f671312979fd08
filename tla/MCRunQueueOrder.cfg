CONSTANTS
    Prompts = {p1, p2, p3}
    Submissions = {}
    Messages = {}
    Client = Client
    None = None
    MaxTurns = 2
    MaxRuns = 1
    MaxReopens = 1
    MaxStops = 0
    MaxFaults = 1
CHECK_DEADLOCK FALSE
SPECIFICATION Spec
SYMMETRY Inputs
INVARIANTS
    LaneOrder
    MemoryMatchesLog
