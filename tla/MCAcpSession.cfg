CONSTANTS
    Kinds = {"text", "term", "plan"}
    Capacity = 2
    MaxBatch = 2
    MaxQueue = 2
    MaxSeq = 3
    MaxRuns = 2
    MaxChanges = 2
    MaxDrops = 1
CHECK_DEADLOCK FALSE
SPECIFICATION Spec
INVARIANTS
    
    QuietIsCurrent
    AnswersInOrder
PROPERTIES
    Settles
