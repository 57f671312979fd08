CONSTANTS
    MaxLines = 2
    MaxBytes = 2
    Streams = {out, err}
    Pieces <- MCPieces
    Capacity = 1
    ReadSize = 9
    None = None
    MaxWritten = 3
    MaxFaults = 1
CHECK_DEADLOCK FALSE
SPECIFICATION LiveSpec
INVARIANTS
    OutputIsTail
    NothingDropped
    LiveMatchesStored
    PagesCoverFile
PROPERTIES
    Returns
