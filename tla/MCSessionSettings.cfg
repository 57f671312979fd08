SPECIFICATION Spec
CONSTANTS
    Names = {"b", "m", "n", "o", "tool_search"}
    SearchTool = "tool_search"
    Reserved = {"tool_search"}
    Delegation = {"b"}
    Builtins <- MCBuiltins
    KernelTools <- MCKernel
    Offers <- MCOffers
    Catalogs <- MCCatalogs
    OldName <- MCOldName
    Size <- MCSize
    Budget = 2
    Rankings <- MCRankings
    Lists <- MCLists
    Models = {"m1", "m2"}
    DefaultModel = "m1"
    Levels = {"low", "high"}
    DefaultLevel = "low"
    Owners <- MCOwners
    OldLogs <- MCOldLogs
    None = None
    MaxChanges = 2
    MaxEvents = 2
CHECK_DEADLOCK FALSE
INVARIANTS
    ReopeningKeepsChoices
PROPERTY
    OffStaysOff
