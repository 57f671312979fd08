SPECIFICATION Spec
CONSTANTS
  Entries = {e1, e2}
  None = None
  Callers = {"run", "tree"}
  Failing = {"plain", "commit", "sync"}
  MaxSeq = 5
  MaxFaults = 2
  MaxCrashes = 0
INVARIANTS
    HistoryMatchesStore
PROPERTY
    NavigationOutcomeIsTrue
SYMMETRY
    Symmetry
CHECK_DEADLOCK FALSE
