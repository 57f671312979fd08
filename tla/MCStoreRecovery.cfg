SPECIFICATION Spec
CONSTANTS
  Entries = {e1, e2}
  None = None
  Callers = {"run", "queue", "settings", "rename", "compaction", "tree", "extension"}
  Failing = {"commit", "sync"}
  MaxSeq = 4
  MaxFaults = 1
  MaxCrashes = 1
INVARIANTS
    ReopeningRestores
PROPERTY
    ImplementsDurableLog
SYMMETRY
    Symmetry
\* A log that stops inside a character can never be opened again.
CHECK_DEADLOCK FALSE
