SPECIFICATION Spec
CONSTANTS
  Entries = {e1, e2}
  None = None
  Callers = {"run"}
  Failing = {"plain"}
  MaxSeq = 3
  MaxFaults = 1
  MaxCrashes = 0
INVARIANT
    ConsecutiveSequences
CHECK_DEADLOCK FALSE
