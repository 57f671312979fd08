CONSTANTS
  Tools = {"bash", "todo_write", "exit_plan_mode"}
  MaxOps = 2
  MaxTurns = 2
  MaxEvents = 3
  MaxRetries = 1
SPECIFICATION Spec
INVARIANTS
  ReplayShowsTheSame
  NothingLeftOpen
CHECK_DEADLOCK FALSE
