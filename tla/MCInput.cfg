SPECIFICATION Spec
CONSTANTS
  p1 = p1
  p2 = p2
  Process = {p1, p2}
  Idle = idle
  Reads <- ReadsDef
  Polls <- PollsDef
  Size <- SizeDef
  Keys <- KeysDef
  Reports <- ReportsDef
  Timeouts = {1}
  Counts = {1}
  Avoid = {"burst"}
  Budgets <- BudgetsDef
INVARIANTS
  SleepersHaveNothing
  ReadyExact
  RingsDeliver
PROPERTIES
  WaitEnds
CHECK_DEADLOCK FALSE
