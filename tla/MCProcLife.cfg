SPECIFICATION LifeSpec
CONSTANTS
  NULL = NULL
  Node = {main, idle, init, p1, p2, p3, ready}
  Thread = {main, idle, init, p1, p2, p3}
  Sem = {}
  Lock = {}
  thread_ready_list = ready
  main_thread = main
  idle_thread = idle
  init_process = init
  Priority <- MCPriority
  Nests <- MCNests
  MaxRepeat = 1
  ExitStatus = {0, 1}
  MaxPid = 6
SYMMETRY
  MCSymmetry
CHECK_DEADLOCK FALSE
INVARIANTS
  WaitersHaveToWait
PROPERTY
  ImplementsFamily
