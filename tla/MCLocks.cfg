SPECIFICATION FairSpec
CONSTANTS
  NULL = NULL
  Node = {main, idle, init, p1, pool, ready}
  Thread = {main, idle, init, p1}
  Sem = {pool}
  Lock = {pool}
  thread_ready_list = ready
  main_thread = main
  idle_thread = idle
  init_process = init
  Priority <- MCPriority
  Nests = {}
  MaxRepeat = 2
INVARIANTS
  NoPanic
  MutualExclusion
  NoLostWakeup
PROPERTIES
  ImplementsLock
  ReadyRuns
  QueuedIsWoken
