SPECIFICATION IdeFairSpec
CONSTANTS
  NULL = NULL
  Node = {main, idle, init, p1, chan, done, ready}
  Thread = {main, idle, init, p1}
  Sem = {chan, done}
  Lock = {chan}
  thread_ready_list = ready
  main_thread = main
  idle_thread = idle
  init_process = init
  Priority <- MCPriority
  Nests <- MCNests
  MaxRepeat = 1
  channel = chan
  disk_done = done
  SectorCount = 2
  TimeLimit = 3
  SleepTicks = 2
  Faulty = TRUE
INVARIANTS
  QueuesExact
  OwnData
  NoStaleSignal
PROPERTY
  OwnerFinishes
CHECK_DEADLOCK FALSE
