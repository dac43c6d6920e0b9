SPECIFICATION IoSpec
CONSTANTS
  NULL = NULL
  Node = {main, idle, init, p1, p2, qlock, prod, cons, ready}
  Thread = {main, idle, init, p1, p2}
  Sem = {qlock, prod, cons}
  Lock = {qlock}
  thread_ready_list = ready
  main_thread = main
  idle_thread = idle
  init_process = init
  Priority <- MCPriority
  Nests <- MCNests
  MaxRepeat = 1
  queue_lock = qlock
  producer_waiting_list = prod
  consumor_waiting_list = cons
  size = 4
  PG_SIZE = 6
  HEADER = 2
  Counts = {1, 2}
INVARIANTS
  SleepersMustWait
  NoStandoff
PROPERTY
  ImplementsFifo
SYMMETRY
  MCSymmetry
