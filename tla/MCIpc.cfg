SPECIFICATION Spec
CONSTANTS
  a = a
  b = b
  c = c
  Proc = {a, b, c}
  ANY_TASK = any
  NO_TASK = no
  INTR_TASK = intr
  PID_0 = zero
  Interrupted = {a}
  MaxSends <- MCSends
  MaxReceives <- MCReceives
INVARIANTS
  NoSendCycle
  ExactlyOnce
PROPERTY
  NoOvertaking
CHECK_DEADLOCK FALSE
