SPECIFICATION Spec
CONSTANTS
  TVR_BITS = 2
  TVN_BITS = 2
  NOOF_TVECS = 3
  Timer = {t1, t2}
PROPERTY
  ImplementsAlarms
