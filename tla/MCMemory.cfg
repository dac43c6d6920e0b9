SPECIFICATION Spec
CONSTANTS
  Proc = {p, q}
  all_pages = 21
  BYTE = 2
  WORD = 64
  UPages = 4
  PT = 2
  PG_SIZE = 4
  HEADER = 1
  block_size <- MCBlockSize
  Sizes = {1, 2, 5}
  Program = {0}
  Avoid = {"unlocked_start", "unlocked_table", "no_table", "inherited_free"}
  MaxCalls = 7
SYMMETRY Symmetry
INVARIANTS
  FramesOwned
  OnlyFailuresLeak
  HeapExact
CHECK_DEADLOCK FALSE

