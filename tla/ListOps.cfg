SPECIFICATION Spec
CONSTANTS
  NULL = NULL
  Tag = {a, b, c, d}
  ListHead = {x, y}
  Node = {a, b, c, d, x, y}
INVARIANTS
  QueriesExact
PROPERTY
  ImplementsSeqLists
