SPECIFICATION Spec
CONSTANTS
  ZONE_SIZE = 2
  DIRECT = 1
  NZones = 4
  NInodes = 2
  Counts = {1, 2, 3}
  Avoid = {"whole_zone", "crossing_read", "used_table"}
  MaxWrites = 3
INVARIANTS
  ZonesOwned
PROPERTY
  ImplementsFiles
CHECK_DEADLOCK FALSE
