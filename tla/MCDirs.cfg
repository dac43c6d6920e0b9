CONSTANTS
  Thread = {m, u}
  KernelThread = {m}
  DirName <- MCDirName
  FileName <- MCFileName
  Path <- MCPath
  PkgPath <- MCPkgPath
  Prefix <- MCPrefix
  Devices <- MCDevices
  NInodes = 6
  NZones = 7
  EPZ = 4
  DIRECT = 2
  TABLE = 1
  MAX_FILE_OPEN = 3
  COUNT = 8
  WORD = 16
  Avoid = {"root_file", "shared_inode", "half_made", "one_dir", "unset_dir", "prefix", "stray_flush"}
  MaxCalls = 3
SPECIFICATION Spec
INVARIANTS
  
  
  DirZonesOwned
  NoDangling
  
CHECK_DEADLOCK FALSE
