SPECIFICATION Spec
CONSTANTS
  c1 = c1
  c2 = c2
  Client = {c1, c2}
  ServerRoom = 1
  ClientRoom = 1
  Height = 4
  MouseHeight = 2
  MouseOffset = 1
  MapSize = 2
  Moves <- MovesDef
  Shapes <- ShapesDef
  Targets = {2, 5}
  Avoid = {"restack", "busy_client", "unknown_wid"}
  MaxCalls <- MaxCallsDef
  MaxEvents = 2
INVARIANTS
  ScreenUpToDate
  TopmostGetsEvents
  WindowsAgree
  AnswerUnderWay
PROPERTIES
  OnlyOwners
CHECK_DEADLOCK FALSE
