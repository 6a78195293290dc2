SPECIFICATION Spec
CONSTANTS
  Text <- Pieces
  Heads <- HeadsOfLines
  Bodies <- Data
  OutLen = 2
  TimeOut = 1
INVARIANTS
  WellFormedIsAccepted
CHECK_DEADLOCK FALSE
