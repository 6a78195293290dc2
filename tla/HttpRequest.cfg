SPECIFICATION FairSpec
CONSTANTS
  Text <- Pieces
  Heads <- HeadsOfLines
  Bodies <- Data
  OutLen = 2
  TimeOut = 1
INVARIANTS
  SuccessIsMeant
  DataIsFromBody
  WholeResponseIsDelivered
PROPERTIES
  RequestEnds
CHECK_DEADLOCK FALSE
