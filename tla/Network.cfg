SPECIFICATION FairSpec
CONSTANTS
  c1 = c1
  c2 = c2
  Conn = {c1, c2}
  StateTimeOut = 1
  UpdatePeriod = 1
  RetryDelay = 1
  MapChangeDelay = 2
  MaxRequests = 2
  MaxDownloads = 1
  MaxConnects = 1
  Commands = 3
INVARIANTS
  TypeOK
  DisconnectedIsClean
  ConnCountIsExact
  RetryWhileClosing
  RolesAgree
  RegistrationEnds
PROPERTIES
  KeepsLifecycle
  DisconnectingEnds
  QueuesAreServed
  QuitEnds
