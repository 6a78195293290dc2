SPECIFICATION FairSpec
CONSTANTS
  Clients = {p1, p2}
  ConnIDs = {c1}
  Levels = {l1, l2}
  Files = {config, material}
  Config = config
  MaxRequests = 1
  MaxLeft = 3
  NoConn = NoConn
  NoFile = NoFile
  NoMap = NoMap
INVARIANTS DoneMeansDelivered PlayingIsWhole
PROPERTIES OneFileAtATime DownloadEnds
