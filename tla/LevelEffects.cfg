SPECIFICATION FairSpec
CONSTANTS
  IntBits = 32
  Server = server
  Clients = {c1, c2}
  ArrivesAt <- MCArrivesAt
  Dirt <- MCDirt
  spark = spark
  blast = blast
  Effects = {spark, blast}
  Mask <- MCMask
  Positions <- MCPositions
INVARIANTS TypeOK ListMakesLevel NeverAhead CopiesAgree
PROPERTIES HolesArrive
