SPECIFICATION FairSpec
CONSTANTS
  server = server
  owner = owner
  p1 = p1
  Server = server
  Owner = owner
  Proxies = {p1}
  MaxWeapons = 2
  Slot = 1
  MaxAmmo = 2
  ReloadTime = 1
  ShotUse = 2
  SyncShot = TRUE
  SyncReload = TRUE
  MaxInFlight = 1
INVARIANTS
  ReloadingIsEmpty
  CopiesAgree
  ReleaseReachesAll
PROPERTIES
  OwnerRecovers
