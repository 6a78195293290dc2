SPECIFICATION Spec
CONSTANTS
  server = server
  owner = owner
  p1 = p1
  Server = server
  Owner = owner
  Proxies = {p1}
  MaxWeapons = 2
  Slot = 1
  MaxAmmo = 1
  ReloadTime = 0
  ShotUse = 1
  SyncShot = TRUE
  SyncReload = TRUE
  MaxInFlight = 1
INVARIANTS
  UseAmmoStopsAtZero
