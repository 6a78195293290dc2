SPECIFICATION FairSpec
CONSTANTS
  Object = {o1, o2, o3}
  Worm = {o1, o2}
  Cell = {c1}
  NoCell = NoCell
  Player = {p1, p2}
  None = None
INVARIANTS OnlyStraysDangle 
PROPERTIES MarkedGo
