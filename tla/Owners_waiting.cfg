SPECIFICATION FairSpec
CONSTANTS
  Object = {o1, o2}
  Worm = {o1}
  Cell = {c1}
  NoCell = NoCell
  Player = {p1}
  None = None
INVARIANT RefsAreLive
