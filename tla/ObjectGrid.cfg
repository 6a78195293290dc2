SPECIFICATION Spec
CONSTANTS
  Object = {o1, o2, o3}
  LayerCount = 2
  SquaresH = 2
  SquaresV = 1
  Kind <- MCKind
  WormLayer <- MCWormLayer
  NULL = NULL
INVARIANTS AreaFindsAll CountIsLength
PROPERTIES IsObjectSet
SYMMETRY Symmetry
