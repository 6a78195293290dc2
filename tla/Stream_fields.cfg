SPECIFICATION Spec
CONSTANTS
  IntBits = 6
  Bounded <- MCBounded
  MaxCode = 20
  Axis <- MCAxis
  Beyond = 10
  SpeedFine = 4
  MaxSpeed = 127
  MaxFields = 2
INVARIANTS CodesArrive ReadToTheEnd ValuesAreNear
CHECK_DEADLOCK FALSE
