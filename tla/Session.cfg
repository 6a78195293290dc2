SPECIFICATION FairSpec
CONSTANTS
  Player = {me, p1}
  Me = me
  Word = {a, b}
  DefaultWord = GusPlayer
  None = None
  MaxChanges = 1
  MaxWire = 1
INVARIANTS MirrorAgrees ScoresAgree NameIsCarried
PROPERTIES PlayersAreShown
CHECK_DEADLOCK FALSE
