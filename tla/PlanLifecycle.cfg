SPECIFICATION Spec
CONSTANTS
  ready = ready
  failed = failed
  needs = needs
  x = x
  y = y
  Ready = ready
  Corrections = {failed}
  Contents = {x, y}
  MaxFiles = 2
  MaxOwners = 2
  MaxEdits = 1
  MaxDeaths = 2
  None = None
INVARIANTS
  TypeOK
  MovedIsTrue
PROPERTIES
  NothingLost
  RunKeepsPlan
  MovesFinish
  ShelfMoves
