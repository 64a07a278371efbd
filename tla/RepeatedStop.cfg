SPECIFICATION Spec
CONSTANTS
  k1 = k1
  k2 = k2
  h1 = h1
  h2 = h2
  x = x
  Keys = {k1, k2}
  Handlers = {h1}
  Choices = {x}
  None = None
  Drafts <- MCDrafts
  MaxRuns = 2
  MaxEdits = 0
  MaxFaults = 1
PROPERTIES
  StopAfterTurn
CHECK_DEADLOCK FALSE
