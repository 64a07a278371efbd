SPECIFICATION Spec
CONSTANTS
  k1 = k1
  k2 = k2
  h1 = h1
  h2 = h2
  x = x
  Keys = {k1}
  Handlers = {h1, h2}
  Choices = {x}
  None = None
  Drafts <- MCDrafts
  MaxRuns = 2
  MaxEdits = 2
  MaxFaults = 1
INVARIANTS
  TypeOK
  AppliedOnce
  AcceptedSurvives
  ChangesOnce
PROPERTIES
  StopHeard
CHECK_DEADLOCK FALSE
