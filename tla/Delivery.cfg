SPECIFICATION Spec
CONSTANTS
  a = a
  b = b
  Runs = {a, b}
  Tracked = {a}
  Either = {b}
  Restored = {}
  Ignored <- MCIgnored
  Granted = TRUE
  Outsiders = TRUE
  MaxTrouble = 1
  Nobody = Nobody
INVARIANTS
  TypeOK
  PublishedIsTrue
  FailureGates
  CodeBeforePlan
  CommitIsOwn
  CompletedIsPublished
PROPERTY
  ReleasesInOrder
CHECK_DEADLOCK FALSE
