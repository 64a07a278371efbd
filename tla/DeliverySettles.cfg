SPECIFICATION Spec
CONSTANTS
  a = a
  b = b
  Runs = {a, b}
  Tracked = {a}
  Either = {b}
  Restored = {a}
  Ignored <- MCIgnored
  Granted = TRUE
  Outsiders = FALSE
  MaxTrouble = 1
  Nobody = Nobody
PROPERTIES
  Settles
CHECK_DEADLOCK FALSE
