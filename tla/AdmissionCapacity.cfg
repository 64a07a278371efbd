SPECIFICATION Spec
CONSTANTS
  d1 = d1
  d2 = d2
  a = a
  b = b
  c = c
  p1 = p1
  p2 = p2
  Daemons = {d1}
  Runs = {a, b, c}
  Direct = {b, c}
  Plans = {p1, p2}
  PlanOf <- TwoPlans
  SourceOf <- NoSources
  Limit = 1
  MaxReservations = 2
  MaxNonces = 4
  MaxFaults = 2
  Lookers = {d1}
  Unscoped = FALSE
  NoRun = NoRun
  NoProcess = NoProcess
  NoReservation = NoReservation
  Unlocked = Unlocked
INVARIANTS
  TypeOK
  ExecutesUnderReservation
  WithinLimit
  OneRunPerPlan
CHECK_DEADLOCK FALSE
