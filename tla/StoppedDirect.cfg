SPECIFICATION Spec
CONSTANTS
  d1 = d1
  d2 = d2
  a = a
  b = b
  c = c
  p1 = p1
  p2 = p2
  Daemons = {d1}
  Runs = {b}
  Direct = {b}
  Plans = {p1, p2}
  PlanOf <- SharedPlan
  SourceOf <- NoSources
  Limit = 1
  MaxReservations = 1
  MaxNonces = 1
  MaxFaults = 1
  Lookers = {d1}
  Unscoped = TRUE
  NoRun = NoRun
  NoProcess = NoProcess
  NoReservation = NoReservation
  Unlocked = Unlocked
INVARIANTS
  SlotKeptUntilInactive
CHECK_DEADLOCK FALSE
