SPECIFICATION Spec
CONSTANTS
  d1 = d1
  d2 = d2
  a = a
  b = b
  c = c
  p1 = p1
  p2 = p2
  Daemons = {d1, d2}
  Runs = {a, b, c}
  Direct = {}
  Plans = {p1, p2}
  PlanOf <- SharedPlan
  SourceOf <- Successors
  Limit = 2
  MaxReservations = 3
  MaxNonces = 3
  MaxFaults = 1
  Lookers = {}
  Unscoped = FALSE
  NoRun = NoRun
  NoProcess = NoProcess
  NoReservation = NoReservation
  Unlocked = Unlocked
SYMMETRY SuccessorSymmetry
INVARIANT
  OneGeneration
CHECK_DEADLOCK FALSE
