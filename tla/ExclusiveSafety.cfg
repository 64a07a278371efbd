SPECIFICATION Spec
CONSTANTS
  c1 = c1
  c2 = c2
  c3 = c3
  worker = worker
  light = light
  r1 = r1
  r2 = r2
  Controllers = {c1, c2}
  Routes = {worker, light}
  Resources = {r1, r2}
  ResourceOf <- SplitRoutes
  MaxInvocations = 1
  MaxClaims = 2
  MaxReboots = 0
  MaxEdits = 2
  NoClaim = NoClaim
  NoSample = NoSample
  NoRoute = NoRoute
  NoResource = NoResource
SYMMETRY Symmetry
INVARIANTS
  TypeOK
  ProviderHoldsResource
  AtMostOneProvider
  JournalValid
  ClaimKept
  LaunchedInTurn
PROPERTIES
  ExclusiveUse
  NoOvertaking
CHECK_DEADLOCK FALSE
