SPECIFICATION FairSpec
CONSTANTS
  c1 = c1
  c2 = c2
  c3 = c3
  worker = worker
  light = light
  r1 = r1
  r2 = r2
  Controllers = {c1, c2}
  Routes = {worker}
  Resources = {r1}
  ResourceOf <- OneRoute
  MaxInvocations = 2
  MaxClaims = 2
  MaxReboots = 1
  MaxEdits = 0
  NoClaim = NoClaim
  NoSample = NoSample
  NoRoute = NoRoute
  NoResource = NoResource
PROPERTIES
  NoStarvation
CHECK_DEADLOCK FALSE
