SPECIFICATION Spec
CONSTANTS
  c1 = c1
  c2 = c2
  c3 = c3
  named = named
  hostA = hostA
  managed = managed
  Ctrs = {c1, c2, c3}
  Clients = {r1}
  VolOf <- SharedVol
  NoName = NoName
  NoPath = NoPath
  DiskFaults = TRUE
  MaxOverlap = 3
INVARIANTS
  TypeOK
  UniqueVolumes
  UsersHaveRun
  NamedUseIsTracked
CHECK_DEADLOCK FALSE
