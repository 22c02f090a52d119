SPECIFICATION Spec
CONSTANTS
  Ctrs = {c1, c2}
  Pullers = {p1}
  Deleters = {d1}
  Layers = 2
  Absent = Absent
  PullFaults = TRUE
  MaxCrashes = 1
  MaxFetches = 3
INVARIANTS
  TypeOK
PROPERTIES
  
  PublishedIsStable
CHECK_DEADLOCK FALSE
