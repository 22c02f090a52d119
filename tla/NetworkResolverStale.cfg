SPECIFICATION Spec
CONSTANTS
  c1 = c1
  c2 = c2
  c3 = c3
  n1 = n1
  n2 = n2
  Ctrs = {c1}
  Nets = {n1}
  MainNet = zylo0
  Main = main
  NetOf <- Networks
  MaxSubnet = 2
  MaxOverlap = 1
  MaxCrashes = 0
  MaxFaults = 0
INVARIANTS
  RunningIsResolved
CHECK_DEADLOCK FALSE
