SPECIFICATION Spec
CONSTANTS
  c1 = c1
  c2 = c2
  c3 = c3
  n1 = n1
  n2 = n2
  Ctrs = {c1, c2, c3}
  Nets = {n1, n2}
  MainNet = zylo0
  Main = main
  NetOf <- Networks
  MaxSubnet = 3
  MaxOverlap = 2
  MaxCrashes = 2
  MaxFaults = 1
INVARIANTS
  TypeOK
  MainSubnetIsOwn
  ContainersKeepNetwork
  
PROPERTIES
  SubnetsAllocated
CHECK_DEADLOCK FALSE
