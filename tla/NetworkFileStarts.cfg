SPECIFICATION Spec
CONSTANTS
  c1 = c1
  c2 = c2
  c3 = c3
  Ctrs = {c1, c2, c3}
  Main = main
  LengthOf <- Lengths
  Unnamed <- Nameless
  NameIn <- Names
  AddressIn <- Addresses
  HostMax = 3
  MaxOverlap = 3
  MaxCrashes = 2
INVARIANTS
  TypeOK
  AddressesDistinct
  
  HolderIsListed
  StaleNamesReachNoStranger
PROPERTIES
  AddressesAllocated
CHECK_DEADLOCK FALSE
