SPECIFICATION Spec
CONSTANTS
  c1 = c1
  c2 = c2
  c3 = c3
  app = app
  Ctrs = {c1, c2, c3}
  Clients = {r1}
  Main = main
  NameOf <- SharedName
  NoName = NoName
  NoCtr = NoCtr
  MaxOverlap = 3
  MaxCrashes = 1
INVARIANTS
  TypeOK
  UniqueNames
  NoForeignEntries
  NamesExclusive
PROPERTIES
  LoadsAreWhole
  NamesAllocated
CHECK_DEADLOCK FALSE
