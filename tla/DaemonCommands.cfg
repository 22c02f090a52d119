SPECIFICATION Spec
CONSTANTS
  Daemons = {d1, d2, d3}
  Downs = {s1, s2}
  None = None
  Torn = Torn
  MaxKills = 2
INVARIANTS
  TypeOK
  LoneUpTakesOver
  LoneDownStops
PROPERTIES
  LoneUpServes
CHECK_DEADLOCK FALSE
