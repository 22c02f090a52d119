SPECIFICATION FairSpec
CONSTANTS
  Queries = {q1, q2}
  web = web
  google = google
  Keys <- Asked
  Known = {web}
  TTL = 1
  None = None
INVARIANTS
  TypeOK
  KnownAreLocal
  
PROPERTIES
  QueriesAreAnswered
