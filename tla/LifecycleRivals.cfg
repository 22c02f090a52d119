SPECIFICATION Spec
CONSTANTS
  c1 = c1
  c2 = c2
  web = web
  data = data
  app = app
  bridge = bridge
  dir = dir
  Ctrs = {c1, c2}
  Clients = {r1}
  Main = main
  NoCtr = NoCtr
  NetOf <- RivalNet
  MainNet = zylo0
  NoNet = NoNet
  PortOf <- RivalPort
  NoPort = NoPort
  VolOf <- RivalVol
  NoVol = NoVol
  NameOf <- RivalName
  NoName = NoName
  PathOf <- SamePath
  HostMax = 3
  Faults = {"config", "setup", "logs", "network", "start", "persist", "attach", "rm"}
  MaxCrashes = 2
INVARIANTS
  TypeOK
  
  
  ListedHasRootfs
PROPERTIES
  RecordOutlivesProcess
  
CHECK_DEADLOCK FALSE
