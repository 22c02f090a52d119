SPECIFICATION FairSpec
CONSTANTS
  c1 = c1
  c2 = c2
  web = web
  data = data
  app = app
  bridge = bridge
  dir = dir
  Ctrs = {c1}
  Clients = {r1, r2}
  Main = main
  NoCtr = NoCtr
  NetOf <- RivalNet
  MainNet = zylo0
  NoNet = NoNet
  PortOf <- RivalPort
  NoPort = NoPort
  VolOf <- RivalVol
  NoVol = NoVol
  NameOf <- RivalName
  NoName = NoName
  PathOf <- SamePath
  HostMax = 3
  Faults = {}
  MaxCrashes = 1
PROPERTIES
  DownCompletes
  ReapedIsReclaimed
CHECK_DEADLOCK FALSE
