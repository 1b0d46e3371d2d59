SPECIFICATION Spec
INVARIANTS
  MasterExitedMeansWritable
CONSTANTS
  m = m
  hp = hp
  tn = tn
  s = s
  qt = qt
  yc = yc
  b1 = b1
  p1 = p1
  p2 = p2
  Components = {m, hp, tn}
  Masters = {m}
  TabletNodes = {tn}
  ExecNodes = {}
  Master = m
  HttpProxy = hp
  Scheduler = s
  QueryTracker = qt
  Client = yc
  Order <- MCOrder
  Bundles = {b1}
  Cells <- MCCells
  Peers = {p1, p2}
  JobsLinger = TRUE
  ImageEdits = {{m}}
  ConfigEdits = {{m}}
  Selectors = {"MasterOnly"}
  FullUpdates = {TRUE}
  MaxCells = 2
  MaxVersion = 1
  MaxReplicas = 1
  MaxEdits = 2
  MaxFaults = 0
