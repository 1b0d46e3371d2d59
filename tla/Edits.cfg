SPECIFICATION Spec
INVARIANTS
  CellsInvariant
  ProgressInvariant
PROPERTIES
  ProgressIsKept
  ImplementsProtocol
CONSTANTS
  m = m
  hp = hp
  tn = tn
  s = s
  qt = qt
  yc = yc
  b1 = b1
  p1 = p1
  p2 = p2
  Components = {m, hp, tn}
  Masters = {m}
  TabletNodes = {tn}
  ExecNodes = {}
  Master = m
  HttpProxy = hp
  Scheduler = s
  QueryTracker = qt
  Client = yc
  Order <- MCOrder
  Bundles = {b1}
  Cells <- MCCells
  Peers = {p1, p2}
  JobsLinger = FALSE
  ImageEdits = {{m, hp, tn}}
  ConfigEdits = {}
  Selectors = {"Unspecified"}
  FullUpdates = {TRUE}
  MaxCells = 2
  MaxVersion = 1
  MaxReplicas = 2
  MaxEdits = 2
  MaxFaults = 1
