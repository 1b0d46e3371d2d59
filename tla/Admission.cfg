SPECIFICATION Spec
CHECK_DEADLOCK FALSE
CONSTANTS
  y1 = y1
  y2 = y2
  Names = {y1, y2}
  Words = {"default", "control", "heavy", "cold", "gpu", "hot", "lb", "jobs"}
  Base <- MCBase
  Deviations <- MCDeviations
  MaxChanges = 2
  GiB = 2
SYMMETRY Symmetry
INVARIANTS
  AdmittedMeansConfigurable
  NoObjectIsShared
  AddressesResolve
  MastersFindThemselves
  TransportsAgree
  QuorumsIntersect
  NodesPromiseWhatPodsHave
  LocationsKeepRoom
