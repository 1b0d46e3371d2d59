SPECIFICATION FairSpec
CHECK_DEADLOCK FALSE
INVARIANTS
  TypeOK
  JobsInOrder
PROPERTIES
  FinishedMeansReleased
  Releases
CONSTANTS
  Jobs = {"user", "release", "ch-public", "spyt-environment"}
  BackoffLimit = 1
  MaxFailures = 2
  MaxEdits = 1
  MaxStops = 1
  MaxFaults = 1
