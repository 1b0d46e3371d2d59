SPECIFICATION FairSpec
CHECK_DEADLOCK FALSE
INVARIANTS
  TypeOK
  PodsFollowConfig
PROPERTIES
  RunningMeansBuilt
  Converges
CONSTANTS
  Kinds = {"server", "microservice", "remote"}
  MaxVersion = 2
  MaxCount = 2
  MaxEdits = 1
  MaxFaults = 1
