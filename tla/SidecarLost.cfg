SPECIFICATION FairSpec
CHECK_DEADLOCK FALSE
PROPERTIES
  EveryObjectExists
CONSTANTS
  Kinds = {"remote-cri"}
  MaxVersion = 1
  MaxCount = 1
  MaxEdits = 0
  MaxFaults = 1
