SPECIFICATION FairSpec
CHECK_DEADLOCK FALSE
INVARIANTS
  ScriptsFindWhatTheyNeed
  ConditionsAreTrue
  InitialisationInvariant
PROPERTIES
  RunningMeansInitialised
  ComesUp
CONSTANTS
  Specs <- MCSpecs
  Edits <- MCEdits
  Prompt <- MCPrompt
  MaxEdits = 1
  MaxFaults = 1
