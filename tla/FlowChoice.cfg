SPECIFICATION Spec
INVARIANTS
  SelectorRespected
  FlowProtectsState
  BlockedOnlyByUser
CONSTANTS
  Components = {"Master", "TabletNode1", "TabletNode2", "ExecNode", "Scheduler"}
  Masters = {"Master"}
  TabletNodes = {"TabletNode1", "TabletNode2"}
  ExecNodes = {"ExecNode"}
