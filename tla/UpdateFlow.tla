------------------------------ MODULE UpdateFlow ------------------------------
(***************************************************************************)
(* The decisions of the Ytsaurus controller (controllers/sync.go) as pure  *)
(* operators: which update flow to start (chooseUpdateFlow) and, for each  *)
(* flow, which update state follows (handleEverything, handleStateless,    *)
(* handleMasterOnly, handleTabletNodesOnly).                               *)
(*                                                                         *)
(* A list of component names is a set; the nil list, which the code reads  *)
(* as "every updatable component", is the empty set (both are stored as an *)
(* absent field of the resource).                                          *)
(***************************************************************************)
CONSTANTS
  Components,   \* names of the updatable components of the cluster
  Masters,      \* those of type MasterType
  TabletNodes,  \* those of type TabletNodeType
  ExecNodes     \* those of type ExecNodeType

ASSUME KindsAssumption ==
  /\ Masters \subseteq Components
  /\ TabletNodes \subseteq Components
  /\ ExecNodes \subseteq Components
  /\ Masters \cap TabletNodes = {}
  /\ Masters \cap ExecNodes = {}
  /\ TabletNodes \cap ExecNodes = {}

ClusterState ==
  {"Created", "Initializing", "Running", "Reconfiguration", "Updating",
   "UpdateFinishing", "CancelUpdate"}

UpdateState ==
  {"None", "PossibilityCheck", "ImpossibleToStart",
   "WaitingForSafeModeEnabled", "WaitingForTabletCellsSaving",
   "WaitingForTabletCellsRemovingStart", "WaitingForTabletCellsRemoved",
   "WaitingForSnapshots", "WaitingForPodsRemoval", "WaitingForPodsCreation",
   "WaitingForMasterExitReadOnly", "WaitingForTabletCellsRecovery",
   "WaitingForOpArchiveUpdatingPrepare", "WaitingForOpArchiveUpdate",
   "WaitingForQTStateUpdatingPrepare", "WaitingForQTStateUpdate",
   "WaitingForSafeModeDisabled"}

UpdateCondition ==
  {"HasPossibility", "NoPossibility", "SafeModeEnabled", "TabletCellsSaved",
   "TabletCellsRemovingStarted", "TabletCellsRemoved",
   "SnapshotsMonitoringInfoSaved", "SnapshotsBuildingStarted",
   "SnaphotsSaved", "MasterExitReadOnlyPrepared", "MasterExitedReadOnly",
   "TabletCellsRecovered", "OpArchivePreparedForUpdating",
   "NotNecessaryToUpdateOpArchive", "OpArchiveUpdated",
   "QTStatePreparedForUpdating", "QTStateUpdated", "SafeModeDisabled"}

UpdateSelector ==
  {"Unspecified", "Nothing", "StatelessOnly", "MasterOnly", "TabletNodesOnly",
   "ExecNodesOnly", "Everything"}

Flow == {"NoFlow", "Stateless", "Master", "TabletNodes", "Full"}

-------------------------------------------------------------------------------
(* Choosing the flow.                                                      *)

Proceed(flow, names) == [flow |-> flow, names |-> names, blocked |-> FALSE]

Block == [flow |-> "NoFlow", names |-> {}, blocked |-> TRUE]

\* Mutant: an empty list of components does not block.
ProceedAnyway(flow, names) == Proceed(flow, names)

ProceedWith(flow, names) == IF names = {} THEN Block ELSE Proceed(flow, names)

\* Mutant: only masters count as stateful.
mastersIn(needUpdate) == needUpdate \cap Masters

\* The stateful components among those that need an update.
statefulIn(needUpdate) == needUpdate \cap (Masters \cup TabletNodes)

\* selector and fullEnabled are spec.updateSelector and
\* spec.enableFullUpdate, needUpdate the components with status
\* NeedLocalUpdate (never empty: Sync only calls it for a non-nil list).
chooseUpdateFlow(selector, fullEnabled, needUpdate) ==
  LET stateless == needUpdate \ statefulIn(needUpdate)
      statefulNeedUpdate == statefulIn(needUpdate) # {}
  IN CASE selector = "Unspecified" /\ statefulNeedUpdate ->
            IF fullEnabled THEN Proceed("Full", {}) ELSE Block
       [] selector = "Unspecified" /\ ~statefulNeedUpdate ->
            Proceed("Stateless", needUpdate)
       [] selector = "Everything" ->
            IF statefulNeedUpdate THEN Proceed("Full", {})
                                  ELSE Proceed("Stateless", needUpdate)
       [] selector = "MasterOnly" ->
            ProceedWith("Master", needUpdate \cap Masters)
       [] selector = "TabletNodesOnly" ->
            ProceedWith("TabletNodes", needUpdate \cap TabletNodes)
       [] selector = "ExecNodesOnly" ->
            ProceedWith("Stateless", needUpdate \cap ExecNodes)
       [] selector = "StatelessOnly" -> ProceedWith("Stateless", stateless)
       [] OTHER -> Block

\* Mutant: the list of the update's components is ignored.
IsAnyComponent(names, c) == TRUE

\* names is UpdateStatus.Components of the resource.
IsUpdatingComponent(names, c) == names = {} \/ c \in names

-------------------------------------------------------------------------------
(* Walking a flow. v is the reconciler's copy of the resource, cm what the *)
(* component manager found; next is the update state that is saved, or the *)
(* cluster state CancelUpdate or UpdateFinishing. A handler that saves     *)
(* nothing (its "return nil, nil") has no next.                            *)

Passed(v, state, condition) == v.state = state /\ condition \in v.conditions

checkPossibility(v, possible, next) ==
  /\ v.state = "PossibilityCheck"
  /\ IF "HasPossibility" \in v.conditions
     THEN next = possible
     ELSE "NoPossibility" \in v.conditions /\ next = "ImpossibleToStart"

\* Mutant: the update is canceled while there is something left to sync.
cancelUnsynced(v, cm, next) ==
  /\ v.state = "ImpossibleToStart"
  /\ cm.needSync \/ ~v.spec.enableFullUpdate
  /\ next = "CancelUpdate"

cancelImpossible(v, cm, next) ==
  /\ v.state = "ImpossibleToStart"
  /\ ~cm.needSync \/ ~v.spec.enableFullUpdate
  /\ next = "CancelUpdate"

replacePods(v, cm, created, next) ==
  \/ /\ v.state = "WaitingForPodsRemoval"
     /\ cm.arePodsRemoved
     /\ next = "WaitingForPodsCreation"
  \/ /\ v.state = "WaitingForPodsCreation"
     /\ cm.allReadyOrUpdating
     /\ next = created

\* The operations archive and then the query tracker state; after is the
\* state that follows them.
updateState(v, cm, after, next) ==
  \/ /\ v.state = "WaitingForOpArchiveUpdatingPrepare"
     /\ IF ~cm.needSchedulerUpdate
           \/ "NotNecessaryToUpdateOpArchive" \in v.conditions
        THEN next = "WaitingForQTStateUpdatingPrepare"
        ELSE /\ "OpArchivePreparedForUpdating" \in v.conditions
             /\ next = "WaitingForOpArchiveUpdate"
  \/ /\ Passed(v, "WaitingForOpArchiveUpdate", "OpArchiveUpdated")
     /\ next = "WaitingForQTStateUpdatingPrepare"
  \/ /\ v.state = "WaitingForQTStateUpdatingPrepare"
     /\ IF ~cm.needQueryTrackerUpdate
        THEN next = after
        ELSE /\ "QTStatePreparedForUpdating" \in v.conditions
             /\ next = "WaitingForQTStateUpdate"
  \/ /\ Passed(v, "WaitingForQTStateUpdate", "QTStateUpdated")
     /\ next = after

\* Mutant: the cells are removed without waiting for them to be saved.
removeUnsavedCells(v, removed, next) ==
  \/ /\ v.state = "WaitingForTabletCellsSaving"
     /\ next = "WaitingForTabletCellsRemovingStart"
  \/ /\ Passed(v, "WaitingForTabletCellsRemovingStart",
               "TabletCellsRemovingStarted")
     /\ next = "WaitingForTabletCellsRemoved"
  \/ /\ Passed(v, "WaitingForTabletCellsRemoved", "TabletCellsRemoved")
     /\ next = removed

removeTabletCells(v, removed, next) ==
  \/ /\ Passed(v, "WaitingForTabletCellsSaving", "TabletCellsSaved")
     /\ next = "WaitingForTabletCellsRemovingStart"
  \/ /\ Passed(v, "WaitingForTabletCellsRemovingStart",
               "TabletCellsRemovingStarted")
     /\ next = "WaitingForTabletCellsRemoved"
  \/ /\ Passed(v, "WaitingForTabletCellsRemoved", "TabletCellsRemoved")
     /\ next = removed

handleEverything(v, cm, next) ==
  \/ v.state = "None" /\ next = "PossibilityCheck"
  \/ checkPossibility(v, "WaitingForSafeModeEnabled", next)
  \/ cancelImpossible(v, cm, next)
  \/ /\ Passed(v, "WaitingForSafeModeEnabled", "SafeModeEnabled")
     /\ next = "WaitingForTabletCellsSaving"
  \/ removeTabletCells(v, "WaitingForSnapshots", next)
  \/ /\ Passed(v, "WaitingForSnapshots", "SnaphotsSaved")
     /\ next = "WaitingForPodsRemoval"
  \/ replacePods(v, cm, "WaitingForMasterExitReadOnly", next)
  \/ /\ Passed(v, "WaitingForMasterExitReadOnly", "MasterExitedReadOnly")
     /\ next = "WaitingForTabletCellsRecovery"
  \/ /\ Passed(v, "WaitingForTabletCellsRecovery", "TabletCellsRecovered")
     /\ next = "WaitingForOpArchiveUpdatingPrepare"
  \/ updateState(v, cm, "WaitingForSafeModeDisabled", next)
  \/ /\ Passed(v, "WaitingForSafeModeDisabled", "SafeModeDisabled")
     /\ next = "UpdateFinishing"

handleStateless(v, cm, next) ==
  \/ v.state = "None" /\ next = "WaitingForPodsRemoval"
  \/ replacePods(v, cm, "WaitingForOpArchiveUpdatingPrepare", next)
  \/ updateState(v, cm, "UpdateFinishing", next)

handleMasterOnly(v, cm, next) ==
  \/ v.state = "None" /\ next = "PossibilityCheck"
  \/ checkPossibility(v, "WaitingForSafeModeEnabled", next)
  \/ cancelImpossible(v, cm, next)
  \/ /\ Passed(v, "WaitingForSafeModeEnabled", "SafeModeEnabled")
     /\ next = "WaitingForSnapshots"
  \/ /\ Passed(v, "WaitingForSnapshots", "SnaphotsSaved")
     /\ next = "WaitingForPodsRemoval"
  \/ replacePods(v, cm, "WaitingForMasterExitReadOnly", next)
  \/ /\ Passed(v, "WaitingForMasterExitReadOnly", "MasterExitedReadOnly")
     /\ next = "WaitingForSafeModeDisabled"
  \/ /\ Passed(v, "WaitingForSafeModeDisabled", "SafeModeDisabled")
     /\ next = "UpdateFinishing"

handleTabletNodesOnly(v, cm, next) ==
  \/ v.state = "None" /\ next = "PossibilityCheck"
  \/ checkPossibility(v, "WaitingForTabletCellsSaving", next)
  \/ cancelImpossible(v, cm, next)
  \/ removeTabletCells(v, "WaitingForPodsRemoval", next)
  \/ replacePods(v, cm, "WaitingForTabletCellsRecovery", next)
  \/ /\ Passed(v, "WaitingForTabletCellsRecovery", "TabletCellsRecovered")
     /\ next = "UpdateFinishing"

handleFlow(v, cm, next) ==
  \/ v.flow = "Full" /\ handleEverything(v, cm, next)
  \/ v.flow = "Stateless" /\ handleStateless(v, cm, next)
  \/ v.flow = "Master" /\ handleMasterOnly(v, cm, next)
  \/ v.flow = "TabletNodes" /\ handleTabletNodesOnly(v, cm, next)
===============================================================================
