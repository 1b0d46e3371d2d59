------------------------- MODULE YtsaurusUpdate_proofs -------------------------
(***************************************************************************)
(* Proofs about the update protocol, for any set of components, bundles,   *)
(* peers, versions, edits and faults: type correctness, and that no tablet *)
(* cell is ever forgotten.                                                 *)
(***************************************************************************)
EXTENDS UpdateInvariant, TLAPS

-------------------------------------------------------------------------------
(* Types.                                                                  *)

\* TypeOK becomes inductive with a bound on the listed cells of a bundle.
TypeInv == TypeOK /\ \A b \in Bundles : CellCount(b) <= MaxCells

\* The resource of a cluster that was just brought up is well typed.
LEMMA InitialResourceTyped == InitialResource \in Resource /\ InitialSpec \in Specs
<1>1. InitialSpec \in Specs
  BY UpdateAssumption DEF InitialSpec, Specs, Versions, UpdateSelector
<1> QED
  BY <1>1, UpdateAssumption
  DEF InitialResource, Resource, ClusterState, UpdateState, Flow, Jobs

\* A resource keeps its type when its spec changes.
LEMMA SpecTyped ==
  ASSUME NEW r \in Resource, NEW spec \in Specs
  PROVE [r EXCEPT !.spec = spec] \in Resource
  BY DEF Resource

\* So are the objects of its components.
LEMMA InitialObjectsTyped == InitialObjects \in Objects
  BY UpdateAssumption DEF InitialObjects, Objects, Servers, Jobs, JobState

\* The cluster starts well typed.
LEMMA InitTyped == Init => TypeInv
<1> SUFFICES ASSUME Init PROVE TypeInv
  OBVIOUS
<1>1. cr \in Resource
  <2>1. PICK s \in Selectors, f \in FullUpdates :
          cr = [InitialResource EXCEPT
                  !.spec = [InitialSpec EXCEPT !.selector = s,
                                               !.enableFullUpdate = f]]
    BY Zenon DEF Init
  <2>2. [InitialSpec EXCEPT !.selector = s, !.enableFullUpdate = f] \in Specs
    BY UpdateAssumption, InitialResourceTyped, Zenon DEF Specs
  <2> QED
    BY <2>1, <2>2, SpecTyped, InitialResourceTyped
<1>2. sts \in Servers /\ job \in [Jobs -> JobState]
      /\ jobConfig \in [Jobs -> BOOLEAN]
  BY InitialObjectsTyped DEF Init, Objects
<1>3. pods \in [Components -> PodState] /\ podImage \in Versions
  BY UpdateAssumption DEF Init, PodState, Versions
<1>4. /\ alive \in [Bundles -> 0..MaxCells] /\ dying \in [Bundles -> 0..MaxCells]
      /\ \A b \in Bundles : CellCount(b) <= MaxCells
  BY UpdateAssumption DEF Init, CellCount
<1>5. edits \in 0..MaxEdits /\ faults \in 0..MaxFaults
  BY UpdateAssumption DEF Init
<1> QED
  BY <1>1, <1>2, <1>3, <1>4, <1>5, InitialResourceTyped, InitialObjectsTyped, Zenon
  DEF Init, TypeInv, TypeOK

\* What the reconciler and the components do to their copy keeps its type.
LEMMA CopyTyped ==
  ASSUME NEW v \in Resource
  PROVE /\ \A s \in ClusterState : SaveClusterState(v, s) \in Resource
        /\ \A s \in UpdateState : SaveUpdateState(v, s) \in Resource
        /\ \A f \in Flow, n \in SUBSET Components :
             SaveUpdatingClusterState(v, f, n) \in Resource
        /\ ClearUpdateStatus(v) \in Resource
        /\ \A C \in SUBSET UpdateCondition :
             [v EXCEPT !.conditions = C] \in Resource
        /\ \A B \in [Bundles -> 0..MaxCells] :
             [v EXCEPT !.bundles = B] \in Resource
        /\ \A S \in SUBSET Components : /\ [v EXCEPT !.removing = S] \in Resource
                                        /\ [v EXCEPT !.removed = S] \in Resource
        /\ \A j \in Jobs, s \in {"Unknown", "False", "True"} :
             [v EXCEPT !.jobs[j] = s] \in Resource
<1>1. \A s \in ClusterState : SaveClusterState(v, s) \in Resource
  BY DEF SaveClusterState, Resource
<1>2. \A s \in UpdateState : SaveUpdateState(v, s) \in Resource
  BY DEF SaveUpdateState, Resource
<1>3. \A f \in Flow, n \in SUBSET Components :
        SaveUpdatingClusterState(v, f, n) \in Resource
  <2>1. "Updating" \in ClusterState
    BY DEF ClusterState
  <2> QED
    BY <2>1, Zenon DEF SaveUpdatingClusterState, Resource
<1>4. ClearUpdateStatus(v) \in Resource
  <2>1. "NoFlow" \in Flow /\ [b \in Bundles |-> 0] \in [Bundles -> 0..MaxCells]
    BY UpdateAssumption DEF Flow
  <2> QED
    BY <2>1, Zenon DEF ClearUpdateStatus, Resource
<1>5. /\ \A C \in SUBSET UpdateCondition : [v EXCEPT !.conditions = C] \in Resource
      /\ \A B \in [Bundles -> 0..MaxCells] : [v EXCEPT !.bundles = B] \in Resource
  BY DEF Resource
<1>6. \A S \in SUBSET Components : /\ [v EXCEPT !.removing = S] \in Resource
                                  /\ [v EXCEPT !.removed = S] \in Resource
  BY DEF Resource
<1>7. \A j \in Jobs, s \in {"Unknown", "False", "True"} :
        [v EXCEPT !.jobs[j] = s] \in Resource
  BY DEF Resource
<1> QED
  BY <1>1, <1>2, <1>3, <1>4, <1>5, <1>6, <1>7

\* So does setting a condition.
LEMMA ConditionTyped ==
  ASSUME NEW v \in Resource, NEW x \in UpdateCondition
  PROVE SetCondition(v, x) \in Resource
<1>1. v.conditions \cup {x} \in SUBSET UpdateCondition
  BY DEF Resource
<1> QED
  BY <1>1, CopyTyped DEF SetCondition

\* And so does the dry run of the scheduler.
LEMMA ObservedTyped ==
  ASSUME NEW v \in Resource
  PROVE Observed(v) \in Resource
<1>1. v.conditions \cup {"NotNecessaryToUpdateOpArchive"} \in SUBSET UpdateCondition
  BY DEF Resource, UpdateCondition
<1> QED
  BY <1>1, CopyTyped DEF Observed

\* chooseUpdateFlow returns a flow and names of components.
LEMMA ChoiceTyped ==
  ASSUME NEW selector, NEW full, NEW need \in SUBSET Components
  PROVE LET meta == chooseUpdateFlow(selector, full, need)
        IN /\ meta.flow \in Flow /\ meta.names \in SUBSET Components
           /\ ~meta.blocked => meta.flow # "NoFlow"
  BY DEF chooseUpdateFlow, statefulIn, Proceed, Block, ProceedWith, Flow

\* The decisions of a reconcile.
LEMMA DecideTyped == TypeInv /\ Decide => TypeInv'
<1> SUFFICES ASSUME TypeInv, Decide PROVE TypeInv'
  OBVIOUS
<1> USE DEF TypeInv, TypeOK, vars, resource, reconcile, kube, yt, CellCount
<1>1. CASE Happy
  BY <1>1 DEF Happy
<1>2. ASSUME NEW v \in Resource, NEW at \in {"save", "saveNone"}, Saving(v, at),
             UNCHANGED <<resource, kube, yt, edits, faults>>
      PROVE TypeInv'
  BY <1>2, InitialObjectsTyped DEF Saving
<1>3. CASE StartReconfiguration
  <2>1. SaveClusterState(cache, "Reconfiguration") \in Resource
    BY CopyTyped DEF ClusterState
  <2> QED
    BY <1>2, <1>3, <2>1 DEF StartReconfiguration
<1>4. CASE StartUpdate
  <2> DEFINE need == NewComponentManager(cache, Fetched).needUpdate
             meta == chooseUpdateFlow(cache.spec.selector,
                                      cache.spec.enableFullUpdate, need)
  <2>1. need \in SUBSET Components
    BY DEF NewComponentManager
  <2>2. SaveUpdatingClusterState(cache, meta.flow, meta.names) \in Resource
    BY <2>1, ChoiceTyped, CopyTyped
  <2>3. /\ Saving(SaveUpdatingClusterState(cache, meta.flow, meta.names), "save")
        /\ UNCHANGED <<resource, kube, yt, edits, faults>>
    BY <1>4 DEF StartUpdate
  <2> HIDE DEF meta, need
  <2> QED
    BY <1>2, <2>2, <2>3
<1>5. CASE FinishReconfiguration
  <2>1. SaveClusterState(cache, "Running") \in Resource
    BY CopyTyped DEF ClusterState
  <2> QED
    BY <1>2, <1>5, <2>1 DEF FinishReconfiguration
<1>6. CASE HandleUpdate
  <2>1. PICK next \in UpdateState \cup {"CancelUpdate", "UpdateFinishing"} :
          /\ Saving(IF next \in UpdateState
                    THEN SaveUpdateState(Observed(cache), next)
                    ELSE SaveClusterState(Observed(cache), next), "save")
          /\ UNCHANGED <<resource, kube, yt, edits, faults>>
    BY <1>6 DEF HandleUpdate
  <2>2. {"CancelUpdate", "UpdateFinishing"} \subseteq ClusterState
    BY DEF ClusterState
  <2>3. Observed(cache) \in Resource
    BY ObservedTyped
  <2> QED
    BY <1>2, <2>1, <2>2, <2>3, CopyTyped, Zenon
<1>7. CASE LeaveUpdate
  <2>1. SaveUpdateState(cache, "None") \in Resource
    BY CopyTyped DEF UpdateState
  <2> QED
    BY <1>2, <1>7, <2>1 DEF LeaveUpdate
<1>8. CASE StartWalk
  <2>1. Observed(cache) \in Resource /\ Fetched \in Objects
    BY ObservedTyped DEF Fetched, Objects
  <2> QED
    BY <1>8, <2>1 DEF StartWalk
<1> QED
  BY <1>1, <1>3, <1>4, <1>5, <1>6, <1>7, <1>8 DEF Decide

\* A reconcile that ends leaves a well-typed copy behind.
LEMMA IdleTyped ==
  ASSUME Idle
  PROVE /\ mem' \in Resource /\ memFresh' \in BOOLEAN /\ todo' \in Nat
        /\ pc' \in {"idle", "save", "saveNone", "saveClear", "walk"}
        /\ seen' \in Objects
  BY InitialResourceTyped, InitialObjectsTyped, Zenon DEF Idle

\* Counting a fault keeps the count in its bounds.
LEMMA FaultTyped ==
  ASSUME faults \in 0..MaxFaults, faults < MaxFaults, faults' = faults + 1
  PROVE faults' \in 0..MaxFaults
  BY UpdateAssumption

\* The end of a reconcile, and the informer.
LEMMA SavesTyped == TypeInv /\ (Persist \/ Abort \/ CallFails \/ Deliver) => TypeInv'
<1> SUFFICES ASSUME TypeInv, Persist \/ Abort \/ CallFails \/ Deliver PROVE TypeInv'
  OBVIOUS
<1> USE DEF TypeInv, TypeOK, vars, resource, reconcile, kube, yt, CellCount
<1>1. CASE Persist
  <2>1. [mem EXCEPT !.spec = cr.spec] \in Resource
    BY SpecTyped, Zenon DEF Resource
  <2>2. /\ ClearUpdateStatus(mem) \in Resource
        /\ SaveClusterState(mem, "Running") \in Resource
    BY CopyTyped DEF ClusterState
  <2>3. cr' \in Resource /\ cacheFresh' \in BOOLEAN /\ ran' \subseteq Jobs
    BY <1>1, <2>1, Zenon DEF Persist
  <2>4. mem' \in Resource /\ memFresh' \in BOOLEAN /\ seen' \in Objects
        /\ pc' \in {"idle", "save", "saveNone", "saveClear", "walk"} /\ todo' \in Nat
    <3>1. CASE Idle
      BY <3>1, IdleTyped
    <3>2. CASE ~Idle
      BY <1>1, <2>2, <3>2 DEF Persist
    <3> QED
      BY <3>1, <3>2
  <2> QED
    BY <1>1, <2>3, <2>4 DEF Persist
<1>2. CASE Abort
  <2>1. Idle /\ faults' \in 0..MaxFaults
    BY <1>2, FaultTyped DEF Abort
  <2> QED
    BY <1>2, <2>1, IdleTyped DEF Abort
<1>3. CASE CallFails
  BY <1>3, IdleTyped DEF CallFails
<1>4. CASE Deliver
  BY <1>4 DEF Deliver
<1> QED
  BY <1>1, <1>2, <1>3, <1>4

\* A step of the walk that visits a component.
LEMMA VisitTyped ==
  ASSUME TypeInv, NEW c \in Components, Visit(c) PROVE TypeInv'
<1> USE DEF TypeInv, TypeOK, vars, resource, reconcile, kube, yt, CellCount
<1> DEFINE Deployed(n) == [image |-> mem.spec.image[c],
                           config |-> mem.spec.config[c], replicas |-> n]
<1>1. \A n \in 0..MaxReplicas : [sts EXCEPT ![c] = Deployed(n)] \in Servers
  BY DEF Servers, Resource, Specs, Versions
<1>2. 0 \in 0..MaxReplicas /\ mem.spec.replicas[c] \in 0..MaxReplicas
  BY UpdateAssumption DEF Resource, Specs
<1>3. JobFor(c) \in Jobs /\ "ExitReadOnly" \in Jobs
  BY DEF JobFor, Jobs
<1>4. /\ mem.conditions \in SUBSET UpdateCondition
      /\ mem.removing \in SUBSET Components /\ mem.removed \in SUBSET Components
  BY DEF Resource
<1>5. ASSUME NEW v \in Resource, Visited(v) 
      PROVE /\ mem' \in Resource /\ todo' \in Nat
            /\ UNCHANGED <<pc, memFresh, seen, resource, edits, faults>>
  BY <1>5 DEF Visited
<1>6. CASE Skip(c)
  BY <1>5, <1>6 DEF Skip
<1>7. CASE RemovePods(c)
  BY <1>1, <1>2, <1>4, <1>5, <1>7, CopyTyped, Zenon DEF RemovePods
<1>8. CASE SyncServer(c)
  BY <1>1, <1>2, <1>5, <1>8, Zenon DEF SyncServer
<1>9. CASE CreateJob(c)
  BY <1>3, <1>5, <1>9 DEF CreateJob, JobState
<1>10. CASE CompleteJob(c)
  BY <1>3, <1>5, <1>10, CopyTyped, Zenon DEF CompleteJob
<1>11. ASSUME NEW j \in Jobs, NEW v \in Resource, prepareRestart(j, v),
              UNCHANGED <<sts, pods, podImage, yt>>
       PROVE TypeInv'
  <2>1. job' \in [Jobs -> JobState] /\ jobConfig' \in [Jobs -> BOOLEAN]
    BY <1>11 DEF prepareRestart, JobState
  <2>2. \/ Visited(v)
        \/ Idle /\ UNCHANGED <<resource, edits, faults>>
    BY <1>11 DEF prepareRestart
  <2> QED
    BY <1>5, <1>11, <2>1, <2>2, IdleTyped
<1>12. CASE PrepareRestart(c)
  BY <1>3, <1>11, <1>12, CopyTyped, Zenon DEF PrepareRestart
<1>13. CASE PrepareExit(c)
  <2> DEFINE prepared(v) == SetCondition(v, "MasterExitReadOnlyPrepared")
             reset == [mem EXCEPT !.jobs["ExitReadOnly"] = "False"]
  <2>1. reset \in Resource
    BY <1>3, CopyTyped, Zenon
  <2>2. \A v \in Resource : prepared(v) \in Resource
    BY ConditionTyped DEF UpdateCondition
  <2>3. \/ Visited(prepared(mem)) /\ UNCHANGED <<job, jobConfig>>
        \/ prepareRestart("ExitReadOnly", prepared(reset))
    BY <1>13 DEF PrepareExit
  <2>4. UNCHANGED <<sts, pods, podImage, yt>>
    BY <1>13 DEF PrepareExit
  <2> HIDE DEF prepared, reset
  <2> QED
    BY <1>3, <1>5, <1>11, <2>1, <2>2, <2>3, <2>4
<1>14. CASE Report(c)
  <2>1. (mem.conditions \cup {"MasterExitedReadOnly"})
           \ {"MasterExitReadOnlyPrepared"} \in SUBSET UpdateCondition
    BY <1>4 DEF UpdateCondition
  <2>2. {"OpArchivePreparedForUpdating", "QTStatePreparedForUpdating",
         "OpArchiveUpdated", "QTStateUpdated"} \subseteq UpdateCondition
    BY DEF UpdateCondition
  <2>3. PICK v \in Resource : Visited(v)
    BY <1>14, <2>1, <2>2, CopyTyped, ConditionTyped, Zenon DEF Report
  <2>4. UNCHANGED <<kube, yt>>
    BY <1>14 DEF Report
  <2> QED
    BY <1>5, <2>3, <2>4
<1> QED
  <2> HIDE DEF TypeInv, TypeOK, vars, resource, reconcile, kube, yt, CellCount
  <2> QED
    BY <1>6, <1>7, <1>8, <1>9, <1>10, <1>12, <1>13, <1>14, Zenon DEF Visit

\* A step of the walk that visits the YTsaurus client.
LEMMA ClientTyped == TypeInv /\ (VisitClient \/ NoClient) => TypeInv'
<1> SUFFICES ASSUME TypeInv, VisitClient \/ NoClient PROVE TypeInv'
  OBVIOUS
<1> USE DEF TypeInv, TypeOK, vars, resource, reconcile, kube, yt
<1> DEFINE Cond(x) == SetCondition(mem, x)
<1>1. \A x \in UpdateCondition : Cond(x) \in Resource
  BY ConditionTyped
<1>2. ASSUME NEW v \in Resource, Visited(v)
      PROVE /\ mem' \in Resource /\ todo' \in Nat
            /\ UNCHANGED <<pc, memFresh, seen, resource, edits, faults>>
  BY <1>2 DEF Visited
<1>3. ASSUME Failed
      PROVE /\ mem' \in Resource /\ memFresh' \in BOOLEAN /\ todo' \in Nat
            /\ pc' \in {"idle", "save", "saveNone", "saveClear", "walk"}
            /\ seen' \in Objects /\ faults' \in 0..MaxFaults
            /\ UNCHANGED <<resource, edits>>
  BY <1>3, IdleTyped, FaultTyped DEF Failed
<1>4. CASE SkipClient \/ NoClient
  BY <1>2, <1>4 DEF SkipClient, NoClient, CellCount
<1>5. CASE HandlePossibilityCheck
  <2>1. {"HasPossibility", "NoPossibility"} \subseteq UpdateCondition
    BY DEF UpdateCondition
  <2> QED
    BY <1>1, <1>2, <1>5, <2>1 DEF HandlePossibilityCheck, CellCount
<1>6. CASE EnableSafeMode
  <2>1. "SafeModeEnabled" \in UpdateCondition
    BY DEF UpdateCondition
  <2> QED
    BY <1>1, <1>2, <1>6, <2>1 DEF EnableSafeMode, CellCount
<1>7. CASE GetTabletCells
  <2>1. "TabletCellsSaved" \in UpdateCondition
    BY DEF UpdateCondition
  <2>2. [b \in Bundles |-> CellCount(b)] \in [Bundles -> 0..MaxCells]
    BY UpdateAssumption DEF CellCount
  <2>3. [Cond("TabletCellsSaved")
           EXCEPT !.bundles = [b \in Bundles |-> CellCount(b)]] \in Resource
    BY <1>1, <2>1, <2>2, CopyTyped
  <2>4. Visited([Cond("TabletCellsSaved")
           EXCEPT !.bundles = [b \in Bundles |-> CellCount(b)]])
    BY <1>7 DEF GetTabletCells
  <2>5. UNCHANGED <<kube, yt>>
    BY <1>7 DEF GetTabletCells
  <2>6. /\ mem' \in Resource /\ todo' \in Nat
        /\ UNCHANGED <<pc, memFresh, seen, resource, edits, faults>>
    BY <1>2, <2>3, <2>4
  <2> QED
    BY <2>5, <2>6 DEF CellCount
<1>8. CASE RemoveTabletCells
  <2>1. "TabletCellsRemovingStarted" \in UpdateCondition
    BY DEF UpdateCondition
  <2>2. PICK gone \in [Bundles -> 0..MaxCells] :
          /\ \A b \in Bundles : gone[b] <= alive[b]
          /\ alive' = [b \in Bundles |-> alive[b] - gone[b]]
          /\ dying' = [b \in Bundles |-> dying[b] + gone[b]]
          /\ \/ Visited(Cond("TabletCellsRemovingStarted"))
             \/ Failed
    BY <1>8 DEF RemoveTabletCells
  <2>3. \A b \in Bundles : /\ alive[b] \in Nat /\ dying[b] \in Nat /\ gone[b] \in Nat
                           /\ gone[b] <= alive[b]
                           /\ alive[b] + dying[b] <= MaxCells
    BY <2>2 DEF CellCount
  <2>4. /\ alive' \in [Bundles -> 0..MaxCells] /\ dying' \in [Bundles -> 0..MaxCells]
        /\ \A b \in Bundles : alive'[b] + dying'[b] <= MaxCells
    BY <2>2, <2>3, UpdateAssumption
  <2>5. UNCHANGED <<kube, safeMode, readOnly, snapshots, healthy>>
    BY <1>8 DEF RemoveTabletCells
  <2> QED
    BY <1>1, <1>2, <1>3, <2>1, <2>2, <2>4, <2>5 DEF CellCount
<1>9. CASE AreTabletCellsRemoved
  <2>1. "TabletCellsRemoved" \in UpdateCondition
    BY DEF UpdateCondition
  <2> QED
    BY <1>1, <1>2, <1>9, <2>1 DEF AreTabletCellsRemoved, CellCount
<1>10. CASE StartBuildMasterSnapshots
  <2>1. readOnly' \subseteq Peers /\ UNCHANGED <<kube, safeMode, alive, dying, snapshots, healthy>>
    BY <1>10 DEF StartBuildMasterSnapshots
  <2>2. [mem EXCEPT !.conditions = @ \cup {"SnapshotsMonitoringInfoSaved",
                                          "SnapshotsBuildingStarted"}] \in Resource
    <3>1. mem.conditions \cup {"SnapshotsMonitoringInfoSaved",
                              "SnapshotsBuildingStarted"} \in SUBSET UpdateCondition
      BY DEF Resource, UpdateCondition
    <3> QED
      BY <3>1, CopyTyped, Zenon
  <2>3. \/ Failed
        \/ /\ mem' \in Resource
           /\ UNCHANGED <<pc, todo, memFresh, seen, resource, edits, faults>>
    BY <1>10, <2>2 DEF StartBuildMasterSnapshots
  <2> QED
    BY <1>3, <2>1, <2>3 DEF CellCount
<1>11. CASE AreMasterSnapshotsBuilt
  <2>1. "SnaphotsSaved" \in UpdateCondition
    BY DEF UpdateCondition
  <2> QED
    BY <1>1, <1>2, <1>11, <2>1 DEF AreMasterSnapshotsBuilt, CellCount
<1>12. CASE RecoverTableCells
  <2>1. "TabletCellsRecovered" \in UpdateCondition
    BY DEF UpdateCondition
  <2>2. PICK new \in [Bundles -> 0..MaxCells] :
          /\ \A b \in Bundles : new[b] <= Missing(mem.bundles)[b]
          /\ alive' = [b \in Bundles |-> alive[b] + new[b]]
          /\ \/ Visited(Cond("TabletCellsRecovered"))
             \/ Failed
    BY <1>12 DEF RecoverTableCells
  <2>3. \A b \in Bundles : /\ alive[b] \in Nat /\ dying[b] \in Nat /\ new[b] \in Nat
                           /\ alive[b] + dying[b] + new[b] <= MaxCells
    BY <2>2, UpdateAssumption DEF Missing, CellCount, Resource
  <2>4. /\ alive' \in [Bundles -> 0..MaxCells]
        /\ \A b \in Bundles : alive'[b] + dying[b] <= MaxCells
    BY <2>2, <2>3, UpdateAssumption
  <2>5. UNCHANGED <<kube, safeMode, dying, readOnly, snapshots, healthy>>
    BY <1>12 DEF RecoverTableCells
  <2> QED
    BY <1>1, <1>2, <1>3, <2>1, <2>2, <2>4, <2>5 DEF CellCount
<1>13. CASE DisableSafeMode
  <2>1. "SafeModeDisabled" \in UpdateCondition
    BY DEF UpdateCondition
  <2> QED
    BY <1>1, <1>2, <1>13, <2>1, Zenon DEF DisableSafeMode, CellCount
<1> QED
  BY <1>4, <1>5, <1>6, <1>7, <1>8, <1>9, <1>10, <1>11, <1>12, <1>13, Zenon DEF VisitClient

\* The user, Kubernetes, the cluster.
LEMMA EnvironmentTyped ==
  TypeInv /\ (User \/ Kubernetes \/ Cluster \/ Fault) => TypeInv'
<1> SUFFICES ASSUME TypeInv, User \/ Kubernetes \/ Cluster \/ Fault PROVE TypeInv'
  OBVIOUS
<1> USE DEF TypeInv, TypeOK, vars, resource, reconcile, kube, yt
<1>1. ASSUME NEW spec \in Specs, Edited(spec) PROVE TypeInv'
  <2>1. cr' \in Resource /\ edits' \in 0..MaxEdits
    BY <1>1, SpecTyped, UpdateAssumption DEF Edited
  <2> QED
    BY <1>1, <2>1, Zenon DEF Edited, CellCount
<1>2. cr.spec \in Specs
  BY DEF Resource
<1>3. CASE User
  <2>1. CASE EditImage
    BY <1>1, <1>2, <2>1 DEF EditImage, Specs, Versions
  <2>2. CASE EditConfig
    BY <1>1, <1>2, <2>2 DEF EditConfig, Specs, Versions
  <2>3. CASE EditReplicas
    BY <1>1, <1>2, <2>3 DEF EditReplicas, Specs
  <2>4. CASE EditPolicy
    <3>1. PICK s \in Selectors, f \in FullUpdates :
            Edited([cr.spec EXCEPT !.selector = s, !.enableFullUpdate = f])
      BY <2>4, Zenon DEF EditPolicy
    <3>2. s \in UpdateSelector /\ f \in BOOLEAN
      BY UpdateAssumption
    <3>3. [cr.spec EXCEPT !.selector = s, !.enableFullUpdate = f] \in Specs
      BY <1>2, <3>2, Zenon DEF Specs
    <3> QED
      BY <1>1, <3>1, <3>3
  <2> QED
    BY <1>3, <2>1, <2>2, <2>3, <2>4 DEF User
<1>4. ASSUME NEW c \in Components, PodsStop(c) \/ PodsStart(c) \/ PodsBecomeReady(c)
      PROVE TypeInv'
  <2>1. pods' \in [Components -> PodState]
    BY <1>4 DEF PodsStop, PodsStart, PodsBecomeReady, PodsTo, PodState
  <2>2. podImage' \in Versions
    <3>1. 0 \in 0..MaxVersion /\ sts[c].image \in 0..MaxVersion
      BY UpdateAssumption DEF Servers
    <3> QED
      BY <1>4, <3>1 DEF PodsStop, PodsStart, PodsBecomeReady, Versions
  <2> QED
    BY <1>4, <2>1, <2>2 DEF PodsStop, PodsStart, PodsBecomeReady, CellCount
<1>5. ASSUME NEW c \in Components, PodsFail(c) PROVE TypeInv'
  <2>1. pods' \in [Components -> PodState] /\ faults' \in 0..MaxFaults
    BY <1>5, FaultTyped DEF PodsFail, PodsTo, PodState
  <2> QED
    BY <1>5, <2>1 DEF PodsFail, CellCount
<1>6. ASSUME NEW j \in Jobs, JobRuns(j) \/ JobCollected(j) \/ JobExpires(j)
      PROVE TypeInv'
  <2>1. job' \in [Jobs -> JobState]
    BY <1>6 DEF JobRuns, JobCollected, JobExpires, JobState
  <2>2. ran' \subseteq Jobs /\ readOnly' \subseteq Peers /\ snapshots' \subseteq Peers
    BY <1>6 DEF JobRuns, JobCollected, JobExpires
  <2>3. faults' \in 0..MaxFaults
    BY <1>6, FaultTyped DEF JobRuns, JobCollected, JobExpires
  <2> QED
    BY <1>6, <2>1, <2>2, <2>3 DEF JobRuns, JobCollected, JobExpires, CellCount
<1>7. CASE Cluster
  <2>1. ASSUME NEW b \in Bundles, CellGone(b) PROVE TypeInv'
    <3>1. \A x \in Bundles : /\ alive[x] \in Nat /\ dying[x] \in 0..MaxCells
                             /\ alive[x] + dying[x] <= MaxCells
      BY DEF CellCount
    <3>2. dying' = [dying EXCEPT ![b] = @ - 1] /\ dying[b] > 0 /\ alive' = alive
      BY <2>1 DEF CellGone
    <3>3. /\ dying' \in [Bundles -> 0..MaxCells]
          /\ \A x \in Bundles : alive'[x] + dying'[x] <= MaxCells
      BY <3>1, <3>2, UpdateAssumption
    <3> QED
      BY <2>1, <3>3 DEF CellGone, CellCount
  <2>2. ASSUME NEW p \in Peers, SnapshotBuilt(p) PROVE TypeInv'
    BY <2>2 DEF SnapshotBuilt, CellCount
  <2>3. CASE BecomeHealthy
    BY <2>3 DEF BecomeHealthy, CellCount
  <2> QED
    BY <1>7, <2>1, <2>2, <2>3 DEF Cluster
<1>8. CASE BecomeUnhealthy
  BY <1>8, FaultTyped, Zenon DEF BecomeUnhealthy, CellCount
<1> QED
  <2> HIDE DEF TypeInv, TypeOK, vars, resource, reconcile, kube, yt
  <2>1. CASE Kubernetes
    BY <1>4, <1>6, <2>1, Zenon DEF Kubernetes
  <2>2. CASE Fault
    BY <1>5, <1>8, <2>2, SavesTyped, Zenon DEF Fault
  <2> QED
    BY <1>3, <1>7, <2>1, <2>2, Zenon

\* Every step keeps the types.
LEMMA NextTyped == TypeInv /\ [Next]_vars => TypeInv'
<1> SUFFICES ASSUME TypeInv, [Next]_vars PROVE TypeInv'
  OBVIOUS
<1>1. CASE UNCHANGED vars
  BY <1>1 DEF vars, resource, reconcile, kube, yt, TypeInv, TypeOK, CellCount
<1>2. CASE Next
  BY <1>2, DecideTyped, SavesTyped, VisitTyped, ClientTyped, EnvironmentTyped
  DEF Next, Operator
<1> QED
  BY <1>1, <1>2

\* Every variable keeps its type, and no bundle ever lists more tablet cells
\* than the bound: the copies of the resource, the objects of Kubernetes and
\* the counts of RemoveTabletCells and CreateTabletCells stay in their ranges.
THEOREM TypeCorrect == Spec => []TypeOK
<1>1. Spec => []TypeInv
  BY InitTyped, NextTyped, PTL DEF Spec
<1>2. TypeInv => TypeOK
  BY DEF TypeInv
<1> QED
  BY <1>1, <1>2, PTL

-------------------------------------------------------------------------------
(* Tablet cells: CellsInvariant is inductive.                              *)

\* Statuses that say the same about tablet cells.
Alike(v, w) ==
  /\ v.cluster = w.cluster /\ v.state = w.state /\ v.flow = w.flow
  /\ v.bundles = w.bundles
  /\ \A x \in CellConditions : x \in v.conditions <=> x \in w.conditions

\* The parts of CellsInvariant cannot tell such statuses apart.
LEMMA AlikeFaithful ==
  ASSUME NEW v, NEW w, NEW a, NEW d, Alike(v, w), Faithful(v, a, d)
  PROVE Faithful(w, a, d)
  BY DEF Alike, Faithful, ConditionsInOrder, CellsInPhase, RemovesCells,
         CellConditions

\* Statuses that agree about cells lag behind together.
LEMMA AlikeKeeps ==
  ASSUME NEW v, NEW w, NEW u, Alike(v, w)
  PROVE /\ Keeps(v, u) => Keeps(w, u)
        /\ Keeps(u, v) => Keeps(u, w)
  BY DEF Alike, Keeps, Ongoing, CellConditions

\* A status keeps what it says itself.
LEMMA KeepsItself == \A v : Keeps(v, v)
  BY DEF Keeps, Ongoing

\* Updates of a copy that do not touch what it says about cells.
LEMMA AlikeCopies ==
  ASSUME NEW v \in Resource
  PROVE /\ Alike(v, v)
        /\ \A s : Alike(v, [v EXCEPT !.spec = s])
        /\ \A S : Alike(v, [v EXCEPT !.removing = S])
        /\ \A S : Alike(v, [v EXCEPT !.removed = S])
        /\ \A j, s : Alike(v, [v EXCEPT !.jobs[j] = s])
        /\ \A C : C \cap CellConditions = v.conditions \cap CellConditions =>
                  Alike(v, [v EXCEPT !.conditions = C])
  BY DEF Alike, Resource

\* Nor does a condition about something else.
LEMMA AlikeCondition ==
  ASSUME NEW v \in Resource, NEW x \in UpdateCondition \ CellConditions
  PROVE Alike(v, SetCondition(v, x))
<1>1. (v.conditions \cup {x}) \cap CellConditions = v.conditions \cap CellConditions
  OBVIOUS
<1> QED
  BY <1>1, AlikeCopies DEF SetCondition

\* A reconcile that ends gives up its copy.
LEMMA IdleKeeps ==
  ASSUME CellsInvariant, Idle, UNCHANGED <<cr, cache, cacheFresh, alive, dying>>
  PROVE CellsInvariant'
  BY DEF CellsInvariant, CopiesAgree, Idle, CellCount

\* A step of the walk that says nothing new about cells.
LEMMA WalkKeeps ==
  ASSUME CellsInvariant, pc = "walk", Alike(mem, mem'),
         UNCHANGED <<cr, cache, cacheFresh, memFresh, pc, alive, dying>>
  PROVE CellsInvariant'
<1>1. memFresh => Faithful(mem', alive, dying)
  BY AlikeFaithful DEF CellsInvariant
<1>2. Keeps(mem', cr) /\ (memFresh => Keeps(cr, mem'))
  BY AlikeKeeps DEF CellsInvariant, CopiesAgree
<1> QED
  BY <1>1, <1>2 DEF CellsInvariant, CopiesAgree, CellCount

\* Visits of components with pods are such steps, or end the reconcile.
LEMMA VisitKeeps ==
  ASSUME TypeInv, CellsInvariant, NEW c \in Components, Visit(c)
  PROVE CellsInvariant'
<1> USE DEF resource, kube, yt
<1>1. mem \in Resource
  BY DEF TypeInv, TypeOK
<1>2. pc = "walk" /\ UNCHANGED <<alive, dying>>
  BY DEF Visit, At, Skip, RemovePods, SyncServer, CreateJob, CompleteJob,
         PrepareRestart, PrepareExit, Report
<1>3. ASSUME NEW v, Alike(mem, v), Visited(v) PROVE CellsInvariant'
  BY <1>2, <1>3, WalkKeeps DEF Visited
<1>4. ASSUME NEW j, NEW v, Alike(mem, v), prepareRestart(j, v) PROVE CellsInvariant'
  <2>1. CASE Visited(v)
    BY <1>3, <1>4, <2>1
  <2>2. CASE Idle /\ UNCHANGED <<resource, edits, faults>>
    BY <1>2, <2>2, IdleKeeps
  <2> QED
    BY <1>4, <2>1, <2>2 DEF prepareRestart
<1>5. CASE Skip(c) \/ SyncServer(c) \/ CreateJob(c)
  BY <1>1, <1>3, <1>5, AlikeCopies DEF Skip, SyncServer, CreateJob
<1>6. CASE RemovePods(c)
  <2>1. \/ Visited([mem EXCEPT !.removing = @ \cup {c}])
        \/ Visited([mem EXCEPT !.removed = @ \cup {c}])
        \/ Visited(mem)
    BY <1>6, Zenon DEF RemovePods
  <2> QED
    BY <1>1, <1>3, <2>1, AlikeCopies, Zenon
<1>7. CASE CompleteJob(c)
  BY <1>1, <1>3, <1>7, AlikeCopies DEF CompleteJob
<1>8. CASE PrepareRestart(c)
  BY <1>1, <1>4, <1>8, AlikeCopies, Zenon DEF PrepareRestart
<1>10. CASE PrepareExit(c)
  <2> DEFINE reset == [mem EXCEPT !.jobs["ExitReadOnly"] = "False"]
             prepared(v) == SetCondition(v, "MasterExitReadOnlyPrepared")
  <2>1. reset \in Resource /\ Alike(mem, reset)
    <3>1. "ExitReadOnly" \in Jobs
      BY DEF Jobs
    <3>2. reset \in Resource
      BY <1>1, <3>1, CopyTyped, Zenon
    <3>3. Alike(mem, reset)
      BY <1>1, AlikeCopies
    <3> QED
      BY <3>2, <3>3
  <2>2. \A v \in Resource : Alike(v, prepared(v))
    BY AlikeCondition DEF CellConditions, UpdateCondition
  <2>3. \/ Visited(prepared(mem))
        \/ prepareRestart("ExitReadOnly", prepared(reset))
    BY <1>10 DEF PrepareExit
  <2> HIDE DEF reset, prepared
  <2>4. Alike(mem, prepared(mem)) /\ Alike(mem, prepared(reset))
    BY <1>1, <2>1, <2>2 DEF Alike
  <2> QED
    BY <1>3, <1>4, <2>3, <2>4
<1>11. CASE Report(c)
  <2>1. Alike(mem, [mem EXCEPT !.conditions =
                      (@ \cup {"MasterExitedReadOnly"})
                        \ {"MasterExitReadOnlyPrepared"}])
    <3>1. ((mem.conditions \cup {"MasterExitedReadOnly"})
              \ {"MasterExitReadOnlyPrepared"}) \cap CellConditions
            = mem.conditions \cap CellConditions
      BY DEF CellConditions
    <3> QED
      BY <1>1, <3>1, AlikeCopies
  <2>2. {"OpArchivePreparedForUpdating", "QTStatePreparedForUpdating",
         "OpArchiveUpdated", "QTStateUpdated"} \subseteq
          UpdateCondition \ CellConditions
    BY DEF UpdateCondition, CellConditions
  <2> QED
    BY <1>1, <1>3, <1>11, <2>1, <2>2, AlikeCondition DEF Report
<1> QED
  BY <1>5, <1>6, <1>7, <1>8, <1>10, <1>11 DEF Visit

\* So are the visits of the client that have nothing to do with cells.
LEMMA OtherClientKeeps ==
  ASSUME TypeInv, CellsInvariant,
         \/ SkipClient \/ NoClient \/ HandlePossibilityCheck \/ EnableSafeMode
         \/ StartBuildMasterSnapshots \/ AreMasterSnapshotsBuilt
         \/ DisableSafeMode
  PROVE CellsInvariant'
<1> USE DEF resource, kube, yt
<1>1. mem \in Resource
  BY DEF TypeInv, TypeOK
<1>2. pc = "walk" /\ UNCHANGED <<alive, dying>>
  BY DEF SkipClient, NoClient, HandlePossibilityCheck, EnableSafeMode, At, Handling,
         StartBuildMasterSnapshots, AreMasterSnapshotsBuilt, DisableSafeMode
<1>3. ASSUME NEW v, Alike(mem, v), Visited(v) PROVE CellsInvariant'
  BY <1>2, <1>3, WalkKeeps DEF Visited
<1>4. {"HasPossibility", "NoPossibility", "SafeModeEnabled", "SnaphotsSaved",
       "SafeModeDisabled"} \subseteq UpdateCondition \ CellConditions
  BY DEF UpdateCondition, CellConditions
<1>5. CASE SkipClient \/ NoClient
  BY <1>1, <1>3, <1>5, AlikeCopies DEF SkipClient, NoClient
<1>6. CASE HandlePossibilityCheck \/ EnableSafeMode \/ DisableSafeMode
  BY <1>1, <1>3, <1>4, <1>6, AlikeCondition
  DEF HandlePossibilityCheck, EnableSafeMode, DisableSafeMode
<1>7. CASE AreMasterSnapshotsBuilt
  BY <1>1, <1>3, <1>4, <1>7, AlikeCondition, AlikeCopies DEF AreMasterSnapshotsBuilt
<1>8. CASE StartBuildMasterSnapshots
  <2> DEFINE started == [mem EXCEPT !.conditions = @ \cup
                           {"SnapshotsMonitoringInfoSaved",
                            "SnapshotsBuildingStarted"}]
  <2>1. Alike(mem, started)
    <3>1. (mem.conditions \cup {"SnapshotsMonitoringInfoSaved",
                                "SnapshotsBuildingStarted"}) \cap CellConditions
            = mem.conditions \cap CellConditions
      BY DEF CellConditions
    <3> QED
      BY <1>1, <3>1, AlikeCopies
  <2>2. \/ Failed
        \/ mem' = started /\ UNCHANGED <<pc, memFresh, resource>>
    BY <1>8 DEF StartBuildMasterSnapshots
  <2> HIDE DEF started
  <2> QED
    BY <1>2, <2>1, <2>2, IdleKeeps, WalkKeeps DEF Failed
<1> QED
  BY <1>5, <1>6, <1>7, <1>8

\* What the visits of the client that deal with cells start from.
LEMMA HandlingCells ==
  ASSUME TypeInv, CellsInvariant, NEW state, NEW condition, Handling(state, condition)
  PROVE /\ pc = "walk" /\ mem \in Resource
        /\ Ongoing(mem, state, condition)
        /\ Keeps(mem, cr) /\ (memFresh => Keeps(cr, mem))
        /\ memFresh => Faithful(mem, alive, dying)
        /\ Faithful(cr, alive, dying)
<1>1. pc = "walk" /\ Ongoing(mem, state, condition)
  BY DEF Handling, At, clientStatus, Ongoing
<1> QED
  BY <1>1 DEF TypeInv, TypeOK, CellsInvariant, CopiesAgree

\* The fields of a copy whose conditions change.
LEMMA ConditionFields ==
  ASSUME NEW v \in Resource, NEW x
  PROVE LET w == SetCondition(v, x)
        IN /\ w.cluster = v.cluster /\ w.state = v.state /\ w.flow = v.flow
           /\ w.bundles = v.bundles /\ w.conditions = v.conditions \cup {x}
  BY DEF SetCondition, Resource

\* GetTabletCells saves the counts of a cluster that is intact.
LEMMA GetTabletCellsKeeps ==
  ASSUME TypeInv, CellsInvariant, GetTabletCells
  PROVE CellsInvariant'
<1> DEFINE counts == [b \in Bundles |-> CellCount(b)]
           saved == [SetCondition(mem, "TabletCellsSaved") EXCEPT !.bundles = counts]
<1>1. /\ pc = "walk" /\ mem \in Resource
      /\ Ongoing(mem, "WaitingForTabletCellsSaving", "TabletCellsSaved")
      /\ Keeps(cr, mem) \/ ~memFresh
      /\ memFresh => Faithful(mem, alive, dying)
  BY HandlingCells DEF GetTabletCells
<1>2. /\ mem' = saved
      /\ UNCHANGED <<cr, cache, cacheFresh, memFresh, pc, alive, dying>>
  BY DEF GetTabletCells, Visited, resource, yt
<1>3. /\ saved.cluster = mem.cluster /\ saved.state = mem.state
      /\ saved.flow = mem.flow /\ saved.bundles = counts
      /\ saved.conditions = mem.conditions \cup {"TabletCellsSaved"}
  BY <1>1 DEF SetCondition, Resource
<1>4. memFresh => counts = Cells
  <2>1. memFresh => Intact(alive, dying)
    BY <1>1 DEF Ongoing, Faithful, CellsInPhase, BeforeRemoval
  <2> QED
    BY <2>1, UpdateAssumption DEF Intact, NoCells, CellCount
<1> HIDE DEF saved, counts
<1>5. memFresh => Faithful(saved, alive, dying)
  BY <1>1, <1>3, <1>4
  DEF Ongoing, Faithful, ConditionsInOrder, CellsInPhase, RemovesCells,
      CellConditions, BeforeRemoval, CellStates, AfterRecovery, Removing
<1>6. Keeps(saved, cr) /\ (memFresh => Keeps(cr, saved))
  BY <1>1, <1>3 DEF Keeps, Ongoing
<1> QED
  BY <1>1, <1>2, <1>5, <1>6 DEF CellsInvariant, CopiesAgree, CellCount

\* AreTabletCellsRemoved reports that the cells are gone when none is listed.
LEMMA AreTabletCellsRemovedKeeps ==
  ASSUME TypeInv, CellsInvariant, AreTabletCellsRemoved
  PROVE CellsInvariant'
<1> DEFINE w == SetCondition(mem, "TabletCellsRemoved")
<1>1. /\ pc = "walk" /\ mem \in Resource
      /\ Ongoing(mem, "WaitingForTabletCellsRemoved", "TabletCellsRemoved")
      /\ Keeps(cr, mem) \/ ~memFresh
      /\ memFresh => Faithful(mem, alive, dying)
  BY HandlingCells DEF AreTabletCellsRemoved
<1>2. /\ mem' = IF \A b \in Bundles : CellCount(b) = 0 THEN w ELSE mem
      /\ UNCHANGED <<cr, cache, cacheFresh, memFresh, pc, alive, dying>>
  BY DEF AreTabletCellsRemoved, Visited, resource, yt
<1>3. CASE \A b \in Bundles : CellCount(b) = 0
  <2>1. dying = NoCells
    BY <1>3 DEF TypeInv, TypeOK, CellCount, NoCells
  <2>2. /\ w.cluster = mem.cluster /\ w.state = mem.state /\ w.flow = mem.flow
        /\ w.bundles = mem.bundles
        /\ w.conditions = mem.conditions \cup {"TabletCellsRemoved"}
    BY <1>1, ConditionFields
  <2> HIDE DEF w
  <2>3. memFresh => Faithful(w, alive, dying)
    BY <1>1, <2>1, <2>2
    DEF Ongoing, Faithful, ConditionsInOrder, CellsInPhase, RemovesCells,
        CellConditions, BeforeRemoval, AfterRecovery
  <2>4. Keeps(w, cr) /\ (memFresh => Keeps(cr, w))
    BY <1>1, <2>2 DEF Keeps, Ongoing
  <2> QED
    BY <1>1, <1>2, <1>3, <2>3, <2>4 DEF CellsInvariant, CopiesAgree, CellCount
<1>4. CASE ~\A b \in Bundles : CellCount(b) = 0
  BY <1>1, <1>2, <1>4, WalkKeeps, AlikeCopies
<1> QED
  BY <1>3, <1>4

\* RemoveTabletCells runs only while the stored status says that the cells
\* are being removed, however stale the copy is.
LEMMA RemoveTabletCellsKeeps ==
  ASSUME TypeInv, CellsInvariant, RemoveTabletCells
  PROVE CellsInvariant'
<1> DEFINE w == SetCondition(mem, "TabletCellsRemovingStarted")
<1>1. /\ pc = "walk" /\ mem \in Resource
      /\ Ongoing(mem, "WaitingForTabletCellsRemovingStart",
                 "TabletCellsRemovingStarted")
      /\ Keeps(mem, cr) /\ (memFresh => Keeps(cr, mem))
      /\ memFresh => Faithful(mem, alive, dying)
      /\ Faithful(cr, alive, dying)
  BY HandlingCells DEF RemoveTabletCells
<1>2. PICK gone \in [Bundles -> 0..MaxCells] :
        /\ \A b \in Bundles : gone[b] <= alive[b]
        /\ alive' = [b \in Bundles |-> alive[b] - gone[b]]
        /\ dying' = [b \in Bundles |-> dying[b] + gone[b]]
        /\ (gone = alive /\ Visited(w)) \/ Failed
  BY DEF RemoveTabletCells
<1>3. \A b \in Bundles : alive[b] \in Nat /\ dying[b] \in Nat /\ gone[b] \in Nat
  BY DEF TypeInv, TypeOK
<1>4. \A b \in Bundles : CellCount(b)' <= Cells[b]
  BY <1>2, <1>3 DEF CellsInvariant, CellCount
<1>5. alive = NoCells => alive' = NoCells
  BY <1>2, <1>3 DEF NoCells
<1>6. cr.cluster = "Updating" /\ cr.state = "WaitingForTabletCellsRemovingStart"
  BY <1>1 DEF Keeps
<1>7. Faithful(cr, alive', dying')
  BY <1>1, <1>5, <1>6
  DEF Faithful, CellsInPhase, RemovesCells, BeforeRemoval, AfterRecovery,
      CellStates, Removing
<1>8. CASE gone = alive /\ Visited(w)
  <2>1. alive' = NoCells
    BY <1>2, <1>3, <1>8 DEF NoCells
  <2>2. /\ w.cluster = mem.cluster /\ w.state = mem.state /\ w.flow = mem.flow
        /\ w.bundles = mem.bundles
        /\ w.conditions = mem.conditions \cup {"TabletCellsRemovingStarted"}
    BY <1>1, ConditionFields
  <2>3. mem' = w /\ UNCHANGED <<cr, cache, cacheFresh, memFresh, pc>>
    BY <1>8 DEF Visited, resource
  <2> HIDE DEF w
  <2>4. memFresh => Faithful(w, alive', dying')
    BY <1>1, <2>1, <2>2
    DEF Ongoing, Faithful, ConditionsInOrder, CellsInPhase, RemovesCells,
        CellConditions, BeforeRemoval, AfterRecovery, CellStates, Removing
  <2>5. Keeps(w, cr) /\ (memFresh => Keeps(cr, w))
    BY <1>1, <2>2 DEF Keeps, Ongoing
  <2> QED
    BY <1>1, <1>4, <1>7, <2>3, <2>4, <2>5 DEF CellsInvariant, CopiesAgree
<1>9. CASE Failed
  BY <1>4, <1>7, <1>9 DEF CellsInvariant, CopiesAgree, Failed, Idle, resource
<1> QED
  BY <1>2, <1>8, <1>9

\* RecoverTableCells, likewise, runs only while the stored status says that
\* the cells are to be recovered, with the bundles the stored status saved.
LEMMA RecoverTableCellsKeeps ==
  ASSUME TypeInv, CellsInvariant, RecoverTableCells
  PROVE CellsInvariant'
<1> DEFINE w == SetCondition(mem, "TabletCellsRecovered")
<1>1. /\ pc = "walk" /\ mem \in Resource
      /\ Ongoing(mem, "WaitingForTabletCellsRecovery", "TabletCellsRecovered")
      /\ Keeps(mem, cr) /\ (memFresh => Keeps(cr, mem))
      /\ memFresh => Faithful(mem, alive, dying)
      /\ Faithful(cr, alive, dying)
  BY HandlingCells DEF RecoverTableCells
<1>2. PICK new \in [Bundles -> 0..MaxCells] :
        /\ \A b \in Bundles : new[b] <= Missing(mem.bundles)[b]
        /\ alive' = [b \in Bundles |-> alive[b] + new[b]]
        /\ dying' = dying
        /\ (new = Missing(mem.bundles) /\ Visited(w)) \/ Failed
  BY DEF RecoverTableCells
<1>3. /\ cr.cluster = "Updating" /\ cr.state = "WaitingForTabletCellsRecovery"
      /\ cr.bundles = mem.bundles
  BY <1>1 DEF Keeps
<1>4. mem.bundles = Cells /\ dying = NoCells
  BY <1>1, <1>3 DEF Faithful, CellsInPhase, CellStates, BeforeRemoval, AfterRecovery
<1>5. \A b \in Bundles :
        /\ alive[b] \in Nat /\ dying[b] = 0 /\ new[b] \in Nat /\ Cells[b] \in Nat
        /\ alive[b] <= Cells[b]
        /\ Missing(mem.bundles)[b] = Cells[b] - alive[b]
  <2>1. \A b \in Bundles : alive[b] \in Nat /\ new[b] \in Nat /\ Cells[b] \in Nat
                            /\ dying[b] = 0
    BY <1>4, UpdateAssumption DEF TypeInv, TypeOK, NoCells
  <2>2. \A b \in Bundles : alive[b] <= Cells[b]
    BY <2>1 DEF CellsInvariant, CellCount
  <2> QED
    BY <1>4, <2>1, <2>2 DEF Missing, CellCount
<1>6. \A b \in Bundles : CellCount(b)' <= Cells[b]
  BY <1>2, <1>5 DEF CellCount
<1>7. alive = Cells => alive' = Cells
  BY <1>2, <1>5, UpdateAssumption
<1>8. Faithful(cr, alive', dying')
  BY <1>1, <1>2, <1>3, <1>7
  DEF Faithful, CellsInPhase, RemovesCells, BeforeRemoval, AfterRecovery,
      CellStates, Intact
<1>9. CASE new = Missing(mem.bundles) /\ Visited(w)
  <2>1. Intact(alive', dying')
    BY <1>2, <1>4, <1>5, <1>9, UpdateAssumption DEF Intact
  <2>2. /\ w.cluster = mem.cluster /\ w.state = mem.state /\ w.flow = mem.flow
        /\ w.bundles = mem.bundles
        /\ w.conditions = mem.conditions \cup {"TabletCellsRecovered"}
    BY <1>1, ConditionFields
  <2>3. mem' = w /\ UNCHANGED <<cr, cache, cacheFresh, memFresh, pc>>
    BY <1>9 DEF Visited, resource
  <2> HIDE DEF w
  <2>4. memFresh => Faithful(w, alive', dying')
    BY <1>1, <2>1, <2>2
    DEF Ongoing, Faithful, ConditionsInOrder, CellsInPhase, RemovesCells, Intact,
        CellConditions, BeforeRemoval, AfterRecovery, CellStates, Removing
  <2>5. Keeps(w, cr) /\ (memFresh => Keeps(cr, w))
    BY <1>1, <2>2 DEF Keeps, Ongoing
  <2> QED
    BY <1>1, <1>6, <1>8, <2>3, <2>4, <2>5 DEF CellsInvariant, CopiesAgree
<1>10. CASE Failed
  BY <1>6, <1>8, <1>10 DEF CellsInvariant, CopiesAgree, Failed, Idle, resource
<1> QED
  BY <1>2, <1>9, <1>10

\* The states a handler moves an update to fit where the cells are.
LEMMA HandlersFaithful ==
  ASSUME NEW v \in Resource, NEW cm, NEW next, NEW a, NEW d,
         v.cluster = "Updating", Faithful(v, a, d), handleFlow(v, cm, next)
  PROVE LET w == IF next \in UpdateState THEN SaveUpdateState(v, next)
                                         ELSE SaveClusterState(v, next)
        IN Faithful(w, a, d) /\ Keeps(v, w)
<1> DEFINE w == IF next \in UpdateState THEN SaveUpdateState(v, next)
                                        ELSE SaveClusterState(v, next)
<1> SUFFICES Faithful(w, a, d) /\ Keeps(v, w)
  OBVIOUS
<1> USE DEF Passed, checkPossibility, cancelImpossible, replacePods, updateState,
            removeTabletCells
<1>1. /\ next \in UpdateState => w.cluster = "Updating" /\ w.state = next
      /\ next \notin UpdateState => w.cluster = next /\ w.state = v.state
      /\ w.flow = v.flow /\ w.bundles = v.bundles /\ w.conditions = v.conditions
  BY DEF SaveUpdateState, SaveClusterState, Resource
<1> HIDE DEF w
<1>2. \/ next \in UpdateState /\ next # v.state
      \/ next \in {"CancelUpdate", "UpdateFinishing"}
  BY DEF handleFlow, handleEverything, handleStateless, handleMasterOnly,
         handleTabletNodesOnly, UpdateState
<1>3. CASE v.flow = "Full"
  <2>1. handleEverything(v, cm, next)
    BY <1>3 DEF handleFlow
  <2>2. Keeps(v, w)
    BY <1>1, <1>2, <2>1 DEF handleEverything, Keeps, Ongoing
  <2>3. CASE next \in {"CancelUpdate", "UpdateFinishing"}
    BY <1>1, <2>1, <2>2, <2>3
    DEF handleEverything, UpdateState, Faithful, CellsInPhase, BeforeRemoval,
        AfterRecovery
  <2>4. CASE v.state \in BeforeRemoval /\ next \in UpdateState
    <3>1. \/ next \in BeforeRemoval
          \/ /\ next = "WaitingForTabletCellsRemovingStart"
             /\ "TabletCellsSaved" \in v.conditions
      BY <2>1, <2>4 DEF handleEverything, BeforeRemoval, UpdateState
    <3>2. /\ "TabletCellsRemovingStarted" \notin v.conditions
          /\ "TabletCellsRemoved" \notin v.conditions
          /\ "TabletCellsRecovered" \notin v.conditions
      BY <2>4 DEF Faithful, ConditionsInOrder, BeforeRemoval, AfterRecovery
    <3>3. Intact(a, d) /\ ("TabletCellsSaved" \in v.conditions => v.bundles = Cells)
      BY <2>4 DEF Faithful, CellsInPhase
    <3>4. ConditionsInOrder(w)
      BY <1>1, <2>4, <3>2 DEF ConditionsInOrder
    <3>5. CellsInPhase(w, a, d)
      BY <1>1, <2>4, <3>1, <3>2, <3>3 DEF CellsInPhase, BeforeRemoval, AfterRecovery
    <3>6. RemovesCells(w) /\ w.flow # "NoFlow" /\ w.cluster = "Updating"
      BY <1>1, <1>3, <2>4 DEF RemovesCells
    <3> QED
      BY <2>2, <3>4, <3>5, <3>6 DEF Faithful
  <2>5. CASE v.state \in Removing /\ next \in UpdateState
    BY <1>1, <1>3, <2>1, <2>2, <2>5
    DEF handleEverything, Faithful, ConditionsInOrder, CellsInPhase, RemovesCells,
        CellStates, BeforeRemoval, AfterRecovery, Removing
  <2>6. CASE v.state \in AfterRecovery /\ next \in UpdateState
    <3>1. next \in AfterRecovery
      BY <2>1, <2>6 DEF handleEverything, AfterRecovery, UpdateState
    <3>2. Intact(a, d) /\ ("TabletCellsSaved" \in v.conditions => v.bundles = Cells)
      BY <2>6 DEF Faithful, CellsInPhase
    <3>3. ConditionsInOrder(w)
      BY <1>1, <3>1, <2>6 DEF ConditionsInOrder, BeforeRemoval, AfterRecovery
    <3>4. CellsInPhase(w, a, d)
      BY <1>1, <2>6, <3>1, <3>2 DEF CellsInPhase, AfterRecovery
    <3>5. RemovesCells(w) /\ w.flow # "NoFlow" /\ w.cluster = "Updating"
      BY <1>1, <1>3, <2>6 DEF RemovesCells
    <3> QED
      BY <2>2, <3>3, <3>4, <3>5 DEF Faithful
  <2>7. CASE /\ v.state \notin BeforeRemoval \cup Removing \cup AfterRecovery
             /\ next \in UpdateState
    BY <1>1, <1>3, <2>1, <2>2, <2>7
    DEF handleEverything, Faithful, ConditionsInOrder, CellsInPhase, RemovesCells,
        CellStates, BeforeRemoval, AfterRecovery, Removing
  <2> QED
    BY <1>2, <2>3, <2>4, <2>5, <2>6, <2>7
<1>4. CASE v.flow = "Stateless"
  BY <1>1, <1>2, <1>4
  DEF handleFlow, handleStateless, Faithful, ConditionsInOrder, CellsInPhase,
      RemovesCells, CellStates, BeforeRemoval, AfterRecovery, Removing, Keeps,
      Ongoing, UpdateState
<1>5. CASE v.flow = "Master"
  BY <1>1, <1>2, <1>5
  DEF handleFlow, handleMasterOnly, Faithful, ConditionsInOrder, CellsInPhase,
      RemovesCells, CellStates, BeforeRemoval, AfterRecovery, Removing, Keeps,
      Ongoing, UpdateState
<1>6. CASE v.flow = "TabletNodes"
  BY <1>1, <1>2, <1>6
  DEF handleFlow, handleTabletNodesOnly, Faithful, ConditionsInOrder, CellsInPhase,
      RemovesCells, CellStates, BeforeRemoval, AfterRecovery, Removing, Keeps,
      Ongoing, UpdateState
<1> QED
  BY <1>3, <1>4, <1>5, <1>6 DEF handleFlow

\* What the dry run of the scheduler adds says nothing about cells.
LEMMA AlikeObserved ==
  ASSUME NEW v \in Resource
  PROVE Alike(v, Observed(v))
<1>1. (v.conditions \cup {"NotNecessaryToUpdateOpArchive"}) \cap CellConditions
        = v.conditions \cap CellConditions
  BY DEF CellConditions
<1> QED
  BY <1>1, AlikeCopies DEF Observed

\* A decision to save a status that is faithful if the copy is fresh.
LEMMA SavingKeeps ==
  ASSUME CellsInvariant, NEW v, Saving(v, "save"),
         cacheFresh => Faithful(v, alive, dying) /\ Keeps(cr, v),
         UNCHANGED <<resource, yt>>
  PROVE CellsInvariant'
  BY DEF CellsInvariant, CopiesAgree, Saving, CellCount, resource, yt

\* The decisions of a reconcile.
LEMMA DecideKeeps == TypeInv /\ CellsInvariant /\ Decide => CellsInvariant'
<1> SUFFICES ASSUME TypeInv, CellsInvariant, Decide PROVE CellsInvariant'
  OBVIOUS
<1> USE DEF resource, yt
<1>1. cache \in Resource /\ cr \in Resource
  BY DEF TypeInv, TypeOK
<1>2. cacheFresh => cache = cr
  BY DEF CellsInvariant, CopiesAgree
<1>3. Faithful(cr, alive, dying)
  BY DEF CellsInvariant
<1>4. \A s \in ClusterState : LET w == SaveClusterState(cache, s)
                             IN /\ w.cluster = s /\ w.state = cache.state
                                /\ w.conditions = cache.conditions
  BY <1>1 DEF SaveClusterState, Resource
<1>5. CASE Happy
  BY <1>5
  DEF Happy, vars, reconcile, CellsInvariant, CopiesAgree, CellCount
<1>6. CASE StartReconfiguration
  <2> DEFINE w == SaveClusterState(cache, "Reconfiguration")
  <2>1. /\ w.cluster = "Reconfiguration" /\ w.state = cache.state
        /\ w.conditions = cache.conditions
    BY <1>4 DEF ClusterState
  <2>2. Saving(w, "save") /\ UNCHANGED <<resource, yt>> /\ cache.cluster = "Running"
    BY <1>6 DEF StartReconfiguration
  <2> HIDE DEF w
  <2>3. cacheFresh => Faithful(w, alive, dying) /\ Keeps(cr, w)
    BY <1>2, <1>3, <2>1, <2>2 DEF Faithful, Keeps, Ongoing
  <2> QED
    BY <2>2, <2>3, SavingKeeps
<1>7. CASE FinishReconfiguration
  <2> DEFINE w == SaveClusterState(cache, "Running")
  <2>1. /\ w.cluster = "Running" /\ w.state = cache.state
        /\ w.conditions = cache.conditions
    BY <1>4 DEF ClusterState
  <2>2. /\ Saving(w, "save") /\ UNCHANGED <<resource, yt>>
        /\ cache.cluster = "Reconfiguration"
    BY <1>7 DEF FinishReconfiguration
  <2> HIDE DEF w
  <2>3. cacheFresh => Faithful(w, alive, dying) /\ Keeps(cr, w)
    BY <1>2, <1>3, <2>1, <2>2 DEF Faithful, Keeps, Ongoing
  <2> QED
    BY <2>2, <2>3, SavingKeeps
<1>8. CASE StartUpdate
  <2> DEFINE need == NewComponentManager(cache, Fetched).needUpdate
             meta == chooseUpdateFlow(cache.spec.selector,
                                      cache.spec.enableFullUpdate, need)
             w == SaveUpdatingClusterState(cache, meta.flow, meta.names)
  <2>1. /\ Saving(w, "save") /\ UNCHANGED <<resource, yt>>
        /\ cache.cluster = "Running" /\ ~meta.blocked
    BY <1>8 DEF StartUpdate
  <2>2. meta.flow # "NoFlow"
    <3>1. need \in SUBSET Components
      BY DEF NewComponentManager
    <3> QED
      BY <2>1, <3>1, ChoiceTyped
  <2>3. /\ w.cluster = "Updating" /\ w.state = cache.state /\ w.flow = meta.flow
        /\ w.conditions = cache.conditions
    BY <1>1 DEF SaveUpdatingClusterState, Resource
  <2> HIDE DEF w, meta, need
  <2>4. cacheFresh => Faithful(w, alive, dying) /\ Keeps(cr, w)
    BY <1>2, <1>3, <2>1, <2>2, <2>3
    DEF Faithful, ConditionsInOrder, CellsInPhase, CellConditions, CellStates,
        Removing, BeforeRemoval, AfterRecovery, Keeps, Ongoing
  <2> QED
    BY <2>1, <2>4, SavingKeeps
<1>9. CASE HandleUpdate
  <2> DEFINE v == Observed(cache)
             w(next) == IF next \in UpdateState THEN SaveUpdateState(v, next)
                                                ELSE SaveClusterState(v, next)
  <2>1. PICK next : /\ handleFlow(v, NewComponentManager(v, Fetched), next)
                    /\ Saving(w(next), "save")
    BY <1>9 DEF HandleUpdate
  <2>2. UNCHANGED <<resource, yt>> /\ cache.cluster = "Updating"
    BY <1>9 DEF HandleUpdate
  <2>3. v \in Resource /\ Alike(cache, v) /\ v.cluster = "Updating"
    BY <1>1, <2>2, ObservedTyped, AlikeObserved DEF Alike
  <2>4. cacheFresh => Faithful(v, alive, dying)
    BY <1>2, <1>3, <2>3, AlikeFaithful
  <2> HIDE DEF v
  <2>5. cacheFresh => Faithful(w(next), alive, dying) /\ Keeps(v, w(next))
    BY <2>1, <2>3, <2>4, HandlersFaithful
  <2> HIDE DEF w
  <2>6. cacheFresh => Keeps(cr, w(next))
    BY <1>2, <2>3, <2>5 DEF Alike, Keeps, Ongoing, CellConditions
  <2> QED
    BY <2>1, <2>2, <2>5, <2>6, SavingKeeps
<1>10. CASE LeaveUpdate
  <2> DEFINE w == SaveUpdateState(cache, "None")
  <2>1. w.cluster = cache.cluster /\ w.state = "None"
    BY <1>1 DEF SaveUpdateState, Resource
  <2>2. Saving(w, "saveNone") /\ UNCHANGED <<resource, yt>> /\ Leaving(cache)
    BY <1>10 DEF LeaveUpdate, Leaving
  <2> HIDE DEF w
  <2>3. cacheFresh => Faithful(w, alive, dying) /\ Keeps(cr, w) /\ Leaving(cr)
    BY <1>2, <1>3, <2>1, <2>2 DEF Faithful, Keeps, Ongoing, Leaving
  <2> QED
    BY <2>1, <2>2, <2>3 DEF CellsInvariant, CopiesAgree, Saving, CellCount, Leaving
<1>11. CASE StartWalk
  <2> DEFINE v == Observed(cache)
  <2>1. /\ mem' = v /\ pc' = "walk" /\ memFresh' = cacheFresh
        /\ UNCHANGED <<resource, yt>>
    BY <1>11 DEF StartWalk
  <2>2. Alike(cache, v)
    BY <1>1, AlikeObserved
  <2> HIDE DEF v
  <2>3. cacheFresh => Faithful(v, alive, dying) /\ Keeps(cr, v)
    BY <1>2, <1>3, <2>2, AlikeFaithful, AlikeKeeps, KeepsItself
  <2>4. Keeps(v, cr)
    BY <2>2, AlikeKeeps DEF CellsInvariant, CopiesAgree
  <2> QED
    BY <2>1, <2>3, <2>4 DEF CellsInvariant, CopiesAgree, CellCount
<1> QED
  BY <1>5, <1>6, <1>7, <1>8, <1>9, <1>10, <1>11 DEF Decide

\* A save is accepted only from a fresh copy, which is faithful and keeps what
\* the stored status says.
LEMMA PersistKeeps == TypeInv /\ CellsInvariant /\ Persist => CellsInvariant'
<1> SUFFICES ASSUME TypeInv, CellsInvariant, Persist PROVE CellsInvariant'
  OBVIOUS
<1> USE DEF resource, yt
<1>1. mem \in Resource /\ cr \in Resource
  BY DEF TypeInv, TypeOK
<1>2. UNCHANGED <<cache, alive, dying>>
  BY DEF Persist
<1>3. CASE ~memFresh
  BY <1>2, <1>3, IdleKeeps DEF Persist, Accepted
<1>4. CASE memFresh
  <2>1. cr' = [mem EXCEPT !.spec = cr.spec] /\ cacheFresh' = FALSE
    BY <1>4 DEF Persist, Accepted
  <2>2. Alike(mem, cr')
    BY <1>1, <2>1, AlikeCopies
  <2>3. Faithful(mem, alive, dying) /\ Keeps(cr, mem)
    BY <1>4 DEF CellsInvariant, CopiesAgree
  <2>4. Faithful(cr', alive', dying')
    BY <1>2, <2>2, <2>3, AlikeFaithful
  <2>5. Keeps(cache', cr')
    <3>1. CASE cacheFresh
      BY <1>2, <2>2, <2>3, <3>1, AlikeKeeps DEF CellsInvariant, CopiesAgree
    <3>2. CASE Leaving(cache)
      BY <1>2, <3>2 DEF Leaving, Keeps, Ongoing
    <3> QED
      BY <1>4, <3>1, <3>2 DEF CellsInvariant, CopiesAgree
  <2>6. \A b \in Bundles : CellCount(b)' <= Cells[b]
    BY <1>2 DEF CellsInvariant, CellCount
  <2>7. CASE pc \notin {"saveNone", "saveClear"}
    <3>1. Idle
      BY <1>4, <2>7, Zenon DEF Persist, Accepted
    <3> QED
      BY <2>1, <2>4, <2>5, <2>6, <3>1 DEF CellsInvariant, CopiesAgree, Idle
  <2>8. CASE pc \in {"saveNone", "saveClear"}
    <3>1. Leaving(mem) /\ mem.state = "None" /\ Leaving(cache)
      BY <1>4, <2>8 DEF CellsInvariant, CopiesAgree
    <3>2. Leaving(cr') /\ Leaving(cache') /\ Intact(alive', dying')
      BY <1>2, <2>2, <2>3, <3>1 DEF Leaving, Alike, Faithful
    <3>3. CASE pc = "saveNone"
      <4>1. pc' = "saveClear" /\ mem' = ClearUpdateStatus(mem) /\ memFresh' = memFresh
        BY <1>4, <3>3 DEF Persist, Accepted
      <4>2. /\ mem'.cluster = mem.cluster /\ mem'.state = "None"
            /\ mem'.conditions = {}
        BY <1>1, <3>1, <4>1 DEF ClearUpdateStatus, Resource
      <4>3. Leaving(mem') /\ Faithful(mem', alive', dying') /\ Keeps(cr', mem')
        BY <3>1, <3>2, <4>2 DEF Leaving, Faithful, Keeps, Ongoing
      <4> QED
        BY <2>1, <2>4, <2>5, <2>6, <3>2, <4>1, <4>2, <4>3
        DEF CellsInvariant, CopiesAgree
    <3>4. CASE pc = "saveClear"
      <4>1. /\ pc' = "save" /\ mem' = SaveClusterState(mem, "Running")
            /\ memFresh' = memFresh
        BY <1>4, <3>4 DEF Persist, Accepted
      <4>2. mem.conditions = {}
        BY <3>4 DEF CellsInvariant, CopiesAgree
      <4>3. /\ mem'.cluster = "Running" /\ mem'.state = "None"
            /\ mem'.conditions = {}
        BY <1>1, <3>1, <4>1, <4>2 DEF SaveClusterState, Resource
      <4>4. Faithful(mem', alive', dying') /\ Keeps(cr', mem')
        BY <3>2, <4>3 DEF Leaving, Faithful, Keeps, Ongoing
      <4> QED
        BY <2>1, <2>4, <2>5, <2>6, <3>2, <4>1, <4>4 DEF CellsInvariant, CopiesAgree
    <3> QED
      BY <2>8, <3>3, <3>4
  <2> QED
    BY <2>7, <2>8
<1> QED
  BY <1>3, <1>4 DEF TypeInv, TypeOK

\* An edit changes only the spec, and makes every copy stale.
LEMMA UserKeeps == TypeInv /\ CellsInvariant /\ User => CellsInvariant'
<1> SUFFICES ASSUME TypeInv, CellsInvariant, NEW spec, Edited(spec)
             PROVE CellsInvariant'
  BY Zenon DEF User, EditImage, EditConfig, EditReplicas, EditPolicy
<1>1. Alike(cr, cr')
  <2>1. cr \in Resource /\ cr' = [cr EXCEPT !.spec = spec]
    BY DEF Edited, TypeInv, TypeOK
  <2> QED
    BY <2>1, AlikeCopies, Zenon
<1>2. /\ UNCHANGED <<cache, mem, pc, alive, dying>>
      /\ cacheFresh' = FALSE /\ memFresh' = FALSE
  BY DEF Edited, yt
<1>3. Faithful(cr', alive, dying)
  BY <1>1, AlikeFaithful DEF CellsInvariant
<1>4. Keeps(cache, cr') /\ (pc = "walk" => Keeps(mem, cr'))
  BY <1>1, AlikeKeeps DEF CellsInvariant, CopiesAgree
<1> QED
  BY <1>2, <1>3, <1>4 DEF CellsInvariant, CopiesAgree, CellCount

\* A cell that disappears was dying, so no status says that none is.
LEMMA CellGoneKeeps ==
  ASSUME TypeInv, CellsInvariant, NEW b \in Bundles, CellGone(b)
  PROVE CellsInvariant'
<1>1. /\ dying' = [dying EXCEPT ![b] = @ - 1] /\ dying[b] > 0
      /\ UNCHANGED <<cr, cache, cacheFresh, mem, memFresh, pc, alive>>
  BY DEF CellGone, resource, reconcile
<1>2. \A x \in Bundles : CellCount(x)' <= Cells[x]
  <2>1. \A x \in Bundles : dying[x] \in Nat /\ alive[x] \in Nat /\ Cells[x] \in Nat
    BY UpdateAssumption DEF TypeInv, TypeOK
  <2>2. \A x \in Bundles : dying'[x] <= dying[x] /\ dying'[x] \in Int
    BY <1>1, <2>1 DEF TypeInv, TypeOK
  <2>3. \A x \in Bundles : alive[x] + dying[x] <= Cells[x]
    BY DEF CellsInvariant, CellCount
  <2>4. \A i \in Nat, j \in Nat, k \in Int, n \in Nat :
          i + j <= n /\ k <= j => i + k <= n
    OBVIOUS
  <2>5. ASSUME NEW x \in Bundles PROVE alive[x] + dying'[x] <= Cells[x]
    BY <2>1, <2>2, <2>3, <2>4, <2>5
  <2> QED
    BY <1>1, <2>5 DEF CellCount
<1>3. dying # NoCells
  BY <1>1 DEF NoCells
<1>4. \A r : Faithful(r, alive, dying) => Faithful(r, alive, dying')
  BY <1>3 DEF Faithful, CellsInPhase, Intact
<1> QED
  BY <1>1, <1>2, <1>4, Zenon DEF CellsInvariant, CopiesAgree

\* Every step keeps the invariant.
LEMMA NextKeeps == TypeInv /\ CellsInvariant /\ [Next]_vars => CellsInvariant'
<1> SUFFICES ASSUME TypeInv, CellsInvariant, [Next]_vars PROVE CellsInvariant'
  OBVIOUS
<1>1. ASSUME UNCHANGED <<cr, cache, cacheFresh, mem, memFresh, pc, alive, dying>>
      PROVE CellsInvariant'
  BY <1>1 DEF CellsInvariant, CopiesAgree, CellCount
<1>2. CASE UNCHANGED vars
  BY <1>1, <1>2 DEF vars, resource, reconcile, yt
<1>3. CASE Operator
  <2>1. CASE VisitClient \/ NoClient
    BY <2>1, OtherClientKeeps, GetTabletCellsKeeps, RemoveTabletCellsKeeps,
       AreTabletCellsRemovedKeeps, RecoverTableCellsKeeps DEF VisitClient
  <2>2. CASE CallFails
    BY <2>2, IdleKeeps DEF CallFails, resource, yt
  <2> QED
    BY <1>3, <2>1, <2>2, DecideKeeps, PersistKeeps, VisitKeeps DEF Operator
<1>4. CASE Deliver
  BY <1>4, KeepsItself DEF Deliver, reconcile, yt, CellsInvariant, CopiesAgree, CellCount
<1>5. CASE Kubernetes
  BY <1>1, <1>5
  DEF Kubernetes, PodsStop, PodsStart, PodsBecomeReady, JobRuns, JobCollected,
      JobExpires, resource, reconcile, yt
<1>6. CASE Cluster
  BY <1>1, <1>6, CellGoneKeeps
  DEF Cluster, SnapshotBuilt, BecomeHealthy, resource, reconcile
<1>7. CASE Fault
  BY <1>1, <1>7, IdleKeeps
  DEF Fault, Abort, BecomeUnhealthy, PodsFail, resource, reconcile, yt
<1> QED
  BY <1>2, <1>3, <1>4, <1>5, <1>6, <1>7, UserKeeps DEF Next

\* It holds in a cluster that was just brought up.
LEMMA InitKeeps == Init => CellsInvariant
<1> SUFFICES ASSUME Init PROVE CellsInvariant
  OBVIOUS
<1>1. PICK spec : cr = [InitialResource EXCEPT !.spec = spec]
  BY DEF Init
<1>2. cr.cluster = "Running" /\ cr.state = "None" /\ cr.conditions = {}
  BY <1>1 DEF InitialResource
<1>3. Intact(alive, dying) /\ \A b \in Bundles : CellCount(b) <= Cells[b]
  BY UpdateAssumption DEF Init, Intact, NoCells, CellCount
<1>4. Faithful(cr, alive, dying)
  BY <1>2, <1>3 DEF Faithful
<1> QED
  BY <1>3, <1>4, KeepsItself DEF Init, CellsInvariant, CopiesAgree

\* The invariant behind CellsAccountedFor holds for every cluster: the status
\* that is stored, and any copy that would be accepted, say where the cells are.
THEOREM CellsInPlace == Spec => []CellsInvariant
<1>1. Init => TypeInv /\ CellsInvariant
  BY InitTyped, InitKeeps
<1>2. TypeInv /\ CellsInvariant /\ [Next]_vars => (TypeInv /\ CellsInvariant)'
  BY NextTyped, NextKeeps
<1> QED
  BY <1>1, <1>2, PTL DEF Spec

\* No tablet cell is ever forgotten, whatever the user edits, however stale the
\* operator's copies are and wherever it crashes: a bundle that lacks cells has
\* its number of cells in the stored status (GetTabletCells before
\* RemoveTabletCells), and RecoverTableCells creates no more than that.
THEOREM CellsSafe == Spec => []CellsAccountedFor
<1>1. TypeInv /\ CellsInvariant => CellsAccountedFor
  <2> SUFFICES ASSUME TypeInv, CellsInvariant, NEW b \in Bundles, alive[b] < Cells[b]
               PROVE "TabletCellsSaved" \in cr.conditions /\ cr.bundles[b] = Cells[b]
    BY DEF CellsAccountedFor, CellsInvariant
  <2>1. ~Intact(alive, dying)
    BY UpdateAssumption DEF Intact
  <2>2. "TabletCellsSaved" \in cr.conditions /\ cr.bundles = Cells
    BY <2>1 DEF CellsInvariant, Faithful, CellsInPhase
  <2> QED
    BY <2>2
<1>2. Spec => []TypeInv
  BY InitTyped, NextTyped, PTL DEF Spec
<1> QED
  BY <1>1, <1>2, CellsInPlace, PTL
================================================================================
