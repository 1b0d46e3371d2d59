------------------------- MODULE UpdateProgress_proofs -------------------------
(***************************************************************************)
(* Proofs about the progress of an update, for any cluster: which step     *)
(* each component may take, that no accepted save loses what the update    *)
(* has achieved, that only selected components change, and that the        *)
(* masters are writable and out of safe mode again when the cluster runs.  *)
(***************************************************************************)
EXTENDS YtsaurusUpdate_proofs

-------------------------------------------------------------------------------
(* The steps of doSync.                                                    *)

\* What copy v and the fetched objects k say when component c arrives at step.
StepFits(v, k, c, step) ==
  /\ v.cluster # "Updating" => step \in {"NeedLocalUpdate", "Blocked", "SyncServer",
                                         "Ready", "CreateJob", "CompleteJob"}
  /\ step \in {"RemovePods", "SyncServer"} /\ v.cluster = "Updating" =>
       IsUpdatingComponent(v.names, c)
  /\ step = "RemovePods" => v.state = "WaitingForPodsRemoval"
  /\ step \in {"PrepareExit", "ExitedReadOnly"} =>
       /\ c = Master /\ v.cluster = "Updating"
       /\ v.state = "WaitingForMasterExitReadOnly"
  /\ step = "PrepareExit" => "MasterExitReadOnlyPrepared" \notin v.conditions
  /\ step = "ExitedReadOnly" => /\ "MasterExitReadOnlyPrepared" \in v.conditions
                                /\ v.jobs["ExitReadOnly"] = "True"

\* What they say when it is a step of an init job.
JobStepFits(v, k, c, step) ==
  LET j == JobFor(c)
      migrates == c = Migrator(j) /\ j \in Migrations
  IN /\ step \in {"CreateJob", "CompleteJob"} =>
          \/ /\ c = Master /\ v.cluster = "Updating"
             /\ v.state = "WaitingForMasterExitReadOnly"
             /\ "MasterExitReadOnlyPrepared" \in v.conditions
          \/ /\ migrates /\ j \in JobOf(c)
             /\ v.cluster = "Updating" => v.state \in {"WaitingForPodsCreation", RunState(j)}
     /\ step = "CreateJob" => k.job[j] = "none"
     /\ step = "CompleteJob" => k.job[j] \notin {"none", "active", "dyingActive"}
     /\ step \in {"PrepareRestart", "RestartPrepared"} =>
          migrates /\ v.cluster = "Updating" /\ v.state = PrepareState(j)
     /\ step = "RestartPrepared" => isRestartPrepared(v, k, j)
     /\ step = "RestartCompleted" => /\ migrates /\ v.cluster = "Updating"
                                     /\ v.state = RunState(j) /\ v.jobs[j] = "True"

\* Every step of doSync is decided by syncStep.
LEMMA DoSyncStep ==
  ASSUME NEW v, NEW k, NEW c \in Components
  PROVE \E blocked, noTablets : doSync(v, k)[c] = syncStep(v, k, c, blocked, noTablets)
  BY Zenon DEF doSync

\* The components that play a part of their own in doSync.
LEMMA Roles ==
  /\ Scheduler # QueryTracker /\ Scheduler # Master /\ QueryTracker # Master
  /\ Master \in Components /\ HttpProxy \in Components
  BY UpdateAssumption, RolesAssumption, KindsAssumption

\* The steps that handleUpdatingClusterState decides.
LEMMA UpdatingStep ==
  ASSUME NEW v, NEW k, NEW c \in Components, v.cluster = "Updating",
         NEW step, step = handleUpdatingClusterState(v, k, c)
  PROVE /\ step # "Proceed" => StepFits(v, k, c, step) /\ JobStepFits(v, k, c, step)
        /\ step = "Proceed" =>
             /\ IsUpdatingComponent(v.names, c)
             /\ v.state = "WaitingForPodsCreation"
                \/ /\ c \in {Scheduler, QueryTracker}
                   /\ v.state = RunState(JobFor(c))
<1>1. CASE c = Master /\ v.state = "WaitingForMasterExitReadOnly"
  <2>1. step = exitReadOnly(v, k) /\ JobFor(c) = "ExitReadOnly"
    BY <1>1, Roles DEF handleUpdatingClusterState, JobFor
  <2>2. CASE "MasterExitReadOnlyPrepared" \notin v.conditions
    <3>1. step = "PrepareExit"
      BY <2>1, <2>2 DEF exitReadOnly
    <3> QED
      BY <1>1, <2>2, <3>1 DEF StepFits, JobStepFits
  <2>3. CASE "MasterExitReadOnlyPrepared" \in v.conditions /\ v.jobs["ExitReadOnly"] # "True"
    <3>1. step = syncInitJob(v, k, "ExitReadOnly")
      BY <2>1, <2>3 DEF exitReadOnly
    <3>2. /\ step \in {"CreateJob", "Blocked", "CompleteJob"}
          /\ step = "CreateJob" => k.job["ExitReadOnly"] = "none"
          /\ step = "CompleteJob" =>
               k.job["ExitReadOnly"] \notin {"none", "active", "dyingActive"}
      BY <2>3, <3>1 DEF syncInitJob, jobExists
    <3> QED
      BY <1>1, <2>1, <2>3, <3>2 DEF StepFits, JobStepFits
  <2>4. CASE "MasterExitReadOnlyPrepared" \in v.conditions /\ v.jobs["ExitReadOnly"] = "True"
    <3>1. step = "ExitedReadOnly"
      BY <2>1, <2>4 DEF exitReadOnly
    <3> QED
      BY <1>1, <2>4, <3>1 DEF StepFits, JobStepFits
  <2> QED
    BY <2>2, <2>3, <2>4
<1>2. CASE ~(c = Master /\ v.state = "WaitingForMasterExitReadOnly") /\ c = Scheduler
  BY <1>2, Roles
  DEF handleUpdatingClusterState, updateOpArchive, restartJob, JobFor, JobOf,
      StepFits, JobStepFits, Migrator, Migrations, PrepareState, RunState
<1>3. CASE ~(c = Master /\ v.state = "WaitingForMasterExitReadOnly") /\ c = QueryTracker
  BY <1>3, Roles
  DEF handleUpdatingClusterState, updateQTState, restartJob, JobFor, JobOf,
      StepFits, JobStepFits, Migrator, Migrations, PrepareState, RunState
<1>4. CASE /\ ~(c = Master /\ v.state = "WaitingForMasterExitReadOnly")
           /\ c \notin {Scheduler, QueryTracker}
  BY <1>4, Roles DEF handleUpdatingClusterState, StepFits, JobStepFits
<1> QED
  BY <1>1, <1>2, <1>3, <1>4

\* The steps of doSync fit the copy it works on.
LEMMA StepsFit ==
  ASSUME NEW v, NEW k, NEW c \in Components
  PROVE StepFits(v, k, c, doSync(v, k)[c]) /\ JobStepFits(v, k, c, doSync(v, k)[c])
<1> DEFINE updating == handleUpdatingClusterState(v, k, c)
<1>1. PICK blocked, noTablets : doSync(v, k)[c] = syncStep(v, k, c, blocked, noTablets)
  BY DoSyncStep
<1> DEFINE step == syncStep(v, k, c, blocked, noTablets)
<1>2. CASE v.cluster = "Updating" /\ updating # "Proceed"
  <2>1. step = updating
    BY <1>2 DEF syncStep
  <2> QED
    BY <1>1, <1>2, <2>1, UpdatingStep
<1>3. CASE v.cluster # "Updating" \/ updating = "Proceed"
  <2>1. \/ step \in {"NeedLocalUpdate", "Blocked", "SyncServer", "Ready"}
        \/ JobOf(c) # {} /\ step = syncInitJob(v, k, JobFor(c))
    BY <1>3 DEF syncStep
  <2>2. /\ v.cluster = "Updating" => IsUpdatingComponent(v.names, c)
        /\ v.cluster = "Updating" => v.state = "WaitingForPodsCreation"
                \/ /\ c \in {Scheduler, QueryTracker}
                   /\ v.state = RunState(JobFor(c))
    BY <1>3, UpdatingStep
  <2> HIDE DEF step
  <2>3. CASE step \in {"NeedLocalUpdate", "Blocked", "SyncServer", "Ready"}
    BY <1>1, <2>2, <2>3 DEF StepFits, JobStepFits, step
  <2>4. CASE JobOf(c) # {} /\ step = syncInitJob(v, k, JobFor(c))
    <3>1. /\ c \in {Scheduler, QueryTracker} /\ c = Migrator(JobFor(c))
          /\ JobFor(c) \in Migrations /\ JobFor(c) \in JobOf(c)
      BY <2>4, Roles DEF JobOf, JobFor, Migrator, Migrations
    <3>2. step \in {"Ready", "CreateJob", "Blocked", "CompleteJob"}
      BY <2>4 DEF syncInitJob
    <3>3. /\ step = "CreateJob" => k.job[JobFor(c)] = "none"
          /\ step = "CompleteJob" => k.job[JobFor(c)] \notin {"none", "active", "dyingActive"}
      BY <2>4 DEF syncInitJob, jobExists
    <3> QED
      BY <1>1, <2>2, <3>1, <3>2, <3>3 DEF StepFits, JobStepFits, step
  <2> QED
    BY <2>1, <2>3, <2>4
<1> QED
  BY <1>2, <1>3

-------------------------------------------------------------------------------
(* ProgressInvariant is inductive.                                         *)

\* What a step of the walk does to the copy: w continues v, and outside an
\* update it adds nothing to the update status.
Moves(v, w) ==
  /\ Continues(v, w) /\ w.cluster = v.cluster /\ w.state = v.state
  /\ v.cluster # "Updating" /\ Clean(v) => Clean(w)

\* Changes of a status that keep what its update has achieved.
LEMMA MovesOn ==
  ASSUME NEW v \in Resource
  PROVE /\ Moves(v, v)
        /\ \A j, s : Moves(v, [v EXCEPT !.jobs[j] = s])
        /\ v.cluster = "Updating" =>
             /\ \A S : Moves(v, [v EXCEPT !.removing = @ \cup S])
             /\ \A S : Moves(v, [v EXCEPT !.removed = @ \cup S])
             /\ \A C : v.conditions \ {"MasterExitReadOnlyPrepared"} \subseteq C =>
                       Moves(v, [v EXCEPT !.conditions = C])
  BY DEF Moves, Continues, Clean, Resource

\* A condition that is set takes nothing away either.
LEMMA MovesCondition ==
  ASSUME NEW v \in Resource, NEW x, v.cluster = "Updating"
  PROVE Moves(v, SetCondition(v, x))
<1>1. v.conditions \ {"MasterExitReadOnlyPrepared"} \subseteq v.conditions \cup {x}
  OBVIOUS
<1> QED
  BY <1>1, MovesOn DEF SetCondition

\* A reconcile that ends gives up its copy.
LEMMA IdleProgress ==
  ASSUME ProgressInvariant, Idle, UNCHANGED <<cr, cache, cacheFresh>>
  PROVE ProgressInvariant'
  BY DEF ProgressInvariant, Idle

\* A step of the walk.
LEMMA WalkProgress ==
  ASSUME ProgressInvariant, pc = "walk", Moves(mem, mem'),
         UNCHANGED <<cr, cache, cacheFresh, memFresh, pc>>
  PROVE ProgressInvariant'
<1>1. memFresh /\ cr.cluster = "Updating" => Continues(cr, mem')
  BY DEF ProgressInvariant, Moves, Continues
<1>2. cr.cluster = "Updating" => SameUpdate(mem', cr)
  BY DEF ProgressInvariant, Moves, Continues, SameUpdate
<1>3. memFresh /\ Settled(mem') => Clean(mem')
  BY DEF ProgressInvariant, Moves, Settled
<1> QED
  BY <1>1, <1>2, <1>3 DEF ProgressInvariant, Moves

\* Visits of components with pods are such steps, or end the reconcile.
LEMMA VisitMoves ==
  ASSUME TypeInv, NEW c \in Components, Visit(c)
  PROVE /\ pc = "walk" /\ UNCHANGED <<cr, cache, cacheFresh, safeMode, readOnly, ran>>
        /\ \/ Moves(mem, mem') /\ UNCHANGED <<memFresh, pc, seen>> /\ todo' = todo + 1
           \/ Idle
<1> USE DEF resource, yt, kube
<1>1. mem \in Resource
  BY DEF TypeInv, TypeOK
<1>2. /\ pc = "walk" /\ UNCHANGED <<cr, cache, cacheFresh, safeMode, readOnly, ran>>
  <2>1. CASE Skip(c) \/ SyncServer(c) \/ CreateJob(c) \/ CompleteJob(c)
    BY <2>1 DEF At, Skip, SyncServer, CreateJob, CompleteJob, Visited
  <2>2. CASE RemovePods(c)
    BY <2>2 DEF At, RemovePods, Visited
  <2>3. CASE PrepareRestart(c)
    BY <2>3 DEF At, PrepareRestart, prepareRestart, Visited
  <2>4. CASE PrepareExit(c)
    BY <2>4 DEF At, PrepareExit, prepareRestart, Visited
  <2>5. CASE Report(c)
    BY <2>5 DEF At, Report, Visited
  <2> QED
    BY <2>1, <2>2, <2>3, <2>4, <2>5, Zenon DEF Visit
<1> DEFINE step == doSync(mem, seen)[c]
           Goal == \/ Moves(mem, mem') /\ UNCHANGED <<memFresh, pc, seen>> /\ todo' = todo + 1
                   \/ Idle
<1> SUFFICES Goal
  BY <1>2
<1>3. StepFits(mem, seen, c, step) /\ JobStepFits(mem, seen, c, step)
  BY StepsFit
<1>4. ASSUME NEW v, Moves(mem, v), Visited(v) PROVE Goal
  BY <1>4 DEF Visited
<1>5. ASSUME NEW j, NEW v, Moves(mem, v), prepareRestart(j, v) PROVE Goal
  BY <1>4, <1>5 DEF prepareRestart
<1> HIDE DEF Goal
<1>6. CASE Skip(c) \/ SyncServer(c) \/ CreateJob(c)
  BY <1>1, <1>4, <1>6, MovesOn DEF Skip, SyncServer, CreateJob
<1>7. CASE RemovePods(c)
  <2>1. mem.cluster = "Updating"
    BY <1>3, <1>7 DEF RemovePods, StepFits
  <2> QED
    BY <1>1, <1>4, <1>7, <2>1, MovesOn DEF RemovePods
<1>8. CASE CompleteJob(c)
  BY <1>1, <1>4, <1>8, MovesOn DEF CompleteJob
<1>9. CASE PrepareRestart(c)
  BY <1>1, <1>5, <1>9, MovesOn DEF PrepareRestart
<1>10. CASE PrepareExit(c)
  <2> DEFINE reset == [mem EXCEPT !.jobs["ExitReadOnly"] = "False"]
             prepared(v) == SetCondition(v, "MasterExitReadOnlyPrepared")
  <2>1. mem.cluster = "Updating"
    BY <1>3, <1>10 DEF PrepareExit, StepFits
  <2>2. reset \in Resource /\ Moves(mem, reset) /\ reset.cluster = "Updating"
    <3>1. "ExitReadOnly" \in Jobs
      BY DEF Jobs
    <3> QED
      BY <1>1, <2>1, <3>1, CopyTyped, MovesOn, Zenon DEF Resource
  <2>3. \/ Visited(prepared(mem))
        \/ prepareRestart("ExitReadOnly", prepared(reset))
    BY <1>10 DEF PrepareExit
  <2>4. Moves(mem, prepared(mem)) /\ Moves(reset, prepared(reset))
    BY <1>1, <2>1, <2>2, MovesCondition, Zenon
  <2> HIDE DEF reset, prepared
  <2>5. Moves(mem, prepared(reset))
    BY <2>2, <2>4 DEF Moves, Continues
  <2> QED
    BY <1>4, <1>5, <2>3, <2>4, <2>5
<1>11. CASE Report(c)
  <2>1. step \in {"ExitedReadOnly", "RestartPrepared", "RestartCompleted"}
    BY <1>11 DEF Report
  <2>2. mem.cluster = "Updating"
    BY <1>3, <2>1 DEF StepFits
  <2>3. Moves(mem, [mem EXCEPT !.conditions = (@ \cup {"MasterExitedReadOnly"})
                                                 \ {"MasterExitReadOnlyPrepared"}])
    BY <1>1, <2>2, MovesOn
  <2> QED
    BY <1>1, <1>4, <1>11, <2>2, <2>3, MovesCondition DEF Report
<1> QED
  BY <1>6, <1>7, <1>8, <1>9, <1>10, <1>11 DEF Visit

\* So are the visits of the client.
LEMMA ClientMoves ==
  ASSUME TypeInv, VisitClient \/ NoClient
  PROVE /\ pc = "walk" /\ UNCHANGED <<cr, cache, cacheFresh, ran>>
        /\ \/ Moves(mem, mem') /\ UNCHANGED <<memFresh, pc, seen>> /\ todo' \in {todo, todo + 1}
           \/ Idle
<1> USE DEF resource
<1>1. mem \in Resource
  BY DEF TypeInv, TypeOK
<1> DEFINE Goal == /\ pc = "walk" /\ UNCHANGED <<cr, cache, cacheFresh, ran>>
                   /\ \/ /\ Moves(mem, mem') /\ UNCHANGED <<memFresh, pc, seen>>
                         /\ todo' \in {todo, todo + 1}
                      \/ Idle
<1> SUFFICES Goal
  OBVIOUS
<1>2. ASSUME NEW v, Moves(mem, v), Visited(v), pc = "walk" PROVE Goal
  BY <1>2 DEF Visited
<1>3. ASSUME Failed, pc = "walk" PROVE Goal
  BY <1>3 DEF Failed
<1> HIDE DEF Goal
<1>4. CASE SkipClient \/ NoClient
  BY <1>1, <1>2, <1>4, MovesOn DEF SkipClient, NoClient, At
<1>5. ASSUME NEW s, NEW x, Handling(s, x)
      PROVE pc = "walk" /\ mem.cluster = "Updating"
  BY <1>5 DEF Handling, At, clientStatus
<1>6. CASE HandlePossibilityCheck \/ EnableSafeMode \/ DisableSafeMode
  BY <1>1, <1>2, <1>5, <1>6, MovesCondition
  DEF HandlePossibilityCheck, EnableSafeMode, DisableSafeMode
<1>7. CASE AreTabletCellsRemoved \/ AreMasterSnapshotsBuilt
  BY <1>1, <1>2, <1>5, <1>7, MovesCondition, MovesOn
  DEF AreTabletCellsRemoved, AreMasterSnapshotsBuilt
<1>8. CASE RemoveTabletCells \/ RecoverTableCells
  BY <1>1, <1>2, <1>3, <1>5, <1>8, MovesCondition
  DEF RemoveTabletCells, RecoverTableCells
<1>9. CASE GetTabletCells
  <2>1. pc = "walk" /\ mem.cluster = "Updating"
    BY <1>5, <1>9 DEF GetTabletCells
  <2>2. \A n : Moves(mem, [SetCondition(mem, "TabletCellsSaved") EXCEPT !.bundles = n])
    BY <1>1, <2>1 DEF Moves, Continues, SetCondition, Resource
  <2> QED
    BY <1>2, <1>9, <2>1, <2>2 DEF GetTabletCells
<1>10. CASE StartBuildMasterSnapshots
  <2> DEFINE started == [mem EXCEPT !.conditions = @ \cup
                           {"SnapshotsMonitoringInfoSaved",
                            "SnapshotsBuildingStarted"}]
  <2>1. pc = "walk" /\ mem.cluster = "Updating"
    BY <1>5, <1>10 DEF StartBuildMasterSnapshots
  <2>2. Moves(mem, started)
    BY <1>1, <2>1, MovesOn
  <2>3. \/ mem' = started /\ UNCHANGED <<pc, todo, memFresh, seen, resource>>
        \/ Failed
    BY <1>10 DEF StartBuildMasterSnapshots
  <2> HIDE DEF started
  <2> QED
    BY <1>3, <2>1, <2>2, <2>3 DEF Goal
<1> QED
  BY <1>4, <1>6, <1>7, <1>8, <1>9, <1>10 DEF VisitClient

\* The dry run of the scheduler only adds a condition of an update.
LEMMA MovesObserved ==
  ASSUME NEW v \in Resource
  PROVE Moves(v, Observed(v)) /\ Observed(v) \in Resource
<1>1. Observed(v) \in Resource
  BY ObservedTyped
<1> QED
  BY <1>1, MovesOn DEF Observed

\* A decision to save a status that continues the stored one if it is fresh.
LEMMA SavingProgress ==
  ASSUME ProgressInvariant, NEW v, NEW at \in {"save", "saveNone"}, Saving(v, at),
         cacheFresh => /\ cr.cluster = "Updating" => Continues(cr, v)
                       /\ v.cluster = "Updating" => cr.cluster \in {"Updating", "Running"}
                       /\ Settled(v) => Clean(v),
         UNCHANGED resource
  PROVE ProgressInvariant'
  BY DEF ProgressInvariant, Saving, resource

\* The decisions of a reconcile.
LEMMA DecideProgress ==
  TypeInv /\ CellsInvariant /\ ProgressInvariant /\ Decide => ProgressInvariant'
<1> SUFFICES ASSUME TypeInv, CellsInvariant, ProgressInvariant, Decide
             PROVE ProgressInvariant'
  OBVIOUS
<1>1. cache \in Resource /\ cr \in Resource
  BY DEF TypeInv, TypeOK
<1>2. cacheFresh => cache = cr
  BY DEF CellsInvariant, CopiesAgree
<1>3. Settled(cr) => Clean(cr)
  BY DEF ProgressInvariant
<1>4. \A s \in ClusterState : LET w == SaveClusterState(cache, s)
                             IN w.cluster = s /\ (Clean(cache) => Clean(w))
  BY <1>1 DEF SaveClusterState, Resource, Clean
<1>5. CASE Happy
  BY <1>5 DEF Happy, vars, resource, reconcile, ProgressInvariant
<1>6. CASE StartReconfiguration
  <2> DEFINE w == SaveClusterState(cache, "Reconfiguration")
  <2>1. w.cluster = "Reconfiguration" /\ (Clean(cache) => Clean(w))
    BY <1>4 DEF ClusterState
  <2>2. Saving(w, "save") /\ UNCHANGED resource /\ cache.cluster = "Running"
    BY <1>6 DEF StartReconfiguration
  <2> HIDE DEF w
  <2> QED
    BY <1>2, <1>3, <2>1, <2>2, SavingProgress DEF Settled
<1>7. CASE FinishReconfiguration
  <2> DEFINE w == SaveClusterState(cache, "Running")
  <2>1. w.cluster = "Running" /\ (Clean(cache) => Clean(w))
    BY <1>4 DEF ClusterState
  <2>2. Saving(w, "save") /\ UNCHANGED resource /\ cache.cluster = "Reconfiguration"
    BY <1>7 DEF FinishReconfiguration
  <2> HIDE DEF w
  <2> QED
    BY <1>2, <1>3, <2>1, <2>2, SavingProgress DEF Settled
<1>8. CASE StartUpdate
  <2>1. PICK flow, names :
          LET w == SaveUpdatingClusterState(cache, flow, names)
          IN Saving(w, "save") /\ UNCHANGED resource /\ cache.cluster = "Running"
    BY <1>8 DEF StartUpdate
  <2> DEFINE w == SaveUpdatingClusterState(cache, flow, names)
  <2>2. w.cluster = "Updating"
    BY <1>1 DEF SaveUpdatingClusterState, Resource
  <2>3. Saving(w, "save") /\ UNCHANGED resource /\ cache.cluster = "Running"
    BY <2>1
  <2> HIDE DEF w
  <2> QED
    BY <1>2, <2>2, <2>3, SavingProgress DEF Settled
<1>9. CASE HandleUpdate
  <2> DEFINE v == Observed(cache)
             w(next) == IF next \in UpdateState THEN SaveUpdateState(v, next)
                                                ELSE SaveClusterState(v, next)
  <2>1. PICK next \in UpdateState \cup {"CancelUpdate", "UpdateFinishing"} :
          Saving(w(next), "save")
    BY <1>9 DEF HandleUpdate
  <2>2. UNCHANGED resource /\ cache.cluster = "Updating"
    BY <1>9 DEF HandleUpdate
  <2>3. v \in Resource /\ Continues(cache, v) /\ v.cluster = "Updating"
    BY <1>1, <2>2, MovesObserved DEF Moves
  <2> HIDE DEF v
  <2>4. /\ Continues(v, w(next))
        /\ w(next).cluster \in {"Updating", "CancelUpdate", "UpdateFinishing"}
    BY <2>1, <2>3
    DEF SaveUpdateState, SaveClusterState, Resource, Continues, UpdateState
  <2> HIDE DEF w
  <2>5. Continues(cache, w(next))
    BY <2>3, <2>4 DEF Continues
  <2> QED
    BY <1>2, <2>1, <2>2, <2>4, <2>5, SavingProgress DEF Settled
<1>10. CASE LeaveUpdate
  <2> DEFINE w == SaveUpdateState(cache, "None")
  <2>1. w.cluster = cache.cluster
    BY <1>1 DEF SaveUpdateState, Resource
  <2>2. /\ Saving(w, "saveNone") /\ UNCHANGED resource
        /\ cache.cluster \in {"CancelUpdate", "UpdateFinishing"}
    BY <1>10 DEF LeaveUpdate
  <2> HIDE DEF w
  <2> QED
    BY <1>2, <2>1, <2>2, SavingProgress DEF Settled
<1>11. CASE StartWalk
  <2> DEFINE v == Observed(cache)
  <2>1. /\ mem' = v /\ pc' = "walk" /\ memFresh' = cacheFresh /\ UNCHANGED resource
        /\ v.cluster \in {"Reconfiguration", "Updating"}
    BY <1>11 DEF StartWalk
  <2>2. Moves(cache, v)
    BY <1>1, MovesObserved
  <2> HIDE DEF v
  <2>3. cr.cluster = "Updating" => SameUpdate(v, cr)
    BY <2>1, <2>2 DEF ProgressInvariant, Moves, Continues, SameUpdate
  <2>4. cacheFresh /\ Settled(v) => Clean(v)
    BY <1>2, <1>3, <2>2 DEF Moves, Settled
  <2> QED
    BY <1>2, <2>1, <2>2, <2>3, <2>4 DEF ProgressInvariant, Moves, resource
<1> QED
  BY <1>5, <1>6, <1>7, <1>8, <1>9, <1>10, <1>11 DEF Decide

\* An accepted save is of a copy of the stored status, or of the status before.
LEMMA PersistProgress ==
  TypeInv /\ CellsInvariant /\ ProgressInvariant /\ Persist => ProgressInvariant'
<1> SUFFICES ASSUME TypeInv, CellsInvariant, ProgressInvariant, Persist
             PROVE ProgressInvariant'
  OBVIOUS
<1>1. mem \in Resource /\ cr \in Resource /\ memFresh \in BOOLEAN
  BY DEF TypeInv, TypeOK
<1>2. CASE ~memFresh
  BY <1>2, IdleProgress DEF Persist, Accepted
<1>3. CASE memFresh
  <2>1. /\ cr' = [mem EXCEPT !.spec = cr.spec] /\ cacheFresh' = FALSE
        /\ cache' = cache
    BY <1>3 DEF Persist, Accepted
  <2>2. /\ cr'.cluster = mem.cluster /\ cr'.names = mem.names
        /\ cr'.flow = mem.flow /\ (Clean(mem) => Clean(cr'))
    BY <1>1, <2>1 DEF Clean, Resource
  <2>3. cr'.cluster = "Updating" => cache.cluster = "Running" \/ SameUpdate(cache, cr')
    BY <1>3, <2>2
    DEF ProgressInvariant, CellsInvariant, CopiesAgree, SameUpdate, Continues
  <2>4. Settled(cr') => Clean(cr')
    BY <1>3, <2>2 DEF ProgressInvariant, Settled
  <2>5. CASE pc \notin {"saveNone", "saveClear"}
    <3>1. Idle
      BY <1>3, <2>5, Zenon DEF Persist, Accepted
    <3> QED
      BY <2>1, <2>3, <2>4, <3>1 DEF ProgressInvariant, Idle
  <2>6. CASE pc = "saveNone"
    <3>1. pc' = "saveClear" /\ mem' = ClearUpdateStatus(mem) /\ Leaving(mem)
          /\ mem.state = "None"
      BY <1>3, <2>6 DEF Persist, Accepted, CellsInvariant, CopiesAgree
    <3>2. Clean(mem') /\ mem'.cluster = mem.cluster
      BY <1>1, <3>1 DEF ClearUpdateStatus, Clean, NoCells, Resource
    <3> QED
      BY <2>1, <2>2, <2>3, <2>4, <3>1, <3>2 DEF ProgressInvariant, Leaving, Settled
  <2>7. CASE pc = "saveClear"
    <3>1. pc' = "save" /\ mem' = SaveClusterState(mem, "Running") /\ Leaving(mem)
      BY <1>3, <2>7 DEF Persist, Accepted, CellsInvariant, CopiesAgree
    <3>2. Clean(mem') /\ mem'.cluster = "Running"
      BY <1>1, <2>7, <3>1 DEF SaveClusterState, Clean, Resource, ProgressInvariant
    <3> QED
      BY <2>1, <2>2, <2>3, <2>4, <3>1, <3>2 DEF ProgressInvariant, Leaving
  <2> QED
    BY <2>5, <2>6, <2>7
<1> QED
  BY <1>1, <1>2, <1>3

\* Every step keeps the invariant.
LEMMA NextProgress ==
  TypeInv /\ CellsInvariant /\ ProgressInvariant /\ [Next]_vars => ProgressInvariant'
<1> SUFFICES ASSUME TypeInv, CellsInvariant, ProgressInvariant, [Next]_vars
             PROVE ProgressInvariant'
  OBVIOUS
<1>1. ASSUME UNCHANGED <<cr, cache, cacheFresh, mem, memFresh, pc>>
      PROVE ProgressInvariant'
  BY <1>1 DEF ProgressInvariant
<1>2. CASE UNCHANGED vars
  BY <1>1, <1>2 DEF vars, resource, reconcile
<1>3. CASE Operator
  <2>1. CASE VisitClient \/ NoClient
    BY <2>1, ClientMoves, WalkProgress, IdleProgress
  <2>2. ASSUME NEW c \in Components, Visit(c) PROVE ProgressInvariant'
    BY <2>2, VisitMoves, WalkProgress, IdleProgress
  <2>3. CASE CallFails
    BY <2>3, IdleProgress DEF CallFails, resource
  <2> QED
    BY <1>3, <2>1, <2>2, <2>3, DecideProgress, PersistProgress DEF Operator
<1>4. CASE Deliver
  BY <1>4 DEF Deliver, reconcile, ProgressInvariant, SameUpdate
<1>5. CASE User
  <2>1. PICK spec : Edited(spec)
    BY <1>5, Zenon DEF User, EditImage, EditConfig, EditReplicas, EditPolicy
  <2>2. /\ cr'.cluster = cr.cluster /\ cr'.flow = cr.flow /\ cr'.names = cr.names
        /\ Clean(cr) => Clean(cr')
    BY <2>1 DEF Edited, TypeInv, TypeOK, Resource, Clean
  <2> QED
    BY <2>1, <2>2 DEF Edited, ProgressInvariant, SameUpdate, Settled
<1>6. CASE Kubernetes
  BY <1>1, <1>6
  DEF Kubernetes, PodsStop, PodsStart, PodsBecomeReady, JobRuns, JobCollected,
      JobExpires, resource, reconcile
<1>7. CASE Cluster
  BY <1>1, <1>7
  DEF Cluster, CellGone, SnapshotBuilt, BecomeHealthy, resource, reconcile
<1>8. CASE Fault
  BY <1>1, <1>8, IdleProgress
  DEF Fault, Abort, BecomeUnhealthy, PodsFail, resource, reconcile
<1> QED
  BY <1>2, <1>3, <1>4, <1>5, <1>6, <1>7, <1>8 DEF Next

\* The invariant holds at first.
LEMMA InitProgress == Init => ProgressInvariant
<1> SUFFICES ASSUME Init PROVE ProgressInvariant
  OBVIOUS
<1>1. PICK spec : cr = [InitialResource EXCEPT !.spec = spec]
  BY DEF Init
<1>2. Clean(cr) /\ cr.cluster = "Running"
  BY <1>1 DEF InitialResource, Clean, NoCells
<1> QED
  BY <1>2 DEF Init, ProgressInvariant

\* The three invariants together.
UpdateInv == TypeInv /\ CellsInvariant /\ ProgressInvariant

\* The three invariants hold in every behaviour.
LEMMA UpdateInvariants == Spec => []UpdateInv
<1>1. Init => UpdateInv
  BY InitTyped, InitKeeps, InitProgress DEF UpdateInv
<1>2. UpdateInv /\ [Next]_vars => UpdateInv'
  BY NextTyped, NextKeeps, NextProgress DEF UpdateInv
<1> QED
  BY <1>1, <1>2, PTL DEF Spec

\* A copy that lags behind is of the same update as the stored status or of
\* the moment before it, and one that UpdateStatus would take continues it.
THEOREM ProgressInPlace == Spec => []ProgressInvariant
<1>1. UpdateInv => ProgressInvariant
  BY DEF UpdateInv
<1> QED
  BY <1>1, UpdateInvariants, PTL

-------------------------------------------------------------------------------
(* What follows.                                                           *)

\* The stored status changes only by an accepted save and by an edit.
LEMMA ResourceSteps ==
  ASSUME UpdateInv, [Next]_vars
  PROVE \/ cr' = cr
        \/ memFresh /\ cr' = [mem EXCEPT !.spec = cr.spec]
        \/ \E spec : cr' = [cr EXCEPT !.spec = spec]
<1>1. CASE UNCHANGED vars
  BY <1>1 DEF vars, resource
<1>2. CASE Operator
  <2>1. CASE Persist
    BY <2>1 DEF Persist, Accepted
  <2>2. CASE Decide
    BY <2>2
    DEF Decide, Happy, StartReconfiguration, StartUpdate, FinishReconfiguration,
        HandleUpdate, LeaveUpdate, StartWalk, resource, vars
  <2>3. CASE VisitClient \/ NoClient \/ CallFails \/ \E c \in Components : Visit(c)
    BY <2>3, ClientMoves, VisitMoves DEF UpdateInv, CallFails, resource
  <2> QED
    BY <1>2, <2>1, <2>2, <2>3 DEF Operator
<1>3. CASE User
  BY <1>3, Zenon DEF User, EditImage, EditConfig, EditReplicas, EditPolicy, Edited
<1>4. CASE Deliver \/ Kubernetes \/ Cluster \/ Fault
  BY <1>4
  DEF Deliver, Kubernetes, PodsStop, PodsStart, PodsBecomeReady, JobRuns, JobCollected,
      JobExpires, Cluster, CellGone, SnapshotBuilt, BecomeHealthy, Fault, Abort,
      BecomeUnhealthy, PodsFail, resource
<1> QED
  BY <1>1, <1>2, <1>3, <1>4 DEF Next

\* Until an update finishes, its stored conditions, its progress with the pods,
\* its flow and its component list stay, however stale the copies are that the
\* operator works on: UpdateStatus takes only a copy that continues the stored one.
THEOREM ProgressAlwaysKept == Spec => ProgressIsKept
<1>1. UpdateInv /\ [Next]_vars =>
        [cr.cluster = "Updating" =>
           /\ cr.conditions \ {"MasterExitReadOnlyPrepared"} \subseteq cr'.conditions
           /\ cr.removing \subseteq cr'.removing
           /\ cr.removed \subseteq cr'.removed
           /\ cr'.flow = cr.flow /\ cr'.names = cr.names]_vars
  <2> SUFFICES ASSUME UpdateInv, [Next]_vars, cr.cluster = "Updating"
               PROVE Continues(cr, cr')
    BY DEF Continues
  <2>1. cr \in Resource /\ mem \in Resource
    BY DEF UpdateInv, TypeInv, TypeOK
  <2>2. CASE memFresh /\ cr' = [mem EXCEPT !.spec = cr.spec]
    BY <2>1, <2>2 DEF UpdateInv, ProgressInvariant, Continues, Resource
  <2>3. CASE cr' = cr \/ \E spec : cr' = [cr EXCEPT !.spec = spec]
    BY <2>1, <2>3 DEF Continues, Resource
  <2> QED
    BY <2>2, <2>3, ResourceSteps
<1> QED
  BY <1>1, UpdateInvariants, PTL DEF Spec, ProgressIsKept

\* A StatefulSet changes only when the walk visits its component.
LEMMA ServerSteps ==
  ASSUME UpdateInv, [Next]_vars, NEW c \in Components
  PROVE \/ sts'[c] = sts[c]
        \/ /\ pc = "walk"
           /\ doSync(mem, seen)[c] \in {"RemovePods", "SyncServer"}
<1> USE DEF kube
<1>1. CASE UNCHANGED vars
  BY <1>1 DEF vars
<1>2. CASE Operator
  <2>1. ASSUME NEW d \in Components, Visit(d)
        PROVE \/ UNCHANGED sts
              \/ /\ pc = "walk" /\ \E s : sts' = [sts EXCEPT ![d] = s]
                 /\ doSync(mem, seen)[d] \in {"RemovePods", "SyncServer"}
    BY <2>1 DEF Visit, Skip, RemovePods, SyncServer, CreateJob, CompleteJob,
                PrepareRestart, PrepareExit, Report, At
  <2>2. \A d \in Components : d # c => \A s : [sts EXCEPT ![d] = s][c] = sts[c]
    BY DEF UpdateInv, TypeInv, TypeOK, Servers
  <2>3. CASE \E d \in Components : Visit(d)
    <3>1. PICK d \in Components : Visit(d)
      BY <2>3
    <3>2. CASE UNCHANGED sts
      BY <3>2
    <3>3. CASE /\ pc = "walk" /\ \E s : sts' = [sts EXCEPT ![d] = s]
               /\ doSync(mem, seen)[d] \in {"RemovePods", "SyncServer"}
      <4>1. PICK s : sts' = [sts EXCEPT ![d] = s]
        BY <3>3, Zenon
      <4>2. CASE d = c
        BY <3>3, <4>2
      <4>3. CASE d # c
        BY <2>2, <4>1, <4>3
      <4> QED
        BY <4>2, <4>3
    <3> QED
      BY <2>1, <3>1, <3>2, <3>3
  <2>4. CASE Decide \/ Persist \/ CallFails \/ NoClient
    <3>1. CASE Happy \/ StartReconfiguration \/ StartUpdate \/ FinishReconfiguration
      BY <3>1, Zenon
      DEF Happy, StartReconfiguration, StartUpdate, FinishReconfiguration, vars
    <3>2. CASE HandleUpdate \/ LeaveUpdate \/ StartWalk
      BY <3>2, Zenon DEF HandleUpdate, LeaveUpdate, StartWalk
    <3>3. CASE Persist \/ CallFails \/ NoClient
      BY <3>3, Zenon DEF Persist, CallFails, NoClient
    <3> QED
      BY <2>4, <3>1, <3>2, <3>3, Zenon DEF Decide
  <2>5. CASE VisitClient
    BY <2>5
    DEF VisitClient, SkipClient, HandlePossibilityCheck, EnableSafeMode, GetTabletCells,
        RemoveTabletCells, AreTabletCellsRemoved, StartBuildMasterSnapshots,
        AreMasterSnapshotsBuilt, RecoverTableCells, DisableSafeMode
  <2> QED
    BY <1>2, <2>3, <2>4, <2>5 DEF Operator
<1>3. CASE User
  BY <1>3, Zenon DEF User, EditImage, EditConfig, EditReplicas, EditPolicy, Edited
<1>4. CASE Deliver \/ Kubernetes \/ Cluster \/ Fault
  <2>1. CASE Deliver
    BY <2>1, Zenon DEF Deliver
  <2>2. CASE Kubernetes
    BY <2>2, Zenon DEF Kubernetes, PodsStop, PodsStart, PodsBecomeReady, PodsTo, JobRuns,
                       JobCollected, JobExpires
  <2>3. CASE Cluster
    BY <2>3, Zenon DEF Cluster, CellGone, SnapshotBuilt, BecomeHealthy
  <2>4. CASE Fault
    BY <2>4, Zenon DEF Fault, Abort, BecomeUnhealthy, PodsFail, PodsTo
  <2> QED
    BY <1>4, <2>1, <2>2, <2>3, <2>4, Zenon
<1> QED
  BY <1>1, <1>2, <1>3, <1>4 DEF Next

\* While an update is under way only the StatefulSets of the components it
\* selected change, even if the walk works on a copy that is out of date: that
\* copy is of the same update, and IsUpdatingComponent guards every handler.
THEOREM OthersStay == Spec => OnlySelectedChange
<1>1. UpdateInv /\ [Next]_vars =>
        [cr.cluster = "Updating" =>
           \A c \in Components :
             cr.names # {} /\ c \notin cr.names => sts'[c] = sts[c]]_vars
  <2> SUFFICES ASSUME UpdateInv, [Next]_vars, cr.cluster = "Updating",
                      NEW c \in Components, cr.names # {}, c \notin cr.names
               PROVE sts'[c] = sts[c]
    OBVIOUS
  <2>1. pc = "walk" => mem.cluster = "Updating" /\ mem.names = cr.names
    BY DEF UpdateInv, ProgressInvariant, SameUpdate
  <2>2. pc = "walk" => doSync(mem, seen)[c] \notin {"RemovePods", "SyncServer"}
    BY <2>1, StepsFit DEF StepFits, IsUpdatingComponent
  <2> QED
    BY <2>2, ServerSteps
<1> QED
  BY <1>1, UpdateInvariants, PTL DEF Spec, OnlySelectedChange

-------------------------------------------------------------------------------
(* Where the walk is.                                                      *)

\* The component the walk is at is still ahead, and no longer after its visit.
LEMMA AtAhead ==
  ASSUME TypeInv, NEW c, At(c)
  PROVE Ahead(c) /\ (todo' = todo + 1 => ~Ahead(c)')
<1>1. todo \in Nat /\ todo \in DOMAIN Order /\ Order[todo] = c /\ pc = "walk"
  BY DEF TypeInv, TypeOK, At
<1>2. \A i \in DOMAIN Order : Order[i] = c => i = todo
  BY <1>1, RolesAssumption
<1>3. Ahead(c)
  BY <1>1, <1>2 DEF Ahead
<1>4. todo' = todo + 1 => ~(todo' <= todo)
  BY <1>1
<1> QED
  BY <1>1, <1>3, <1>4 DEF Ahead

\* A component that is ahead was ahead before.
LEMMA AheadStays ==
  ASSUME TypeInv, pc = "walk", todo' \in {todo, todo + 1}, NEW c, Ahead(c)'
  PROVE Ahead(c)
<1>1. todo \in Nat /\ \A i \in DOMAIN Order : i \in Int
  BY UpdateAssumption DEF TypeInv, TypeOK
<1>2. \A i \in DOMAIN Order : todo' <= i => todo <= i
  BY <1>1
<1> QED
  BY <1>2 DEF Ahead


-------------------------------------------------------------------------------
(* The masters: RestoreInvariant is inductive.                             *)

\* Statuses that say the same about the masters.
SameMasters(v, w) ==
  /\ v.cluster = w.cluster /\ v.state = w.state /\ v.flow = w.flow
  /\ v.jobs["ExitReadOnly"] = w.jobs["ExitReadOnly"]
  /\ \A x \in {"MasterExitReadOnlyPrepared", "MasterExitedReadOnly", "SafeModeDisabled"} :
       x \in v.conditions <=> x \in w.conditions

\* Statuses that agree about the masters are right about them together.
LEMMA SameMastersPhase ==
  ASSUME NEW v, NEW w, NEW safe, NEW ro, NEW done, SameMasters(v, w),
         WritesInPhase(v, safe, ro, done)
  PROVE WritesInPhase(w, safe, ro, done)
  BY DEF SameMasters, WritesInPhase, StopsMasters

\* Updates of a copy that say nothing new about the masters.
LEMMA SameMastersCopies ==
  ASSUME NEW v \in Resource
  PROVE /\ SameMasters(v, v)
        /\ \A s : SameMasters(v, [v EXCEPT !.spec = s])
        /\ \A S : SameMasters(v, [v EXCEPT !.removing = S])
        /\ \A S : SameMasters(v, [v EXCEPT !.removed = S])
        /\ \A j \in Migrations : \A s : SameMasters(v, [v EXCEPT !.jobs[j] = s])
  BY DEF SameMasters, Resource, Migrations, Jobs

\* Other conditions do not matter to the masters.
LEMMA SameMastersConditions ==
  ASSUME NEW v \in Resource, NEW C,
         \A x \in {"MasterExitReadOnlyPrepared", "MasterExitedReadOnly",
                   "SafeModeDisabled"} : x \in C <=> x \in v.conditions
  PROVE SameMasters(v, [v EXCEPT !.conditions = C])
  BY DEF SameMasters, Resource

\* What is said stays true when the masters become writable, when the job
\* starts over, and, while an update stops the masters, when it does so.
LEMMA WritesWeaker ==
  ASSUME NEW r, NEW safe, NEW ro, NEW done, WritesInPhase(r, safe, ro, done)
  PROVE /\ \A x : WritesInPhase(r, safe, {}, x)
        /\ WritesInPhase(r, safe, ro, FALSE)
        /\ WritesInPhase(r, FALSE, ro, done)
        /\ r.cluster = "Updating" /\ r.state = "WaitingForSafeModeEnabled" =>
             WritesInPhase(r, TRUE, ro, done)
        /\ r.cluster = "Updating" /\ r.state = "WaitingForSnapshots" =>
             \A x : WritesInPhase(r, safe, x, done)
  BY DEF WritesInPhase, StopsMasters, MasterStates, BeforeSnapshots, BeforeRemoval,
         Removing, AfterExit, AfterRecovery

\* KeepsStopping along the walk.
LEMMA MovesKeepsStopping ==
  ASSUME NEW v, NEW w, NEW u, Moves(v, w)
  PROVE /\ KeepsStopping(v, u) => KeepsStopping(w, u)
        /\ KeepsStopping(u, v) => KeepsStopping(u, w)
  BY DEF Moves, Continues, KeepsStopping, Ongoing

\* A status keeps pace with itself.
LEMMA KeepsStoppingItself == \A v : KeepsStopping(v, v)
  BY DEF KeepsStopping, Ongoing

\* The spec of a copy does not matter.
LEMMA KeepsStoppingSpec ==
  ASSUME NEW v \in Resource, NEW s, NEW u
  PROVE /\ KeepsStopping(v, u) => KeepsStopping([v EXCEPT !.spec = s], u)
        /\ KeepsStopping(u, v) => KeepsStopping(u, [v EXCEPT !.spec = s])
  BY DEF KeepsStopping, Ongoing, Resource

\* The handlers save a state that fits what the masters have gone through.
LEMMA HandlersRestore ==
  ASSUME NEW v \in Resource, NEW cm, NEW next, v.cluster = "Updating",
         NEW safe, NEW ro, NEW done, WritesInPhase(v, safe, ro, done),
         handleFlow(v, cm, next)
  PROVE LET w == IF next \in UpdateState THEN SaveUpdateState(v, next)
                                         ELSE SaveClusterState(v, next)
        IN WritesInPhase(w, safe, ro, done) /\ KeepsStopping(v, w)
<1> DEFINE w == IF next \in UpdateState THEN SaveUpdateState(v, next)
                                        ELSE SaveClusterState(v, next)
<1>1. /\ w.flow = v.flow /\ w.conditions = v.conditions /\ w.jobs = v.jobs
      /\ next \in UpdateState => w.state = next /\ w.cluster = "Updating"
      /\ next \notin UpdateState => w.state = v.state /\ w.cluster = next
  BY DEF SaveUpdateState, SaveClusterState, Resource
<1> SUFFICES WritesInPhase(w, safe, ro, done) /\ KeepsStopping(v, w)
  OBVIOUS
<1> HIDE DEF w
<1> USE DEF WritesInPhase, KeepsStopping, Ongoing, StopsMasters, MasterStates,
            BeforeSnapshots, BeforeRemoval, Removing, AfterExit, AfterRecovery,
            UpdateState, Passed, checkPossibility, cancelImpossible, replacePods,
            updateState, removeTabletCells
<1>2. CASE v.flow = "Full"
  BY <1>1, <1>2 DEF handleFlow, handleEverything
<1>3. CASE v.flow = "Stateless"
  BY <1>1, <1>3 DEF handleFlow, handleStateless
<1>4. CASE v.flow = "Master"
  BY <1>1, <1>4 DEF handleFlow, handleMasterOnly
<1>5. CASE v.flow = "TabletNodes"
  BY <1>1, <1>5 DEF handleFlow, handleTabletNodesOnly
<1> QED
  BY <1>2, <1>3, <1>4, <1>5 DEF handleFlow

-------------------------------------------------------------------------------
(* The masters, step by step.                                              *)

\* A step of the walk.
LEMMA WalkRestores ==
  ASSUME RestoreInvariant, pc = "walk", Moves(mem, mem'),
         UNCHANGED <<cr, cache, memFresh, pc, seen>>,
         job'["ExitReadOnly"] \in {"none", "active", "done"},
         WritesInPhase(cr, safeMode', readOnly', ExitDone'),
         memFresh => WritesInPhase(mem', safeMode', readOnly', ExitDone'),
         ExitInWalk'
  PROVE RestoreInvariant'
<1>1. KeepsStopping(mem', cr) /\ (memFresh => KeepsStopping(cr, mem'))
  BY MovesKeepsStopping DEF RestoreInvariant
<1> QED
  BY <1>1 DEF RestoreInvariant, JobsVanish

\* A reconcile that ends.
LEMMA IdleRestores ==
  ASSUME RestoreInvariant, Idle, UNCHANGED <<cr, cache>>,
         job'["ExitReadOnly"] \in {"none", "active", "done"},
         WritesInPhase(cr, safeMode', readOnly', ExitDone')
  PROVE RestoreInvariant'
<1>1. seen'.job["ExitReadOnly"] = "none"
  BY DEF Idle, InitialObjects, Jobs
<1> QED
  BY <1>1 DEF RestoreInvariant, JobsVanish, Idle, ExitInWalk, Ahead

\* Visits of other components have nothing to do with the masters.
LEMMA OtherVisit ==
  ASSUME TypeInv, NEW c \in Components, c # Master, Visit(c)
  PROVE /\ job'["ExitReadOnly"] = job["ExitReadOnly"]
        /\ Idle \/ SameMasters(mem, mem')
<1> USE DEF kube
<1>1. mem \in Resource /\ job \in [Jobs -> JobState]
  BY DEF TypeInv, TypeOK
<1> DEFINE step == doSync(mem, seen)[c]
           j == JobFor(c)
<1>2. StepFits(mem, seen, c, step) /\ JobStepFits(mem, seen, c, step)
  BY StepsFit
<1>3. CASE Skip(c) \/ SyncServer(c)
  BY <1>1, <1>3, SameMastersCopies DEF Skip, SyncServer, Visited
<1>4. CASE RemovePods(c)
  BY <1>1, <1>4, SameMastersCopies DEF RemovePods, Visited
<1>5. CASE CreateJob(c) \/ CompleteJob(c)
  <2>1. j \in Migrations /\ j # "ExitReadOnly"
    BY <1>2, <1>5 DEF CreateJob, CompleteJob, JobStepFits, Migrations
  <2>2. \/ Visited(mem) /\ job' = [job EXCEPT ![j] = "active"]
        \/ Visited([mem EXCEPT !.jobs[j] = "True"]) /\ job' = job
    BY <1>5 DEF CreateJob, CompleteJob
  <2> HIDE DEF j
  <2>3. SameMasters(mem, mem) /\ SameMasters(mem, [mem EXCEPT !.jobs[j] = "True"])
    BY <1>1, <2>1, SameMastersCopies
  <2>4. [job EXCEPT ![j] = "active"]["ExitReadOnly"] = job["ExitReadOnly"]
    BY <1>1, <2>1 DEF Jobs
  <2> QED
    BY <2>2, <2>3, <2>4, Zenon DEF Visited
<1>6. CASE PrepareRestart(c)
  <2>1. j \in Migrations /\ j # "ExitReadOnly"
    BY <1>2, <1>6 DEF PrepareRestart, JobStepFits, Migrations
  <2>2. prepareRestart(j, [mem EXCEPT !.jobs[j] = "False"])
    BY <1>6 DEF PrepareRestart
  <2> HIDE DEF j
  <2>3. SameMasters(mem, [mem EXCEPT !.jobs[j] = "False"])
    BY <1>1, <2>1, SameMastersCopies
  <2> QED
    BY <1>1, <2>1, <2>2, <2>3 DEF prepareRestart, Visited
<1>7. CASE PrepareExit(c)
  BY <1>2, <1>7 DEF PrepareExit, StepFits
<1>8. CASE Report(c)
  <2>1. \E x \in UpdateCondition \ {"MasterExitReadOnlyPrepared", "MasterExitedReadOnly",
                                    "SafeModeDisabled"} :
          Visited(SetCondition(mem, x))
    BY <1>2, <1>8 DEF Report, StepFits, UpdateCondition
  <2> QED
    BY <1>1, <1>8, <2>1, SameMastersConditions DEF Report, Visited, SetCondition
<1> QED
  BY <1>3, <1>4, <1>5, <1>6, <1>7, <1>8 DEF Visit

\* The visit of the masters themselves.
LEMMA MasterVisitRestores ==
  ASSUME ~JobsLinger, TypeInv, RestoreInvariant, Visit(Master)
  PROVE RestoreInvariant'
<1> USE DEF kube
<1>1. /\ mem \in Resource /\ cr \in Resource /\ job \in [Jobs -> JobState]
      /\ memFresh \in BOOLEAN /\ "ExitReadOnly" \in Jobs
  BY DEF TypeInv, TypeOK, Jobs
<1> DEFINE step == doSync(mem, seen)[Master]
<1>2. /\ StepFits(mem, seen, Master, step) /\ JobStepFits(mem, seen, Master, step)
      /\ JobFor(Master) = "ExitReadOnly"
  BY StepsFit, Roles DEF JobFor
<1>3. At(Master)
  BY DEF Visit, Skip, SyncServer, RemovePods, CreateJob, CompleteJob, PrepareRestart,
         PrepareExit, Report
<1>4. pc = "walk" /\ Ahead(Master) /\ (todo' = todo + 1 => ~Ahead(Master)')
  BY <1>3, AtAhead DEF At
<1>5. /\ UNCHANGED <<cr, cache, safeMode, readOnly>>
      /\ \/ Moves(mem, mem') /\ UNCHANGED <<memFresh, pc, seen>> /\ todo' = todo + 1
         \/ Idle
  BY VisitMoves, Roles
<1>6. /\ WritesInPhase(cr, safeMode, readOnly, ExitDone)
      /\ memFresh => WritesInPhase(mem, safeMode, readOnly, ExitDone)
      /\ JobsVanish
  BY DEF RestoreInvariant
<1>7. /\ seen.job["ExitReadOnly"] = "none" => job["ExitReadOnly"] = "none"
      /\ memFresh /\ mem.cluster = "Updating"
         /\ mem.state = "WaitingForMasterExitReadOnly" =>
           /\ "MasterExitedReadOnly" \notin mem.conditions
           /\ /\ "MasterExitReadOnlyPrepared" \in mem.conditions
              /\ seen.job["ExitReadOnly"] = "done"
              => readOnly = {}
  BY <1>4 DEF RestoreInvariant, ExitInWalk
\* It is enough to look at the job and at what the copy says.
<1>8. ASSUME job'["ExitReadOnly"] = job["ExitReadOnly"]
             \/ job'["ExitReadOnly"] \in {"none", "active"},
             memFresh /\ ~Idle => WritesInPhase(mem', safeMode, readOnly, ExitDone')
      PROVE RestoreInvariant'
  <2>1. job'["ExitReadOnly"] \in {"none", "active", "done"}
    BY <1>6, <1>8 DEF JobsVanish
  <2>2. WritesInPhase(cr, safeMode', readOnly', ExitDone')
    <3>1. CASE job'["ExitReadOnly"] = job["ExitReadOnly"]
      BY <1>5, <1>6, <3>1 DEF ExitDone
    <3>2. CASE job'["ExitReadOnly"] \in {"none", "active"}
      <4>1. ExitDone' = FALSE
        BY <3>2 DEF ExitDone
      <4> QED
        BY <1>5, <1>6, <4>1, WritesWeaker, Zenon
    <3> QED
      BY <1>8, <3>1, <3>2
  <2>3. CASE Idle
    BY <1>5, <2>1, <2>2, <2>3, IdleRestores
  <2>4. CASE ~Idle
    <3>1. ExitInWalk'
      BY <1>4, <1>5, <2>4 DEF ExitInWalk
    <3> QED
      BY <1>4, <1>5, <1>8, <2>1, <2>2, <2>4, <3>1, WalkRestores
  <2> QED
    BY <2>3, <2>4
<1>9. ASSUME SameMasters(mem, mem'), UNCHANGED job PROVE RestoreInvariant'
  <2>1. memFresh => WritesInPhase(mem', safeMode, readOnly, ExitDone')
    BY <1>6, <1>9, SameMastersPhase DEF ExitDone
  <2> QED
    BY <1>8, <1>9, <2>1
<1>10. CASE Skip(Master) \/ SyncServer(Master)
  BY <1>1, <1>9, <1>10, SameMastersCopies DEF Skip, SyncServer, Visited
<1>11. CASE RemovePods(Master)
  BY <1>1, <1>9, <1>11, SameMastersCopies DEF RemovePods, Visited
<1>12. CASE CreateJob(Master)
  <2>1. mem' = mem /\ job' = [job EXCEPT !["ExitReadOnly"] = "active"]
    BY <1>2, <1>12 DEF CreateJob, Visited
  <2>2. job'["ExitReadOnly"] = "active" /\ ExitDone' = FALSE
    BY <1>1, <2>1 DEF ExitDone
  <2>3. memFresh => WritesInPhase(mem', safeMode, readOnly, ExitDone')
    BY <1>6, <2>1, <2>2, WritesWeaker, Zenon
  <2> QED
    BY <1>8, <2>2, <2>3
<1>13. CASE CompleteJob(Master)
  <2>1. mem' = [mem EXCEPT !.jobs["ExitReadOnly"] = "True"] /\ job' = job
    BY <1>2, <1>13 DEF CompleteJob, Visited
  <2>2. /\ mem.cluster = "Updating" /\ mem.state = "WaitingForMasterExitReadOnly"
        /\ "MasterExitReadOnlyPrepared" \in mem.conditions
        /\ seen.job["ExitReadOnly"] = "done"
    BY <1>2, <1>6, <1>13, Roles
    DEF CompleteJob, JobStepFits, JobsVanish, Migrations, Migrator
  <2>3. memFresh => readOnly = {}
    BY <1>7, <2>2
  <2>4. /\ mem'.cluster = mem.cluster /\ mem'.state = mem.state
        /\ mem'.flow = mem.flow /\ mem'.conditions = mem.conditions
    BY <1>1, <2>1 DEF Resource
  <2>5. memFresh => WritesInPhase(mem', safeMode, readOnly, ExitDone')
    BY <1>6, <2>2, <2>3, <2>4 DEF WritesInPhase, StopsMasters
  <2> QED
    BY <1>8, <2>1, <2>5
<1>14. CASE PrepareRestart(Master)
  BY <1>2, <1>14, Roles DEF PrepareRestart, JobStepFits, Migrations
<1>15. CASE PrepareExit(Master)
  <2>1. /\ mem.cluster = "Updating" /\ mem.state = "WaitingForMasterExitReadOnly"
        /\ "MasterExitReadOnlyPrepared" \notin mem.conditions
    BY <1>2, <1>15 DEF PrepareExit, StepFits
  <2>2. /\ job'["ExitReadOnly"] = "none"
        /\ \/ Idle
           \/ /\ mem'.cluster = mem.cluster /\ mem'.state = mem.state
              /\ mem'.flow = mem.flow /\ mem'.jobs["ExitReadOnly"] = "False"
              /\ mem'.conditions = mem.conditions \cup {"MasterExitReadOnlyPrepared"}
    <3>1. CASE isRestartPrepared(mem, seen, "ExitReadOnly")
      <4>1. Visited(SetCondition(mem, "MasterExitReadOnlyPrepared")) /\ job' = job
        BY <1>15, <3>1 DEF PrepareExit
      <4>2. mem.jobs["ExitReadOnly"] = "False" /\ job["ExitReadOnly"] = "none"
        BY <1>7, <3>1 DEF isRestartPrepared, jobExists
      <4> QED
        BY <1>1, <4>1, <4>2 DEF Visited, SetCondition, Resource
    <3>2. CASE ~isRestartPrepared(mem, seen, "ExitReadOnly")
      <4> DEFINE reset == [mem EXCEPT !.jobs["ExitReadOnly"] = "False"]
      <4>1. prepareRestart("ExitReadOnly",
                           SetCondition(reset, "MasterExitReadOnlyPrepared"))
        BY <1>15, <3>2 DEF PrepareExit
      <4>2. /\ reset.cluster = mem.cluster /\ reset.state = mem.state
            /\ reset.flow = mem.flow /\ reset.conditions = mem.conditions
            /\ reset.jobs["ExitReadOnly"] = "False" /\ reset \in Resource
        <5>1. reset \in Resource
          BY <1>1, CopyTyped, Zenon
        <5> QED
          <6>1. mem.jobs \in [Jobs -> {"Unknown", "False", "True"}] /\ "ExitReadOnly" \in Jobs
            BY <1>1 DEF Resource, Jobs
          <6>2. /\ reset.cluster = mem.cluster /\ reset.state = mem.state
                /\ reset.flow = mem.flow /\ reset.conditions = mem.conditions
                /\ reset.jobs = [mem.jobs EXCEPT !["ExitReadOnly"] = "False"]
            BY <1>1, Zenon DEF Resource
          <6> QED
            BY <5>1, <6>1, <6>2, Zenon
      <4> HIDE DEF reset
      <4>3. job'["ExitReadOnly"] = "none"
        BY <1>1, <4>1 DEF prepareRestart
      <4> QED
        BY <4>1, <4>2, <4>3 DEF prepareRestart, Visited, SetCondition, Resource
    <3> QED
      BY <3>1, <3>2
  <2>3. memFresh => "MasterExitedReadOnly" \notin mem.conditions
    BY <1>7, <2>1
  <2>4. memFresh /\ ~Idle => WritesInPhase(mem', safeMode, readOnly, ExitDone')
    BY <1>6, <2>1, <2>2, <2>3 DEF WritesInPhase, StopsMasters, ExitDone
  <2> QED
    BY <1>8, <2>2, <2>4
<1>16. CASE Report(Master)
  <2>1. step = "ExitedReadOnly" /\ job' = job
        /\ mem' = [mem EXCEPT !.conditions = (@ \cup {"MasterExitedReadOnly"})
                                               \ {"MasterExitReadOnlyPrepared"}]
    BY <1>2, <1>16, Roles DEF Report, JobStepFits, Migrations, Visited
  <2>2. /\ mem.cluster = "Updating" /\ mem.state = "WaitingForMasterExitReadOnly"
        /\ "MasterExitReadOnlyPrepared" \in mem.conditions
        /\ mem.jobs["ExitReadOnly"] = "True"
    BY <1>2, <2>1 DEF StepFits
  <2>3. memFresh => readOnly = {}
    BY <1>6, <2>2 DEF WritesInPhase
  <2>4. /\ mem'.cluster = mem.cluster /\ mem'.state = mem.state
        /\ mem'.flow = mem.flow /\ mem'.jobs = mem.jobs
        /\ mem'.conditions = (mem.conditions \cup {"MasterExitedReadOnly"})
                               \ {"MasterExitReadOnlyPrepared"}
    BY <1>1, <2>1 DEF Resource
  <2>5. memFresh => WritesInPhase(mem', safeMode, readOnly, ExitDone')
    BY <1>6, <2>2, <2>3, <2>4 DEF WritesInPhase, StopsMasters
  <2> QED
    BY <1>8, <2>1, <2>5
<1> QED
  BY <1>10, <1>11, <1>12, <1>13, <1>14, <1>15, <1>16 DEF Visit

\* A step of the walk that does nothing to the masters.
LEMMA WalkAway ==
  ASSUME TypeInv, RestoreInvariant, pc = "walk",
         UNCHANGED <<cr, cache, safeMode, readOnly>>,
         job'["ExitReadOnly"] = job["ExitReadOnly"],
         \/ /\ Moves(mem, mem') /\ SameMasters(mem, mem')
            /\ UNCHANGED <<memFresh, pc, seen>> /\ todo' \in {todo, todo + 1}
         \/ Idle
  PROVE RestoreInvariant'
<1>1. job'["ExitReadOnly"] \in {"none", "active", "done"} /\ ExitDone' = ExitDone
  BY DEF RestoreInvariant, JobsVanish, ExitDone
<1>2. WritesInPhase(cr, safeMode', readOnly', ExitDone')
  BY <1>1 DEF RestoreInvariant
<1>3. CASE Idle
  BY <1>1, <1>2, <1>3, IdleRestores
<1>4. CASE /\ Moves(mem, mem') /\ SameMasters(mem, mem')
           /\ UNCHANGED <<memFresh, pc, seen>> /\ todo' \in {todo, todo + 1}
  <2>1. memFresh => WritesInPhase(mem', safeMode', readOnly', ExitDone')
    BY <1>1, <1>4, SameMastersPhase DEF RestoreInvariant
  <2>2. Ahead(Master)' => Ahead(Master)
    BY <1>4, AheadStays
  <2>3. ExitInWalk'
    BY <1>4, <2>2 DEF RestoreInvariant, ExitInWalk, SameMasters
  <2> QED
    BY <1>1, <1>2, <1>4, <2>1, <2>3, WalkRestores
<1> QED
  BY <1>3, <1>4

\* A visit of the walk keeps the invariant.
LEMMA VisitRestores ==
  ASSUME ~JobsLinger, TypeInv, RestoreInvariant, NEW c \in Components, Visit(c)
  PROVE RestoreInvariant'
<1>1. CASE c = Master
  BY <1>1, MasterVisitRestores
<1>2. CASE c # Master
  BY <1>2, OtherVisit, VisitMoves, WalkAway
<1> QED
  BY <1>1, <1>2

\* The visits of the client: it stops the masters only while the stored status
\* says so too.
LEMMA ClientRestores ==
  ASSUME TypeInv, RestoreInvariant, VisitClient \/ NoClient
  PROVE RestoreInvariant'
<1> USE DEF kube
<1>1. mem \in Resource
  BY DEF TypeInv, TypeOK
<1>2. /\ pc = "walk" /\ UNCHANGED <<cr, cache>>
      /\ \/ /\ Moves(mem, mem') /\ UNCHANGED <<memFresh, pc, seen>>
            /\ todo' \in {todo, todo + 1}
         \/ Idle
  BY ClientMoves
<1>3. UNCHANGED job
  BY DEF VisitClient, SkipClient, HandlePossibilityCheck, EnableSafeMode, GetTabletCells,
         RemoveTabletCells, AreTabletCellsRemoved, StartBuildMasterSnapshots,
         AreMasterSnapshotsBuilt, RecoverTableCells, DisableSafeMode, NoClient
<1>4. \A x \in UpdateCondition \ {"MasterExitReadOnlyPrepared", "MasterExitedReadOnly",
                                  "SafeModeDisabled"} : SameMasters(mem, SetCondition(mem, x))
  BY <1>1, SameMastersConditions DEF SetCondition
<1>5. ASSUME UNCHANGED <<safeMode, readOnly>>, Idle \/ SameMasters(mem, mem')
      PROVE RestoreInvariant'
  BY <1>2, <1>3, <1>5, WalkAway
<1>6. /\ WritesInPhase(cr, safeMode, readOnly, ExitDone) /\ KeepsStopping(mem, cr)
      /\ memFresh => WritesInPhase(mem, safeMode, readOnly, ExitDone)
      /\ job'["ExitReadOnly"] \in {"none", "active", "done"} /\ ExitDone' = ExitDone
  BY <1>2, <1>3 DEF RestoreInvariant, JobsVanish, ExitDone
<1>7. CASE SkipClient \/ NoClient
  BY <1>1, <1>5, <1>7, SameMastersCopies DEF SkipClient, NoClient, Visited, yt
<1>8. CASE HandlePossibilityCheck
  BY <1>4, <1>5, <1>8 DEF HandlePossibilityCheck, Visited, yt, UpdateCondition
<1>9. CASE AreTabletCellsRemoved \/ AreMasterSnapshotsBuilt
  BY <1>1, <1>4, <1>5, <1>9, SameMastersCopies
  DEF AreTabletCellsRemoved, AreMasterSnapshotsBuilt, Visited, yt, UpdateCondition
<1>10. CASE RemoveTabletCells \/ RecoverTableCells
  BY <1>4, <1>5, <1>10
  DEF RemoveTabletCells, RecoverTableCells, Visited, Failed, UpdateCondition
<1>11. CASE GetTabletCells
  <2>1. \A n : SameMasters(mem, [SetCondition(mem, "TabletCellsSaved") EXCEPT !.bundles = n])
    BY <1>1 DEF SameMasters, SetCondition, Resource
  <2> QED
    BY <1>5, <1>11, <2>1 DEF GetTabletCells, Visited, yt
<1>12. CASE EnableSafeMode
  <2>1. /\ mem' = SetCondition(mem, "SafeModeEnabled") /\ safeMode' = TRUE
        /\ UNCHANGED <<readOnly, memFresh, pc, seen>> /\ todo' = todo + 1
    BY <1>12 DEF EnableSafeMode, Visited
  <2>2. Ongoing(mem, "WaitingForSafeModeEnabled", "SafeModeEnabled")
    BY <1>12 DEF EnableSafeMode, Handling, clientStatus, Ongoing
  <2>3. SameMasters(mem, mem')
    BY <1>4, <2>1 DEF UpdateCondition
  <2>4. WritesInPhase(cr, safeMode', readOnly', ExitDone')
    BY <1>6, <2>1, <2>2, WritesWeaker, Zenon DEF KeepsStopping
  <2>5. memFresh => WritesInPhase(mem', safeMode', readOnly', ExitDone')
    BY <1>6, <2>1, <2>2, <2>3, WritesWeaker, SameMastersPhase, Zenon DEF Ongoing
  <2>6. ExitInWalk'
    <3>1. mem'.state = "WaitingForSafeModeEnabled"
      BY <2>2, <2>3 DEF Ongoing, SameMasters
    <3>2. Ahead(Master)' => Ahead(Master)
      BY <1>2, <2>1, AheadStays
    <3> QED
      BY <1>3, <2>1, <3>1, <3>2 DEF ExitInWalk, RestoreInvariant
  <2>7. Moves(mem, mem')
    BY <1>1, <2>1, <2>2, MovesCondition DEF Ongoing
  <2> QED
    BY <1>2, <1>6, <2>1, <2>4, <2>5, <2>6, <2>7, WalkRestores, Zenon
<1>13. CASE DisableSafeMode
  <2>1. /\ mem' = SetCondition(mem, "SafeModeDisabled") /\ safeMode' = FALSE
        /\ UNCHANGED <<readOnly, memFresh, pc, seen>> /\ todo' = todo + 1
    BY <1>13 DEF DisableSafeMode, Visited
  <2>2. Ongoing(mem, "WaitingForSafeModeDisabled", "SafeModeDisabled")
    BY <1>13 DEF DisableSafeMode, Handling, clientStatus, Ongoing
  <2>3. /\ mem'.cluster = mem.cluster /\ mem'.state = mem.state
        /\ mem'.flow = mem.flow /\ mem'.jobs = mem.jobs
        /\ mem'.conditions = mem.conditions \cup {"SafeModeDisabled"}
    BY <1>1, <2>1 DEF SetCondition, Resource
  <2>4. WritesInPhase(cr, safeMode', readOnly', ExitDone')
    BY <1>6, <2>1, WritesWeaker, Zenon
  <2>5. memFresh => WritesInPhase(mem', safeMode', readOnly', ExitDone')
    BY <1>6, <2>1, <2>2, <2>3 DEF WritesInPhase, StopsMasters, Ongoing
  <2>6. ExitInWalk'
    <3>1. Ahead(Master)' => Ahead(Master)
      BY <1>2, <2>1, AheadStays
    <3> QED
      BY <1>3, <2>1, <2>2, <2>3, <3>1 DEF ExitInWalk, RestoreInvariant, Ongoing
  <2>7. Moves(mem, mem')
    BY <1>1, <2>1, <2>2, MovesCondition DEF Ongoing
  <2> QED
    BY <1>2, <1>6, <2>1, <2>4, <2>5, <2>6, <2>7, WalkRestores
<1>14. CASE StartBuildMasterSnapshots
  <2>1. Ongoing(mem, "WaitingForSnapshots", "SnaphotsSaved") /\ UNCHANGED safeMode
    BY <1>14 DEF StartBuildMasterSnapshots, Handling, clientStatus, Ongoing
  <2>2. WritesInPhase(cr, safeMode', readOnly', ExitDone')
    BY <1>6, <2>1, WritesWeaker, Zenon DEF KeepsStopping
  <2>3. CASE Idle
    BY <1>2, <1>6, <2>2, <2>3, IdleRestores
  <2>4. CASE ~Idle
    <3> DEFINE started == [mem EXCEPT !.conditions = @ \cup
                             {"SnapshotsMonitoringInfoSaved",
                              "SnapshotsBuildingStarted"}]
    <3>1. mem' = started
      BY <1>14, <2>4 DEF StartBuildMasterSnapshots, Failed
    <3>2. SameMasters(mem, started)
      BY <1>1, SameMastersConditions
    <3> HIDE DEF started
    <3>3. memFresh => WritesInPhase(mem', safeMode', readOnly', ExitDone')
      BY <1>6, <2>1, <3>1, <3>2, WritesWeaker, SameMastersPhase, Zenon DEF Ongoing
    <3>4. ExitInWalk'
      <4>1. Ahead(Master)' => Ahead(Master)
        BY <1>2, <2>4, AheadStays
      <4>2. mem'.state = "WaitingForSnapshots"
        BY <2>1, <3>1, <3>2 DEF SameMasters, Ongoing
      <4> QED
        BY <1>2, <1>3, <2>4, <4>1, <4>2 DEF ExitInWalk, RestoreInvariant
    <3> QED
      BY <1>2, <1>6, <2>2, <2>4, <3>3, <3>4, WalkRestores
  <2> QED
    BY <2>3, <2>4
<1> QED
  BY <1>7, <1>8, <1>9, <1>10, <1>11, <1>12, <1>13, <1>14 DEF VisitClient

\* A decision to save a status that fits the masters if the copy is fresh.
LEMMA SavingRestores ==
  ASSUME RestoreInvariant, NEW v, NEW at \in {"save", "saveNone"}, Saving(v, at),
         cacheFresh => /\ WritesInPhase(v, safeMode, readOnly, ExitDone)
                       /\ KeepsStopping(cr, v),
         UNCHANGED <<cr, cache, kube, yt>>
  PROVE RestoreInvariant'
<1>1. seen'.job["ExitReadOnly"] = "none" /\ pc' # "walk"
  BY DEF Saving, InitialObjects, Jobs
<1> QED
  BY <1>1
  DEF RestoreInvariant, JobsVanish, Saving, ExitInWalk, Ahead, ExitDone, kube, yt

\* The decisions of a reconcile.
LEMMA DecideRestores ==
  UpdateInv /\ RestoreInvariant /\ Decide => RestoreInvariant'
<1> SUFFICES ASSUME UpdateInv, RestoreInvariant, Decide PROVE RestoreInvariant'
  OBVIOUS
<1> USE DEF resource
<1>1. cache \in Resource /\ cr \in Resource /\ job \in [Jobs -> JobState]
  BY DEF UpdateInv, TypeInv, TypeOK
<1>2. cacheFresh => cache = cr
  BY DEF UpdateInv, CellsInvariant, CopiesAgree
<1>3. WritesInPhase(cr, safeMode, readOnly, ExitDone)
  BY DEF RestoreInvariant
\* A decision outside an update.
<1>4. ASSUME NEW w, NEW at \in {"save", "saveNone"}, Saving(w, at),
             UNCHANGED <<cr, cache, kube, yt>>,
             cache.cluster # "Updating", w.cluster # "Updating"
      PROVE RestoreInvariant'
  <2>1. cacheFresh => /\ WritesInPhase(w, safeMode, readOnly, ExitDone)
                      /\ KeepsStopping(cr, w)
    BY <1>2, <1>3, <1>4 DEF WritesInPhase, KeepsStopping, Ongoing
  <2> QED
    BY <1>4, <2>1, SavingRestores
<1>5. CASE Happy
  BY <1>5
  DEF Happy, vars, reconcile, kube, yt, RestoreInvariant, JobsVanish, ExitInWalk,
      Ahead, ExitDone
<1>6. CASE StartReconfiguration \/ FinishReconfiguration
  <2>1. SaveClusterState(cache, "Reconfiguration").cluster = "Reconfiguration"
        /\ SaveClusterState(cache, "Running").cluster = "Running"
    BY <1>1 DEF SaveClusterState, Resource
  <2> QED
    BY <1>4, <1>6, <2>1 DEF StartReconfiguration, FinishReconfiguration
<1>7. CASE LeaveUpdate
  <2>1. SaveUpdateState(cache, "None").cluster = cache.cluster
    BY <1>1 DEF SaveUpdateState, Resource
  <2> QED
    BY <1>4, <1>7, <2>1 DEF LeaveUpdate
<1>8. CASE StartUpdate
  <2>1. PICK flow, names :
          LET w == SaveUpdatingClusterState(cache, flow, names)
          IN Saving(w, "save") /\ UNCHANGED <<cr, cache, kube, yt>>
             /\ cache.cluster = "Running"
    BY <1>8 DEF StartUpdate
  <2> DEFINE w == SaveUpdatingClusterState(cache, flow, names)
  <2>2. /\ w.cluster = "Updating" /\ w.state = cache.state
        /\ w.conditions = cache.conditions
    BY <1>1 DEF SaveUpdatingClusterState, Resource
  <2>3. /\ Saving(w, "save") /\ UNCHANGED <<cr, cache, kube, yt>>
        /\ cache.cluster = "Running"
    BY <2>1
  <2> HIDE DEF w
  <2>4. cacheFresh => w.state = "None" /\ w.conditions = {}
    BY <1>2, <2>2, <2>3 DEF UpdateInv, ProgressInvariant, Settled, Clean
  <2>5. cacheFresh => /\ WritesInPhase(w, safeMode, readOnly, ExitDone)
                      /\ KeepsStopping(cr, w)
    BY <1>2, <1>3, <2>2, <2>3, <2>4
    DEF WritesInPhase, KeepsStopping, Ongoing, MasterStates
  <2> QED
    BY <2>3, <2>5, SavingRestores
<1>9. CASE HandleUpdate
  <2> DEFINE v == Observed(cache)
             w(next) == IF next \in UpdateState THEN SaveUpdateState(v, next)
                                                ELSE SaveClusterState(v, next)
  <2>1. PICK next : /\ handleFlow(v, NewComponentManager(v, Fetched), next)
                    /\ Saving(w(next), "save")
    BY <1>9 DEF HandleUpdate
  <2>2. UNCHANGED <<cr, cache, kube, yt>> /\ cache.cluster = "Updating"
    BY <1>9 DEF HandleUpdate
  <2>3. v \in Resource /\ Moves(cache, v) /\ v.cluster = "Updating"
    BY <1>1, <2>2, MovesObserved DEF Moves
  <2>4. SameMasters(cache, v)
    BY <1>1, SameMastersCopies, SameMastersConditions DEF Observed
  <2> HIDE DEF v
  <2>5. cacheFresh => WritesInPhase(v, safeMode, readOnly, ExitDone)
    BY <1>2, <1>3, <2>4, SameMastersPhase
  <2>6. cacheFresh => /\ WritesInPhase(w(next), safeMode, readOnly, ExitDone)
                      /\ KeepsStopping(v, w(next))
    BY <2>1, <2>3, <2>5, HandlersRestore
  <2> HIDE DEF w
  <2>7. cacheFresh => KeepsStopping(cr, w(next))
    <3>1. KeepsStopping(v, w(next)) =>
            \/ KeepsStopping(cache, w(next))
            \/ "SafeModeEnabled" \in v.conditions \ cache.conditions
            \/ "SnaphotsSaved" \in v.conditions \ cache.conditions
      BY <2>3 DEF Moves, KeepsStopping, Ongoing
    <3>2. v.conditions \subseteq cache.conditions \cup {"NotNecessaryToUpdateOpArchive"}
      BY <1>1 DEF v, Observed, Resource
    <3> QED
      BY <1>2, <2>6, <3>1, <3>2
  <2> QED
    BY <2>1, <2>2, <2>6, <2>7, SavingRestores
<1>10. CASE StartWalk
  <2> DEFINE v == Observed(cache)
             cm == NewComponentManager(v, Fetched)
  <2>1. /\ mem' = v /\ pc' = "walk" /\ memFresh' = cacheFresh /\ seen' = Fetched
        /\ UNCHANGED <<cr, cache, kube, yt>>
    BY <1>10 DEF StartWalk
  <2>2. Moves(cache, v) /\ v \in Resource
    BY <1>1, MovesObserved
  <2>3. SameMasters(cache, v)
    BY <1>1, SameMastersCopies, SameMastersConditions DEF Observed
  <2>4. v.cluster = "Updating" =>
          \A next \in UpdateState : ~handleFlow(v, cm, next)
    BY <1>10 DEF StartWalk
  <2> HIDE DEF v, cm
  <2>5. cacheFresh => WritesInPhase(v, safeMode, readOnly, ExitDone)
    BY <1>2, <1>3, <2>3, SameMastersPhase
  <2>6. KeepsStopping(v, cr) /\ (cacheFresh => KeepsStopping(cr, v))
    BY <1>2, <2>2, MovesKeepsStopping, KeepsStoppingItself DEF RestoreInvariant
  <2>7. seen'.job = job /\ job' = job /\ ExitDone' = ExitDone
    BY <2>1 DEF Fetched, kube, ExitDone
  <2>8. cacheFresh /\ v.cluster = "Updating" /\ v.state = "WaitingForMasterExitReadOnly" =>
          "MasterExitedReadOnly" \notin v.conditions
    <3>1. cacheFresh /\ v.cluster = "Updating"
            /\ v.state = "WaitingForMasterExitReadOnly" => v.flow \in {"Full", "Master"}
      BY <2>5 DEF WritesInPhase, MasterStates, StopsMasters
    <3>2. {"WaitingForTabletCellsRecovery", "WaitingForSafeModeDisabled"} \subseteq UpdateState
      BY DEF UpdateState
    <3>3. v.flow = "Full" /\ v.state = "WaitingForMasterExitReadOnly"
            /\ "MasterExitedReadOnly" \in v.conditions =>
              handleFlow(v, cm, "WaitingForTabletCellsRecovery")
      BY DEF handleFlow, handleEverything, Passed
    <3>4. v.flow = "Master" /\ v.state = "WaitingForMasterExitReadOnly"
            /\ "MasterExitedReadOnly" \in v.conditions =>
              handleFlow(v, cm, "WaitingForSafeModeDisabled")
      BY DEF handleFlow, handleMasterOnly, Passed
    <3> QED
      BY <2>4, <3>1, <3>2, <3>3, <3>4
  <2>9. ExitInWalk'
    BY <2>1, <2>5, <2>7, <2>8 DEF ExitInWalk, WritesInPhase, ExitDone, yt
  <2> QED
    BY <2>1, <2>5, <2>6, <2>7, <2>9 DEF RestoreInvariant, JobsVanish, yt
<1> QED
  BY <1>5, <1>6, <1>7, <1>8, <1>9, <1>10 DEF Decide

\* An accepted save.
LEMMA PersistRestores ==
  UpdateInv /\ RestoreInvariant /\ Persist => RestoreInvariant'
<1> SUFFICES ASSUME UpdateInv, RestoreInvariant, Persist PROVE RestoreInvariant'
  OBVIOUS
<1>1. mem \in Resource /\ cr \in Resource /\ memFresh \in BOOLEAN
  BY DEF UpdateInv, TypeInv, TypeOK
<1>2. UNCHANGED <<cache, job, safeMode, readOnly>> /\ ExitDone' = ExitDone
  BY DEF Persist, kube, yt, ExitDone
<1>3. job'["ExitReadOnly"] \in {"none", "active", "done"}
  BY <1>2 DEF RestoreInvariant, JobsVanish
<1>4. CASE ~memFresh
  BY <1>2, <1>3, <1>4, IdleRestores DEF Persist, Accepted, RestoreInvariant
<1>5. CASE memFresh
  <2>1. cr' = [mem EXCEPT !.spec = cr.spec] /\ cacheFresh' = FALSE
    BY <1>5 DEF Persist, Accepted
  <2>2. SameMasters(mem, cr')
    BY <1>1, <2>1, SameMastersCopies
  <2>3. WritesInPhase(mem, safeMode, readOnly, ExitDone) /\ KeepsStopping(cr, mem)
    BY <1>5 DEF RestoreInvariant
  <2>4. WritesInPhase(cr', safeMode', readOnly', ExitDone')
    BY <1>2, <2>2, <2>3, SameMastersPhase
  <2>5. KeepsStopping(cache', cr')
    <3>1. CASE cacheFresh
      BY <1>1, <1>2, <2>1, <2>3, <3>1, KeepsStoppingSpec
      DEF UpdateInv, CellsInvariant, CopiesAgree
    <3>2. CASE Leaving(cache)
      BY <1>2, <3>2 DEF Leaving, KeepsStopping, Ongoing
    <3> QED
      BY <1>5, <3>1, <3>2 DEF UpdateInv, CellsInvariant, CopiesAgree
  <2>6. CASE pc \notin {"saveNone", "saveClear"}
    <3>0. Idle
      BY <1>5, <2>6, Zenon DEF Persist, Accepted
    <3>1. Idle /\ seen'.job["ExitReadOnly"] = "none"
      BY <3>0 DEF Idle, InitialObjects, Jobs
    <3> QED
      BY <1>3, <2>4, <2>5, <3>1 DEF RestoreInvariant, JobsVanish, Idle, ExitInWalk, Ahead
  <2>7. CASE pc \in {"saveNone", "saveClear"}
    <3>1. /\ mem' = ClearUpdateStatus(mem) \/ mem' = SaveClusterState(mem, "Running")
          /\ pc' # "walk" /\ UNCHANGED <<memFresh, seen>>
      BY <1>5, <2>7, Zenon DEF Persist, Accepted
    <3>2. Leaving(mem)
      BY <2>7 DEF UpdateInv, CellsInvariant, CopiesAgree
    <3>3. mem'.cluster # "Updating" /\ cr'.cluster # "Updating"
      <4>1. mem' = ClearUpdateStatus(mem) => mem'.cluster = mem.cluster
        BY <1>1 DEF ClearUpdateStatus, Resource
      <4>2. mem' = SaveClusterState(mem, "Running") => mem'.cluster = "Running"
        BY <1>1 DEF SaveClusterState, Resource
      <4> QED
        BY <2>2, <3>1, <3>2, <4>1, <4>2 DEF Leaving, SameMasters
    <3>4. ~safeMode /\ readOnly = {}
      BY <2>3, <3>2 DEF WritesInPhase, Leaving
    <3>5. WritesInPhase(mem', safeMode', readOnly', ExitDone') /\ KeepsStopping(cr', mem')
      BY <1>2, <3>3, <3>4 DEF WritesInPhase, KeepsStopping, Ongoing
    <3> QED
      BY <1>2, <2>4, <2>5, <3>1, <3>5 DEF RestoreInvariant, JobsVanish, ExitInWalk, Ahead
  <2> QED
    BY <2>6, <2>7
<1> QED
  BY <1>1, <1>4, <1>5

\* What Kubernetes does to the job: when its script ends the masters are
\* writable, and a job that is gone is not done.
LEMMA JobRestores ==
  ASSUME TypeInv, RestoreInvariant, NEW j \in Jobs,
         JobRuns(j) \/ JobCollected(j) \/ JobExpires(j)
  PROVE RestoreInvariant'
<1>1. /\ UNCHANGED <<cr, cache, cacheFresh, reconcile, safeMode>>
      /\ job \in [Jobs -> JobState] /\ "ExitReadOnly" \in Jobs
  BY DEF TypeInv, TypeOK, JobRuns, JobCollected, JobExpires, resource, yt, Jobs
<1>2. CASE j # "ExitReadOnly"
  <2>1. job'["ExitReadOnly"] = job["ExitReadOnly"] /\ readOnly' = readOnly
    BY <1>1, <1>2 DEF JobRuns, JobCollected, JobExpires, yt
  <2> QED
    BY <1>1, <2>1
    DEF reconcile, RestoreInvariant, JobsVanish, ExitInWalk, Ahead, ExitDone
<1>3. CASE j = "ExitReadOnly" /\ JobRuns(j)
  <2>1. /\ job["ExitReadOnly"] = "active" /\ job'["ExitReadOnly"] = "done"
        /\ readOnly' = {}
    BY <1>1, <1>3 DEF JobRuns
  <2>2. /\ WritesInPhase(cr', safeMode', readOnly', ExitDone')
        /\ memFresh => WritesInPhase(mem', safeMode', readOnly', ExitDone')
    BY <1>1, <2>1, WritesWeaker, Zenon DEF RestoreInvariant, reconcile
  <2> QED
    BY <1>1, <2>1, <2>2 DEF reconcile, RestoreInvariant, JobsVanish, ExitInWalk, Ahead
<1>4. CASE j = "ExitReadOnly" /\ (JobCollected(j) \/ JobExpires(j))
  <2>1. job'["ExitReadOnly"] = "none" /\ readOnly' = readOnly /\ ExitDone' = FALSE
    BY <1>1, <1>4 DEF JobCollected, JobExpires, yt, ExitDone
  <2>2. /\ WritesInPhase(cr', safeMode', readOnly', ExitDone')
        /\ memFresh => WritesInPhase(mem', safeMode', readOnly', ExitDone')
    BY <1>1, <2>1, WritesWeaker, Zenon DEF RestoreInvariant, reconcile
  <2> QED
    BY <1>1, <2>1, <2>2 DEF reconcile, RestoreInvariant, JobsVanish, ExitInWalk, Ahead
<1> QED
  BY <1>2, <1>3, <1>4

\* Every step keeps the invariant.
LEMMA NextRestores ==
  ASSUME ~JobsLinger
  PROVE UpdateInv /\ RestoreInvariant /\ [Next]_vars => RestoreInvariant'
<1> SUFFICES ASSUME UpdateInv, RestoreInvariant, [Next]_vars PROVE RestoreInvariant'
  OBVIOUS
<1>1. TypeInv
  BY DEF UpdateInv
<1>2. ASSUME UNCHANGED <<cr, cache, mem, memFresh, pc, todo, seen, job, safeMode, readOnly>>
      PROVE RestoreInvariant'
  BY <1>2 DEF RestoreInvariant, JobsVanish, ExitInWalk, Ahead, ExitDone
<1>3. ASSUME Idle, UNCHANGED <<cr, cache, job, safeMode, readOnly>> PROVE RestoreInvariant'
  BY <1>3, IdleRestores DEF RestoreInvariant, JobsVanish, ExitDone
<1>4. CASE UNCHANGED vars
  BY <1>2, <1>4 DEF vars, resource, reconcile, kube, yt
<1>5. CASE Operator
  <2>1. CASE CallFails
    BY <1>3, <2>1 DEF CallFails, resource, kube, yt
  <2> QED
    BY <1>1, <1>5, <2>1, DecideRestores, PersistRestores, ClientRestores, VisitRestores
    DEF Operator
<1>6. CASE Deliver
  <2>1. cache' = cr /\ UNCHANGED <<cr, mem, memFresh, pc, todo, seen, job, safeMode, readOnly>>
    BY <1>6 DEF Deliver, reconcile, kube, yt
  <2> QED
    BY <2>1, KeepsStoppingItself
    DEF RestoreInvariant, JobsVanish, ExitInWalk, Ahead, ExitDone
<1>7. CASE User
  <2>1. PICK spec : Edited(spec)
    BY <1>7, Zenon DEF User, EditImage, EditConfig, EditReplicas, EditPolicy
  <2>2. /\ cr' = [cr EXCEPT !.spec = spec] /\ memFresh' = FALSE /\ cr \in Resource
        /\ UNCHANGED <<cache, mem, pc, todo, seen, job, safeMode, readOnly>>
    BY <1>1, <2>1 DEF Edited, kube, yt, TypeInv, TypeOK
  <2>3. SameMasters(cr, cr') /\ ExitDone' = ExitDone
    BY <2>2, SameMastersCopies DEF ExitDone
  <2>4. WritesInPhase(cr', safeMode', readOnly', ExitDone')
    BY <2>2, <2>3, SameMastersPhase DEF RestoreInvariant
  <2>5. KeepsStopping(cache, cr') /\ (pc = "walk" => KeepsStopping(mem, cr'))
    BY <2>2, KeepsStoppingSpec DEF RestoreInvariant
  <2> QED
    BY <2>2, <2>4, <2>5 DEF RestoreInvariant, JobsVanish, ExitInWalk, Ahead
<1>8. CASE Kubernetes
  <2>1. CASE \E c \in Components : PodsStop(c) \/ PodsStart(c) \/ PodsBecomeReady(c)
    BY <1>2, <2>1
    DEF PodsStop, PodsStart, PodsBecomeReady, resource, reconcile, yt
  <2> QED
    BY <1>1, <1>8, <2>1, JobRestores DEF Kubernetes
<1>9. CASE Cluster
  BY <1>2, <1>9
  DEF Cluster, CellGone, SnapshotBuilt, BecomeHealthy, resource, reconcile, kube
<1>10. CASE Fault
  BY <1>2, <1>3, <1>10
  DEF Fault, Abort, BecomeUnhealthy, PodsFail, resource, reconcile, kube, yt
<1> QED
  BY <1>4, <1>5, <1>6, <1>7, <1>8, <1>9, <1>10 DEF Next

\* The invariant holds at first.
LEMMA InitRestores == Init => RestoreInvariant
<1> SUFFICES ASSUME Init PROVE RestoreInvariant
  OBVIOUS
<1>1. PICK spec : cr = [InitialResource EXCEPT !.spec = spec]
  BY Zenon DEF Init
<1>2. cr.cluster = "Running"
  BY <1>1 DEF InitialResource
<1>3. JobsVanish
  BY DEF Init, JobsVanish, InitialObjects, Jobs
<1> QED
  <2>1. /\ cache = cr /\ pc = "idle" /\ ~memFresh
        /\ ~safeMode /\ readOnly = {}
    BY DEF Init
  <2>2. WritesInPhase(cr, safeMode, readOnly, ExitDone)
    BY <1>2, <2>1 DEF WritesInPhase
  <2>3. ExitInWalk
    BY <2>1 DEF ExitInWalk, Ahead
  <2> QED
    BY <1>3, <2>1, <2>2, <2>3, KeepsStoppingItself DEF RestoreInvariant

-------------------------------------------------------------------------------
(* What follows for a cluster in which a deleted job is gone at once.      *)

\* The invariants hold in every behaviour when a deleted job is gone at once.
LEMMA RestoreAlways ==
  ASSUME ~JobsLinger
  PROVE Spec => [](UpdateInv /\ RestoreInvariant)
<1>1. Spec => []UpdateInv
  BY UpdateInvariants
<1> QED
  BY <1>1, InitRestores, NextRestores, PTL DEF Spec

\* In every phase of an update the stored status says whether the masters are
\* in safe mode or read-only, and no stale copy puts them there again; when a
\* deleted job is gone at once.
THEOREM RestoreInPlace ==
  ASSUME ~JobsLinger
  PROVE Spec => []RestoreInvariant
<1>1. UpdateInv /\ RestoreInvariant => RestoreInvariant
  OBVIOUS
<1> QED
  BY <1>1, RestoreAlways, PTL

\* The resource with spec S, cluster state C and init jobs J whose status says
\* nothing of an update: there is one.
CleanResource(S, C, J) ==
  [spec : {S}, cluster : {C}, state : {"None"}, flow : {"NoFlow"},
   names : {{}}, conditions : {{}}, removing : {{}}, removed : {{}},
   bundles : {NoCells}, jobs : {J}]

\* With another spec, cluster state and jobs it is again such a resource.
LEMMA CleanExcept ==
  ASSUME NEW S, NEW C, NEW J, NEW r \in CleanResource(S, C, J), NEW s, NEW c, NEW j
  PROVE [r EXCEPT !.spec = s, !.jobs = j, !.cluster = c] \in CleanResource(s, c, j)
BY Zenon DEF CleanResource

\* Two such resources with the same spec, cluster state and jobs are equal.
LEMMA CleanUnique ==
  ASSUME NEW S, NEW C, NEW J,
         NEW q \in CleanResource(S, C, J), NEW r \in CleanResource(S, C, J)
  PROVE q = r
<1> DEFINE clean == [spec |-> S, cluster |-> C, state |-> "None", flow |-> "NoFlow",
                     names |-> {}, conditions |-> {}, removing |-> {}, removed |-> {},
                     bundles |-> NoCells, jobs |-> J]
<1>1. ASSUME NEW x \in CleanResource(S, C, J)
      PROVE  x = clean
  <2>1. x = [spec |-> x.spec, cluster |-> x.cluster, state |-> x.state,
             flow |-> x.flow, names |-> x.names, conditions |-> x.conditions,
             removing |-> x.removing, removed |-> x.removed,
             bundles |-> x.bundles, jobs |-> x.jobs]
    BY <1>1 DEF CleanResource
  <2>2. /\ x.spec = S /\ x.cluster = C /\ x.state = "None" /\ x.flow = "NoFlow"
        /\ x.names = {} /\ x.conditions = {} /\ x.removing = {}
        /\ x.removed = {} /\ x.bundles = NoCells /\ x.jobs = J
    BY <1>1 DEF CleanResource
  <2> QED
    BY <2>1, <2>2, Zenon
<1> HIDE DEF clean
<1> QED
  BY <1>1

\* When the status calls the cluster Running (or Reconfiguration), everything
\* that the update took away is back: there is no safe mode, the masters
\* accept writes, every tablet cell exists, and nothing of the update is left
\* in the status.  However reads are delayed, saves are refused, the operator
\* restarts and the user edits the spec, and for any components, cells and
\* peers.  It is proved for a cluster in which a job that the operator deletes
\* is gone at once.
THEOREM RunningIsRestored ==
  ASSUME ~JobsLinger
  PROVE Spec => []RunningMeansRestored
<1>1. UpdateInv /\ RestoreInvariant => RunningMeansRestored
  <2> SUFFICES ASSUME UpdateInv, RestoreInvariant, cr.cluster \in {"Running", "Reconfiguration"}
               PROVE /\ ~safeMode /\ readOnly = {}
                     /\ alive = Cells /\ \A b \in Bundles : dying[b] = 0
                     /\ cr = [InitialResource EXCEPT !.spec = cr.spec, !.jobs = cr.jobs,
                                                     !.cluster = cr.cluster]
    BY DEF RunningMeansRestored
  <2>1. ~safeMode /\ readOnly = {}
    BY DEF RestoreInvariant, WritesInPhase
  <2>2. Intact(alive, dying)
    BY DEF UpdateInv, CellsInvariant, Faithful
  <2>3. Clean(cr) /\ cr \in Resource
    BY DEF UpdateInv, ProgressInvariant, Settled, TypeInv, TypeOK
  <2>4. cr = [InitialResource EXCEPT !.spec = cr.spec, !.jobs = cr.jobs,
                                     !.cluster = cr.cluster]
    <3>1. cr \in CleanResource(cr.spec, cr.cluster, cr.jobs)
      BY <2>3 DEF Clean, Resource, CleanResource
    <3>2. InitialResource \in CleanResource(InitialSpec, "Running", InitialResource.jobs)
      BY DEF InitialResource, NoCells, CleanResource
    <3>3. [InitialResource EXCEPT !.spec = cr.spec, !.jobs = cr.jobs,
                                  !.cluster = cr.cluster]
            \in CleanResource(cr.spec, cr.cluster, cr.jobs)
      BY <3>2, CleanExcept, Zenon
    <3> QED
      BY <3>1, <3>3, CleanUnique, Zenon
  <2> QED
    BY <2>1, <2>2, <2>4 DEF Intact, NoCells
<1> QED
  BY <1>1, RestoreAlways, PTL

\* "Masters exited read-only state": from the moment the status carries the
\* condition MasterExitedReadOnly, the masters accept writes, when a deleted
\* job is gone at once.  A job that lingers breaks it (run LingeringJob).
THEOREM ExitedMeansWritable ==
  ASSUME ~JobsLinger
  PROVE Spec => []MasterExitedMeansWritable
<1>1. RestoreInvariant => MasterExitedMeansWritable
  BY DEF RestoreInvariant, WritesInPhase, MasterExitedMeansWritable
<1> QED
  BY <1>1, RestoreAlways, PTL
===============================================================================
