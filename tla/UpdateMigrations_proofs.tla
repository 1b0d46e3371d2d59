------------------------ MODULE UpdateMigrations_proofs ------------------------
(***************************************************************************)
(* Proofs about the migrations of an update, for any cluster: the init     *)
(* jobs that migrate its state have run when the update finishes.          *)
(***************************************************************************)
EXTENDS UpdateProgress_proofs

-------------------------------------------------------------------------------
(* The migrations: MigrationInvariant is inductive.                        *)

\* Statuses that say the same about the job j of a migration.
SameMigration(v, w, j) ==
  /\ v.cluster = w.cluster /\ v.state = w.state
  /\ v.flow = w.flow /\ v.names = w.names /\ v.jobs[j] = w.jobs[j]
  /\ \A x \in {Prepared(j), Updated(j)} : x \in v.conditions <=> x \in w.conditions
  /\ "NotNecessaryToUpdateOpArchive" \in w.conditions =>
       "NotNecessaryToUpdateOpArchive" \in v.conditions \/ TabletNodes = {}

\* Statuses that agree about a migration are right about it together.
LEMMA SameMigrationPhase ==
  ASSUME NEW v, NEW w, NEW j, NEW s, NEW past, SameMigration(v, w, j)
  PROVE /\ MigratedInPhase(v, j, s, past) => MigratedInPhase(w, j, s, past)
        /\ IsPrepared(w, j) <=> IsPrepared(v, j)
        /\ Migrates(w, j) <=> Migrates(v, j)
<1>1. IsPrepared(w, j) <=> IsPrepared(v, j)
  BY DEF SameMigration, IsPrepared
<1>2. Migrates(w, j) <=> Migrates(v, j)
  BY DEF SameMigration, Migrates
<1> QED
  BY <1>1, <1>2 DEF SameMigration, MigratedInPhase

\* What copies have in common.
LEMMA SameMigrationCopies ==
  ASSUME NEW v \in Resource, NEW j
  PROVE /\ SameMigration(v, v, j)
        /\ \A s : SameMigration(v, [v EXCEPT !.spec = s], j)
        /\ \A S : SameMigration(v, [v EXCEPT !.removing = @ \cup S], j)
        /\ \A S : SameMigration(v, [v EXCEPT !.removed = @ \cup S], j)
        /\ \A i, s : i # j => SameMigration(v, [v EXCEPT !.jobs[i] = s], j)
  BY DEF SameMigration, Resource

\* Other conditions do not matter to a migration.
LEMMA SameMigrationConditions ==
  ASSUME NEW v \in Resource, NEW j, NEW C,
         \A x \in {Prepared(j), Updated(j)} : x \in v.conditions <=> x \in C,
         "NotNecessaryToUpdateOpArchive" \in C =>
           "NotNecessaryToUpdateOpArchive" \in v.conditions \/ TabletNodes = {}
  PROVE SameMigration(v, [v EXCEPT !.conditions = C], j)
  BY DEF SameMigration, Resource

\* What a handler may do at the migration of job j: the migration is entered,
\* prepared, awaited and left in this order, or passed over where the update
\* does not run the job.
HandedOn(v, j, next) ==
  /\ next = PrepareState(j) =>
       v.state \notin {PrepareState(j), RunState(j)} \cup AfterRun(j)
  /\ next = RunState(j) => v.state = PrepareState(j) /\ Prepared(j) \in v.conditions
  /\ next \in AfterRun(j) \cup {"UpdateFinishing"} =>
       \/ v.state \in AfterRun(j) \/ ~Migrates(v, j)
       \/ v.state = RunState(j) /\ Updated(j) \in v.conditions
  /\ v.state \in {PrepareState(j), RunState(j)} \cup AfterRun(j) =>
       next \in {RunState(j), "UpdateFinishing"} \cup AfterRun(j)
  /\ next # "Updating"

\* The handlers of the update flows keep to that order.
LEMMA HandlersHandOn ==
  ASSUME NEW v, NEW cm, NEW next, NEW j \in Migrations, handleFlow(v, cm, next),
         ~cm.needSchedulerUpdate /\ j = "OpArchive" => ~Migrates(v, j),
         ~cm.needQueryTrackerUpdate /\ j = "QTState" => ~Migrates(v, j),
         j = "OpArchive" /\ "NotNecessaryToUpdateOpArchive" \in v.conditions =>
           ~Migrates(v, j)
  PROVE HandedOn(v, j, next)
<1> DEFINE m == Migrates(v, j)
<1>1. v.flow \in {"Master", "TabletNodes"} => ~m
  BY DEF Migrates
<1> HIDE DEF m
<1> SUFFICES
      /\ next = PrepareState(j) =>
           v.state \notin {PrepareState(j), RunState(j)} \cup AfterRun(j)
      /\ next = RunState(j) => v.state = PrepareState(j) /\ Prepared(j) \in v.conditions
      /\ next \in AfterRun(j) \cup {"UpdateFinishing"} =>
           \/ v.state \in AfterRun(j) \/ ~m
           \/ v.state = RunState(j) /\ Updated(j) \in v.conditions
      /\ v.state \in {PrepareState(j), RunState(j)} \cup AfterRun(j) =>
           next \in {RunState(j), "UpdateFinishing"} \cup AfterRun(j)
      /\ next # "Updating"
  BY DEF HandedOn, m
<1>2. /\ ~cm.needSchedulerUpdate /\ j = "OpArchive" => ~m
      /\ ~cm.needQueryTrackerUpdate /\ j = "QTState" => ~m
      /\ j = "OpArchive" /\ "NotNecessaryToUpdateOpArchive" \in v.conditions => ~m
  BY DEF m
<1> USE DEF PrepareState, RunState, Prepared, Updated, AfterRun, Passed,
            checkPossibility, cancelImpossible, replacePods, updateState, removeTabletCells
<1>3. CASE j = "OpArchive"
  <2>1. CASE handleEverything(v, cm, next)
    BY <1>2, <1>3, <2>1 DEF handleEverything
  <2>2. CASE handleStateless(v, cm, next)
    BY <1>2, <1>3, <2>2 DEF handleStateless
  <2>3. CASE ~m /\ handleMasterOnly(v, cm, next)
    BY <1>3, <2>3 DEF handleMasterOnly
  <2>4. CASE ~m /\ handleTabletNodesOnly(v, cm, next)
    BY <1>3, <2>4 DEF handleTabletNodesOnly
  <2> QED
    BY <1>1, <2>1, <2>2, <2>3, <2>4, Zenon DEF handleFlow
<1>4. CASE j = "QTState"
  <2>1. CASE handleEverything(v, cm, next)
    BY <1>2, <1>4, <2>1 DEF handleEverything
  <2>2. CASE handleStateless(v, cm, next)
    BY <1>2, <1>4, <2>2 DEF handleStateless
  <2>3. CASE ~m /\ handleMasterOnly(v, cm, next)
    BY <1>4, <2>3 DEF handleMasterOnly
  <2>4. CASE ~m /\ handleTabletNodesOnly(v, cm, next)
    BY <1>4, <2>4 DEF handleTabletNodesOnly
  <2> QED
    BY <1>1, <2>1, <2>2, <2>3, <2>4, Zenon DEF handleFlow
<1> QED
  BY <1>3, <1>4 DEF Migrations

\* So what they save is right about the migrations.
LEMMA HandlersMigrate ==
  ASSUME NEW v \in Resource, NEW k, NEW next, v.cluster = "Updating",
         NEW j \in Migrations, NEW s, NEW past, MigratedInPhase(v, j, s, past),
         handleFlow(v, NewComponentManager(v, k), next)
  PROVE LET w == IF next \in UpdateState THEN SaveUpdateState(v, next)
                                         ELSE SaveClusterState(v, next)
        IN MigratedInPhase(w, j, s, past) /\ ~IsPrepared(w, j)
<1> DEFINE w == IF next \in UpdateState THEN SaveUpdateState(v, next)
                                        ELSE SaveClusterState(v, next)
           cm == NewComponentManager(v, k)
<1>1. /\ w.flow = v.flow /\ w.conditions = v.conditions /\ w.jobs = v.jobs
      /\ w.names = v.names
      /\ next \in UpdateState => w.state = next /\ w.cluster = "Updating"
      /\ next \notin UpdateState => w.state = v.state /\ w.cluster = next
  BY DEF SaveUpdateState, SaveClusterState, Resource
<1>2. /\ Migrates(w, j) <=> Migrates(v, j)
      /\ ~cm.needSchedulerUpdate /\ j = "OpArchive" => ~Migrates(v, j)
      /\ ~cm.needQueryTrackerUpdate /\ j = "QTState" => ~Migrates(v, j)
  BY <1>1 DEF Migrates, NewComponentManager, Migrator
<1>3. j = "OpArchive" /\ "NotNecessaryToUpdateOpArchive" \in v.conditions =>
        ~Migrates(v, j)
  BY Roles DEF MigratedInPhase, Migrates, JobOf, Migrator
<1>4. HandedOn(v, j, next)
  BY <1>2, <1>3, HandlersHandOn
<1> SUFFICES MigratedInPhase(w, j, s, past) /\ ~IsPrepared(w, j)
  OBVIOUS
<1> HIDE DEF w, cm
<1>5. /\ PrepareState(j) \notin {RunState(j)} \cup AfterRun(j)
      /\ RunState(j) \notin AfterRun(j)
      /\ "UpdateFinishing" \notin UpdateState
  BY DEF PrepareState, RunState, AfterRun, UpdateState, Migrations
<1>6. CASE next \in UpdateState
  BY <1>1, <1>2, <1>4, <1>5, <1>6 DEF HandedOn, MigratedInPhase, IsPrepared
<1>7. CASE next \notin UpdateState
  BY <1>1, <1>2, <1>4, <1>5, <1>7 DEF HandedOn, MigratedInPhase, IsPrepared
<1> QED
  BY <1>6, <1>7

\* Removing the pods of a component has nothing to do with a migration.
LEMMA RemovalMigrates ==
  ASSUME mem \in Resource, NEW j, NEW c, RemovePods(c)
  PROVE SameMigration(mem, mem', j) /\ job' = job
<1>1. \/ mem' = [mem EXCEPT !.removing = @ \cup {c}]
      \/ mem' = [mem EXCEPT !.removed = @ \cup {c}]
      \/ mem' = mem
  BY Zenon DEF RemovePods, Visited
<1>2. job' = job
  BY DEF RemovePods
<1> QED
  BY <1>1, <1>2, SameMigrationCopies, Zenon

\* Visits of the other components have nothing to do with the migration.
LEMMA OtherVisitMigrates ==
  ASSUME TypeInv, NEW j \in Migrations, NEW c \in Components, c # Migrator(j), Visit(c)
  PROVE /\ job'[j] = job[j]
        /\ Idle \/ SameMigration(mem, mem', j)
<1> USE DEF kube
<1>1. mem \in Resource /\ job \in [Jobs -> JobState] /\ j \in Jobs
  BY DEF TypeInv, TypeOK, Migrations, Jobs
<1> DEFINE step == doSync(mem, seen)[c]
           i == JobFor(c)
<1>2. StepFits(mem, seen, c, step) /\ JobStepFits(mem, seen, c, step)
  BY StepsFit
<1>3. i \in Jobs /\ i # j
  BY DEF JobFor, Migrator, Migrations, Jobs
<1>4. CASE Skip(c) \/ SyncServer(c)
  BY <1>1, <1>4, SameMigrationCopies DEF Skip, SyncServer, Visited
<1>5. CASE RemovePods(c)
  BY <1>1, <1>5, RemovalMigrates
<1>6. CASE CreateJob(c) \/ CompleteJob(c)
  <2>1. \/ Visited(mem) /\ job' = [job EXCEPT ![i] = "active"]
        \/ Visited([mem EXCEPT !.jobs[i] = "True"]) /\ job' = job
    BY <1>6 DEF CreateJob, CompleteJob
  <2> HIDE DEF i
  <2>2. SameMigration(mem, mem, j) /\ SameMigration(mem, [mem EXCEPT !.jobs[i] = "True"], j)
    BY <1>1, <1>3, SameMigrationCopies
  <2>3. [job EXCEPT ![i] = "active"][j] = job[j]
    BY <1>1, <1>3
  <2> QED
    BY <2>1, <2>2, <2>3, Zenon DEF Visited
<1>7. CASE PrepareRestart(c)
  <2>1. prepareRestart(i, [mem EXCEPT !.jobs[i] = "False"])
    BY <1>7 DEF PrepareRestart
  <2> HIDE DEF i
  <2>2. SameMigration(mem, [mem EXCEPT !.jobs[i] = "False"], j)
    BY <1>1, <1>3, SameMigrationCopies
  <2> QED
    BY <1>1, <1>3, <2>1, <2>2 DEF prepareRestart, Visited
<1>8. CASE PrepareExit(c)
  <2> DEFINE reset == [mem EXCEPT !.jobs["ExitReadOnly"] = "False"]
             prepared(v) == SetCondition(v, "MasterExitReadOnlyPrepared")
  <2>1. j # "ExitReadOnly" /\ "ExitReadOnly" \in Jobs
    BY DEF Migrations, Jobs
  <2>2. reset \in Resource /\ SameMigration(mem, reset, j)
    BY <1>1, <2>1, CopyTyped, SameMigrationCopies, Zenon
  <2>3. \/ Visited(prepared(mem)) /\ job' = job
        \/ prepareRestart("ExitReadOnly", prepared(reset))
    BY <1>8 DEF PrepareExit
  <2> HIDE DEF reset
  <2>4. SameMigration(mem, prepared(mem), j) /\ SameMigration(reset, prepared(reset), j)
    BY <1>1, <2>2, SameMigrationConditions, Zenon DEF SetCondition, Prepared, Updated
  <2> HIDE DEF prepared
  <2>5. SameMigration(mem, prepared(reset), j)
    BY <2>2, <2>4, Zenon DEF SameMigration
  <2> QED
    BY <1>1, <2>1, <2>3, <2>4, <2>5 DEF prepareRestart, Visited
<1>9. CASE Report(c)
  <2>1. \/ Visited([mem EXCEPT !.conditions = (@ \cup {"MasterExitedReadOnly"})
                                                 \ {"MasterExitReadOnlyPrepared"}])
        \/ Visited(SetCondition(mem, Prepared(i))) /\ i \in Migrations
        \/ Visited(SetCondition(mem, Updated(i))) /\ i \in Migrations
    BY <1>2, <1>9, Roles DEF Report, JobStepFits, Prepared, Updated, JobFor, Migrations
  <2>2. SameMigration(mem, [mem EXCEPT !.conditions = (@ \cup {"MasterExitedReadOnly"})
                                                        \ {"MasterExitReadOnlyPrepared"}], j)
    BY <1>1, SameMigrationConditions DEF Prepared, Updated
  <2> HIDE DEF i
  <2>3. i \in Migrations => /\ SameMigration(mem, SetCondition(mem, Prepared(i)), j)
                            /\ SameMigration(mem, SetCondition(mem, Updated(i)), j)
    BY <1>1, <1>3, SameMigrationConditions DEF SetCondition, Prepared, Updated, Migrations
  <2> QED
    BY <1>9, <2>1, <2>2, <2>3 DEF Report, Visited
<1> QED
  BY <1>4, <1>5, <1>6, <1>7, <1>8, <1>9 DEF Visit

\* Nor have the visits of the client.
LEMMA ClientMigrates ==
  ASSUME TypeInv, NEW j \in Migrations, VisitClient \/ NoClient
  PROVE job' = job /\ (Idle \/ SameMigration(mem, mem', j))
<1> USE DEF kube
<1>1. mem \in Resource
  BY DEF TypeInv, TypeOK
<1>2. UNCHANGED job
  BY DEF VisitClient, SkipClient, HandlePossibilityCheck, EnableSafeMode, GetTabletCells,
         RemoveTabletCells, AreTabletCellsRemoved, StartBuildMasterSnapshots,
         AreMasterSnapshotsBuilt, RecoverTableCells, DisableSafeMode, NoClient
<1> DEFINE Others == {"HasPossibility", "NoPossibility", "SafeModeEnabled",
                      "TabletCellsSaved", "TabletCellsRemovingStarted",
                      "TabletCellsRemoved", "SnapshotsMonitoringInfoSaved",
                      "SnapshotsBuildingStarted", "SnaphotsSaved",
                      "TabletCellsRecovered", "SafeModeDisabled"}
<1>3. \A C \in SUBSET Others :
        SameMigration(mem, [mem EXCEPT !.conditions = @ \cup C], j)
  BY <1>1, SameMigrationConditions DEF Prepared, Updated
<1>4. \A x \in Others : SameMigration(mem, SetCondition(mem, x), j)
  BY <1>1, SameMigrationConditions DEF Prepared, Updated, SetCondition
<1>5. CASE SkipClient \/ NoClient
  BY <1>1, <1>2, <1>5, SameMigrationCopies DEF SkipClient, NoClient, Visited
<1>6. CASE \/ HandlePossibilityCheck \/ EnableSafeMode \/ DisableSafeMode
           \/ RemoveTabletCells \/ RecoverTableCells
  BY <1>2, <1>4, <1>6
  DEF HandlePossibilityCheck, EnableSafeMode, DisableSafeMode, RemoveTabletCells,
      RecoverTableCells, Visited, Failed
<1>7. CASE AreTabletCellsRemoved \/ AreMasterSnapshotsBuilt
  BY <1>1, <1>2, <1>4, <1>7, SameMigrationCopies
  DEF AreTabletCellsRemoved, AreMasterSnapshotsBuilt, Visited
<1>8. CASE GetTabletCells
  <2>1. \A n : SameMigration(mem, [SetCondition(mem, "TabletCellsSaved") EXCEPT !.bundles = n], j)
    BY <1>1 DEF SameMigration, SetCondition, Resource, Prepared, Updated
  <2> QED
    BY <1>2, <1>8, <2>1 DEF GetTabletCells, Visited
<1>9. CASE StartBuildMasterSnapshots
  BY <1>2, <1>3, <1>9, Zenon DEF StartBuildMasterSnapshots, Failed
<1> QED
  BY <1>5, <1>6, <1>7, <1>8, <1>9 DEF VisitClient

\* A step of the walk that does nothing to the migration.
LEMMA WalkMigrates ==
  ASSUME TypeInv, NEW j, MigrationOf(j), pc = "walk",
         UNCHANGED <<cr, cache, ran, memFresh, pc, seen>>,
         SameMigration(mem, mem', j), job'[j] = job[j], todo' \in {todo, todo + 1}
  PROVE MigrationOf(j)'
<1>1. /\ memFresh => MigratedInPhase(mem', j, job'[j], j \in ran')
      /\ Migrates(mem', j) <=> Migrates(mem, j)
  BY SameMigrationPhase DEF MigrationOf
<1>2. Ahead(Migrator(j))' => Ahead(Migrator(j))
  BY AheadStays
<1>3. mem'.state = mem.state /\ mem'.cluster = mem.cluster
  BY DEF SameMigration
<1>4. /\ Ahead(Migrator(j))' =>
           /\ seen.job[j] = "none" => job[j] = "none"
           /\ memFresh /\ mem.cluster = "Updating" /\ mem.state = RunState(j)
              /\ Migrates(mem, j) /\ seen.job[j] \in {"done", "dyingDone"}
              => j \in ran
  BY <1>2 DEF MigrationOf
<1> QED
  BY <1>1, <1>3, <1>4 DEF MigrationOf

\* The end of a reconcile.
LEMMA IdleMigrates ==
  ASSUME NEW j, MigrationOf(j), Idle, UNCHANGED <<cr, cache>>,
         MigratedInPhase(cr, j, job'[j], j \in ran')
  PROVE MigrationOf(j)'
  BY DEF MigrationOf, Idle, Ahead

\* A visit of the job's own component that changes the job or the copy.
LEMMA OwnMigrates ==
  ASSUME TypeInv, NEW j \in Migrations, MigrationOf(j), At(Migrator(j)),
         UNCHANGED <<cr, cache, ran, memFresh, pc, seen>>, todo' = todo + 1,
         mem'.state = mem.state,
         MigratedInPhase(cr, j, job'[j], j \in ran),
         memFresh => MigratedInPhase(mem', j, job'[j], j \in ran)
  PROVE MigrationOf(j)'
<1>1. ~Ahead(Migrator(j))' /\ pc = "walk"
  BY AtAhead DEF At
<1> QED
  BY <1>1 DEF MigrationOf

\* The visit of the component that owns the migration keeps the invariant.
LEMMA OwnVisitMigrates ==
  ASSUME UpdateInv, NEW j \in Migrations, MigrationOf(j), Migrator(j) \in Components,
         Visit(Migrator(j))
  PROVE MigrationOf(j)'
<1> USE DEF kube
<1> DEFINE c == Migrator(j)
           step == doSync(mem, seen)[c]
<1>1. /\ TypeInv /\ mem \in Resource /\ job \in [Jobs -> JobState] /\ j \in Jobs
      /\ seen.job[j] \in JobState
  BY DEF UpdateInv, TypeInv, TypeOK, Migrations, Jobs, Objects
<1>2. JobFor(c) = j /\ c # Master
  BY Roles DEF JobFor, Migrator, Migrations
<1>3. StepFits(mem, seen, c, step) /\ JobStepFits(mem, seen, c, step)
  BY StepsFit
<1>4. /\ pc = "walk" /\ At(c) /\ UNCHANGED <<cr, cache, cacheFresh, ran>>
      /\ \/ Moves(mem, mem') /\ UNCHANGED <<memFresh, pc, seen>> /\ todo' = todo + 1
         \/ Idle
  BY <1>1, VisitMoves, Zenon
  DEF Visit, Skip, RemovePods, SyncServer, CreateJob, CompleteJob, PrepareRestart,
      PrepareExit, Report
<1>5. /\ MigratedInPhase(cr, j, job[j], j \in ran)
      /\ memFresh => MigratedInPhase(mem, j, job[j], j \in ran)
      /\ IsPrepared(cr, j) => mem.state = PrepareState(j) /\ mem.cluster = "Updating"
  BY <1>4 DEF MigrationOf, IsPrepared, UpdateInv, ProgressInvariant, SameUpdate
<1>6. Ahead(c)
  BY <1>1, <1>4, AtAhead
<1>7. CASE Skip(c) \/ SyncServer(c) \/ RemovePods(c)
  <2>1. SameMigration(mem, mem', j) /\ job' = job /\ ~Idle
    <3>1. todo' = todo + 1 /\ todo \in Nat
      BY <1>1, <1>7 DEF TypeInv, TypeOK, Skip, SyncServer, RemovePods, Visited
    <3>2. ~Idle
      BY <3>1 DEF Idle
    <3>3. CASE Skip(c) \/ SyncServer(c)
      BY <1>1, <3>2, <3>3, SameMigrationCopies DEF Skip, SyncServer, Visited
    <3>4. CASE RemovePods(c)
      BY <1>1, <3>2, <3>4, RemovalMigrates
    <3> QED
      BY <1>7, <3>3, <3>4
  <2> QED
    BY <1>1, <1>4, <2>1, WalkMigrates
<1>8. CASE PrepareExit(c)
  BY <1>2, <1>3, <1>8 DEF PrepareExit, StepFits
<1>9. CASE CreateJob(c)
  <2>1. /\ mem' = mem /\ job' = [job EXCEPT ![j] = "active"]
        /\ UNCHANGED <<memFresh, pc, seen>> /\ todo' = todo + 1
    BY <1>2, <1>9 DEF CreateJob, Visited
  <2>2. mem.cluster = "Updating" => mem.state # PrepareState(j)
    BY <1>2, <1>3, <1>9
    DEF CreateJob, JobStepFits, PrepareState, RunState, Migrations
  <2>3. ~IsPrepared(cr, j) /\ ~IsPrepared(mem, j)
    BY <1>5, <2>2 DEF IsPrepared
  <2>4. job'[j] = "active"
    BY <1>1, <2>1
  <2>5. /\ MigratedInPhase(cr, j, job'[j], j \in ran)
        /\ memFresh => MigratedInPhase(mem, j, job'[j], j \in ran)
    BY <1>5, <2>3, <2>4 DEF MigratedInPhase
  <2> QED
    BY <1>1, <1>4, <2>1, <2>5, OwnMigrates
<1>10. CASE CompleteJob(c)
  <2>1. /\ mem' = [mem EXCEPT !.jobs[j] = "True"] /\ job' = job
        /\ UNCHANGED <<memFresh, pc, seen>> /\ todo' = todo + 1
    BY <1>2, <1>10 DEF CompleteJob, Visited
  <2>2. /\ mem'.cluster = mem.cluster /\ mem'.state = mem.state
        /\ mem'.flow = mem.flow /\ mem'.names = mem.names
        /\ mem'.conditions = mem.conditions /\ mem'.jobs[j] = "True"
    BY <1>1, <2>1 DEF Resource
  <2>3. mem.cluster = "Updating" => mem.state \in {"WaitingForPodsCreation", RunState(j)}
    BY <1>2, <1>3, <1>10 DEF CompleteJob, JobStepFits
  <2>4. seen.job[j] \in {"done", "dyingDone"}
    BY <1>1, <1>2, <1>3, <1>10 DEF CompleteJob, JobStepFits, JobState
  <2>5. memFresh /\ mem.cluster = "Updating" /\ mem.state = RunState(j) /\ Migrates(mem, j)
          => j \in ran
    BY <1>6, <2>4 DEF MigrationOf
  <2>6. Migrates(mem', j) <=> Migrates(mem, j)
    BY <2>2 DEF Migrates
  <2>7. mem.cluster = "Updating" => ~IsPrepared(mem', j)
    BY <2>2, <2>3 DEF IsPrepared, PrepareState, RunState, Migrations
  <2>8. memFresh => MigratedInPhase(mem', j, job[j], j \in ran)
    BY <1>5, <2>2, <2>3, <2>5, <2>6, <2>7 DEF MigratedInPhase
  <2> QED
    BY <1>1, <1>4, <1>5, <2>1, <2>2, <2>8, OwnMigrates
<1>11. CASE PrepareRestart(c)
  <2> DEFINE reset == [mem EXCEPT !.jobs[j] = "False"]
  <2>1. prepareRestart(j, reset)
    BY <1>2, <1>11 DEF PrepareRestart
  <2>2. /\ job'[j] \in {"done", "dyingDone"} => job[j] \in {"done", "dyingDone"}
        /\ job[j] = "none" => job'[j] = "none"
    BY <1>1, <2>1 DEF prepareRestart, JobState
  <2>4. MigratedInPhase(cr, j, job'[j], j \in ran)
    BY <1>5, <2>2 DEF MigratedInPhase
  <2>5. CASE Idle
    BY <1>4, <2>4, <2>5, IdleMigrates
  <2>6. CASE ~Idle
    <3>1. mem' = reset /\ UNCHANGED <<memFresh, pc, seen>> /\ todo' = todo + 1
      BY <2>1, <2>6 DEF prepareRestart, Visited
    <3>2. /\ mem'.cluster = mem.cluster /\ mem'.state = mem.state
          /\ mem'.flow = mem.flow /\ mem'.names = mem.names
          /\ mem'.conditions = mem.conditions /\ mem'.jobs[j] = "False"
      BY <1>1, <3>1 DEF Resource
    <3>3. /\ Migrates(mem', j) <=> Migrates(mem, j)
          /\ IsPrepared(mem', j) <=> IsPrepared(mem, j)
      BY <3>2 DEF Migrates, IsPrepared
    <3>4. memFresh => MigratedInPhase(mem', j, job'[j], j \in ran)
      <4>1. memFresh => MigratedInPhase(mem, j, job'[j], j \in ran)
        BY <1>5, <2>2 DEF MigratedInPhase
      <4> QED
        BY <3>2, <3>3, <4>1 DEF MigratedInPhase
    <3> QED
      BY <1>1, <1>4, <2>4, <3>1, <3>2, <3>4, OwnMigrates
  <2> QED
    BY <2>5, <2>6
<1>12. CASE Report(c)
  <2>1. /\ job' = job /\ UNCHANGED <<memFresh, pc, seen>> /\ todo' = todo + 1
        /\ step \in {"ExitedReadOnly", "RestartPrepared", "RestartCompleted"}
    BY <1>12 DEF Report, Visited
  <2>2. step # "ExitedReadOnly" /\ mem.cluster = "Updating"
    BY <1>2, <1>3, <2>1 DEF StepFits
  <2> DEFINE x == IF step = "RestartPrepared" THEN Prepared(j) ELSE Updated(j)
  <2>3. mem' = SetCondition(mem, x)
    BY <1>12, <2>2, Roles DEF Report, Visited, Prepared, Updated, Migrator, Migrations
  <2>4. /\ mem'.cluster = mem.cluster /\ mem'.state = mem.state
        /\ mem'.flow = mem.flow /\ mem'.names = mem.names
        /\ mem'.conditions = mem.conditions \cup {x} /\ mem'.jobs = mem.jobs
    BY <1>1, <2>3 DEF SetCondition, Resource
  <2>5. Migrates(mem', j) <=> Migrates(mem, j)
    BY <2>4 DEF Migrates
  <2>6. memFresh => MigratedInPhase(mem', j, job[j], j \in ran)
    <3>1. CASE step = "RestartPrepared"
      <4>1. /\ mem.state = PrepareState(j) /\ seen.job[j] = "none" /\ mem.jobs[j] = "False"
        BY <1>2, <1>3, <3>1 DEF JobStepFits, isRestartPrepared, jobExists
      <4>2. job[j] = "none"
        BY <1>6, <4>1 DEF MigrationOf
      <4>3. mem.state # RunState(j) /\ mem.state \notin AfterRun(j)
        BY <4>1 DEF PrepareState, RunState, AfterRun, Migrations
      <4>4. x # Updated(j) /\ x # "NotNecessaryToUpdateOpArchive" /\ x = Prepared(j)
        BY <3>1 DEF Prepared, Updated
      <4> HIDE DEF x
      <4> QED
        BY <1>5, <2>2, <2>4, <2>5, <4>1, <4>2, <4>3, <4>4 DEF MigratedInPhase
    <3>2. CASE step = "RestartCompleted"
      <4>1. mem.state = RunState(j) /\ mem.jobs[j] = "True"
        BY <1>2, <1>3, <3>2 DEF JobStepFits
      <4>2. mem.state # PrepareState(j) /\ mem.state \notin AfterRun(j)
        BY <4>1 DEF PrepareState, RunState, AfterRun, Migrations
      <4>3. x # Prepared(j) /\ x # "NotNecessaryToUpdateOpArchive" /\ x = Updated(j)
        BY <3>2 DEF Prepared, Updated
      <4> HIDE DEF x
      <4> QED
        BY <1>5, <2>2, <2>4, <2>5, <4>1, <4>2, <4>3 DEF MigratedInPhase, IsPrepared
    <3> QED
      BY <2>1, <2>2, <3>1, <3>2
  <2> QED
    BY <1>1, <1>4, <1>5, <2>1, <2>4, <2>6, OwnMigrates
<1> QED
  BY <1>7, <1>8, <1>9, <1>10, <1>11, <1>12 DEF Visit

\* The whole walk.
LEMMA VisitMigrates ==
  ASSUME UpdateInv, NEW j \in Migrations, MigrationOf(j),
         (\E c \in Components : Visit(c)) \/ VisitClient \/ NoClient
  PROVE MigrationOf(j)'
<1>1. TypeInv /\ MigratedInPhase(cr, j, job[j], j \in ran)
  BY DEF UpdateInv, MigrationOf
<1>2. CASE VisitClient \/ NoClient
  <2>1. job' = job /\ (Idle \/ SameMigration(mem, mem', j))
    BY <1>1, <1>2, ClientMigrates
  <2>2. /\ pc = "walk" /\ UNCHANGED <<cr, cache, ran>>
        /\ \/ UNCHANGED <<memFresh, pc, seen>> /\ todo' \in {todo, todo + 1}
           \/ Idle
    BY <1>1, <1>2, ClientMoves
  <2> QED
    BY <1>1, <2>1, <2>2, WalkMigrates, IdleMigrates
<1>3. ASSUME NEW c \in Components, Visit(c), c # Migrator(j) PROVE MigrationOf(j)'
  <2>1. job'[j] = job[j] /\ (Idle \/ SameMigration(mem, mem', j))
    BY <1>1, <1>3, OtherVisitMigrates
  <2>2. /\ pc = "walk" /\ UNCHANGED <<cr, cache, ran>>
        /\ \/ UNCHANGED <<memFresh, pc, seen>> /\ todo' = todo + 1
           \/ Idle
    BY <1>1, <1>3, VisitMoves
  <2> QED
    BY <1>1, <2>1, <2>2, WalkMigrates, IdleMigrates
<1> QED
  BY <1>2, <1>3, OwnVisitMigrates

\* A decision to save a status that fits the migration if the copy is fresh.
LEMMA SavingMigrates ==
  ASSUME NEW j, MigrationOf(j), NEW v, NEW at \in {"save", "saveNone"}, Saving(v, at),
         cacheFresh => MigratedInPhase(v, j, job[j], j \in ran),
         cacheFresh => ~IsPrepared(v, j),
         UNCHANGED <<cr, cache, ran, job>>
  PROVE MigrationOf(j)'
  BY DEF MigrationOf, Saving, Ahead

\* The decisions of a reconcile.
LEMMA DecideMigrates ==
  ASSUME UpdateInv, NEW j \in Migrations, MigrationOf(j), Decide
  PROVE MigrationOf(j)'
<1> USE DEF resource, kube
<1>1. cache \in Resource /\ cr \in Resource
  BY DEF UpdateInv, TypeInv, TypeOK
<1>2. cacheFresh => cache = cr
  BY DEF UpdateInv, CellsInvariant, CopiesAgree
<1>3. MigratedInPhase(cr, j, job[j], j \in ran)
  BY DEF MigrationOf
\* A decision outside an update.
<1>4. ASSUME NEW w, NEW at \in {"save", "saveNone"}, Saving(w, at),
             UNCHANGED <<cr, cache, ran, job>>, w.conditions = cache.conditions,
             \/ w.cluster \in {"Running", "Reconfiguration"}
             \/ w.cluster = cache.cluster /\ w.flow = cache.flow /\ w.names = cache.names,
             cache.cluster # "Updating", w.cluster # "Updating"
      PROVE MigrationOf(j)'
  <2>1. cacheFresh => MigratedInPhase(w, j, job[j], j \in ran)
    BY <1>2, <1>3, <1>4 DEF MigratedInPhase, Migrates
  <2>2. ~IsPrepared(w, j)
    BY <1>4 DEF IsPrepared
  <2> QED
    BY <1>4, <2>1, <2>2, SavingMigrates
<1>5. CASE Happy
  BY <1>5 DEF Happy, vars, reconcile, MigrationOf, Ahead
<1>6. CASE StartReconfiguration \/ FinishReconfiguration
  <2> DEFINE w(s) == SaveClusterState(cache, s)
  <2>1. \A s : w(s).cluster = s /\ w(s).conditions = cache.conditions
    BY <1>1 DEF SaveClusterState, Resource
  <2>2. Saving(w("Reconfiguration"), "save") \/ Saving(w("Running"), "save")
    BY <1>6 DEF StartReconfiguration, FinishReconfiguration
  <2>3. UNCHANGED <<cr, cache, ran, job>> /\ cache.cluster # "Updating"
    BY <1>6 DEF StartReconfiguration, FinishReconfiguration
  <2> HIDE DEF w
  <2> QED
    BY <1>4, <2>1, <2>2, <2>3
<1>7. CASE LeaveUpdate
  <2> DEFINE w == SaveUpdateState(cache, "None")
  <2>1. /\ w.cluster = cache.cluster /\ w.conditions = cache.conditions
        /\ w.flow = cache.flow /\ w.names = cache.names
    BY <1>1 DEF SaveUpdateState, Resource
  <2>2. /\ Saving(w, "saveNone") /\ UNCHANGED <<cr, cache, ran, job>>
        /\ cache.cluster # "Updating"
    BY <1>7 DEF LeaveUpdate
  <2> HIDE DEF w
  <2> QED
    BY <1>4, <2>1, <2>2
<1>8. CASE StartUpdate
  <2>1. PICK flow, names :
          Saving(SaveUpdatingClusterState(cache, flow, names), "save")
    BY <1>8 DEF StartUpdate
  <2> DEFINE w == SaveUpdatingClusterState(cache, flow, names)
  <2>2. /\ w.cluster = "Updating" /\ w.state = cache.state
        /\ w.conditions = cache.conditions
    BY <1>1 DEF SaveUpdatingClusterState, Resource
  <2>3. Saving(w, "save") /\ UNCHANGED <<cr, cache, ran, job>> /\ cache.cluster = "Running"
    BY <1>8, <2>1 DEF StartUpdate
  <2> HIDE DEF w
  <2>4. cacheFresh => w.state = "None" /\ w.conditions = {}
    BY <1>2, <2>2, <2>3 DEF UpdateInv, ProgressInvariant, Settled, Clean
  <2>5. "None" \notin {PrepareState(j), RunState(j)} \cup AfterRun(j)
    BY DEF PrepareState, RunState, AfterRun
  <2>6. cacheFresh => MigratedInPhase(w, j, job[j], j \in ran) /\ ~IsPrepared(w, j)
    BY <2>2, <2>4, <2>5 DEF MigratedInPhase, IsPrepared
  <2> QED
    BY <2>3, <2>6, SavingMigrates
<1>9. Moves(cache, Observed(cache)) /\ Observed(cache) \in Resource
  BY <1>1, MovesObserved
<1>10. SameMigration(cache, Observed(cache), j)
  <2>1. CASE Observed(cache) = cache
    BY <1>1, <2>1, SameMigrationCopies
  <2>2. CASE Observed(cache) # cache
    <3>1. /\ TabletNodes = {}
          /\ Observed(cache) = [cache EXCEPT !.conditions =
                                  @ \cup {"NotNecessaryToUpdateOpArchive"}]
      BY <2>2 DEF Observed, updateOpArchive, restartJob
    <3> QED
      BY <1>1, <3>1, SameMigrationConditions DEF Prepared, Updated
  <2> QED
    BY <2>1, <2>2
<1>11. cacheFresh => MigratedInPhase(Observed(cache), j, job[j], j \in ran)
  BY <1>2, <1>3, <1>10, SameMigrationPhase
<1>12. CASE HandleUpdate
  <2> DEFINE v == Observed(cache)
             w(next) == IF next \in UpdateState THEN SaveUpdateState(v, next)
                                                ELSE SaveClusterState(v, next)
  <2>1. PICK next : /\ handleFlow(v, NewComponentManager(v, Fetched), next)
                    /\ Saving(w(next), "save")
    BY <1>12 DEF HandleUpdate
  <2>2. UNCHANGED <<cr, cache, ran, job>> /\ cache.cluster = "Updating"
    BY <1>12 DEF HandleUpdate
  <2>3. v \in Resource /\ v.cluster = "Updating"
    BY <1>9, <2>2 DEF Moves
  <2>4. cacheFresh => MigratedInPhase(v, j, job[j], j \in ran)
    BY <1>11
  <2> HIDE DEF v
  <2>5. cacheFresh => MigratedInPhase(w(next), j, job[j], j \in ran) /\ ~IsPrepared(w(next), j)
    BY <2>1, <2>3, <2>4, HandlersMigrate
  <2> HIDE DEF w
  <2> QED
    BY <2>1, <2>2, <2>5, SavingMigrates
<1>13. CASE StartWalk
  <2> DEFINE v == Observed(cache)
  <2>1. /\ mem' = v /\ pc' = "walk" /\ memFresh' = cacheFresh /\ seen' = Fetched
        /\ UNCHANGED <<cr, cache, ran, job>>
    BY <1>13 DEF StartWalk
  <2>2. v.state = cache.state /\ (cacheFresh => MigratedInPhase(v, j, job[j], j \in ran))
    BY <1>9, <1>11 DEF Moves
  <2> HIDE DEF v
  <2>3. seen'.job = job
    BY <2>1 DEF Fetched
  <2>4. /\ MigratedInPhase(cr, j, job[j], j \in ran)
        /\ IsPrepared(cr, j) =>
             cache.cluster = "Updating" /\ cache.state = PrepareState(j)
    BY DEF MigrationOf
  <2>5. cacheFresh /\ v.cluster = "Updating" /\ v.state = RunState(j) /\ Migrates(v, j)
          /\ job[j] \in {"done", "dyingDone"} => j \in ran
    BY <2>2 DEF MigratedInPhase
  <2> QED
    <3>1. /\ MigratedInPhase(cr, j, job[j], j \in ran)'
          /\ (memFresh => MigratedInPhase(mem, j, job[j], j \in ran))'
      <4>1. MigratedInPhase(cr, j, job[j], j \in ran)'
        BY <2>1, <2>4 DEF MigratedInPhase, Migrates
      <4>2. ASSUME memFresh' PROVE MigratedInPhase(mem, j, job[j], j \in ran)'
        BY <2>1, <2>2, <4>2 DEF MigratedInPhase, Migrates
      <4> QED
        BY <4>1, <4>2
    <3>2. /\ (memFresh /\ pc = "save" => ~IsPrepared(mem, j))'
          /\ IsPrepared(cr, j)' =>
               /\ cache'.cluster = "Updating" /\ cache'.state = PrepareState(j)
               /\ mem'.state = PrepareState(j)
      BY <2>1, <2>2, <2>4 DEF IsPrepared
    <3>3. /\ seen'.job[j] = "none" => job'[j] = "none"
          /\ memFresh' /\ mem'.cluster = "Updating" /\ mem'.state = RunState(j)
             /\ Migrates(mem', j) /\ seen'.job[j] \in {"done", "dyingDone"}
             => j \in ran'
      BY <2>1, <2>3, <2>5 DEF Migrates
    <3> QED
      BY <3>1, <3>2, <3>3 DEF MigrationOf, IsPrepared, Migrates
<1> QED
  BY <1>5, <1>6, <1>7, <1>8, <1>12, <1>13 DEF Decide

\* An accepted save: the jobs that ran before it are of an earlier update when
\* it starts one.
LEMMA PersistMigrates ==
  ASSUME UpdateInv, StartsAtNone, NEW j \in Migrations, MigrationOf(j), Persist
  PROVE MigrationOf(j)'
<1>1. mem \in Resource /\ cr \in Resource
  BY DEF UpdateInv, TypeInv, TypeOK
<1>2. UNCHANGED <<cache, job>>
  BY DEF Persist, kube
<1>3. CASE ~memFresh
  <2>1. Idle /\ UNCHANGED <<cr, ran>>
    BY <1>3, Zenon DEF Persist, Accepted
  <2>2. MigratedInPhase(cr, j, job'[j], j \in ran')
    BY <1>2, <2>1 DEF MigrationOf
  <2> QED
    BY <1>2, <2>1, <2>2, IdleMigrates
<1>4. CASE memFresh
  <2>1. /\ cr' = [mem EXCEPT !.spec = cr.spec]
        /\ ran' = IF cr.cluster # "Updating" /\ mem.cluster = "Updating" THEN {} ELSE ran
    BY <1>4 DEF Persist, Accepted
  <2>2. SameMigration(mem, cr', j)
    BY <1>1, <2>1, SameMigrationCopies
  <2>3. MigratedInPhase(mem, j, job[j], j \in ran)
    BY <1>4 DEF MigrationOf
  <2>4. MigratedInPhase(mem, j, job[j], j \in ran')
    <3>1. CASE cr.cluster # "Updating" /\ mem.cluster = "Updating"
      <4>1. mem.state = "None"
        BY <1>4, <3>1 DEF StartsAtNone
      <4>2. "None" \notin {PrepareState(j), RunState(j)} \cup AfterRun(j)
        BY DEF PrepareState, RunState, AfterRun
      <4> QED
        BY <2>3, <3>1, <4>1, <4>2 DEF MigratedInPhase, IsPrepared
    <3> QED
      BY <2>1, <2>3, <3>1
  <2>5. MigratedInPhase(cr', j, job'[j], j \in ran')
    BY <1>2, <2>2, <2>4, SameMigrationPhase
  <2>6. CASE pc \notin {"saveNone", "saveClear"}
    <3>1. Idle
      BY <1>4, <2>6, Zenon DEF Persist, Accepted
    <3>2. IsPrepared(cr', j) => cache.cluster = "Updating" /\ cache.state = PrepareState(j)
      <4> SUFFICES ASSUME IsPrepared(cr', j)
                   PROVE cache.cluster = "Updating" /\ cache.state = PrepareState(j)
        OBVIOUS
      <4>1. IsPrepared(mem, j) /\ mem.cluster = "Updating" /\ mem.state = PrepareState(j)
        BY <2>2, SameMigrationPhase DEF IsPrepared
      <4>2. pc = "walk"
        BY <1>4, <2>6, <4>1 DEF Persist, MigrationOf
      <4>3. cacheFresh /\ mem.cluster = cr.cluster /\ mem.state = cr.state
        BY <1>4, <4>1, <4>2 DEF UpdateInv, ProgressInvariant
      <4> QED
        BY <4>1, <4>3 DEF UpdateInv, CellsInvariant, CopiesAgree
    <3> QED
      BY <1>2, <2>5, <3>1, <3>2 DEF MigrationOf, Idle, Ahead
  <2>7. CASE pc \in {"saveNone", "saveClear"}
    <3>1. /\ mem' = ClearUpdateStatus(mem) \/ mem' = SaveClusterState(mem, "Running")
          /\ pc' # "walk"
      BY <1>4, <2>7, Zenon DEF Persist, Accepted
    <3>2. Leaving(mem)
      BY <2>7 DEF UpdateInv, CellsInvariant, CopiesAgree
    <3>3. /\ mem'.cluster # "Updating" /\ cr'.cluster # "Updating"
          /\ mem'.conditions \subseteq mem.conditions
          /\ mem'.cluster = "Running" \/ mem'.flow = "NoFlow"
      <4>1. mem' = ClearUpdateStatus(mem) =>
              /\ mem'.cluster = mem.cluster /\ mem'.conditions = {}
              /\ mem'.flow = "NoFlow"
        BY <1>1 DEF ClearUpdateStatus, Resource
      <4>2. mem' = SaveClusterState(mem, "Running") =>
              mem'.cluster = "Running" /\ mem'.conditions = mem.conditions
        BY <1>1 DEF SaveClusterState, Resource
      <4> QED
        BY <2>2, <3>1, <3>2, <4>1, <4>2 DEF Leaving, SameMigration
    <3>4. MigratedInPhase(mem', j, job'[j], j \in ran')
      BY <2>3, <3>3 DEF MigratedInPhase, Migrates
    <3>5. ~IsPrepared(mem', j) /\ ~IsPrepared(cr', j)
      BY <3>3 DEF IsPrepared
    <3> QED
      BY <2>5, <3>1, <3>4, <3>5 DEF MigrationOf, Ahead
  <2> QED
    BY <2>6, <2>7
<1> QED
  BY <1>1, <1>3, <1>4 DEF UpdateInv, TypeInv, TypeOK

\* What Kubernetes does to the job: it runs at most once it was created anew.
LEMMA JobMigrates ==
  ASSUME TypeInv, NEW j \in Migrations, MigrationOf(j), NEW i \in Jobs,
         JobRuns(i) \/ JobCollected(i) \/ JobExpires(i)
  PROVE MigrationOf(j)'
<1>1. /\ UNCHANGED <<cr, cache, reconcile>> /\ job \in [Jobs -> JobState] /\ j \in Jobs
  BY DEF TypeInv, TypeOK, JobRuns, JobCollected, JobExpires, resource, Migrations, Jobs
<1>2. CASE i # j
  <2>1. job'[j] = job[j] /\ (j \in ran' <=> j \in ran)
    BY <1>1, <1>2 DEF JobRuns, JobCollected, JobExpires, resource
  <2>2. /\ MigratedInPhase(cr, j, job'[j], j \in ran')
        /\ memFresh => MigratedInPhase(mem, j, job'[j], j \in ran')
    BY <2>1 DEF MigrationOf, MigratedInPhase
  <2> QED
    BY <1>1, <2>1, <2>2 DEF reconcile, MigrationOf, Ahead
<1>3. CASE i = j /\ JobRuns(i)
  <2>1. job[j] = "active" /\ job'[j] = "done" /\ j \in ran'
    BY <1>1, <1>3 DEF JobRuns
  <2>2. /\ MigratedInPhase(cr, j, job'[j], j \in ran')
        /\ memFresh => MigratedInPhase(mem, j, job'[j], j \in ran')
    BY <2>1 DEF MigrationOf, MigratedInPhase
  <2> QED
    BY <1>1, <2>1, <2>2 DEF reconcile, MigrationOf, Ahead
<1>4. CASE i = j /\ (JobCollected(i) \/ JobExpires(i))
  <2>1. job'[j] = "none" /\ ran' = ran
    BY <1>1, <1>4 DEF JobCollected, JobExpires, resource
  <2>2. /\ MigratedInPhase(cr, j, job'[j], j \in ran')
        /\ memFresh => MigratedInPhase(mem, j, job'[j], j \in ran')
    BY <2>1 DEF MigrationOf, MigratedInPhase
  <2> QED
    BY <1>1, <2>1, <2>2 DEF reconcile, MigrationOf, Ahead
<1> QED
  BY <1>2, <1>3, <1>4

\* Every step keeps the invariant.
LEMMA NextMigrates ==
  ASSUME UpdateInv, StartsAtNone, NEW j \in Migrations, MigrationOf(j), [Next]_vars
  PROVE MigrationOf(j)'
<1>1. TypeInv /\ MigratedInPhase(cr, j, job[j], j \in ran)
  BY DEF UpdateInv, MigrationOf
<1>2. ASSUME UNCHANGED <<cr, cache, ran, mem, memFresh, pc, todo, seen, job>>
      PROVE MigrationOf(j)'
  BY <1>2 DEF MigrationOf, Ahead
<1>3. ASSUME Idle, UNCHANGED <<cr, cache, ran, job>> PROVE MigrationOf(j)'
  BY <1>1, <1>3, IdleMigrates
<1>4. CASE UNCHANGED vars
  BY <1>2, <1>4 DEF vars, resource, reconcile, kube
<1>5. CASE Operator
  <2>1. CASE CallFails
    BY <1>3, <2>1 DEF CallFails, resource, kube
  <2> QED
    BY <1>5, <2>1, DecideMigrates, PersistMigrates, VisitMigrates DEF Operator
<1>6. CASE Deliver
  <2>1. cache' = cr /\ UNCHANGED <<cr, ran, mem, memFresh, pc, todo, seen, job>>
    BY <1>6 DEF Deliver, reconcile, kube
  <2>2. IsPrepared(cr, j) => cr.cluster = "Updating" /\ cr.state = PrepareState(j)
    BY DEF IsPrepared
  <2> QED
    BY <2>1, <2>2 DEF MigrationOf, Ahead
<1>7. CASE User
  <2>1. PICK spec : Edited(spec)
    BY <1>7, Zenon DEF User, EditImage, EditConfig, EditReplicas, EditPolicy
  <2>2. /\ cr' = [cr EXCEPT !.spec = spec] /\ memFresh' = FALSE /\ cr \in Resource
        /\ UNCHANGED <<cache, ran, mem, pc, todo, seen, job>>
    BY <1>1, <2>1 DEF Edited, kube, TypeInv, TypeOK
  <2>3. SameMigration(cr, cr', j)
    BY <2>2, SameMigrationCopies
  <2>4. /\ MigratedInPhase(cr', j, job[j], j \in ran)
        /\ IsPrepared(cr', j) <=> IsPrepared(cr, j)
    BY <1>1, <2>3, SameMigrationPhase
  <2> QED
    BY <2>2, <2>4 DEF MigrationOf, Ahead
<1>8. CASE Kubernetes
  <2>1. CASE \E c \in Components : PodsStop(c) \/ PodsStart(c) \/ PodsBecomeReady(c)
    BY <1>2, <2>1 DEF PodsStop, PodsStart, PodsBecomeReady, resource, reconcile
  <2> QED
    BY <1>1, <1>8, <2>1, JobMigrates DEF Kubernetes
<1>9. CASE Cluster
  BY <1>2, <1>9
  DEF Cluster, CellGone, SnapshotBuilt, BecomeHealthy, resource, reconcile, kube
<1>10. CASE Fault
  BY <1>2, <1>3, <1>10
  DEF Fault, Abort, BecomeUnhealthy, PodsFail, resource, reconcile, kube
<1> QED
  BY <1>4, <1>5, <1>6, <1>7, <1>8, <1>9, <1>10 DEF Next

\* Only StartUpdate starts an update, from a clean status.
LEMMA NextStarts ==
  UpdateInv /\ UpdateInv' /\ StartsAtNone /\ [Next]_vars => StartsAtNone'
<1> SUFFICES ASSUME UpdateInv, UpdateInv', StartsAtNone, [Next]_vars PROVE StartsAtNone'
  OBVIOUS
<1>1. TypeInv /\ mem \in Resource /\ cache \in Resource /\ (cacheFresh => cache = cr)
  BY DEF UpdateInv, TypeInv, TypeOK, CellsInvariant, CopiesAgree
<1>2. pc' = "walk" => StartsAtNone'
  BY DEF UpdateInv, ProgressInvariant, StartsAtNone
<1>3. Idle => StartsAtNone'
  BY DEF Idle, StartsAtNone
<1>4. UNCHANGED <<cr, mem, memFresh>> => StartsAtNone'
  BY DEF StartsAtNone
<1>5. ASSUME NEW w, NEW at, Saving(w, at), UNCHANGED cr,
             cacheFresh /\ w.cluster = "Updating" /\ cr.cluster # "Updating" => w.state = "None"
      PROVE StartsAtNone'
  BY <1>5 DEF Saving, StartsAtNone
<1>6. CASE Decide
  <2> USE DEF resource
  <2>1. CASE StartReconfiguration \/ FinishReconfiguration
    <3>1. SaveClusterState(cache, "Reconfiguration").cluster = "Reconfiguration"
          /\ SaveClusterState(cache, "Running").cluster = "Running"
      BY <1>1 DEF SaveClusterState, Resource
    <3> QED
      BY <1>5, <2>1, <3>1 DEF StartReconfiguration, FinishReconfiguration
  <2>2. CASE LeaveUpdate
    <3>1. SaveUpdateState(cache, "None").cluster = cache.cluster
      BY <1>1 DEF SaveUpdateState, Resource
    <3> QED
      BY <1>5, <2>2, <3>1 DEF LeaveUpdate
  <2>3. CASE StartUpdate
    <3>1. PICK flow, names :
            Saving(SaveUpdatingClusterState(cache, flow, names), "save")
      BY <2>3 DEF StartUpdate
    <3>2. SaveUpdatingClusterState(cache, flow, names).state = cache.state
      BY <1>1 DEF SaveUpdatingClusterState, Resource
    <3>3. cacheFresh => cache.state = "None"
      BY <1>1, <2>3 DEF StartUpdate, UpdateInv, ProgressInvariant, Settled, Clean
    <3> QED
      BY <1>5, <2>3, <3>1, <3>2, <3>3 DEF StartUpdate
  <2>4. CASE HandleUpdate
    <3>1. cacheFresh => cr.cluster = "Updating"
      BY <1>1, <2>4 DEF HandleUpdate
    <3> QED
      BY <1>5, <2>4, <3>1 DEF HandleUpdate
  <2>5. CASE Happy \/ StartWalk
    BY <1>2, <1>4, <2>5 DEF Happy, StartWalk, vars, reconcile
  <2> QED
    BY <1>6, <2>1, <2>2, <2>3, <2>4, <2>5 DEF Decide
<1>7. CASE Persist
  <2>1. CASE pc \in {"saveNone", "saveClear"} /\ memFresh
    <3>1. mem' = ClearUpdateStatus(mem) \/ mem' = SaveClusterState(mem, "Running")
      BY <1>7, <2>1, Zenon DEF Persist, Accepted
    <3>2. Leaving(mem)
      BY <2>1 DEF UpdateInv, CellsInvariant, CopiesAgree
    <3>3. mem'.cluster # "Updating"
      BY <1>1, <3>1, <3>2, Zenon DEF Leaving, ClearUpdateStatus, SaveClusterState, Resource
    <3> QED
      BY <3>3 DEF StartsAtNone
  <2>2. CASE ~(pc \in {"saveNone", "saveClear"} /\ memFresh)
    BY <1>3, <1>7, <2>2 DEF Persist, Accepted
  <2> QED
    BY <2>1, <2>2
<1>8. CASE (\E c \in Components : Visit(c)) \/ VisitClient \/ NoClient
  BY <1>1, <1>2, <1>3, <1>8, VisitMoves, ClientMoves
<1>9. CASE CallFails \/ Fault
  BY <1>3, <1>4, <1>9
  DEF CallFails, Fault, Abort, BecomeUnhealthy, PodsFail, resource, reconcile
<1>10. CASE User
  BY <1>10 DEF User, EditImage, EditConfig, EditReplicas, EditPolicy, Edited, StartsAtNone
<1>11. CASE UNCHANGED vars \/ Deliver
  BY <1>4, <1>11, Zenon DEF vars, Deliver, resource, reconcile
<1>12. CASE Kubernetes
  <2>1. ASSUME NEW c \in Components, PodsStop(c) \/ PodsStart(c) \/ PodsBecomeReady(c)
        PROVE UNCHANGED <<cr, mem, memFresh>>
    BY <2>1 DEF PodsStop, PodsStart, PodsBecomeReady, resource, reconcile
  <2>2. ASSUME NEW i \in Jobs, JobRuns(i) \/ JobCollected(i) \/ JobExpires(i)
        PROVE UNCHANGED <<cr, mem, memFresh>>
    BY <2>2 DEF JobRuns, JobCollected, JobExpires, resource, reconcile
  <2> QED
    BY <1>4, <1>12, <2>1, <2>2, Zenon DEF Kubernetes
<1>13. CASE Cluster
  BY <1>4, <1>13 DEF Cluster, CellGone, SnapshotBuilt, BecomeHealthy, resource, reconcile
<1> QED
  BY <1>6, <1>7, <1>8, <1>9, <1>10, <1>11, <1>12, <1>13, Zenon DEF Next, Operator

\* The invariant holds at first.
LEMMA InitMigrates == Init => MigrationInvariant
<1> SUFFICES ASSUME Init PROVE MigrationInvariant
  OBVIOUS
<1>1. cr.cluster = "Running" /\ cr.conditions = {} /\ ~memFresh /\ pc = "idle"
  BY DEF Init, InitialResource
<1> QED
  BY <1>1
  DEF MigrationInvariant, StartsAtNone, MigrationOf, MigratedInPhase, IsPrepared, Ahead

\* In every phase of an update the stored status says whether the jobs that
\* migrate the operations archive and the query tracker's state have run in it.
THEOREM MigrationInPlace == Spec => []MigrationInvariant
<1>1. UpdateInv /\ UpdateInv' /\ MigrationInvariant /\ [Next]_vars => MigrationInvariant'
  BY NextStarts, NextMigrates DEF MigrationInvariant
<1>2. Spec => []UpdateInv
  BY UpdateInvariants
<1> QED
  BY <1>1, <1>2, InitMigrates, PTL DEF Spec

\* A full or stateless update does not reach UpdateFinishing before the init
\* jobs that migrate the operations archive and the query tracker's state have
\* run after it started, for the components it updates: a job left over from
\* an earlier update, created again by a walk over an old copy, or still being
\* deleted when it is judged, never passes for the one of this update.  For
\* any cluster, and whether deleted jobs linger or not.
THEOREM FinishedIsMigrated == Spec => []FinishedMeansMigrated
<1>1. MigrationInvariant => FinishedMeansMigrated
  <2> SUFFICES ASSUME MigrationInvariant, cr.cluster = "UpdateFinishing",
                      cr.flow \in {"Full", "Stateless"},
                      NEW c \in Components \cap {Scheduler, QueryTracker},
                      IsUpdatingComponent(cr.names, c), NEW j \in JobOf(c)
               PROVE j \in ran
    BY DEF FinishedMeansMigrated
  <2>1. j \in Migrations /\ c = Migrator(j)
    BY Roles DEF JobOf, Migrations, Migrator
  <2>2. Migrates(cr, j) /\ MigratedInPhase(cr, j, job[j], j \in ran)
    BY <2>1 DEF Migrates, MigrationInvariant, MigrationOf
  <2> QED
    BY <2>2 DEF MigratedInPhase
<1> QED
  BY <1>1, MigrationInPlace, PTL
===============================================================================
