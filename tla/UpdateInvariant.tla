---------------------------- MODULE UpdateInvariant ----------------------------
(***************************************************************************)
(* The inductive invariants of an update, for statuses of which the        *)
(* operator may hold old copies: why no tablet cell is lost, why progress  *)
(* is kept, why the masters accept writes in the end, and why migrations   *)
(* have run.  Each says what the stored status tells about the cluster in  *)
(* every phase, and how far the copies may lag behind.                     *)
(***************************************************************************)
EXTENDS YtsaurusUpdate

NoCells == [b \in Bundles |-> 0]

\* a and d stand for the values of alive and dying.
Intact(a, d) == a = Cells /\ d = NoCells

\* The states of an update before the cells are removed, while none is left,
\* and after they were recovered.
BeforeRemoval == {"None", "PossibilityCheck", "ImpossibleToStart",
                  "WaitingForSafeModeEnabled", "WaitingForTabletCellsSaving"}

Removing == {"WaitingForTabletCellsRemovingStart",
             "WaitingForTabletCellsRemoved"}

AfterRecovery == {"WaitingForOpArchiveUpdatingPrepare",
                  "WaitingForOpArchiveUpdate",
                  "WaitingForQTStateUpdatingPrepare",
                  "WaitingForQTStateUpdate", "WaitingForSafeModeDisabled"}

\* The states only the flows that remove tablet cells go through.
CellStates == Removing \cup {"WaitingForTabletCellsSaving",
                             "WaitingForTabletCellsRecovery"}

RemovesCells(r) == r.flow \in {"Full", "TabletNodes"}

\* The conditions that speak of tablet cells.
CellConditions == {"TabletCellsSaved", "TabletCellsRemovingStarted",
                   "TabletCellsRemoved", "TabletCellsRecovered"}

\* No condition of an update is set before its time.
ConditionsInOrder(r) ==
  /\ "TabletCellsRemovingStarted" \in r.conditions =>
       r.state \notin BeforeRemoval
  /\ "TabletCellsRemoved" \in r.conditions =>
       r.state \notin BeforeRemoval \cup {"WaitingForTabletCellsRemovingStart"}
  /\ "TabletCellsRecovered" \in r.conditions =>
       r.state \in AfterRecovery \cup {"WaitingForTabletCellsRecovery"}

\* Where the cells are when a cluster is updating with status r.
CellsInPhase(r, a, d) ==
  /\ ~RemovesCells(r) \/ r.state \in BeforeRemoval \cup AfterRecovery =>
       Intact(a, d)
  /\ RemovesCells(r) /\ r.state \notin BeforeRemoval \cup AfterRecovery =>
       "TabletCellsSaved" \in r.conditions
  /\ "TabletCellsSaved" \in r.conditions => r.bundles = Cells
  /\ /\ r.state = "WaitingForTabletCellsRemovingStart"
     /\ "TabletCellsRemovingStarted" \in r.conditions
     => a = NoCells
  /\ r.state = "WaitingForTabletCellsRemoved" => a = NoCells
  /\ /\ r.state = "WaitingForTabletCellsRemoved"
     /\ "TabletCellsRemoved" \in r.conditions
     => d = NoCells
  /\ /\ RemovesCells(r)
     /\ r.state \in {"WaitingForSnapshots", "WaitingForPodsRemoval",
                     "WaitingForPodsCreation", "WaitingForMasterExitReadOnly"}
     => a = NoCells /\ d = NoCells
  /\ r.state = "WaitingForTabletCellsRecovery" => d = NoCells
  /\ /\ r.state = "WaitingForTabletCellsRecovery"
     /\ "TabletCellsRecovered" \in r.conditions
     => Intact(a, d)

\* What a status r that is stored, or that will be accepted, says about the
\* cells.
Faithful(r, a, d) ==
  /\ r.cluster = "Updating" => /\ ConditionsInOrder(r) /\ CellsInPhase(r, a, d)
                               /\ r.state \in CellStates => RemovesCells(r)
                               /\ r.flow # "NoFlow"
  /\ r.cluster # "Updating" => Intact(a, d)
  /\ r.cluster \in {"Running", "Reconfiguration"} =>
       r.state = "None" /\ \A x \in CellConditions : x \notin r.conditions

Ongoing(r, state, condition) ==
  r.cluster = "Updating" /\ r.state = state /\ condition \notin r.conditions

\* While copy v sees cells being removed or recovered, status w does too.
Keeps(v, w) ==
  /\ Ongoing(v, "WaitingForTabletCellsRemovingStart",
             "TabletCellsRemovingStarted") =>
       w.cluster = "Updating" /\ w.state = "WaitingForTabletCellsRemovingStart"
  /\ Ongoing(v, "WaitingForTabletCellsRecovery", "TabletCellsRecovered") =>
       /\ w.cluster = "Updating" /\ w.state = "WaitingForTabletCellsRecovery"
       /\ w.bundles = v.bundles

Leaving(r) == r.cluster \in {"CancelUpdate", "UpdateFinishing"}

\* The copies of the resource: how they relate to it and to one another.
CopiesAgree ==
  /\ cacheFresh => cache = cr
  /\ memFresh => cacheFresh \/ Leaving(cache)
  /\ pc \in {"saveNone", "saveClear"} => Leaving(mem) /\ mem.state = "None"
  /\ pc = "saveClear" => mem.conditions = {}
  /\ memFresh /\ pc \in {"saveNone", "saveClear"} => Leaving(cr)
  /\ Keeps(cache, cr)
  /\ pc = "walk" => Keeps(mem, cr)
  /\ memFresh => Keeps(cr, mem)

\* The inductive invariant.  No count of cells exceeds the one at the start;
\* the stored status is faithful, and so is a copy that would be accepted;
\* and a copy that lags behind does not make the client remove or recover
\* cells in another phase than the stored one.
CellsInvariant ==
  /\ \A b \in Bundles : CellCount(b) <= Cells[b]
  /\ CopiesAgree
  /\ Faithful(cr, alive, dying)
  /\ memFresh => Faithful(mem, alive, dying)

-------------------------------------------------------------------------------
(* How far the copies may lag behind, and what is left of an update.       *)

\* Status w keeps what the update of status v has achieved.
Continues(v, w) ==
  /\ v.conditions \ {"MasterExitReadOnlyPrepared"} \subseteq w.conditions
  /\ v.removing \subseteq w.removing /\ v.removed \subseteq w.removed
  /\ w.flow = v.flow /\ w.names = v.names

\* Nothing in the status is left of an update.
Clean(r) ==
  /\ r.state = "None" /\ r.flow = "NoFlow" /\ r.names = {} /\ r.conditions = {}
  /\ r.removing = {} /\ r.removed = {} /\ r.bundles = NoCells

Settled(r) == r.cluster \in {"Running", "Reconfiguration"}

\* The copy v belongs to the update of status r.
SameUpdate(v, r) ==
  v.cluster = "Updating" /\ v.flow = r.flow /\ v.names = r.names

\* An update cannot get ahead of the cache by more than one accepted save, so
\* a copy that lags behind is of the same update or of the moment before it.
ProgressInvariant ==
  /\ memFresh /\ cr.cluster = "Updating" => Continues(cr, mem)
  /\ cr.cluster = "Updating" =>
       /\ cache.cluster = "Running" \/ SameUpdate(cache, cr)
       /\ pc = "walk" => SameUpdate(mem, cr)
  /\ memFresh /\ mem.cluster = "Updating" =>
       cacheFresh /\ (cr.cluster = "Updating" \/ cr.cluster = "Running")
  /\ pc = "walk" => mem.cluster \in {"Reconfiguration", "Updating"}
  /\ pc = "walk" /\ memFresh => mem.cluster = cr.cluster /\ mem.state = cr.state
  /\ Settled(cr) => Clean(cr)
  /\ memFresh /\ Settled(mem) => Clean(mem)
  /\ pc = "saveClear" => Clean(mem)

-------------------------------------------------------------------------------
(* The safe mode and the read-only mode of the masters.                    *)

\* The flows that stop the masters, and the states only they go through.
StopsMasters(r) == r.flow \in {"Full", "Master"}

MasterStates == {"WaitingForSafeModeEnabled", "WaitingForSnapshots",
                 "WaitingForMasterExitReadOnly", "WaitingForSafeModeDisabled"}

\* The states of an update before the masters are told to build snapshots,
\* and after they have left the read-only mode.
BeforeSnapshots == BeforeRemoval \cup Removing
AfterExit == AfterRecovery \cup {"WaitingForTabletCellsRecovery"}

\* What a status r that is stored, or that will be accepted, says about the
\* masters: safe is the safe mode, ro the read-only peers, done tells whether
\* the job that makes them leave the read-only mode has finished.
WritesInPhase(r, safe, ro, done) ==
  /\ r.cluster # "Updating" => ~safe /\ ro = {}
  /\ r.cluster = "Updating" =>
       /\ r.state \in MasterStates => StopsMasters(r)
       /\ "SafeModeDisabled" \in r.conditions =>
            r.state = "WaitingForSafeModeDisabled"
       /\ "MasterExitReadOnlyPrepared" \in r.conditions =>
            /\ r.state = "WaitingForMasterExitReadOnly"
            /\ "MasterExitedReadOnly" \notin r.conditions
            /\ done \/ r.jobs["ExitReadOnly"] = "True" => ro = {}
       /\ "MasterExitedReadOnly" \in r.conditions =>
            /\ r.state \in AfterExit \cup {"WaitingForMasterExitReadOnly"}
            /\ ro = {}
       /\ \/ ~StopsMasters(r) \/ "SafeModeDisabled" \in r.conditions
          \/ r.state \in {"None", "PossibilityCheck", "ImpossibleToStart"}
          => ~safe
       /\ ~StopsMasters(r) \/ r.state \in BeforeSnapshots \cup AfterExit => ro = {}

\* While copy v stops the masters, status w does too.
KeepsStopping(v, w) ==
  /\ Ongoing(v, "WaitingForSafeModeEnabled", "SafeModeEnabled") =>
       w.cluster = "Updating" /\ w.state = "WaitingForSafeModeEnabled"
  /\ Ongoing(v, "WaitingForSnapshots", "SnaphotsSaved") =>
       w.cluster = "Updating" /\ w.state = "WaitingForSnapshots"

\* The walk has not come to component c yet.
Ahead(c) == pc = "walk" /\ \A i \in DOMAIN Order : Order[i] = c => todo <= i

\* The part of the walk that makes the masters leave the read-only mode: what
\* was fetched about the job is not older than the copy it is judged by.
ExitInWalk ==
  Ahead(Master) =>
    /\ seen.job["ExitReadOnly"] = "none" => job["ExitReadOnly"] = "none"
    /\ memFresh /\ mem.cluster = "Updating"
       /\ mem.state = "WaitingForMasterExitReadOnly" =>
         /\ "MasterExitedReadOnly" \notin mem.conditions
         /\ /\ "MasterExitReadOnlyPrepared" \in mem.conditions
            /\ seen.job["ExitReadOnly"] = "done"
            => readOnly = {}

\* A job that is deleted is gone at once.
JobsVanish ==
  /\ job["ExitReadOnly"] \in {"none", "active", "done"}
  /\ seen.job["ExitReadOnly"] \in {"none", "active", "done"}

ExitDone == job["ExitReadOnly"] = "done"

\* The inductive invariant behind RunningMeansRestored, for a cluster in which
\* a deleted job is gone at once.
RestoreInvariant ==
  /\ JobsVanish
  /\ KeepsStopping(cache, cr)
  /\ pc = "walk" => KeepsStopping(mem, cr)
  /\ memFresh => KeepsStopping(cr, mem)
  /\ WritesInPhase(cr, safeMode, readOnly, ExitDone)
  /\ memFresh => WritesInPhase(mem, safeMode, readOnly, ExitDone)
  /\ ExitInWalk

-------------------------------------------------------------------------------
(* The init jobs that migrate the cluster's state.                         *)

Migrations == {"OpArchive", "QTState"}

\* Of each: its component, the states that prepare and await the job, the
\* conditions that end them, and the states that follow.
Migrator(j) == IF j = "OpArchive" THEN Scheduler ELSE QueryTracker
PrepareState(j) == IF j = "OpArchive" THEN "WaitingForOpArchiveUpdatingPrepare"
                   ELSE "WaitingForQTStateUpdatingPrepare"
RunState(j) == IF j = "OpArchive" THEN "WaitingForOpArchiveUpdate"
               ELSE "WaitingForQTStateUpdate"
Prepared(j) == IF j = "OpArchive" THEN "OpArchivePreparedForUpdating"
               ELSE "QTStatePreparedForUpdating"
Updated(j) == IF j = "OpArchive" THEN "OpArchiveUpdated" ELSE "QTStateUpdated"
AfterRun(j) == {"WaitingForSafeModeDisabled"} \cup
               IF j = "OpArchive" THEN {"WaitingForQTStateUpdatingPrepare",
                                        "WaitingForQTStateUpdate"}
               ELSE {}

\* The update of status r runs job j.
Migrates(r, j) ==
  /\ r.flow \in {"Full", "Stateless"}
  /\ Migrator(j) \in Components /\ IsUpdatingComponent(r.names, Migrator(j))
  /\ j \in JobOf(Migrator(j))

\* Status r waits for nothing but the save that follows the preparation of j.
IsPrepared(r, j) == /\ r.cluster = "Updating" /\ r.state = PrepareState(j)
                    /\ Prepared(j) \in r.conditions

\* What a status r that is stored, or that will be accepted, says about job j
\* of a migration: s is the state of the job, past tells whether it ran in
\* this update.
MigratedInPhase(r, j, s, past) ==
  /\ r.cluster = "Updating" =>
       /\ Prepared(j) \in r.conditions =>
            r.state \in {PrepareState(j), RunState(j)} \cup AfterRun(j)
       /\ Updated(j) \in r.conditions => r.state \in {RunState(j)} \cup AfterRun(j)
       /\ Migrates(r, j) =>
            /\ IsPrepared(r, j) => s = "none" /\ r.jobs[j] # "True"
            /\ /\ r.state = RunState(j)
               /\ \/ s \in {"done", "dyingDone"} \/ r.jobs[j] = "True"
                  \/ Updated(j) \in r.conditions
               => past
            /\ r.state \in AfterRun(j) => past
  /\ r.cluster = "UpdateFinishing" /\ Migrates(r, j) => past
  /\ "NotNecessaryToUpdateOpArchive" \in r.conditions => TabletNodes = {}

\* Where job j of a migration stands.  Once it has been removed, no walk of an
\* older copy creates it again; and what a walk has fetched about it is not
\* older than the copy it is judged by.
MigrationOf(j) ==
  /\ MigratedInPhase(cr, j, job[j], j \in ran)
  /\ memFresh => MigratedInPhase(mem, j, job[j], j \in ran)
  /\ memFresh /\ pc = "save" => ~IsPrepared(mem, j)
  /\ IsPrepared(cr, j) =>
       /\ cache.cluster = "Updating" /\ cache.state = PrepareState(j)
       /\ pc = "walk" => mem.state = PrepareState(j)
  /\ Ahead(Migrator(j)) =>
       /\ seen.job[j] = "none" => job[j] = "none"
       /\ memFresh /\ mem.cluster = "Updating" /\ mem.state = RunState(j)
          /\ Migrates(mem, j) /\ seen.job[j] \in {"done", "dyingDone"}
          => j \in ran

\* A save that starts an update starts it in its first state.
StartsAtNone ==
  memFresh /\ mem.cluster = "Updating" /\ cr.cluster # "Updating" => mem.state = "None"

\* The inductive invariant behind FinishedMeansMigrated.
MigrationInvariant == StartsAtNone /\ \A j \in Migrations : MigrationOf(j)
================================================================================
