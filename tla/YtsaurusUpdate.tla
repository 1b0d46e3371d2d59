---------------------------- MODULE YtsaurusUpdate ----------------------------
(***************************************************************************)
(* The reconcile loop of a Ytsaurus cluster that is up: it notices changes *)
(* of the spec, chooses an update flow, and walks the flow, while the      *)
(* operator may crash or fail between any two steps.                       *)
(*                                                                         *)
(* The actors are the operator (one reconcile at a time), the API server   *)
(* that stores the resource, the informer cache the operator reads, the    *)
(* user who edits the spec, Kubernetes (pods of the StatefulSets, init     *)
(* jobs) and the YTsaurus cluster itself.  A reconcile reads the cache,    *)
(* decides, and either saves one transition of the status or walks the     *)
(* components, acting on Kubernetes and on YTsaurus, and saves the         *)
(* conditions it gathered only at the end of the walk.                     *)
(***************************************************************************)
EXTENDS UpdateFlow, Integers, Sequences, FiniteSets

CONSTANTS
  Master,        \* the master component
  HttpProxy,     \* the HTTP proxies the YTsaurus client goes through
  Scheduler,     \* the scheduler (outside Components when there is none)
  QueryTracker,  \* the query tracker (likewise)
  Client,        \* the YTsaurus client, a component without pods
  Order,         \* allComponents: the sequence the component manager walks
  Bundles,       \* tablet cell bundles
  Cells,         \* Cells[b]: tablet cells of bundle b in the running cluster
  Peers,         \* master peers
  JobsLinger,    \* TRUE: a deleted job stays visible until it is collected
  ImageEdits,    \* bound: sets of components whose image is edited together
  ConfigEdits,   \* bound: sets of components whose config is edited together
  Selectors,     \* bound: update selectors a user sets
  FullUpdates,   \* bound: values of enableFullUpdate a user sets
  MaxCells,      \* bound: tablet cells of a bundle
  MaxVersion,    \* bound: versions of images and of configs a user asks for
  MaxReplicas,   \* bound: replicas a user asks for
  MaxEdits,      \* bound: edits of the spec
  MaxFaults      \* bound: crashes, failed calls, pod restarts, health changes

ASSUME UpdateAssumption ==
  /\ Masters = {Master}
  /\ HttpProxy \in Components \ (Masters \cup TabletNodes \cup ExecNodes)
  /\ Client \notin Components
  /\ Order \in Seq(Components \cup {Client})
  /\ \A c \in Components \cup {Client} : \E i \in DOMAIN Order : Order[i] = c
  /\ ImageEdits \subseteq SUBSET Components
  /\ ConfigEdits \subseteq SUBSET Components
  /\ Selectors \subseteq UpdateSelector /\ Selectors # {}
  /\ FullUpdates \subseteq BOOLEAN /\ FullUpdates # {}
  /\ MaxCells \in Nat
  /\ Cells \in [Bundles -> 0..MaxCells]
  /\ JobsLinger \in BOOLEAN
  /\ MaxVersion \in Nat /\ MaxEdits \in Nat /\ MaxFaults \in Nat
  /\ MaxReplicas \in Nat \ {0}

\* The scheduler and the query tracker are components of their own, and
\* allComponents names every component once.
ASSUME RolesAssumption ==
  /\ {Scheduler, QueryTracker} \cap
       (Masters \cup TabletNodes \cup ExecNodes \cup {HttpProxy, Client}) = {}
  /\ Scheduler # QueryTracker
  /\ \A i, j \in DOMAIN Order : Order[i] = Order[j] => i = j

VARIABLES
  cr,          \* the resource as the API server stores it
  cache,       \* the informer's copy of it
  cacheFresh,  \* TRUE iff cache carries the stored resource version
  ran,         \* history: init jobs that ran since the last update started
  mem,         \* the copy the current reconcile works on
  memFresh,    \* TRUE iff mem carries the stored resource version
  pc,          \* where the reconcile is
  todo,        \* index in Order of the component the walk is at
  seen,        \* the objects of Kubernetes as the reconcile fetched them
  sts,         \* sts[c]: StatefulSet and config map of component c
  pods,        \* pods[c]: what a list of its pods shows
  podImage,    \* podImage[c]: the image they run
  job,         \* job[j]: the Kubernetes job of init job j
  jobConfig,   \* jobConfig[j]: does its config map exist?
  safeMode,    \* //sys/@enable_safe_mode
  alive,       \* alive[b]: tablet cells of bundle b
  dying,       \* dying[b]: cells told to go, still listed
  readOnly,    \* master peers that are read-only
  snapshots,   \* peers whose last snapshot was built read-only
  healthy,     \* does the possibility check find nothing?
  edits,       \* edits of the spec so far
  faults       \* faults so far

resource == <<cr, cache, cacheFresh, ran>>
reconcile == <<mem, memFresh, pc, todo, seen>>
kube == <<sts, pods, podImage, job, jobConfig>>
yt == <<safeMode, alive, dying, readOnly, snapshots, healthy>>
vars == <<resource, reconcile, kube, yt, edits, faults>>

Jobs == {"ExitReadOnly", "OpArchive", "QTState"}
JobState == {"none", "active", "done", "dyingActive", "dyingDone"}
PodState == {"none", "starting", "ready"}

InitialSpec ==
  [image |-> [c \in Components |-> 0], config |-> [c \in Components |-> 0],
   replicas |-> [c \in Components |-> 1],
   selector |-> "Unspecified", enableFullUpdate |-> TRUE]

\* A cluster that has been initialized and is running: the state the
\* controller brings a new cluster to.
InitialResource ==
  [spec |-> InitialSpec,
   cluster |-> "Running", state |-> "None", flow |-> "NoFlow", names |-> {},
   conditions |-> {}, removing |-> {}, removed |-> {},
   bundles |-> [b \in Bundles |-> 0],
   jobs |-> [j \in Jobs |-> IF j = "ExitReadOnly" THEN "Unknown" ELSE "True"]]

InitialObjects ==
  [sts |-> [c \in Components |-> [image |-> 0, config |-> 0, replicas |-> 1]],
   job |-> [j \in Jobs |-> "none"],
   jobConfig |-> [j \in Jobs |-> j # "ExitReadOnly"]]

\* What the Fetch calls at the start of a reconcile return.
Fetched == [sts |-> sts, job |-> job, jobConfig |-> jobConfig]

\* Calls reach the cluster through the HTTP proxies; the masters take writes
\* only while none of them is read-only.
Reachable == pods[Master] = "ready" /\ pods[HttpProxy] = "ready"
Writable == Reachable /\ readOnly = {}

-------------------------------------------------------------------------------
(* Components.  v is the copy of the resource, k the objects as fetched;   *)
(* the list of pods is made afresh by every call.                          *)

arePodsReady(c) == pods[c] \in {"none", "ready"}

needUpdate(v, k, c) == \/ k.sts[c].image # v.spec.image[c]
                       \/ k.sts[c].config # v.spec.config[c]

LocalServerNeedSync(v, k, c) ==
  \/ v.cluster = "Updating" /\ k.sts[c].config # v.spec.config[c]
  \/ k.sts[c].replicas # v.spec.replicas[c]

jobExists(k, j) == k.job[j] # "none"

\* Mutant: a restart counts as prepared though the condition was not reset.
isJobRemoved(v, k, j) == ~jobExists(k, j) /\ ~k.jobConfig[j]

isRestartPrepared(v, k, j) ==
  ~jobExists(k, j) /\ ~k.jobConfig[j] /\ v.jobs[j] = "False"

\* Mutant: a job that is still running counts as completed.
syncStartedJob(v, k, j) ==
  CASE v.jobs[j] = "True" -> "Ready"
    [] v.jobs[j] # "True" /\ ~jobExists(k, j) -> "CreateJob"
    [] OTHER -> "CompleteJob"

syncInitJob(v, k, j) ==
  CASE v.jobs[j] = "True" -> "Ready"
    [] v.jobs[j] # "True" /\ ~jobExists(k, j) -> "CreateJob"
    [] v.jobs[j] # "True" /\ k.job[j] \in {"active", "dyingActive"} ->
         "Blocked"
    [] OTHER -> "CompleteJob"

exitReadOnly(v, k) ==
  CASE "MasterExitReadOnlyPrepared" \notin v.conditions -> "PrepareExit"
    [] "MasterExitReadOnlyPrepared" \in v.conditions
       /\ v.jobs["ExitReadOnly"] # "True" -> syncInitJob(v, k, "ExitReadOnly")
    [] OTHER -> "ExitedReadOnly"

\* updateOpArchive and updateQTState; "Proceed" when they leave the matter to
\* the rest of doSync.
restartJob(v, k, j, prepare, update) ==
  CASE v.state = prepare /\ ~isRestartPrepared(v, k, j) -> "PrepareRestart"
    [] v.state = prepare /\ isRestartPrepared(v, k, j) -> "RestartPrepared"
    [] v.state = update /\ v.jobs[j] = "True" -> "RestartCompleted"
    [] OTHER -> "Proceed"

updateOpArchive(v, k) ==
  IF TabletNodes = {} /\ v.state = "WaitingForOpArchiveUpdatingPrepare"
  THEN "NotNecessary"
  ELSE restartJob(v, k, "OpArchive", "WaitingForOpArchiveUpdatingPrepare",
                  "WaitingForOpArchiveUpdate")

updateQTState(v, k) ==
  restartJob(v, k, "QTState", "WaitingForQTStateUpdatingPrepare",
             "WaitingForQTStateUpdate")

\* What doSync of c arrives at because the cluster is updating; "Proceed" when
\* it goes on as in a cluster that is not.
handleUpdatingClusterState(v, k, c) ==
  LET own == CASE c = Scheduler -> updateOpArchive(v, k)
               [] c = QueryTracker -> updateQTState(v, k)
               [] OTHER -> "Proceed"
      ownState == CASE c = Scheduler -> {"WaitingForOpArchiveUpdate"}
                    [] c = QueryTracker -> {"WaitingForQTStateUpdate"}
                    [] OTHER -> {}
  IN CASE c = Master /\ v.state = "WaitingForMasterExitReadOnly" ->
            exitReadOnly(v, k)
       [] OTHER ->
            IF ~IsUpdatingComponent(v.names, c) THEN "Ready"
            ELSE IF v.state = "WaitingForPodsRemoval" THEN "RemovePods"
            ELSE IF own # "Proceed" THEN own
            ELSE IF v.state \notin {"WaitingForPodsCreation"} \cup ownState
            THEN "Ready"
            ELSE "Proceed"

SyncStatus(step) ==
  CASE step \in {"RemovePods", "PrepareExit", "ExitedReadOnly",
                 "PrepareRestart", "RestartPrepared", "RestartCompleted",
                 "NotNecessary"} -> "Updating"
    [] step \in {"SyncServer", "CreateJob", "CompleteJob"} -> "Pending"
    [] OTHER -> step

IsRunningStatus(status) == status \in {"Ready", "NeedLocalUpdate"}

\* The init job that doSync of c runs besides the ones of an update, if any,
\* and the init job its steps deal with.
JobOf(c) == CASE c = Scheduler /\ TabletNodes # {} -> {"OpArchive"}
              [] c = QueryTracker -> {"QTState"}
              [] OTHER -> {}

JobFor(c) == CASE c = Scheduler -> "OpArchive"
               [] c = QueryTracker -> "QTState"
               [] OTHER -> "ExitReadOnly"

\* The step doSync of c arrives at, with its dry run (Status) and its real one
\* (Sync) taking the same branches.  blocked: a component it waits for before
\* it builds its pods does not run; noTablets: the tablet nodes do not.
syncStep(v, k, c, blocked, noTablets) ==
  LET updating == IF v.cluster = "Updating"
                  THEN handleUpdatingClusterState(v, k, c) ELSE "Proceed"
  IN IF v.cluster = "Running" /\ needUpdate(v, k, c) THEN "NeedLocalUpdate"
     ELSE IF updating # "Proceed" THEN updating
     ELSE IF blocked THEN "Blocked"
     ELSE IF LocalServerNeedSync(v, k, c) THEN "SyncServer"
     ELSE IF ~arePodsReady(c) THEN "Blocked"
     ELSE IF JobOf(c) = {} THEN "Ready"
     ELSE IF noTablets THEN "Blocked"
     ELSE syncInitJob(v, k, JobFor(c))

\* The components that have to run before c builds its pods.
WaitsFor(c) == CASE c \in {Master, QueryTracker} \cup TabletNodes -> {}
                 [] c = Scheduler -> {Master} \cup ExecNodes
                 [] OTHER -> {Master}

\* The steps of all components.  Nothing the others wait for has an init job,
\* and an exec node that waits for the masters waits with the scheduler.
doSync(v, k) ==
  LET running(D) == \A d \in D :
        IsRunningStatus(SyncStatus(syncStep(v, k, d, FALSE, FALSE)))
  IN [c \in Components |->
        syncStep(v, k, c, ~running(WaitsFor(c)), ~running(TabletNodes))]

clientStatus(v, k) ==
  IF ~IsRunningStatus(SyncStatus(doSync(v, k)[HttpProxy])) THEN "Blocked"
  ELSE IF v.cluster = "Updating" /\ v.state # "ImpossibleToStart"
  THEN "Updating" ELSE "Ready"

\* What the component manager concludes from the statuses.
NewComponentManager(v, k) ==
  LET at == doSync(v, k)
      statuses == {SyncStatus(at[c]) : c \in Components} 
                    \cup {clientStatus(v, k)}
  IN [needSync |-> statuses # {"Ready"},
      needInit |-> \E s \in statuses : ~IsRunningStatus(s),
      needUpdate |-> {c \in Components : at[c] = "NeedLocalUpdate"},
      allReadyOrUpdating |-> statuses \subseteq {"Ready", "Updating"},
      arePodsRemoved |-> \A c \in Components :
                           IsUpdatingComponent(v.names, c) => c \in v.removed,
      needSchedulerUpdate |-> /\ Scheduler \in Components
                              /\ IsUpdatingComponent(v.names, Scheduler),
      needQueryTrackerUpdate |-> /\ QueryTracker \in Components
                                 /\ IsUpdatingComponent(v.names, QueryTracker)]

-------------------------------------------------------------------------------
(* The reconcile: what it saves.                                           *)

Idle == /\ pc' = "idle" /\ mem' = InitialResource /\ memFresh' = FALSE
        /\ todo' = 0 /\ seen' = InitialObjects

Saving(v, at) == /\ pc' = at /\ mem' = v /\ memFresh' = cacheFresh
                 /\ todo' = 0 /\ seen' = InitialObjects

\* The dry run of a scheduler without tablet nodes sets its condition, so the
\* handlers see it in the same reconcile.
Observed(v) ==
  IF /\ v.cluster = "Updating"
     /\ Scheduler \in Components
     /\ IsUpdatingComponent(v.names, Scheduler)
     /\ updateOpArchive(v, Fetched) = "NotNecessary"
  THEN [v EXCEPT !.conditions = @ \cup {"NotNecessaryToUpdateOpArchive"}]
  ELSE v

SaveClusterState(v, state) == [v EXCEPT !.cluster = state]

SaveUpdateState(v, state) == [v EXCEPT !.state = state]

SaveUpdatingClusterState(v, flow, names) ==
  [v EXCEPT !.cluster = "Updating", !.flow = flow, !.names = names]

\* Mutant: the conditions of the update survive it.
KeepConditions(v) ==
  [v EXCEPT !.removing = {}, !.removed = {},
            !.bundles = [b \in Bundles |-> 0], !.names = {}, !.flow = "NoFlow"]

ClearUpdateStatus(v) ==
  [v EXCEPT !.conditions = {}, !.removing = {}, !.removed = {},
            !.bundles = [b \in Bundles |-> 0], !.names = {}, !.flow = "NoFlow"]

-------------------------------------------------------------------------------
(* The reconcile: Sync of the Ytsaurus reconciler.                         *)

\* Running and nothing to do, or everything there is to do is blocked.
Happy ==
  /\ pc = "idle" /\ cache.cluster = "Running"
  /\ LET cm == NewComponentManager(cache, Fetched)
     IN \/ ~cm.needSync
        \/ /\ ~cm.needInit
           /\ chooseUpdateFlow(cache.spec.selector,
                               cache.spec.enableFullUpdate,
                               cm.needUpdate).blocked
  /\ UNCHANGED vars

StartReconfiguration ==
  /\ pc = "idle" /\ cache.cluster = "Running"
  /\ NewComponentManager(cache, Fetched).needInit
  /\ Saving(SaveClusterState(cache, "Reconfiguration"), "save")
  /\ UNCHANGED <<resource, kube, yt, edits, faults>>

StartUpdate ==
  /\ pc = "idle" /\ cache.cluster = "Running"
  /\ LET cm == NewComponentManager(cache, Fetched)
         meta == chooseUpdateFlow(cache.spec.selector,
                                  cache.spec.enableFullUpdate, cm.needUpdate)
     IN /\ ~cm.needInit /\ cm.needUpdate # {}
        /\ ~meta.blocked
        /\ Saving(SaveUpdatingClusterState(cache, meta.flow, meta.names),
                  "save")
  /\ UNCHANGED <<resource, kube, yt, edits, faults>>

FinishReconfiguration ==
  /\ pc = "idle" /\ cache.cluster = "Reconfiguration"
  /\ ~NewComponentManager(cache, Fetched).needInit
  /\ Saving(SaveClusterState(cache, "Running"), "save")
  /\ UNCHANGED <<resource, kube, yt, edits, faults>>

HandleUpdate ==
  /\ pc = "idle" /\ cache.cluster = "Updating"
  /\ LET v == Observed(cache)
     IN \E next \in UpdateState \cup {"CancelUpdate", "UpdateFinishing"} :
          /\ handleFlow(v, NewComponentManager(v, Fetched), next)
          /\ Saving(IF next \in UpdateState THEN SaveUpdateState(v, next)
                    ELSE SaveClusterState(v, next), "save")
  /\ UNCHANGED <<resource, kube, yt, edits, faults>>

\* CancelUpdate and UpdateFinishing save three times: the update state, the
\* cleared update status, the cluster state.
LeaveUpdate ==
  /\ pc = "idle" /\ cache.cluster \in {"CancelUpdate", "UpdateFinishing"}
  /\ Saving(SaveUpdateState(cache, "None"), "saveNone")
  /\ UNCHANGED <<resource, kube, yt, edits, faults>>

StartWalk ==
  /\ pc = "idle"
  /\ LET v == Observed(cache)
         cm == NewComponentManager(v, Fetched)
     IN /\ \/ v.cluster = "Reconfiguration" /\ cm.needInit
           \/ /\ v.cluster = "Updating"
              /\ \A next \in UpdateState \cup {"CancelUpdate",
                                               "UpdateFinishing"} :
                   ~handleFlow(v, cm, next)
        /\ mem' = v
  /\ pc' = "walk" /\ memFresh' = cacheFresh /\ todo' = 1 /\ seen' = Fetched
  /\ UNCHANGED <<resource, kube, yt, edits, faults>>

\* Mutant: the last write wins.
AlwaysAccepted == TRUE

\* UpdateStatus: the API server takes the status of the copy only if nobody
\* wrote the resource since it was read.
Accepted == memFresh

Persist ==
  /\ \/ pc \in {"save", "saveNone", "saveClear"}
     \/ pc = "walk" /\ todo > Len(Order)
  /\ IF Accepted
     THEN /\ cr' = [mem EXCEPT !.spec = cr.spec] /\ cacheFresh' = FALSE
          /\ ran' = IF cr.cluster # "Updating" /\ mem.cluster = "Updating"
                    THEN {} ELSE ran
          /\ CASE pc = "saveNone" -> /\ pc' = "saveClear"
                                     /\ mem' = ClearUpdateStatus(mem)
                                     /\ UNCHANGED <<memFresh, todo, seen>>
               [] pc = "saveClear" -> /\ pc' = "save"
                                      /\ mem' = SaveClusterState(mem, "Running")
                                      /\ UNCHANGED <<memFresh, todo, seen>>
               [] OTHER -> Idle
     ELSE Idle /\ UNCHANGED <<cr, cacheFresh, ran>>
  /\ UNCHANGED <<cache, kube, yt, edits, faults>>

\* The operator crashes, or a call of the reconcile fails and it returns the
\* error: what it gathered in memory is gone.
Abort ==
  /\ pc # "idle" /\ faults < MaxFaults
  /\ faults' = faults + 1
  /\ Idle
  /\ UNCHANGED <<resource, kube, yt, edits>>

\* A watch event brings the stored resource into the informer cache.
Deliver ==
  /\ ~cacheFresh
  /\ cache' = cr /\ cacheFresh' = TRUE
  /\ UNCHANGED <<cr, ran, reconcile, kube, yt, edits, faults>>

-------------------------------------------------------------------------------
(* The walk over the components: ComponentManager.Sync calls Sync of the   *)
(* ones whose status is Pending or Updating, in order.                     *)

At(c) == pc = "walk" /\ todo \in DOMAIN Order /\ Order[todo] = c

Visited(v) == /\ mem' = v /\ todo' = todo + 1
              /\ UNCHANGED <<pc, memFresh, seen, resource, edits, faults>>

SetCondition(v, condition) ==
  [v EXCEPT !.conditions = @ \cup {condition}]

Skip(c) ==
  /\ At(c)
  /\ SyncStatus(doSync(mem, seen)[c]) \notin {"Pending", "Updating"}
  /\ Visited(mem) /\ UNCHANGED <<kube, yt>>

\* removePods: the StatefulSet is rebuilt from the spec with no replicas;
\* the pods are gone when a later list is empty.
RemovePods(c) ==
  /\ At(c) /\ doSync(mem, seen)[c] = "RemovePods"
  /\ IF c \notin mem.removing
     THEN /\ sts' = [sts EXCEPT ![c] = [image |-> mem.spec.image[c],
                                       config |-> mem.spec.config[c],
                                       replicas |-> 0]]
          /\ Visited([mem EXCEPT !.removing = @ \cup {c}])
     ELSE /\ Visited(IF pods[c] = "none"
                     THEN [mem EXCEPT !.removed = @ \cup {c}] ELSE mem)
          /\ UNCHANGED sts
  /\ UNCHANGED <<pods, podImage, job, jobConfig, yt>>

SyncServer(c) ==
  /\ At(c) /\ doSync(mem, seen)[c] = "SyncServer"
  /\ sts' = [sts EXCEPT ![c] = [image |-> mem.spec.image[c],
                               config |-> mem.spec.config[c],
                               replicas |-> mem.spec.replicas[c]]]
  /\ Visited(mem)
  /\ UNCHANGED <<pods, podImage, job, jobConfig, yt>>

\* InitJob.Sync: create the config map and the job, or note its completion.
\* The query tracker writes its state to the cluster before either.
CreateJob(c) ==
  /\ At(c) /\ doSync(mem, seen)[c] = "CreateJob"
  /\ c = QueryTracker => Writable
  /\ job' = [job EXCEPT ![JobFor(c)] = "active"]
  /\ jobConfig' = [jobConfig EXCEPT ![JobFor(c)] = TRUE]
  /\ Visited(mem)
  /\ UNCHANGED <<sts, pods, podImage, yt>>

CompleteJob(c) ==
  /\ At(c) /\ doSync(mem, seen)[c] = "CompleteJob"
  /\ c = QueryTracker => Writable
  /\ Visited([mem EXCEPT !.jobs[JobFor(c)] = "True"])
  /\ UNCHANGED <<kube, yt>>

\* The query tracker does nothing while the client has not been set up, which
\* takes running HTTP proxies.
NoClient ==
  /\ At(QueryTracker) /\ pods[HttpProxy] # "ready"
  /\ doSync(mem, seen)[QueryTracker] \in {"CreateJob", "CompleteJob"}
  /\ Visited(mem) /\ UNCHANGED <<kube, yt>>

\* prepareRestart: delete the config map and the job, if they were there
\* when they were fetched; deleting a job that has gone since is an error.
prepareRestart(j, done) ==
  /\ jobConfig' = [jobConfig EXCEPT ![j] = FALSE]
  /\ job' = [job EXCEPT ![j] = CASE ~JobsLinger \/ @ = "none" -> "none"
                                 [] JobsLinger /\ @ = "active" -> "dyingActive"
                                 [] JobsLinger /\ @ = "done" -> "dyingDone"
                                 [] OTHER -> @]
  /\ IF seen.job[j] # "none" /\ job[j] = "none"
     THEN Idle /\ UNCHANGED <<resource, edits, faults>>
     ELSE Visited(done)

PrepareRestart(c) ==
  /\ At(c) /\ doSync(mem, seen)[c] = "PrepareRestart"
  /\ prepareRestart(JobFor(c), [mem EXCEPT !.jobs[JobFor(c)] = "False"])
  /\ UNCHANGED <<sts, pods, podImage, yt>>

\* The first half of exitReadOnly.
PrepareExit(c) ==
  /\ At(c) /\ doSync(mem, seen)[c] = "PrepareExit"
  /\ LET prepared(v) == SetCondition(v, "MasterExitReadOnlyPrepared")
     IN IF isRestartPrepared(mem, seen, "ExitReadOnly")
        THEN Visited(prepared(mem)) /\ UNCHANGED <<job, jobConfig>>
        ELSE prepareRestart("ExitReadOnly",
               prepared([mem EXCEPT !.jobs["ExitReadOnly"] = "False"]))
  /\ UNCHANGED <<sts, pods, podImage, yt>>

\* The steps of the update that only set a condition.
Report(c) ==
  /\ At(c)
  /\ LET step == doSync(mem, seen)[c]
     IN \/ /\ step = "ExitedReadOnly"
           /\ Visited([mem EXCEPT !.conditions =
                         (@ \cup {"MasterExitedReadOnly"})
                           \ {"MasterExitReadOnlyPrepared"}])
        \/ /\ step = "RestartPrepared"
           /\ Visited(SetCondition(mem, IF c = Scheduler
                        THEN "OpArchivePreparedForUpdating"
                        ELSE "QTStatePreparedForUpdating"))
        \/ /\ step = "RestartCompleted"
           /\ Visited(SetCondition(mem, IF c = Scheduler
                        THEN "OpArchiveUpdated" ELSE "QTStateUpdated"))
  /\ UNCHANGED <<kube, yt>>

-------------------------------------------------------------------------------
(* The YTsaurus client's part of the walk: handleUpdatingState.  A call    *)
(* that fails is CallFails or an Abort; a call that fails half way is the  *)
(* last disjunct of its action.                                            *)

Handling(state, condition) ==
  /\ At(Client) /\ clientStatus(mem, seen) = "Updating"
  /\ mem.state = state /\ condition \notin mem.conditions

Failed == Idle /\ faults < MaxFaults /\ faults' = faults + 1
                /\ UNCHANGED <<resource, edits>>

CellCount(b) == alive[b] + dying[b]

SkipClient ==
  /\ At(Client)
  /\ \/ clientStatus(mem, seen) # "Updating"
     \/ mem.state \in {"None", "WaitingForPodsRemoval",
          "WaitingForPodsCreation", "WaitingForMasterExitReadOnly",
          "WaitingForOpArchiveUpdatingPrepare", "WaitingForOpArchiveUpdate",
          "WaitingForQTStateUpdatingPrepare", "WaitingForQTStateUpdate"}
  /\ Visited(mem) /\ UNCHANGED <<kube, yt>>

HandlePossibilityCheck ==
  /\ Handling("PossibilityCheck", "HasPossibility")
  /\ "NoPossibility" \notin mem.conditions
  /\ Reachable
  /\ Visited(SetCondition(mem, IF healthy THEN "HasPossibility"
                                          ELSE "NoPossibility"))
  /\ UNCHANGED <<kube, yt>>

EnableSafeMode ==
  /\ Handling("WaitingForSafeModeEnabled", "SafeModeEnabled")
  /\ Writable /\ safeMode' = TRUE
  /\ Visited(SetCondition(mem, "SafeModeEnabled"))
  /\ UNCHANGED <<kube, alive, dying, readOnly, snapshots, healthy>>

GetTabletCells ==
  /\ Handling("WaitingForTabletCellsSaving", "TabletCellsSaved")
  /\ Reachable
  /\ Visited([SetCondition(mem, "TabletCellsSaved")
                EXCEPT !.bundles = [b \in Bundles |-> CellCount(b)]])
  /\ UNCHANGED <<kube, yt>>

\* The cells are removed one by one; gone[b] of them are before the loop
\* ends or fails.
RemoveTabletCells ==
  /\ Handling("WaitingForTabletCellsRemovingStart",
              "TabletCellsRemovingStarted")
  /\ Writable
  /\ \E gone \in [Bundles -> 0..MaxCells] :
       /\ \A b \in Bundles : gone[b] <= alive[b]
       /\ alive' = [b \in Bundles |-> alive[b] - gone[b]]
       /\ dying' = [b \in Bundles |-> dying[b] + gone[b]]
       /\ \/ /\ gone = alive
             /\ Visited(SetCondition(mem, "TabletCellsRemovingStarted"))
          \/ gone # alive /\ Failed
  /\ UNCHANGED <<kube, safeMode, readOnly, snapshots, healthy>>

AreTabletCellsRemoved ==
  /\ Handling("WaitingForTabletCellsRemoved", "TabletCellsRemoved")
  /\ Reachable
  /\ Visited(IF \A b \in Bundles : CellCount(b) = 0
             THEN SetCondition(mem, "TabletCellsRemoved") ELSE mem)
  /\ UNCHANGED <<kube, yt>>

\* Saving the monitoring paths and asking for the snapshots, once; a
\* request that fails may have turned some of the peers read-only.
StartBuildMasterSnapshots ==
  /\ Handling("WaitingForSnapshots", "SnaphotsSaved")
  /\ "SnapshotsBuildingStarted" \notin mem.conditions
  /\ Reachable
  /\ \/ /\ readOnly' = Peers
        /\ mem' = [mem EXCEPT !.conditions = @ \cup
                     {"SnapshotsMonitoringInfoSaved",
                      "SnapshotsBuildingStarted"}]
        /\ UNCHANGED <<pc, todo, memFresh, seen, resource, edits, faults>>
     \/ \E some \in SUBSET Peers :
          some # Peers /\ readOnly' = readOnly \cup some /\ Failed
  /\ UNCHANGED <<kube, safeMode, alive, dying, snapshots, healthy>>

\* Mutant: one peer's snapshot is enough.
SnapshotBuiltSomewhere == snapshots # {}

\* Every monitoring path shows a last snapshot that is read-only.
SnapshotsBuilt == Peers \subseteq snapshots

AreMasterSnapshotsBuilt ==
  /\ Handling("WaitingForSnapshots", "SnaphotsSaved")
  /\ "SnapshotsBuildingStarted" \in mem.conditions
  /\ Reachable
  /\ Visited(IF SnapshotsBuilt
             THEN SetCondition(mem, "SnaphotsSaved") ELSE mem)
  /\ UNCHANGED <<kube, yt>>

\* Mutant: the cells that a failed attempt created are not counted.
AllSaved(saved) == saved

\* The cells CreateTabletCells still has to create: the count is read once.
Missing(saved) == [b \in Bundles |-> IF CellCount(b) < saved[b]
                                    THEN saved[b] - CellCount(b) ELSE 0]

\* CreateTabletCells of every saved bundle; the missing cells are created one
\* by one.
RecoverTableCells ==
  /\ Handling("WaitingForTabletCellsRecovery", "TabletCellsRecovered")
  /\ Writable
  /\ LET missing == Missing(mem.bundles)
     IN \E new \in [Bundles -> 0..MaxCells] :
          /\ \A b \in Bundles : new[b] <= missing[b]
          /\ alive' = [b \in Bundles |-> alive[b] + new[b]]
          /\ \/ /\ new = missing
                /\ Visited(SetCondition(mem, "TabletCellsRecovered"))
             \/ new # missing /\ Failed
  /\ UNCHANGED <<kube, safeMode, dying, readOnly, snapshots, healthy>>

DisableSafeMode ==
  /\ Handling("WaitingForSafeModeDisabled", "SafeModeDisabled")
  /\ Writable /\ safeMode' = FALSE
  /\ Visited(SetCondition(mem, "SafeModeDisabled"))
  /\ UNCHANGED <<kube, alive, dying, readOnly, snapshots, healthy>>

\* A call that cannot succeed: the cluster is down or refuses writes.
CallFails ==
  /\ \/ /\ At(Client) /\ clientStatus(mem, seen) = "Updating"
        /\ \/ /\ mem.state \in {"PossibilityCheck",
                                "WaitingForTabletCellsSaving",
                                "WaitingForTabletCellsRemoved",
                                "WaitingForSnapshots"}
              /\ ~Reachable
           \/ /\ mem.state \in {"WaitingForSafeModeEnabled",
                                "WaitingForTabletCellsRemovingStart",
                                "WaitingForTabletCellsRecovery",
                                "WaitingForSafeModeDisabled"}
              /\ ~Writable
     \/ /\ At(QueryTracker)
        /\ doSync(mem, seen)[QueryTracker] \in {"CreateJob", "CompleteJob"}
        /\ ~Writable
  /\ Idle
  /\ UNCHANGED <<resource, kube, yt, edits, faults>>

-------------------------------------------------------------------------------
(* The user edits the spec: a new version of the resource.                 *)

Edited(spec) ==
  /\ edits < MaxEdits /\ edits' = edits + 1
  /\ spec # cr.spec
  /\ cr' = [cr EXCEPT !.spec = spec]
  /\ cacheFresh' = FALSE /\ memFresh' = FALSE
  /\ UNCHANGED <<cache, ran, mem, pc, todo, seen, kube, yt, faults>>

EditImage ==
  \E S \in ImageEdits, i \in 0..MaxVersion :
    Edited([cr.spec EXCEPT !.image =
              [c \in Components |-> IF c \in S THEN i ELSE @[c]]])

EditConfig ==
  \E S \in ConfigEdits, i \in 0..MaxVersion :
    Edited([cr.spec EXCEPT !.config =
              [c \in Components |-> IF c \in S THEN i ELSE @[c]]])

EditReplicas ==
  \E c \in Components, n \in 1..MaxReplicas :
    Edited([cr.spec EXCEPT !.replicas[c] = n])

EditPolicy ==
  \E s \in Selectors, f \in FullUpdates :
    Edited([cr.spec EXCEPT !.selector = s, !.enableFullUpdate = f])

-------------------------------------------------------------------------------
(* Kubernetes: the StatefulSet controller, kubelet, the job controller and *)
(* the garbage collector.                                                  *)

PodsTo(c, to) == pods' = [pods EXCEPT ![c] = to]

PodsStop(c) ==
  /\ sts[c].replicas = 0 /\ pods[c] # "none"
  /\ PodsTo(c, "none") /\ podImage' = [podImage EXCEPT ![c] = 0]
  /\ UNCHANGED <<resource, reconcile, sts, job, jobConfig, yt, edits, faults>>

\* New pods, or a rolling update of pods that run another image.
PodsStart(c) ==
  /\ sts[c].replicas > 0
  /\ pods[c] = "none" \/ podImage[c] # sts[c].image
  /\ PodsTo(c, "starting")
  /\ podImage' = [podImage EXCEPT ![c] = sts[c].image]
  /\ UNCHANGED <<resource, reconcile, sts, job, jobConfig, yt, edits, faults>>

PodsBecomeReady(c) ==
  /\ pods[c] = "starting" /\ PodsTo(c, "ready")
  /\ UNCHANGED <<resource, reconcile, sts, podImage, job, jobConfig, yt, edits,
                 faults>>

PodsFail(c) ==
  /\ faults < MaxFaults /\ faults' = faults + 1
  /\ pods[c] = "ready" /\ PodsTo(c, "starting")
  /\ UNCHANGED <<resource, reconcile, sts, podImage, job, jobConfig, yt, edits>>

\* The job's script runs to the end.  The one of ExitReadOnly makes the
\* masters leave the read-only mode.
JobRuns(j) ==
  /\ job[j] = "active" /\ Reachable
  /\ job' = [job EXCEPT ![j] = "done"] /\ ran' = ran \cup {j}
  /\ IF j = "ExitReadOnly"
     THEN readOnly' = {} /\ snapshots' = {}
     ELSE UNCHANGED <<readOnly, snapshots>>
  /\ UNCHANGED <<cr, cache, cacheFresh, reconcile, sts, pods, podImage,
                 jobConfig, safeMode, alive, dying, healthy, edits, faults>>

\* A deleted job is collected.
JobCollected(j) ==
  /\ job[j] \in {"dyingActive", "dyingDone"}
  /\ job' = [job EXCEPT ![j] = "none"]
  /\ UNCHANGED <<resource, reconcile, sts, pods, podImage, jobConfig, yt, edits,
                 faults>>

\* A finished job is deleted ttlSecondsAfterFinished later: a fault when the
\* operator does not know by then that it finished.
JobExpires(j) ==
  /\ job[j] = "done"
  /\ IF cr.jobs[j] = "True" /\ cache.jobs[j] = "True" THEN UNCHANGED faults
     ELSE faults < MaxFaults /\ faults' = faults + 1
  /\ job' = [job EXCEPT ![j] = "none"]
  /\ UNCHANGED <<resource, reconcile, sts, pods, podImage, jobConfig, yt, edits>>

-------------------------------------------------------------------------------
(* The YTsaurus cluster.                                                   *)

CellGone(b) ==
  /\ dying[b] > 0 /\ pods[Master] = "ready"
  /\ dying' = [dying EXCEPT ![b] = @ - 1]
  /\ UNCHANGED <<resource, reconcile, kube, safeMode, alive, readOnly,
                 snapshots, healthy, edits, faults>>

SnapshotBuilt(p) ==
  /\ p \in readOnly \ snapshots /\ pods[Master] = "ready"
  /\ snapshots' = snapshots \cup {p}
  /\ UNCHANGED <<resource, reconcile, kube, safeMode, alive, dying, readOnly,
                 healthy, edits, faults>>

BecomeUnhealthy ==
  /\ faults < MaxFaults /\ faults' = faults + 1
  /\ healthy /\ healthy' = FALSE
  /\ UNCHANGED <<resource, reconcile, kube, safeMode, alive, dying, readOnly,
                 snapshots, edits>>

BecomeHealthy ==
  /\ ~healthy /\ healthy' = TRUE
  /\ UNCHANGED <<resource, reconcile, kube, safeMode, alive, dying, readOnly,
                 snapshots, edits, faults>>
-------------------------------------------------------------------------------
(* The specification.                                                      *)

Init ==
  /\ \E s \in Selectors, f \in FullUpdates :
       cr = [InitialResource EXCEPT
               !.spec = [InitialSpec EXCEPT !.selector = s,
                                            !.enableFullUpdate = f]]
  /\ cache = cr /\ cacheFresh = TRUE /\ ran = {}
  /\ mem = InitialResource /\ memFresh = FALSE /\ pc = "idle" /\ todo = 0
  /\ seen = InitialObjects
  /\ sts = InitialObjects.sts
  /\ pods = [c \in Components |-> "ready"]
  /\ podImage = [c \in Components |-> 0]
  /\ job = InitialObjects.job /\ jobConfig = InitialObjects.jobConfig
  /\ safeMode = FALSE
  /\ alive = Cells /\ dying = [b \in Bundles |-> 0]
  /\ readOnly = {} /\ snapshots = {} /\ healthy = TRUE
  /\ edits = 0 /\ faults = 0

Decide == \/ Happy \/ StartReconfiguration \/ StartUpdate
          \/ FinishReconfiguration \/ HandleUpdate \/ LeaveUpdate \/ StartWalk

Visit(c) == \/ Skip(c) \/ RemovePods(c) \/ SyncServer(c)
            \/ CreateJob(c) \/ CompleteJob(c)
            \/ PrepareRestart(c) \/ PrepareExit(c) \/ Report(c)

VisitClient ==
  \/ SkipClient \/ HandlePossibilityCheck
  \/ EnableSafeMode \/ GetTabletCells \/ RemoveTabletCells
  \/ AreTabletCellsRemoved \/ StartBuildMasterSnapshots
  \/ AreMasterSnapshotsBuilt \/ RecoverTableCells \/ DisableSafeMode

Operator == \/ Decide \/ VisitClient \/ NoClient \/ CallFails \/ Persist
            \/ \E c \in Components : Visit(c)

User == EditImage \/ EditConfig \/ EditReplicas \/ EditPolicy

Kubernetes ==
  \/ \E c \in Components : PodsStop(c) \/ PodsStart(c) \/ PodsBecomeReady(c)
  \/ \E j \in Jobs : JobRuns(j) \/ JobCollected(j) \/ JobExpires(j)

Cluster == \/ \E b \in Bundles : CellGone(b)
           \/ \E p \in Peers : SnapshotBuilt(p)
           \/ BecomeHealthy

Fault == Abort \/ BecomeUnhealthy \/ \E c \in Components : PodsFail(c)

Next == Operator \/ Deliver \/ User \/ Kubernetes \/ Cluster \/ Fault

Spec == Init /\ [][Next]_vars

\* The operator requeues until it is happy, the informer catches up, and
\* Kubernetes and the cluster finish what they were told to do.
FairSpec ==
  /\ Spec
  /\ WF_vars(Operator) /\ WF_vars(Deliver)
  /\ \A c \in Components : /\ WF_vars(PodsStop(c)) /\ WF_vars(PodsStart(c))
                           /\ WF_vars(PodsBecomeReady(c))
  /\ \A j \in Jobs : WF_vars(JobRuns(j)) /\ WF_vars(JobCollected(j))
  /\ \A b \in Bundles : WF_vars(CellGone(b))
  /\ \A p \in Peers : WF_vars(SnapshotBuilt(p))
  /\ WF_vars(BecomeHealthy)

-------------------------------------------------------------------------------
(* Properties.                                                             *)

Versions == [Components -> 0..MaxVersion]

Specs == [image : Versions, config : Versions,
          replicas : [Components -> 1..MaxReplicas],
          selector : UpdateSelector, enableFullUpdate : BOOLEAN]

Resource ==
  [spec : Specs,
   cluster : ClusterState, state : UpdateState, flow : Flow,
   names : SUBSET Components, conditions : SUBSET UpdateCondition,
   removing : SUBSET Components, removed : SUBSET Components,
   bundles : [Bundles -> 0..MaxCells],
   jobs : [Jobs -> {"Unknown", "False", "True"}]]

Servers == [Components -> [image : 0..MaxVersion, config : 0..MaxVersion,
                           replicas : 0..MaxReplicas]]

Objects == [sts : Servers, job : [Jobs -> JobState],
            jobConfig : [Jobs -> BOOLEAN]]

\* Every variable keeps its type; in particular no count of tablet cells
\* goes below zero or above the bound.
TypeOK ==
  /\ cr \in Resource /\ cache \in Resource /\ mem \in Resource
  /\ cacheFresh \in BOOLEAN /\ memFresh \in BOOLEAN
  /\ pc \in {"idle", "save", "saveNone", "saveClear", "walk"}
  /\ todo \in Nat /\ ran \subseteq Jobs
  /\ seen \in Objects
  /\ sts \in Servers
  /\ pods \in [Components -> PodState] /\ podImage \in Versions
  /\ job \in [Jobs -> JobState] /\ jobConfig \in [Jobs -> BOOLEAN]
  /\ safeMode \in BOOLEAN /\ healthy \in BOOLEAN
  /\ alive \in [Bundles -> 0..MaxCells] /\ dying \in [Bundles -> 0..MaxCells]
  /\ readOnly \subseteq Peers /\ snapshots \subseteq Peers
  /\ edits \in 0..MaxEdits /\ faults \in 0..MaxFaults

\* No tablet cell is ever forgotten: whenever a bundle lacks cells it had,
\* the stored status says how many it had (TabletCellBundles, saved before
\* RemoveTabletCells starts and kept until RecoverTableCells is done), and
\* the cells recreated never exceed that number.
CellsAccountedFor ==
  \A b \in Bundles :
    /\ CellCount(b) <= Cells[b]
    /\ alive[b] < Cells[b] => /\ "TabletCellsSaved" \in cr.conditions
                             /\ cr.bundles[b] = Cells[b]

\* A cluster that the status calls Running (or Reconfiguration) has been
\* put back as it was: no safe mode, writable masters, every tablet cell,
\* and nothing left of the update in its status.
RunningMeansRestored ==
  cr.cluster \in {"Running", "Reconfiguration"} =>
    /\ ~safeMode /\ readOnly = {}
    /\ alive = Cells /\ \A b \in Bundles : dying[b] = 0
    /\ cr = [InitialResource EXCEPT !.spec = cr.spec, !.jobs = cr.jobs,
                                    !.cluster = cr.cluster]

\* removePods takes down the masters only in safe mode and with a read-only
\* snapshot of every peer, and takes down tablet nodes of the Full and
\* TabletNodes flows only when no tablet cell is left on them.  The snapshots
\* are promised only while no exit-read-only job has run in this update: a
\* stale copy can create the job of the previous update again, and when that
\* one runs late it ends the read-only mode the next update has just reached.
PodsRemovedOnlyWhenSafe ==
  [][/\ \A c \in Masters : sts[c].replicas > 0 /\ sts'[c].replicas = 0 =>
          safeMode /\ (Peers \subseteq snapshots \/ "ExitReadOnly" \in ran)
     /\ \A c \in TabletNodes : sts[c].replicas > 0 /\ sts'[c].replicas = 0 =>
                                 \A b \in Bundles : CellCount(b) = 0]_vars

\* While an update is under way only the StatefulSets of the components the
\* update selected change: IsUpdatingComponent guards every handler.
OnlySelectedChange ==
  [][cr.cluster = "Updating" =>
       \A c \in Components :
         cr.names # {} /\ c \notin cr.names => sts'[c] = sts[c]]_vars

\* Nothing an update has achieved is lost: until it finishes, its stored
\* conditions, flow and component list stay, however stale the copies are
\* that the operator works on.
ProgressIsKept ==
  [][cr.cluster = "Updating" =>
       /\ cr.conditions \ {"MasterExitReadOnlyPrepared"} \subseteq cr'.conditions
       /\ cr.removing \subseteq cr'.removing
       /\ cr.removed \subseteq cr'.removed
       /\ cr'.flow = cr.flow /\ cr'.names = cr.names]_vars

\* A full or stateless update does not finish before the init jobs that
\* migrate the operations archive and the query tracker's state have run
\* after it started.  A job that ran for an earlier update does not count.
FinishedMeansMigrated ==
  cr.cluster = "UpdateFinishing" /\ cr.flow \in {"Full", "Stateless"} =>
    \A c \in Components \cap {Scheduler, QueryTracker} :
      IsUpdatingComponent(cr.names, c) => JobOf(c) \subseteq ran

UpToDate ==
  /\ cr.cluster = "Running"
  /\ \A c \in Components :
       /\ pods[c] = "ready" /\ podImage[c] = cr.spec.image[c]
       /\ sts[c] = [image |-> cr.spec.image[c], config |-> cr.spec.config[c],
                    replicas |-> cr.spec.replicas[c]]

\* The condition MasterExitedReadOnly says "Masters exited read-only state".
MasterExitedMeansWritable ==
  "MasterExitedReadOnly" \in cr.conditions => readOnly = {}

\* "UpdateSelectorNothing means that no component could be updated."
NothingIsUpdated ==
  [][cr.spec.selector = "Nothing" /\ cr.cluster # "Updating" =>
       \A c \in Components : sts'[c].image = sts[c].image]_vars

\* The read-only mode ended while the snapshots were awaited: they are never
\* reported, and nothing asks for them again.
SnapshotsLost ==
  /\ cr.cluster = "Updating" /\ cr.state = "WaitingForSnapshots"
  /\ "ExitReadOnly" \in ran

\* Once the user stops editing and faults stop, the cluster ends up running
\* what the spec asks for, whatever the update went through, but for one case:
\* an exit-read-only job created again from a stale copy of the previous update
\* may run while this one waits for its snapshots, and it waits forever.
Converges == <>[]UpToDate \/ <>[]SnapshotsLost
===============================================================================
