-------------------------------- MODULE Release --------------------------------
(***************************************************************************)
(* The Chyt and Spyt reconcilers: while the cluster runs, a release makes  *)
(* its secret, then runs its init jobs one after the other, then is        *)
(* Finished and left alone.                                                *)
(***************************************************************************)
EXTENDS InitJob, Sequences

CONSTANTS
  MaxEdits,    \* bound on edits of the spec
  MaxStops,    \* bound on updates of the cluster
  MaxFaults    \* bound on reconciles that fail or crash

ASSUME ReleaseAssumption ==
  /\ {"user", "release", "ch-public", "spyt-environment"} \subseteq Jobs
  /\ MaxEdits \in Nat /\ MaxStops \in Nat /\ MaxFaults \in Nat

VARIABLES
  kind,        \* "chyt" or "spyt"
  strawberry,  \* the cluster has a strawberry controller
  spec,        \* makeDefault of the stored spec
  cr,          \* the stored status
  cache,       \* the informer's copy of spec and status
  fresh,       \* the cache holds the stored version
  secret,      \* the token of the release's user exists
  script,      \* --make-default in the config map of the release job
  made,        \* history: the release script has run with --make-default
  edited,      \* history: makeDefault was edited after that script was written
  cluster,     \* the state of the cluster
  clusterSeen, \* the informer's copy of it
  edits, stops, faults

own == <<kind, strawberry, spec, cr, cache, fresh, secret>>
scripts == <<script, made, edited>>
environment == <<cluster, clusterSeen, edits, stops, faults>>
vars == <<jobVars, own, scripts, environment>>

Status(release, conditions) == [release |-> release, conditions |-> conditions]

Init ==
  /\ JobInit
  /\ kind \in {"chyt", "spyt"} /\ strawberry \in BOOLEAN
  /\ spec \in (IF kind = "chyt" THEN BOOLEAN ELSE {FALSE})
  /\ cr = Status("None", {})
  /\ cache = [makeDefault |-> spec, status |-> cr] /\ fresh = TRUE
  /\ secret = FALSE
  /\ script = FALSE /\ made = FALSE /\ edited = FALSE
  /\ cluster \in {"Running", "Other"} /\ clusterSeen = cluster
  /\ edits = 0 /\ stops = 0 /\ faults = 0

\* The jobs of a release in the order of doSync.  A default CHYT release also
\* starts a public clique, if there is a controller to start it.
ChytJobs(makeDefault) ==
  IF strawberry /\ makeDefault THEN <<"user", "release", "ch-public">>
                               ELSE <<"user", "release">>

SpytJobs == <<"user", "spyt-environment">>

JobsOf(makeDefault) == IF kind = "chyt" THEN ChytJobs(makeDefault) ELSE SpytJobs

\* The release status while a job is the next one.
Stage(j) == CASE j = "user" -> "CreatingUser"
              [] j = "ch-public" -> "CreatingChPublicClique"
              [] OTHER -> "UploadingIntoCypress"

\* The places of the jobs whose condition is not set, and the first of them.
Pending(v) ==
  {i \in 1..Len(JobsOf(v.makeDefault)) :
     JobsOf(v.makeDefault)[i] \notin v.status.conditions}

IsNext(v, j) ==
  \E i \in Pending(v) : /\ j = JobsOf(v.makeDefault)[i]
                        /\ \A n \in Pending(v) : i <= n

\* Status().Update: refused unless the copy has the stored version; an update
\* that changes nothing makes no new version.
UpdateStatus(status) ==
  IF fresh /\ status # cr THEN cr' = status /\ fresh' = FALSE
                          ELSE UNCHANGED <<cr, fresh>>

\* Mutant: the script does not say --make-default.
PlainScript(j) ==
  IF j = "release" THEN script' = FALSE /\ UNCHANGED <<made, edited>>
                   ELSE UNCHANGED scripts

\* SetInitScript and the Sync of the config helper: a config map that exists is
\* written again only if the client's config in it has changed, a new script
\* does not count.  A script written from an old copy is edited already.
WriteScript(j) ==
  IF j = "release"
  THEN /\ IF j \in config
          THEN script' \in {script, cache.makeDefault} /\ UNCHANGED edited
          ELSE script' = cache.makeDefault /\ edited' = (script' # spec)
       /\ UNCHANGED made
  ELSE UNCHANGED scripts

\* The script has its effect.
RunScript(j) ==
  made' = (made \/ (j = "release" /\ script)) /\ UNCHANGED <<script, edited>>

Working == clusterSeen = "Running" /\ cache.status.release # "Finished"

CreateSecret ==
  /\ Working /\ ~secret
  /\ secret' = TRUE
  /\ UpdateStatus(Status("CreatingUserSecret", cache.status.conditions))
  /\ UNCHANGED <<jobVars, kind, strawberry, spec, cache, scripts, environment>>

\* InitJob.Sync of the first job whose condition is not set.
SyncJob ==
  /\ Working /\ secret
  /\ \E j \in Jobs :
       LET done == cache.status.conditions
       IN /\ IsNext(cache, j)
          /\ \/ /\ InitJobStatus(done, j) = "Create"
                /\ CreateJob(j) /\ WriteScript(j)
                /\ UpdateStatus(Status(Stage(j), done))
             \/ /\ InitJobStatus(done, j) = "Complete"
                /\ UpdateStatus(Status(Stage(j), done \cup {j}))
                /\ UNCHANGED <<jobVars, scripts>>
  /\ UNCHANGED <<kind, strawberry, spec, cache, secret, environment>>

\* SaveReleaseStatus once every job has completed.
Finish ==
  /\ Working /\ secret /\ Pending(cache) = {}
  /\ UpdateStatus(Status("Finished", cache.status.conditions))
  /\ UNCHANGED <<jobVars, kind, strawberry, spec, cache, secret, scripts,
                 environment>>

Reconcile == CreateSecret \/ SyncJob \/ Finish

\* A reconcile that fails or crashes before it saves the status.
Fail ==
  /\ Working /\ faults < MaxFaults /\ faults' = faults + 1
  /\ \/ ~secret /\ secret' = TRUE /\ UNCHANGED <<jobVars, scripts>>
     \/ /\ secret /\ UNCHANGED secret
        /\ \E j \in Jobs :
             /\ IsNext(cache, j)
             /\ InitJobStatus(cache.status.conditions, j) = "Create"
             /\ CreateConfig(j) \/ CreateJob(j)
             /\ WriteScript(j)
  /\ UNCHANGED <<kind, strawberry, spec, cr, cache, fresh, cluster, clusterSeen,
                 edits, stops>>

Deliver ==
  /\ ~fresh /\ fresh' = TRUE
  /\ cache' = [makeDefault |-> spec, status |-> cr]
  /\ UNCHANGED <<jobVars, kind, strawberry, spec, cr, secret, scripts, environment>>

DeliverCluster ==
  /\ clusterSeen # cluster /\ clusterSeen' = cluster
  /\ UNCHANGED <<jobVars, own, scripts, cluster, edits, stops, faults>>

EditMakeDefault ==
  /\ kind = "chyt" /\ edits < MaxEdits /\ edits' = edits + 1
  /\ spec' = ~spec /\ fresh' = FALSE
  /\ edited' = (edited \/ "release" \in config)
  /\ UNCHANGED <<jobVars, kind, strawberry, cr, cache, secret, script, made,
                 cluster, clusterSeen, stops, faults>>

\* The cluster leaves Running and comes back.
ClusterStops ==
  /\ cluster = "Running" /\ stops < MaxStops /\ stops' = stops + 1
  /\ cluster' = "Other"
  /\ UNCHANGED <<jobVars, own, scripts, clusterSeen, edits, faults>>

ClusterRuns ==
  /\ cluster = "Other" /\ cluster' = "Running"
  /\ UNCHANGED <<jobVars, own, scripts, clusterSeen, edits, stops, faults>>

Attempt(j) ==
  /\ AttemptFails(j)
  /\ (j \in ran' /\ RunScript(j)) \/ UNCHANGED <<ran, scripts>>
  /\ UNCHANGED <<own, environment>>

Succeed(j) ==
  /\ cluster = "Running" /\ JobSucceeds(j) /\ RunScript(j)
  /\ UNCHANGED <<own, environment>>

\* The ten minutes a finished job is kept are long for a reconciler that comes
\* back every ten seconds: that it misses a success is a fault, unless the
\* cluster is away for as long.
Recorded(j) == j \in cr.conditions /\ j \in cache.status.conditions

Expire(j) ==
  /\ job[j] = "failed" \/ Recorded(j) \/ clusterSeen # "Running"
  /\ JobExpires(j) /\ UNCHANGED <<own, scripts, environment>>

ExpireUnseen(j) ==
  /\ job[j] = "done" /\ ~Recorded(j) /\ clusterSeen = "Running"
  /\ faults < MaxFaults /\ faults' = faults + 1
  /\ JobExpires(j)
  /\ UNCHANGED <<own, scripts, cluster, clusterSeen, edits, stops>>

Next ==
  \/ CreateSecret \/ SyncJob \/ Finish \/ Fail \/ Deliver \/ DeliverCluster
  \/ EditMakeDefault \/ ClusterStops \/ ClusterRuns
  \/ \E j \in Jobs : \/ Attempt(j) \/ Succeed(j)
                       \/ Expire(j) \/ ExpireUnseen(j)

Spec == Init /\ [][Next]_vars

\* The reconciler is requeued until the release is finished, the informers
\* deliver, the cluster comes back, a job on a running cluster succeeds once
\* its attempts no longer fail, and a finished job is deleted.
FairSpec ==
  /\ Spec
  /\ WF_vars(Reconcile) /\ WF_vars(Deliver) /\ WF_vars(DeliverCluster)
  /\ WF_vars(ClusterRuns)
  /\ \A j \in Jobs : WF_vars(Succeed(j)) /\ WF_vars(Expire(j))

-------------------------------------------------------------------------------
ReleaseStatus == {"None", "CreatingUserSecret", "CreatingUser",
                  "UploadingIntoCypress", "CreatingChPublicClique", "Finished"}

\* Every variable keeps its type.
TypeOK ==
  /\ job \in [Jobs -> JobState] /\ config \subseteq Jobs /\ ran \subseteq Jobs
  /\ tries \in [Jobs -> 0..BackoffLimit] /\ failures \in 0..MaxFailures
  /\ spec \in BOOLEAN /\ secret \in BOOLEAN /\ fresh \in BOOLEAN
  /\ script \in BOOLEAN /\ made \in BOOLEAN /\ edited \in BOOLEAN
  /\ cr.release \in ReleaseStatus /\ cr.conditions \subseteq Jobs
  /\ cache.status.release \in ReleaseStatus
  /\ cache.status.conditions \subseteq Jobs
  /\ edits \in 0..MaxEdits /\ stops \in 0..MaxStops /\ faults \in 0..MaxFaults

\* No job of a release exists before the scripts it builds on have run: the
\* user before the image is uploaded, the upload before the public clique.
JobsInOrder ==
  \A makeDefault \in BOOLEAN :
    LET jobs == JobsOf(makeDefault)
    IN \A i \in 1..Len(jobs) :
         job[jobs[i]] # "none" => /\ secret
                                  /\ \A n \in 1..(i - 1) : jobs[n] \in ran

\* A release is called Finished only when every job its spec asks for at that
\* moment has run, whatever was lost, retried or edited on the way, and the
\* release script ran with --make-default just if the spec says so.  The flag
\* is promised only when makeDefault was not edited after the script had been
\* written: the config map keeps the script, and createInitScript's new one is
\* lost.  A finished release is never taken up again by a stale copy.
FinishedMeansReleased ==
  [][/\ cr'.release = "Finished" /\ cr.release # "Finished" =>
          /\ \A i \in 1..Len(JobsOf(spec)) : JobsOf(spec)[i] \in ran
          /\ kind = "chyt" /\ ~edited => made = spec
     /\ cr.release = "Finished" =>
          /\ cr' = cr
          /\ \A j \in Jobs : job'[j] = "active" => job[j] = "active"]_vars

\* Every release finishes: a job that failed for good is deleted and created
\* again.
Releases == <>(cr.release = "Finished")
================================================================================
