# A TLA+ model of the YTsaurus operator

The operator keeps a YTsaurus cluster on Kubernetes as a `Ytsaurus` resource
describes it: it creates the objects of seventeen kinds of components in an
order their init scripts can live with, and later updates a cluster that holds
data. Masters must not go down without read-only snapshots, tablet nodes not
while they hold tablet cells, the cells must be put back, migrations must run.
All of this is driven by controllers that may crash between any two calls, read
caches that lag behind, and whose writes are refused when somebody else wrote
first. This directory models that, checks it with TLC and proves most of its
safety properties with TLAPS.

## The system and its parts

| part | source | module |
| --- | --- | --- |
| admission webhook | `api/v1/ytsaurus_webhook.go` | Admission |
| object names, configs, pod containers | `pkg/ytconfig`, `pkg/labeller`, `New...` of `pkg/components` | ClusterConfig |
| bootstrap: `Created`, `Initializing`, every `doSync` outside an update | `controllers/sync.go`, `component_manager.go`, `pkg/components` | Bootstrap |
| choice of an update flow, the four flows | `controllers/sync.go` | UpdateFlow, FlowChoice |
| an update: reconcile loop, walk, YTsaurus client, jobs, pods | `controllers`, `ytsaurus_client.go`, `master.go`, `scheduler.go`, `query_tracker.go` | YtsaurusUpdate |
| what an update promises | none: the abstract specification | UpdateProtocol, UpdateRefinement |
| the Kubernetes objects of one component; remote exec nodes | `server.go`, `microservice.go`, `exec_node_base.go`, `remoteexecnodes_sync.go` | Server |
| init jobs | `init_job.go`, `resources/job.go` | InitJob |
| CHYT and SPYT releases | `chyt.go`, `spyt.go`, `chyt_sync.go`, `spyt_sync.go` | Release |

The webhook decides which specs are ever stored. From a stored spec the
component manager makes components with names and configs. A reconcile saves a
state, the walk lets each component and the client do what that state asks for
and gather conditions in memory, one status update at the end of the walk
stores them, and a later reconcile sees them and saves the next state. Releases
wait for the cluster to be Running; remote exec nodes have a reconciler of
their own.

What makes it hard: a status update may be refused after the side effects took
place; a reconcile may start from the status before the last save; the operator
may stop between the writes of two objects or between the three saves that end
an update; a sequence of calls (remove every cell, build a snapshot on every
master) may fail half way; Kubernetes deletes jobs late, expires them early,
and creates pods when it likes; the user edits the spec at any time.
PROJECT.json lists the hazards with their lines.

In every module with a resource, `cr` is the stored status, `cache` the
informer's copy, and `fresh` tells whether that copy carries the stored version:
`Status().Update` is refused otherwise, and an update that changes nothing makes
no new version.

## Modules

**ClusterConfig** has no state. From a spec it computes what the operator makes
of it: the objects each component claims (`New...`), the addresses and
transports of each config (`get...ConfigImpl`), journal quorums, resource limits
and container resources of exec nodes, watermarks of locations. A name is the
sequence of its words, with roles and groups' names split at their dashes, so that
two names are equal when the strings are: `x` with the suffix `lb` is the role
`x-lb`. A byte quantity is a number in units of a scaled `GiB`.

**Admission** is the webhook over a namespace of named resources: `ValidateCreate`,
`ValidateUpdate`, `ValidateDelete`, one operator per validator, and the informer's
list that `validateExistsYtsaurus` reads. **MCAdmission** gives one complete spec
and the deviations from it.

**Bootstrap** states each `doSync` outside an update as the gates it checks in
order; the first closed gate (`Standing`) gives the status and the one thing a
sync does. A wait is a gate on the gate at which another component stands, so
`doSync` is a recursive function over the components. `Walk` is the component manager's walk, `Reconciled` one reconcile, `Fail` a
reconcile that ends after some visits and in the middle of the next.
Scripts are what they need in Cypress and what they leave there. **MCBootstrap**
gives the specs and the edits.

**UpdateFlow** has no state: the sets of states, conditions, selectors and flows,
`chooseUpdateFlow` and the four handlers of an update as relations between a
copy of the resource, what the component manager found, and the next state. A
handler that returns without saving has no next state. **FlowChoice** lets
`chooseUpdateFlow` meet every input.

**YtsaurusUpdate** is the update protocol. `mem` is the copy a reconcile works on;
`pc`, `todo` and `seen` are where the reconcile is, which component the walk is
at, and the objects it fetched when it started. `sts`, `pods`, `podImage`, `job`,
`jobConfig` are Kubernetes; `safeMode`, `alive`, `dying`, `readOnly`, `snapshots`,
`healthy` the cluster. `ran` is a history variable. Actions:

- `Happy` ... `StartWalk`: the cases of `Sync` for a cluster that is up. What is to
  be saved goes to `mem`; `Persist` is `UpdateStatus`. `LeaveUpdate` saves three times.
- `Skip` ... `Report`: `Sync` of one component, in the order of `allComponents`.
  What was fetched at the start is not refreshed during the walk, lists of pods are.
- `HandlePossibilityCheck` ... `DisableSafeMode`: `handleUpdatingState` of the client;
  a loop of calls that fails half way is a disjunct of its action, a call that
  cannot succeed is `CallFails`.
- `Edit...`: the user. `Pods...`, `Job...`: Kubernetes. `CellGone`, `SnapshotBuilt`,
  `BecomeUnhealthy`, `BecomeHealthy`: YTsaurus. `Deliver`: the informer. `Abort`: a
  crash, or an error that ends the reconcile.

An image or a config is a version number, a StatefulSet with its config map the
three numbers the code compares, a component's pods one of none, starting and
ready. A StatefulSet that differs from its pods in the image restarts them (the
default rolling update).

**UpdateProtocol** is the abstract specification of an update: phases serving,
draining, replacing and restoring, in which cells go, masters freeze, components
go down and all of it comes back; no copies, conditions or reconciler. Masters go
down frozen, unless something has thawed them since the update began.
**UpdateRefinement** reads the phase off the stored status and the rest off the
cluster. **UpdateInvariant** states the inductive invariants about tablet cells,
progress, masters and migrations; **MCYtsaurusUpdate** gives the constants values.

**Server** is one component as Kubernetes objects that are written one at a time
from copies fetched earlier (`SyncObject`), while pods read the config map when
they start. `kind` picks the StatefulSet of a server, the Deployment of a
microservice, or a RemoteExecNodes resource with or without a CRI sidecar. The
flow around it is that of stateless components without the steps of scheduler
and query tracker. `awake` says that somebody will call the reconciler again.

**InitJob** is a job with its attempts, `BackoffLimit` and expiry; **Release** the
Chyt and Spyt reconcilers that run their jobs one after the other. Of the scripts
it keeps the one thing that depends on the spec: `script` is whether the release
script in its config map says `--make-default`, `made` whether it ran so, and
`edited` whether `makeDefault` was edited after the script was written.

The theorems are in **FlowChoice_proofs**, **YtsaurusUpdate_proofs** (types and
tablet cells), **UpdateProgress_proofs** (progress, selection and masters, on top
of it), **UpdateMigrations_proofs** (on top of that), **Bootstrap_proofs**,
**Admission_proofs**, **Release_proofs** and **Server_proofs**.

## Runs

| run | question and answer |
| --- | --- |
| Updates | Updates of masters, proxies and tablet nodes under every selector, with an edit and two faults anywhere. No cell is forgotten (`CellsAccountedFor`), a Running cluster has been put back (`RunningMeansRestored`), masters are writable when the status says so (`MasterExitedMeansWritable`), pods go only when their state is safe, with one exception (`PodsRemovedOnlyWhenSafe`), only what was selected changes (`OnlySelectedChange`), all of it is a behaviour of UpdateProtocol (`ImplementsProtocol`), and the invariant of the proofs about the masters holds (`RestoreInvariant`) |
| Edits | Two edits of images or replicas at any moment and a fault: what an update achieved survives stale copies and refused saves (`ProgressIsKept`), the invariants of the proofs about cells and progress hold (`CellsInvariant`, `ProgressInvariant`), and two updates in a row are a behaviour of UpdateProtocol (`ImplementsProtocol`), a job of the first that runs in the second included |
| Stateless | Two updates of scheduler and query tracker in a row, one fault, deleted jobs that linger: the migrations run each time (`FinishedMeansMigrated`, with the invariant of its proof, `MigrationInvariant`) and nothing else is touched (`OnlySelectedChange`) |
| Converge | Under fairness, with an edit and a fault, the cluster ends up as the spec says (`Converges`) |
| FlowChoice | All inputs of `chooseUpdateFlow`: nothing is taken down that the user does not allow or that needs no update (`SelectorRespected`), stateful components only by a flow that protects them (`FlowProtectsState`), nothing is held back without a reason (`BlockedOnlyByUser`) |
| Bootstrap | Four specs that have every kind of component between them, a component added on the way, a fault: no script is started before what it relies on exists (`ScriptsFindWhatTheyNeed`), stored conditions are true (`ConditionsAreTrue`), the invariant of the proofs holds (`InitialisationInvariant`), Running means that every component of the stored spec is set up (`RunningMeansInitialised`), and no components wait for each other (`ComesUp`) |
| Release | Failing and expiring jobs, an edit, a cluster that stops: jobs run in order (`JobsInOrder`), Finished means that every job the stored spec asks for has run, with `--make-default` if it was asked for before the script was written, and the release is then left alone (`FinishedMeansReleased`), every release ends (`Releases`) |
| Server | Servers, microservices and remote exec nodes, an edit of image, config and count, a fault: never Running with an object missing (`RunningMeansBuilt`), no pod keeps an old config (`PodsFollowConfig`), objects and pods reach the spec though nobody polls (`Converges`) |
| Admission | Two resources, every spec that takes at most two admitted writes from a complete one. What is admitted can be configured (`AdmittedMeansConfigurable`), with objects of its own (`NoObjectIsShared`), addresses that exist (`AddressesResolve`, `MastersFindThemselves`), transports that meet (`TransportsAgree`), quorums that intersect (`QuorumsIntersect`), nodes that promise no more than their pods have (`NodesPromiseWhatPodsHave`), and watermarks in order and, unless given, within quotas (`LocationsKeepRoom`) |
| LingeringJob, NothingSelected, SidecarLost | violated: see below |

### Bounds

YtsaurusUpdate: three to five components (a master, HTTP proxies, tablet nodes,
and where they matter scheduler and query tracker; every other server component
behaves in an update as the HTTP proxies do), one bundle with two cells (two, so
that an operation can stop half way), two master peers (so that one may lack a
snapshot), versions 0 and 1 (an edit and its reversal), at most two edits and
two faults. A fault is a crash, a failed call, a pod restart, a loss of health,
or a job that expires before the operator knows that it finished; two of them
reach a failure and a failed or disturbed retry. Calls that must fail because
the cluster is down are not counted as faults.

Bootstrap: `Prompt` names the components whose pods run as soon as they are
created; masters, HTTP proxies, exec and tablet nodes, the queue agent and the UI
start at any speed; one edit and one fault. Release: a backoff
limit of 1 and two failures, so that a job fails for good and is created again.
Server: two versions, up to two replicas, one edit, one fault. Admission: the
deviations change each part of the spec that a validator or a generator looks
at, in ways that are admitted and in ways that are not, with roles and groups
whose names run into each other (`control` and `control-lb`, `gpu` and
`gpu-jobs`) and a watermark beyond the quota; `GiB` is 2 so that the
numbers stay small, which keeps every comparison the code makes.

### Fairness

controller-runtime calls a reconciler again after an error, after a save and
when it asked for it; informers deliver; the StatefulSet, Deployment, job and
TTL controllers do their work; cells that were removed go away, snapshots get
built, an unhealthy cluster recovers; a script that finds what it needs
succeeds. Each is weak fairness. In Server a delivery is strongly fair, because
the model shows deliveries only between two reconciles while an informer does
not wait for them. There a Running resource is not polled: the reconciler must
be woken by an event, and RemoteExecNodes are not woken by their objects. Faults and
edits are bounded, so they end; expiry before a success was seen and the user
need no fairness. A success that the operator does not see during the ten
minutes a job is kept counts as a fault in Release.

Bootstrap, Release, Server and Admission may stop when everything is done, so
deadlock is not checked there; liveness properties exclude stopping early in the
first three.

## What disagrees with the code's own words

- *LingeringJob*: `exitReadOnly` does not wait until the old job is gone; a
  job deleted in the foreground is still visible in the next reconcile, and the
  finished job of the last update is taken for the new one. The condition then
  says that the masters left the read-only mode when they did not, and the
  update is stuck, since the cluster refuses writes. `updateOpArchive` and
  `updateQTState` wait, and run Stateless shows that they are not exposed to this.
- *NothingSelected*: a change of replicas under the selector Nothing rebuilds the
  StatefulSet, and an edited image goes with it.
- *SidecarLost*: an exec node with a CRI sidecar writes the sidecar's config map
  last, and nothing looks for it later; when that one write is refused the pods
  never start.
- The comment on `UpdateSelectorExecNodesOnly` (`api/v1/ytsaurus_types.go:703`)
  speaks of tablet nodes.

## What was seen on the way

Things the models show that no line of the repository contradicts, or that a
property has to except:

- An empty list of pods counts as ready (`statefulset.go:103`), so a wait for
  pods may end before there are any. Nothing in an update or at bootstrap relies on it.
- An update that is impossible is canceled at once and started again
  (`sync.go:43`): in `ImpossibleToStart` no component ever needs a sync.
- An edit during `PodsCreation` rewrites the config map under pods that have
  started, and RemoteExecNodes never restart pods for a config: exceptions of
  `PodsFollowConfig`.
- Two edits that cancel each other may leave a RemoteExecNodes with the spec in
  between when its objects are delivered late; the run has one edit.
- An exit-read-only job that expired unseen may be created again from a stale copy
  (`resources/job.go:46`) and run in the next update, where it takes the masters out of
  the read-only mode. If the snapshots have been reported by then the masters go
  down without them, with whatever they wrote since: an exception of
  `PodsRemovedOnlyWhenSafe` and of the `TakeDown` of UpdateProtocol. If not, they
  never are, and the update waits for ever in `WaitingForSnapshots`
  (`SnapshotsLost`): an exception of `Converges`. It takes two updates, so two
  edits, and a fault. Run Edits reaches it; the other two properties are
  checked where it does not occur, and hold with their exceptions on {master,
  HTTP proxies} with two edits, two replicas and a fault (102,623 states), where
  they fail without.
- Two Ytsaurus resources created within the lag of the webhook's list are both admitted.
- Names are joined with dashes and the webhook reserves no word. The balancing service of a
  role `x` is the headless service of a role `x-lb`, and the sidecar config map of a
  CRI group `x` is the config map of a group `x-jobs`; for the default role and
  group these are `lb` and `jobs`. `NoObjectIsShared` excepts exactly these
  (`Reserved`).
- A CHYT controller (the deprecated field `chyt`) in a spec without schedulers is admitted and
  silently left out, since `validateChyt` checks nothing (`LeftOut`, excepted by
  `AdmittedMeansConfigurable`).
- An edit of `makeDefault` after the release script was written into its config map
  may be lost: the map is written again only when the client config in it changes
  (excepted by `FinishedMeansReleased`).
- A `lowWatermark` in the spec is taken as it is, beyond the quota too (excepted by
  `LocationsKeepRoom`).
- Master caches get no certificate, and components with a transport of their own may differ
  from the rest: exceptions of `TransportsAgree`.
- The CHYT init script addresses the controller by `getName("strawberry")`, which is
  its service only with short names: an exception of `AddressesResolve`.
- Job resources on a node without resources of its own write into a nil map; an isolated
  environment without CRI builds no container for jobs; both are excepted by
  `NodesPromiseWhatPodsHave`, and `AdmittedMeansConfigurable` does not promise pods.

## Assumptions

YtsaurusUpdate: between two reconciles the caches of StatefulSets and jobs catch
up (a deleted job may linger, where `JobsLinger` is TRUE); leaving the read-only
mode clears `last_snapshot_read_only`; jobs that run succeed in the end.
Bootstrap: objects are fetched as they are, a walk is one step with respect to
Kubernetes, and a job succeeds in the end; late copies of objects are the
subject of Server, failing jobs of Release. Everywhere: nobody but the operator
changes tablet cells, safe mode, conditions and the owned objects.

## Proofs

`FlowChoice_proofs`, for any set of components: `TypeCorrect`, `RespectsSelector`,
`ProtectsState`, `BlocksOnlyByUser`. They need only that masters, tablet nodes
and exec nodes are disjoint (`KindsAssumption`); each follows from the cases of
`chooseUpdateFlow`.

`YtsaurusUpdate_proofs`, for any set of components in any order, any bundles with
any numbers of cells, any peers, versions, edits and faults, lingering jobs or
not (`UpdateAssumption`):

- `TypeCorrect` (`Spec => []TypeOK`). `TypeOK` alone is not inductive: a bundle whose
  listed cells exceeded the bound could push `dying` out of its range, so
  `TypeInv` adds that alive and dying cells together stay within the bound.
- `CellsInPlace` (`Spec => []CellsInvariant`) and from it `CellsSafe`
  (`Spec => []CellsAccountedFor`).

Why `CellsAccountedFor` needs a strengthening: it speaks of the stored status
only, but the client acts on a copy. `CellsInvariant` has four parts. (1) No
bundle lists more cells than it had. (2) The stored status is *faithful*: in each
phase of a flow it says where the cells are (all there before the removal and
after the recovery, saved in between, none alive once the removal has started,
none listed from the snapshots to the recovery). (3) A copy that carries the
stored version, and so would be accepted, is faithful too; since `Persist` takes
no other copy, the stored status stays faithful. (4) The copies lag behind in a
harmless way: while a copy shows `WaitingForTabletCellsRemovingStart` or
`WaitingForTabletCellsRecovery` without the condition that ends it, the stored
status is still in that state, and with the same saved bundles (`Keeps`). That is
so because these states are left only by a save of a copy that has the
condition, and it makes a repeated `RemoveTabletCells` or `RecoverTableCells` of a
stale reconcile harmless. The remaining steps say nothing new about cells
(`Alike`), so one lemma covers them. This proof never unfolds `doSync`: what
components do in a walk does not matter to the cells, only the update state and
the conditions do.

`UpdateProgress_proofs`, from the same assumptions and `RolesAssumption` (scheduler
and query tracker are components of their own, and the walk visits a component once):

- `ProgressAlwaysKept` (`Spec => ProgressIsKept`) and `OthersStay`
  (`Spec => OnlySelectedChange`), from `ProgressInPlace` (`Spec => []ProgressInvariant`).
- `ProgressIsKept` says that a step of the stored status loses nothing, and the
  steps that matter are saves of a copy. `ProgressInvariant` therefore says of the
  copies: one that would be accepted continues the stored status; while an
  update is under way the cache shows the same update or the Running cluster before it,
  because the cache is at most one accepted save behind; and a status outside
  an update has nothing of one left in it, so a new update starts clean. With it,
  `IsUpdatingComponent` on an old copy is `IsUpdatingComponent` on the stored status,
  which is why only selected components change.

The rest of `UpdateProgress_proofs`, and `UpdateMigrations_proofs`, from the same
assumptions:

- `RunningIsRestored` (`Spec => []RunningMeansRestored`) and `ExitedMeansWritable`
  (`Spec => []MasterExitedMeansWritable`), both under the hypothesis `~JobsLinger`: a
  job that the operator deletes is gone at once. Run LingeringJob shows that
  the second is false without it. They follow from `RestoreInPlace`. `RestoreInvariant` says,
  phase by phase, whether safe mode is on and which peers are read-only; that
  copies lag behind harmlessly while safe mode is being enabled or snapshots are
  being requested (`KeepsStopping`); and that the walk judges the exit-read-only
  job by what it fetched only until it has visited the master (`Ahead`), with a
  fetched job that is not older than the copy of the status. Without the
  last part, a finished job of an earlier reconcile could be taken for the new one.
- `FinishedIsMigrated` (`Spec => []FinishedMeansMigrated`), lingering jobs or not, from
  `MigrationInPlace`. `MigrationInvariant` says that once the old job has been removed
  (`IsPrepared`) no stale walk creates it again, because every copy the operator can
  hold is then still in the state that prepares the job; so a job that is done after
  that has run in this update. That the walk waits for `isRestartPrepared` is what makes
  it inductive when jobs linger; `exitReadOnly` does not wait.

`Bootstrap_proofs`, for any specs, any edits of them, any speed of the pods and any
bounds on edits and faults (`SpecsAssumption`):

- `TypeCorrect` (`Spec => []TypeOK`), `NothingAhead` (`Spec => []InitialisationInvariant`)
  and from it `ScriptsFind` (`Spec => []ScriptsFindWhatTheyNeed`), `ConditionsTrue`
  (`Spec => []ConditionsAreTrue`) and `RunningInitialised`
  (`Spec => RunningMeansInitialised`).
- `NoCircularWait`: as long as some component is not ready, some component stands at
  a gate of its own and not at a wait for another one. It is the part of `ComesUp`
  that does not depend on fairness, and needs no reachability: the objects, the
  conditions and the spec may be any.

The argument has three layers. (1) The gates: the components have ranks such that
each waits only for lower ones, and before each job come the gates its script
depends on (`AllPlaced`, one lemma per component). By induction over the ranks the
recursive definition of `doSync` has a solution, and by induction over the length
of a list the scan of a component's gates finds the first that does not hold
(`SyncIsFirst`); so a component that stands at a job has the conditions behind the
gates before it (`JobsAreReady`). (2) The walk: by induction over the order of the
components, a walk changes only the conditions of its copy, these are true of
Cypress together with what the walk has written, and the jobs it creates find
what they need there (`WalkWalks`). A sync that fails has done a walk and part of
the next visit. (3) The invariant. The two properties are not inductive by
themselves, because the operator decides from its copy: `InitialisationInvariant`
says, besides the types, that the copy's conditions are true as well, that a copy with the stored
version is the stored resource, that a finished job has left what it leaves, and
that users and bundles come after the schema.

The library's induction theorems take an operator, which the provers cannot
instantiate. The inductions here use that a non-empty set of natural numbers has
a least element (`Least`, from `WFMin`), which is a statement about sets: the numbers
for which the claim holds form a set that has 0 and is closed under successor
(`Induction`).

`Admission_proofs`, for any names, specs and edits. `AdmissionAssumption` says that
quantities are natural numbers, that roles and groups' names are non-empty
sequences over some set of words, and that a spec has its lists of proxies and
nodes, if empty ones; `GiBAssumption` that `GiB` is positive.

- `QuorumsAlwaysIntersect`: `QuorumsIntersect` in every state whose data node counts
  add up to a natural number, from one lemma for the masters' journals and one
  for the bundles', by cases on the number of nodes.
- `MastersAlwaysFindThemselves`, `PromisesAreKept`, `RoomIsKept`, `TransportsAlwaysAgree`,
  `AddressesAlwaysResolve`, `AdmittedIsConfigurable` and `ObjectsAreNotShared`: each
  property of run Admission about what is stored. They rest on
  `AdmissionInvariant`: everything stored has passed every validator and is
  well formed, which an update keeps because it validates the whole new spec
  and not only what it changes. From there on each is a statement about one spec.
  `TransportsAlwaysAgree` and `AddressesAlwaysResolve` reduce every generator to the part all
  of them share (`ConfigsAreConnected`). `ObjectsAreNotShared` reads the type of a component off
  the first word of an object's name (`typeOf`). Within a type, concatenation
  cancels: two objects of one sort with equal names have equal roles
  (`GroupsApart`, `BalancersDiffer`, `SidecarsDiffer`), and a balancer or a sidecar
  equals an object of a group only if one role is the other with the word added
  (`BalancerApart`, `SidecarApart`), which is what `Reserved` says.

`Release_proofs` (`ReleaseAssumption`: the jobs are among the modelled ones, bounds
are natural numbers): `TypeCorrect`, `InOrder` (`Spec => []JobsInOrder`) and
`FinishedIsReleased` (`Spec => FinishedMeansReleased`). `ReleaseInvariant` adds to
`JobsInOrder` that every condition, stored or in the copy, and every finished job
stands for a script that ran (`Backed`), and that after the release has finished
the copy has nothing left to do, however old it is (`Settled`). For `--make-default`,
`Scripted` says that until the spec is edited too late the script in the config map,
and so what ran, is what the spec asks for.

`Server_proofs` (`ServerAssumption`): `TypeCorrect`; `RunningIsBuilt`
(`Spec => RunningMeansBuilt`) for every kind but `remote-cri`, the case that run
SidecarLost refutes; `PodsRunTheirConfig` (`Spec => []PodsFollowConfig`).
`ServerInvariant` says that a copy of an object is old but never of an object that does
not exist (`Copies`), that all objects have been seen once the component was Running
(`BuiltOnce`), and, for the config, which states the cache may show for each stored
one (`Linked`), how the marks of an update follow each other (`Marked`), and
which version the config map holds in each of them (`Settled`).

Only model-checked, on the bounds above:

- `PodsRemovedOnlyWhenSafe` and `ImplementsProtocol`: they would need an invariant
  about snapshots and safe mode in every copy, over all four flows.
- `Converges`, `ComesUp` and `Releases`: liveness under fairness is out of the
  prover's reach.

## What is not modelled

Unmanaged clusters (the operator does nothing for them), removing components
from a spec, secondary masters, merging of config overrides, the order of
conditions. Logging configs, fixed ports, IO and CRI options, the commands inside
init scripts, labels, volumes and pod templates are texts without control;
generated deep copies and the program entry have no state of their own.
PROJECT.json says so part by part.
