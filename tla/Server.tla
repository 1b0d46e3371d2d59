-------------------------------- MODULE Server --------------------------------
(***************************************************************************)
(* One component as Kubernetes objects: a StatefulSet or Deployment, the   *)
(* config map its pods read when they start, and services.  The operator   *)
(* writes them one by one from copies an informer fetched earlier, so a    *)
(* sync may stop anywhere, meet a newer object, or race the pods.          *)
(*                                                                         *)
(* kind "server" is a component of a Ytsaurus resource, "microservice" the *)
(* UI, "remote" a RemoteExecNodes resource and "remote-cri" one whose pods *)
(* have a CRI sidecar with a config map of its own.                        *)
(***************************************************************************)
EXTENDS Naturals, Sequences

CONSTANTS
  Kinds,       \* the kinds to look at
  MaxVersion,  \* images and configs are versions 1..MaxVersion
  MaxCount,    \* bound on the instance count
  MaxEdits,    \* bound on edits of the spec
  MaxFaults    \* bound on failed or interrupted syncs and restarted pods

ASSUME ServerAssumption ==
  /\ Kinds \subseteq {"server", "microservice", "remote", "remote-cri"}
  /\ MaxVersion \in Nat \ {0} /\ MaxCount \in Nat \ {0}
  /\ MaxEdits \in Nat /\ MaxFaults \in Nat

VARIABLES
  kind,
  spec,       \* the stored spec: image, config and count
  cr,         \* the stored status
  cache,      \* the informer's copy of both
  fresh,      \* the cache holds the stored version
  store,      \* the objects of the component
  seen,       \* the informers' copies of them
  pods,       \* pods[i]: image and config it runs with; config 0: not running
  todo,       \* the objects a sync under way has yet to write
  awake,      \* the reconciler has been told to look again
  disturbed,  \* history: the spec was edited while the cluster was not Running
  edits, faults

resource == <<kind, spec, cr, cache, fresh>>
bounds == <<edits, faults>>
vars == <<resource, store, seen, pods, todo, awake, disturbed, bounds>>

remote == kind \in {"remote", "remote-cri"}
Status(state, update, removing, removed) ==
  [state |-> state, update |-> update, removing |-> removing,
   removed |-> removed]

NoPod == [image |-> 0, config |-> 0]
Versions == 1..MaxVersion
SpecType == [image : Versions, config : Versions, count : 1..MaxCount]

Init ==
  /\ kind \in Kinds
  /\ spec = [image |-> 1, config |-> 1, count |-> 1]
  /\ cr = Status(IF remote THEN "Created" ELSE "Initializing", "None",
                 FALSE, FALSE)
  /\ cache = [spec |-> spec, status |-> cr] /\ fresh = TRUE
  /\ store = [objects |-> {}, image |-> 0, config |-> 0, replicas |-> 0]
  /\ seen = store
  /\ pods = [i \in 1..MaxCount |-> NoPod]
  /\ todo = <<>> /\ awake = TRUE /\ disturbed = FALSE
  /\ edits = 0 /\ faults = 0

-------------------------------------------------------------------------------
(* What the operator finds in its copies.                                  *)

\* The objects of a component in the order in which Sync writes them.
serverObjects == <<"workload", "config", "headless", "monitoring">>
microserviceObjects == <<"workload", "config", "service">>
sidecarObjects == <<"workload", "config", "headless", "monitoring", "sidecar">>

Objects ==
  CASE kind = "microservice" -> microserviceObjects
    [] kind = "remote-cri" -> sidecarObjects
    [] OTHER -> serverObjects

Services == {"service", "headless", "monitoring"}
Owned == {Objects[i] : i \in 1..Len(Objects)}

\* Mutant: the services do not count.
workloadExists == "workload" \in seen.objects

exists == Owned \cap ({"workload"} \cup Services) \subseteq seen.objects

\* The sidecar's config map is not looked at.
needBuild(s) ==
  "config" \notin seen.objects \/ ~exists \/ seen.replicas # s.count

configNeedsReload(s) == seen.config # s.config

\* Mutant: a changed config is no reason to update.
imageChanged(s) == exists /\ seen.image # s.image

needUpdate(s) == exists /\ (seen.image # s.image \/ configNeedsReload(s))

NeedSync(v) ==
  \/ needBuild(v.spec)
  \/ configNeedsReload(v.spec) /\ (remote \/ v.status.state = "Updating")

Running(i) == pods[i].config # 0
Present == {i \in 1..MaxCount : pods[i] # NoPod}

\* Mutant: pods that are still going do not count.
scaledDown == seen.replicas = 0

arePodsRemoved == "workload" \notin seen.objects \/ Present = {}

\* A StatefulSet without pods is ready, a Deployment must have them all.
statefulSetReady == \A i \in Present : Running(i)
deploymentReady == statefulSetReady /\ Present = 1..seen.replicas
arePodsReady == IF kind = "microservice" THEN deploymentReady ELSE statefulSetReady

\* The status of the component, in a dry run.
doSync(v) ==
  IF ~remote /\ v.status.state = "Running" /\ needUpdate(v.spec)
  THEN "NeedLocalUpdate"
  ELSE IF v.status.state = "Updating" /\ v.status.update = "PodsRemoval"
  THEN "Updating"
  ELSE IF v.status.state = "Updating" /\ v.status.update = "None"
  THEN "Ready"
  ELSE IF NeedSync(v) \/ (remote /\ needUpdate(v.spec))
  THEN "Pending"
  ELSE IF arePodsReady THEN "Ready" ELSE "Blocked"

-------------------------------------------------------------------------------
(* The reconcilers.                                                        *)

\* The transition that the state of the cluster asks for, or the same status:
\* the flow of stateless components, with the steps that concern the
\* scheduler and the query tracker left out.
NextStatus(v) ==
  LET s == v.status
      ready == doSync(v) = "Ready"
      Becomes(state) == [s EXCEPT !.state = state]
  IN CASE s.state \in {"Initializing", "Reconfiguration"} /\ ready ->
            Becomes("Running")
       [] s.state = "Running" /\ doSync(v) = "NeedLocalUpdate" ->
            Becomes("Updating")
       [] s.state = "Running" /\ doSync(v) \notin {"NeedLocalUpdate", "Ready"} ->
            Becomes("Reconfiguration")
       [] s.state = "Updating" /\ s.update = "None" ->
            [s EXCEPT !.update = "PodsRemoval"]
       [] s.update = "PodsRemoval" /\ s.removed ->
            [s EXCEPT !.update = "PodsCreation"]
       [] s.state = "Updating" /\ s.update = "PodsCreation" /\ ready ->
            Becomes("UpdateFinishing")
       [] s.state = "UpdateFinishing" -> Status("Running", "None", FALSE, FALSE)
       [] OTHER -> s

\* The status a RemoteExecNodes reconcile saves at its end.
ReleaseStatus(v) ==
  [v.status EXCEPT !.state = IF doSync(v) = "Ready" THEN "Running" ELSE "Pending"]

\* Status().Update: refused unless the copy has the stored version.
UpdateStatus(s) ==
  IF fresh /\ s # cr THEN cr' = s /\ fresh' = FALSE ELSE UNCHANGED <<cr, fresh>>

\* A transition is saved, and the reconciler called again.
SaveState ==
  /\ todo = <<>> /\ awake /\ ~remote
  /\ NextStatus(cache) # cache.status
  /\ UpdateStatus(NextStatus(cache))
  /\ UNCHANGED <<kind, spec, cache, store, seen, pods, todo, awake, disturbed,
                 bounds>>

\* removePods after the pods were told to go.
NoteRemoved ==
  /\ todo = <<>> /\ awake /\ NextStatus(cache) = cache.status
  /\ doSync(cache) = "Updating" /\ cache.status.removing /\ arePodsRemoved
  /\ UpdateStatus([cache.status EXCEPT !.removed = TRUE])
  /\ UNCHANGED <<kind, spec, cache, store, seen, pods, todo, awake, disturbed,
                 bounds>>

StartSync ==
  /\ todo = <<>> /\ awake
  /\ \/ doSync(cache) = "Pending"
     \/ doSync(cache) = "Updating" /\ ~cache.status.removing
  /\ remote \/ NextStatus(cache) = cache.status
  /\ todo' = Objects
  /\ UNCHANGED <<resource, store, seen, pods, awake, disturbed, bounds>>

\* "Running and happy" asks for no other reconcile; what wakes the reconciler
\* again is an edit or, of a Ytsaurus resource, an event of an owned object.
Rest ==
  /\ todo = <<>> /\ awake /\ ~remote
  /\ cache.status.state = "Running" /\ doSync(cache) = "Ready"
  /\ awake' = FALSE
  /\ UNCHANGED <<resource, store, seen, pods, todo, disturbed, bounds>>

\* A RemoteExecNodes reconcile without a sync is requeued unless all is ready;
\* its own status update wakes it too, as does a refused one.
Report ==
  /\ todo = <<>> /\ awake /\ remote /\ doSync(cache) # "Pending"
  /\ UpdateStatus(ReleaseStatus(cache))
  /\ awake' = (doSync(cache) # "Ready" \/ ~fresh \/ ReleaseStatus(cache) # cr)
  /\ UNCHANGED <<kind, spec, cache, store, seen, pods, todo, disturbed, bounds>>

-------------------------------------------------------------------------------
(* Sync of the objects.                                                    *)

\* The fields of copy t that belong to object o.
Part(t, o) ==
  <<o \in t.objects,
    IF o = "workload" THEN <<t.image, t.replicas>> ELSE <<>>,
    IF o = "config" THEN t.config ELSE 0>>

\* Copy s with object o as in t.
With(s, t, o) ==
  [objects |-> (s.objects \ {o}) \cup (t.objects \cap {o}),
   image |-> IF o = "workload" THEN t.image ELSE s.image,
   replicas |-> IF o = "workload" THEN t.replicas ELSE s.replicas,
   config |-> IF o = "config" THEN t.config ELSE s.config]

removes == doSync(cache) = "Updating"

\* Mutant: one replica too many.
BuiltWithSpare ==
  [objects |-> Owned, image |-> cache.spec.image, config |-> cache.spec.config,
   replicas |-> cache.spec.count + 1]

\* What Sync would like the objects to be.  A microservice is scaled down as
\* it was, a server with the image of the spec.
rebuildStatefulSet == [image |-> cache.spec.image, replicas |-> cache.spec.count]
removeServerPods == [rebuildStatefulSet EXCEPT !.replicas = 0]
syncComponents == [image |-> cache.spec.image, replicas |-> cache.spec.count]
removeMicroservicePods == [image |-> seen.image, replicas |-> 0]

builtWorkload ==
  IF kind = "microservice"
  THEN IF removes THEN removeMicroservicePods ELSE syncComponents
  ELSE IF removes THEN removeServerPods ELSE rebuildStatefulSet

Built ==
  [objects |-> Owned, config |-> cache.spec.config,
   image |-> builtWorkload.image, replicas |-> builtWorkload.replicas]

\* Create fails if the object exists, Update unless the copy is the stored
\* object.  ConfigHelper.Sync writes only a config that is new or differs.
SyncObject(o) == Part(seen, o) = Part(store, o)

Skipped(o) == o = "config" /\ o \in seen.objects /\ ~configNeedsReload(cache.spec)

\* The status saved after the last object.
Synced ==
  CASE removes -> [cache.status EXCEPT !.removing = TRUE]
    [] ~removes /\ remote -> ReleaseStatus(cache)
    [] OTHER -> cache.status

Sync ==
  /\ todo # <<>>
  /\ LET o == Head(todo)
     IN IF Skipped(o) \/ SyncObject(o)
        THEN /\ store' = IF Skipped(o) THEN store ELSE With(store, Built, o)
             /\ todo' = Tail(todo)
             /\ IF Tail(todo) = <<>> THEN UpdateStatus(Synced)
                ELSE UNCHANGED <<cr, fresh>>
        ELSE todo' = <<>> /\ UNCHANGED <<store, cr, fresh>>
  /\ UNCHANGED <<kind, spec, cache, seen, pods, awake, disturbed, bounds>>

\* The API refuses an object for another reason, or the operator stops.
SyncFails ==
  /\ todo # <<>> /\ faults < MaxFaults
  /\ todo' = <<>> /\ faults' = faults + 1
  /\ UNCHANGED <<resource, store, seen, pods, awake, disturbed, edits>>

-------------------------------------------------------------------------------
(* Informers, Kubernetes and the user.  Copies are fetched when a reconcile *)
(* starts and do not change under it.                                      *)

Deliver ==
  /\ todo = <<>> /\ ~fresh
  /\ cache' = [spec |-> spec, status |-> cr] /\ fresh' = TRUE
  /\ awake' = TRUE
  /\ UNCHANGED <<kind, spec, cr, store, seen, pods, todo, disturbed, bounds>>

DeliverObject(o) ==
  /\ todo = <<>> /\ Part(seen, o) # Part(store, o)
  /\ seen' = With(seen, store, o)
  /\ awake' = (awake \/ ~remote)
  /\ UNCHANGED <<resource, store, pods, todo, disturbed, bounds>>

\* An event of the workload's status wakes the reconciler of its owner.
PodChanges(i, pod) ==
  /\ pods' = [pods EXCEPT ![i] = pod]
  /\ awake' = (awake \/ ~remote)
  /\ UNCHANGED <<resource, store, seen, todo, disturbed, edits>>

PodCreated(i) ==
  /\ "workload" \in store.objects /\ i <= store.replicas /\ pods[i] = NoPod
  /\ PodChanges(i, [image |-> store.image, config |-> 0]) /\ UNCHANGED faults

\* A pod starts when everything it mounts is there.
PodStarts(i) ==
  /\ pods[i] # NoPod /\ ~Running(i) /\ "config" \in store.objects
  /\ kind = "remote-cri" => "sidecar" \in store.objects
  /\ PodChanges(i, [pods[i] EXCEPT !.config = store.config])
  /\ UNCHANGED faults

\* Scaled down, or replaced by the rolling update.
PodRemoved(i) ==
  /\ pods[i] # NoPod /\ (i > store.replicas \/ pods[i].image # store.image)
  /\ PodChanges(i, NoPod) /\ UNCHANGED faults

PodRestarts(i) ==
  /\ Running(i) /\ faults < MaxFaults /\ faults' = faults + 1
  /\ PodChanges(i, [pods[i] EXCEPT !.config = 0])

EditSpec ==
  /\ edits < MaxEdits /\ edits' = edits + 1
  /\ \E s \in SpecType \ {spec} : spec' = s
  /\ fresh' = FALSE
  /\ disturbed' = (disturbed \/ cr.state # "Running")
  /\ UNCHANGED <<kind, cr, cache, store, seen, pods, todo, awake, faults>>

Reconcile == SaveState \/ NoteRemoved \/ StartSync \/ Rest \/ Report \/ Sync

Kubernetes ==
  \E i \in 1..MaxCount : PodCreated(i) \/ PodStarts(i) \/ PodRemoved(i)

Next ==
  \/ SaveState \/ NoteRemoved \/ StartSync \/ Rest \/ Report \/ Sync
  \/ SyncFails \/ Deliver \/ EditSpec
  \/ \E o \in Owned : DeliverObject(o)
  \/ \E i \in 1..MaxCount : \/ PodCreated(i) \/ PodStarts(i)
                            \/ PodRemoved(i) \/ PodRestarts(i)

Spec == Init /\ [][Next]_vars

\* An awake reconciler is called, informers deliver, and the controllers of
\* Kubernetes do their work.  An informer does not wait for a reconcile to
\* end; as the model shows its deliveries only between two, they are strongly
\* fair.
FairSpec ==
  /\ Spec
  /\ WF_vars(Reconcile) /\ WF_vars(Kubernetes)
  /\ SF_vars(Deliver) /\ SF_vars(\E o \in Owned : DeliverObject(o))
-------------------------------------------------------------------------------
States == {"Created", "Pending", "Initializing", "Running", "Reconfiguration",
           "Updating", "UpdateFinishing"}

StatusType == [state : States, update : {"None", "PodsRemoval", "PodsCreation"},
               removing : BOOLEAN, removed : BOOLEAN]

\* Every variable keeps its type.
TypeOK ==
  /\ spec \in SpecType /\ cr \in StatusType
  /\ cache \in [spec : SpecType, status : StatusType]
  /\ \A t \in {store, seen} :
       /\ t.objects \subseteq Owned /\ t.image \in 0..MaxVersion
       /\ t.config \in 0..MaxVersion /\ t.replicas \in 0..MaxCount
  /\ pods \in [1..MaxCount -> [image : 0..MaxVersion, config : 0..MaxVersion]]
  /\ \A b \in {fresh, awake, disturbed} : b \in BOOLEAN
  /\ edits \in 0..MaxEdits /\ faults \in 0..MaxFaults

\* A component is never reported as running with part of its objects missing,
\* wherever a sync stopped and however old the copies are.
RunningMeansBuilt ==
  [][cr.state # "Running" /\ cr'.state = "Running" => store.objects = Owned]_vars

\* No pod of a running cluster is left with another config than the config
\* map says, though nothing compares pods with configs: a config map is only
\* rewritten when no pods are there to have read the old one.  An edit while
\* the cluster is not Running is excepted: PodsCreation rewrites the map
\* under pods that have started.
PodsFollowConfig ==
  ~remote /\ ~disturbed /\ cr.state = "Running" =>
    \A i \in 1..MaxCount : Running(i) => pods[i].config = store.config

\* In the end the objects are as the spec says, the pods run the image of the
\* spec, and the resource says Running, whatever failed on the way and
\* although nobody polls.
Converges ==
  <>[](/\ cr.state = "Running"
       /\ store = [objects |-> Owned, image |-> spec.image,
                   config |-> spec.config, replicas |-> spec.count]
       /\ \A i \in 1..spec.count : Running(i) /\ pods[i].image = spec.image)

\* "perform operations to make the cluster state reflect the state specified
\* by the user" (the comment on Reconcile of remote exec nodes): every object
\* the resource stands for is there in the end.
EveryObjectExists == <>[](store.objects = Owned)
===============================================================================
