------------------------------ MODULE Server_proofs ------------------------------
(***************************************************************************)
(* Proofs about the objects of one component, for any versions, instance   *)
(* counts, edits and faults: types, that a component reported as running   *)
(* has all its objects, and that its pods follow its config map.           *)
(***************************************************************************)
EXTENDS Server, TLAPS

-------------------------------------------------------------------------------
(* The inductive invariant.                                                *)

\* The states a resource is in from the first Running on.
Up == {"Running", "Reconfiguration", "Updating", "UpdateFinishing"}

TypeInv == TypeOK /\ kind \in Kinds

\* Copies are old, never wrong: an object that was seen exists, and a copy that
\* would be accepted is the stored resource.
Copies ==
  /\ seen.objects \subseteq store.objects
  /\ fresh => cache.spec = spec /\ cache.status = cr

\* Once a component was Running, its objects have all been seen.
BuiltOnce ==
  kind # "remote-cri" /\ (cr.state \in Up \/ cache.status.state \in Up) =>
    seen.objects = Owned

\* What is saved is one step away from the copy it was computed from.
Linked ==
  /\ todo # <<>> =>
       cache.status.state \in {"Initializing", "Reconfiguration", "Updating"}
  /\ cr.state \in {"Initializing"} \cup Up
  /\ cr.state = "Initializing" => cache.status.state = "Initializing"
  /\ cr.state = "Running" =>
       cache.status.state \in {"Initializing", "Reconfiguration", "Running",
                               "UpdateFinishing"}
  /\ cr.state = "Reconfiguration" =>
       cache.status.state \in {"Running", "Reconfiguration"}
  /\ cr.state = "Updating" => cache.status.state \in {"Running", "Updating"}
  /\ cr.state = "UpdateFinishing" =>
       cache.status.state \in {"Updating", "UpdateFinishing"}

\* The marks of an update are set in their order and cleared at its end.
Marked(s) ==
  /\ s.removed => s.removing
  /\ s.update = "PodsCreation" => s.removed
  /\ s.state = "UpdateFinishing" => s.update = "PodsCreation"
  /\ s.state \notin {"Updating", "UpdateFinishing"} =>
       ~s.removing /\ ~s.removed /\ s.update = "None"

\* What a sync has yet to write: the workload comes first, then the config.
Tails ==
  IF kind = "microservice"
  THEN {<<"workload", "config", "service">>, <<"config", "service">>,
        <<"service">>, <<>>}
  ELSE {<<"workload", "config", "headless", "monitoring">>,
        <<"config", "headless", "monitoring">>, <<"headless", "monitoring">>,
        <<"monitoring">>, <<>>}

\* The config map, where it exists, holds config c, and so does its copy.
Holds(c) ==
  /\ "config" \in store.objects => store.config = c
  /\ "config" \in seen.objects => seen.config = c

\* Every pod runs with what the config map holds.
Follow == \A i \in 1..MaxCount : Running(i) => pods[i].config = store.config

\* Which config the map holds, while the spec is only edited in Running.
Settled ==
  /\ cr.state # "Running" => cache.spec = spec
  /\ cache.status.state \in {"Initializing", "Reconfiguration"} =>
       Holds(cache.spec.config)
  /\ cr.state \in {"Initializing", "Reconfiguration"} => Holds(spec.config)
  /\ cr.state \in {"Running", "UpdateFinishing"} => store.config = seen.config
  /\ cr.state = "Updating" => store.config \in {seen.config, spec.config}
  /\ cr.removing => store.config = spec.config
  /\ /\ cache.status.state = "Updating"
     /\ todo # <<>> /\ Head(todo) \notin {"workload", "config"}
     => store.config = spec.config
  /\ cr.state \in {"Initializing", "Reconfiguration", "Running"} \/ cr.removed =>
       Follow

\* The config of components of a cluster.
ConfigInv ==
  ~remote =>
    /\ Linked /\ Marked(cr) /\ Marked(cache.status) /\ todo \in Tails
    /\ \A i \in 1..MaxCount : Running(i) => "config" \in store.objects
    /\ ~disturbed => Settled

ServerInvariant == TypeInv /\ Copies /\ BuiltOnce /\ ConfigInv

-------------------------------------------------------------------------------
(* Types.                                                                  *)

\* The objects of each kind.
LEMMA OwnedObjects ==
  ASSUME kind \in Kinds
  PROVE /\ kind = "microservice" => Owned = {"workload", "config", "service"}
        /\ kind \in {"server", "remote"} =>
             Owned = {"workload", "config", "headless", "monitoring"}
        /\ {"workload", "config"} \subseteq Owned
        /\ kind # "remote-cri" => Owned \subseteq {"workload", "config"} \cup Services
<1>1. CASE kind = "microservice"
  BY <1>1 DEF Owned, Objects, microserviceObjects, Services
<1>2. CASE kind \in {"server", "remote"}
  BY <1>2 DEF Owned, Objects, serverObjects, Services
<1>3. CASE kind = "remote-cri"
  BY <1>3 DEF Owned, Objects, sidecarObjects
<1> QED
  BY <1>1, <1>2, <1>3, ServerAssumption

\* The kind of a component is all they depend on.
LEMMA SameObjects ==
  ASSUME kind' = kind
  PROVE Owned' = Owned /\ Objects' = Objects /\ remote' = remote /\ Tails' = Tails
  BY DEF Owned, Objects, remote, Tails

\* A transition of a well-typed status is one.
LEMMA StatusTyped ==
  ASSUME NEW v \in [spec : SpecType, status : StatusType]
  PROVE /\ NextStatus(v) \in StatusType /\ ReleaseStatus(v) \in StatusType
        /\ [v.status EXCEPT !.removing = TRUE] \in StatusType
        /\ [v.status EXCEPT !.removed = TRUE] \in StatusType
<1>1. \A s \in States : [v.status EXCEPT !.state = s] \in StatusType
  BY DEF StatusType
<1>2. \A u \in {"None", "PodsRemoval", "PodsCreation"} :
        [v.status EXCEPT !.update = u] \in StatusType
  BY DEF StatusType
<1>3. Status("Running", "None", FALSE, FALSE) \in StatusType
  BY DEF StatusType, Status, States
<1>4. /\ [v.status EXCEPT !.removing = TRUE] \in StatusType
      /\ [v.status EXCEPT !.removed = TRUE] \in StatusType
  BY Zenon DEF StatusType
<1>5. {"Running", "Pending", "Updating", "Reconfiguration", "UpdateFinishing"}
        \subseteq States
  BY DEF States
<1>6. v.status \in StatusType
  OBVIOUS
<1>7. NextStatus(v) \in StatusType
  BY <1>1, <1>2, <1>3, <1>5, <1>6, Zenon DEF NextStatus
<1>8. ReleaseStatus(v) \in StatusType
  BY <1>1, <1>5 DEF ReleaseStatus
<1> QED
  BY <1>4, <1>7, <1>8

\* Saving it keeps the stored status well typed.
LEMMA SavedTyped ==
  ASSUME TypeInv, NEW s \in StatusType, UpdateStatus(s)
  PROVE cr' \in StatusType /\ fresh' \in BOOLEAN
<1>1. CASE cr' = s /\ fresh' = FALSE
  BY <1>1, Zenon
<1>2. CASE UNCHANGED <<cr, fresh>>
  BY <1>2 DEF TypeInv, TypeOK
<1> QED
  BY <1>1, <1>2, Zenon DEF UpdateStatus

\* A copy of the objects.
Copy(t) ==
  /\ t.objects \subseteq Owned /\ t.image \in 0..MaxVersion
  /\ t.config \in 0..MaxVersion /\ t.replicas \in 0..MaxCount

\* Taking one object over from another copy keeps a copy well typed.
LEMMA WithTyped ==
  ASSUME NEW s, NEW t, NEW o, Copy(s), Copy(t)
  PROVE Copy(With(s, t, o))
  BY DEF Copy, With

\* What a sync writes is well typed.
LEMMA BuiltTyped ==
  ASSUME TypeInv PROVE Copy(Built)
<1>1. /\ cache.spec.image \in Versions /\ cache.spec.config \in Versions
      /\ cache.spec.count \in 1..MaxCount
  BY DEF TypeInv, TypeOK, SpecType
<1>2. builtWorkload.image \in {cache.spec.image, seen.image}
      /\ builtWorkload.replicas \in {cache.spec.count, 0}
  BY DEF builtWorkload, removeMicroservicePods, syncComponents, removeServerPods,
         rebuildStatefulSet
<1>3. seen.image \in 0..MaxVersion
  BY DEF TypeInv, TypeOK
<1> QED
  BY <1>1, <1>2, <1>3, ServerAssumption DEF Copy, Built, Versions

\* A component starts well typed.
LEMMA InitTyped == Init => TypeInv
<1> SUFFICES ASSUME Init PROVE TypeInv
  OBVIOUS
<1>1. spec \in SpecType
  BY ServerAssumption DEF Init, SpecType, Versions
<1>2. cr \in StatusType
  BY DEF Init, StatusType, Status, States
<1>3. Copy(store) /\ seen = store
  BY ServerAssumption DEF Init, Copy
<1>4. pods \in [1..MaxCount -> [image : 0..MaxVersion, config : 0..MaxVersion]]
  BY ServerAssumption DEF Init, NoPod
<1>5. edits \in 0..MaxEdits /\ faults \in 0..MaxFaults
  BY ServerAssumption DEF Init
<1> QED
  BY <1>1, <1>2, <1>3, <1>4, <1>5, Zenon DEF Init, TypeInv, TypeOK, Copy

\* Every step keeps the types.
LEMMA StepTyped == TypeInv /\ [Next]_vars => TypeInv'
<1> SUFFICES ASSUME TypeInv, [Next]_vars PROVE TypeInv'
  OBVIOUS
<1> USE DEF vars, resource, bounds
<1>1. /\ cache \in [spec : SpecType, status : StatusType] /\ cache.status \in StatusType
      /\ Copy(store) /\ Copy(seen)
  BY DEF TypeInv, TypeOK, Copy
<1>2. ASSUME kind' = kind, spec' \in SpecType, cr' \in StatusType,
             cache' \in [spec : SpecType, status : StatusType],
             Copy(store'), Copy(seen'),
             pods' \in [1..MaxCount -> [image : 0..MaxVersion, config : 0..MaxVersion]],
             fresh' \in BOOLEAN, awake' \in BOOLEAN, disturbed' \in BOOLEAN,
             edits' \in 0..MaxEdits, faults' \in 0..MaxFaults
      PROVE TypeInv'
  <2>1. Owned' = Owned
    BY <1>2, SameObjects
  <2>2. \A t \in {store', seen'} :
          /\ t.objects \subseteq Owned' /\ t.image \in 0..MaxVersion
          /\ t.config \in 0..MaxVersion /\ t.replicas \in 0..MaxCount
    BY <1>2, <2>1, Zenon DEF Copy
  <2>3. \A b \in {fresh', awake', disturbed'} : b \in BOOLEAN
    BY <1>2, Zenon
  <2>4. kind' \in Kinds
    BY <1>2 DEF TypeInv
  <2> QED
    BY <1>2, <2>2, <2>3, <2>4, Zenon DEF TypeInv, TypeOK
<1>3. ASSUME UNCHANGED <<kind, spec, cache, store, seen, pods, awake, disturbed, bounds>>,
             NEW s \in StatusType, UpdateStatus(s)
      PROVE TypeInv'
  BY <1>1, <1>2, <1>3, SavedTyped DEF TypeInv, TypeOK
<1>4. CASE SaveState
  BY <1>1, <1>3, <1>4, StatusTyped, Zenon DEF SaveState
<1>5. CASE NoteRemoved
  BY <1>1, <1>3, <1>5, StatusTyped, Zenon DEF NoteRemoved
<1>6. CASE StartSync \/ Rest
  BY <1>1, <1>2, <1>6, Zenon DEF StartSync, Rest, TypeInv, TypeOK
<1>7. CASE Report
  <2>1. cr' \in StatusType /\ fresh' \in BOOLEAN
    BY <1>1, <1>7, StatusTyped, SavedTyped, Zenon DEF Report
  <2>2. awake' \in BOOLEAN
    BY <1>7 DEF Report
  <2> QED
    BY <1>1, <1>2, <1>7, <2>1, <2>2 DEF Report, TypeInv, TypeOK
<1>8. CASE Sync
  <2>1. Synced \in StatusType
    BY <1>1, StatusTyped, Zenon DEF Synced
  <2>2. Copy(store')
    BY <1>1, <1>8, BuiltTyped, WithTyped DEF Sync
  <2>3. cr' \in StatusType /\ fresh' \in BOOLEAN
    <3>1. UpdateStatus(Synced) \/ UNCHANGED <<cr, fresh>>
      BY <1>8 DEF Sync
    <3> QED
      BY <2>1, <3>1, SavedTyped DEF TypeInv, TypeOK
  <2> QED
    BY <1>1, <1>2, <1>8, <2>2, <2>3 DEF Sync, TypeInv, TypeOK
<1>9. CASE SyncFails
  <2>1. faults' \in 0..MaxFaults
    BY <1>9, ServerAssumption DEF SyncFails, TypeInv, TypeOK
  <2> QED
    BY <1>1, <1>2, <1>9, <2>1 DEF SyncFails, TypeInv, TypeOK
<1>10. CASE Deliver
  <2>1. cache' \in [spec : SpecType, status : StatusType]
    BY <1>10 DEF Deliver, TypeInv, TypeOK
  <2> QED
    BY <1>1, <1>2, <1>10, <2>1 DEF Deliver, TypeInv, TypeOK
<1>11. CASE EditSpec
  <2>1. edits' \in 0..MaxEdits /\ spec' \in SpecType
    BY <1>11, ServerAssumption DEF EditSpec, TypeInv, TypeOK
  <2>2. disturbed' \in BOOLEAN /\ fresh' \in BOOLEAN
    BY <1>11, Zenon DEF EditSpec
  <2> QED
    BY <1>1, <1>2, <1>11, <2>1, <2>2 DEF EditSpec, TypeInv, TypeOK
<1>12. ASSUME NEW o, DeliverObject(o) PROVE TypeInv'
  <2>1. Copy(seen')
    BY <1>1, <1>12, WithTyped DEF DeliverObject
  <2>2. awake' \in BOOLEAN
    BY <1>12 DEF DeliverObject
  <2> QED
    BY <1>1, <1>2, <1>12, <2>1, <2>2 DEF DeliverObject, TypeInv, TypeOK
<1>13. ASSUME NEW i \in 1..MaxCount,
              NEW pod \in [image : 0..MaxVersion, config : 0..MaxVersion],
              PodChanges(i, pod), faults' \in 0..MaxFaults
       PROVE TypeInv'
  <2>1. pods' \in [1..MaxCount -> [image : 0..MaxVersion, config : 0..MaxVersion]]
    BY <1>13 DEF PodChanges, TypeInv, TypeOK
  <2>2. awake' \in BOOLEAN
    BY <1>13 DEF PodChanges
  <2> QED
    BY <1>1, <1>2, <1>13, <2>1, <2>2 DEF PodChanges, TypeInv, TypeOK
<1>14. ASSUME NEW i \in 1..MaxCount,
              PodCreated(i) \/ PodStarts(i) \/ PodRemoved(i) \/ PodRestarts(i)
       PROVE TypeInv'
  <2>1. pods[i] \in [image : 0..MaxVersion, config : 0..MaxVersion]
    BY DEF TypeInv, TypeOK
  <2>2. faults' \in 0..MaxFaults
    BY <1>14, ServerAssumption
    DEF PodCreated, PodStarts, PodRemoved, PodRestarts, TypeInv, TypeOK
  <2>3. /\ 0 \in 0..MaxVersion
        /\ store.image \in 0..MaxVersion /\ store.config \in 0..MaxVersion
    BY <1>1, ServerAssumption DEF Copy
  <2>4. \E pod \in [image : 0..MaxVersion, config : 0..MaxVersion] : PodChanges(i, pod)
    BY <1>14, <2>1, <2>3 DEF PodCreated, PodStarts, PodRemoved, PodRestarts, NoPod
  <2> QED
    BY <1>13, <2>2, <2>4
<1>15. CASE UNCHANGED vars
  BY <1>1, <1>2, <1>15 DEF TypeInv, TypeOK
<1> QED
  BY <1>4, <1>5, <1>6, <1>7, <1>8, <1>9, <1>10, <1>11, <1>12, <1>14, <1>15 DEF Next

-------------------------------------------------------------------------------
(* Objects and their copies.                                               *)

\* A sync only adds objects, and so does an informer.
LEMMA ObjectsGrow ==
  ASSUME TypeInv, Copies, NEW o
  PROVE /\ store.objects \subseteq With(store, Built, o).objects
        /\ seen.objects \subseteq With(seen, store, o).objects
        /\ With(seen, store, o).objects \subseteq store.objects
  BY DEF TypeInv, TypeOK, Copies, With, Built

\* At first there is nothing, and nothing has been seen.
LEMMA InitCopies == Init => Copies /\ BuiltOnce
  BY DEF Init, Status, Copies, BuiltOnce, Up

\* A component that is Ready outside an update has been built.
LEMMA ReadyIsBuilt ==
  ASSUME TypeInv, kind # "remote-cri", NEW v,
         doSync(v) = "Ready", v.status.state # "Updating"
  PROVE seen.objects = Owned
<1>1. ~NeedSync(v)
  BY DEF doSync
<1>2. "config" \in seen.objects /\ Owned \cap ({"workload"} \cup Services) \subseteq seen.objects
  BY <1>1 DEF NeedSync, needBuild, exists
<1>3. Owned \subseteq {"workload", "config"} \cup Services
  BY OwnedObjects DEF TypeInv
<1> QED
  BY <1>2, <1>3, Zenon DEF TypeInv, TypeOK

\* A transition saved by a reconciler that has the current copy leads into Up
\* only from there, or when the component is ready.
LEMMA SavedBuilt ==
  ASSUME TypeInv, Copies, BuiltOnce, UNCHANGED <<kind, cache, seen>>,
         NEW s, UpdateStatus(s),
         \/ s = NextStatus(cache) \/ s.state = cache.status.state
         \/ s = ReleaseStatus(cache)
  PROVE BuiltOnce'
<1> SUFFICES ASSUME kind # "remote-cri", cr' = s, fresh, s.state \in Up
             PROVE seen.objects = Owned
  BY SameObjects DEF UpdateStatus, BuiltOnce
<1>1. CASE cache.status.state \in Up
  BY <1>1 DEF BuiltOnce
<1>2. CASE cache.status.state \notin Up
  <2>1. doSync(cache) = "Ready"
    <3>1. CASE s = NextStatus(cache)
      <4>1. cache.status \in StatusType
        BY DEF TypeInv, TypeOK
      <4> QED
        BY <1>2, <3>1, <4>1, Zenon DEF NextStatus, Up, StatusType
    <3>2. CASE s.state = cache.status.state
      BY <1>2, <3>2
    <3>3. CASE s = ReleaseStatus(cache)
      <4>1. cache.status \in StatusType
        BY DEF TypeInv, TypeOK
      <4>2. s.state = IF doSync(cache) = "Ready" THEN "Running" ELSE "Pending"
        BY <3>3, <4>1 DEF ReleaseStatus, StatusType
      <4> QED
        BY <4>2 DEF Up
    <3> QED
      BY <3>1, <3>2, <3>3
  <2> QED
    BY <1>2, <2>1, ReadyIsBuilt DEF Up
<1> QED
  BY <1>1, <1>2

\* Every step keeps the copies behind what is stored, and what was built.
LEMMA StepCopies ==
  ASSUME TypeInv, Copies, BuiltOnce, [Next]_vars
  PROVE Copies' /\ BuiltOnce'
<1> USE DEF vars, resource, bounds
<1>1. ASSUME UNCHANGED <<kind, spec, cr, cache, fresh>>,
             store.objects \subseteq store'.objects,
             seen.objects \subseteq seen'.objects, seen'.objects \subseteq store'.objects,
             seen'.objects \subseteq Owned
      PROVE Copies' /\ BuiltOnce'
  BY <1>1, SameObjects DEF Copies, BuiltOnce
<1>2. ASSUME UNCHANGED <<kind, spec, cache, seen>>, store.objects \subseteq store'.objects,
             NEW s, UpdateStatus(s),
             \/ s = NextStatus(cache) \/ s.state = cache.status.state
             \/ s = ReleaseStatus(cache)
      PROVE Copies' /\ BuiltOnce'
  <2>1. BuiltOnce'
    BY <1>2, SavedBuilt
  <2>2. Copies'
    BY <1>2 DEF Copies, UpdateStatus
  <2> QED
    BY <2>1, <2>2
<1>3. cache.status \in StatusType /\ seen.objects \subseteq Owned
  BY DEF TypeInv, TypeOK
<1>4. CASE SaveState
  BY <1>2, <1>4 DEF SaveState
<1>5. CASE NoteRemoved
  <2>1. [cache.status EXCEPT !.removed = TRUE].state = cache.status.state
    BY <1>3 DEF StatusType
  <2> QED
    BY <1>2, <1>5, <2>1, Zenon DEF NoteRemoved
<1>6. CASE Report
  BY <1>2, <1>6 DEF Report
<1>7. CASE Sync
  <2>1. /\ UNCHANGED <<kind, spec, cache, seen>>
        /\ store.objects \subseteq store'.objects
        /\ UpdateStatus(Synced) \/ UNCHANGED <<cr, fresh>>
    BY <1>7, ObjectsGrow DEF Sync
  <2>2. Synced.state = cache.status.state \/ Synced = ReleaseStatus(cache)
    BY <1>3 DEF Synced, StatusType
  <2>3. CASE UpdateStatus(Synced)
    BY <1>2, <2>1, <2>2, <2>3
  <2>4. CASE UNCHANGED <<cr, fresh>>
    BY <1>1, <1>3, <2>1, <2>4 DEF Copies
  <2> QED
    BY <2>1, <2>3, <2>4
<1>8. CASE Deliver
  <2>1. /\ cache'.spec = spec /\ cache'.status = cr
        /\ UNCHANGED <<kind, spec, cr, store, seen>>
    BY <1>8 DEF Deliver
  <2> QED
    BY <2>1, SameObjects DEF Copies, BuiltOnce
<1>9. CASE EditSpec
  <2>1. fresh' = FALSE /\ UNCHANGED <<kind, cr, cache, store, seen>>
    BY <1>9 DEF EditSpec
  <2> QED
    BY <2>1, SameObjects DEF Copies, BuiltOnce
<1>10. ASSUME NEW o, DeliverObject(o) PROVE Copies' /\ BuiltOnce'
  <2>1. With(seen, store, o).objects \subseteq Owned
    BY ObjectsGrow DEF TypeInv, TypeOK
  <2> QED
    BY <1>1, <1>10, <2>1, ObjectsGrow DEF DeliverObject
<1>11. CASE StartSync \/ Rest \/ SyncFails \/ UNCHANGED vars
  BY <1>1, <1>3, <1>11 DEF StartSync, Rest, SyncFails, Copies
<1>12. ASSUME NEW i \in 1..MaxCount,
              PodCreated(i) \/ PodStarts(i) \/ PodRemoved(i) \/ PodRestarts(i)
       PROVE Copies' /\ BuiltOnce'
  <2>1. UNCHANGED <<resource, store, seen>>
    BY <1>12 DEF PodCreated, PodStarts, PodRemoved, PodRestarts, PodChanges
  <2> QED
    BY <1>1, <1>3, <2>1 DEF Copies
<1> QED
  BY <1>4, <1>5, <1>6, <1>7, <1>8, <1>9, <1>10, <1>11, <1>12 DEF Next

\* Running is saved only when every object has been seen: from the copy that
\* is current, of a component that is ready or comes out of an update.
LEMMA StepRunning ==
  ASSUME TypeInv, Copies, BuiltOnce, kind # "remote-cri", Next,
         cr.state # "Running", cr'.state = "Running"
  PROVE store.objects = Owned
<1>1. ASSUME seen' = seen PROVE store.objects = Owned
  <2>1. Copies' /\ BuiltOnce' /\ kind' = kind
    <3>1. kind' = kind
      BY DEF Next, SaveState, NoteRemoved, StartSync, Rest, Report, Sync, SyncFails,
             Deliver, EditSpec, DeliverObject, PodCreated, PodStarts, PodRemoved,
             PodRestarts, PodChanges, resource
    <3> QED
      BY <3>1, StepCopies
  <2>2. seen.objects = Owned
    BY <1>1, <2>1, SameObjects DEF BuiltOnce, Up
  <2> QED
    BY <2>2, Zenon DEF Copies, TypeInv, TypeOK
<1>2. ASSUME UNCHANGED resource PROVE FALSE
  BY <1>2 DEF resource
<1> QED
  BY <1>1, <1>2
  DEF Next, SaveState, NoteRemoved, StartSync, Rest, Report, Sync, SyncFails,
      Deliver, EditSpec, DeliverObject, PodCreated, PodStarts, PodRemoved,
      PodRestarts, PodChanges

-------------------------------------------------------------------------------
(* Configs.                                                                *)

\* ConfigInv for a component of a cluster.
ConfigFacts ==
  /\ Linked /\ Marked(cr) /\ Marked(cache.status) /\ todo \in Tails
  /\ \A i \in 1..MaxCount : Running(i) => "config" \in store.objects
  /\ ~disturbed => Settled

\* It starts without an update, a pod or a config map.
LEMMA InitConfig == Init => ConfigInv
<1> SUFFICES ASSUME Init, ~remote PROVE ConfigFacts
  BY DEF ConfigInv, ConfigFacts
<1>1. /\ cr.state = "Initializing" /\ cr.update = "None" /\ ~cr.removing /\ ~cr.removed
      /\ cache.status = cr /\ cache.spec = spec /\ todo = <<>>
      /\ store.objects = {} /\ seen.objects = {}
  BY DEF Init, Status
<1>2. \A i \in 1..MaxCount : ~Running(i)
  BY DEF Init, Running, NoPod
<1>3. todo \in Tails
  BY <1>1 DEF Tails
<1>4. Linked /\ Marked(cr) /\ Marked(cache.status)
  BY <1>1 DEF Linked, Marked, Up
<1>5. Settled
  BY <1>1, <1>2 DEF Settled, Holds, Follow
<1> QED
  BY <1>2, <1>3, <1>4, <1>5 DEF ConfigFacts

\* A step that touches none of this.
LEMMA ConfigFrame ==
  ASSUME ConfigFacts,
         UNCHANGED <<kind, spec, cr, cache, store, seen, pods, todo, disturbed>>
  PROVE ConfigFacts'
  BY DEF ConfigFacts, Linked, Marked, Tails, Settled, Holds, Follow, Running, Up

\* A transition saved by a reconciler.
LEMMA SavedConfig ==
  ASSUME TypeInv, Copies, BuiltOnce, ConfigFacts, ~remote, todo = <<>>, fresh,
         cr' = NextStatus(cache), NextStatus(cache) # cache.status,
         UNCHANGED <<kind, spec, cache, store, seen, pods, todo, disturbed>>
  PROVE ConfigFacts'
<1>1. /\ cache.spec = spec /\ cache.status = cr /\ cr \in StatusType
      /\ seen.objects \subseteq store.objects
  BY DEF Copies, TypeInv, TypeOK
<1>2. /\ Follow' = Follow /\ \A c : Holds(c)' = Holds(c)
      /\ (\A i \in 1..MaxCount : Running(i) => "config" \in store.objects)'
      /\ Marked(cache.status)' /\ (todo \in Tails)'
  BY DEF ConfigFacts, Follow, Holds, Running, Marked, Tails
<1>3. SUFFICES Linked' /\ Marked(cr)' /\ (~disturbed => Settled')
  BY <1>2 DEF ConfigFacts
<1>4. kind # "remote-cri" /\ {"workload", "config"} \subseteq Owned
  BY OwnedObjects DEF remote, TypeInv
<1>5. cr.state \in Up => seen.objects = Owned
  BY <1>4 DEF BuiltOnce
<1> USE DEF ConfigFacts
<1>6. CASE cr.state \in {"Initializing", "Reconfiguration"}
  <2>1. doSync(cache) = "Ready" /\ cr' = [cr EXCEPT !.state = "Running"]
    BY <1>1, <1>6, Zenon DEF NextStatus, Marked
  <2>2. cr'.state = "Running" /\ cr'.update = cr.update
        /\ cr'.removing = cr.removing /\ cr'.removed = cr.removed
    BY <1>1, <2>1 DEF StatusType
  <2>3. "config" \in seen.objects
    BY <1>1, <1>4, <1>6, <2>1, ReadyIsBuilt
  <2>4. Linked' /\ Marked(cr)'
    BY <1>1, <1>6, <2>2 DEF Linked, Marked, Up
  <2>5. ~disturbed => Settled'
    BY <1>1, <1>2, <1>6, <2>2, <2>3 DEF Settled, Marked, Holds
  <2> QED
    BY <2>4, <2>5
<1>7. CASE cr.state = "Running" /\ doSync(cache) = "NeedLocalUpdate"
  <2>1. cr' = [cr EXCEPT !.state = "Updating"]
    BY <1>1, <1>7 DEF NextStatus, Marked
  <2>2. cr'.state = "Updating" /\ cr'.update = cr.update
        /\ cr'.removing = cr.removing /\ cr'.removed = cr.removed
    BY <1>1, <2>1 DEF StatusType
  <2>3. Linked' /\ Marked(cr)'
    BY <1>1, <1>7, <2>2 DEF Linked, Marked, Up
  <2>4. ~disturbed => Settled'
    BY <1>1, <1>2, <1>7, <2>2 DEF Settled, Marked
  <2> QED
    BY <2>3, <2>4
<1>8. CASE cr.state = "Running" /\ doSync(cache) # "NeedLocalUpdate"
  <2>1. cr' = [cr EXCEPT !.state = "Reconfiguration"]
    BY <1>1, <1>8 DEF NextStatus, Marked
  <2>2. cr'.state = "Reconfiguration" /\ cr'.update = cr.update
        /\ cr'.removing = cr.removing /\ cr'.removed = cr.removed
    BY <1>1, <2>1 DEF StatusType
  <2>3. seen.config = spec.config
    BY <1>1, <1>5, <1>8 DEF doSync, needUpdate, exists, configNeedsReload, Up
  <2>4. Linked' /\ Marked(cr)'
    BY <1>1, <1>8, <2>2 DEF Linked, Marked, Up
  <2>5. ~disturbed => Settled'
    BY <1>1, <1>2, <1>8, <2>2, <2>3 DEF Settled, Marked, Holds
  <2> QED
    BY <2>4, <2>5
<1>9. CASE cr.state = "Updating"
  <2>1. CASE cr.update \in {"None", "PodsRemoval"}
    <3>1. \/ cr.update = "None" /\ cr' = [cr EXCEPT !.update = "PodsRemoval"]
          \/ cr.removed /\ cr' = [cr EXCEPT !.update = "PodsCreation"]
      BY <1>1, <1>9, <2>1 DEF NextStatus
    <3>2. /\ cr'.state = "Updating" /\ cr'.removing = cr.removing
          /\ cr'.removed = cr.removed
          /\ cr'.update = "PodsRemoval" \/ (cr.removed /\ cr'.update = "PodsCreation")
      BY <1>1, <1>9, <3>1 DEF StatusType
    <3>3. Linked' /\ Marked(cr)'
      BY <1>1, <1>9, <3>2 DEF Linked, Marked, Up
    <3>4. ~disturbed => Settled'
      BY <1>1, <1>2, <1>9, <3>2 DEF Settled
    <3> QED
      BY <3>3, <3>4
  <2>2. CASE cr.update = "PodsCreation"
    <3>1. doSync(cache) = "Ready" /\ cr' = [cr EXCEPT !.state = "UpdateFinishing"]
      BY <1>1, <1>9, <2>2 DEF NextStatus
    <3>2. cr'.state = "UpdateFinishing" /\ cr'.update = cr.update
          /\ cr'.removing = cr.removing /\ cr'.removed = cr.removed
      BY <1>1, <3>1 DEF StatusType
    <3>3. seen.config = spec.config
      BY <1>1, <1>9, <2>2, <3>1 DEF doSync, NeedSync, configNeedsReload
    <3>4. Linked' /\ Marked(cr)'
      BY <1>1, <1>9, <2>2, <3>2 DEF Linked, Marked, Up
    <3>5. ~disturbed => Settled'
      BY <1>1, <1>2, <1>9, <2>2, <3>2, <3>3 DEF Settled, Marked
    <3> QED
      BY <3>4, <3>5
  <2> QED
    BY <1>1, <2>1, <2>2 DEF StatusType
<1>10. CASE cr.state = "UpdateFinishing"
  <2>1. cr' = Status("Running", "None", FALSE, FALSE)
    BY <1>1, <1>10 DEF NextStatus, Marked
  <2>2. Linked' /\ Marked(cr)'
    BY <1>1, <1>10, <2>1 DEF Linked, Marked, Up, Status
  <2>3. ~disturbed => Settled'
    BY <1>1, <1>2, <1>10, <2>1 DEF Settled, Marked, Status
  <2> QED
    BY <2>2, <2>3
<1> QED
  BY <1>6, <1>7, <1>8, <1>9, <1>10 DEF Linked, Up

\* removePods notes that the pods are gone: none of them has an old config.
LEMMA RemovedConfig ==
  ASSUME TypeInv, Copies, BuiltOnce, ConfigFacts, ~remote, fresh,
         doSync(cache) = "Updating", cache.status.removing, arePodsRemoved,
         cr' = [cache.status EXCEPT !.removed = TRUE],
         UNCHANGED <<kind, spec, cache, store, seen, pods, todo, disturbed>>
  PROVE ConfigFacts'
<1>1. cache.spec = spec /\ cache.status = cr /\ cr \in StatusType
  BY DEF Copies, TypeInv, TypeOK
<1>2. /\ Follow' = Follow /\ \A c : Holds(c)' = Holds(c)
      /\ (\A i \in 1..MaxCount : Running(i) => "config" \in store.objects)'
      /\ Marked(cache.status)' /\ (todo \in Tails)'
  BY DEF ConfigFacts, Follow, Holds, Running, Marked, Tails
<1>3. cr.state = "Updating" /\ cr.update = "PodsRemoval"
  BY <1>1 DEF doSync
<1>4. /\ cr'.state = cr.state /\ cr'.update = cr.update
      /\ cr'.removing = cr.removing /\ cr'.removed
  BY <1>1 DEF StatusType
<1>5. "workload" \in seen.objects
  <2>1. kind # "remote-cri" /\ {"workload", "config"} \subseteq Owned
    BY OwnedObjects DEF remote, TypeInv
  <2> QED
    BY <1>3, <2>1 DEF BuiltOnce, Up
<1>6. Follow
  <2>1. Present = {}
    BY <1>5 DEF arePodsRemoved
  <2>2. \A i \in 1..MaxCount : ~Running(i)
    BY <2>1 DEF Present, Running, NoPod
  <2> QED
    BY <2>2 DEF Follow
<1>7. Linked' /\ Marked(cr)'
  BY <1>1, <1>3, <1>4 DEF ConfigFacts, Linked, Marked, Up
<1>8. ~disturbed => Settled'
  BY <1>1, <1>2, <1>3, <1>4, <1>6 DEF ConfigFacts, Settled
<1> QED
  BY <1>2, <1>7, <1>8 DEF ConfigFacts

\* A sync starts only in the states that have one.
LEMMA StartConfig ==
  ASSUME TypeInv, Copies, ConfigFacts, ~remote, StartSync
  PROVE ConfigFacts'
<1>1. /\ todo' = Objects
      /\ UNCHANGED <<kind, spec, cr, cache, store, seen, pods, disturbed>>
      /\ doSync(cache) \in {"Pending", "Updating"} /\ NextStatus(cache) = cache.status
  BY DEF StartSync, resource
<1>2. Objects \in Tails /\ Head(Objects) = "workload"
  <2>1. CASE kind = "microservice"
    BY <2>1 DEF Objects, Tails, microserviceObjects
  <2>2. CASE kind = "server"
    BY <2>2 DEF Objects, Tails, serverObjects
  <2> QED
    BY <2>1, <2>2, ServerAssumption DEF TypeInv, remote
<1>3. cache.status \in StatusType
  BY DEF TypeInv, TypeOK
<1>4. cache.status.state \in {"Initializing", "Reconfiguration", "Updating"}
  <2>1. cache.status.state \in {"Initializing"} \cup Up
    BY DEF ConfigFacts, Linked, Up
  <2>2. cache.status.state # "Running"
    <3>1. ASSUME cache.status.state = "Running" PROVE FALSE
      <4>1. NextStatus(cache) = [cache.status EXCEPT !.state = "Reconfiguration"]
            \/ NextStatus(cache) = [cache.status EXCEPT !.state = "Updating"]
        BY <1>1, <3>1 DEF NextStatus, ConfigFacts, Marked
      <4> QED
        BY <1>1, <1>3, <3>1, <4>1 DEF StatusType
    <3> QED
      BY <3>1
  <2>3. cache.status.state # "UpdateFinishing"
    <3>1. ASSUME cache.status.state = "UpdateFinishing" PROVE FALSE
      <4>1. NextStatus(cache) = Status("Running", "None", FALSE, FALSE)
        BY <3>1 DEF NextStatus, ConfigFacts, Marked
      <4> QED
        BY <1>1, <3>1, <4>1 DEF Status
    <3> QED
      BY <3>1
  <2> QED
    BY <2>1, <2>2, <2>3 DEF Up
<1>5. Linked' /\ Marked(cr)' /\ Marked(cache.status)'
  BY <1>1, <1>4 DEF ConfigFacts, Linked, Marked
<1>6. (todo \in Tails)' /\ (\A i \in 1..MaxCount : Running(i) => "config" \in store.objects)'
  BY <1>1, <1>2, SameObjects DEF ConfigFacts, Running
<1>7. ~disturbed => Settled'
  BY <1>1, <1>2 DEF ConfigFacts, Settled, Holds, Follow, Running
<1> QED
  BY <1>1, <1>5, <1>6, <1>7 DEF ConfigFacts

\* The informer of the resource.
LEMMA DeliverConfig ==
  ASSUME TypeInv, Copies, ConfigFacts, ~remote, Deliver
  PROVE ConfigFacts'
<1>1. /\ todo = <<>> /\ cache'.spec = spec /\ cache'.status = cr
      /\ UNCHANGED <<kind, spec, cr, store, seen, pods, todo, disturbed>>
  BY DEF Deliver
<1>2. Linked' /\ Marked(cr)' /\ Marked(cache.status)'
  BY <1>1 DEF ConfigFacts, Linked, Marked, Up
<1>3. (todo \in Tails)' /\ (\A i \in 1..MaxCount : Running(i) => "config" \in store.objects)'
  BY <1>1, SameObjects DEF ConfigFacts, Running
<1>4. ~disturbed => Settled'
  BY <1>1 DEF ConfigFacts, Settled, Holds, Follow, Running
<1> QED
  BY <1>1, <1>2, <1>3, <1>4 DEF ConfigFacts

\* The user: an edit outside Running disturbs.
LEMMA EditConfig ==
  ASSUME TypeInv, ConfigFacts, ~remote, EditSpec
  PROVE ConfigFacts'
<1>1. UNCHANGED <<kind, cr, cache, store, seen, pods, todo>>
      /\ (~disturbed' => cr.state = "Running" /\ ~disturbed)
  BY Zenon DEF EditSpec
<1>2. Linked' /\ Marked(cr)' /\ Marked(cache.status)'
  BY <1>1 DEF ConfigFacts, Linked, Marked
<1>3. (todo \in Tails)' /\ (\A i \in 1..MaxCount : Running(i) => "config" \in store.objects)'
  BY <1>1, SameObjects DEF ConfigFacts, Running
<1>4. ~disturbed' => Settled'
  BY <1>1 DEF ConfigFacts, Settled, Holds, Follow, Running, Linked, Marked
<1> QED
  BY <1>2, <1>3, <1>4 DEF ConfigFacts

\* The informers of the objects.
LEMMA DeliverObjectConfig ==
  ASSUME TypeInv, Copies, ConfigFacts, ~remote, NEW o, DeliverObject(o)
  PROVE ConfigFacts'
<1>1. /\ todo = <<>>
      /\ UNCHANGED <<kind, spec, cr, cache, store, pods, todo, disturbed>>
  BY DEF DeliverObject, resource
<1>2. /\ seen'.config = (IF o = "config" THEN store.config ELSE seen.config)
      /\ "config" \in seen'.objects =>
           "config" \in seen.objects \/ (o = "config" /\ "config" \in store.objects)
  BY DEF DeliverObject, With
<1>3. Linked' /\ Marked(cr)' /\ Marked(cache.status)'
  BY <1>1 DEF ConfigFacts, Linked, Marked
<1>4. (todo \in Tails)' /\ (\A i \in 1..MaxCount : Running(i) => "config" \in store.objects)'
  BY <1>1, SameObjects DEF ConfigFacts, Running
<1>5. Follow' = Follow /\ \A c : Holds(c) => Holds(c)'
  BY <1>1, <1>2 DEF Follow, Running, Holds, Copies
<1>6. \/ seen'.config = seen.config \/ seen'.config = store.config
  BY <1>2
<1>7. ~disturbed => Settled'
  <2> SUFFICES ASSUME Settled PROVE Settled'
    BY DEF ConfigFacts
  <2>1. /\ cr'.state = cr.state /\ cr'.removing = cr.removing /\ cr'.removed = cr.removed
        /\ cache'.spec = cache.spec /\ cache'.status = cache.status /\ spec' = spec
        /\ store'.config = store.config /\ todo' = <<>>
    BY <1>1
  <2> QED
    BY <1>5, <1>6, <2>1 DEF Settled
<1> QED
  BY <1>1, <1>3, <1>4, <1>7 DEF ConfigFacts

\* A sync that stops.
LEMMA StopConfig ==
  ASSUME ConfigFacts, todo' = <<>>,
         UNCHANGED <<kind, spec, cr, cache, store, seen, pods, disturbed>>
  PROVE ConfigFacts'
<1>1. Linked' /\ Marked(cr)' /\ Marked(cache.status)'
  BY DEF ConfigFacts, Linked, Marked
<1>2. (todo \in Tails)' /\ (\A i \in 1..MaxCount : Running(i) => "config" \in store.objects)'
  BY DEF ConfigFacts, Running, Tails
<1>3. ~disturbed => Settled'
  BY DEF ConfigFacts, Settled, Holds, Follow, Running
<1> QED
  BY <1>1, <1>2, <1>3 DEF ConfigFacts

\* The order of a sync: the config map follows the workload, services follow it.
LEMMA NextObject ==
  ASSUME todo \in Tails, todo # <<>>
  PROVE /\ Tail(todo) \in Tails /\ Head(todo) \in {"workload", "config"} \cup Services
        /\ Head(todo) = "workload" =>
             Tail(todo) # <<>> /\ Head(Tail(todo)) = "config"
        /\ Head(todo) = "config" => Tail(todo) # <<>>
<1> USE DEF Tails, Services
<1>1. CASE kind = "microservice"
  <2>1. CASE todo = <<"workload", "config", "service">>
    <3>1. Head(todo) = "workload" /\ Tail(todo) = <<"config", "service">>
      BY <2>1
    <3> QED
      BY <1>1, <3>1
  <2>2. CASE todo = <<"config", "service">>
    <3>1. Head(todo) = "config" /\ Tail(todo) = <<"service">>
      BY <2>2
    <3> QED
      BY <1>1, <3>1
  <2>3. CASE todo = <<"service">>
    <3>1. Head(todo) = "service" /\ Tail(todo) = <<>>
      BY <2>3
    <3> QED
      BY <1>1, <3>1
  <2> QED
    BY <1>1, <2>1, <2>2, <2>3
<1>2. CASE kind # "microservice"
  <2>1. CASE todo = <<"workload", "config", "headless", "monitoring">>
    <3>1. Head(todo) = "workload" /\ Tail(todo) = <<"config", "headless", "monitoring">>
      BY <2>1
    <3> QED
      BY <1>2, <3>1
  <2>2. CASE todo = <<"config", "headless", "monitoring">>
    <3>1. Head(todo) = "config" /\ Tail(todo) = <<"headless", "monitoring">>
      BY <2>2
    <3> QED
      BY <1>2, <3>1
  <2>3. CASE todo = <<"headless", "monitoring">>
    <3>1. Head(todo) = "headless" /\ Tail(todo) = <<"monitoring">>
      BY <2>3
    <3> QED
      BY <1>2, <3>1
  <2>4. CASE todo = <<"monitoring">>
    <3>1. Head(todo) = "monitoring" /\ Tail(todo) = <<>>
      BY <2>4
    <3> QED
      BY <1>2, <3>1
  <2> QED
    BY <1>2, <2>1, <2>2, <2>3, <2>4
<1> QED
  BY <1>1, <1>2

\* An object of a component is written.
LEMMA WriteConfig ==
  ASSUME TypeInv, Copies, BuiltOnce, ConfigFacts, ~remote, todo # <<>>,
         Skipped(Head(todo)) \/ SyncObject(Head(todo)),
         store' = (IF Skipped(Head(todo)) THEN store ELSE With(store, Built, Head(todo))),
         todo' = Tail(todo),
         IF Tail(todo) = <<>> THEN UpdateStatus(Synced) ELSE UNCHANGED <<cr, fresh>>,
         UNCHANGED <<kind, spec, cache, seen, pods, disturbed>>
  PROVE ConfigFacts'
<1> DEFINE o == Head(todo)
<1>1. /\ Tail(todo) \in Tails /\ o \in {"workload", "config"} \cup Services
      /\ o = "workload" => Tail(todo) # <<>> /\ Head(Tail(todo)) = "config"
      /\ o = "config" => Tail(todo) # <<>>
  BY NextObject DEF ConfigFacts
<1>2. cache.status.state \in {"Initializing", "Reconfiguration", "Updating"}
  BY DEF ConfigFacts, Linked
<1>3. /\ store'.config = (IF o = "config" /\ ~Skipped(o) THEN cache.spec.config
                                                        ELSE store.config)
      /\ store.objects \subseteq store'.objects
      /\ "config" \in store'.objects => "config" \in store.objects \/ o = "config"
  BY ObjectsGrow DEF With, Built
<1>4. Skipped("config") => seen.config = cache.spec.config /\ "config" \in seen.objects
  BY DEF Skipped, configNeedsReload
<1>5. o = "config" /\ ~Skipped(o) =>
        ("config" \in seen.objects <=> "config" \in store.objects)
        /\ seen.config = store.config
  BY DEF SyncObject, Part
<1>6. /\ cr'.state = cr.state /\ cr'.update = cr.update /\ cr'.removed = cr.removed
      /\ \/ cr'.removing = cr.removing
         \/ /\ cr'.removing /\ cache.status.state = "Updating"
            /\ o \in Services /\ cr.state = "Updating"
  <2>1. CASE UNCHANGED <<cr, fresh>>
    BY <2>1
  <2>2. CASE Tail(todo) = <<>> /\ fresh /\ Synced # cr /\ cr' = Synced
    <3>1. cache.status = cr /\ cr \in StatusType
      BY <2>2 DEF Copies, TypeInv, TypeOK
    <3>2. removes /\ cr' = [cr EXCEPT !.removing = TRUE]
      BY <2>2, <3>1 DEF Synced
    <3>3. cr.state = "Updating"
      BY <3>1, <3>2 DEF removes, doSync
    <3>4. o \in Services
      BY <1>1, <2>2
    <3> QED
      BY <3>1, <3>2, <3>3, <3>4, Zenon DEF StatusType
  <2> QED
    BY <2>1, <2>2 DEF UpdateStatus
<1>7. Linked'
  BY <1>2, <1>6 DEF ConfigFacts, Linked
<1>8. Marked(cr)' /\ Marked(cache.status)'
  BY <1>6 DEF ConfigFacts, Marked
<1>9. (todo \in Tails)' /\ (\A i \in 1..MaxCount : Running(i) => "config" \in store.objects)'
  BY <1>1, <1>3, SameObjects DEF ConfigFacts, Running
<1>10. ~disturbed => Settled'
  <2> SUFFICES ASSUME ~disturbed PROVE Settled'
    OBVIOUS
  <2> HIDE DEF o
  <2>1. Settled /\ Linked /\ Marked(cr)
        /\ \A i \in 1..MaxCount : Running(i) => "config" \in store.objects
    BY DEF ConfigFacts
  <2>2. cr.state # "Running" => cache.spec = spec
    BY <2>1 DEF Settled
  <2>3. seen.objects \subseteq store.objects
    BY DEF Copies
  <2>4. Holds(cache.spec.config) => Holds(cache.spec.config)'
    BY <1>3, <1>4, <2>3 DEF Holds
  <2>5. cr.state \in {"Initializing", "Reconfiguration"} => Holds(spec.config)'
    <3>1. cr.state \in {"Initializing", "Reconfiguration"} => Holds(cache.spec.config)
      BY <2>1, <2>2 DEF Settled
    <3> QED
      BY <2>2, <2>4, <3>1 DEF Holds
  <2>6. cache.status.state \in {"Initializing", "Reconfiguration"} =>
          Holds(cache.spec.config)'
    BY <2>1, <2>4 DEF Settled
  <2>7. cr.state \in {"Running", "UpdateFinishing"} => store'.config = seen.config
    <3>1. CASE cr.state = "Running"
      <4>1. Holds(cache.spec.config)
        BY <1>2, <2>1, <3>1 DEF Settled, Linked
      <4>2. store.config = seen.config
        BY <2>1, <3>1 DEF Settled
      <4>3. "config" \in seen.objects
        <5>1. kind # "remote-cri" /\ {"workload", "config"} \subseteq Owned
          BY OwnedObjects DEF remote, TypeInv
        <5> QED
          BY <3>1, <5>1 DEF BuiltOnce, Up
      <4> QED
        BY <1>3, <4>1, <4>2, <4>3 DEF Holds
    <3>2. CASE cr.state = "UpdateFinishing"
      <4>1. cr.removing
        BY <2>1, <3>2 DEF Marked
      <4> QED
        BY <1>3, <2>1, <2>2, <3>2, <4>1 DEF Settled
    <3> QED
      BY <3>1, <3>2
  <2>8. cr.state = "Updating" => store'.config \in {seen.config, spec.config}
    BY <1>3, <2>1, <2>2 DEF Settled
  <2>9. cr.removing => store'.config = spec.config
    BY <1>3, <2>1, <2>2 DEF Settled, Marked
  <2>10. cache.status.state = "Updating" /\ o \in Services => store'.config = spec.config
    <3>1. o \in Services => o \notin {"workload", "config"}
      BY DEF Services
    <3> QED
      BY <1>3, <2>1, <3>1 DEF Settled, o
  <2>11. cr'.removing => store'.config = spec.config
    BY <1>6, <2>9, <2>10, Zenon
  <2>12. cache.status.state = "Updating" /\ todo' # <<>>
           /\ Head(todo') \notin {"workload", "config"} => store'.config = spec.config
    <3>1. ASSUME cache.status.state = "Updating", todo' # <<>>,
                 Head(todo') \notin {"workload", "config"}
          PROVE store'.config = spec.config
      <4>1. cr.state \in {"Updating", "UpdateFinishing"}
        BY <2>1, <3>1 DEF Linked, Up
      <4>2. cache.spec = spec
        BY <2>2, <4>1
      <4>3. CASE o = "config" /\ ~Skipped(o)
        BY <1>3, <4>2, <4>3
      <4>4. CASE o = "config" /\ Skipped(o)
        <5>1. seen.config = spec.config
          BY <1>4, <4>2, <4>4
        <5>2. store.config = spec.config
          BY <2>1, <4>1, <5>1 DEF Settled
        <5> QED
          BY <1>3, <4>4, <5>2
      <4>5. CASE o \in Services
        BY <2>10, <3>1, <4>5
      <4>6. o # "workload"
        BY <1>1, <3>1
      <4> QED
        BY <1>1, <4>3, <4>4, <4>5, <4>6
    <3> QED
      BY <3>1
  <2>13. cr.state \in {"Initializing", "Reconfiguration", "Running"} \/ cr.removed =>
           Follow'
    <3> SUFFICES ASSUME cr.state \in {"Initializing", "Reconfiguration", "Running"}
                        \/ cr.removed
                 PROVE Follow'
      OBVIOUS
    <3>1. Follow
      BY <2>1 DEF Settled
    <3>2. "config" \in store.objects => store'.config = store.config
      <4>1. CASE cr.state \in {"Initializing", "Reconfiguration", "Running"}
        <5>1. Holds(cache.spec.config)
          BY <1>2, <2>1, <4>1 DEF Settled, Linked
        <5> QED
          BY <1>3, <5>1 DEF Holds
      <4>2. CASE cr.removed
        <5>1. cr.removing
          BY <2>1, <4>2 DEF Marked
        <5> QED
          BY <2>1, <2>9, <5>1 DEF Settled
      <4> QED
        BY <4>1, <4>2
    <3> QED
      BY <2>1, <3>1, <3>2 DEF Follow, Running
  <2> QED
    BY <1>6, <2>2, <2>5, <2>6, <2>7, <2>8, <2>11, <2>12, <2>13 DEF Settled
<1> QED
  BY <1>7, <1>8, <1>9, <1>10 DEF ConfigFacts

\* Pods come and go: one that starts reads the config map as it is.
LEMMA PodConfig ==
  ASSUME TypeInv, ConfigFacts, NEW i \in 1..MaxCount, NEW pod, PodChanges(i, pod),
         pod.config # 0 => /\ pod.config = store.config
                           /\ "config" \in store.objects
  PROVE ConfigFacts'
<1>1. /\ UNCHANGED <<kind, spec, cr, cache, store, seen, todo, disturbed>>
      /\ pods' = [pods EXCEPT ![i] = pod]
  BY DEF PodChanges, resource
<1>2. \A k \in 1..MaxCount : pods'[k] = (IF k = i THEN pod ELSE pods[k])
  BY <1>1 DEF TypeInv, TypeOK
<1>3. (\A k \in 1..MaxCount : Running(k) => "config" \in store.objects)'
  BY <1>1, <1>2 DEF ConfigFacts, Running
<1>4. Linked' /\ Marked(cr)' /\ Marked(cache.status)' /\ (todo \in Tails)'
  BY <1>1, SameObjects DEF ConfigFacts, Linked, Marked
<1>5. Follow => Follow'
  BY <1>1, <1>2 DEF Follow, Running
<1>6. ~disturbed => Settled'
  BY <1>1, <1>5 DEF ConfigFacts, Settled, Holds
<1> QED
  BY <1>1, <1>3, <1>4, <1>6 DEF ConfigFacts

\* Every step keeps the configs in place.
LEMMA StepConfig ==
  ASSUME TypeInv, Copies, BuiltOnce, ConfigInv, [Next]_vars
  PROVE ConfigInv'
<1>1. kind' = kind
  BY DEF Next, SaveState, NoteRemoved, StartSync, Rest, Report, Sync, SyncFails,
         Deliver, EditSpec, DeliverObject, PodCreated, PodStarts, PodRemoved,
         PodRestarts, PodChanges, resource, vars
<1> SUFFICES ASSUME ~remote PROVE ConfigFacts'
  BY <1>1, SameObjects DEF ConfigInv, ConfigFacts
<1>2. ConfigFacts
  BY DEF ConfigInv, ConfigFacts
<1> USE DEF resource, bounds
<1>3. CASE SaveState
  <2>1. CASE UNCHANGED <<cr, fresh>>
    BY <1>2, <1>3, <2>1, ConfigFrame DEF SaveState
  <2>2. CASE fresh /\ cr' = NextStatus(cache)
    BY <1>2, <1>3, <2>2, SavedConfig DEF SaveState
  <2> QED
    BY <1>3, <2>1, <2>2 DEF SaveState, UpdateStatus
<1>4. CASE NoteRemoved
  <2>1. CASE UNCHANGED <<cr, fresh>>
    BY <1>2, <1>4, <2>1, ConfigFrame DEF NoteRemoved
  <2>2. CASE fresh /\ cr' = [cache.status EXCEPT !.removed = TRUE]
    BY <1>2, <1>4, <2>2, RemovedConfig DEF NoteRemoved
  <2> QED
    BY <1>4, <2>1, <2>2 DEF NoteRemoved, UpdateStatus
<1>5. CASE StartSync
  BY <1>2, <1>5, StartConfig
<1>6. CASE Sync
  <2>1. CASE Skipped(Head(todo)) \/ SyncObject(Head(todo))
    BY <1>2, <1>6, <2>1, WriteConfig DEF Sync
  <2>2. CASE ~(Skipped(Head(todo)) \/ SyncObject(Head(todo)))
    BY <1>2, <1>6, <2>2, StopConfig DEF Sync
  <2> QED
    BY <2>1, <2>2
<1>7. CASE SyncFails
  BY <1>2, <1>7, StopConfig DEF SyncFails
<1>8. CASE Deliver
  BY <1>2, <1>8, DeliverConfig
<1>9. CASE EditSpec
  BY <1>2, <1>9, EditConfig
<1>10. ASSUME NEW o, DeliverObject(o) PROVE ConfigFacts'
  BY <1>2, <1>10, DeliverObjectConfig
<1>11. CASE Rest \/ Report \/ UNCHANGED vars
  BY <1>2, <1>11, ConfigFrame DEF Rest, Report, vars
<1>12. ASSUME NEW i \in 1..MaxCount,
              PodCreated(i) \/ PodStarts(i) \/ PodRemoved(i) \/ PodRestarts(i)
       PROVE ConfigFacts'
  <2>1. pods[i] \in [image : 0..MaxVersion, config : 0..MaxVersion]
    BY DEF TypeInv, TypeOK
  <2>2. CASE PodCreated(i)
    BY <1>2, <2>2, PodConfig DEF PodCreated
  <2>3. CASE PodStarts(i)
    <3>1. [pods[i] EXCEPT !.config = store.config].config = store.config
      BY <2>1
    <3> QED
      BY <1>2, <2>3, <3>1, PodConfig, Zenon DEF PodStarts
  <2>4. CASE PodRemoved(i)
    BY <1>2, <2>4, PodConfig DEF PodRemoved, NoPod
  <2>5. CASE PodRestarts(i)
    <3>1. [pods[i] EXCEPT !.config = 0].config = 0
      BY <2>1
    <3> QED
      BY <1>2, <2>5, <3>1, PodConfig, Zenon DEF PodRestarts
  <2> QED
    BY <1>12, <2>2, <2>3, <2>4, <2>5
<1> QED
  BY <1>3, <1>4, <1>5, <1>6, <1>7, <1>8, <1>9, <1>10, <1>11, <1>12 DEF Next

-------------------------------------------------------------------------------
(* The theorems.                                                           *)

\* The invariant holds in every behaviour.
LEMMA AlwaysInvariant == Spec => []ServerInvariant
<1>1. Init => ServerInvariant
  BY InitTyped, InitCopies, InitConfig DEF ServerInvariant
<1>2. ServerInvariant /\ [Next]_vars => ServerInvariant'
  BY StepTyped, StepCopies, StepConfig DEF ServerInvariant
<1> QED
  BY <1>1, <1>2, PTL DEF Spec

\* Types are kept, for any versions, counts, edits and faults.
THEOREM TypeCorrect == Spec => []TypeOK
<1>1. ServerInvariant => TypeOK
  BY DEF ServerInvariant, TypeInv
<1> QED
  BY <1>1, AlwaysInvariant, PTL

\* No component is reported as Running with part of its objects missing,
\* wherever a sync stopped and however old the copies are.  Remote exec nodes
\* with a CRI sidecar are the exception: NeedSync does not look at the config
\* map of the sidecar.
THEOREM RunningIsBuilt ==
  ASSUME "remote-cri" \notin Kinds
  PROVE Spec => RunningMeansBuilt
<1>1. ServerInvariant /\ [Next]_vars =>
        [cr.state # "Running" /\ cr'.state = "Running" => store.objects = Owned]_vars
  <2>1. ServerInvariant => kind # "remote-cri"
    BY DEF ServerInvariant, TypeInv
  <2> QED
    BY <2>1, StepRunning DEF ServerInvariant
<1> QED
  BY <1>1, AlwaysInvariant, PTL DEF Spec, RunningMeansBuilt

\* The pods of a running cluster have read the config map as it is, although
\* nothing compares the two: ConfigHelper.Sync rewrites the map only before
\* the first pod or in an update that has removed the pods that read it.
THEOREM PodsRunTheirConfig == Spec => []PodsFollowConfig
<1>1. ServerInvariant => PodsFollowConfig
  BY DEF ServerInvariant, ConfigInv, Settled, Follow, PodsFollowConfig
<1> QED
  BY <1>1, AlwaysInvariant, PTL
===============================================================================
