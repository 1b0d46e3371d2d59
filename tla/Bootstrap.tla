------------------------------- MODULE Bootstrap -------------------------------
(***************************************************************************)
(* How a cluster comes up: every kind of component with the gates of its   *)
(* doSync outside an update, the component manager that walks them, the    *)
(* init jobs, and the states Created, Initializing, Running and            *)
(* Reconfiguration of the cluster.                                         *)
(*                                                                         *)
(* A gate is a check that doSync makes in order; the first one that does   *)
(* not hold gives the component its status and, in a sync that is not dry, *)
(* the one thing the sync does.                                            *)
(***************************************************************************)
EXTENDS Naturals, Sequences

CONSTANTS
  Specs,      \* the specs a cluster is created with: sets of optional components
  Edits,      \* the edits the user may make: pairs of specs
  Prompt,     \* bound: the components whose pods run as soon as they are created
  MaxEdits,   \* bound on edits of the spec
  MaxFaults   \* bound on failed reconciles and on pods that fail

Always == {"Discovery", "Master", "Client", "HttpProxy"}

Optional == {"DataNode", "UI", "RpcProxy", "TcpProxy", "ExecNode",
             "TabletNode", "Scheduler", "ControllerAgent", "QueryTracker",
             "QueueAgent", "YqlAgent", "Strawberry", "MasterCache"}

Components == Always \cup Optional

ASSUME SpecsAssumption == /\ Specs \subseteq SUBSET Optional
                          /\ Edits \subseteq (SUBSET Optional) \X SUBSET Optional
                          /\ Prompt \subseteq Components
                          /\ MaxEdits \in Nat /\ MaxFaults \in Nat

Jobs == {"master", "client", "archivarius", "op-archive", "qt-state",
         "qa-state", "yql", "ui", "strawberry-user", "strawberry-cluster"}

InitConditions == {"bundles", "queryTracker", "queueAgent"}

Conditions == Jobs \cup InitConditions

Kinds == {"workload", "server", "balancer", "secret"}

\* What the jobs and the operator leave in Cypress.
Facts == {"schema", "operator", "archivarius", "archive", "query_tracker",
          "queries", "queue_agent", "queues", "yql", "ui", "strawberry",
          "chyt", "bundles", "connection.qt", "connection.qa"}

-------------------------------------------------------------------------------
(* The components: the gates of each doSync.                               *)

\* A gate and what it is on.
Gate == [gate : {"wait", "object", "pods", "job", "client", "condition", "none"},
         on : Components \cup Kinds \cup Conditions
              \cup {"statefulset", "deployment", "none"}]

Waits(d) == [gate |-> "wait", on |-> d]
Object(o) == [gate |-> "object", on |-> o]
Pods == [gate |-> "pods", on |-> "statefulset"]
Available == [gate |-> "pods", on |-> "deployment"]
Job(j) == [gate |-> "job", on |-> j]
ClientReady(unless) == [gate |-> "client", on |-> unless]
Condition(x) == [gate |-> "condition", on |-> x]
Passed == [gate |-> "none", on |-> "none"]

Discovery == <<Object("server"), Pods>>

MasterCache == <<Object("server"), Pods>>

Master == <<Object("server"), Pods, Job("master")>>

Client == <<Waits("HttpProxy"), Object("secret"), Job("client")>>

DataNode == <<Waits("Master"), Object("server"), Pods>>

ExecNode == <<Waits("Master"), Object("server"), Pods>>

ControllerAgent == <<Waits("Master"), Object("server"), Pods>>

HttpProxy == <<Waits("Master"), Object("server"), Object("balancer"), Pods>>

RpcProxy == <<Waits("Master"), Object("server"), Object("balancer"), Pods>>

\* A TCP proxy whose spec names no service type has no balancing service.
TcpProxy == <<Waits("Master"), Object("server"), Pods>>

\* The client is not asked for once the bundles have been initialised.
TabletNode == <<Object("server"), Pods, ClientReady("bundles"),
                Condition("bundles")>>

\* Mutant: the archive does not wait for the tablet nodes.
archiveAtOnce == <<Job("archivarius"), Job("op-archive")>>

\* The operations archive is only initialised if there are tablet nodes.
initOpArchive == <<Job("archivarius"), Waits("TabletNode"), Job("op-archive")>>

Scheduler(S) ==
  <<Waits("Master"), Waits("ExecNode"), Object("secret"), Object("server"),
    Pods>> \o (IF "TabletNode" \in S THEN initOpArchive ELSE <<>>)

QueryTracker == <<Object("secret"), Object("server"), Pods,
                  Waits("TabletNode"), Job("qt-state"),
                  Condition("queryTracker")>>

QueueAgent == <<Waits("Master"), Waits("TabletNode"), Object("secret"),
                Object("server"), Pods, ClientReady("none"), Job("qa-state"),
                Condition("queueAgent")>>

YqlAgent == <<Waits("Master"), Object("secret"), Object("server"), Pods,
              Job("yql")>>

UI == <<Waits("Master"), Object("secret"), Job("ui"), Object("server"),
        Available>>

Strawberry == <<Waits("Master"), Waits("Scheduler"), Waits("DataNode"),
                Object("secret"), Job("strawberry-user"),
                Job("strawberry-cluster"), Object("server")>>

Plain == [Discovery |-> Discovery, Master |-> Master, Client |-> Client,
          DataNode |-> DataNode, HttpProxy |-> HttpProxy, UI |-> UI,
          RpcProxy |-> RpcProxy, TcpProxy |-> TcpProxy, ExecNode |-> ExecNode,
          TabletNode |-> TabletNode, ControllerAgent |-> ControllerAgent,
          QueryTracker |-> QueryTracker, QueueAgent |-> QueueAgent,
          YqlAgent |-> YqlAgent, Strawberry |-> Strawberry,
          MasterCache |-> MasterCache]

Gates(c, S) == IF c = "Scheduler" THEN Scheduler(S) ELSE Plain[c]

\* The order in which the component manager appends the components.
Order == <<"Discovery", "Master", "Client", "DataNode", "HttpProxy", "UI",
           "RpcProxy", "TcpProxy", "ExecNode", "TabletNode", "Scheduler",
           "ControllerAgent", "QueryTracker", "QueueAgent", "YqlAgent",
           "Strawberry", "MasterCache">>

\* A query tracker, a queue agent and a strawberry controller are left out
\* when what they need is not in the spec.
Members(S) ==
  Always \cup {c \in S :
                 /\ c = "QueryTracker" => {"Scheduler", "TabletNode"} \subseteq S
                 /\ c = "QueueAgent" => "TabletNode" \in S
                 /\ c = "Strawberry" => "Scheduler" \in S}

-------------------------------------------------------------------------------
(* The init scripts: what a script needs to succeed and what it leaves.    *)

\* The tables of the archive, of the query tracker and of the queue agent
\* live in the sys bundle; their jobs, and the one that sets up CHYT,
\* authenticate as the user of their component.
Needs(j) ==
  CASE j = "master" -> {}
    [] j = "op-archive" -> {"schema", "archivarius", "bundles"}
    [] j = "qt-state" -> {"schema", "query_tracker", "bundles"}
    [] j = "qa-state" -> {"schema", "queue_agent", "bundles"}
    [] j = "strawberry-cluster" -> {"schema", "strawberry"}
    [] OTHER -> {"schema"}

\* The masters' script makes groups, schema ACLs, pool trees, the admin user
\* and media; the others make a user each, tables or configurations.
createMasterInitScript == {"schema"}
createClientUserScript == {"operator"}
createSchedulerUserScript == {"archivarius"}
prepareInitOperationsArchive == {"archive"}
prepareInitQueryTrackerState == {"queries"}
prepareInitQueueAgentState == {"queues"}
createYqlInitScript == {"yql"}
createUIInitScript == {"ui"}
createInitUserAndUrlScript == {"strawberry"}
createInitChytClusterScript == {"chyt"}

Leaves(j) ==
  CASE j = "master" -> createMasterInitScript
    [] j = "client" -> createClientUserScript
    [] j = "archivarius" -> createSchedulerUserScript
    [] j = "op-archive" -> prepareInitOperationsArchive
    [] j = "qt-state" -> prepareInitQueryTrackerState
    [] j = "qa-state" -> prepareInitQueueAgentState
    [] j = "yql" -> createYqlInitScript
    [] j = "ui" -> createUIInitScript
    [] j = "strawberry-user" -> createInitUserAndUrlScript
    [] j = "strawberry-cluster" -> createInitChytClusterScript

\* What the operator itself writes through its client: for the query tracker
\* the user and the registration before the job is looked at, for the queue
\* agent the user before and the registration after.
initBundles == {"bundles"}
createQueryTrackerUser == {"query_tracker"}
initQueryTracker == {"connection.qt"}
createQueueAgentUser == {"queue_agent"}
initQueueAgent == {"connection.qa"}

VARIABLES
  spec,     \* the optional components in the stored spec
  cr,       \* the stored status: state of the cluster and true conditions
  cache,    \* the informer's copy of spec and status
  fresh,    \* the cache holds the stored resource version
  objects,  \* the objects that exist, as pairs of kind and component
  pods,     \* the pods of each component
  job,      \* each init job
  cypress,  \* what has been written in YTsaurus
  edits, faults

vars == <<spec, cr, cache, fresh, objects, pods, job, cypress, edits, faults>>

PodState == {"none", "starting", "ready"}
JobState == {"none", "active", "done"}
ClusterState == {"Created", "Initializing", "Running", "Reconfiguration"}

Init ==
  /\ spec \in Specs
  /\ cr = [state |-> "Created", conditions |-> {}]
  /\ cache = [spec |-> spec, state |-> "Created", conditions |-> {}]
  /\ fresh = TRUE
  /\ objects = {} /\ cypress = {}
  /\ pods = [c \in Components |-> "none"]
  /\ job = [j \in Jobs |-> "none"]
  /\ edits = 0 /\ faults = 0

-------------------------------------------------------------------------------
(* doSync                                                                  *)

\* A server whose pods cannot be listed yet counts as ready, a deployment
\* does not.
arePodsReady(c, workload) ==
  IF workload = "deployment" THEN pods[c] = "ready" ELSE pods[c] # "starting"

\* at[d] is the gate at which dependency d stands.  Objects are looked at as
\* they were fetched: the variables keep their values during a reconcile.
Holds(v, at, c, g) ==
  CASE g.gate = "wait" -> g.on \in Members(v.spec) => at[g.on] = Passed
    [] g.gate = "object" -> <<g.on, c>> \in objects
    [] g.gate = "pods" -> arePodsReady(c, g.on)
    [] g.gate = "client" -> \/ g.on \in v.conditions
                            \/ at["Client"] = Passed
    [] OTHER -> g.on \in v.conditions

\* The first gate of c that does not hold.
Standing(v, at, c) ==
  LET first[gates \in Seq(Gate)] ==
        IF gates = <<>> THEN Passed
        ELSE IF Holds(v, at, c, Head(gates)) THEN first[Tail(gates)]
        ELSE Head(gates)
  IN first[Gates(c, v.spec)]

\* The gate at which each component of resource v stands.
doSync(v) == LET at[c \in Members(v.spec)] == Standing(v, at, c) IN at

\* The sync status of a component that stands at gate g.
SyncStatus(g) ==
  CASE g.gate = "none" -> "Ready"
    [] g.gate \in {"wait", "client"} -> "Blocked"
    [] g.gate = "pods" -> IF g.on = "deployment" THEN "Pending" ELSE "Blocked"
    [] g.gate = "job" -> IF job[g.on] = "active" THEN "Blocked" ELSE "Pending"
    [] OTHER -> "Pending"

\* Mutant: a component that only waits for something to be done is overlooked.
needUnblock(v) == \E c \in Members(v.spec) : SyncStatus(doSync(v)[c]) = "Blocked"

\* No component needs an update here: needSync and needInit both say that
\* some component is not ready.
needSync(v) == \E c \in Members(v.spec) : SyncStatus(doSync(v)[c]) # "Ready"

\* What the sync of c at gate g writes through the client, and the
\* conditions it sets once the calls have succeeded.
Writes(c, g) ==
  CASE c = "TabletNode" /\ g.gate = "condition" -> initBundles
    [] c = "QueryTracker" /\ g.gate \in {"job", "condition"} ->
         createQueryTrackerUser \cup initQueryTracker
    [] c = "QueueAgent" /\ g.gate = "job" -> createQueueAgentUser
    [] c = "QueueAgent" /\ g.gate = "condition" ->
         createQueueAgentUser \cup initQueueAgent
    [] OTHER -> {}

\* Mutant: the queue agent's condition is set with its job, before it is
\* registered.
SetsAtOnce(c, g) ==
  CASE c \in {"QueryTracker", "QueueAgent"} /\ g.gate = "job" ->
         {IF c = "QueueAgent" THEN "queueAgent" ELSE "queryTracker"}
    [] g.gate = "condition" -> {g.on}
    [] OTHER -> {}

Sets(c, g) ==
  CASE c = "QueryTracker" /\ g.gate = "job" -> {"queryTracker"}
    [] g.gate = "condition" -> {g.on}
    [] OTHER -> {}

\* Mutant: a job completes while it runs.
CompletedActive(g) == IF g.gate = "job" /\ job[g.on] = "active" THEN {g.on} ELSE {}

\* InitJob.Sync creates the job, or records that it has completed.
Starts(g) == IF g.gate = "job" /\ job[g.on] = "none" THEN {g.on} ELSE {}
Completed(g) == IF g.gate = "job" /\ job[g.on] = "done" THEN {g.on} ELSE {}

\* A server is made of its workload and, created after it, the rest.
Creates(c, g) ==
  IF g.gate # "object" THEN {}
  ELSE {<<g.on, c>>} \cup (IF g.on = "server" THEN {<<"workload", c>>} ELSE {})

\* The client of the operator talks to the HTTP proxies, as its own user.
Callable == /\ pods["Master"] = "ready" /\ pods["HttpProxy"] = "ready"
            /\ "operator" \in cypress

-------------------------------------------------------------------------------
(* The component manager                                                   *)

\* A walk in progress: the copy of the resource, what has been done so far,
\* and whether an error has ended it.
Begin(v) == [v |-> v, objects |-> {}, jobs |-> {}, facts |-> {},
             failed |-> FALSE]

\* The query tracker returns early when the client has not been built yet.
Visit(w, c) ==
  LET g == doSync(w.v)[c]
      calls == Writes(c, g) # {}
      noClient == c = "QueryTracker" /\ doSync(w.v)["Client"] # Passed
  IN IF w.failed \/ SyncStatus(g) # "Pending" \/ (calls /\ noClient) THEN w
     ELSE IF calls /\ ~Callable THEN [w EXCEPT !.failed = TRUE]
     ELSE [v |-> [w.v EXCEPT !.conditions = @ \cup Sets(c, g) \cup Completed(g)],
           objects |-> w.objects \cup Creates(c, g),
           jobs |-> w.jobs \cup Starts(g),
           facts |-> w.facts \cup Writes(c, g),
           failed |-> FALSE]

\* The walk over the first n components of the order.
Walk(v, n) ==
  LET walk[i \in 0..n] ==
        IF i = 0 THEN Begin(v)
        ELSE IF Order[i] \in Members(v.spec) THEN Visit(walk[i - 1], Order[i])
        ELSE walk[i - 1]
  IN walk[n]

Done(w) ==
  [cr |-> cr, fresh |-> fresh, objects |-> objects \cup w.objects,
   job |-> [j \in Jobs |-> IF j \in w.jobs THEN "active" ELSE job[j]],
   cypress |-> cypress \cup w.facts]

Current == [cr |-> cr, fresh |-> fresh, objects |-> objects, job |-> job,
            cypress |-> cypress]

\* Mutant: a copy still looks current after it has been saved.
UpdateUnversioned(r, v) ==
  IF r.fresh THEN [r EXCEPT !.cr = [state |-> v.state, conditions |-> v.conditions]]
  ELSE r

\* Status().Update is refused unless the copy has the stored version; an
\* update that changes nothing makes no new version.
UpdateStatus(r, v) ==
  LET status == [state |-> v.state, conditions |-> v.conditions]
  IN IF r.fresh /\ status # r.cr
     THEN [r EXCEPT !.cr = status, !.fresh = FALSE] ELSE r

SaveClusterState(state) ==
  UpdateStatus(Current, [cache EXCEPT !.state = state])

\* The walk of the component manager, and the status it saves at the end.
Sync ==
  LET w == Walk(cache, Len(Order))
      done == Done(w)
  IN IF w.failed THEN done ELSE UpdateStatus(done, w.v)

\* The state of the cluster decides: save the next one, rest, or sync.
Reconciled ==
  LET pending == needSync(cache)
  IN CASE cache.state = "Created" -> SaveClusterState("Initializing")
       [] cache.state = "Running" ->
            IF pending THEN SaveClusterState("Reconfiguration") ELSE Current
       [] OTHER -> IF pending THEN Sync ELSE SaveClusterState("Running")

\* Pods of prompt components run as soon as their workload is created.
Becomes(r) ==
  /\ cr' = r.cr /\ fresh' = r.fresh /\ objects' = r.objects /\ job' = r.job
  /\ cypress' = r.cypress
  /\ pods' = [c \in Components |->
                IF c \in Prompt /\ <<"workload", c>> \in r.objects \ objects
                THEN "ready" ELSE pods[c]]

Reconcile ==
  /\ \E r \in {Reconciled} : r # Current /\ Becomes(r)
  /\ UNCHANGED <<spec, cache, edits, faults>>

\* A sync that ends early, by an error of the API, a conflict or a crash of
\* the operator: after some of the visits, and in the middle of the next one.
\* The workload of a server is created before its other objects, and calls
\* that were answered keep their effect.
Fail ==
  /\ faults < MaxFaults
  /\ cache.state \in {"Initializing", "Reconfiguration"} /\ needSync(cache)
  /\ \E n \in 0..Len(Order) :
       LET w == Walk(cache, n)
           next == IF n = Len(Order) THEN w ELSE Walk(cache, n + 1)
           workload == next.objects \cap {"workload"} \X Components
       IN \E O \in {workload, next.objects}, F \in SUBSET (next.facts \ w.facts) :
            Becomes(Done([w EXCEPT !.objects = @ \cup O, !.facts = @ \cup F]))
  /\ faults' = faults + 1
  /\ UNCHANGED <<spec, cache, edits>>

-------------------------------------------------------------------------------
(* Kubernetes, the init jobs and the user                                  *)

PodsStart(c) ==
  /\ <<"workload", c>> \in objects /\ pods[c] = "none"
  /\ pods' = [pods EXCEPT ![c] = "starting"]
  /\ UNCHANGED <<spec, cr, cache, fresh, objects, job, cypress, edits, faults>>

PodsRun(c) ==
  /\ pods[c] = "starting"
  /\ pods' = [pods EXCEPT ![c] = "ready"]
  /\ UNCHANGED <<spec, cr, cache, fresh, objects, job, cypress, edits, faults>>

PodsFail(c) ==
  /\ pods[c] = "ready" /\ faults < MaxFaults
  /\ pods' = [pods EXCEPT ![c] = "starting"]
  /\ faults' = faults + 1
  /\ UNCHANGED <<spec, cr, cache, fresh, objects, job, cypress, edits>>

\* A job is retried until its script succeeds.
JobSucceeds(j) ==
  /\ job[j] = "active" /\ Needs(j) \subseteq cypress
  /\ pods["Master"] = "ready"
  /\ job' = [job EXCEPT ![j] = "done"]
  /\ cypress' = cypress \cup Leaves(j)
  /\ UNCHANGED <<spec, cr, cache, fresh, objects, pods, edits, faults>>

\* The informer delivers the stored resource.
Deliver ==
  /\ ~fresh
  /\ cache' = [spec |-> spec, state |-> cr.state, conditions |-> cr.conditions]
  /\ fresh' = TRUE
  /\ UNCHANGED <<spec, cr, objects, pods, job, cypress, edits, faults>>

EditSpec ==
  /\ edits < MaxEdits
  /\ \E e \in Edits : e[1] = spec /\ spec' = e[2]
  /\ edits' = edits + 1
  /\ fresh' = FALSE
  /\ UNCHANGED <<cr, cache, objects, pods, job, cypress, faults>>

Kubernetes == \E c \in Components : PodsStart(c) \/ PodsRun(c)

Next ==
  \/ Reconcile \/ Fail
  \/ \E c \in Components : PodsStart(c) \/ PodsRun(c) \/ PodsFail(c)
  \/ \E j \in Jobs : JobSucceeds(j)
  \/ Deliver \/ EditSpec

Spec == Init /\ [][Next]_vars

\* The reconciler is requeued as long as it has something to do, the informer
\* delivers, Kubernetes starts the pods, and a job whose script can succeed
\* does.  Edits, failures and crashes are not fair.  The clause on Reconcile is
\* its weak fairness: the action is enabled when Reconciled # Current.
FairSpec ==
  /\ Spec
  /\ []<>(Reconciled = Current) \/ []<><<Reconcile>>_vars
  /\ WF_vars(Deliver) /\ WF_vars(Kubernetes)
  /\ WF_vars(\E j \in Jobs : JobSucceeds(j))

-------------------------------------------------------------------------------
\* Every variable keeps its type.
TypeOK ==
  /\ spec \subseteq Optional
  /\ cr \in [state : ClusterState, conditions : SUBSET Conditions]
  /\ cache \in [spec : SUBSET Optional, state : ClusterState,
                conditions : SUBSET Conditions]
  /\ fresh \in BOOLEAN
  /\ objects \subseteq Kinds \X Components
  /\ pods \in [Components -> PodState]
  /\ job \in [Jobs -> JobState]
  /\ cypress \subseteq Facts
  /\ edits \in 0..MaxEdits /\ faults \in 0..MaxFaults

\* A job is only created once everything its script relies on is in place:
\* the users it authenticates as, the schema of the masters and the bundle
\* its tables go to.
ScriptsFindWhatTheyNeed ==
  \A j \in Jobs : job[j] # "none" => Needs(j) \subseteq cypress

\* What the conditions C say has been done is among the facts: their jobs
\* have run, the bundles exist, the components are registered.
AreTrue(C, facts) ==
  /\ \A j \in Jobs \cap C : Leaves(j) \subseteq facts
  /\ "bundles" \in C => initBundles \subseteq facts
  /\ "queryTracker" \in C =>
       createQueryTrackerUser \cup initQueryTracker \subseteq facts
  /\ "queueAgent" \in C =>
       createQueueAgentUser \cup initQueueAgent \subseteq facts

\* A stored condition is never ahead of the cluster: the job has run, the
\* bundles exist, the component is registered, whatever failed in between.
ConditionsAreTrue == AreTrue(cr.conditions, cypress)

\* What is behind these: the reconciler's copy is no further ahead than the
\* status, and is the stored resource when its version is the stored one; a
\* job that has run has left what it leaves; and the operator has a user, and
\* bundles, only after the masters' init job.
Grounded ==
  /\ ScriptsFindWhatTheyNeed /\ ConditionsAreTrue
  /\ AreTrue(cache.conditions, cypress)
  /\ fresh => cache = [spec |-> spec, state |-> cr.state,
                       conditions |-> cr.conditions]
  /\ \A j \in Jobs : job[j] = "done" => Leaves(j) \subseteq cypress
  /\ cypress \cap {"operator", "bundles"} # {} => "schema" \in cypress

\* The inductive invariant: every variable has its type, and neither the
\* status, nor the reconciler's copy of it, nor a job is ahead of what the
\* scripts and the client have written in Cypress.
InitialisationInvariant == TypeOK /\ Grounded

\* A cluster is only declared Running when every component of the spec stored
\* at that moment has its objects, has been registered and has run its jobs.
RunningMeansInitialised ==
  [][cr.state # "Running" /\ cr'.state = "Running" =>
       \A c \in Members(spec) : \A i \in 1..Len(Gates(c, spec)) :
         LET g == Gates(c, spec)[i]
         IN /\ g.gate = "object" => <<g.on, c>> \in objects
            /\ g.gate = "job" => Leaves(g.on) \subseteq cypress
            /\ Writes(c, g) \subseteq cypress]_vars

\* Every spec comes up: once the user leaves it alone and failures stop, the
\* cluster ends up Running for good, so no components wait for each other.
ComesUp == <>[](cr.state = "Running")
================================================================================
