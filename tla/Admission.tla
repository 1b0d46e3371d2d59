------------------------------ MODULE Admission ------------------------------
(***************************************************************************)
(* The admission of Ytsaurus resources: the validating webhook of          *)
(* api/v1/ytsaurus_webhook.go in front of the API server, and what the     *)
(* operator derives (ClusterConfig) from every specification it lets in.   *)
(* The webhook lists the namespace's resources from the informer's cache,  *)
(* which lags behind the API server.                                       *)
(***************************************************************************)
EXTENDS ClusterConfig

CONSTANTS Names,        \* names of Ytsaurus resources in one namespace
          Words,        \* what roles and names of groups are made of
          Base,         \* a specification the webhook admits
          Deviations,   \* records of fields an author writes differently
          MaxChanges    \* bound on the resources written

None == [none |-> TRUE]

\* Specification s with the fields of d written as d says.
Written(d, s) == [f \in DOMAIN s |-> IF f \in DOMAIN d THEN d[f] ELSE s[f]]

\* Quantities (resource.Quantity) are natural numbers, roles and names of
\* groups have a word at least, and the lists of proxies and nodes are always
\* fields of a specification, if empty ones.
Lists == {"http", "rpc", "tcp", "data", "exec", "tablets"}

named(name) == name \in Seq(Words) /\ name # <<>>
quantified(g) ==
  /\ \A l \in g.locations : l.quota \in Nat /\ l.lowWatermark \in Nat
  /\ \A m \in DOMAIN g.claims : g.claims[m] \in Nat
  /\ \A m \in DOMAIN g.volumes : g.volumes[m] \in Nat
resourced(r) == r.request \in Nat /\ r.limit \in Nat
WellFormed(s) ==
  /\ "http" \in DOMAIN s => \A p \in Range(s.http) : named(p.role)
  /\ "rpc" \in DOMAIN s => \A p \in Range(s.rpc) : named(p.role)
  /\ "tcp" \in DOMAIN s => \A p \in Range(s.tcp) : named(p.role)
  /\ "tablets" \in DOMAIN s => \A g \in Range(s.tablets) : named(g.name)
  /\ "data" \in DOMAIN s => \A g \in Range(s.data) : named(g.name) /\ quantified(g)
  /\ "exec" \in DOMAIN s => \A g \in Range(s.exec) :
       /\ named(g.name) /\ quantified(g) /\ resourced(g.node)
       /\ g.jobs # <<>> => resourced(g.jobs[1])

ASSUME AdmissionAssumption ==
  /\ Lists \subseteq DOMAIN Base
  /\ \A d \in Deviations \cup {Base} : WellFormed(d)

VARIABLES stored,    \* name -> the specification the API server holds, or None
          listed,    \* the names the informer's cache lists
          changes    \* resources written so far

vars == <<stored, listed, changes>>

Existing == {n \in Names : stored[n] # None}

-----------------------------------------------------------------------------
(* The validators.  Each holds when the code appends no error. *)

distinct(q, Key(_)) == \A i, j \in DOMAIN q : Key(q[i]) = Key(q[j]) => i = j

\* The deprecated flag is rejected, and so is a location outside all mounts.
validateInstanceSpec(s, type, locations) ==
  /\ type \notin s.enableAntiAffinity
  /\ \A l \in locations : l.mounts # <<>>

\* Mutant: the numbers of hosts and masters are not compared.
hostsNeedHostNetwork(s) == s.masters.hosts # 0 => onHostNetwork(s)

validateHostAddresses(s) ==
  s.masters.hosts # 0 => onHostNetwork(s) /\ s.masters.hosts = s.masters.count

validateDiscovery(s) == validateInstanceSpec(s, "Discovery", {})

\* old is None on creation.
validatePrimaryMasters(s, old) ==
  /\ validateInstanceSpec(s, "Master", s.masters.locations)
  /\ validateHostAddresses(s)
  /\ FindFirstLocation(s.masters.locations, "MasterChangelogs")
  /\ FindFirstLocation(s.masters.locations, "MasterSnapshots")
  /\ old # None => old.masters.cellTag = s.masters.cellTag
  /\ s.masters.count > 1 /\ ~s.ephemeral => s.masters.antiAffinity

\* Mutant: any role will do.
anyHTTPProxies(s) == s.http # <<>> /\ distinct(s.http, LAMBDA p : p.role)

validateHTTPProxies(s) ==
  /\ distinct(s.http, LAMBDA p : p.role)
  /\ \E p \in Range(s.http) : p.role = DefaultName
  /\ s.http # <<>> => validateInstanceSpec(s, "HttpProxy", {})

\* Mutant: roles may repeat.
rolesRepeat(s) == s.rpc # <<>> => validateInstanceSpec(s, "RpcProxy", {})

validateRPCProxies(s) ==
  /\ distinct(s.rpc, LAMBDA p : p.role)
  /\ s.rpc # <<>> => validateInstanceSpec(s, "RpcProxy", {})

validateTCPProxies(s) ==
  /\ distinct(s.tcp, LAMBDA p : p.role)
  /\ s.tcp # <<>> => validateInstanceSpec(s, "TcpProxy", {})

validateDataNodes(s) ==
  /\ distinct(s.data, LAMBDA g : g.name)
  /\ \A g \in Range(s.data) :
       /\ validateInstanceSpec(s, "DataNode", g.locations)
       /\ FindFirstLocation(g.locations, "ChunkStore")

\* Containers are the texts given for sidecars: names, or NoContainer for a
\* text that does not parse.
NoContainer == "no container"

validateSidecars(containers) ==
  /\ NoContainer \notin Range(containers)
  /\ distinct(containers, LAMBDA name : name)

\* The sidecars' texts that do not parse fail doBuildBase.
validateExecNodes(s) ==
  /\ distinct(s.exec, LAMBDA g : g.name)
  /\ \A g \in Range(s.exec) :
       /\ validateInstanceSpec(s, "ExecNode", g.locations)
       /\ FindFirstLocation(g.locations, "ChunkCache")
       /\ FindFirstLocation(g.locations, "Slots")
       /\ validateSidecars(g.sidecars)
  /\ s.exec # <<>> => s.schedulers

validateSchedulers(s) ==
  s.schedulers => validateInstanceSpec(s, "Scheduler", {}) /\ s.agents

validateControllerAgents(s) ==
  s.agents => validateInstanceSpec(s, "ControllerAgent", {}) /\ s.schedulers

validateTabletNodes(s) ==
  /\ distinct(s.tablets, LAMBDA g : g.name)
  /\ s.tablets # <<>> => validateInstanceSpec(s, "TabletNode", {})

validateStrawberry(s) == s.strawberry => s.schedulers

\* Mutant: a query tracker does not need schedulers.
trackersNeedTablets(s) ==
  s.qt => validateInstanceSpec(s, "QueryTracker", {}) /\ s.tablets # <<>>

validateQueryTrackers(s) ==
  s.qt => /\ validateInstanceSpec(s, "QueryTracker", {})
          /\ s.tablets # <<>>
          /\ s.schedulers

validateQueueAgents(s) ==
  s.qa => validateInstanceSpec(s, "QueueAgent", {}) /\ s.tablets # <<>>

\* validateChyt checks nothing, validateSpyt forbids.
validateSpyt(s) == ~s.spyt

validateYQLAgents(s) == s.yql => validateInstanceSpec(s, "YqlAgent", {}) /\ s.qt

validateUi(s) ==
  s.ui = "secure" => \A p \in Range(s.http) : p.role = DefaultName => p.https

validateExistsYtsaurus(n) == listed = {} \/ listed = {n}

validateYtsaurus(n, s, old) ==
  /\ validateDiscovery(s)
  /\ validatePrimaryMasters(s, old)
  /\ validateHTTPProxies(s)
  /\ validateRPCProxies(s)
  /\ validateTCPProxies(s)
  /\ validateDataNodes(s)
  /\ validateExecNodes(s)
  /\ validateSchedulers(s)
  /\ validateControllerAgents(s)
  /\ validateTabletNodes(s)
  /\ validateStrawberry(s)
  /\ validateQueryTrackers(s)
  /\ validateQueueAgents(s)
  /\ validateSpyt(s)
  /\ validateYQLAgents(s)
  /\ validateUi(s)
  /\ validateExistsYtsaurus(n)

-----------------------------------------------------------------------------
(* The resources. *)

Init ==
  /\ stored = [n \in Names |-> None]
  /\ listed = {}
  /\ changes = 0

Write(n, s) ==
  /\ changes < MaxChanges
  /\ changes' = changes + 1
  /\ stored' = [stored EXCEPT ![n] = s]
  /\ UNCHANGED listed

ValidateCreate(n) ==
  /\ stored[n] = None
  /\ \E d \in Deviations :
       /\ validateYtsaurus(n, Written(d, Base), None)
       /\ Write(n, Written(d, Base))

ValidateUpdate(n) ==
  /\ stored[n] # None
  /\ \E d \in Deviations :
       /\ Written(d, stored[n]) # stored[n]
       /\ validateYtsaurus(n, Written(d, stored[n]), stored[n])
       /\ Write(n, Written(d, stored[n]))

\* Deletion is not validated.
ValidateDelete(n) ==
  /\ stored[n] # None
  /\ stored' = [stored EXCEPT ![n] = None]
  /\ UNCHANGED <<listed, changes>>

\* The informer catches up with the creation or deletion of one resource.
DeliverList ==
  /\ \E n \in (Existing \ listed) \cup (listed \ Existing) :
       listed' = IF n \in Existing THEN listed \cup {n} ELSE listed \ {n}
  /\ UNCHANGED <<stored, changes>>

Next ==
  \/ \E n \in Names : ValidateCreate(n) \/ ValidateUpdate(n) \/ ValidateDelete(n)
  \/ DeliverList

Spec == Init /\ [][Next]_vars

-----------------------------------------------------------------------------
(* Properties. *)

\* The optional parts a specification names, by the type of their component.
Parts(s) ==
  {p \in {<<s.schedulers, "Scheduler">>, <<s.agents, "ControllerAgent">>,
          <<s.qt, "QueryTracker">>, <<s.qa, "QueueAgent">>, <<s.yql, "YqlAgent">>,
          <<s.chyt, "StrawberryController">>, <<s.strawberry, "StrawberryController">>,
          <<s.ui # "none", "UI">>, <<s.caches.given, "MasterCache">>} : p[1]}

\* NewComponentManager leaves the controller of a cluster without schedulers
\* out.  validateStrawberry forbids that, validateChyt does not.
LeftOut(s) == IF s.chyt /\ ~s.schedulers THEN {"StrawberryController"} ELSE {}

Configurable(s, n) ==
  /\ s.http # <<>>
  /\ \A c \in Servers(s, n) : Config(s, n, c) # NoConfig
  /\ \A g \in Range(s.exec) : NoContainer \notin Range(g.sidecars)
  /\ \A p \in Parts(s) :
       p[2] \in LeftOut(s) \/ \E c \in NewComponentManager(s, n) : c.type = p[2]

\* Whatever sequence of creations and edits the webhook admits, the operator
\* can configure what is stored: NewComponentManager finds an HTTP proxy, no
\* configuration generator fails, no sidecar fails to parse, and no part the
\* specification names is silently left out of the cluster, except for the
\* deprecated CHYT controller of a cluster without schedulers.  It does not
\* say that the pods can be built: job resources added to an exec node that
\* lists none (addResourceListPanics) pass the webhook.
AdmittedMeansConfigurable == \A n \in Existing : Configurable(stored[n], n)

\* One name is the other with a word that the operator adds to names itself.
extends(long, short, word) ==
  FormatComponentStringWithDefault("", long)
    = Append(FormatComponentStringWithDefault("", short), word)

\* The webhook does not reserve the words the operator adds: the suffix of a
\* balancer and the name of the jobs' container.
Reserved(s) ==
  \/ \E p, q \in Range(s.http) : extends(p.role, q.role, "lb")
  \/ \E p, q \in Range(s.rpc) : q.balanced /\ extends(p.role, q.role, "lb")
  \/ \E p, q \in Range(s.tcp) : q.balanced /\ extends(p.role, q.role, "lb")
  \/ \E g, h \in Range(s.exec) : h.cri /\ extends(g.name, h.name, "jobs")

\* No two components of an admitted cluster claim the same Kubernetes object,
\* whatever the roles and groups are called: otherwise each reconciliation of
\* one overwrites what the other wrote.  Excepted are a role that is another
\* balanced one's with -lb added, lb beside the default included, and a group
\* that is another CRI group's with -jobs added.
NoObjectIsShared ==
  \A n \in Existing :
    ~Reserved(stored[n]) =>
      \A c, d \in NewComponentManager(stored[n], n) : c # d => c.objects \cap d.objects = {}

addressed(cfg) ==
  {a.service : a \in cfg.connection.masters \cup cfg.connection.discovery
                     \cup cfg.connection.caches \cup cfg.timestamps} \ {<<>>}

\* The configurations of the servers for which there is one.
Configs(s, n) ==
  [c \in {x \in Servers(s, n) : Config(s, n, x) # NoConfig} |-> Config(s, n, c)]

\* Every service an admitted cluster's configurations and scripts address is
\* one that a component of the cluster creates.  The address the CHYT script
\* uses for the controller is right only with short names.
AddressesResolve ==
  \A n \in Existing :
    LET s == stored[n]
        claimed == UNION {c.objects : c \in NewComponentManager(s, n)}
    IN /\ \A cfg \in Range(Configs(s, n)) : addressed(cfg) \subseteq claimed
       /\ GetUIClustersConfig(s, n).proxy \in claimed
       /\ GetStrawberryControllerConfig(s, n).proxy \in claimed
       /\ GetHTTPProxiesHeadlessServiceName(s, n, DefaultName) \in claimed
       /\ s.shortNames /\ s.strawberry => GetStrawberryControllerServiceAddress(s, n) \in claimed

\* How the i-th master names itself: by its host when it runs on the host's
\* network, unless the configuration overrides that with the pod's name.
localName(s, n, i) ==
  IF onHostNetwork(s) /\ ~overridesLocalHost(s)
  THEN <<<<"host">>, i>> ELSE <<getName(s, n, <<"ms">>), i>>

\* Each master of an admitted cluster finds itself among the peers of its
\* configuration, and there is a master for every peer (the comment of
\* getMasterConfigImpl on the index a master deduces).
MastersFindThemselves ==
  \A n \in Existing :
    LET s == stored[n]
    IN {localName(s, n, i) : i \in 0 .. s.masters.count - 1}
         = {a.host : a \in getMasterAddresses(s, n)}

\* Every certificate a configuration names is mounted into the pod.  When no
\* component has a transport of its own, a server that others must reach
\* encrypted offers a certificate (master caches do not), and the HTTPS port
\* of a secure user interface is served.
TransportsAgree ==
  \A n \in Existing :
    LET s == stored[n]
        cfg == Configs(s, n)
    IN /\ \A c \in DOMAIN cfg : cfg[c].bus.files \subseteq mounted(s, c)
       /\ \A c, d \in DOMAIN cfg :
            /\ inherits(s, c) /\ inherits(s, d)
            /\ d.type \notin {"MasterCache", "RpcProxy", "TcpProxy"}
            /\ cfg[c].bus.client = "required"
            => cfg[d].bus.server # "none"
       /\ GetUIClustersConfig(s, n).secure =>
            \E p \in Range(s.http) : p.role = DefaultName /\ "https" \in HTTPServiceBuild(p)

\* Any two quorums of the journals an admitted cluster's masters and tablet
\* cell bundles are configured with intersect, and there are data nodes
\* enough for their replicas.
QuorumsIntersect ==
  \A n \in Existing :
    LET nodes == GetMaxReplicationFactor(stored[n])
    IN \A q \in {configureMasterServerCypressManager(nodes), getBundleOptions(nodes)} :
         /\ q.read + q.write > q.journal
         /\ q.write <= q.journal
         /\ nodes > 0 => q.journal <= nodes /\ q.chunk <= nodes

limited(q) == \A i \in DOMAIN q : q[i].limit # 0
sane(r) == r.request <= r.limit

\* The limits of a pod of one or two containers.
podLimit(pod) == IF Len(pod) = 1 THEN pod[1].limit ELSE pod[1].limit + pod[2].limit

\* An exec node promises the scheduler (getExecNodeResourceLimits) no more
\* than the limits of its pod's containers (doBuildBase) allow, whether jobs
\* run in the node's container or in the sidecar's.  Excepted are containers
\* without limits or with requests beyond them, and an isolated environment
\* without CRI, for which no container is built.
NodesPromiseWhatPodsHave ==
  \A n \in Existing : \A g \in Range(stored[n].exec) :
    LET limits == getExecNodeResourceLimits(g)
        pod == doBuildBase(g)
    IN /\ limits.dedicated <= limits.total
       /\ limited(pod) /\ ~addResourceListPanics(g)
            /\ sane(g.node) /\ (g.jobs # <<>> => sane(g.jobs[1]))
            /\ ~(IsJobEnvironmentIsolated(g) /\ ~g.cri)
            => limits.total <= podLimit(pod)

\* A data node cleans its trash and stops accepting chunks before it stops
\* writing.  A watermark the operator computes lies within a tenth of the
\* location's quota, and so does what slots reserve; one that is given is
\* taken as it is, and neither storeLocation nor the webhook bounds it.
LocationsKeepRoom ==
  \A n \in Existing :
    /\ \A g \in Range(stored[n].data) : \A l \in FindAllLocations(g.locations, "ChunkStore") :
         LET store == storeLocation(l, g)
         IN /\ store.disableWrites <= store.high /\ store.high <= store.low
            /\ l.lowWatermark = 0 => 10 * store.low <= store.quota
    /\ \A g \in Range(stored[n].exec) : \A x \in getExecNodeServerCarcass(g).slots :
         10 * x.watermark <= x.quota

==============================================================================
