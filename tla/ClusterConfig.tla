---------------------------- MODULE ClusterConfig ----------------------------
(***************************************************************************)
(* What the operator derives from the specification of a Ytsaurus          *)
(* resource: the components NewComponentManager constructs, the names of   *)
(* the Kubernetes objects each of them claims, and the parts of the server *)
(* configurations (pkg/ytconfig) on which servers have to agree: master    *)
(* peers, transports, quorums, watermarks and resource limits.             *)
(*                                                                         *)
(* A specification s is a record; an optional part is a BOOLEAN or an      *)
(* empty sequence.  A quantity of 0 stands for one that is not given.      *)
(*                                                                         *)
(* A name is the sequence of its words.  Roles, groups' names and whatever *)
(* is joined to them are split at their dashes, so that two names are      *)
(* equal just when the strings are.  The words that the code itself writes *)
(* before a role (yt-http-proxy, http-proxies) are kept whole: none of     *)
(* them begins another.  The cluster's name n, the last word or not at all *)
(* in every name that has it, is kept whole too.                           *)
(***************************************************************************)
EXTENDS Integers, Sequences, Functions

CONSTANT GiB      \* the unit the caps on watermarks are multiples of

ASSUME GiBAssumption == GiB \in Nat \ {0}

Least(a, b) == IF a <= b THEN a ELSE b
MaxSlotLocationReserve == 10 * GiB

-----------------------------------------------------------------------------
(* Names. *)

getName(s, n, short) == IF s.shortNames THEN short ELSE Append(short, n)

DefaultName == <<"default">>

FormatComponentStringWithDefault(base, name) ==
  IF name = DefaultName THEN <<base>> ELSE <<base>> \o name

GetSecretName(label) == <<"Secret", Append(label, "secret")>>
GetMainConfigMapName(label) == <<"ConfigMap", Append(label, "config")>>
GetSidecarConfigMapName(label, name) ==
  <<"ConfigMap", Append(Append(label, name), "config")>>
GetInitJobName(label, name) == <<"Job", label \o <<"init-job", name>>>>
NewMonitoringService(label) == <<"Service", Append(label, "monitoring")>>

Service(name) == <<"Service", name>>

\* GetHTTPProxiesServiceName, and the RPC and TCP proxies' likewise.
balancer(s, n, base, role) ==
  Service(getName(s, n, Append(FormatComponentStringWithDefault(base, role), "lb")))
GetHTTPProxiesServiceName(s, n, role) == balancer(s, n, "http-proxies", role)
GetRPCProxiesServiceName(s, n, role) == balancer(s, n, "rpc-proxies", role)
GetTCPProxiesServiceName(s, n, role) == balancer(s, n, "tcp-proxies", role)
GetHTTPProxiesHeadlessServiceName(s, n, role) ==
  Service(getName(s, n, FormatComponentStringWithDefault("http-proxies", role)))

\* An init job and the config map with its script.
NewInitJob(label, name) ==
  {GetInitJobName(label, name),
   <<"ConfigMap", <<name>> \o label \o <<"init-job", "config">>>>}

-----------------------------------------------------------------------------
(* The objects each component claims, given the cluster's name n. *)

newServerConfigured(label, set, service) ==
  {<<"StatefulSet", set>>, Service(service),
   NewMonitoringService(label), GetMainConfigMapName(label)}

newMicroservice(label, deployment, service) ==
  {<<"Deployment", deployment>>, Service(service), GetMainConfigMapName(label)}

NewDiscovery(s, n) ==
  newServerConfigured(<<"yt-discovery">>, getName(s, n, <<"ds">>), getName(s, n, <<"discovery">>))

NewMaster(s, n) ==
  newServerConfigured(<<"yt-master">>, getName(s, n, <<"ms">>), getName(s, n, <<"masters">>))
    \cup NewInitJob(<<"yt-master">>, "default")
    \cup NewInitJob(<<"yt-master">>, "exit-read-only")

NewMasterCache(s, n) ==
  newServerConfigured(<<"yt-master-cache">>, getName(s, n, <<"msc">>),
                      getName(s, n, <<"master-caches">>))

NewYtsaurusClient(s, n) ==
  NewInitJob(<<"yt-client">>, "user") \cup {GetSecretName(<<"yt-client">>)}

group(s, n, label, set, service, name) ==
  newServerConfigured(FormatComponentStringWithDefault(label, name),
                      getName(s, n, FormatComponentStringWithDefault(set, name)),
                      getName(s, n, FormatComponentStringWithDefault(service, name)))

NewHTTPProxy(s, n, p) ==
  group(s, n, "yt-http-proxy", "hp", "http-proxies", p.role)
    \cup {GetHTTPProxiesServiceName(s, n, p.role)}

NewRPCProxy(s, n, p) ==
  group(s, n, "yt-rpc-proxy", "rp", "rpc-proxies", p.role)
    \cup (IF p.balanced THEN {GetRPCProxiesServiceName(s, n, p.role)} ELSE {})

NewTCPProxy(s, n, p) ==
  group(s, n, "yt-tcp-proxy", "tp", "tcp-proxies", p.role)
    \cup (IF p.balanced THEN {GetTCPProxiesServiceName(s, n, p.role)} ELSE {})

NewDataNode(s, n, g) == group(s, n, "yt-data-node", "dnd", "data-nodes", g.name)

NewTabletNode(s, n, g) == group(s, n, "yt-tablet-node", "tnd", "tablet-nodes", g.name)

NewExecNode(s, n, g) ==
  group(s, n, "yt-exec-node", "end", "exec-nodes", g.name)
    \cup (IF g.cri
          THEN {GetSidecarConfigMapName(FormatComponentStringWithDefault("yt-exec-node", g.name),
                                        "jobs")}
          ELSE {})

NewScheduler(s, n) ==
  newServerConfigured(<<"yt-scheduler">>, getName(s, n, <<"sch">>),
                      getName(s, n, <<"schedulers">>))
    \cup NewInitJob(<<"yt-scheduler">>, "user")
    \cup NewInitJob(<<"yt-scheduler">>, "op-archive")
    \cup {GetSecretName(<<"yt-scheduler">>)}

NewControllerAgent(s, n) ==
  newServerConfigured(<<"yt-controller-agent">>, <<"ca">>, <<"controller-agents">>)

NewQueryTracker(s, n) ==
  newServerConfigured(<<"yt-query-tracker">>, getName(s, n, <<"qt">>),
                      getName(s, n, <<"query-trackers">>))
    \cup NewInitJob(<<"yt-query-tracker">>, "qt-state")
    \cup {GetSecretName(<<"yt-query-tracker">>)}

NewQueueAgent(s, n) ==
  newServerConfigured(<<"yt-queue-agent">>, getName(s, n, <<"qa">>),
                      getName(s, n, <<"queue-agents">>))
    \cup NewInitJob(<<"yt-queue-agent">>, "qa-state")
    \cup {GetSecretName(<<"yt-queue-agent">>)}

NewYQLAgent(s, n) ==
  newServerConfigured(<<"yt-yql-agent">>, getName(s, n, <<"yqla">>),
                      getName(s, n, <<"yql-agents">>))
    \cup NewInitJob(<<"yt-yql-agent">>, "yql-agent-environment")
    \cup {GetSecretName(<<"yt-yql-agent">>)}

NewUI(s, n) ==
  newMicroservice(<<"yt-ui">>, <<"ytsaurus-ui-deployment">>, <<"ytsaurus-ui">>)
    \cup NewInitJob(<<"yt-ui">>, "default")
    \cup {GetSecretName(<<"yt-ui">>)}

NewStrawberryController(s, n) ==
  LET name == IF s.strawberry THEN "strawberry" ELSE "chyt"
      label == <<"yt", name, "controller">>
  IN newMicroservice(label, <<name, "controller">>, <<name>>)
       \cup NewInitJob(label, "user") \cup NewInitJob(label, "cluster")
       \cup {GetSecretName(label)}

-----------------------------------------------------------------------------
(* The components of a cluster.  A component is a record of its type, the  *)
(* part of the specification it is built from, and the objects it claims.  *)

component(type, part, objects) == [type |-> type, part |-> part, objects |-> objects]
single(given, type, objects) == IF given THEN {component(type, <<>>, objects)} ELSE {}

\* The panic on a cluster without HTTP proxies (hps[0]) is Configurable's.
NewComponentManager(s, n) ==
  {component("Discovery", <<>>, NewDiscovery(s, n)),
   component("Master", <<>>, NewMaster(s, n)),
   component("YtsaurusClient", <<>>, NewYtsaurusClient(s, n))}
    \cup {component("HttpProxy", p, NewHTTPProxy(s, n, p)) : p \in Range(s.http)}
    \cup {component("DataNode", g, NewDataNode(s, n, g)) : g \in Range(s.data)}
    \cup single(s.ui # "none", "UI", NewUI(s, n))
    \cup {component("RpcProxy", p, NewRPCProxy(s, n, p)) : p \in Range(s.rpc)}
    \cup {component("TcpProxy", p, NewTCPProxy(s, n, p)) : p \in Range(s.tcp)}
    \cup {component("ExecNode", g, NewExecNode(s, n, g)) : g \in Range(s.exec)}
    \cup {component("TabletNode", g, NewTabletNode(s, n, g)) : g \in Range(s.tablets)}
    \cup single(s.schedulers, "Scheduler", NewScheduler(s, n))
    \cup single(s.agents, "ControllerAgent", NewControllerAgent(s, n))
    \cup single(s.qt /\ s.schedulers /\ s.tablets # <<>>, "QueryTracker",
                NewQueryTracker(s, n))
    \cup single(s.qa /\ s.tablets # <<>>, "QueueAgent", NewQueueAgent(s, n))
    \cup single(s.yql, "YqlAgent", NewYQLAgent(s, n))
    \cup single((s.chyt \/ s.strawberry) /\ s.schedulers, "StrawberryController",
                NewStrawberryController(s, n))
    \cup single(s.caches.given, "MasterCache", NewMasterCache(s, n))

-----------------------------------------------------------------------------
(* Addresses. *)

podNames(s, n, set, count) == {<<getName(s, n, set), i>> : i \in 0 .. count - 1}
GetMasterPodNames(s, n) == podNames(s, n, <<"ms">>, s.masters.count)
GetDiscoveryPodNames(s, n) == podNames(s, n, <<"ds">>, s.discovery)
GetMasterCachesPodNames(s, n) == podNames(s, n, <<"msc">>, s.caches.count)

\* An address: a host, and for a pod's host the service that resolves it.
hostAddresses(hosts) == {[host |-> <<<<"host">>, i>>, service |-> <<>>] : i \in 0 .. hosts - 1}
podAddresses(pods, service) == {[host |-> p, service |-> Service(service)] : p \in pods}

getMasterAddresses(s, n) ==
  IF s.masters.hosts # 0 THEN hostAddresses(s.masters.hosts)
  ELSE podAddresses(GetMasterPodNames(s, n), getName(s, n, <<"masters">>))

getDiscoveryAddresses(s, n) ==
  podAddresses(GetDiscoveryPodNames(s, n), getName(s, n, <<"discovery">>))

getMasterCachesAddresses(s, n) ==
  IF ~s.caches.given THEN {}
  ELSE IF s.caches.hosts # 0 THEN hostAddresses(s.caches.hosts)
  ELSE podAddresses(GetMasterCachesPodNames(s, n), getName(s, n, <<"master-caches">>))

\* The address the CHYT release's script calls the controller at.
GetStrawberryControllerServiceAddress(s, n) == Service(getName(s, n, <<"strawberry">>))

-----------------------------------------------------------------------------
(* Transports.  A transport is "none" (not given), "bare" (given without a *)
(* certificate), "optional" or "required" (with one).                      *)

inherits(s, c) == s.own.of # c.type
transport(s, c) == IF inherits(s, c) THEN s.transport ELSE s.own.is
certified(t) == t \in {"optional", "required"}

\* Mutant: the common transport's certificate is not mounted.
mountedOwn(s, c) ==
  (IF ~inherits(s, c) /\ certified(transport(s, c)) THEN {"bus"} ELSE {})
    \cup (IF s.caBundle THEN {"ca"} ELSE {})
    \cup (IF c.type = "HttpProxy" /\ c.part.https THEN {"https"} ELSE {})
    \cup (IF c.type = "RpcProxy" /\ certified(c.part.tls) THEN {"rpc"} ELSE {})

\* What newServerConfigured mounts into the pods, and what HTTP and RPC
\* proxies add.
mounted(s, c) ==
  (IF certified(transport(s, c)) THEN {"bus"} ELSE {})
    \cup (IF s.caBundle THEN {"ca"} ELSE {})
    \cup (IF c.type = "HttpProxy" /\ c.part.https THEN {"https"} ELSE {})
    \cup (IF c.type = "RpcProxy" /\ certified(c.part.tls) THEN {"rpc"} ELSE {})

\* A configuration: how the server's clients and the server itself use
\* encryption, and the files it names.
fillClusterConnectionEncryption(s, c) ==
  IF certified(transport(s, c))
  THEN [client |-> transport(s, c), server |-> "none",
        files |-> IF s.caBundle THEN {"ca"} ELSE {}]
  ELSE [client |-> "none", server |-> "none", files |-> {}]

fillBusServer(s, c, cfg) ==
  IF ~certified(transport(s, c)) THEN cfg
  ELSE [cfg EXCEPT !.files = @ \cup {"bus"},
                   !.server = IF transport(s, c) = "required" /\ ~inherits(s, c)
                              THEN "required" ELSE "optional"]

fillBusEncryption(cfg, t) == [cfg EXCEPT !.files = @ \cup {"rpc"}, !.server = t]

fillClusterConnection(s, n) ==
  [masters |-> getMasterAddresses(s, n),
   discovery |-> getDiscoveryAddresses(s, n),
   caches |-> IF getMasterCachesAddresses(s, n) = {} THEN getMasterAddresses(s, n)
              ELSE getMasterCachesAddresses(s, n)]

-----------------------------------------------------------------------------
(* Locations, quotas and watermarks.  A location lists the volume mounts   *)
(* whose path is a prefix of its own, in the order of the specification.   *)

FindAllLocations(locations, type) == {l \in locations : l.type = type}
FindFirstLocation(locations, type) == FindAllLocations(locations, type) # {}

\* The first mount wins; a claim template hides a volume of the same name.
findQuotaForLocation(l, g) ==
  CASE l.quota # 0 -> l.quota
    [] l.quota = 0 /\ l.mounts = <<>> -> 0
    [] OTHER -> IF Head(l.mounts) \in DOMAIN g.claims THEN g.claims[Head(l.mounts)]
                ELSE IF Head(l.mounts) \in DOMAIN g.volumes THEN g.volumes[Head(l.mounts)]
                ELSE 0

storeLocation(l, g) ==
  LET quota == findQuotaForLocation(l, g)
      low == CASE quota = 0 -> 0
               [] quota # 0 /\ l.lowWatermark # 0 -> l.lowWatermark
               [] OTHER -> Least(quota \div 10, 25 * GiB)
  IN [quota |-> quota, trash |-> low, low |-> low,
      high |-> low \div 2, disableWrites |-> (low \div 2) \div 2]

\* Mutant: the reserve does not depend on the quota.
slotReserve(l, g) ==
  [quota |-> findQuotaForLocation(l, g), watermark |-> MaxSlotLocationReserve]

slotLocation(l, g) ==
  LET quota == findQuotaForLocation(l, g)
  IN [quota |-> quota, watermark |-> Least(quota \div 10, MaxSlotLocationReserve)]

-----------------------------------------------------------------------------
(* Resources of an exec node and of the jobs it runs (one resource, CPU or *)
(* memory; request and limit).                                             *)

Sum(a, b) == [request |-> a.request + b.request, limit |-> a.limit + b.limit]

IsJobEnvironmentIsolated(g) == IF g.isolated # "unset" THEN g.isolated = "yes" ELSE g.cri

getResourceQuantity(r) == IF r.request # 0 THEN r.request ELSE r.limit

\* What the node tells the scheduler it has, and what of it is not for jobs
\* (the latter of the CPU only).
getExecNodeResourceLimits(g) ==
  IF g.jobs # <<>>
  THEN [total |-> getResourceQuantity(g.node) + getResourceQuantity(g.jobs[1]),
        dedicated |-> getResourceQuantity(g.node)]
  ELSE [total |-> getResourceQuantity(g.node), dedicated |-> 0]

\* Adding to a resource list that is not there panics.
pours(g) == g.jobs # <<>> /\ ~IsJobEnvironmentIsolated(g)
addResourceListPanics(g) ==
  /\ pours(g)
  /\ \/ g.jobs[1].request # 0 /\ g.node.request = 0
     \/ g.jobs[1].limit # 0 /\ g.node.limit = 0

doBuildCRISidecar(g) ==
  IF g.jobs # <<>> THEN g.jobs[1] ELSE [request |-> 0, limit |-> g.node.limit]

\* Mutant: the jobs' resources are not poured into the node's container.
buildNodeOnly(g) ==
  IF IsJobEnvironmentIsolated(g) /\ g.cri THEN <<g.node, doBuildCRISidecar(g)>> ELSE <<g.node>>

\* The containers of the pod that run the node and its jobs.
doBuildBase(g) ==
  CASE pours(g) -> <<Sum(g.node, g.jobs[1])>>
    [] IsJobEnvironmentIsolated(g) /\ g.cri -> <<g.node, doBuildCRISidecar(g)>>
    [] OTHER -> <<g.node>>

-----------------------------------------------------------------------------
(* The server configurations. *)

\* Mutant: the quorums of three nodes also from five on.
quorumsOfThree(n) ==
  CASE n <= 1 -> [read |-> 1, write |-> 1, journal |-> 1, chunk |-> 1]
    [] n = 2 -> [read |-> 2, write |-> 2, journal |-> 2, chunk |-> 2]
    [] OTHER -> [read |-> 2, write |-> 2, journal |-> IF n < 5 THEN 3 ELSE 5, chunk |-> 3]

\* Quorums and factors by the number n of data node instances.
configureMasterServerCypressManager(n) ==
  CASE n <= 1 -> [read |-> 1, write |-> 1, journal |-> 1, chunk |-> 1]
    [] n = 2 -> [read |-> 2, write |-> 2, journal |-> 2, chunk |-> 2]
    [] n \in 3 .. 4 -> [read |-> 2, write |-> 2, journal |-> 3, chunk |-> 3]
    [] OTHER -> [read |-> 3, write |-> 3, journal |-> 5, chunk |-> 3]

\* The changelogs of a tablet cell bundle: below three data nodes a single
\* replica, else what YTsaurus gives a bundle.
getBundleOptions(n) ==
  IF n < 3 THEN [read |-> 1, write |-> 1, journal |-> 1, chunk |-> 1]
  ELSE [read |-> 2, write |-> 2, journal |-> 3, chunk |-> 3]

GetMaxReplicationFactor(s) == FoldFunction(LAMBDA g, sum : sum + g.count, 0, s.data)

onHostNetwork(s) ==
  IF s.masters.hostNetwork # "unset" THEN s.masters.hostNetwork = "yes" ELSE s.hostNetwork

\* What every server is given; more is what its own kind adds.
fillCommonService(s, n, bus, more) ==
  [connection |-> fillClusterConnection(s, n), timestamps |-> getMasterAddresses(s, n),
   bus |-> bus, more |-> more]
busServer(s, c) == fillBusServer(s, c, fillClusterConnectionEncryption(s, c))
withBusServer(s, n, c, more) == fillCommonService(s, n, busServer(s, c), more)
withoutBusServer(s, n, c) == fillCommonService(s, n, fillClusterConnectionEncryption(s, c), <<>>)
NoConfig == [error |-> TRUE]

getMasterServerCarcass(s) ==
  /\ FindFirstLocation(s.masters.locations, "MasterChangelogs")
  /\ FindFirstLocation(s.masters.locations, "MasterSnapshots")

\* The name a master looks up among the peers is its host's, unless the
\* configuration overrides it with the pod's.
overridesLocalHost(s) == onHostNetwork(s) /\ s.masters.hosts = 0

getMasterConfigImpl(s, n, c) ==
  IF ~getMasterServerCarcass(s) THEN NoConfig
  ELSE withBusServer(s, n, c,
         [overrides |-> overridesLocalHost(s),
          replication |-> configureMasterServerCypressManager(GetMaxReplicationFactor(s))])

getDiscoveryConfigImpl(s, n, c) == withBusServer(s, n, c, <<>>)
getMasterCachesConfigImpl(s, n, c) == withoutBusServer(s, n, c)
getSchedulerConfigImpl(s, n, c) == withBusServer(s, n, c, [archivation |-> s.tablets # <<>>])
getControllerAgentConfigImpl(s, n, c) == withBusServer(s, n, c, <<>>)
getHTTPProxyServerCarcass(p) == IF p.https THEN {"https"} ELSE {}
getHTTPProxyConfigImpl(s, n, c) ==
  LET bus == busServer(s, c)
  IN fillCommonService(s, n, [bus EXCEPT !.files = @ \cup getHTTPProxyServerCarcass(c.part)],
                       [driver |-> getMasterAddresses(s, n)])
getRPCProxyConfigImpl(s, n, c) == withoutBusServer(s, n, c)
GetRPCProxyConfig(s, n, c) ==
  LET cfg == getRPCProxyConfigImpl(s, n, c)
  IN IF certified(c.part.tls) THEN [cfg EXCEPT !.bus = fillBusEncryption(@, c.part.tls)] ELSE cfg
getTCPProxyConfigImpl(s, n, c) == withoutBusServer(s, n, c)
getTabletNodeConfigImpl(s, n, c) == withBusServer(s, n, c, <<>>)
getQueryTrackerConfigImpl(s, n, c) == withBusServer(s, n, c, <<>>)
getQueueAgentConfigImpl(s, n, c) == withBusServer(s, n, c, <<>>)
getYQLAgentConfigImpl(s, n, c) ==
  withBusServer(s, n, c, [cluster |-> GetHTTPProxiesHeadlessServiceName(s, n, DefaultName)])

getDataNodeServerCarcass(g) ==
  {storeLocation(l, g) : l \in FindAllLocations(g.locations, "ChunkStore")}
getDataNodeConfigImpl(s, n, c) ==
  IF getDataNodeServerCarcass(c.part) = {} THEN NoConfig
  ELSE withBusServer(s, n, c, [stores |-> getDataNodeServerCarcass(c.part)])

\* UserSlots: what is given, or five for each CPU left to the jobs.
getExecNodeServerCarcass(g) ==
  LET limits == getExecNodeResourceLimits(g)
  IN [slots |-> {slotLocation(l, g) : l \in FindAllLocations(g.locations, "Slots")},
      limits |-> limits,
      userSlots |-> IF g.userSlots # 0 THEN g.userSlots ELSE 5 * (limits.total - limits.dedicated)]
getExecNodeConfigImpl(s, n, c) ==
  IF \/ ~FindFirstLocation(c.part.locations, "ChunkCache")
     \/ getExecNodeServerCarcass(c.part).slots = {}
  THEN NoConfig
  ELSE withBusServer(s, n, c, getExecNodeServerCarcass(c.part))

\* The user interface and the strawberry controller reach the cluster
\* through the balancer of the default HTTP proxies.
GetUIClustersConfig(s, n) ==
  [proxy |-> GetHTTPProxiesServiceName(s, n, DefaultName), secure |-> s.ui = "secure"]
GetStrawberryControllerConfig(s, n) == [proxy |-> GetHTTPProxiesServiceName(s, n, DefaultName)]

Servers(s, n) ==
  {c \in NewComponentManager(s, n) : c.type \notin {"YtsaurusClient", "UI", "StrawberryController"}}

Config(s, n, c) ==
  CASE c.type = "Discovery" -> getDiscoveryConfigImpl(s, n, c)
    [] c.type = "Master" -> getMasterConfigImpl(s, n, c)
    [] c.type = "MasterCache" -> getMasterCachesConfigImpl(s, n, c)
    [] c.type = "Scheduler" -> getSchedulerConfigImpl(s, n, c)
    [] c.type = "ControllerAgent" -> getControllerAgentConfigImpl(s, n, c)
    [] c.type = "HttpProxy" -> getHTTPProxyConfigImpl(s, n, c)
    [] c.type = "RpcProxy" -> GetRPCProxyConfig(s, n, c)
    [] c.type = "TcpProxy" -> getTCPProxyConfigImpl(s, n, c)
    [] c.type = "DataNode" -> getDataNodeConfigImpl(s, n, c)
    [] c.type = "ExecNode" -> getExecNodeConfigImpl(s, n, c)
    [] c.type = "TabletNode" -> getTabletNodeConfigImpl(s, n, c)
    [] c.type = "QueryTracker" -> getQueryTrackerConfigImpl(s, n, c)
    [] c.type = "QueueAgent" -> getQueueAgentConfigImpl(s, n, c)
    [] c.type = "YqlAgent" -> getYQLAgentConfigImpl(s, n, c)

\* The ports of the balancer of HTTP proxies.
HTTPServiceBuild(p) ==
  (IF p.disableHttp THEN {} ELSE {"http"}) \cup (IF p.https THEN {"https"} ELSE {})

==============================================================================
