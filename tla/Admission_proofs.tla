--------------------------- MODULE Admission_proofs ---------------------------
(***************************************************************************)
(* What holds for every set of specifications and edits of an admitted     *)
(* resource: the quorums of its journals intersect, masters find           *)
(* themselves, nodes promise what their pods have, locations keep room,    *)
(* transports agree, addresses resolve, all of it can be configured, and   *)
(* no two components share an object.                                      *)
(***************************************************************************)
EXTENDS Admission, SequenceTheorems, TLAPS

(* The number of data nodes decides about replicas and quorums; these are  *)
(* the three things they have to satisfy.                                  *)
Sound(q, nodes) ==
  /\ q.read + q.write > q.journal
  /\ q.write <= q.journal
  /\ nodes > 0 => q.journal <= nodes /\ q.chunk <= nodes

\* configureMasterServerCypressManager: any two quorums of a journal
\* intersect, and no replica lacks a node, for every number of data nodes.
LEMMA MasterQuorums == \A nodes \in Nat : Sound(configureMasterServerCypressManager(nodes), nodes)
<1> SUFFICES ASSUME NEW nodes \in Nat
             PROVE  Sound(configureMasterServerCypressManager(nodes), nodes)
  OBVIOUS
<1>1. CASE nodes <= 1
  BY <1>1 DEF Sound, configureMasterServerCypressManager
<1>2. CASE nodes = 2
  BY <1>2 DEF Sound, configureMasterServerCypressManager
<1>3. CASE nodes \in 3 .. 4
  BY <1>3 DEF Sound, configureMasterServerCypressManager
<1>4. CASE nodes > 4
  BY <1>4 DEF Sound, configureMasterServerCypressManager
<1> QED
  BY <1>1, <1>2, <1>3, <1>4

\* getBundleOptions: the same of the changelogs of tablet cell bundles.
LEMMA BundleQuorums == \A nodes \in Nat : Sound(getBundleOptions(nodes), nodes)
  BY DEF Sound, getBundleOptions

\* Whatever is stored, as long as its groups of data nodes have counts that
\* add up to a natural number, has journals whose quorums intersect: no state
\* the webhook lets in violates QuorumsIntersect.
THEOREM QuorumsAlwaysIntersect ==
  ASSUME \A n \in Existing : GetMaxReplicationFactor(stored[n]) \in Nat
  PROVE  QuorumsIntersect
<1> SUFFICES ASSUME NEW n \in Existing,
                    NEW q \in {configureMasterServerCypressManager(GetMaxReplicationFactor(stored[n])),
                               getBundleOptions(GetMaxReplicationFactor(stored[n]))}
             PROVE  Sound(q, GetMaxReplicationFactor(stored[n]))
  BY DEF QuorumsIntersect, Sound
<1> QED
  BY MasterQuorums, BundleQuorums

-----------------------------------------------------------------------------
(* The store has an entry for every name, so that a write changes one      *)
(* entry and leaves the others.                                            *)
Entries == stored = [n \in Names |-> stored[n]]

\* Write stores the one specification it is given.
LEMMA WriteStores ==
  ASSUME Entries, NEW n \in Names, NEW s, Write(n, s)
  PROVE  /\ Entries'
         /\ stored'[n] = s
         /\ \A m \in Names \ {n} : stored'[m] = stored[m]
  BY DEF Entries, Write

\* ValidateDelete removes the one entry it is given.
LEMMA DeleteRemoves ==
  ASSUME Entries, NEW n \in Names, ValidateDelete(n)
  PROVE  /\ Entries'
         /\ stored'[n] = None
         /\ \A m \in Names \ {n} : stored'[m] = stored[m]
  BY DEF Entries, ValidateDelete

\* No request the webhook admits, and no deletion, makes or unmakes entries.
LEMMA EntriesStay == ASSUME Entries, [Next]_vars PROVE Entries'
<1>1. CASE UNCHANGED vars
  BY <1>1 DEF Entries, vars
<1>2. ASSUME NEW n \in Names, ValidateCreate(n) PROVE Entries'
  BY <1>2, WriteStores DEF ValidateCreate
<1>3. ASSUME NEW n \in Names, ValidateUpdate(n) PROVE Entries'
  BY <1>3, WriteStores DEF ValidateUpdate
<1>4. ASSUME NEW n \in Names, ValidateDelete(n) PROVE Entries'
  BY <1>4, DeleteRemoves
<1>5. CASE DeliverList
  BY <1>5 DEF DeliverList, Entries
<1> QED
  BY <1>1, <1>2, <1>3, <1>4, <1>5 DEF Next

-----------------------------------------------------------------------------
(* What the webhook has checked of a stored specification, whatever was    *)
(* stored before and however old its list was.                             *)
Validated(s) ==
  /\ validateHostAddresses(s)
  /\ getMasterServerCarcass(s)
  /\ validateHTTPProxies(s)
  /\ validateRPCProxies(s)
  /\ validateTCPProxies(s)
  /\ validateDataNodes(s)
  /\ validateExecNodes(s)
  /\ validateSchedulers(s)
  /\ validateControllerAgents(s)
  /\ validateTabletNodes(s)
  /\ validateStrawberry(s)
  /\ validateQueryTrackers(s)
  /\ validateQueueAgents(s)
  /\ validateUi(s)

\* Names stay names and quantities natural numbers through every edit.
Formed(s) == Lists \subseteq DOMAIN s /\ WellFormed(s)

\* The inductive invariant: everything stored has been validated.  What an
\* update leaves alone is validated again with what it changes.
AdmissionInvariant ==
  /\ Entries
  /\ \A n \in Existing : Validated(stored[n]) /\ Formed(stored[n])

\* validateYtsaurus runs every validator.
LEMMA ValidatedByWebhook ==
  ASSUME NEW n, NEW s, NEW old, validateYtsaurus(n, s, old)
  PROVE  Validated(s)
  BY DEF validateYtsaurus, validatePrimaryMasters, Validated, getMasterServerCarcass

\* What this says of each list.
LEMMA FormedLists ==
  ASSUME NEW s, Formed(s)
  PROVE  /\ \A p \in Range(s.http) : named(p.role)
         /\ \A p \in Range(s.rpc) : named(p.role)
         /\ \A p \in Range(s.tcp) : named(p.role)
         /\ \A g \in Range(s.tablets) : named(g.name)
         /\ \A g \in Range(s.data) : named(g.name) /\ quantified(g)
         /\ \A g \in Range(s.exec) :
              /\ named(g.name) /\ quantified(g) /\ resourced(g.node)
              /\ g.jobs # <<>> => resourced(g.jobs[1])
<1>1. /\ "http" \in DOMAIN s /\ "rpc" \in DOMAIN s /\ "tcp" \in DOMAIN s
      /\ "tablets" \in DOMAIN s /\ "data" \in DOMAIN s /\ "exec" \in DOMAIN s
  BY DEF Formed, Lists
<1> QED
  BY <1>1, Zenon DEF Formed, WellFormed

\* Writing well-formed fields into a well-formed specification gives one.
LEMMA WrittenFormed ==
  ASSUME NEW d \in Deviations, NEW s, Formed(s)
  PROVE  Formed(Written(d, s))
<1>1. WellFormed(d) /\ WellFormed(s)
  BY AdmissionAssumption DEF Formed
<1>2. DOMAIN Written(d, s) = DOMAIN s
  BY DEF Written
<1>3. \A f \in DOMAIN s : Written(d, s)[f] = IF f \in DOMAIN d THEN d[f] ELSE s[f]
  BY DEF Written
<1>4. Lists \subseteq DOMAIN s
  BY DEF Formed
<1>5. \A p \in Range(Written(d, s).http) : named(p.role)
  BY <1>1, <1>3, <1>4 DEF Lists, WellFormed
<1>6. \A p \in Range(Written(d, s).rpc) : named(p.role)
  BY <1>1, <1>3, <1>4 DEF Lists, WellFormed
<1>7. \A p \in Range(Written(d, s).tcp) : named(p.role)
  BY <1>1, <1>3, <1>4 DEF Lists, WellFormed
<1>8. \A g \in Range(Written(d, s).tablets) : named(g.name)
  BY <1>1, <1>3, <1>4 DEF Lists, WellFormed
<1>9. \A g \in Range(Written(d, s).data) : named(g.name) /\ quantified(g)
  BY <1>1, <1>3, <1>4 DEF Lists, WellFormed
<1>10. \A g \in Range(Written(d, s).exec) :
         /\ named(g.name) /\ quantified(g) /\ resourced(g.node)
         /\ g.jobs # <<>> => resourced(g.jobs[1])
  BY <1>1, <1>3, <1>4 DEF Lists, WellFormed
<1> QED
  BY <1>2, <1>4, <1>5, <1>6, <1>7, <1>8, <1>9, <1>10, Zenon DEF Formed, WellFormed

\* The specification that deviations start from is well formed.
LEMMA BaseFormed == Formed(Base)
  BY AdmissionAssumption DEF Formed

\* Every admitted write keeps the invariant.
LEMMA StepInvariant == ASSUME AdmissionInvariant, [Next]_vars PROVE AdmissionInvariant'
<1> USE DEF Existing
<1> SUFFICES ASSUME NEW m \in Names, stored'[m] # None
             PROVE  Validated(stored'[m]) /\ Formed(stored'[m])
  BY EntriesStay DEF AdmissionInvariant
<1>0. Entries /\ (stored[m] # None => Validated(stored[m]) /\ Formed(stored[m]))
  BY DEF AdmissionInvariant
<1>1. CASE UNCHANGED vars
  BY <1>0, <1>1 DEF vars
<1>2. ASSUME NEW n \in Names, ValidateCreate(n)
      PROVE  Validated(stored'[m]) /\ Formed(stored'[m])
  <2>1. PICK d \in Deviations : /\ validateYtsaurus(n, Written(d, Base), None)
                                /\ Write(n, Written(d, Base))
    BY <1>2 DEF ValidateCreate
  <2>2. Validated(Written(d, Base)) /\ Formed(Written(d, Base))
    BY <2>1, ValidatedByWebhook, WrittenFormed, BaseFormed
  <2> QED
    BY <1>0, <2>1, <2>2, WriteStores
<1>3. ASSUME NEW n \in Names, ValidateUpdate(n)
      PROVE  Validated(stored'[m]) /\ Formed(stored'[m])
  <2>1. PICK d \in Deviations : /\ validateYtsaurus(n, Written(d, stored[n]), stored[n])
                                /\ Write(n, Written(d, stored[n]))
    BY <1>3 DEF ValidateUpdate
  <2>2. Formed(stored[n])
    BY <1>3 DEF ValidateUpdate, AdmissionInvariant
  <2>3. Validated(Written(d, stored[n])) /\ Formed(Written(d, stored[n]))
    BY <2>1, <2>2, ValidatedByWebhook, WrittenFormed
  <2> QED
    BY <1>0, <2>1, <2>3, WriteStores
<1>4. ASSUME NEW n \in Names, ValidateDelete(n)
      PROVE  Validated(stored'[m]) /\ Formed(stored'[m])
  BY <1>0, <1>4, DeleteRemoves
<1>5. CASE DeliverList
  BY <1>0, <1>5 DEF DeliverList
<1> QED
  BY <1>1, <1>2, <1>3, <1>4, <1>5 DEF Next

\* Whatever is written and however old the list of the webhook, everything
\* stored has been validated.
LEMMA AlwaysValidated == Spec => []AdmissionInvariant
<1>1. Init => AdmissionInvariant
  BY DEF Init, AdmissionInvariant, Entries, Existing
<1>2. AdmissionInvariant /\ [Next]_vars => AdmissionInvariant'
  BY StepInvariant
<1> QED
  BY <1>1, <1>2, PTL DEF Spec

-----------------------------------------------------------------------------
(* What each generator of configurations derives from a validated          *)
(* specification.                                                          *)

\* Addresses made from host names have these names.
LEMMA HostsOfHosts ==
  ASSUME NEW k PROVE {a.host : a \in hostAddresses(k)} = {<<<<"host">>, i>> : i \in 0 .. k - 1}
<1>1. ASSUME NEW a \in hostAddresses(k) PROVE a.host \in {<<<<"host">>, i>> : i \in 0 .. k - 1}
  BY <1>1 DEF hostAddresses
<1>2. ASSUME NEW i \in 0 .. k - 1 PROVE \E a \in hostAddresses(k) : a.host = <<<<"host">>, i>>
  <2>1. [host |-> <<<<"host">>, i>>, service |-> <<>>] \in hostAddresses(k)
    BY DEF hostAddresses
  <2>2. [host |-> <<<<"host">>, i>>, service |-> <<>>].host = <<<<"host">>, i>>
    OBVIOUS
  <2> QED
    BY <2>1, <2>2
<1> QED
  BY <1>1, <1>2

\* Addresses made from pods have the names of the pods.
LEMMA HostsOfPods ==
  ASSUME NEW pods, NEW service PROVE {a.host : a \in podAddresses(pods, service)} = pods
<1>1. ASSUME NEW a \in podAddresses(pods, service) PROVE a.host \in pods
  BY <1>1 DEF podAddresses
<1>2. ASSUME NEW p \in pods PROVE \E a \in podAddresses(pods, service) : a.host = p
  <2>1. [host |-> p, service |-> Service(service)] \in podAddresses(pods, service)
    BY DEF podAddresses
  <2>2. [host |-> p, service |-> Service(service)].host = p
    OBVIOUS
  <2> QED
    BY <2>1, <2>2
<1> QED
  BY <1>1, <1>2

\* For every admitted specification, with any numbers of masters and hosts,
\* the names the masters know themselves by are those of their peers.
THEOREM MastersAlwaysFindThemselves == Spec => []MastersFindThemselves
<1>1. ASSUME NEW s, NEW n, Validated(s)
      PROVE  {localName(s, n, i) : i \in 0 .. s.masters.count - 1}
               = {a.host : a \in getMasterAddresses(s, n)}
  <2>1. CASE s.masters.hosts # 0
    <3>1. s.masters.hosts = s.masters.count /\ onHostNetwork(s)
      BY <1>1, <2>1 DEF Validated, validateHostAddresses
    <3>2. \A i : localName(s, n, i) = <<<<"host">>, i>>
      BY <2>1, <3>1 DEF localName, overridesLocalHost
    <3>3. {a.host : a \in getMasterAddresses(s, n)}
            = {<<<<"host">>, i>> : i \in 0 .. s.masters.hosts - 1}
      BY <2>1, HostsOfHosts DEF getMasterAddresses
    <3> QED
      BY <3>1, <3>2, <3>3
  <2>2. CASE s.masters.hosts = 0
    <3>1. \A i : localName(s, n, i) = <<getName(s, n, <<"ms">>), i>>
      BY <2>2 DEF localName, overridesLocalHost
    <3>2. {a.host : a \in getMasterAddresses(s, n)}
            = {<<getName(s, n, <<"ms">>), i>> : i \in 0 .. s.masters.count - 1}
      BY <2>2, HostsOfPods, Zenon DEF getMasterAddresses, GetMasterPodNames, podNames
    <3> QED
      BY <3>1, <3>2
  <2> QED
    BY <2>1, <2>2
<1>2. AdmissionInvariant => MastersFindThemselves
  BY <1>1, Zenon DEF AdmissionInvariant, MastersFindThemselves
<1> QED
  BY <1>2, AlwaysValidated, PTL

\* What an exec node promises is covered by its pod, whatever its resources.
THEOREM PromisesAreKept == Spec => []NodesPromiseWhatPodsHave
<1>1. ASSUME NEW g, resourced(g.node), g.jobs # <<>> => resourced(g.jobs[1])
      PROVE  LET limits == getExecNodeResourceLimits(g)
                 pod == doBuildBase(g)
             IN /\ limits.dedicated <= limits.total
                /\ limited(pod) /\ ~addResourceListPanics(g)
                     /\ sane(g.node) /\ (g.jobs # <<>> => sane(g.jobs[1]))
                     /\ ~(IsJobEnvironmentIsolated(g) /\ ~g.cri)
                     => limits.total <= podLimit(pod)
  <2> DEFINE limits == getExecNodeResourceLimits(g)
             pod == doBuildBase(g)
  <2>1. limits.dedicated <= limits.total
    BY <1>1 DEF getExecNodeResourceLimits, getResourceQuantity, resourced
  <2>2. ASSUME limited(pod), ~addResourceListPanics(g), sane(g.node),
               g.jobs # <<>> => sane(g.jobs[1]), ~(IsJobEnvironmentIsolated(g) /\ ~g.cri)
        PROVE  limits.total <= podLimit(pod)
    <3>1. CASE pours(g)
      <4>1. pod = <<Sum(g.node, g.jobs[1])>>
        BY <3>1 DEF doBuildBase, pours
      <4>2. podLimit(pod) = g.node.limit + g.jobs[1].limit
        BY <4>1 DEF podLimit, Sum
      <4>3. limits.total = getResourceQuantity(g.node) + getResourceQuantity(g.jobs[1])
        BY <3>1 DEF pours, getExecNodeResourceLimits
      <4> QED
        <5>1. resourced(g.node) /\ resourced(g.jobs[1]) /\ sane(g.node) /\ sane(g.jobs[1])
          BY <1>1, <2>2, <3>1, Zenon DEF pours
        <5>2. \A r : resourced(r) /\ sane(r) =>
                getResourceQuantity(r) \in Nat /\ getResourceQuantity(r) <= r.limit
          BY DEF resourced, sane, getResourceQuantity
        <5>3. g.node.limit \in Nat /\ g.jobs[1].limit \in Nat
          BY <5>1 DEF resourced
        <5> HIDE DEF limits, pod
        <5> QED
          BY <4>2, <4>3, <5>1, <5>2, <5>3
    <3>2. CASE ~pours(g) /\ IsJobEnvironmentIsolated(g)
      <4>1. pod = <<g.node, doBuildCRISidecar(g)>>
        BY <2>2, <3>2 DEF doBuildBase
      <4>2. podLimit(pod) = g.node.limit + doBuildCRISidecar(g).limit
        BY <4>1 DEF podLimit
      <4> QED
        BY <1>1, <2>2, <4>2 DEF doBuildCRISidecar, resourced, sane, getResourceQuantity,
                                getExecNodeResourceLimits
    <3>3. CASE ~pours(g) /\ ~IsJobEnvironmentIsolated(g)
      <4>1. pod = <<g.node>>
        BY <3>3 DEF doBuildBase
      <4>2. podLimit(pod) = g.node.limit
        BY <4>1 DEF podLimit
      <4> QED
        BY <1>1, <2>2, <3>3, <4>2 DEF pours, resourced, sane, getResourceQuantity,
                                     getExecNodeResourceLimits
    <3> QED
      BY <3>1, <3>2, <3>3
  <2> QED
    BY <2>1, <2>2
<1>2. AdmissionInvariant => NodesPromiseWhatPodsHave
  BY <1>1, FormedLists DEF AdmissionInvariant, NodesPromiseWhatPodsHave
<1> QED
  BY <1>2, AlwaysValidated, PTL

\* findQuotaForLocation: a quota, a claim or a volume is a natural number, and
\* so is the absence of all three.
LEMMA QuotaIsNatural ==
  ASSUME NEW g, quantified(g), NEW l \in g.locations
  PROVE  findQuotaForLocation(l, g) \in Nat
  BY DEF findQuotaForLocation, quantified

\* However quotas, claims and watermarks are given, a data node stops
\* accepting chunks before it stops writing; a slot's reserve, and a watermark
\* unless the specification gives it, is at most a tenth of the quota.
THEOREM RoomIsKept == Spec => []LocationsKeepRoom
<1>0. GiB \in Nat
  BY GiBAssumption
<1>1. ASSUME NEW g, quantified(g), NEW l \in g.locations
      PROVE  LET store == storeLocation(l, g)
             IN /\ store.disableWrites <= store.high /\ store.high <= store.low
                /\ l.lowWatermark = 0 => 10 * store.low <= store.quota
  <2> DEFINE store == storeLocation(l, g)
             quota == findQuotaForLocation(l, g)
  <2>1. quota \in Nat /\ l.lowWatermark \in Nat
    BY <1>1, QuotaIsNatural DEF quantified
  <2>2. /\ store.quota = quota
        /\ store.high = store.low \div 2
        /\ store.disableWrites = store.high \div 2
    BY DEF storeLocation
  <2>3. /\ store.low \in Nat
        /\ l.lowWatermark = 0 => store.low = 0 \/ store.low <= quota \div 10
    <3>1. CASE quota = 0
      BY <3>1 DEF storeLocation
    <3>2. CASE quota # 0 /\ l.lowWatermark # 0
      BY <2>1, <3>2 DEF storeLocation
    <3>3. CASE quota # 0 /\ l.lowWatermark = 0
      <4>1. store.low = Least(quota \div 10, 25 * GiB)
        BY <3>3 DEF storeLocation
      <4> QED
        BY <1>0, <2>1, <4>1 DEF Least
    <3> QED
      BY <2>1, <3>1, <3>2, <3>3
  <2> HIDE DEF store, quota
  <2>4. store.disableWrites <= store.high /\ store.high <= store.low
    BY <2>2, <2>3
  <2>5. l.lowWatermark = 0 => 10 * store.low <= store.quota
    BY <2>1, <2>2, <2>3
  <2> QED
    BY <2>4, <2>5 DEF store
<1>2. ASSUME NEW g, quantified(g), NEW x \in getExecNodeServerCarcass(g).slots
      PROVE  10 * x.watermark <= x.quota
  <2>1. PICK l \in g.locations : x = slotLocation(l, g)
    BY <1>2 DEF getExecNodeServerCarcass, FindAllLocations
  <2> DEFINE quota == findQuotaForLocation(l, g)
  <2>2. x.quota = quota /\ x.watermark = Least(quota \div 10, MaxSlotLocationReserve)
    BY <2>1 DEF slotLocation
  <2>3. quota \in Nat
    BY <1>2, QuotaIsNatural
  <2> QED
    BY <1>0, <2>2, <2>3 DEF Least, MaxSlotLocationReserve
<1>3. AdmissionInvariant => LocationsKeepRoom
  <2> SUFFICES ASSUME AdmissionInvariant PROVE LocationsKeepRoom
    OBVIOUS
  <2>1. \A n \in Existing : /\ \A g \in Range(stored[n].data) : quantified(g)
                            /\ \A g \in Range(stored[n].exec) : quantified(g)
    BY FormedLists DEF AdmissionInvariant
  <2> QED
    BY <1>1, <1>2, <2>1 DEF LocationsKeepRoom, FindAllLocations
<1> QED
  BY <1>3, AlwaysValidated, PTL

-----------------------------------------------------------------------------
(* Configurations.  Every server's has the same connection, which is that  *)
(* of the masters, the discovery servers and the caches; they differ in    *)
(* how they encrypt it.                                                    *)
ServerTypes ==
  {"Discovery", "Master", "MasterCache", "Scheduler", "ControllerAgent", "HttpProxy",
   "RpcProxy", "TcpProxy", "DataNode", "ExecNode", "TabletNode", "QueryTracker",
   "QueueAgent", "YqlAgent"}

\* The types of components that have a server.
LEMMA TypesOfServers ==
  ASSUME NEW s, NEW n, NEW c \in Servers(s, n)
  PROVE  c.type \in ServerTypes
  BY DEF Servers, NewComponentManager, single, component, ServerTypes

Bus(s, c) ==
  CASE c.type = "HttpProxy" ->
         [busServer(s, c) EXCEPT !.files = @ \cup getHTTPProxyServerCarcass(c.part)]
    [] c.type = "RpcProxy" /\ certified(c.part.tls) ->
         fillBusEncryption(fillClusterConnectionEncryption(s, c), c.part.tls)
    [] c.type = "RpcProxy" /\ ~certified(c.part.tls) -> fillClusterConnectionEncryption(s, c)
    [] c.type \in {"MasterCache", "TcpProxy"} -> fillClusterConnectionEncryption(s, c)
    [] OTHER -> busServer(s, c)

Connected(cfg, s, n, c) ==
  /\ cfg.connection = fillClusterConnection(s, n)
  /\ cfg.timestamps = getMasterAddresses(s, n)
  /\ cfg.bus = Bus(s, c)

\* fillCommonService leaves the transport as it was given.
LEMMA CommonService ==
  ASSUME NEW s, NEW n, NEW bus, NEW more
  PROVE  LET cfg == fillCommonService(s, n, bus, more)
         IN /\ cfg.connection = fillClusterConnection(s, n)
            /\ cfg.timestamps = getMasterAddresses(s, n)
            /\ cfg.bus = bus
            /\ cfg # NoConfig
  BY DEF fillCommonService, NoConfig

\* Every generated config addresses masters, discovery and caches alike.
LEMMA ConfigsAreConnected ==
  ASSUME NEW s, NEW n, NEW c, c.type \in ServerTypes, Config(s, n, c) # NoConfig
  PROVE  Connected(Config(s, n, c), s, n, c)
<1> USE CommonService DEF Connected, Bus
<1>1. CASE c.type = "HttpProxy"
  BY <1>1 DEF Config, getHTTPProxyConfigImpl
<1>2. CASE c.type = "RpcProxy"
  <2> DEFINE cfg == fillCommonService(s, n, fillClusterConnectionEncryption(s, c), <<>>)
  <2>1. Config(s, n, c) = IF certified(c.part.tls)
                          THEN [cfg EXCEPT !.bus = fillBusEncryption(@, c.part.tls)] ELSE cfg
    BY <1>2 DEF Config, GetRPCProxyConfig, getRPCProxyConfigImpl, withoutBusServer
  <2>2. CASE ~certified(c.part.tls)
    BY <1>2, <2>1, <2>2
  <2>3. CASE certified(c.part.tls)
    BY <1>2, <2>1, <2>3 DEF fillCommonService
  <2> QED
    BY <2>2, <2>3
<1>3. CASE c.type = "MasterCache"
  BY <1>3 DEF Config, getMasterCachesConfigImpl, withoutBusServer
<1>4. CASE c.type = "TcpProxy"
  BY <1>4 DEF Config, getTCPProxyConfigImpl, withoutBusServer
<1>5. CASE c.type = "Master"
  BY <1>5 DEF Config, getMasterConfigImpl, withBusServer
<1>6. CASE c.type = "DataNode"
  BY <1>6 DEF Config, getDataNodeConfigImpl, withBusServer
<1>7. CASE c.type = "ExecNode"
  BY <1>7 DEF Config, getExecNodeConfigImpl, withBusServer
<1>8. CASE c.type \in {"Discovery", "ControllerAgent", "TabletNode", "QueryTracker", "QueueAgent"}
  <2>1. Config(s, n, c) = fillCommonService(s, n, busServer(s, c), <<>>)
    BY <1>8 DEF Config, getDiscoveryConfigImpl, getControllerAgentConfigImpl,
                getTabletNodeConfigImpl, getQueryTrackerConfigImpl, getQueueAgentConfigImpl,
                withBusServer
  <2>2. Bus(s, c) = busServer(s, c)
    BY <1>8
  <2> HIDE DEF Bus
  <2> QED
    BY <2>1, <2>2
<1>9. CASE c.type = "Scheduler"
  BY <1>9 DEF Config, getSchedulerConfigImpl, withBusServer
<1>10. CASE c.type = "YqlAgent"
  BY <1>10 DEF Config, getYQLAgentConfigImpl, withBusServer
<1> QED
  BY <1>1, <1>2, <1>3, <1>4, <1>5, <1>6, <1>7, <1>8, <1>9, <1>10 DEF ServerTypes

\* The certificates a config names are those the server mounts.
LEMMA FilesAreMounted ==
  ASSUME NEW s, NEW c, c.type \in ServerTypes
  PROVE  Bus(s, c).files \subseteq mounted(s, c)
<1> DEFINE enc == fillClusterConnectionEncryption(s, c)
<1>1. /\ enc = [client |-> enc.client, server |-> enc.server, files |-> enc.files]
      /\ enc.files \subseteq mounted(s, c)
  BY DEF fillClusterConnectionEncryption, mounted
<1>2. /\ busServer(s, c) = [client |-> busServer(s, c).client, server |-> busServer(s, c).server,
                            files |-> busServer(s, c).files]
      /\ busServer(s, c).files \subseteq mounted(s, c)
  BY Zenon DEF busServer, fillBusServer, fillClusterConnectionEncryption, mounted
<1> HIDE DEF enc
<1>3. CASE c.type = "HttpProxy"
  <2>1. getHTTPProxyServerCarcass(c.part) \subseteq mounted(s, c)
    BY <1>3 DEF getHTTPProxyServerCarcass, mounted
  <2>2. Bus(s, c).files = busServer(s, c).files \cup getHTTPProxyServerCarcass(c.part)
    BY <1>2, <1>3 DEF Bus
  <2> QED
    BY <1>2, <2>1, <2>2
<1>4. CASE c.type = "RpcProxy" /\ certified(c.part.tls)
  <2>1. "rpc" \in mounted(s, c)
    BY <1>4 DEF mounted
  <2>2. Bus(s, c).files = enc.files \cup {"rpc"}
    BY <1>1, <1>4, Zenon DEF Bus, enc, fillBusEncryption
  <2> QED
    BY <1>1, <2>1, <2>2
<1>5. CASE c.type = "RpcProxy" /\ ~certified(c.part.tls)
  BY <1>1, <1>5 DEF Bus, enc
<1>6. CASE c.type \in {"MasterCache", "TcpProxy"}
  BY <1>1, <1>6 DEF Bus, enc
<1>7. CASE c.type \notin {"HttpProxy", "RpcProxy", "MasterCache", "TcpProxy"}
  BY <1>2, <1>7 DEF Bus
<1> QED
  BY <1>3, <1>4, <1>5, <1>6, <1>7

\* A server that inherits the common transport offers a certificate whenever
\* a client that inherits it insists on one.
LEMMA RequiredIsOffered ==
  ASSUME NEW s, NEW c, NEW d, c.type \in ServerTypes, d.type \in ServerTypes,
         inherits(s, c), inherits(s, d), d.type \notin {"MasterCache", "RpcProxy", "TcpProxy"},
         Bus(s, c).client = "required"
  PROVE  Bus(s, d).server # "none"
<1>1. Bus(s, c).client = fillClusterConnectionEncryption(s, c).client
  BY DEF Bus, busServer, fillBusServer, fillBusEncryption, fillClusterConnectionEncryption
<1>2. certified(s.transport)
  BY <1>1 DEF fillClusterConnectionEncryption, transport
<1>3. busServer(s, d).server = "optional"
  BY <1>2 DEF busServer, fillBusServer, fillClusterConnectionEncryption, transport
<1>4. Bus(s, d).server = busServer(s, d).server
  BY DEF Bus, busServer, fillBusServer, fillClusterConnectionEncryption
<1> QED
  BY <1>3, <1>4

\* Configs collects the configs of servers.
LEMMA ConfigsAre ==
  ASSUME NEW s, NEW n, NEW c \in DOMAIN Configs(s, n)
  PROVE  /\ c \in Servers(s, n) /\ c.type \in ServerTypes
         /\ Configs(s, n)[c] = Config(s, n, c)
         /\ Connected(Configs(s, n)[c], s, n, c)
<1>1. c \in Servers(s, n) /\ Config(s, n, c) # NoConfig /\ Configs(s, n)[c] = Config(s, n, c)
  BY DEF Configs
<1> QED
  BY <1>1, TypesOfServers, ConfigsAreConnected

\* For every admitted specification, whatever its transports: the files a
\* configuration names are mounted, what clients insist on is offered, and a
\* secure user interface finds its port.
THEOREM TransportsAlwaysAgree == Spec => []TransportsAgree
<1>1. ASSUME NEW s, NEW n, Validated(s), GetUIClustersConfig(s, n).secure
      PROVE  \E p \in Range(s.http) : p.role = DefaultName /\ "https" \in HTTPServiceBuild(p)
  BY <1>1, Zenon DEF Validated, validateHTTPProxies, validateUi, GetUIClustersConfig, HTTPServiceBuild
<1>2. AdmissionInvariant => TransportsAgree
  BY <1>1, ConfigsAre, FilesAreMounted, RequiredIsOffered
     DEF AdmissionInvariant, TransportsAgree, Connected
<1> QED
  BY <1>2, AlwaysValidated, PTL

-----------------------------------------------------------------------------
(* Services.  Claimed are those of the components.                         *)
Claimed(s, n) == UNION {c.objects : c \in NewComponentManager(s, n)}

\* The objects of a component are claimed.
LEMMA ComponentClaims ==
  ASSUME NEW s, NEW n, NEW type, NEW part, NEW objects, NEW o \in objects,
         component(type, part, objects) \in NewComponentManager(s, n)
  PROVE  o \in Claimed(s, n)
<1>1. component(type, part, objects).objects = objects
  BY DEF component
<1> QED
  BY <1>1 DEF Claimed

\* The services of masters and discovery servers are claimed in every
\* cluster, that of the caches where there are caches, and those of the
\* default HTTP proxies because validateHTTPProxies asks for the role.
LEMMA ServicesAreClaimed ==
  ASSUME NEW s, NEW n, Validated(s)
  PROVE  /\ Service(getName(s, n, <<"masters">>)) \in Claimed(s, n)
         /\ Service(getName(s, n, <<"discovery">>)) \in Claimed(s, n)
         /\ s.caches.given => Service(getName(s, n, <<"master-caches">>)) \in Claimed(s, n)
         /\ GetHTTPProxiesServiceName(s, n, DefaultName) \in Claimed(s, n)
         /\ GetHTTPProxiesHeadlessServiceName(s, n, DefaultName) \in Claimed(s, n)
         /\ s.shortNames /\ s.strawberry
              => GetStrawberryControllerServiceAddress(s, n) \in Claimed(s, n)
<1>1. Service(getName(s, n, <<"masters">>)) \in Claimed(s, n)
  <2>1. Service(getName(s, n, <<"masters">>)) \in NewMaster(s, n)
    BY DEF NewMaster, newServerConfigured
  <2>2. component("Master", <<>>, NewMaster(s, n)) \in NewComponentManager(s, n)
    BY DEF NewComponentManager
  <2> QED
    BY <2>1, <2>2, ComponentClaims
<1>2. Service(getName(s, n, <<"discovery">>)) \in Claimed(s, n)
  <2>1. Service(getName(s, n, <<"discovery">>)) \in NewDiscovery(s, n)
    BY DEF NewDiscovery, newServerConfigured
  <2>2. component("Discovery", <<>>, NewDiscovery(s, n)) \in NewComponentManager(s, n)
    BY DEF NewComponentManager
  <2> QED
    BY <2>1, <2>2, ComponentClaims
<1>3. ASSUME s.caches.given
      PROVE  Service(getName(s, n, <<"master-caches">>)) \in Claimed(s, n)
  <2>1. Service(getName(s, n, <<"master-caches">>)) \in NewMasterCache(s, n)
    BY DEF NewMasterCache, newServerConfigured
  <2>2. component("MasterCache", <<>>, NewMasterCache(s, n)) \in NewComponentManager(s, n)
    BY <1>3 DEF NewComponentManager, single
  <2> QED
    BY <2>1, <2>2, ComponentClaims
<1>4. /\ GetHTTPProxiesServiceName(s, n, DefaultName) \in Claimed(s, n)
      /\ GetHTTPProxiesHeadlessServiceName(s, n, DefaultName) \in Claimed(s, n)
  <2>1. PICK p \in Range(s.http) : p.role = DefaultName
    BY DEF Validated, validateHTTPProxies
  <2>2. component("HttpProxy", p, NewHTTPProxy(s, n, p)) \in NewComponentManager(s, n)
    BY DEF NewComponentManager
  <2>3. GetHTTPProxiesServiceName(s, n, DefaultName) \in NewHTTPProxy(s, n, p)
    BY <2>1 DEF NewHTTPProxy
  <2>4. GetHTTPProxiesHeadlessServiceName(s, n, DefaultName) \in NewHTTPProxy(s, n, p)
    BY <2>1 DEF NewHTTPProxy, group, newServerConfigured, GetHTTPProxiesHeadlessServiceName
  <2> QED
    BY <2>2, <2>3, <2>4, ComponentClaims
<1>5. ASSUME s.shortNames, s.strawberry
      PROVE  GetStrawberryControllerServiceAddress(s, n) \in Claimed(s, n)
  <2>1. component("StrawberryController", <<>>, NewStrawberryController(s, n))
          \in NewComponentManager(s, n)
    BY <1>5 DEF Validated, validateStrawberry, NewComponentManager, single
  <2>2. Service(<<"strawberry">>) \in NewStrawberryController(s, n)
    BY <1>5 DEF NewStrawberryController, newMicroservice
  <2>3. GetStrawberryControllerServiceAddress(s, n) = Service(<<"strawberry">>)
    BY <1>5 DEF GetStrawberryControllerServiceAddress, getName
  <2> QED
    BY <2>1, <2>2, <2>3, ComponentClaims
<1> QED
  BY <1>1, <1>2, <1>3, <1>4, <1>5

\* The services a connection addresses.
LEMMA AddressesNameServices ==
  ASSUME NEW s, NEW n
  PROVE  /\ \A a \in getMasterAddresses(s, n) :
              a.service \in {<<>>, Service(getName(s, n, <<"masters">>))}
         /\ \A a \in getDiscoveryAddresses(s, n) :
              a.service = Service(getName(s, n, <<"discovery">>))
         /\ \A a \in getMasterCachesAddresses(s, n) :
              a.service # <<>> => s.caches.given /\ a.service = Service(getName(s, n, <<"master-caches">>))
<1>1. \A k : \A a \in hostAddresses(k) : a.service = <<>>
  BY DEF hostAddresses
<1>2. \A pods, name : \A a \in podAddresses(pods, name) : a.service = Service(name)
  BY DEF podAddresses
<1>3. \A a \in getMasterAddresses(s, n) : a.service \in {<<>>, Service(getName(s, n, <<"masters">>))}
  BY <1>1, <1>2 DEF getMasterAddresses
<1>4. \A a \in getDiscoveryAddresses(s, n) : a.service = Service(getName(s, n, <<"discovery">>))
  BY <1>2 DEF getDiscoveryAddresses
<1>5. \A a \in getMasterCachesAddresses(s, n) :
        a.service # <<>> => s.caches.given /\ a.service = Service(getName(s, n, <<"master-caches">>))
  <2>1. CASE ~s.caches.given
    BY <2>1 DEF getMasterCachesAddresses
  <2>2. CASE s.caches.given /\ s.caches.hosts # 0
    <3>1. getMasterCachesAddresses(s, n) = hostAddresses(s.caches.hosts)
      BY <2>2 DEF getMasterCachesAddresses
    <3> QED
      BY <1>1, <3>1
  <2>3. CASE s.caches.given /\ s.caches.hosts = 0
    <3>1. getMasterCachesAddresses(s, n)
            = podAddresses(GetMasterCachesPodNames(s, n), getName(s, n, <<"master-caches">>))
      BY <2>3 DEF getMasterCachesAddresses
    <3> QED
      BY <1>2, <2>3, <3>1
  <2> QED
    BY <2>1, <2>2, <2>3
<1> QED
  BY <1>3, <1>4, <1>5

\* For every admitted specification: no configuration and no script of the
\* cluster addresses a service that no component creates.
THEOREM AddressesAlwaysResolve == Spec => []AddressesResolve
<1>1. ASSUME NEW s, NEW n, Validated(s), NEW c \in DOMAIN Configs(s, n)
      PROVE  addressed(Configs(s, n)[c]) \subseteq Claimed(s, n)
  <2> DEFINE cfg == Configs(s, n)[c]
  <2>1. cfg.connection = fillClusterConnection(s, n) /\ cfg.timestamps = getMasterAddresses(s, n)
    BY <1>1, ConfigsAre DEF Connected
  <2>2. /\ cfg.connection.masters = getMasterAddresses(s, n)
        /\ cfg.connection.discovery = getDiscoveryAddresses(s, n)
        /\ cfg.connection.caches \in {getMasterAddresses(s, n), getMasterCachesAddresses(s, n)}
    BY <2>1 DEF fillClusterConnection
  <2> QED
    BY <1>1, <2>1, <2>2, AddressesNameServices, ServicesAreClaimed DEF addressed
<1>2. ASSUME NEW s, NEW n
      PROVE  /\ GetUIClustersConfig(s, n).proxy = GetHTTPProxiesServiceName(s, n, DefaultName)
             /\ GetStrawberryControllerConfig(s, n).proxy = GetHTTPProxiesServiceName(s, n, DefaultName)
  BY DEF GetUIClustersConfig, GetStrawberryControllerConfig
<1>3. AdmissionInvariant => AddressesResolve
  BY <1>1, <1>2, ServicesAreClaimed DEF AdmissionInvariant, AddressesResolve, Claimed, Range
<1> QED
  BY <1>3, AlwaysValidated, PTL

-----------------------------------------------------------------------------
(* What can be configured. *)

\* Each generator that can fail finds the locations it asks for, because the
\* webhook has asked for them before.
LEMMA ConfigsCanBeMade ==
  ASSUME NEW s, NEW n, Validated(s), NEW c \in Servers(s, n)
  PROVE  Config(s, n, c) # NoConfig
<1>0. c.type \in ServerTypes
  BY TypesOfServers
<1> USE CommonService
<1>1. CASE c.type = "Master"
  BY <1>1 DEF Config, getMasterConfigImpl, withBusServer, Validated
<1>2. CASE c.type = "DataNode"
  <2>1. c.part \in Range(s.data)
    BY <1>2 DEF Servers, NewComponentManager, single, component
  <2>2. getDataNodeServerCarcass(c.part) # {}
    BY <2>1 DEF Validated, validateDataNodes, FindFirstLocation, getDataNodeServerCarcass
  <2> QED
    BY <1>2, <2>2 DEF Config, getDataNodeConfigImpl, withBusServer
<1>3. CASE c.type = "ExecNode"
  <2>1. c.part \in Range(s.exec)
    BY <1>3 DEF Servers, NewComponentManager, single, component
  <2>2. /\ FindFirstLocation(c.part.locations, "ChunkCache")
        /\ FindFirstLocation(c.part.locations, "Slots")
    BY <2>1 DEF Validated, validateExecNodes
  <2>3. getExecNodeServerCarcass(c.part).slots # {}
    BY <2>2 DEF FindFirstLocation, getExecNodeServerCarcass
  <2> QED
    BY <1>3, <2>2, <2>3 DEF Config, getExecNodeConfigImpl, withBusServer
<1>4. CASE c.type = "HttpProxy"
  BY <1>4 DEF Config, getHTTPProxyConfigImpl
<1>5. CASE c.type = "RpcProxy"
  BY <1>5 DEF Config, GetRPCProxyConfig, getRPCProxyConfigImpl, withoutBusServer,
              fillCommonService, NoConfig
<1>6. CASE c.type \in {"MasterCache", "TcpProxy"}
  BY <1>6 DEF Config, getMasterCachesConfigImpl, getTCPProxyConfigImpl, withoutBusServer
<1>7. CASE c.type \in {"Discovery", "ControllerAgent", "TabletNode", "QueryTracker", "QueueAgent"}
  <2>1. Config(s, n, c) = fillCommonService(s, n, busServer(s, c), <<>>)
    BY <1>7 DEF Config, getDiscoveryConfigImpl, getControllerAgentConfigImpl,
                getTabletNodeConfigImpl, getQueryTrackerConfigImpl, getQueueAgentConfigImpl,
                withBusServer
  <2> QED
    BY <2>1
<1>8. CASE c.type = "Scheduler"
  BY <1>8 DEF Config, getSchedulerConfigImpl, withBusServer
<1>9. CASE c.type = "YqlAgent"
  BY <1>9 DEF Config, getYQLAgentConfigImpl, withBusServer
<1> QED
  BY <1>0, <1>1, <1>2, <1>3, <1>4, <1>5, <1>6, <1>7, <1>8, <1>9 DEF ServerTypes

\* Every part that is given has its component or is known to be left out: the
\* conditions NewComponentManager adds to a part are among those the webhook
\* has checked, except for CHYT's.
LEMMA PartsAreBuilt ==
  ASSUME NEW s, NEW n, Validated(s), NEW p \in Parts(s)
  PROVE  p[2] \in LeftOut(s) \/ \E c \in NewComponentManager(s, n) : c.type = p[2]
<1>1. ASSUME NEW type, NEW objects,
             component(type, <<>>, objects) \in NewComponentManager(s, n)
      PROVE  \E c \in NewComponentManager(s, n) : c.type = type
  <2>1. component(type, <<>>, objects).type = type
    BY DEF component
  <2> QED
    BY <1>1, <2>1
<1>2. CASE p = <<s.schedulers, "Scheduler">>
  <2>1. s.schedulers /\ p[2] = "Scheduler"
    BY <1>2 DEF Parts
  <2>2. component("Scheduler", <<>>, NewScheduler(s, n)) \in NewComponentManager(s, n)
    BY <2>1 DEF NewComponentManager, single
  <2> QED
    BY <1>1, <2>1, <2>2
<1>3. CASE p = <<s.agents, "ControllerAgent">>
  <2>1. s.agents /\ p[2] = "ControllerAgent"
    BY <1>3 DEF Parts
  <2>2. component("ControllerAgent", <<>>, NewControllerAgent(s, n)) \in NewComponentManager(s, n)
    BY <2>1 DEF NewComponentManager, single
  <2> QED
    BY <1>1, <2>1, <2>2
<1>4. CASE p = <<s.qt, "QueryTracker">>
  <2>1. s.qt /\ p[2] = "QueryTracker"
    BY <1>4 DEF Parts
  <2>2. component("QueryTracker", <<>>, NewQueryTracker(s, n)) \in NewComponentManager(s, n)
    BY <2>1 DEF Validated, validateQueryTrackers, NewComponentManager, single
  <2> QED
    BY <1>1, <2>1, <2>2
<1>5. CASE p = <<s.qa, "QueueAgent">>
  <2>1. s.qa /\ p[2] = "QueueAgent"
    BY <1>5 DEF Parts
  <2>2. component("QueueAgent", <<>>, NewQueueAgent(s, n)) \in NewComponentManager(s, n)
    BY <2>1 DEF Validated, validateQueueAgents, NewComponentManager, single
  <2> QED
    BY <1>1, <2>1, <2>2
<1>6. CASE p = <<s.yql, "YqlAgent">>
  <2>1. s.yql /\ p[2] = "YqlAgent"
    BY <1>6 DEF Parts
  <2>2. component("YqlAgent", <<>>, NewYQLAgent(s, n)) \in NewComponentManager(s, n)
    BY <2>1 DEF NewComponentManager, single
  <2> QED
    BY <1>1, <2>1, <2>2
<1>7. CASE p = <<s.strawberry, "StrawberryController">>
  <2>1. s.strawberry /\ p[2] = "StrawberryController"
    BY <1>7 DEF Parts
  <2>2. component("StrawberryController", <<>>, NewStrawberryController(s, n))
          \in NewComponentManager(s, n)
    BY <2>1 DEF Validated, validateStrawberry, NewComponentManager, single
  <2> QED
    BY <1>1, <2>1, <2>2
<1>8. CASE p = <<s.ui # "none", "UI">>
  <2>1. s.ui # "none" /\ p[2] = "UI"
    BY <1>8, Zenon DEF Parts
  <2>2. component("UI", <<>>, NewUI(s, n)) \in NewComponentManager(s, n)
    BY <2>1 DEF NewComponentManager, single
  <2> QED
    BY <1>1, <2>1, <2>2
<1>9. CASE p = <<s.caches.given, "MasterCache">>
  <2>1. s.caches.given /\ p[2] = "MasterCache"
    BY <1>9 DEF Parts
  <2>2. component("MasterCache", <<>>, NewMasterCache(s, n)) \in NewComponentManager(s, n)
    BY <2>1 DEF NewComponentManager, single
  <2> QED
    BY <1>1, <2>1, <2>2
<1>10. CASE p = <<s.chyt, "StrawberryController">>
  <2>1. s.chyt /\ p[2] = "StrawberryController"
    BY <1>10 DEF Parts
  <2>2. CASE s.schedulers
    <3>1. component("StrawberryController", <<>>, NewStrawberryController(s, n))
            \in NewComponentManager(s, n)
      BY <2>1, <2>2 DEF NewComponentManager, single
    <3> QED
      BY <1>1, <2>1, <3>1
  <2>3. CASE ~s.schedulers
    BY <2>1, <2>3 DEF LeftOut
  <2> QED
    BY <2>2, <2>3
<1> QED
  BY <1>2, <1>3, <1>4, <1>5, <1>6, <1>7, <1>8, <1>9, <1>10 DEF Parts

\* For every sequence of creations and edits of any specifications: what the
\* webhook admits the operator can configure, with all of its parts but the
\* CHYT controller of a cluster without schedulers.
THEOREM AdmittedIsConfigurable == Spec => []AdmittedMeansConfigurable
<1>1. ASSUME NEW s, NEW n, Validated(s) PROVE Configurable(s, n)
  <2>1. s.http # <<>>
    BY <1>1 DEF Validated, validateHTTPProxies, Range
  <2>2. \A g \in Range(s.exec) : NoContainer \notin Range(g.sidecars)
    BY <1>1, Zenon DEF Validated, validateExecNodes, validateSidecars
  <2> QED
    BY <1>1, <2>1, <2>2, ConfigsCanBeMade, PartsAreBuilt DEF Configurable
<1>2. AdmissionInvariant => AdmittedMeansConfigurable
  BY <1>1 DEF AdmissionInvariant, AdmittedMeansConfigurable
<1> QED
  BY <1>2, AlwaysValidated, PTL

-----------------------------------------------------------------------------
(* Names.  They are sequences of words; S is a set of words they are made  *)
(* of.                                                                     *)

\* A role or group without its default: what FormatComponentStringWithDefault
\* joins to the base.
rest(name) == IF name = DefaultName THEN <<>> ELSE name

\* One word and a rest are sequences of words.
LEMMA OneWord == ASSUME NEW S, NEW x \in S PROVE <<x>> \in Seq(S)
  OBVIOUS
LEMMA RestWords == ASSUME NEW S, NEW r \in Seq(S) PROVE rest(r) \in Seq(S)
  BY DEF rest

\* A base before a role, as words of S.
LEMMA Joined ==
  ASSUME NEW S, NEW b \in S, NEW x \in Seq(S)
  PROVE  <<b>> \o x \in Seq(S) /\ <<b>> \o x # <<>> /\ (<<b>> \o x)[1] = b
<1>1. <<b>> \in Seq(S) /\ Len(<<b>>) = 1 /\ <<b>>[1] = b
  OBVIOUS
<1>2. Len(x) \in Nat
  OBVIOUS
<1> QED
  BY <1>1, <1>2, ConcatProperties

\* A word may be joined to the rest or to the whole.
LEMMA Regrouped ==
  ASSUME NEW S, NEW b \in S, NEW q \in Seq(S), NEW w \in S
  PROVE  Append(<<b>> \o q, w) = <<b>> \o Append(q, w)
<1>1. <<b>> \in Seq(S) /\ <<w>> \in Seq(S)
  BY OneWord
<1>2. Append(<<b>> \o q, w) = (<<b>> \o q) \o <<w>>
  BY Joined, AppendIsConcat, Zenon
<1>3. Append(q, w) = q \o <<w>>
  BY AppendIsConcat
<1> QED
  BY <1>1, <1>2, <1>3, ConcatAssociative

\* A word after a name.
LEMMA Appended ==
  ASSUME NEW S, NEW w \in S, NEW x \in Seq(S), x # <<>>
  PROVE  Append(x, w) \in Seq(S) /\ Append(x, w) # <<>> /\ Append(x, w)[1] = x[1]
<1>1. Len(x) \in Nat \ {0}
  BY EmptySeq
<1> QED
  BY <1>1, AppendProperties

\* The name of a group is its base and the rest.
LEMMA Formatted ==
  ASSUME NEW S, NEW b \in S, NEW r \in Seq(S)
  PROVE  /\ rest(r) \in Seq(S)
         /\ FormatComponentStringWithDefault(b, r) = <<b>> \o rest(r)
         /\ FormatComponentStringWithDefault(b, r) \in Seq(S)
         /\ FormatComponentStringWithDefault(b, r) # <<>>
         /\ FormatComponentStringWithDefault(b, r)[1] = b
<1>1. rest(r) \in Seq(S)
  BY RestWords
<1>2. FormatComponentStringWithDefault(b, r) = <<b>> \o rest(r)
  <2>1. <<b>> \o <<>> = <<b>>
    OBVIOUS
  <2> QED
    BY <2>1, Zenon DEF rest, FormatComponentStringWithDefault
<1> QED
  BY <1>1, <1>2, Joined

\* Two groups of one name have one rest, and are the same group.
LEMMA FormatDiffers ==
  ASSUME NEW S, NEW b \in S, NEW r \in Seq(S), NEW q \in Seq(S), r # <<>>, q # <<>>,
         FormatComponentStringWithDefault(b, r) = FormatComponentStringWithDefault(b, q)
  PROVE  r = q
<1>1. rest(r) \in Seq(S) /\ rest(q) \in Seq(S)
  BY RestWords, Zenon
<1>2. <<b>> \in Seq(S)
  BY OneWord
<1>3. FormatComponentStringWithDefault(b, r) = <<b>> \o rest(r)
  BY Formatted, Zenon
<1>4. FormatComponentStringWithDefault(b, q) = <<b>> \o rest(q)
  BY Formatted, Zenon
<1>5. <<b>> \o rest(r) = <<b>> \o rest(q)
  BY <1>3, <1>4, Zenon
<1>6. rest(r) = rest(q)
  BY <1>1, <1>2, <1>5, ConcatSimplifications, Zenon
<1> QED
  BY <1>6 DEF rest

\* The name of a group with a word added.
LEMMA FormatAppended ==
  ASSUME NEW S, NEW b \in S, NEW w \in S, NEW q \in Seq(S)
  PROVE  Append(FormatComponentStringWithDefault(b, q), w) = <<b>> \o Append(rest(q), w)
<1>1. rest(q) \in Seq(S)
  BY RestWords
<1>2. \A y \in Seq(S) : Append(<<b>> \o y, w) = <<b>> \o Append(y, w)
  BY Regrouped
<1>3. FormatComponentStringWithDefault(b, q) = <<b>> \o rest(q)
  BY Formatted
<1> QED
  BY <1>1, <1>2, <1>3, Zenon

\* The name of a group is that of another with a word added when the role is.
LEMMA FormatExtends ==
  ASSUME NEW S, NEW b \in S, NEW w \in S, "" \in S, NEW r \in Seq(S), NEW q \in Seq(S)
  PROVE  FormatComponentStringWithDefault(b, r) = Append(FormatComponentStringWithDefault(b, q), w)
           => extends(r, q, w)
<1>1. <<b>> \in Seq(S)
  BY OneWord
<1>2. rest(r) \in Seq(S) /\ Append(rest(q), w) \in Seq(S)
  BY RestWords, AppendProperties
<1>3. \A x \in S : FormatComponentStringWithDefault(x, r) = <<x>> \o rest(r)
  BY Formatted
<1>4. \A x \in S : Append(FormatComponentStringWithDefault(x, q), w) = <<x>> \o Append(rest(q), w)
  BY FormatAppended
<1>5. <<b>> \o rest(r) = <<b>> \o Append(rest(q), w) => rest(r) = Append(rest(q), w)
  BY <1>1, <1>2, ConcatSimplifications, Zenon
<1> QED
  BY <1>3, <1>4, <1>5, Zenon DEF extends

\* Names that end in the same word are equal when the rest is.
LEMMA LastCancels ==
  ASSUME NEW S, NEW w \in S, NEW x \in Seq(S), NEW y \in Seq(S), Append(x, w) = Append(y, w)
  PROVE  x = y
  BY AppendInjective

\* getName tells two names apart, and keeps how they begin.
LEMMA NameDiffers ==
  ASSUME NEW S, NEW s, NEW n \in S, NEW x \in Seq(S), NEW y \in Seq(S),
         getName(s, n, x) = getName(s, n, y)
  PROVE  x = y
<1>1. Append(x, n) = Append(y, n) => x = y
  BY LastCancels, Zenon
<1> QED
  BY <1>1, Zenon DEF getName
LEMMA NameKeeps ==
  ASSUME NEW S, NEW s, NEW n \in S, NEW x \in Seq(S), x # <<>>
  PROVE  getName(s, n, x) # <<>> /\ getName(s, n, x)[1] = x[1]
  BY Appended DEF getName

\* The words in the names of a group's objects.
Letters(n, label, set, service) ==
  Words \cup {n, label, set, service, "", "lb", "jobs", "monitoring", "config"}

\* A role or the name of a group is made of them.
LEMMA Spelled ==
  ASSUME NEW r, named(r), NEW n, NEW label, NEW set, NEW service
  PROVE  r \in Seq(Letters(n, label, set, service)) /\ r # <<>>
<1>1. Words \subseteq Letters(n, label, set, service)
  BY DEF Letters
<1> QED
  BY <1>1, SeqMonotonic DEF named

\* The objects of a group.
LEMMA GroupObjects ==
  ASSUME NEW s, NEW n, NEW label, NEW set, NEW service, NEW r,
         NEW o \in group(s, n, label, set, service, r)
  PROVE  \/ o = <<"StatefulSet", getName(s, n, FormatComponentStringWithDefault(set, r))>>
         \/ o = <<"Service", getName(s, n, FormatComponentStringWithDefault(service, r))>>
         \/ o = <<"Service", Append(FormatComponentStringWithDefault(label, r), "monitoring")>>
         \/ o = <<"ConfigMap", Append(FormatComponentStringWithDefault(label, r), "config")>>
  BY Zenon DEF group, newServerConfigured, Service, NewMonitoringService, GetMainConfigMapName

\* The names of two groups, and those of their objects, differ.
LEMMA GroupNames ==
  ASSUME NEW s, NEW n, NEW b, NEW r, NEW q, named(r), named(q)
  PROVE  /\ getName(s, n, FormatComponentStringWithDefault(b, r))
              = getName(s, n, FormatComponentStringWithDefault(b, q)) => r = q
         /\ \A w \in {"monitoring", "config"} :
              Append(FormatComponentStringWithDefault(b, r), w)
                = Append(FormatComponentStringWithDefault(b, q), w) => r = q
<1> DEFINE S == Letters(n, b, b, b)
<1>1. r \in Seq(S) /\ q \in Seq(S) /\ r # <<>> /\ q # <<>>
  BY Spelled
<1>2. n \in S /\ b \in S /\ "monitoring" \in S /\ "config" \in S
  BY DEF Letters
<1> HIDE DEF S
<1>3. /\ FormatComponentStringWithDefault(b, r) \in Seq(S)
      /\ FormatComponentStringWithDefault(b, q) \in Seq(S)
  BY <1>1, <1>2, Formatted, Zenon
<1>4. FormatComponentStringWithDefault(b, r) = FormatComponentStringWithDefault(b, q) => r = q
  BY <1>1, <1>2, FormatDiffers, Zenon
<1> QED
  BY <1>2, <1>3, <1>4, NameDiffers, LastCancels, Zenon

\* The words that the operator adds to the name of a group.
Suffixes == {"lb", "jobs", "monitoring", "config"}

\* How the names of a group's objects begin.
LEMMA GroupBegins ==
  ASSUME NEW s, NEW n, NEW b, NEW r, named(r)
  PROVE  getName(s, n, FormatComponentStringWithDefault(b, r))[1] = b
<1> DEFINE S == Letters(n, b, b, b)
<1>1. r \in Seq(S)
  BY Spelled
<1>2. n \in S /\ b \in S
  BY DEF Letters
<1> HIDE DEF S
<1>3. /\ FormatComponentStringWithDefault(b, r) \in Seq(S)
      /\ FormatComponentStringWithDefault(b, r) # <<>>
      /\ FormatComponentStringWithDefault(b, r)[1] = b
  BY <1>1, <1>2, Formatted, Zenon
<1> QED
  BY <1>2, <1>3, NameKeeps
LEMMA LabelBegins ==
  ASSUME NEW s, NEW n, NEW b, NEW r, named(r), NEW w \in Suffixes
  PROVE  /\ Append(FormatComponentStringWithDefault(b, r), w)[1] = b
         /\ getName(s, n, Append(FormatComponentStringWithDefault(b, r), w))[1] = b
         /\ Append(Append(FormatComponentStringWithDefault(b, r), w), "config")[1] = b
<1> DEFINE S == Letters(n, b, b, b)
           x == Append(FormatComponentStringWithDefault(b, r), w)
<1>1. r \in Seq(S)
  BY Spelled
<1>2. n \in S /\ b \in S /\ w \in S /\ "config" \in S
  BY DEF Letters, Suffixes
<1> HIDE DEF S
<1>3. /\ FormatComponentStringWithDefault(b, r) \in Seq(S)
      /\ FormatComponentStringWithDefault(b, r) # <<>>
      /\ FormatComponentStringWithDefault(b, r)[1] = b
  BY <1>1, <1>2, Formatted, Zenon
<1>4. x \in Seq(S) /\ x # <<>> /\ x[1] = b
  BY <1>2, <1>3, Appended
<1> HIDE DEF x
<1>5. getName(s, n, x)[1] = b /\ Append(x, "config")[1] = b
  BY <1>2, <1>4, NameKeeps, Appended
<1> QED
  BY <1>4, <1>5 DEF x

\* Two groups have no object in common.
LEMMA GroupsApart ==
  ASSUME NEW s, NEW n, NEW label, NEW set, NEW service, label # service,
         NEW r, NEW q, named(r), named(q),
         NEW o, o \in group(s, n, label, set, service, r), o \in group(s, n, label, set, service, q)
  PROVE  r = q
<1> DEFINE format(b, x) == FormatComponentStringWithDefault(b, x)
<1>1. getName(s, n, format(set, r)) = getName(s, n, format(set, q)) => r = q
  BY GroupNames, Zenon
<1>2. getName(s, n, format(service, r)) = getName(s, n, format(service, q)) => r = q
  BY GroupNames, Zenon
<1>3. \A w \in {"monitoring", "config"} :
        Append(format(label, r), w) = Append(format(label, q), w) => r = q
  BY GroupNames, Zenon
<1>4. ASSUME NEW x, NEW y, named(x), named(y)
      PROVE  getName(s, n, format(service, x)) # Append(format(label, y), "monitoring")
  <2>1. getName(s, n, format(service, x))[1] = service
    BY <1>4, GroupBegins
  <2>2. Append(format(label, y), "monitoring")[1] = label
    BY <1>4, LabelBegins, Zenon DEF Suffixes
  <2> QED
    BY <2>1, <2>2, Zenon
<1>5. \/ o = <<"StatefulSet", getName(s, n, format(set, r))>>
      \/ o = <<"Service", getName(s, n, format(service, r))>>
      \/ o = <<"Service", Append(format(label, r), "monitoring")>>
      \/ o = <<"ConfigMap", Append(format(label, r), "config")>>
  BY GroupObjects, Zenon
<1>6. \/ o = <<"StatefulSet", getName(s, n, format(set, q))>>
      \/ o = <<"Service", getName(s, n, format(service, q))>>
      \/ o = <<"Service", Append(format(label, q), "monitoring")>>
      \/ o = <<"ConfigMap", Append(format(label, q), "config")>>
  BY GroupObjects, Zenon
<1> HIDE DEF format
<1> QED
  BY <1>1, <1>2, <1>3, <1>4, <1>5, <1>6

\* A balancing service is a group's object when the group's role is that of
\* the balanced one with -lb added.
LEMMA BalancerApart ==
  ASSUME NEW s, NEW n, NEW label, NEW set, NEW service, label # service,
         NEW r, NEW q, named(r), named(q),
         balancer(s, n, service, r) \in group(s, n, label, set, service, q)
  PROVE  extends(q, r, "lb")
<1> DEFINE S == Letters(n, label, set, service)
           o == balancer(s, n, service, r)
           name == Append(FormatComponentStringWithDefault(service, r), "lb")
           other == FormatComponentStringWithDefault(service, q)
<1>1. o = <<"Service", getName(s, n, name)>>
  BY DEF balancer, Service
<1>2. \/ o = <<"StatefulSet", getName(s, n, FormatComponentStringWithDefault(set, q))>>
      \/ o = <<"Service", getName(s, n, other)>>
      \/ o = <<"Service", Append(FormatComponentStringWithDefault(label, q), "monitoring")>>
      \/ o = <<"ConfigMap", Append(FormatComponentStringWithDefault(label, q), "config")>>
  BY GroupObjects, Zenon
<1>3. /\ getName(s, n, name)[1] = service
      /\ Append(FormatComponentStringWithDefault(label, q), "monitoring")[1] = label
  <2>1. \A w \in Suffixes : getName(s, n, Append(FormatComponentStringWithDefault(service, r), w))[1] = service
    BY LabelBegins
  <2>2. \A w \in Suffixes : Append(FormatComponentStringWithDefault(label, q), w)[1] = label
    BY LabelBegins, Zenon
  <2> QED
    BY <2>1, <2>2, Zenon DEF Suffixes
<1>4. r \in Seq(S) /\ q \in Seq(S)
  BY Spelled
<1>5. n \in S /\ service \in S /\ "lb" \in S /\ "" \in S
  BY DEF Letters
<1> HIDE DEF o, name, S, other
<1>6. getName(s, n, name) = getName(s, n, other)
  BY <1>1, <1>2, <1>3
<1>7. name \in Seq(S) /\ other \in Seq(S)
  BY <1>4, <1>5, Formatted, Appended, Zenon DEF name, other
<1>8. other = name
  BY <1>5, <1>6, <1>7, NameDiffers, Zenon
<1> QED
  BY <1>4, <1>5, <1>8, FormatExtends, Zenon DEF other, name

\* Two balancing services differ.
LEMMA BalancersDiffer ==
  ASSUME NEW s, NEW n, NEW b, NEW r, NEW q, named(r), named(q),
         balancer(s, n, b, r) = balancer(s, n, b, q)
  PROVE  r = q
<1> DEFINE S == Letters(n, b, b, b)
           name(x) == Append(FormatComponentStringWithDefault(b, x), "lb")
<1>1. r \in Seq(S) /\ q \in Seq(S) /\ r # <<>> /\ q # <<>>
  BY Spelled
<1>2. n \in S /\ b \in S /\ "lb" \in S
  BY DEF Letters
<1>3. getName(s, n, name(r)) = getName(s, n, name(q))
  BY DEF balancer, Service
<1> HIDE DEF S
<1>4. /\ FormatComponentStringWithDefault(b, r) \in Seq(S)
      /\ FormatComponentStringWithDefault(b, q) \in Seq(S)
      /\ FormatComponentStringWithDefault(b, r) # <<>>
      /\ FormatComponentStringWithDefault(b, q) # <<>>
  BY <1>1, <1>2, Formatted, Zenon
<1>5. name(r) \in Seq(S) /\ name(q) \in Seq(S)
  BY <1>2, <1>4, Appended, Zenon
<1>6. name(r) = name(q)
  BY <1>2, <1>3, <1>5, NameDiffers, Zenon
<1>7. FormatComponentStringWithDefault(b, r) = FormatComponentStringWithDefault(b, q)
  BY <1>2, <1>4, <1>6, LastCancels, Zenon
<1> QED
  BY <1>1, <1>2, <1>7, FormatDiffers, Zenon

\* The config map of a CRI sidecar is a group's object when the group's name
\* is that of the sidecar's with -jobs added; those of two sidecars differ.
LEMMA SidecarApart ==
  ASSUME NEW s, NEW n, NEW label, NEW set, NEW service, NEW r, NEW q, named(r), named(q),
         GetSidecarConfigMapName(FormatComponentStringWithDefault(label, r), "jobs")
           \in group(s, n, label, set, service, q)
  PROVE  extends(q, r, "jobs")
<1> DEFINE S == Letters(n, label, set, service)
           o == GetSidecarConfigMapName(FormatComponentStringWithDefault(label, r), "jobs")
           name == Append(FormatComponentStringWithDefault(label, r), "jobs")
           other == FormatComponentStringWithDefault(label, q)
<1>1. o = <<"ConfigMap", Append(name, "config")>>
  BY DEF GetSidecarConfigMapName
<1>2. \/ o = <<"StatefulSet", getName(s, n, FormatComponentStringWithDefault(set, q))>>
      \/ o = <<"Service", getName(s, n, FormatComponentStringWithDefault(service, q))>>
      \/ o = <<"Service", Append(FormatComponentStringWithDefault(label, q), "monitoring")>>
      \/ o = <<"ConfigMap", Append(other, "config")>>
  BY GroupObjects, Zenon
<1>3. r \in Seq(S) /\ q \in Seq(S)
  BY Spelled
<1>4. label \in S /\ "jobs" \in S /\ "config" \in S /\ "" \in S
  BY DEF Letters
<1> HIDE DEF o, name, S, other
<1>5. Append(name, "config") = Append(other, "config")
  BY <1>1, <1>2
<1>6. name \in Seq(S) /\ other \in Seq(S)
  BY <1>3, <1>4, Formatted, Appended, Zenon DEF name, other
<1>7. other = name
  BY <1>4, <1>5, <1>6, LastCancels, Zenon
<1> QED
  BY <1>3, <1>4, <1>7, FormatExtends, Zenon DEF other, name
LEMMA SidecarsDiffer ==
  ASSUME NEW label, NEW r, NEW q, named(r), named(q),
         GetSidecarConfigMapName(FormatComponentStringWithDefault(label, r), "jobs")
           = GetSidecarConfigMapName(FormatComponentStringWithDefault(label, q), "jobs")
  PROVE  r = q
<1> DEFINE S == Letters(label, label, label, label)
           format(x) == FormatComponentStringWithDefault(label, x)
<1>1. r \in Seq(S) /\ q \in Seq(S) /\ r # <<>> /\ q # <<>>
  BY Spelled
<1>2. label \in S /\ "jobs" \in S /\ "config" \in S
  BY DEF Letters
<1>3. Append(Append(format(r), "jobs"), "config") = Append(Append(format(q), "jobs"), "config")
  BY DEF GetSidecarConfigMapName
<1> HIDE DEF S
<1>4. format(r) \in Seq(S) /\ format(q) \in Seq(S) /\ format(r) # <<>> /\ format(q) # <<>>
  BY <1>1, <1>2, Formatted, Zenon
<1>5. Append(format(r), "jobs") \in Seq(S) /\ Append(format(q), "jobs") \in Seq(S)
  BY <1>2, <1>4, Appended, Zenon
<1>6. Append(format(r), "jobs") = Append(format(q), "jobs")
  BY <1>2, <1>3, <1>5, LastCancels, Zenon
<1>7. format(r) = format(q)
  BY <1>2, <1>4, <1>6, LastCancels, Zenon
<1> QED
  BY <1>1, <1>2, <1>7, FormatDiffers, Zenon

-----------------------------------------------------------------------------
(* Objects.  A word of an object's name tells the type of the component    *)
(* that claims it, and the rest, for proxies and groups of nodes, the role *)
(* or the group's name.                                                    *)
InitJobNames ==
  {"default", "exit-read-only", "user", "op-archive", "qt-state", "qa-state",
   "yql-agent-environment", "cluster"}

\* The config map of an init job is named by the job before the component.
word(o) == IF o[1] = "ConfigMap" /\ o[2][1] \in InitJobNames THEN o[2][2] ELSE o[2][1]

typeOf(w) ==
  CASE w \in {"yt-discovery", "ds", "discovery"} -> "Discovery"
    [] w \in {"yt-master", "ms", "masters"} -> "Master"
    [] w \in {"yt-master-cache", "msc", "master-caches"} -> "MasterCache"
    [] w \in {"yt-client"} -> "YtsaurusClient"
    [] w \in {"yt-http-proxy", "hp", "http-proxies"} -> "HttpProxy"
    [] w \in {"yt-rpc-proxy", "rp", "rpc-proxies"} -> "RpcProxy"
    [] w \in {"yt-tcp-proxy", "tp", "tcp-proxies"} -> "TcpProxy"
    [] w \in {"yt-data-node", "dnd", "data-nodes"} -> "DataNode"
    [] w \in {"yt-tablet-node", "tnd", "tablet-nodes"} -> "TabletNode"
    [] w \in {"yt-exec-node", "end", "exec-nodes"} -> "ExecNode"
    [] w \in {"yt-scheduler", "sch", "schedulers"} -> "Scheduler"
    [] w \in {"yt-controller-agent", "ca", "controller-agents"} -> "ControllerAgent"
    [] w \in {"yt-query-tracker", "qt", "query-trackers"} -> "QueryTracker"
    [] w \in {"yt-queue-agent", "qa", "queue-agents"} -> "QueueAgent"
    [] w \in {"yt-yql-agent", "yqla", "yql-agents"} -> "YqlAgent"
    [] w \in {"yt-ui", "ytsaurus-ui-deployment", "ytsaurus-ui"} -> "UI"
    [] w \in {"yt", "chyt", "strawberry"} -> "StrawberryController"

\* A name begins with its first word.
LEMMA NameBegins == ASSUME NEW s, NEW n, NEW x PROVE getName(s, n, <<x>>)[1] = x
  BY DEF getName

\* The objects of a server are named by its label, its set and its service.
LEMMA ServerWords ==
  ASSUME NEW label, NEW set, NEW service, NEW l, l \notin InitJobNames,
         \A z \in Suffixes : Append(label, z)[1] = l,
         NEW o \in newServerConfigured(label, set, service)
  PROVE  word(o) \in {l, set[1], service[1]}
<1>1. CASE o = <<"StatefulSet", set>>
  BY <1>1 DEF word
<1>2. CASE o = Service(service)
  BY <1>2 DEF word, Service
<1>3. CASE o = NewMonitoringService(label)
  BY <1>3, Zenon DEF word, NewMonitoringService, Suffixes
<1>4. CASE o = GetMainConfigMapName(label)
  BY <1>4 DEF word, GetMainConfigMapName, Suffixes
<1> QED
  BY <1>1, <1>2, <1>3, <1>4 DEF newServerConfigured

\* The words that begin the names of the objects of a single server.
LEMMA SingleWords ==
  ASSUME NEW l, l \notin InitJobNames, NEW set, NEW service,
         NEW o \in newServerConfigured(<<l>>, set, service)
  PROVE  word(o) \in {l, set[1], service[1]}
<1>1. \A z \in Suffixes : Append(<<l>>, z)[1] = l
  OBVIOUS
<1> QED
  BY <1>1, ServerWords

\* The words that begin the names of the objects of a group.
LEMMA GroupWords ==
  ASSUME NEW s, NEW n, NEW l, l \notin InitJobNames, NEW set, NEW service, NEW name,
         named(name), NEW o \in group(s, n, l, set, service, name)
  PROVE  word(o) \in {l, set, service}
<1> DEFINE label == FormatComponentStringWithDefault(l, name)
           sets == getName(s, n, FormatComponentStringWithDefault(set, name))
           services == getName(s, n, FormatComponentStringWithDefault(service, name))
<1>1. \A z \in Suffixes : Append(label, z)[1] = l
  BY LabelBegins, Zenon
<1>3. sets[1] = set
  BY GroupBegins
<1>4. services[1] = service
  BY GroupBegins
<1>2. o \in newServerConfigured(label, sets, services)
  BY DEF group
<1> HIDE DEF label, sets, services
<1> QED
  BY <1>1, <1>2, <1>3, <1>4, ServerWords, Zenon

\* The objects of an init job begin with the label of its component.
LEMMA JobWords ==
  ASSUME NEW l, NEW name \in InitJobNames, NEW o \in NewInitJob(<<l>>, name)
  PROVE  word(o) = l
<1>1. CASE o = GetInitJobName(<<l>>, name)
  <2>1. o[1] # "ConfigMap" /\ o[2][1] = l
    BY <1>1 DEF GetInitJobName
  <2> QED
    BY <2>1 DEF word
<1>2. CASE o = <<"ConfigMap", <<name>> \o <<l>> \o <<"init-job", "config">>>>
  <2> DEFINE q == <<name>> \o <<l>> \o <<"init-job", "config">>
  <2>1. q[1] = name /\ q[2] = l
    OBVIOUS
  <2> HIDE DEF q
  <2>2. o[1] = "ConfigMap" /\ o[2] = q
    BY <1>2 DEF q
  <2> QED
    BY <2>1, <2>2 DEF word
<1> QED
  BY <1>1, <1>2, Zenon DEF NewInitJob

\* So does a secret.
LEMMA SecretWord == ASSUME NEW l PROVE word(GetSecretName(<<l>>)) = l
  BY DEF word, GetSecretName

\* The fields of a component.
LEMMA ComponentFields ==
  ASSUME NEW type, NEW part, NEW objects
  PROVE  /\ component(type, part, objects).type = type
         /\ component(type, part, objects).part = part
         /\ component(type, part, objects).objects = objects
  BY DEF component

\* The proxies and groups of nodes of each type, with what each claims.
Grouped(s, n) ==
  {component("HttpProxy", p, NewHTTPProxy(s, n, p)) : p \in Range(s.http)}
    \cup {component("RpcProxy", p, NewRPCProxy(s, n, p)) : p \in Range(s.rpc)}
    \cup {component("TcpProxy", p, NewTCPProxy(s, n, p)) : p \in Range(s.tcp)}
    \cup {component("DataNode", g, NewDataNode(s, n, g)) : g \in Range(s.data)}
    \cup {component("ExecNode", g, NewExecNode(s, n, g)) : g \in Range(s.exec)}
    \cup {component("TabletNode", g, NewTabletNode(s, n, g)) : g \in Range(s.tablets)}

\* The others, of which a cluster has one of each at most.
Single(s, n) ==
  {component("Discovery", <<>>, NewDiscovery(s, n)),
   component("Master", <<>>, NewMaster(s, n)),
   component("YtsaurusClient", <<>>, NewYtsaurusClient(s, n)),
   component("UI", <<>>, NewUI(s, n)),
   component("Scheduler", <<>>, NewScheduler(s, n)),
   component("ControllerAgent", <<>>, NewControllerAgent(s, n)),
   component("QueryTracker", <<>>, NewQueryTracker(s, n)),
   component("QueueAgent", <<>>, NewQueueAgent(s, n)),
   component("YqlAgent", <<>>, NewYQLAgent(s, n)),
   component("StrawberryController", <<>>, NewStrawberryController(s, n)),
   component("MasterCache", <<>>, NewMasterCache(s, n))}

\* NewComponentManager makes components of these two sorts only.
LEMMA Components ==
  ASSUME NEW s, NEW n PROVE NewComponentManager(s, n) \subseteq Grouped(s, n) \cup Single(s, n)
  BY DEF NewComponentManager, single, Grouped, Single

\* There is one component of each single type.
LEMMA SinglesDiffer ==
  ASSUME NEW s, NEW n, NEW c \in Single(s, n), NEW d \in Grouped(s, n) \cup Single(s, n),
         c.type = d.type
  PROVE  c = d
  BY ComponentFields DEF Single, Grouped

\* The first word of an object tells the type of its single component.
LEMMA SingleTypes ==
  ASSUME NEW s, NEW n, NEW c \in Single(s, n), NEW o \in c.objects
  PROVE  typeOf(word(o)) = c.type
<1> USE DEF InitJobNames
<1>1. CASE c = component("Discovery", <<>>, NewDiscovery(s, n))
  <2>1. word(o) \in {"yt-discovery", "ds", "discovery"}
    BY <1>1, ComponentFields, SingleWords, NameBegins DEF NewDiscovery
  <2> QED
    BY <1>1, <2>1, ComponentFields DEF typeOf
<1>2. CASE c = component("Master", <<>>, NewMaster(s, n))
  <2>1. word(o) \in {"yt-master", "ms", "masters"}
    BY <1>2, ComponentFields, SingleWords, NameBegins, JobWords DEF NewMaster
  <2> QED
    BY <1>2, <2>1, ComponentFields DEF typeOf
<1>3. CASE c = component("YtsaurusClient", <<>>, NewYtsaurusClient(s, n))
  <2>1. word(o) = "yt-client"
    BY <1>3, ComponentFields, JobWords, SecretWord DEF NewYtsaurusClient
  <2> QED
    BY <1>3, <2>1, ComponentFields DEF typeOf
<1>4. CASE c = component("UI", <<>>, NewUI(s, n))
  <2>1. ASSUME o \in newMicroservice(<<"yt-ui">>, <<"ytsaurus-ui-deployment">>, <<"ytsaurus-ui">>)
        PROVE  word(o) \in {"yt-ui", "ytsaurus-ui-deployment", "ytsaurus-ui"}
    BY <2>1 DEF newMicroservice, word, Service, GetMainConfigMapName
  <2>2. word(o) \in {"yt-ui", "ytsaurus-ui-deployment", "ytsaurus-ui"}
    BY <1>4, <2>1, ComponentFields, JobWords, SecretWord DEF NewUI
  <2> QED
    BY <1>4, <2>2, ComponentFields DEF typeOf
<1>5. CASE c = component("Scheduler", <<>>, NewScheduler(s, n))
  <2>1. word(o) \in {"yt-scheduler", "sch", "schedulers"}
    BY <1>5, ComponentFields, SingleWords, NameBegins, JobWords, SecretWord DEF NewScheduler
  <2> QED
    BY <1>5, <2>1, ComponentFields DEF typeOf
<1>6. CASE c = component("ControllerAgent", <<>>, NewControllerAgent(s, n))
  <2>1. word(o) \in {"yt-controller-agent", "ca", "controller-agents"}
    BY <1>6, ComponentFields, SingleWords DEF NewControllerAgent
  <2> QED
    BY <1>6, <2>1, ComponentFields DEF typeOf
<1>7. CASE c = component("QueryTracker", <<>>, NewQueryTracker(s, n))
  <2>1. word(o) \in {"yt-query-tracker", "qt", "query-trackers"}
    BY <1>7, ComponentFields, SingleWords, NameBegins, JobWords, SecretWord DEF NewQueryTracker
  <2> QED
    BY <1>7, <2>1, ComponentFields DEF typeOf
<1>8. CASE c = component("QueueAgent", <<>>, NewQueueAgent(s, n))
  <2>1. word(o) \in {"yt-queue-agent", "qa", "queue-agents"}
    BY <1>8, ComponentFields, SingleWords, NameBegins, JobWords, SecretWord DEF NewQueueAgent
  <2> QED
    BY <1>8, <2>1, ComponentFields DEF typeOf
<1>9. CASE c = component("YqlAgent", <<>>, NewYQLAgent(s, n))
  <2>1. word(o) \in {"yt-yql-agent", "yqla", "yql-agents"}
    BY <1>9, ComponentFields, SingleWords, NameBegins, JobWords, SecretWord DEF NewYQLAgent
  <2> QED
    BY <1>9, <2>1, ComponentFields DEF typeOf
<1>10. CASE c = component("StrawberryController", <<>>, NewStrawberryController(s, n))
  <2>1. PICK name \in {"strawberry", "chyt"} :
          o \in newMicroservice(<<"yt", name, "controller">>, <<name, "controller">>, <<name>>)
                  \cup NewInitJob(<<"yt", name, "controller">>, "user")
                  \cup NewInitJob(<<"yt", name, "controller">>, "cluster")
                  \cup {GetSecretName(<<"yt", name, "controller">>)}
    BY <1>10, ComponentFields DEF NewStrawberryController
  <2>2. ASSUME o \in newMicroservice(<<"yt", name, "controller">>, <<name, "controller">>, <<name>>)
        PROVE  word(o) \in {"yt", name}
    BY <2>2 DEF newMicroservice, word, Service, GetMainConfigMapName
  <2>3. ASSUME NEW job \in {"user", "cluster"},
               o \in NewInitJob(<<"yt", name, "controller">>, job)
        PROVE  word(o) = "yt"
    <3> DEFINE q == <<job>> \o <<"yt", name, "controller">> \o <<"init-job", "config">>
    <3>1. q[1] = job /\ q[2] = "yt"
      OBVIOUS
    <3> HIDE DEF q
    <3>2. CASE o = <<"ConfigMap", q>>
      BY <3>1, <3>2 DEF word
    <3>3. CASE o = GetInitJobName(<<"yt", name, "controller">>, job)
      <4>1. o[1] # "ConfigMap" /\ o[2][1] = "yt"
        BY <3>3 DEF GetInitJobName
      <4> QED
        BY <4>1 DEF word
    <3> QED
      BY <2>3, <3>2, <3>3 DEF NewInitJob, q
  <2>4. word(GetSecretName(<<"yt", name, "controller">>)) = "yt"
    BY DEF GetSecretName, word
  <2>5. word(o) \in {"yt", "strawberry", "chyt"}
    BY <2>1, <2>2, <2>3, <2>4
  <2> QED
    BY <1>10, <2>5, ComponentFields DEF typeOf
<1>11. CASE c = component("MasterCache", <<>>, NewMasterCache(s, n))
  <2>1. word(o) \in {"yt-master-cache", "msc", "master-caches"}
    BY <1>11, ComponentFields, SingleWords, NameBegins DEF NewMasterCache
  <2> QED
    BY <1>11, <2>1, ComponentFields DEF typeOf
<1> QED
  BY <1>1, <1>2, <1>3, <1>4, <1>5, <1>6, <1>7, <1>8, <1>9, <1>10, <1>11 DEF Single

\* A balancing service begins with the name of its proxies, and the config map
\* of a sidecar with the label of its nodes.
LEMMA BalancerWord ==
  ASSUME NEW s, NEW n, NEW base, NEW role, named(role)
  PROVE  word(balancer(s, n, base, role)) = base
<1> DEFINE name == getName(s, n, Append(FormatComponentStringWithDefault(base, role), "lb"))
<1>1. name[1] = base
  BY LabelBegins DEF Suffixes
<1> HIDE DEF name
<1>2. balancer(s, n, base, role) = <<"Service", name>>
  BY DEF name, balancer, Service
<1> QED
  BY <1>1, <1>2 DEF word
LEMMA SidecarWord ==
  ASSUME NEW label, label \notin InitJobNames, NEW name, named(name)
  PROVE  word(GetSidecarConfigMapName(FormatComponentStringWithDefault(label, name), "jobs")) = label
<1> DEFINE map == Append(Append(FormatComponentStringWithDefault(label, name), "jobs"), "config")
<1>1. map[1] = label
  BY LabelBegins DEF Suffixes
<1> HIDE DEF map
<1>2. GetSidecarConfigMapName(FormatComponentStringWithDefault(label, name), "jobs")
        = <<"ConfigMap", map>>
  BY DEF map, GetSidecarConfigMapName
<1> QED
  BY <1>1, <1>2 DEF word

\* The first word of an object tells the type of its group.
LEMMA GroupedTypes ==
  ASSUME NEW s, NEW n, Formed(s), NEW c \in Grouped(s, n), NEW o \in c.objects
  PROVE  typeOf(word(o)) = c.type
<1> USE DEF InitJobNames
<1>1. ASSUME NEW p \in Range(s.http), c = component("HttpProxy", p, NewHTTPProxy(s, n, p))
      PROVE  typeOf(word(o)) = c.type
  <2>0. named(p.role)
    BY FormedLists
  <2>1. word(o) \in {"yt-http-proxy", "hp", "http-proxies"}
    BY <1>1, <2>0, ComponentFields, GroupWords, BalancerWord DEF NewHTTPProxy, GetHTTPProxiesServiceName
  <2> QED
    BY <1>1, <2>1, ComponentFields DEF typeOf
<1>2. ASSUME NEW p \in Range(s.rpc), c = component("RpcProxy", p, NewRPCProxy(s, n, p))
      PROVE  typeOf(word(o)) = c.type
  <2>0. named(p.role)
    BY FormedLists
  <2>1. word(o) \in {"yt-rpc-proxy", "rp", "rpc-proxies"}
    BY <1>2, <2>0, ComponentFields, GroupWords, BalancerWord DEF NewRPCProxy, GetRPCProxiesServiceName
  <2> QED
    BY <1>2, <2>1, ComponentFields DEF typeOf
<1>3. ASSUME NEW p \in Range(s.tcp), c = component("TcpProxy", p, NewTCPProxy(s, n, p))
      PROVE  typeOf(word(o)) = c.type
  <2>0. named(p.role)
    BY FormedLists
  <2>1. word(o) \in {"yt-tcp-proxy", "tp", "tcp-proxies"}
    BY <1>3, <2>0, ComponentFields, GroupWords, BalancerWord DEF NewTCPProxy, GetTCPProxiesServiceName
  <2> QED
    BY <1>3, <2>1, ComponentFields DEF typeOf
<1>4. ASSUME NEW g \in Range(s.data), c = component("DataNode", g, NewDataNode(s, n, g))
      PROVE  typeOf(word(o)) = c.type
  <2>0. named(g.name)
    BY FormedLists
  <2>1. word(o) \in {"yt-data-node", "dnd", "data-nodes"}
    BY <1>4, <2>0, ComponentFields, GroupWords DEF NewDataNode
  <2> QED
    BY <1>4, <2>1, ComponentFields DEF typeOf
<1>5. ASSUME NEW g \in Range(s.exec), c = component("ExecNode", g, NewExecNode(s, n, g))
      PROVE  typeOf(word(o)) = c.type
  <2>0. named(g.name)
    BY FormedLists
  <2>1. word(GetSidecarConfigMapName(FormatComponentStringWithDefault("yt-exec-node", g.name), "jobs"))
          = "yt-exec-node"
    BY <2>0, SidecarWord
  <2>2. word(o) \in {"yt-exec-node", "end", "exec-nodes"}
    BY <1>5, <2>0, <2>1, ComponentFields, GroupWords DEF NewExecNode
  <2> QED
    BY <1>5, <2>2, ComponentFields DEF typeOf
<1>6. ASSUME NEW g \in Range(s.tablets), c = component("TabletNode", g, NewTabletNode(s, n, g))
      PROVE  typeOf(word(o)) = c.type
  <2>0. named(g.name)
    BY FormedLists
  <2>1. word(o) \in {"yt-tablet-node", "tnd", "tablet-nodes"}
    BY <1>6, <2>0, ComponentFields, GroupWords DEF NewTabletNode
  <2> QED
    BY <1>6, <2>1, ComponentFields DEF typeOf
<1> QED
  BY <1>1, <1>2, <1>3, <1>4, <1>5, <1>6 DEF Grouped

\* What a list of proxies or groups without repetitions keys by role or name
\* is a function of it.
LEMMA KeysDiffer ==
  ASSUME NEW q, NEW p \in Range(q), NEW p2 \in Range(q), p # p2
  PROVE  /\ (\A i, j \in DOMAIN q : q[i].role = q[j].role => i = j) => p.role # p2.role
         /\ (\A i, j \in DOMAIN q : q[i].name = q[j].name => i = j) => p.name # p2.name
  BY DEF Range

\* An object that two roles of proxies claim: X and Y say whether they are
\* balanced.
LEMMA ProxiesApart ==
  ASSUME NEW s, NEW n, NEW label, NEW set, NEW service, label # service,
         NEW r, NEW q, named(r), named(q), r # q, NEW X, NEW Y,
         NEW o, o \in group(s, n, label, set, service, r) \/ (X /\ o = balancer(s, n, service, r)),
         o \in group(s, n, label, set, service, q) \/ (Y /\ o = balancer(s, n, service, q))
  PROVE  (X /\ extends(q, r, "lb")) \/ (Y /\ extends(r, q, "lb"))
<1>1. ~(o \in group(s, n, label, set, service, r) /\ o \in group(s, n, label, set, service, q))
  BY GroupsApart, Zenon
<1>2. balancer(s, n, service, r) \in group(s, n, label, set, service, q) => extends(q, r, "lb")
  BY BalancerApart, Zenon
<1>3. balancer(s, n, service, q) \in group(s, n, label, set, service, r) => extends(r, q, "lb")
  BY BalancerApart, Zenon
<1>4. balancer(s, n, service, r) # balancer(s, n, service, q)
  BY BalancersDiffer, Zenon
<1> QED
  BY <1>1, <1>2, <1>3, <1>4, Zenon

\* An object that two groups of exec nodes claim.
LEMMA ExecNodesApart ==
  ASSUME NEW s, NEW n, NEW g, NEW h, named(g.name), named(h.name), g.name # h.name,
         NEW o, o \in NewExecNode(s, n, g), o \in NewExecNode(s, n, h)
  PROVE  (g.cri /\ extends(h.name, g.name, "jobs")) \/ (h.cri /\ extends(g.name, h.name, "jobs"))
<1> DEFINE map(x) == GetSidecarConfigMapName(FormatComponentStringWithDefault("yt-exec-node", x), "jobs")
           nodes(x) == group(s, n, "yt-exec-node", "end", "exec-nodes", x)
<1>1. /\ o \in nodes(g.name) \/ (g.cri /\ o = map(g.name))
      /\ o \in nodes(h.name) \/ (h.cri /\ o = map(h.name))
  BY Zenon DEF NewExecNode
<1>2. "yt-exec-node" # "exec-nodes"
  OBVIOUS
<1>3. ~(o \in nodes(g.name) /\ o \in nodes(h.name))
  BY <1>2, GroupsApart, Zenon
<1>4. map(g.name) \in nodes(h.name) => extends(h.name, g.name, "jobs")
  BY SidecarApart, Zenon
<1>5. map(h.name) \in nodes(g.name) => extends(g.name, h.name, "jobs")
  BY SidecarApart, Zenon
<1>6. map(g.name) # map(h.name)
  BY SidecarsDiffer, Zenon
<1> HIDE DEF map, nodes
<1> QED
  BY <1>1, <1>3, <1>4, <1>5, <1>6, Zenon

\* Which part of the specification a group comes from.
LEMMA GroupedParts ==
  ASSUME NEW s, NEW n, NEW c \in Grouped(s, n)
  PROVE  /\ c.type = "HttpProxy" => \E p \in Range(s.http) : c = component("HttpProxy", p, NewHTTPProxy(s, n, p))
         /\ c.type = "RpcProxy" => \E p \in Range(s.rpc) : c = component("RpcProxy", p, NewRPCProxy(s, n, p))
         /\ c.type = "TcpProxy" => \E p \in Range(s.tcp) : c = component("TcpProxy", p, NewTCPProxy(s, n, p))
         /\ c.type = "DataNode" => \E p \in Range(s.data) : c = component("DataNode", p, NewDataNode(s, n, p))
         /\ c.type = "ExecNode" => \E p \in Range(s.exec) : c = component("ExecNode", p, NewExecNode(s, n, p))
         /\ c.type = "TabletNode" => \E p \in Range(s.tablets) : c = component("TabletNode", p, NewTabletNode(s, n, p))
  BY ComponentFields DEF Grouped

\* Two components of one type have different roles or groups, and so do their
\* objects.
LEMMA GroupedDiffer ==
  ASSUME NEW s, NEW n, Validated(s), Formed(s), ~Reserved(s),
         NEW c \in Grouped(s, n), NEW d \in Grouped(s, n), c.type = d.type, c # d,
         NEW o \in c.objects, o \in d.objects
  PROVE  FALSE
<1>1. CASE c.type = "HttpProxy"
  <2>1. PICK p \in Range(s.http) : c = component("HttpProxy", p, NewHTTPProxy(s, n, p))
    BY <1>1, GroupedParts
  <2>2. PICK p2 \in Range(s.http) : d = component("HttpProxy", p2, NewHTTPProxy(s, n, p2))
    <3>1. d.type = "HttpProxy"
      BY <1>1
    <3> QED
      BY <3>1, GroupedParts
  <2>3. p.role # p2.role
    BY <2>1, <2>2, KeysDiffer DEF Validated, validateHTTPProxies, distinct
  <2>4. named(p.role) /\ named(p2.role)
    BY <2>1, <2>2, FormedLists
  <2> DEFINE proxies(x) == group(s, n, "yt-http-proxy", "hp", "http-proxies", x)
             lb(x) == balancer(s, n, "http-proxies", x)
  <2>5. /\ o \in proxies(p.role) \/ o = lb(p.role)
        /\ o \in proxies(p2.role) \/ o = lb(p2.role)
    BY <2>1, <2>2, ComponentFields DEF NewHTTPProxy, GetHTTPProxiesServiceName
  <2>6. "yt-http-proxy" # "http-proxies"
    OBVIOUS
  <2>7. ~(o \in proxies(p.role) /\ o \in proxies(p2.role))
    BY <2>3, <2>4, <2>6, GroupsApart, Zenon
  <2>8. extends(p2.role, p.role, "lb") \/ extends(p.role, p2.role, "lb")
    <3>1. lb(p.role) \in proxies(p2.role) => extends(p2.role, p.role, "lb")
      BY <2>4, <2>6, BalancerApart, Zenon
    <3>2. lb(p2.role) \in proxies(p.role) => extends(p.role, p2.role, "lb")
      BY <2>4, <2>6, BalancerApart, Zenon
    <3>3. lb(p.role) # lb(p2.role)
      BY <2>3, <2>4, BalancersDiffer, Zenon
    <3> HIDE DEF proxies, lb
    <3> QED
      BY <2>5, <2>7, <3>1, <3>2, <3>3, Zenon
  <2> QED
    BY <2>1, <2>2, <2>8 DEF Reserved
<1>2. CASE c.type = "RpcProxy"
  <2>1. PICK p \in Range(s.rpc) : c = component("RpcProxy", p, NewRPCProxy(s, n, p))
    BY <1>2, GroupedParts
  <2>2. PICK p2 \in Range(s.rpc) : d = component("RpcProxy", p2, NewRPCProxy(s, n, p2))
    <3>1. d.type = "RpcProxy"
      BY <1>2
    <3> QED
      BY <3>1, GroupedParts
  <2>3. p.role # p2.role
    BY <2>1, <2>2, KeysDiffer DEF Validated, validateRPCProxies, distinct
  <2>4. named(p.role) /\ named(p2.role)
    BY <2>1, <2>2, FormedLists
  <2>5. ASSUME NEW x, o \in NewRPCProxy(s, n, x)
        PROVE  \/ o \in group(s, n, "yt-rpc-proxy", "rp", "rpc-proxies", x.role)
               \/ x.balanced /\ o = balancer(s, n, "rpc-proxies", x.role)
    BY <2>5, Zenon DEF NewRPCProxy, GetRPCProxiesServiceName
  <2>6. o \in NewRPCProxy(s, n, p) /\ o \in NewRPCProxy(s, n, p2)
    BY <2>1, <2>2, ComponentFields
  <2>7. "yt-rpc-proxy" # "rpc-proxies"
    OBVIOUS
  <2>8. \/ p.balanced /\ extends(p2.role, p.role, "lb")
        \/ p2.balanced /\ extends(p.role, p2.role, "lb")
    BY <2>3, <2>4, <2>5, <2>6, <2>7, ProxiesApart, Zenon
  <2> QED
    BY <2>1, <2>2, <2>8 DEF Reserved
<1>3. CASE c.type = "TcpProxy"
  <2>1. PICK p \in Range(s.tcp) : c = component("TcpProxy", p, NewTCPProxy(s, n, p))
    BY <1>3, GroupedParts
  <2>2. PICK p2 \in Range(s.tcp) : d = component("TcpProxy", p2, NewTCPProxy(s, n, p2))
    <3>1. d.type = "TcpProxy"
      BY <1>3
    <3> QED
      BY <3>1, GroupedParts
  <2>3. p.role # p2.role
    BY <2>1, <2>2, KeysDiffer DEF Validated, validateTCPProxies, distinct
  <2>4. named(p.role) /\ named(p2.role)
    BY <2>1, <2>2, FormedLists
  <2>5. ASSUME NEW x, o \in NewTCPProxy(s, n, x)
        PROVE  \/ o \in group(s, n, "yt-tcp-proxy", "tp", "tcp-proxies", x.role)
               \/ x.balanced /\ o = balancer(s, n, "tcp-proxies", x.role)
    BY <2>5, Zenon DEF NewTCPProxy, GetTCPProxiesServiceName
  <2>6. o \in NewTCPProxy(s, n, p) /\ o \in NewTCPProxy(s, n, p2)
    BY <2>1, <2>2, ComponentFields
  <2>7. "yt-tcp-proxy" # "tcp-proxies"
    OBVIOUS
  <2>8. \/ p.balanced /\ extends(p2.role, p.role, "lb")
        \/ p2.balanced /\ extends(p.role, p2.role, "lb")
    BY <2>3, <2>4, <2>5, <2>6, <2>7, ProxiesApart, Zenon
  <2> QED
    BY <2>1, <2>2, <2>8 DEF Reserved
<1>4. CASE c.type = "DataNode"
  <2>1. PICK p \in Range(s.data) : c = component("DataNode", p, NewDataNode(s, n, p))
    BY <1>4, GroupedParts
  <2>2. PICK p2 \in Range(s.data) : d = component("DataNode", p2, NewDataNode(s, n, p2))
    <3>1. d.type = "DataNode"
      BY <1>4
    <3> QED
      BY <3>1, GroupedParts
  <2>3. p.name # p2.name
    BY <2>1, <2>2, KeysDiffer DEF Validated, validateDataNodes, distinct
  <2>4. named(p.name) /\ named(p2.name)
    BY <2>1, <2>2, FormedLists
  <2>5. /\ o \in group(s, n, "yt-data-node", "dnd", "data-nodes", p.name)
        /\ o \in group(s, n, "yt-data-node", "dnd", "data-nodes", p2.name)
    BY <2>1, <2>2, ComponentFields DEF NewDataNode
  <2>6. "yt-data-node" # "data-nodes"
    OBVIOUS
  <2> QED
    BY <2>3, <2>4, <2>5, <2>6, GroupsApart, Zenon
<1>5. CASE c.type = "ExecNode"
  <2>1. PICK p \in Range(s.exec) : c = component("ExecNode", p, NewExecNode(s, n, p))
    BY <1>5, GroupedParts
  <2>2. PICK p2 \in Range(s.exec) : d = component("ExecNode", p2, NewExecNode(s, n, p2))
    <3>1. d.type = "ExecNode"
      BY <1>5
    <3> QED
      BY <3>1, GroupedParts
  <2>3. p.name # p2.name
    BY <2>1, <2>2, KeysDiffer DEF Validated, validateExecNodes, distinct
  <2>4. named(p.name) /\ named(p2.name)
    BY <2>1, <2>2, FormedLists
  <2>5. o \in NewExecNode(s, n, p) /\ o \in NewExecNode(s, n, p2)
    BY <2>1, <2>2, ComponentFields
  <2>6. \/ p.cri /\ extends(p2.name, p.name, "jobs")
        \/ p2.cri /\ extends(p.name, p2.name, "jobs")
    BY <2>3, <2>4, <2>5, ExecNodesApart, Zenon
  <2> QED
    BY <2>1, <2>2, <2>6 DEF Reserved
<1>6. CASE c.type = "TabletNode"
  <2>1. PICK p \in Range(s.tablets) : c = component("TabletNode", p, NewTabletNode(s, n, p))
    BY <1>6, GroupedParts
  <2>2. PICK p2 \in Range(s.tablets) : d = component("TabletNode", p2, NewTabletNode(s, n, p2))
    <3>1. d.type = "TabletNode"
      BY <1>6
    <3> QED
      BY <3>1, GroupedParts
  <2>3. p.name # p2.name
    BY <2>1, <2>2, KeysDiffer DEF Validated, validateTabletNodes, distinct
  <2>4. named(p.name) /\ named(p2.name)
    BY <2>1, <2>2, FormedLists
  <2>5. /\ o \in group(s, n, "yt-tablet-node", "tnd", "tablet-nodes", p.name)
        /\ o \in group(s, n, "yt-tablet-node", "tnd", "tablet-nodes", p2.name)
    BY <2>1, <2>2, ComponentFields DEF NewTabletNode
  <2>6. "yt-tablet-node" # "tablet-nodes"
    OBVIOUS
  <2> QED
    BY <2>3, <2>4, <2>5, <2>6, GroupsApart, Zenon
<1> QED
  BY <1>1, <1>2, <1>3, <1>4, <1>5, <1>6, ComponentFields DEF Grouped

\* For every admitted specification, with any number of proxies and groups of
\* any roles and names: no two components claim the same object, unless a
\* role is another's with -lb added or a group another's with -jobs added.
THEOREM ObjectsAreNotShared == Spec => []NoObjectIsShared
<1>1. ASSUME NEW s, NEW n, Validated(s), Formed(s), ~Reserved(s),
             NEW c \in NewComponentManager(s, n), NEW d \in NewComponentManager(s, n), c # d,
             NEW o \in c.objects, o \in d.objects
      PROVE  FALSE
  <2>1. c \in Grouped(s, n) \cup Single(s, n) /\ d \in Grouped(s, n) \cup Single(s, n)
    BY Components
  <2>2. c.type = d.type
    BY <1>1, <2>1, SingleTypes, GroupedTypes
  <2> QED
    BY <1>1, <2>1, <2>2, SinglesDiffer, GroupedDiffer
<1>2. AdmissionInvariant => NoObjectIsShared
  BY <1>1 DEF AdmissionInvariant, NoObjectIsShared
<1> QED
  BY <1>2, AlwaysValidated, PTL
===============================================================================
