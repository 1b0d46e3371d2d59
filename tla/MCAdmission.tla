----------------------------- MODULE MCAdmission -----------------------------
(* The admission of two resources, each written from one specification     *)
(* with the deviations below applied one at a time.                        *)
EXTENDS Admission, TLC

CONSTANTS y1, y2

Symmetry == Permutations({y1, y2})

location(type, mounts, quota) ==
  [type |-> type, mounts |-> mounts, quota |-> quota, lowWatermark |-> 0]

masterLocations == {location("MasterChangelogs", <<"master">>, 0),
                    location("MasterSnapshots", <<"master">>, 0)}
masters == [count |-> 1, hosts |-> 0, hostNetwork |-> "unset", antiAffinity |-> FALSE,
            cellTag |-> 1, locations |-> masterLocations]

http(role) == [role |-> role, https |-> FALSE, disableHttp |-> FALSE]
rpc(role) == [role |-> role, balanced |-> TRUE, tls |-> "none"]
tcp(role) == [role |-> role, balanced |-> TRUE]

data == [name |-> DefaultName, count |-> 3, locations |-> {location("ChunkStore", <<"store">>, 0)},
         claims |-> [store |-> 400 * GiB], volumes |-> <<>>]

exec == [name |-> DefaultName, cri |-> FALSE, isolated |-> "unset", userSlots |-> 0,
         node |-> [request |-> 2, limit |-> 4], jobs |-> <<>>, sidecars |-> <<>>,
         locations |-> {location("ChunkCache", <<"cache">>, 0), location("Slots", <<"slots">>, 0)},
         claims |-> [cache |-> 0, slots |-> 5 * GiB], volumes |-> <<>>]
jobs == <<[request |-> 3, limit |-> 3]>>

MCBase ==
  [shortNames |-> TRUE, ephemeral |-> FALSE, hostNetwork |-> FALSE, caBundle |-> FALSE,
   transport |-> "none", own |-> [of |-> "nobody", is |-> "none"], enableAntiAffinity |-> {},
   discovery |-> 1, masters |-> masters, caches |-> [given |-> FALSE, count |-> 0, hosts |-> 0],
   http |-> <<http(DefaultName)>>, rpc |-> <<>>, tcp |-> <<>>,
   data |-> <<data>>, exec |-> <<exec>>, tablets |-> <<[name |-> DefaultName]>>,
   schedulers |-> TRUE, agents |-> TRUE, qt |-> TRUE, qa |-> TRUE, yql |-> TRUE,
   chyt |-> FALSE, strawberry |-> TRUE, spyt |-> FALSE, ui |-> "plain"]

MCDeviations ==
  {<<>>, [shortNames |-> FALSE], [hostNetwork |-> TRUE], [ephemeral |-> TRUE],
   [enableAntiAffinity |-> {"Scheduler"}],
   \* masters
   [masters |-> [masters EXCEPT !.count = 3]],
   [masters |-> [masters EXCEPT !.count = 3, !.antiAffinity = TRUE]],
   [masters |-> [masters EXCEPT !.count = 3, !.antiAffinity = TRUE, !.hosts = 3]],
   [masters |-> [masters EXCEPT !.count = 3, !.antiAffinity = TRUE, !.hosts = 2]],
   [masters |-> [masters EXCEPT !.hosts = 1, !.hostNetwork = "yes"]],
   [masters |-> [masters EXCEPT !.cellTag = 2]],
   [masters |-> [masters EXCEPT !.locations = {location("MasterChangelogs", <<"master">>, 0)}]],
   [masters |-> [masters EXCEPT !.locations = @ \cup {location("Logs", <<>>, 0)}]],
   [caches |-> [given |-> TRUE, count |-> 2, hosts |-> 0]],
   [caches |-> [given |-> TRUE, count |-> 2, hosts |-> 2]],
   \* transports
   [transport |-> "optional"], [transport |-> "required", caBundle |-> TRUE],
   [own |-> [of |-> "DataNode", is |-> "required"]], [own |-> [of |-> "Master", is |-> "bare"]],
   \* proxies
   [http |-> <<>>], [http |-> <<http(<<"control">>)>>],
   [http |-> <<http(<<"control">>), http(DefaultName)>>],
   [http |-> <<http(DefaultName), http(<<"control">>), http(<<"control", "lb">>)>>],
   [http |-> <<http(<<"lb", "control">>), http(DefaultName), http(<<"control">>)>>],
   [http |-> <<http(DefaultName), [http(DefaultName) EXCEPT !.https = TRUE]>>],
   [http |-> <<[http(DefaultName) EXCEPT !.https = TRUE, !.disableHttp = TRUE]>>],
   [rpc |-> <<rpc(DefaultName), [rpc(<<"heavy">>) EXCEPT !.tls = "required"]>>],
   [rpc |-> <<rpc(DefaultName), [rpc(DefaultName) EXCEPT !.tls = "optional"]>>],
   [rpc |-> <<rpc(<<"lb">>), [rpc(DefaultName) EXCEPT !.balanced = FALSE]>>],
   [tcp |-> <<tcp(DefaultName), [tcp(<<"heavy">>) EXCEPT !.balanced = FALSE]>>],
   [tcp |-> <<tcp(DefaultName), [tcp(DefaultName) EXCEPT !.balanced = FALSE]>>],
   \* data nodes
   [data |-> <<>>], [data |-> <<[data EXCEPT !.count = 1]>>],
   [data |-> <<data, [data EXCEPT !.name = <<"cold">>, !.count = 2]>>],
   [data |-> <<data, [data EXCEPT !.count = 2]>>],
   [data |-> <<[data EXCEPT !.count = 2, !.locations = {location("ChunkStore", <<"store">>, 7 * GiB)}]>>],
   [data |-> <<[data EXCEPT !.locations =
                  {[location("ChunkStore", <<"store">>, 7 * GiB) EXCEPT !.lowWatermark = 9 * GiB]}]>>],
   [data |-> <<[data EXCEPT !.locations = {location("Logs", <<"store">>, 0)}]>>],
   \* exec nodes
   [exec |-> <<exec, [exec EXCEPT !.name = <<"gpu">>, !.cri = TRUE, !.jobs = jobs]>>],
   [exec |-> <<[exec EXCEPT !.name = <<"gpu", "jobs">>], [exec EXCEPT !.name = <<"gpu">>, !.cri = TRUE]>>],
   [exec |-> <<exec, [exec EXCEPT !.name = <<"jobs">>, !.cri = TRUE]>>],
   [exec |-> <<exec, [exec EXCEPT !.cri = TRUE]>>],
   [exec |-> <<[exec EXCEPT !.jobs = jobs]>>],
   [exec |-> <<[exec EXCEPT !.jobs = jobs, !.cri = TRUE, !.isolated = "no"]>>],
   [exec |-> <<[exec EXCEPT !.cri = TRUE, !.sidecars = <<"logs">>]>>],
   [exec |-> <<[exec EXCEPT !.jobs = jobs, !.node = [request |-> 0, limit |-> 4]]>>],
   [exec |-> <<[exec EXCEPT !.sidecars = <<"logs", "logs">>]>>],
   [exec |-> <<[exec EXCEPT !.sidecars = <<NoContainer>>]>>],
   [exec |-> <<[exec EXCEPT !.locations = {location("ChunkCache", <<"cache">>, 0)}]>>],
   \* optional parts
   [tablets |-> <<>>], [schedulers |-> FALSE], [agents |-> FALSE],
   [schedulers |-> FALSE, agents |-> FALSE, exec |-> <<>>, qt |-> FALSE, yql |-> FALSE,
    strawberry |-> FALSE],
   [schedulers |-> FALSE, agents |-> FALSE, exec |-> <<>>, strawberry |-> FALSE],
   [tablets |-> <<>>, qt |-> FALSE, qa |-> FALSE, yql |-> FALSE],
   [tablets |-> <<[name |-> DefaultName], [name |-> <<"hot">>]>>],
   [tablets |-> <<[name |-> <<"hot">>], [name |-> <<"hot">>]>>],
   [qt |-> FALSE], [chyt |-> TRUE, strawberry |-> FALSE], [spyt |-> TRUE],
   [ui |-> "secure"], [ui |-> "none"]}

==============================================================================
