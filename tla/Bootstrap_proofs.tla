--------------------------- MODULE Bootstrap_proofs ---------------------------
(***************************************************************************)
(* Proofs about how a cluster comes up, for any specs and edits of them:   *)
(* the statuses of the components are well defined, no job is created      *)
(* before what its script needs, no condition is ahead of the cluster, a   *)
(* cluster that is declared Running has been initialised, and components   *)
(* never all wait for each other.                                          *)
(*                                                                         *)
(* The gates of a component, the components it depends on and the walk of  *)
(* the component manager are recursive functions.  What they return is     *)
(* shown by induction, in the form of a set of numbers without a least     *)
(* missing one.                                                            *)
(***************************************************************************)
EXTENDS Bootstrap, WellFoundedInduction, SequenceTheorems, TLAPS

-------------------------------------------------------------------------------
(* Induction.                                                              *)

\* A non-empty set of numbers has a least one.
LEMMA Least ==
  ASSUME NEW T, T \subseteq Nat, T # {}
  PROVE  \E x \in T : \A y \in T : x <= y
  <1>. DEFINE R == OpToRel(<, Nat)
  <1>1. IsWellFoundedOn(R, Nat)
    BY NatLessThanWellFounded, Zenon
  <1>2. \A x, y \in Nat : y < x => <<y, x>> \in R
    BY DEF OpToRel
  <1>. HIDE DEF R
  <1>3. PICK x \in T : \A y \in T : ~ (<<y, x>> \in R)
    BY <1>1, WFMin, Zenon
  <1>4. \A y \in T : ~(y < x)
    BY <1>2, <1>3, Zenon
  <1>. QED
    BY <1>3, <1>4

\* A set with 0 and with the successor of each of its numbers has them all.
LEMMA Induction ==
  ASSUME NEW T, T \subseteq Nat, 0 \in T, \A n \in T : n + 1 \in T
  PROVE  T = Nat
  <1>. SUFFICES ASSUME Nat \ T # {} PROVE FALSE
    BY Zenon
  <1>1. PICK x \in Nat \ T : \A y \in Nat \ T : x <= y
    <2>. DEFINE U == Nat \ T
    <2>1. U \subseteq Nat /\ U # {}
      OBVIOUS
    <2>. HIDE DEF U
    <2>2. \E x \in U : \A y \in U : x <= y
      BY <2>1, Least, Zenon
    <2>. QED
      BY <2>2 DEF U
  <1>2. x # 0 /\ x - 1 \in Nat /\ ~(x <= x - 1)
    BY <1>1
  <1>3. x - 1 \in T
    BY <1>1, <1>2
  <1>4. (x - 1) + 1 = x
    BY <1>1
  <1>. QED
    BY <1>1, <1>3, <1>4

-------------------------------------------------------------------------------
(* The gate at which a component stands.                                   *)

\* f scans a list of gates for the first one that does not hold.
Scans(f, v, at, c) ==
  f = [gates \in Seq(Gate) |->
         IF gates = <<>> THEN Passed
         ELSE IF Holds(v, at, c, Head(gates)) THEN f[Tail(gates)]
         ELSE Head(gates)]

\* g is the first of the gates that does not hold, or all of them hold.
IsFirst(g, gates, v, at, c) ==
  \/ g = Passed /\ \A k \in 1..Len(gates) : Holds(v, at, c, gates[k])
  \/ \E k \in 1..Len(gates) :
       /\ g = gates[k] /\ ~Holds(v, at, c, gates[k])
       /\ \A i \in 1..(k - 1) : Holds(v, at, c, gates[i])

\* Every list has such a gate.
LEMMA FirstExists ==
  ASSUME NEW v, NEW at, NEW c, NEW gates \in Seq(Gate)
  PROVE  \E g : IsFirst(g, gates, v, at, c)
  <1>. DEFINE T == {k \in 1..Len(gates) : ~Holds(v, at, c, gates[k])}
  <1>1. CASE T = {}
    <2>1. \A k \in 1..Len(gates) : Holds(v, at, c, gates[k])
      BY <1>1
    <2>. QED
      BY <2>1 DEF IsFirst
  <1>2. CASE T # {}
    <2>1. T \subseteq Nat
      OBVIOUS
    <2>2. PICK k \in T : \A y \in T : k <= y
      <3>. HIDE DEF T
      <3>. QED
        BY <1>2, <2>1, Least, Zenon
    <2>3. k \in 1..Len(gates) /\ ~Holds(v, at, c, gates[k])
      BY <2>2
    <2>4. \A i \in 1..(k - 1) : i \in 1..Len(gates) /\ ~(k <= i)
      BY <2>3
    <2>5. \A i \in 1..(k - 1) : Holds(v, at, c, gates[i])
      BY <2>2, <2>4
    <2>. HIDE DEF T
    <2>6. IsFirst(gates[k], gates, v, at, c)
      BY <2>3, <2>5, Zenon DEF IsFirst
    <2>. QED
      BY <2>6
  <1>. QED
    BY <1>1, <1>2

\* It is the same for two views of the components that agree on the gates.
LEMMA FirstUnique ==
  ASSUME NEW v, NEW at, NEW bt, NEW c, NEW gates \in Seq(Gate), NEW g, NEW h,
         \A k \in 1..Len(gates) : Holds(v, at, c, gates[k]) <=> Holds(v, bt, c, gates[k]),
         IsFirst(g, gates, v, at, c), IsFirst(h, gates, v, bt, c)
  PROVE  g = h
  <1>1. CASE \A k \in 1..Len(gates) : Holds(v, at, c, gates[k])
    BY <1>1 DEF IsFirst
  <1>2. CASE \E k \in 1..Len(gates) : ~Holds(v, at, c, gates[k])
    <2>1. PICK k \in 1..Len(gates) :
            /\ g = gates[k] /\ ~Holds(v, at, c, gates[k])
            /\ \A i \in 1..(k - 1) : Holds(v, at, c, gates[i])
      BY <1>2 DEF IsFirst
    <2>2. PICK l \in 1..Len(gates) :
            /\ h = gates[l] /\ ~Holds(v, bt, c, gates[l])
            /\ \A i \in 1..(l - 1) : Holds(v, bt, c, gates[i])
      BY <1>2 DEF IsFirst
    <2>3. ~(k < l) /\ ~(l < k)
      <3>1. k < l => k \in 1..(l - 1)
        BY <2>1, <2>2
      <3>2. l < k => l \in 1..(k - 1)
        BY <2>1, <2>2
      <3>. QED
        BY <2>1, <2>2, <3>1, <3>2
    <2>4. k = l
      BY <2>1, <2>2, <2>3
    <2>. QED
      BY <2>1, <2>2, <2>4
  <1>. QED
    BY <1>1, <1>2

\* Taking the first gate off a list.
LEMMA FirstOfTail ==
  ASSUME NEW v, NEW at, NEW c, NEW gates \in Seq(Gate), gates # <<>>, NEW g
  PROVE  /\ Tail(gates) \in Seq(Gate) /\ Len(gates) = Len(Tail(gates)) + 1
         /\ Holds(v, at, c, Head(gates)) =>
              (IsFirst(g, Tail(gates), v, at, c) <=> IsFirst(g, gates, v, at, c))
         /\ ~Holds(v, at, c, Head(gates)) =>
              (g = Head(gates) <=> IsFirst(g, gates, v, at, c))
  <1>. DEFINE rest == Tail(gates)
              n == Len(rest)
  <1>1. /\ rest \in Seq(Gate) /\ n \in Nat /\ Len(gates) = n + 1
        /\ \A k \in 1..n : rest[k] = gates[k + 1]
        /\ Head(gates) = gates[1]
    OBVIOUS
  <1>. HIDE DEF rest, n
  <1>2. ASSUME Holds(v, at, c, gates[1])
        PROVE  IsFirst(g, rest, v, at, c) => IsFirst(g, gates, v, at, c)
    <2>1. CASE g = Passed /\ \A k \in 1..n : Holds(v, at, c, rest[k])
      <3>1. \A k \in 1..(n + 1) : k = 1 \/ (k - 1 \in 1..n /\ (k - 1) + 1 = k)
        BY <1>1
      <3>2. ASSUME NEW k \in 1..(n + 1) PROVE Holds(v, at, c, gates[k])
        <4>1. CASE k = 1
          BY <1>2, <4>1
        <4>2. CASE k - 1 \in 1..n /\ (k - 1) + 1 = k
          <5>1. rest[k - 1] = gates[k]
            BY <1>1, <4>2
          <5>. QED
            BY <2>1, <4>2, <5>1
        <4>. QED
          BY <3>1, <4>1, <4>2
      <3>. QED
        BY <1>1, <2>1, <3>2 DEF IsFirst
    <2>2. ASSUME NEW k \in 1..n, g = rest[k], ~Holds(v, at, c, rest[k]),
                 \A i \in 1..(k - 1) : Holds(v, at, c, rest[i])
          PROVE  IsFirst(g, gates, v, at, c)
      <3>1. k + 1 \in 1..Len(gates) /\ g = gates[k + 1]
            /\ ~Holds(v, at, c, gates[k + 1])
        BY <1>1, <2>2
      <3>2. \A i \in 1..((k + 1) - 1) :
              i = 1 \/ (i - 1 \in 1..(k - 1) /\ i - 1 \in 1..n /\ (i - 1) + 1 = i)
        BY <1>1
      <3>3. ASSUME NEW i \in 1..((k + 1) - 1) PROVE Holds(v, at, c, gates[i])
        <4>1. CASE i = 1
          BY <1>2, <4>1
        <4>2. CASE i - 1 \in 1..(k - 1) /\ i - 1 \in 1..n /\ (i - 1) + 1 = i
          <5>1. rest[i - 1] = gates[i]
            BY <1>1, <4>2
          <5>. QED
            BY <2>2, <4>2, <5>1
        <4>. QED
          BY <3>2, <4>1, <4>2
      <3>. QED
        BY <3>1, <3>3 DEF IsFirst
    <2>. QED
      BY <2>1, <2>2 DEF IsFirst, n
  <1>3. ASSUME Holds(v, at, c, gates[1])
        PROVE  IsFirst(g, gates, v, at, c) => IsFirst(g, rest, v, at, c)
    <2>1. CASE g = Passed /\ \A k \in 1..Len(gates) : Holds(v, at, c, gates[k])
      <3>1. \A k \in 1..n : k + 1 \in 1..Len(gates) /\ rest[k] = gates[k + 1]
        BY <1>1
      <3>. QED
        BY <2>1, <3>1 DEF IsFirst, n
    <2>2. ASSUME NEW k \in 1..Len(gates), g = gates[k], ~Holds(v, at, c, gates[k]),
                 \A i \in 1..(k - 1) : Holds(v, at, c, gates[i])
          PROVE  IsFirst(g, rest, v, at, c)
      <3>1. k # 1
        BY <1>3, <2>2
      <3>2. k - 1 \in 1..n /\ (k - 1) + 1 = k
        BY <1>1, <3>1
      <3>3. g = rest[k - 1] /\ ~Holds(v, at, c, rest[k - 1])
        BY <1>1, <2>2, <3>2
      <3>4. \A i \in 1..((k - 1) - 1) : i \in 1..n /\ i + 1 \in 1..(k - 1)
        BY <1>1, <3>2
      <3>5. \A i \in 1..((k - 1) - 1) : Holds(v, at, c, rest[i])
        BY <1>1, <2>2, <3>4
      <3>. QED
        BY <3>2, <3>3, <3>5 DEF IsFirst, n
    <2>. QED
      BY <2>1, <2>2 DEF IsFirst
  <1>4. ASSUME ~Holds(v, at, c, gates[1])
        PROVE  g = gates[1] <=> IsFirst(g, gates, v, at, c)
    <2>1. 1 \in 1..Len(gates) /\ (1..(1 - 1)) = {}
      BY <1>1
    <2>2. g = gates[1] => IsFirst(g, gates, v, at, c)
      BY <1>4, <2>1 DEF IsFirst
    <2>3. ASSUME NEW k \in 1..Len(gates),
                 \A i \in 1..(k - 1) : Holds(v, at, c, gates[i])
          PROVE  k = 1
      BY <1>1, <1>4, <2>3
    <2>. QED
      BY <1>4, <2>1, <2>2, <2>3 DEF IsFirst
  <1>. QED
    BY <1>1, <1>2, <1>3, <1>4 DEF rest, n

\* The scan of doSync is well defined.
LEMMA ScanExists ==
  ASSUME NEW v, NEW at, NEW c
  PROVE  \E f : Scans(f, v, at, c)
  <1>. DEFINE f == [gates \in Seq(Gate) |-> CHOOSE g : IsFirst(g, gates, v, at, c)]
  <1>1. \A gates \in Seq(Gate) : IsFirst(f[gates], gates, v, at, c)
    BY FirstExists
  <1>2. DOMAIN f = Seq(Gate) /\ f = [gates \in Seq(Gate) |-> f[gates]]
    OBVIOUS
  <1>. HIDE DEF f
  <1>3. ASSUME NEW gates \in Seq(Gate)
        PROVE  f[gates] = IF gates = <<>> THEN Passed
                          ELSE IF Holds(v, at, c, Head(gates)) THEN f[Tail(gates)]
                          ELSE Head(gates)
    <2>1. CASE gates = <<>>
      <3>1. (1..Len(gates)) = {}
        BY <2>1
      <3>2. IsFirst(f[gates], gates, v, at, c)
        BY <1>1
      <3>. QED
        BY <2>1, <3>1, <3>2 DEF IsFirst
    <2>2. CASE gates # <<>> /\ Holds(v, at, c, Head(gates))
      <3>1. Tail(gates) \in Seq(Gate)
        BY <2>2
      <3>2. IsFirst(f[Tail(gates)], gates, v, at, c)
        BY <1>1, <2>2, <3>1, FirstOfTail, Zenon
      <3>3. IsFirst(f[gates], gates, v, at, c)
        BY <1>1
      <3>4. f[gates] = f[Tail(gates)]
        BY <3>2, <3>3, FirstUnique
      <3>. QED
        BY <2>2, <3>4
    <2>3. CASE gates # <<>> /\ ~Holds(v, at, c, Head(gates))
      <3>1. f[gates] = Head(gates)
        BY <1>1, <2>3, FirstOfTail
      <3>. QED
        BY <2>3, <3>1
    <2>. QED
      BY <2>1, <2>2, <2>3
  <1>4. Scans(f, v, at, c)
    BY <1>2, <1>3 DEF Scans
  <1>. QED
    BY <1>4

\* A scan finds the first gate that does not hold.
LEMMA ScanFindsFirst ==
  ASSUME NEW v, NEW at, NEW c, NEW f, Scans(f, v, at, c)
  PROVE  \A gates \in Seq(Gate) : IsFirst(f[gates], gates, v, at, c)
  <1>. DEFINE T == {n \in Nat : \A gates \in Seq(Gate) :
                      Len(gates) = n => IsFirst(f[gates], gates, v, at, c)}
  <1>0. \A gates \in Seq(Gate) :
          f[gates] = IF gates = <<>> THEN Passed
                     ELSE IF Holds(v, at, c, Head(gates)) THEN f[Tail(gates)]
                     ELSE Head(gates)
    BY Zenon DEF Scans
  <1>1. 0 \in T
    <2>. SUFFICES ASSUME NEW gates \in Seq(Gate), Len(gates) = 0
                  PROVE  IsFirst(f[gates], gates, v, at, c)
      OBVIOUS
    <2>1. gates = <<>> /\ (1..Len(gates)) = {}
      OBVIOUS
    <2>2. f[gates] = Passed
      BY <1>0, <2>1, Zenon
    <2>. QED
      BY <2>1, <2>2 DEF IsFirst
  <1>2. ASSUME NEW n \in T PROVE n + 1 \in T
    <2>. SUFFICES ASSUME NEW gates \in Seq(Gate), Len(gates) = n + 1
                  PROVE  IsFirst(f[gates], gates, v, at, c)
      OBVIOUS
    <2>1. /\ gates # <<>> /\ n \in Nat
          /\ Tail(gates) \in Seq(Gate) /\ Len(Tail(gates)) = n
      OBVIOUS
    <2>2. IsFirst(f[Tail(gates)], Tail(gates), v, at, c)
      BY <2>1, Zenon
    <2>3. CASE Holds(v, at, c, Head(gates))
      <3>1. f[gates] = f[Tail(gates)]
        BY <1>0, <2>1, <2>3
      <3>. QED
        BY <2>1, <2>2, <2>3, <3>1, FirstOfTail
    <2>4. CASE ~Holds(v, at, c, Head(gates))
      <3>1. f[gates] = Head(gates)
        BY <1>0, <2>1, <2>4
      <3>. QED
        BY <2>1, <2>4, <3>1, FirstOfTail, Zenon
    <2>. QED
      BY <2>3, <2>4
  <1>3. T \subseteq Nat
    OBVIOUS
  <1>4. T = Nat
    <2>. HIDE DEF T
    <2>. QED
      BY <1>1, <1>2, <1>3, Induction, Zenon
  <1>5. \A gates \in Seq(Gate) : Len(gates) \in T
    BY <1>4
  <1>. QED
    BY <1>5

-------------------------------------------------------------------------------
(* The gates of the components.                                            *)

\* How deep the dependencies of a component are.
Rank == [c \in Components |->
           CASE c = "Master" -> 0
             [] c \in {"HttpProxy", "DataNode", "ExecNode"} -> 1
             [] c = "Client" -> 2
             [] c = "TabletNode" -> 3
             [] c = "Scheduler" -> 4
             [] OTHER -> 5]

\* Gate g comes before gate number k.
Earlier(gates, k, g) == \E i \in 1..(k - 1) : gates[i] = g

\* The gates before the job j of component c.
JobPlaced(c, S, gates, k, j) ==
  /\ j \in Jobs
  /\ j \in {"archivarius", "op-archive", "qa-state", "yql", "ui",
            "strawberry-user", "strawberry-cluster"} =>
       Earlier(gates, k, Waits("Master"))
  /\ j = "client" => Earlier(gates, k, Waits("HttpProxy"))
  /\ j \in {"op-archive", "qt-state", "qa-state"} =>
       Earlier(gates, k, Waits("TabletNode"))
  /\ j = "op-archive" =>
       "TabletNode" \in S /\ Earlier(gates, k, Job("archivarius"))
  /\ j = "strawberry-cluster" => Earlier(gates, k, Job("strawberry-user"))
  /\ j = "qt-state" => c = "QueryTracker"
  /\ j = "qa-state" => c = "QueueAgent"

\* Gate number k of component c: a component only waits for components of
\* lower rank, and conditions are those of the component.
GatePlaced(c, S, gates, k) ==
  LET g == gates[k]
  IN /\ g.gate \in {"wait", "object", "pods", "job", "client", "condition"}
     /\ g.gate = "wait" => g.on \in Components /\ Rank[g.on] < Rank[c]
     /\ g.gate = "client" => Rank["Client"] < Rank[c]
     /\ g.gate = "object" => g.on \in Kinds
     /\ g.gate = "condition" =>
          \/ c = "TabletNode" /\ g.on = "bundles"
          \/ c = "QueryTracker" /\ g.on = "queryTracker"
          \/ c = "QueueAgent" /\ g.on = "queueAgent"
     /\ g.gate = "job" => JobPlaced(c, S, gates, k, g.on)

GatesPlaced(c, S) ==
  /\ Gates(c, S) \in Seq(Gate)
  /\ \A k \in 1..Len(Gates(c, S)) : GatePlaced(c, S, Gates(c, S), k)

\* The ranks, by name.
LEMMA Ranks ==
  /\ Rank["Master"] = 0
  /\ Rank["HttpProxy"] = 1 /\ Rank["DataNode"] = 1 /\ Rank["ExecNode"] = 1
  /\ Rank["Client"] = 2 /\ Rank["TabletNode"] = 3 /\ Rank["Scheduler"] = 4
  /\ \A c \in Components :
       \/ Rank[c] = 5
       \/ c \in {"Master", "HttpProxy", "DataNode", "ExecNode", "Client",
                 "TabletNode", "Scheduler"}
  /\ {"Master", "HttpProxy", "DataNode", "ExecNode", "Client", "TabletNode",
      "Scheduler"} \subseteq Components
  /\ \A c \in Components : Rank[c] \in 0..5
  <1>1. {"Master", "HttpProxy", "DataNode", "ExecNode", "Client", "TabletNode",
         "Scheduler"} \subseteq Components
    BY DEF Components, Always, Optional
  <1>. QED
    BY <1>1 DEF Rank

\* The gates are gates.
LEMMA GateForms ==
  /\ \A d \in Components : Waits(d) \in Gate
  /\ \A o \in Kinds : Object(o) \in Gate
  /\ \A j \in Jobs : Job(j) \in Gate
  /\ \A x \in InitConditions : Condition(x) \in Gate /\ ClientReady(x) \in Gate
  /\ {Pods, Available, Passed, ClientReady("none")} \subseteq Gate
  BY DEF Gate, Waits, Object, Job, Condition, ClientReady, Pods, Available,
         Passed, Conditions

\* What the gates are on.
LEMMA Targets ==
  /\ {"server", "secret", "balancer"} \subseteq Kinds
  /\ {"master", "client", "archivarius", "op-archive", "qt-state", "qa-state",
      "yql", "ui", "strawberry-user", "strawberry-cluster"} \subseteq Jobs
  /\ {"bundles", "queryTracker", "queueAgent"} \subseteq InitConditions
  BY DEF Kinds, Jobs, InitConditions

\* Where a gate may be, by its kind.
LEMMA Placements ==
  ASSUME NEW c, NEW S, NEW gates, NEW k
  PROVE  /\ gates[k] \in {Pods, Available} => GatePlaced(c, S, gates, k)
         /\ \A o \in Kinds : gates[k] = Object(o) => GatePlaced(c, S, gates, k)
         /\ \A d \in Components : gates[k] = Waits(d) /\ Rank[d] < Rank[c] =>
              GatePlaced(c, S, gates, k)
         /\ \A j : gates[k] = Job(j) /\ JobPlaced(c, S, gates, k, j) =>
              GatePlaced(c, S, gates, k)
         /\ \A x : gates[k] = ClientReady(x) /\ Rank["Client"] < Rank[c] =>
              GatePlaced(c, S, gates, k)
         /\ \A x : /\ gates[k] = Condition(x)
                   /\ \/ c = "TabletNode" /\ x = "bundles"
                      \/ c = "QueryTracker" /\ x = "queryTracker"
                      \/ c = "QueueAgent" /\ x = "queueAgent"
                   => GatePlaced(c, S, gates, k)
  BY DEF GatePlaced, Pods, Available, Object, Waits, Job, ClientReady, Condition

\* The servers without a job.
LEMMA ServerPlaced ==
  ASSUME NEW S,
         NEW c \in {"Discovery", "MasterCache", "DataNode", "ExecNode",
                    "ControllerAgent", "TcpProxy", "HttpProxy", "RpcProxy"}
  PROVE  GatesPlaced(c, S)
  <1>. DEFINE G == Gates(c, S)
  <1>1. \/ G = <<Object("server"), Pods>>
        \/ /\ G = <<Waits("Master"), Object("server"), Pods>>
           /\ c \notin {"Discovery", "MasterCache"}
        \/ /\ G = <<Waits("Master"), Object("server"), Object("balancer"), Pods>>
           /\ c \notin {"Discovery", "MasterCache"}
    BY DEF Gates, Plain, Discovery, MasterCache, DataNode, ExecNode,
           ControllerAgent, TcpProxy, HttpProxy, RpcProxy
  <1>2. c \in Components /\ c # "Master"
    BY DEF Components, Always, Optional
  <1>3. Rank["Master"] < Rank[c] /\ "Master" \in Components
    BY <1>2, Ranks
  <1>. HIDE DEF G
  <1>4. G \in Seq(Gate)
    <2>1. {Object("server"), Object("balancer"), Waits("Master"), Pods} \subseteq Gate
      BY <1>3, GateForms, Targets
    <2>2. CASE G = <<Object("server"), Pods>>
      BY <2>1, <2>2
    <2>3. CASE G = <<Waits("Master"), Object("server"), Pods>>
      BY <2>1, <2>3
    <2>4. CASE G = <<Waits("Master"), Object("server"), Object("balancer"), Pods>>
      BY <2>1, <2>4
    <2>. QED
      BY <1>1, <2>2, <2>3, <2>4
  <1>5. ASSUME NEW k \in 1..Len(G) PROVE GatePlaced(c, S, G, k)
    <2>1. \/ G[k] = Pods \/ G[k] = Object("server") \/ G[k] = Object("balancer")
          \/ G[k] = Waits("Master")
      BY <1>1
    <2>. QED
      BY <1>3, <2>1, Targets, Placements
  <1>. QED
    BY <1>4, <1>5 DEF GatesPlaced, G

\* The gates of the masters.
LEMMA MasterPlaced ==
  ASSUME NEW S
  PROVE  GatesPlaced("Master", S)
  <1>. DEFINE G == Gates("Master", S)
  <1>1. G = <<Object("server"), Pods, Job("master")>>
    BY DEF Gates, Plain, Master
  <1>. HIDE DEF G
  <1>2. G \in Seq(Gate) /\ Len(G) = 3
    BY <1>1, Ranks, GateForms, Targets
  <1>3. JobPlaced("Master", S, G, 3, "master")
    BY Targets DEF JobPlaced
  <1>4. ASSUME NEW k \in 1..Len(G) PROVE GatePlaced("Master", S, G, k)
    <2>1. \/ G[k] = Object("server")
          \/ G[k] = Pods
          \/ k = 3 /\ G[k] = Job("master")
      BY <1>1, <1>2
    <2>. QED
      BY <1>3, <2>1, Ranks, Targets, Placements
  <1>. QED
    BY <1>2, <1>4 DEF GatesPlaced, G

\* The gates of the client.
LEMMA ClientPlaced ==
  ASSUME NEW S
  PROVE  GatesPlaced("Client", S)
  <1>. DEFINE G == Gates("Client", S)
  <1>1. G = <<Waits("HttpProxy"), Object("secret"), Job("client")>>
    BY DEF Gates, Plain, Client
  <1>. HIDE DEF G
  <1>2. G \in Seq(Gate) /\ Len(G) = 3
    BY <1>1, Ranks, GateForms, Targets
  <1>3. Earlier(G, 3, Waits("HttpProxy"))
    BY <1>1 DEF Earlier
  <1>4. JobPlaced("Client", S, G, 3, "client")
    BY <1>3, Targets DEF JobPlaced
  <1>5. ASSUME NEW k \in 1..Len(G) PROVE GatePlaced("Client", S, G, k)
    <2>1. \/ G[k] = Waits("HttpProxy")
          \/ G[k] = Object("secret")
          \/ k = 3 /\ G[k] = Job("client")
      BY <1>1, <1>2
    <2>. QED
      BY <1>4, <2>1, Ranks, Targets, Placements
  <1>. QED
    BY <1>2, <1>5 DEF GatesPlaced, G

\* The gates of the tablet nodes.
LEMMA TabletNodePlaced ==
  ASSUME NEW S
  PROVE  GatesPlaced("TabletNode", S)
  <1>. DEFINE G == Gates("TabletNode", S)
  <1>1. G = <<Object("server"), Pods, ClientReady("bundles"),
              Condition("bundles")>>
    BY DEF Gates, Plain, TabletNode
  <1>. HIDE DEF G
  <1>2. G \in Seq(Gate) /\ Len(G) = 4
    BY <1>1, Ranks, GateForms, Targets
  <1>3. ASSUME NEW k \in 1..Len(G) PROVE GatePlaced("TabletNode", S, G, k)
    <2>1. \/ G[k] = Object("server")
          \/ G[k] = Pods
          \/ G[k] = ClientReady("bundles")
          \/ G[k] = Condition("bundles")
      BY <1>1, <1>2
    <2>. QED
      BY <2>1, Ranks, Targets, Placements
  <1>. QED
    BY <1>2, <1>3 DEF GatesPlaced, G

\* The gates of the query tracker.
LEMMA QueryTrackerPlaced ==
  ASSUME NEW S
  PROVE  GatesPlaced("QueryTracker", S)
  <1>. DEFINE G == Gates("QueryTracker", S)
  <1>1. G = <<Object("secret"), Object("server"), Pods,
              Waits("TabletNode"), Job("qt-state"),
              Condition("queryTracker")>>
    BY DEF Gates, Plain, QueryTracker
  <1>. HIDE DEF G
  <1>2. Rank["QueryTracker"] = 5
    BY Ranks DEF Components, Optional
  <1>3. G \in Seq(Gate) /\ Len(G) = 6
    BY <1>1, Ranks, GateForms, Targets
  <1>4. Earlier(G, 5, Waits("TabletNode"))
    BY <1>1 DEF Earlier
  <1>5. JobPlaced("QueryTracker", S, G, 5, "qt-state")
    BY <1>4, Targets DEF JobPlaced
  <1>6. ASSUME NEW k \in 1..Len(G) PROVE GatePlaced("QueryTracker", S, G, k)
    <2>1. \/ G[k] = Object("secret")
          \/ G[k] = Object("server")
          \/ G[k] = Pods
          \/ G[k] = Waits("TabletNode")
          \/ k = 5 /\ G[k] = Job("qt-state")
          \/ G[k] = Condition("queryTracker")
      BY <1>1, <1>3
    <2>. QED
      BY <1>2, <1>5, <2>1, Ranks, Targets, Placements
  <1>. QED
    BY <1>3, <1>6 DEF GatesPlaced, G

\* The gates of the queue agent.
LEMMA QueueAgentPlaced ==
  ASSUME NEW S
  PROVE  GatesPlaced("QueueAgent", S)
  <1>. DEFINE G == Gates("QueueAgent", S)
  <1>1. G = <<Waits("Master"), Waits("TabletNode"), Object("secret"),
              Object("server"), Pods, ClientReady("none"), Job("qa-state"),
              Condition("queueAgent")>>
    BY DEF Gates, Plain, QueueAgent
  <1>. HIDE DEF G
  <1>2. Rank["QueueAgent"] = 5
    BY Ranks DEF Components, Optional
  <1>3. G \in Seq(Gate) /\ Len(G) = 8
    BY <1>1, Ranks, GateForms, Targets
  <1>4. /\ Earlier(G, 7, Waits("Master"))
        /\ Earlier(G, 7, Waits("TabletNode"))
    BY <1>1 DEF Earlier
  <1>5. JobPlaced("QueueAgent", S, G, 7, "qa-state")
    BY <1>4, Targets DEF JobPlaced
  <1>6. ASSUME NEW k \in 1..Len(G) PROVE GatePlaced("QueueAgent", S, G, k)
    <2>1. \/ G[k] = Waits("Master")
          \/ G[k] = Waits("TabletNode")
          \/ G[k] = Object("secret")
          \/ G[k] = Object("server")
          \/ G[k] = Pods
          \/ G[k] = ClientReady("none")
          \/ k = 7 /\ G[k] = Job("qa-state")
          \/ G[k] = Condition("queueAgent")
      BY <1>1, <1>3
    <2>. QED
      BY <1>2, <1>5, <2>1, Ranks, Targets, Placements
  <1>. QED
    BY <1>3, <1>6 DEF GatesPlaced, G

\* The gates of the YQL agent.
LEMMA YqlAgentPlaced ==
  ASSUME NEW S
  PROVE  GatesPlaced("YqlAgent", S)
  <1>. DEFINE G == Gates("YqlAgent", S)
  <1>1. G = <<Waits("Master"), Object("secret"), Object("server"), Pods,
              Job("yql")>>
    BY DEF Gates, Plain, YqlAgent
  <1>. HIDE DEF G
  <1>2. Rank["YqlAgent"] = 5
    BY Ranks DEF Components, Optional
  <1>3. G \in Seq(Gate) /\ Len(G) = 5
    BY <1>1, Ranks, GateForms, Targets
  <1>4. Earlier(G, 5, Waits("Master"))
    BY <1>1 DEF Earlier
  <1>5. JobPlaced("YqlAgent", S, G, 5, "yql")
    BY <1>4, Targets DEF JobPlaced
  <1>6. ASSUME NEW k \in 1..Len(G) PROVE GatePlaced("YqlAgent", S, G, k)
    <2>1. \/ G[k] = Waits("Master")
          \/ G[k] = Object("secret")
          \/ G[k] = Object("server")
          \/ G[k] = Pods
          \/ k = 5 /\ G[k] = Job("yql")
      BY <1>1, <1>3
    <2>. QED
      BY <1>2, <1>5, <2>1, Ranks, Targets, Placements
  <1>. QED
    BY <1>3, <1>6 DEF GatesPlaced, G

\* The gates of the UI.
LEMMA UIPlaced ==
  ASSUME NEW S
  PROVE  GatesPlaced("UI", S)
  <1>. DEFINE G == Gates("UI", S)
  <1>1. G = <<Waits("Master"), Object("secret"), Job("ui"),
              Object("server"), Available>>
    BY DEF Gates, Plain, UI
  <1>. HIDE DEF G
  <1>2. Rank["UI"] = 5
    BY Ranks DEF Components, Optional
  <1>3. G \in Seq(Gate) /\ Len(G) = 5
    BY <1>1, Ranks, GateForms, Targets
  <1>4. Earlier(G, 3, Waits("Master"))
    BY <1>1 DEF Earlier
  <1>5. JobPlaced("UI", S, G, 3, "ui")
    BY <1>4, Targets DEF JobPlaced
  <1>6. ASSUME NEW k \in 1..Len(G) PROVE GatePlaced("UI", S, G, k)
    <2>1. \/ G[k] = Waits("Master")
          \/ G[k] = Object("secret")
          \/ k = 3 /\ G[k] = Job("ui")
          \/ G[k] = Object("server")
          \/ G[k] = Available
      BY <1>1, <1>3
    <2>. QED
      BY <1>2, <1>5, <2>1, Ranks, Targets, Placements
  <1>. QED
    BY <1>3, <1>6 DEF GatesPlaced, G

\* The gates of the strawberry controller.
LEMMA StrawberryPlaced ==
  ASSUME NEW S
  PROVE  GatesPlaced("Strawberry", S)
  <1>. DEFINE G == Gates("Strawberry", S)
  <1>1. G = <<Waits("Master"), Waits("Scheduler"), Waits("DataNode"),
              Object("secret"), Job("strawberry-user"),
              Job("strawberry-cluster"), Object("server")>>
    BY DEF Gates, Plain, Strawberry
  <1>. HIDE DEF G
  <1>2. Rank["Strawberry"] = 5
    BY Ranks DEF Components, Optional
  <1>3. G \in Seq(Gate) /\ Len(G) = 7
    BY <1>1, Ranks, GateForms, Targets
  <1>4. Earlier(G, 5, Waits("Master"))
    BY <1>1 DEF Earlier
  <1>5. JobPlaced("Strawberry", S, G, 5, "strawberry-user")
    BY <1>4, Targets DEF JobPlaced
  <1>6. /\ Earlier(G, 6, Waits("Master"))
        /\ Earlier(G, 6, Job("strawberry-user"))
    BY <1>1 DEF Earlier
  <1>7. JobPlaced("Strawberry", S, G, 6, "strawberry-cluster")
    BY <1>6, Targets DEF JobPlaced
  <1>8. ASSUME NEW k \in 1..Len(G) PROVE GatePlaced("Strawberry", S, G, k)
    <2>1. \/ G[k] = Waits("Master")
          \/ G[k] = Waits("Scheduler")
          \/ G[k] = Waits("DataNode")
          \/ G[k] = Object("secret")
          \/ k = 5 /\ G[k] = Job("strawberry-user")
          \/ k = 6 /\ G[k] = Job("strawberry-cluster")
          \/ G[k] = Object("server")
      BY <1>1, <1>3
    <2>. QED
      BY <1>2, <1>5, <1>7, <2>1, Ranks, Targets, Placements
  <1>. QED
    BY <1>3, <1>8 DEF GatesPlaced, G

\* The gates of the scheduler, with and without the operations archive.
LEMMA SchedulerPlaced ==
  ASSUME NEW S
  PROVE  GatesPlaced("Scheduler", S)
  <1>. DEFINE G == Gates("Scheduler", S)
  <1>1. /\ G \in Seq(Gate)
        /\ Len(G) = IF "TabletNode" \in S THEN 8 ELSE 5
        /\ G[1] = Waits("Master") /\ G[2] = Waits("ExecNode")
        /\ G[3] = Object("secret") /\ G[4] = Object("server") /\ G[5] = Pods
        /\ "TabletNode" \in S =>
             /\ G[6] = Job("archivarius") /\ G[7] = Waits("TabletNode")
             /\ G[8] = Job("op-archive")
    <2>. DEFINE serves == <<Waits("Master"), Waits("ExecNode"), Object("secret"),
                            Object("server"), Pods>>
                rest == IF "TabletNode" \in S THEN initOpArchive ELSE <<>>
    <2>1. G = serves \o rest
      BY DEF Gates, Scheduler
    <2>2. serves \in Seq(Gate) /\ rest \in Seq(Gate)
      BY Ranks, GateForms, Targets DEF initOpArchive
    <2>3. /\ Len(serves) = 5
          /\ serves[1] = Waits("Master") /\ serves[2] = Waits("ExecNode")
          /\ serves[3] = Object("secret") /\ serves[4] = Object("server")
          /\ serves[5] = Pods
      OBVIOUS
    <2>4. /\ "TabletNode" \in S =>
               /\ Len(rest) = 3 /\ rest[1] = Job("archivarius")
               /\ rest[2] = Waits("TabletNode") /\ rest[3] = Job("op-archive")
          /\ "TabletNode" \notin S => Len(rest) = 0
      BY DEF initOpArchive
    <2>. HIDE DEF G, serves, rest
    <2>5. /\ G \in Seq(Gate) /\ Len(G) = Len(serves) + Len(rest)
          /\ \A i \in 1..(Len(serves) + Len(rest)) :
               G[i] = IF i <= Len(serves) THEN serves[i] ELSE rest[i - Len(serves)]
      BY <2>1, <2>2, ConcatProperties
    <2>6. CASE "TabletNode" \in S
      <3>0. Len(serves) = 5 /\ Len(rest) = 3 /\ 5 + 3 = 8
        BY <2>3, <2>4, <2>6
      <3>1. Len(G) = 8 /\ \A i \in 1..8 : G[i] = IF i <= 5 THEN serves[i] ELSE rest[i - 5]
        BY <2>5, <3>0, Zenon
      <3>2. /\ G[1] = serves[1] /\ G[2] = serves[2] /\ G[3] = serves[3]
            /\ G[4] = serves[4] /\ G[5] = serves[5] /\ G[6] = rest[1]
            /\ G[7] = rest[2] /\ G[8] = rest[3]
        BY <3>1
      <3>. QED
        BY <2>3, <2>4, <2>5, <2>6, <3>1, <3>2, Zenon
    <2>7. CASE "TabletNode" \notin S
      <3>0. Len(serves) = 5 /\ Len(rest) = 0 /\ 5 + 0 = 5
        BY <2>3, <2>4, <2>7
      <3>1. Len(G) = 5 /\ \A i \in 1..5 : G[i] = IF i <= 5 THEN serves[i] ELSE rest[i - 5]
        BY <2>5, <3>0, Zenon
      <3>2. /\ G[1] = serves[1] /\ G[2] = serves[2] /\ G[3] = serves[3]
            /\ G[4] = serves[4] /\ G[5] = serves[5]
        BY <3>1
      <3>. QED
        BY <2>3, <2>5, <2>7, <3>1, <3>2, Zenon
    <2>. QED
      BY <2>6, <2>7
  <1>. HIDE DEF G
  <1>2. ASSUME "TabletNode" \in S
        PROVE  JobPlaced("Scheduler", S, G, 6, "archivarius")
    <2>1. Earlier(G, 6, Waits("Master"))
      BY <1>1 DEF Earlier
    <2>. QED
      BY <2>1, Targets DEF JobPlaced
  <1>3. ASSUME "TabletNode" \in S
        PROVE  JobPlaced("Scheduler", S, G, 8, "op-archive")
    <2>1. /\ Earlier(G, 8, Waits("Master")) /\ Earlier(G, 8, Waits("TabletNode"))
          /\ Earlier(G, 8, Job("archivarius"))
      BY <1>1, <1>3 DEF Earlier
    <2>. QED
      BY <1>3, <2>1, Targets DEF JobPlaced
  <1>4. ASSUME NEW k \in 1..Len(G) PROVE GatePlaced("Scheduler", S, G, k)
    <2>1. \/ G[k] = Waits("Master") \/ G[k] = Waits("ExecNode")
          \/ G[k] = Object("secret") \/ G[k] = Object("server") \/ G[k] = Pods
          \/ "TabletNode" \in S /\ k = 6 /\ G[k] = Job("archivarius")
          \/ G[k] = Waits("TabletNode")
          \/ "TabletNode" \in S /\ k = 8 /\ G[k] = Job("op-archive")
      BY <1>1
    <2>. QED
      BY <1>2, <1>3, <2>1, Ranks, Targets, Placements
  <1>. QED
    BY <1>1, <1>4 DEF GatesPlaced, G

\* The gates of every component.
LEMMA AllPlaced ==
  ASSUME NEW S, NEW c \in Components
  PROVE  GatesPlaced(c, S)
  BY ServerPlaced, MasterPlaced, ClientPlaced, TabletNodePlaced,
     QueryTrackerPlaced, QueueAgentPlaced, YqlAgentPlaced, UIPlaced,
     StrawberryPlaced, SchedulerPlaced DEF Components, Always, Optional

-------------------------------------------------------------------------------
(* doSync: the statuses of the components are well defined.                *)

\* The gate at which a component stands is the first that does not hold.
LEMMA StandingIsFirst ==
  ASSUME NEW v, NEW at, NEW c \in Components
  PROVE  IsFirst(Standing(v, at, c), Gates(c, v.spec), v, at, c)
  <1>. DEFINE f == CHOOSE f : Scans(f, v, at, c)
  <1>1. Scans(f, v, at, c)
    BY ScanExists
  <1>2. Standing(v, at, c) = f[Gates(c, v.spec)]
    BY DEF Standing, Scans
  <1>3. Gates(c, v.spec) \in Seq(Gate)
    BY AllPlaced DEF GatesPlaced
  <1>. HIDE DEF f
  <1>. QED
    BY <1>1, <1>2, <1>3, ScanFindsFirst

\* It depends on components of lower rank only.
LEMMA StandingAgrees ==
  ASSUME NEW v, NEW at, NEW bt, NEW c \in Components,
         \A d \in Members(v.spec) : Rank[d] < Rank[c] => at[d] = bt[d]
  PROVE  Standing(v, at, c) = Standing(v, bt, c)
  <1>. DEFINE G == Gates(c, v.spec)
  <1>1. G \in Seq(Gate) /\ \A k \in 1..Len(G) : GatePlaced(c, v.spec, G, k)
    BY AllPlaced DEF GatesPlaced
  <1>. HIDE DEF G
  <1>2. ASSUME NEW k \in 1..Len(G)
        PROVE  Holds(v, at, c, G[k]) <=> Holds(v, bt, c, G[k])
    <2>1. /\ G[k].gate = "wait" => G[k].on \in Components /\ Rank[G[k].on] < Rank[c]
          /\ G[k].gate = "client" => Rank["Client"] < Rank[c]
      BY <1>1 DEF GatePlaced
    <2>2. G[k].gate = "wait" /\ G[k].on \in Members(v.spec) => at[G[k].on] = bt[G[k].on]
      BY <2>1
    <2>3. G[k].gate = "client" => at["Client"] = bt["Client"]
      BY <2>1 DEF Members, Always
    <2>. QED
      BY <2>2, <2>3 DEF Holds
  <1>3. /\ IsFirst(Standing(v, at, c), G, v, at, c)
        /\ IsFirst(Standing(v, bt, c), G, v, bt, c)
    BY StandingIsFirst DEF G
  <1>. QED
    BY <1>1, <1>2, <1>3, FirstUnique

\* at says where each component of resource v stands.
Synced(at, v) == at = [c \in Members(v.spec) |-> Standing(v, at, c)]

\* Components that are in the spec, or always there, are components.
LEMMA MembersTyped ==
  ASSUME NEW S, S \subseteq Optional
  PROVE  Members(S) \subseteq Components /\ Always \subseteq Members(S)
  BY DEF Members, Components

\* No components wait for each other: the statuses can be found, those of
\* lower rank first.
LEMMA SyncExists ==
  ASSUME NEW v, v.spec \subseteq Optional
  PROVE  \E at : Synced(at, v)
  <1>. DEFINE M == Members(v.spec)
              Below(at, n) == \A c \in M : Rank[c] < n => at[c] = Standing(v, at, c)
              T == {n \in Nat : \E at : Below(at, n)}
  <1>0. M \subseteq Components
    BY MembersTyped
  <1>1. 0 \in T
    <2>1. \A c \in M : ~(Rank[c] < 0)
      BY <1>0, Ranks
    <2>. QED
      BY <2>1
  <1>2. ASSUME NEW n \in T PROVE n + 1 \in T
    <2>1. n \in Nat /\ n + 1 \in Nat
      OBVIOUS
    <2>2. PICK at : Below(at, n)
      OBVIOUS
    <2>. DEFINE bt == [c \in M |-> IF Rank[c] < n THEN at[c] ELSE Standing(v, at, c)]
    <2>3. \A d \in M : Rank[d] < n => at[d] = bt[d]
      OBVIOUS
    <2>4. \A c \in M : bt[c] = IF Rank[c] < n THEN at[c] ELSE Standing(v, at, c)
      OBVIOUS
    <2>. HIDE DEF bt
    <2>5. ASSUME NEW c \in M, Rank[c] < n + 1
          PROVE  bt[c] = Standing(v, bt, c)
      <3>1. c \in Components /\ Rank[c] \in Nat
        BY <1>0, Ranks
      <3>2. \A d \in M : Rank[d] < Rank[c] => Rank[d] < n
        BY <1>0, <2>1, <2>5, <3>1, Ranks
      <3>3. Standing(v, at, c) = Standing(v, bt, c)
        BY <2>3, <3>1, <3>2, StandingAgrees
      <3>4. bt[c] = Standing(v, at, c)
        BY <2>2, <2>4
      <3>. QED
        BY <3>3, <3>4
    <2>6. Below(bt, n + 1)
      BY <2>5
    <2>. QED
      BY <2>1, <2>6
  <1>3. T \subseteq Nat
    OBVIOUS
  <1>4. T = Nat
    <2>. HIDE DEF T
    <2>. QED
      BY <1>1, <1>2, <1>3, Induction, Zenon
  <1>5. PICK at : Below(at, 6)
    <2>1. 6 \in T
      <3>. HIDE DEF T
      <3>. QED
        BY <1>4
    <2>. QED
      BY <2>1
  <1>. DEFINE bt == [c \in M |-> at[c]]
  <1>6. ASSUME NEW c \in M PROVE at[c] = Standing(v, bt, c)
    <2>1. c \in Components /\ Rank[c] < 6
      BY <1>0, Ranks
    <2>2. Standing(v, at, c) = Standing(v, bt, c)
      BY <2>1, StandingAgrees
    <2>. QED
      BY <1>5, <2>1, <2>2
  <1>7. Synced(bt, v)
    <2>. HIDE DEF T, Below
    <2>. QED
      BY <1>6 DEF Synced
  <1>. QED
    BY <1>7

\* doSync gives every component the first of its gates that does not hold.
LEMMA SyncIsFirst ==
  ASSUME NEW v, v.spec \subseteq Optional, NEW c \in Members(v.spec)
  PROVE  IsFirst(doSync(v)[c], Gates(c, v.spec), v, doSync(v), c)
  <1>1. doSync(v) = CHOOSE at : Synced(at, v)
    BY DEF doSync, Synced
  <1>2. Synced(doSync(v), v)
    BY <1>1, SyncExists
  <1>3. doSync(v)[c] = Standing(v, doSync(v), c) /\ c \in Components
    BY <1>2, MembersTyped DEF Synced
  <1>. QED
    BY <1>3, StandingIsFirst

-------------------------------------------------------------------------------
(* What a status says.                                                     *)

\* A component that has passed has passed every gate.
LEMMA PassedHolds ==
  ASSUME NEW v, v.spec \subseteq Optional, NEW c \in Members(v.spec),
         doSync(v)[c].gate = "none"
  PROVE  \A k \in 1..Len(Gates(c, v.spec)) :
           Holds(v, doSync(v), c, Gates(c, v.spec)[k])
  <1>1. IsFirst(doSync(v)[c], Gates(c, v.spec), v, doSync(v), c)
    BY SyncIsFirst
  <1>2. \A k \in 1..Len(Gates(c, v.spec)) : Gates(c, v.spec)[k].gate # "none"
    BY AllPlaced, MembersTyped DEF GatesPlaced, GatePlaced
  <1>. QED
    BY <1>1, <1>2 DEF IsFirst

\* A component that has not passed stands at one of its gates, and has passed
\* the ones before it.
LEMMA GateReached ==
  ASSUME NEW v, v.spec \subseteq Optional, NEW c \in Members(v.spec),
         doSync(v)[c].gate # "none"
  PROVE  \E k \in 1..Len(Gates(c, v.spec)) :
           /\ doSync(v)[c] = Gates(c, v.spec)[k]
           /\ GatePlaced(c, v.spec, Gates(c, v.spec), k)
           /\ \A i \in 1..(k - 1) : Holds(v, doSync(v), c, Gates(c, v.spec)[i])
  <1>1. IsFirst(doSync(v)[c], Gates(c, v.spec), v, doSync(v), c)
    BY SyncIsFirst
  <1>2. doSync(v)[c] # Passed
    BY DEF Passed
  <1>3. \A k \in 1..Len(Gates(c, v.spec)) : GatePlaced(c, v.spec, Gates(c, v.spec), k)
    BY AllPlaced, MembersTyped DEF GatesPlaced
  <1>. QED
    BY <1>1, <1>2, <1>3 DEF IsFirst

\* What the objects and conditions are that components stand at.
LEMMA OwnGates ==
  ASSUME NEW v, v.spec \subseteq Optional, NEW c \in Members(v.spec)
  PROVE  /\ doSync(v)[c].gate = "object" => doSync(v)[c].on \in Kinds
         /\ doSync(v)[c].gate = "condition" =>
              \/ c = "TabletNode" /\ doSync(v)[c].on = "bundles"
              \/ c = "QueryTracker" /\ doSync(v)[c].on = "queryTracker"
              \/ c = "QueueAgent" /\ doSync(v)[c].on = "queueAgent"
  <1>. SUFFICES ASSUME doSync(v)[c].gate # "none"
                PROVE  /\ doSync(v)[c].gate = "object" => doSync(v)[c].on \in Kinds
                       /\ doSync(v)[c].gate = "condition" =>
                            \/ c = "TabletNode" /\ doSync(v)[c].on = "bundles"
                            \/ c = "QueryTracker" /\ doSync(v)[c].on = "queryTracker"
                            \/ c = "QueueAgent" /\ doSync(v)[c].on = "queueAgent"
    OBVIOUS
  <1>. DEFINE G == Gates(c, v.spec)
  <1>1. PICK k \in 1..Len(G) : doSync(v)[c] = G[k] /\ GatePlaced(c, v.spec, G, k)
    BY GateReached
  <1>. HIDE DEF G
  <1>2. /\ G[k].gate = "object" => G[k].on \in Kinds
        /\ G[k].gate = "condition" =>
             \/ c = "TabletNode" /\ G[k].on = "bundles"
             \/ c = "QueryTracker" /\ G[k].on = "queryTracker"
             \/ c = "QueueAgent" /\ G[k].on = "queueAgent"
    BY <1>1 DEF GatePlaced
  <1>. QED
    BY <1>1, <1>2

\* The conditions behind the components that others wait for.
LEMMA Dependencies ==
  ASSUME NEW v, v.spec \subseteq Optional
  PROVE  /\ doSync(v)["Master"] = Passed => "master" \in v.conditions
         /\ doSync(v)["HttpProxy"] = Passed => "master" \in v.conditions
         /\ "TabletNode" \in Members(v.spec) /\ doSync(v)["TabletNode"] = Passed =>
              "bundles" \in v.conditions
  <1>. DEFINE at == doSync(v)
              G(c) == Gates(c, v.spec)
  <1>0. {"Master", "HttpProxy"} \subseteq Members(v.spec)
    BY MembersTyped DEF Always
  <1>1. Passed.gate = "none"
    BY DEF Passed
  <1>2. ASSUME at["Master"] = Passed PROVE "master" \in v.conditions
    <2>1. Len(G("Master")) = 3 /\ G("Master")[3] = Job("master")
      BY DEF Gates, Plain, Master
    <2>2. Holds(v, at, "Master", Job("master"))
      <3>. HIDE DEF G
      <3>1. \A k \in 1..Len(G("Master")) : Holds(v, at, "Master", G("Master")[k])
        BY <1>0, <1>1, <1>2, PassedHolds DEF G
      <3>. QED
        BY <2>1, <3>1
    <2>. QED
      BY <2>2 DEF Holds, Job
  <1>3. ASSUME at["HttpProxy"] = Passed PROVE "master" \in v.conditions
    <2>1. Len(G("HttpProxy")) = 4 /\ G("HttpProxy")[1] = Waits("Master")
      BY DEF Gates, Plain, HttpProxy
    <2>2. Holds(v, at, "HttpProxy", Waits("Master"))
      <3>. HIDE DEF G
      <3>1. \A k \in 1..Len(G("HttpProxy")) : Holds(v, at, "HttpProxy", G("HttpProxy")[k])
        BY <1>0, <1>1, <1>3, PassedHolds DEF G
      <3>. QED
        BY <2>1, <3>1
    <2>3. at["Master"] = Passed
      BY <1>0, <2>2 DEF Holds, Waits
    <2>. QED
      BY <1>2, <2>3
  <1>4. ASSUME "TabletNode" \in Members(v.spec), at["TabletNode"] = Passed
        PROVE  "bundles" \in v.conditions
    <2>1. Len(G("TabletNode")) = 4 /\ G("TabletNode")[4] = Condition("bundles")
      BY DEF Gates, Plain, TabletNode
    <2>2. Holds(v, at, "TabletNode", Condition("bundles"))
      <3>. HIDE DEF G
      <3>1. \A k \in 1..Len(G("TabletNode")) : Holds(v, at, "TabletNode", G("TabletNode")[k])
        BY <1>1, <1>4, PassedHolds DEF G
      <3>. QED
        BY <2>1, <3>1
    <2>. QED
      BY <2>2 DEF Holds, Condition
  <1>. QED
    BY <1>2, <1>3, <1>4

\* The conditions that are true when component c stands at job j.
JobReady(c, j, C) ==
  /\ j \in Jobs
  /\ j \notin {"master", "qt-state"} => "master" \in C
  /\ j \in {"op-archive", "qt-state", "qa-state"} => "bundles" \in C
  /\ j = "op-archive" => "archivarius" \in C
  /\ j = "strawberry-cluster" => "strawberry-user" \in C
  /\ j = "qt-state" => c = "QueryTracker"
  /\ j = "qa-state" => c = "QueueAgent"

\* A component only stands at a job when these conditions are true.
LEMMA JobsAreReady ==
  ASSUME NEW v, v.spec \subseteq Optional, NEW c \in Members(v.spec),
         doSync(v)[c].gate = "job"
  PROVE  JobReady(c, doSync(v)[c].on, v.conditions)
  <1>. DEFINE at == doSync(v)
              G == Gates(c, v.spec)
              j == at[c].on
  <1>1. PICK k \in 1..Len(G) :
          /\ at[c] = G[k] /\ GatePlaced(c, v.spec, G, k)
          /\ \A i \in 1..(k - 1) : Holds(v, at, c, G[i])
    BY GateReached
  <1>2. JobPlaced(c, v.spec, G, k, j)
    BY <1>1 DEF GatePlaced
  <1>3. \A g : Earlier(G, k, g) => Holds(v, at, c, g)
    BY <1>1 DEF Earlier
  <1>4. Earlier(G, k, Waits("Master")) => "master" \in v.conditions
    <2>1. "Master" \in Members(v.spec)
      BY MembersTyped DEF Always
    <2>2. Holds(v, at, c, Waits("Master")) => at["Master"] = Passed
      BY <2>1 DEF Holds, Waits
    <2>. QED
      BY <1>3, <2>2, Dependencies
  <1>5. Earlier(G, k, Waits("HttpProxy")) => "master" \in v.conditions
    <2>1. "HttpProxy" \in Members(v.spec)
      BY MembersTyped DEF Always
    <2>2. Holds(v, at, c, Waits("HttpProxy")) => at["HttpProxy"] = Passed
      BY <2>1 DEF Holds, Waits
    <2>. QED
      BY <1>3, <2>2, Dependencies
  <1>6. Earlier(G, k, Waits("TabletNode")) /\ "TabletNode" \in v.spec =>
          "bundles" \in v.conditions
    <2>1. "TabletNode" \in v.spec => "TabletNode" \in Members(v.spec)
      BY DEF Members
    <2>2. /\ Holds(v, at, c, Waits("TabletNode")) /\ "TabletNode" \in Members(v.spec)
          => at["TabletNode"] = Passed
      BY DEF Holds, Waits
    <2>. QED
      BY <1>3, <2>1, <2>2, Dependencies
  <1>7. \A x : Earlier(G, k, Job(x)) => x \in v.conditions
    <2>1. \A x : Holds(v, at, c, Job(x)) => x \in v.conditions
      BY DEF Holds, Job
    <2>. QED
      BY <1>3, <2>1
  <1>8. j \in {"op-archive", "qt-state", "qa-state"} => "TabletNode" \in v.spec
    <2>1. c \in {"QueryTracker", "QueueAgent"} => "TabletNode" \in v.spec
      BY DEF Members, Always
    <2>. QED
      BY <1>2, <2>1 DEF JobPlaced
  <1>. HIDE DEF at, G, j
  <1>9. JobReady(c, j, v.conditions)
    BY <1>2, <1>4, <1>5, <1>6, <1>7, <1>8 DEF JobPlaced, JobReady, Jobs
  <1>. QED
    BY <1>9 DEF at, j

-------------------------------------------------------------------------------
(* The walk of the component manager.                                      *)

\* What the operator writes through its client.
ClientFacts == {"bundles", "query_tracker", "connection.qt", "queue_agent",
                "connection.qa"}

Resource == [spec : SUBSET Optional, state : ClusterState,
             conditions : SUBSET Conditions]

\* A walk that began with copy v: it has only changed the conditions of the
\* copy, which are true of Cypress with what it has written, and the jobs it
\* has created find what they need there.
Walked(w, v) ==
  /\ w \in [v : Resource, objects : SUBSET (Kinds \X Components),
            jobs : SUBSET Jobs, facts : SUBSET ClientFacts, failed : BOOLEAN]
  /\ w.v.spec = v.spec /\ w.v.state = v.state
  /\ AreTrue(w.v.conditions, cypress \cup w.facts)
  /\ \A j \in w.jobs : Needs(j) \subseteq cypress \cup w.facts
  /\ "bundles" \in w.facts => "schema" \in cypress

\* What the walk relies on.
WalkContext ==
  /\ cypress \cap {"operator", "bundles"} # {} => "schema" \in cypress
  /\ \A j \in Jobs : job[j] = "done" => Leaves(j) \subseteq cypress

\* What is true stays true when more has been written.
LEMMA TrueGrows ==
  ASSUME NEW C, NEW F, NEW E, F \subseteq E, AreTrue(C, F)
  PROVE  AreTrue(C, E)
  <1>1. \A j \in Jobs \cap C : Leaves(j) \subseteq E
    BY DEF AreTrue
  <1>. QED
    BY <1>1 DEF AreTrue

\* Sets of conditions that are true are true together.
LEMMA TrueTogether ==
  ASSUME NEW C, NEW D, NEW F, AreTrue(C, F), AreTrue(D, F)
  PROVE  AreTrue(C \cup D, F)
  <1>1. \A j \in Jobs \cap (C \cup D) : Leaves(j) \subseteq F
    BY DEF AreTrue
  <1>. QED
    BY <1>1 DEF AreTrue

\* The conditions before a job say that its script finds what it needs.
LEMMA NeedsMet ==
  ASSUME NEW c, NEW j, NEW C, NEW F, NEW E, JobReady(c, j, C), AreTrue(C, F),
         F \subseteq E,
         "bundles" \in F => "schema" \in F,
         c = "QueryTracker" => createQueryTrackerUser \subseteq E,
         c = "QueueAgent" => createQueueAgentUser \subseteq E
  PROVE  Needs(j) \subseteq E
  <1>1. j \notin {"master", "qt-state"} => "schema" \in F
    <2>1. "master" \in C => Leaves("master") \subseteq F
      BY Targets DEF AreTrue
    <2>2. Leaves("master") = {"schema"}
      BY DEF Leaves, createMasterInitScript
    <2>. QED
      BY <2>1, <2>2 DEF JobReady
  <1>2. j \in {"op-archive", "qt-state", "qa-state"} => {"bundles", "schema"} \subseteq F
    BY DEF JobReady, AreTrue, initBundles
  <1>3. j = "op-archive" => "archivarius" \in F
    <2>1. "archivarius" \in C => Leaves("archivarius") \subseteq F
      BY Targets DEF AreTrue
    <2>2. Leaves("archivarius") = {"archivarius"}
      BY DEF Leaves, createSchedulerUserScript
    <2>. QED
      BY <2>1, <2>2 DEF JobReady
  <1>4. j = "strawberry-cluster" => "strawberry" \in F
    <2>1. "strawberry-user" \in C => Leaves("strawberry-user") \subseteq F
      BY Targets DEF AreTrue
    <2>2. Leaves("strawberry-user") = {"strawberry"}
      BY DEF Leaves, createInitUserAndUrlScript
    <2>. QED
      BY <2>1, <2>2 DEF JobReady
  <1>5. /\ j = "qt-state" => "query_tracker" \in E
        /\ j = "qa-state" => "queue_agent" \in E
    BY DEF JobReady, createQueryTrackerUser, createQueueAgentUser
  <1>. QED
    BY <1>1, <1>2, <1>3, <1>4, <1>5 DEF Needs, JobReady, Jobs

\* What the sync of a component writes and sets, by its gate.
LEMMA WritesTyped ==
  ASSUME NEW c, NEW g
  PROVE  /\ Writes(c, g) \subseteq ClientFacts
         /\ "bundles" \in Writes(c, g) => c = "TabletNode"
         /\ c = "QueryTracker" /\ g.gate = "job" =>
              createQueryTrackerUser \subseteq Writes(c, g)
         /\ c = "QueueAgent" /\ g.gate = "job" =>
              createQueueAgentUser \subseteq Writes(c, g)
  BY DEF Writes, ClientFacts, initBundles, createQueryTrackerUser,
         initQueryTracker, createQueueAgentUser, initQueueAgent

\* A condition that a sync sets is true with what the sync writes.
LEMMA SetsAreTrue ==
  ASSUME NEW v, v.spec \subseteq Optional, NEW c \in Members(v.spec), NEW F,
         WalkContext, cypress \cup Writes(c, doSync(v)[c]) \subseteq F
  PROVE  LET g == doSync(v)[c]
         IN /\ Sets(c, g) \cup Completed(g) \subseteq Conditions
            /\ AreTrue(Sets(c, g) \cup Completed(g), F)
  <1>. DEFINE g == doSync(v)[c]
  <1>1. g.gate = "condition" =>
          \/ c = "TabletNode" /\ g.on = "bundles"
          \/ c = "QueryTracker" /\ g.on = "queryTracker"
          \/ c = "QueueAgent" /\ g.on = "queueAgent"
    BY OwnGates
  <1>2. g.gate = "job" => g.on \in Jobs
    BY JobsAreReady DEF JobReady
  <1>. HIDE DEF g
  <1>3. /\ Sets(c, g) \in {{}, {"bundles"}, {"queryTracker"}, {"queueAgent"}}
        /\ "bundles" \in Sets(c, g) => initBundles \subseteq Writes(c, g)
        /\ "queryTracker" \in Sets(c, g) =>
             createQueryTrackerUser \cup initQueryTracker \subseteq Writes(c, g)
        /\ "queueAgent" \in Sets(c, g) =>
             createQueueAgentUser \cup initQueueAgent \subseteq Writes(c, g)
    BY <1>1 DEF Sets, Writes
  <1>4. AreTrue(Sets(c, g), F)
    <2>1. Jobs \cap Sets(c, g) = {}
      BY <1>3 DEF Jobs
    <2>2. Writes(c, g) \subseteq F
      BY DEF g
    <2>. QED
      BY <1>3, <2>1, <2>2 DEF AreTrue
  <1>5. /\ Completed(g) \subseteq Jobs
        /\ \A j \in Completed(g) : Leaves(j) \subseteq cypress
    BY <1>2 DEF Completed, WalkContext
  <1>6. AreTrue(Completed(g), F)
    <2>1. Completed(g) \cap {"bundles", "queryTracker", "queueAgent"} = {}
      BY <1>5 DEF Jobs
    <2>2. \A j \in Completed(g) : Leaves(j) \subseteq F
      BY <1>5
    <2>. QED
      BY <2>1, <2>2 DEF AreTrue
  <1>7. Sets(c, g) \cup Completed(g) \subseteq Conditions
    BY <1>3, <1>5 DEF Conditions, InitConditions
  <1>8. AreTrue(Sets(c, g) \cup Completed(g), F)
    BY <1>4, <1>6, TrueTogether
  <1>. QED
    BY <1>7, <1>8 DEF g

\* A visit keeps the walk right.
LEMMA VisitWalks ==
  ASSUME WalkContext, NEW v, v.spec \subseteq Optional, NEW w, Walked(w, v),
         NEW c \in Members(v.spec)
  PROVE  Walked(Visit(w, c), v)
  <1>. DEFINE g == doSync(w.v)[c]
              calls == Writes(c, g) # {}
              noClient == c = "QueryTracker" /\ doSync(w.v)["Client"] # Passed
              done == [v |-> [w.v EXCEPT !.conditions = @ \cup Sets(c, g) \cup Completed(g)],
                       objects |-> w.objects \cup Creates(c, g),
                       jobs |-> w.jobs \cup Starts(g),
                       facts |-> w.facts \cup Writes(c, g),
                       failed |-> FALSE]
  <1>0. /\ w \in [v : Resource, objects : SUBSET (Kinds \X Components),
                  jobs : SUBSET Jobs, facts : SUBSET ClientFacts, failed : BOOLEAN]
        /\ w.v \in Resource /\ w.v.spec = v.spec /\ w.v.state = v.state
        /\ c \in Components /\ c \in Members(w.v.spec)
        /\ w.v.spec \subseteq Optional
    BY MembersTyped DEF Walked
  <1>1. \/ Visit(w, c) = w
        \/ Visit(w, c) = [w EXCEPT !.failed = TRUE]
        \/ Visit(w, c) = done /\ (Writes(c, g) # {} => Callable)
    BY DEF Visit
  <1>2. CASE Visit(w, c) = w
    BY <1>2
  <1>3. CASE Visit(w, c) = [w EXCEPT !.failed = TRUE]
    <2>. DEFINE u == [w EXCEPT !.failed = TRUE]
    <2>1. /\ u \in [v : Resource, objects : SUBSET (Kinds \X Components),
                    jobs : SUBSET Jobs, facts : SUBSET ClientFacts, failed : BOOLEAN]
          /\ u.v = w.v /\ u.jobs = w.jobs /\ u.facts = w.facts
      BY <1>0, Zenon
    <2>. HIDE DEF u
    <2>2. Walked(u, v)
      BY <2>1 DEF Walked
    <2>. QED
      BY <1>3, <2>2 DEF u
  <1>4. CASE Visit(w, c) = done /\ (Writes(c, g) # {} => Callable)
    <2>. DEFINE C == w.v.conditions \cup Sets(c, g) \cup Completed(g)
                F == cypress \cup (w.facts \cup Writes(c, g))
    <2>1. /\ done.v = [w.v EXCEPT !.conditions = C]
          /\ done.objects = w.objects \cup Creates(c, g)
          /\ done.jobs = w.jobs \cup Starts(g)
          /\ done.facts = w.facts \cup Writes(c, g)
          /\ done.failed = FALSE
          /\ done = [v |-> done.v, objects |-> done.objects, jobs |-> done.jobs,
                     facts |-> done.facts, failed |-> done.failed]
      <3>1. w.v \in [spec : SUBSET Optional, state : ClusterState,
                      conditions : SUBSET Conditions]
        BY <1>0 DEF Resource
      <3>. HIDE DEF g
      <3>. QED
        BY <3>1
    <2>2. /\ Sets(c, g) \cup Completed(g) \subseteq Conditions
          /\ AreTrue(Sets(c, g) \cup Completed(g), F)
      <3>1. cypress \cup Writes(c, g) \subseteq F
        OBVIOUS
      <3>. HIDE DEF F
      <3>. QED
        BY <1>0, <3>1, SetsAreTrue, Zenon
    <2>3. AreTrue(C, F)
      <3>1. cypress \cup w.facts \subseteq F
        OBVIOUS
      <3>. HIDE DEF F
      <3>2. AreTrue(w.v.conditions, F)
        BY <3>1, TrueGrows DEF Walked
      <3>3. AreTrue(w.v.conditions \cup (Sets(c, g) \cup Completed(g)), F)
        BY <2>2, <3>2, TrueTogether
      <3>4. C = w.v.conditions \cup (Sets(c, g) \cup Completed(g))
        OBVIOUS
      <3>. QED
        BY <3>3, <3>4
    <2>4. C \subseteq Conditions
      BY <1>0, <2>2 DEF Resource
    <2>5. Creates(c, g) \subseteq Kinds \X Components
      <3>1. g.gate = "object" => g.on \in Kinds
        BY <1>0, OwnGates
      <3>. HIDE DEF g
      <3>2. "workload" \in Kinds
        BY DEF Kinds
      <3>. QED
        BY <1>0, <3>1, <3>2 DEF Creates
    <2>6. Starts(g) \subseteq Jobs
      <3>1. g.gate = "job" => g.on \in Jobs
        BY <1>0, JobsAreReady DEF JobReady
      <3>. QED
        BY <3>1 DEF Starts
    <2>7. "bundles" \in w.facts \cup Writes(c, g) => "schema" \in cypress
      BY <1>4 DEF Walked, Callable, WalkContext
    <2>8. ASSUME NEW j \in Starts(g) PROVE Needs(j) \subseteq F
      <3>1. g.gate = "job" /\ j = g.on
        BY DEF Starts
      <3>2. JobReady(c, j, w.v.conditions)
        BY <1>0, <3>1, JobsAreReady
      <3>3. AreTrue(w.v.conditions, cypress \cup w.facts)
        BY DEF Walked
      <3>4. "bundles" \in cypress \cup w.facts => "schema" \in cypress \cup w.facts
        BY DEF Walked, WalkContext
      <3>5. cypress \cup w.facts \subseteq F /\ Writes(c, g) \subseteq F
        OBVIOUS
      <3>6. /\ c = "QueryTracker" => createQueryTrackerUser \subseteq F
            /\ c = "QueueAgent" => createQueueAgentUser \subseteq F
        <4>. HIDE DEF F, g
        <4>. QED
          BY <3>1, <3>5, WritesTyped
      <3>. HIDE DEF F, g
      <3>. QED
        BY <3>2, <3>3, <3>4, <3>5, <3>6, NeedsMet
    <2>9. w.facts \cup Writes(c, g) \subseteq ClientFacts
      BY <1>0, WritesTyped
    <2>. HIDE DEF done, C, g
    <2>10. /\ done.v \in Resource /\ done.v.spec = v.spec /\ done.v.state = v.state
           /\ done.v.conditions = C
      BY <1>0, <2>1, <2>4 DEF Resource
    <2>11. done \in [v : Resource, objects : SUBSET (Kinds \X Components),
                     jobs : SUBSET Jobs, facts : SUBSET ClientFacts, failed : BOOLEAN]
      <3>1. /\ done.objects \subseteq Kinds \X Components /\ done.jobs \subseteq Jobs
            /\ done.facts \subseteq ClientFacts /\ done.failed \in BOOLEAN
        BY <1>0, <2>1, <2>5, <2>6, <2>9, Zenon
      <3>. QED
        BY <2>1, <2>10, <3>1
    <2>12. \A j \in done.jobs : Needs(j) \subseteq cypress \cup done.facts
      <3>1. \A j \in w.jobs : Needs(j) \subseteq F
        BY DEF Walked
      <3>. QED
        BY <2>1, <2>8, <3>1
    <2>13. Walked(done, v)
      BY <2>1, <2>3, <2>7, <2>10, <2>11, <2>12 DEF Walked
    <2>. QED
      BY <1>4, <2>13
  <1>. QED
    BY <1>1, <1>2, <1>3, <1>4

\* The steps of the walk over the first n components.
Steps(f, v, n) ==
  f = [i \in 0..n |->
         IF i = 0 THEN Begin(v)
         ELSE IF Order[i] \in Members(v.spec) THEN Visit(f[i - 1], Order[i])
         ELSE f[i - 1]]

\* The walk is well defined.
LEMMA StepsExist ==
  ASSUME NEW v, NEW n \in Nat
  PROVE  \E f : Steps(f, v, n)
  <1>. DEFINE T == {m \in Nat : \E f : Steps(f, v, m)}
  <1>1. 0 \in T
    <2>1. Steps([i \in 0..0 |-> Begin(v)], v, 0)
      BY DEF Steps
    <2>. QED
      BY <2>1
  <1>2. ASSUME NEW m \in T PROVE m + 1 \in T
    <2>1. PICK f : Steps(f, v, m)
      OBVIOUS
    <2>2. m \in Nat /\ m + 1 \in Nat
      OBVIOUS
    <2>. DEFINE next == IF Order[m + 1] \in Members(v.spec)
                        THEN Visit(f[m], Order[m + 1]) ELSE f[m]
                g == [i \in 0..(m + 1) |-> IF i = m + 1 THEN next ELSE f[i]]
    <2>3. \A i \in 0..m :
            f[i] = IF i = 0 THEN Begin(v)
                   ELSE IF Order[i] \in Members(v.spec) THEN Visit(f[i - 1], Order[i])
                   ELSE f[i - 1]
      BY <2>1 DEF Steps
    <2>4. \A i \in 0..(m + 1) :
            g[i] = IF i = 0 THEN Begin(v)
                   ELSE IF Order[i] \in Members(v.spec) THEN Visit(g[i - 1], Order[i])
                   ELSE g[i - 1]
      BY <2>2, <2>3
    <2>5. Steps(g, v, m + 1)
      <3>. HIDE DEF next
      <3>. QED
        BY <2>4 DEF Steps
    <2>. HIDE DEF g
    <2>. QED
      BY <2>2, <2>5
  <1>3. T \subseteq Nat
    OBVIOUS
  <1>4. T = Nat
    <2>. HIDE DEF T
    <2>. QED
      BY <1>1, <1>2, <1>3, Induction, Zenon
  <1>. QED
    BY <1>4

\* A walk is right however far it gets.
LEMMA WalkWalks ==
  ASSUME WalkContext, NEW v \in Resource, AreTrue(v.conditions, cypress),
         NEW n \in Nat
  PROVE  Walked(Walk(v, n), v)
  <1>. DEFINE f == CHOOSE f : Steps(f, v, n)
              T == {m \in Nat : m <= n => Walked(f[m], v)}
  <1>1. Steps(f, v, n)
    BY StepsExist
  <1>2. Walk(v, n) = f[n]
    BY DEF Walk, Steps
  <1>. HIDE DEF f
  <1>3. \A i \in 0..n :
          f[i] = IF i = 0 THEN Begin(v)
                 ELSE IF Order[i] \in Members(v.spec) THEN Visit(f[i - 1], Order[i])
                 ELSE f[i - 1]
    BY <1>1 DEF Steps
  <1>4. 0 \in T
    <2>1. f[0] = Begin(v)
      BY <1>3
    <2>2. /\ Begin(v) \in [v : Resource, objects : SUBSET (Kinds \X Components),
                           jobs : SUBSET Jobs, facts : SUBSET ClientFacts,
                           failed : BOOLEAN]
          /\ Begin(v).v = v /\ Begin(v).jobs = {} /\ Begin(v).facts = {}
      BY DEF Begin
    <2>3. Walked(Begin(v), v)
      <3>1. cypress \cup {} = cypress
        OBVIOUS
      <3>. QED
        BY <2>2, <3>1 DEF Walked
    <2>. QED
      BY <2>1, <2>3
  <1>5. ASSUME NEW m \in T PROVE m + 1 \in T
    <2>. SUFFICES ASSUME m + 1 <= n PROVE Walked(f[m + 1], v)
      OBVIOUS
    <2>1. m \in Nat /\ m + 1 \in 0..n /\ m + 1 # 0 /\ (m + 1) - 1 = m /\ m <= n
      OBVIOUS
    <2>2. Walked(f[m], v) /\ v.spec \subseteq Optional
      BY <2>1 DEF Resource
    <2>3. f[m + 1] = IF Order[m + 1] \in Members(v.spec)
                     THEN Visit(f[m], Order[m + 1]) ELSE f[m]
      BY <1>3, <2>1
    <2>. QED
      BY <2>2, <2>3, VisitWalks
  <1>6. T \subseteq Nat
    OBVIOUS
  <1>7. T = Nat
    <2>. HIDE DEF T
    <2>. QED
      BY <1>4, <1>5, <1>6, Induction, Zenon
  <1>8. Walked(f[n], v)
    <2>1. n \in T
      <3>. HIDE DEF T
      <3>. QED
        BY <1>7
    <2>. QED
      BY <2>1
  <1>. QED
    BY <1>2, <1>8

-------------------------------------------------------------------------------
(* What a reconcile leaves.                                                *)

\* A result of a reconcile that may become the state.
Outcome(r) ==
  /\ r \in [cr : [state : ClusterState, conditions : SUBSET Conditions],
            fresh : BOOLEAN, objects : SUBSET (Kinds \X Components),
            job : [Jobs -> JobState], cypress : SUBSET Facts]
  /\ cypress \subseteq r.cypress
  /\ \A j \in Jobs : r.job[j] # "none" => Needs(j) \subseteq r.cypress
  /\ \A j \in Jobs : r.job[j] = "done" => Leaves(j) \subseteq r.cypress
  /\ AreTrue(r.cr.conditions, r.cypress)
  /\ r.fresh => fresh /\ r.cr = cr
  /\ r.cypress \cap {"operator", "bundles"} # {} => "schema" \in r.cypress

\* The state itself is one.
LEMMA CurrentOutcome ==
  ASSUME InitialisationInvariant
  PROVE  Outcome(Current) /\ Current.cr = cr /\ Current.fresh = fresh
  <1>1. /\ Current.cr = cr /\ Current.fresh = fresh /\ Current.objects = objects
        /\ Current.job = job /\ Current.cypress = cypress
        /\ Current \in [cr : [state : ClusterState, conditions : SUBSET Conditions],
                        fresh : BOOLEAN, objects : SUBSET (Kinds \X Components),
                        job : [Jobs -> JobState], cypress : SUBSET Facts]
    BY DEF Current, InitialisationInvariant, TypeOK
  <1>. QED
    BY <1>1 DEF Outcome, InitialisationInvariant, Grounded, ScriptsFindWhatTheyNeed,
                ConditionsAreTrue

\* What a walk has done is one.
LEMMA DoneOutcome ==
  ASSUME InitialisationInvariant, NEW w, Walked(w, cache)
  PROVE  Outcome(Done(w)) /\ Done(w).cr = cr /\ Done(w).fresh = fresh
         /\ Done(w).cypress = cypress \cup w.facts
  <1>. DEFINE r == Done(w)
              J == [j \in Jobs |-> IF j \in w.jobs THEN "active" ELSE job[j]]
  <1>1. /\ r.cr = cr /\ r.fresh = fresh /\ r.objects = objects \cup w.objects
        /\ r.job = J /\ r.cypress = cypress \cup w.facts
        /\ r = [cr |-> r.cr, fresh |-> r.fresh, objects |-> r.objects,
                job |-> r.job, cypress |-> r.cypress]
    BY DEF Done
  <1>. HIDE DEF r
  <1>2. /\ w.objects \subseteq Kinds \X Components /\ w.facts \subseteq ClientFacts
        /\ \A j \in w.jobs : Needs(j) \subseteq cypress \cup w.facts
        /\ "bundles" \in w.facts => "schema" \in cypress
    BY DEF Walked
  <1>3. /\ cr \in [state : ClusterState, conditions : SUBSET Conditions]
        /\ fresh \in BOOLEAN /\ objects \subseteq Kinds \X Components
        /\ job \in [Jobs -> JobState] /\ cypress \subseteq Facts
    BY DEF InitialisationInvariant, TypeOK
  <1>4. J \in [Jobs -> JobState]
    BY <1>3 DEF JobState
  <1>5. cypress \cup w.facts \subseteq Facts
    BY <1>2, <1>3, Zenon DEF ClientFacts, Facts
  <1>6. r \in [cr : [state : ClusterState, conditions : SUBSET Conditions],
               fresh : BOOLEAN, objects : SUBSET (Kinds \X Components),
               job : [Jobs -> JobState], cypress : SUBSET Facts]
    <2>1. r.objects \subseteq Kinds \X Components
      BY <1>1, <1>2, <1>3
    <2>. HIDE DEF J
    <2>. QED
      BY <1>1, <1>3, <1>4, <1>5, <2>1
  <1>7. \A j \in Jobs : J[j] # "none" => Needs(j) \subseteq cypress \cup w.facts
    <2>1. \A j \in Jobs : job[j] # "none" => Needs(j) \subseteq cypress
      BY DEF InitialisationInvariant, Grounded, ScriptsFindWhatTheyNeed
    <2>. QED
      BY <1>2, <2>1
  <1>8. \A j \in Jobs : J[j] = "done" => Leaves(j) \subseteq cypress \cup w.facts
    BY DEF InitialisationInvariant, Grounded
  <1>9. AreTrue(cr.conditions, cypress \cup w.facts)
    BY TrueGrows DEF InitialisationInvariant, Grounded, ConditionsAreTrue
  <1>10. (cypress \cup w.facts) \cap {"operator", "bundles"} # {} =>
           "schema" \in cypress \cup w.facts
    BY <1>2 DEF InitialisationInvariant, Grounded, ClientFacts
  <1>. HIDE DEF J
  <1>. QED
    BY <1>1, <1>6, <1>7, <1>8, <1>9, <1>10 DEF Outcome, r

\* A save of a copy whose conditions are true leads from one to another.
LEMMA UpdateOutcome ==
  ASSUME InitialisationInvariant, NEW r, Outcome(r), NEW v \in Resource,
         AreTrue(v.conditions, r.cypress)
  PROVE  /\ Outcome(UpdateStatus(r, v))
         /\ UpdateStatus(r, v).cr # r.cr =>
              r.fresh /\ UpdateStatus(r, v).cr.state = v.state
  <1>. DEFINE status == [state |-> v.state, conditions |-> v.conditions]
              u == [r EXCEPT !.cr = status, !.fresh = FALSE]
  <1>1. \/ UpdateStatus(r, v) = r
        \/ r.fresh /\ UpdateStatus(r, v) = u
    BY DEF UpdateStatus
  <1>2. /\ status \in [state : ClusterState, conditions : SUBSET Conditions]
        /\ status.state = v.state /\ status.conditions = v.conditions
    BY DEF Resource
  <1>. HIDE DEF status
  <1>3. /\ u.cr = status /\ u.fresh = FALSE /\ u.objects = r.objects
        /\ u.job = r.job /\ u.cypress = r.cypress
        /\ u \in [cr : [state : ClusterState, conditions : SUBSET Conditions],
                  fresh : BOOLEAN, objects : SUBSET (Kinds \X Components),
                  job : [Jobs -> JobState], cypress : SUBSET Facts]
    BY <1>2, Zenon DEF Outcome
  <1>. HIDE DEF u
  <1>4. Outcome(u)
    BY <1>2, <1>3 DEF Outcome
  <1>. QED
    BY <1>1, <1>2, <1>3, <1>4

\* What a reconcile may rely on.
LEMMA InContext ==
  ASSUME InitialisationInvariant
  PROVE  WalkContext /\ cache \in Resource /\ AreTrue(cache.conditions, cypress)
         /\ cache.spec \subseteq Optional
  BY DEF InitialisationInvariant, TypeOK, Grounded, WalkContext, Resource

\* Saving the state of the cluster.
LEMMA SaveOutcome ==
  ASSUME InitialisationInvariant, NEW s \in ClusterState
  PROVE  /\ Outcome(SaveClusterState(s))
         /\ SaveClusterState(s).cr # cr => fresh /\ SaveClusterState(s).cr.state = s
  <1>. DEFINE v == [cache EXCEPT !.state = s]
  <1>1. v \in Resource /\ v.conditions = cache.conditions /\ v.state = s
    BY InContext DEF Resource
  <1>2. /\ Outcome(Current) /\ Current.cr = cr /\ Current.fresh = fresh
        /\ Current.cypress = cypress
    BY CurrentOutcome DEF Current
  <1>3. AreTrue(v.conditions, Current.cypress)
    BY <1>1, <1>2, InContext
  <1>4. SaveClusterState(s) = UpdateStatus(Current, v)
    BY DEF SaveClusterState
  <1>. HIDE DEF v
  <1>. QED
    BY <1>1, <1>2, <1>3, <1>4, UpdateOutcome

\* The walk and its save.
LEMMA SyncOutcome ==
  ASSUME InitialisationInvariant
  PROVE  Outcome(Sync) /\ (Sync.cr # cr => Sync.cr.state = cache.state)
  <1>. DEFINE w == Walk(cache, Len(Order))
  <1>1. Len(Order) \in Nat
    BY DEF Order
  <1>2. Walked(w, cache)
    BY <1>1, InContext, WalkWalks
  <1>. HIDE DEF w
  <1>3. /\ Outcome(Done(w)) /\ Done(w).cr = cr
        /\ Done(w).cypress = cypress \cup w.facts
    BY <1>2, DoneOutcome
  <1>4. /\ w.v \in Resource /\ w.v.state = cache.state
        /\ AreTrue(w.v.conditions, Done(w).cypress)
    BY <1>2, <1>3 DEF Walked
  <1>5. Sync = IF w.failed THEN Done(w) ELSE UpdateStatus(Done(w), w.v)
    BY DEF Sync, w
  <1>. QED
    BY <1>3, <1>4, <1>5, UpdateOutcome, Zenon

\* Whatever the state of the cluster, a reconcile ends well, and only a
\* reconcile that finds every component ready declares the cluster Running.
LEMMA ReconciledOutcome ==
  ASSUME InitialisationInvariant
  PROVE  /\ Outcome(Reconciled)
         /\ Reconciled.cr.state = "Running" /\ cr.state # "Running" =>
              fresh /\ ~needSync(cache)
  <1>1. /\ "Initializing" \in ClusterState /\ "Running" \in ClusterState
        /\ "Reconfiguration" \in ClusterState
    BY DEF ClusterState
  <1>2. CASE cache.state = "Created"
    <2>1. Reconciled = SaveClusterState("Initializing")
      BY <1>2 DEF Reconciled
    <2>. QED
      BY <1>1, <2>1, SaveOutcome
  <1>3. CASE cache.state = "Running"
    <2>1. Reconciled \in {SaveClusterState("Reconfiguration"), Current}
      BY <1>3 DEF Reconciled
    <2>. QED
      BY <1>1, <2>1, SaveOutcome, CurrentOutcome
  <1>4. CASE cache.state \notin {"Created", "Running"} /\ needSync(cache)
    <2>1. Reconciled = Sync
      BY <1>4 DEF Reconciled
    <2>. QED
      BY <1>4, <2>1, SyncOutcome
  <1>5. CASE cache.state \notin {"Created", "Running"} /\ ~needSync(cache)
    <2>1. Reconciled = SaveClusterState("Running")
      BY <1>5 DEF Reconciled
    <2>. QED
      BY <1>1, <1>5, <2>1, SaveOutcome
  <1>. QED
    BY <1>2, <1>3, <1>4, <1>5

-------------------------------------------------------------------------------
(* The steps.                                                              *)

\* A result of a reconcile keeps the invariant.
LEMMA BecomesKeeps ==
  ASSUME InitialisationInvariant, NEW r, Outcome(r), Becomes(r),
         UNCHANGED <<spec, cache, edits>>,
         faults' \in 0..MaxFaults
  PROVE  InitialisationInvariant'
  <1>1. /\ cr' = r.cr /\ fresh' = r.fresh /\ objects' = r.objects
        /\ job' = r.job /\ cypress' = r.cypress
        /\ spec' = spec /\ cache' = cache /\ edits' = edits
    BY DEF Becomes
  <1>2. pods' \in [Components -> PodState]
    <2>1. pods \in [Components -> PodState]
      BY DEF InitialisationInvariant, TypeOK
    <2>. QED
      BY <2>1 DEF Becomes, PodState
  <1>3. TypeOK'
    BY <1>1, <1>2 DEF InitialisationInvariant, TypeOK, Outcome
  <1>4. AreTrue(cache.conditions, r.cypress)
    BY TrueGrows, InContext DEF Outcome
  <1>5. ScriptsFindWhatTheyNeed'
    BY <1>1 DEF ScriptsFindWhatTheyNeed, Outcome
  <1>6. ConditionsAreTrue'
    BY <1>1 DEF ConditionsAreTrue, Outcome
  <1>7. fresh' => cache' = [spec |-> spec', state |-> cr'.state,
                            conditions |-> cr'.conditions]
    BY <1>1 DEF InitialisationInvariant, Grounded, Outcome
  <1>8. /\ \A j \in Jobs : job'[j] = "done" => Leaves(j) \subseteq cypress'
        /\ cypress' \cap {"operator", "bundles"} # {} => "schema" \in cypress'
    BY <1>1 DEF Outcome
  <1>9. AreTrue(cache'.conditions, cypress')
    BY <1>1, <1>4
  <1>. QED
    BY <1>3, <1>5, <1>6, <1>7, <1>8, <1>9 DEF InitialisationInvariant, Grounded

LEMMA ReconcileKeeps ==
  ASSUME InitialisationInvariant, Reconcile
  PROVE  InitialisationInvariant'
  <1>1. faults' \in 0..MaxFaults
    BY DEF Reconcile, InitialisationInvariant, TypeOK
  <1>. QED
    BY <1>1, ReconciledOutcome, BecomesKeeps DEF Reconcile

\* A sync that ends in the middle of a visit has done part of it.
LEMMA FailKeeps ==
  ASSUME InitialisationInvariant, Fail
  PROVE  InitialisationInvariant'
  <1>1. PICK n \in 0..Len(Order) :
          LET w == Walk(cache, n)
              next == IF n = Len(Order) THEN w ELSE Walk(cache, n + 1)
              workload == next.objects \cap {"workload"} \X Components
          IN \E O \in {workload, next.objects}, F \in SUBSET (next.facts \ w.facts) :
               Becomes(Done([w EXCEPT !.objects = @ \cup O, !.facts = @ \cup F]))
    BY Zenon DEF Fail
  <1>. DEFINE w == Walk(cache, n)
              next == IF n = Len(Order) THEN w ELSE Walk(cache, n + 1)
              workload == next.objects \cap {"workload"} \X Components
  <1>2. PICK O \in {workload, next.objects}, F \in SUBSET (next.facts \ w.facts) :
          Becomes(Done([w EXCEPT !.objects = @ \cup O, !.facts = @ \cup F]))
    BY <1>1, Zenon
  <1>3. n \in Nat /\ n + 1 \in Nat
    BY DEF Order
  <1>4. Walked(w, cache) /\ Walked(next, cache)
    BY <1>3, InContext, WalkWalks
  <1>. HIDE DEF w, next
  <1>5. O \subseteq Kinds \X Components /\ F \subseteq next.facts
    BY <1>4 DEF Walked
  <1>. DEFINE part == [w EXCEPT !.objects = @ \cup O, !.facts = @ \cup F]
  <1>6. Walked(part, cache)
    <2>1. w \in [v : Resource, objects : SUBSET (Kinds \X Components),
                jobs : SUBSET Jobs, facts : SUBSET ClientFacts,
                failed : BOOLEAN]
      BY <1>4 DEF Walked
    <2>2. /\ part.v = w.v /\ part.jobs = w.jobs
          /\ part.facts = w.facts \cup F
      BY <2>1
    <2>3. part \in [v : Resource, objects : SUBSET (Kinds \X Components),
                    jobs : SUBSET Jobs, facts : SUBSET ClientFacts,
                    failed : BOOLEAN]
      <3>. DEFINE A == w.objects \cup O
                  B == w.facts \cup F
      <3>1. A \in SUBSET (Kinds \X Components) /\ B \in SUBSET ClientFacts
        BY <1>4, <1>5 DEF Walked
      <3>2. part = [w EXCEPT !.objects = A, !.facts = B]
        BY <2>1
      <3>. HIDE DEF A, B, part
      <3>3. [w EXCEPT !.objects = A, !.facts = B] \in
              [v : Resource, objects : SUBSET (Kinds \X Components),
               jobs : SUBSET Jobs, facts : SUBSET ClientFacts, failed : BOOLEAN]
        BY <2>1, <3>1, Zenon
      <3>. QED
        BY <3>2, <3>3
    <2>. HIDE DEF part
    <2>4. AreTrue(part.v.conditions, cypress \cup part.facts)
      <3>1. AreTrue(w.v.conditions, cypress \cup w.facts)
        BY <1>4 DEF Walked
      <3>. QED
        BY <2>2, <3>1, TrueGrows
    <2>5. \A j \in part.jobs : Needs(j) \subseteq cypress \cup part.facts
      BY <1>4, <2>2 DEF Walked
    <2>6. "bundles" \in part.facts => "schema" \in cypress
      BY <1>4, <1>5, <2>2 DEF Walked
    <2>7. part.v.spec = cache.spec /\ part.v.state = cache.state
      BY <1>4, <2>2 DEF Walked
    <2>. QED
      BY <2>3, <2>4, <2>5, <2>6, <2>7 DEF Walked
  <1>. HIDE DEF part
  <1>7. Outcome(Done(part)) /\ Becomes(Done(part))
    BY <1>2, <1>6, DoneOutcome DEF part
  <1>8. UNCHANGED <<spec, cache, edits>> /\ faults' \in 0..MaxFaults
    BY SpecsAssumption DEF Fail, InitialisationInvariant, TypeOK
  <1>. QED
    BY <1>7, <1>8, BecomesKeeps

\* The pods start, run and fail without touching the rest.
LEMMA PodsKeep ==
  ASSUME InitialisationInvariant, NEW c \in Components,
         PodsStart(c) \/ PodsRun(c) \/ PodsFail(c)
  PROVE  InitialisationInvariant'
  <1>1. UNCHANGED <<spec, cr, cache, fresh, objects, job, cypress, edits>>
    BY DEF PodsStart, PodsRun, PodsFail
  <1>2. pods' \in [Components -> PodState]
    BY DEF InitialisationInvariant, TypeOK, PodsStart, PodsRun, PodsFail, PodState
  <1>3. faults' \in 0..MaxFaults
    BY SpecsAssumption DEF InitialisationInvariant, TypeOK, PodsStart, PodsRun, PodsFail
  <1>4. TypeOK'
    BY <1>1, <1>2, <1>3 DEF InitialisationInvariant, TypeOK
  <1>5. Grounded'
    BY <1>1 DEF InitialisationInvariant, Grounded, ScriptsFindWhatTheyNeed,
                ConditionsAreTrue
  <1>. QED
    BY <1>4, <1>5 DEF InitialisationInvariant

\* What a job leaves are facts, and a job that gives the operator its user
\* relies on the schema.
LEMMA LeavesTyped ==
  ASSUME NEW j \in Jobs
  PROVE  /\ Leaves(j) \subseteq Facts
         /\ Leaves(j) \cap {"operator", "bundles"} # {} => "schema" \in Needs(j)
  BY DEF Leaves, Needs, Jobs, Facts, createMasterInitScript,
         createClientUserScript, createSchedulerUserScript,
         prepareInitOperationsArchive, prepareInitQueryTrackerState,
         prepareInitQueueAgentState, createYqlInitScript, createUIInitScript,
         createInitUserAndUrlScript, createInitChytClusterScript

\* A script that succeeds leaves what its job leaves, and relied on the schema.
LEMMA JobKeeps ==
  ASSUME InitialisationInvariant, NEW j \in Jobs, JobSucceeds(j)
  PROVE  InitialisationInvariant'
  <1>1. /\ job' = [job EXCEPT ![j] = "done"] /\ cypress' = cypress \cup Leaves(j)
        /\ Needs(j) \subseteq cypress
        /\ UNCHANGED <<spec, cr, cache, fresh, objects, pods, edits, faults>>
    BY DEF JobSucceeds
  <1>2. Leaves(j) \subseteq Facts
    BY LeavesTyped
  <1>3. /\ job \in [Jobs -> JobState] /\ cypress \subseteq Facts
        /\ "done" \in JobState
    BY DEF InitialisationInvariant, TypeOK, JobState
  <1>4. job' \in [Jobs -> JobState] /\ cypress' \subseteq Facts
    BY <1>1, <1>2, <1>3
  <1>5. TypeOK'
    BY <1>1, <1>4 DEF InitialisationInvariant, TypeOK
  <1>6. ScriptsFindWhatTheyNeed'
    <2>1. \A i \in Jobs : job[i] # "none" => Needs(i) \subseteq cypress
      BY DEF InitialisationInvariant, Grounded, ScriptsFindWhatTheyNeed
    <2>2. \A i \in Jobs : job'[i] # "none" => Needs(i) \subseteq cypress'
      BY <1>1, <1>3, <2>1
    <2>. QED
      BY <2>2 DEF ScriptsFindWhatTheyNeed
  <1>7. \A i \in Jobs : job'[i] = "done" => Leaves(i) \subseteq cypress'
    <2>1. \A i \in Jobs : job[i] = "done" => Leaves(i) \subseteq cypress
      BY DEF InitialisationInvariant, Grounded
    <2>. QED
      BY <1>1, <1>3, <2>1
  <1>8. AreTrue(cr'.conditions, cypress') /\ AreTrue(cache'.conditions, cypress')
    <2>1. AreTrue(cr.conditions, cypress) /\ AreTrue(cache.conditions, cypress)
      BY DEF InitialisationInvariant, Grounded, ConditionsAreTrue
    <2>. QED
      BY <1>1, <2>1, TrueGrows
  <1>9. cypress' \cap {"operator", "bundles"} # {} => "schema" \in cypress'
    <2>1. cypress \cap {"operator", "bundles"} # {} => "schema" \in cypress
      BY DEF InitialisationInvariant, Grounded
    <2>2. Leaves(j) \cap {"operator", "bundles"} # {} => "schema" \in Needs(j)
      BY LeavesTyped
    <2>. QED
      BY <1>1, <2>1, <2>2
  <1>10. fresh' => cache' = [spec |-> spec', state |-> cr'.state,
                             conditions |-> cr'.conditions]
    BY <1>1 DEF InitialisationInvariant, Grounded
  <1>. QED
    BY <1>5, <1>6, <1>7, <1>8, <1>9, <1>10
    DEF InitialisationInvariant, Grounded, ConditionsAreTrue

\* The copy the informer delivers is the stored one.
LEMMA DeliverKeeps ==
  ASSUME InitialisationInvariant, Deliver
  PROVE  InitialisationInvariant'
  <1>1. /\ cache' = [spec |-> spec, state |-> cr.state, conditions |-> cr.conditions]
        /\ fresh' = TRUE
        /\ UNCHANGED <<spec, cr, objects, pods, job, cypress, edits, faults>>
    BY DEF Deliver
  <1>2. TypeOK'
    BY <1>1 DEF InitialisationInvariant, TypeOK
  <1>3. AreTrue(cache'.conditions, cypress')
    BY <1>1 DEF InitialisationInvariant, Grounded, ConditionsAreTrue
  <1>4. ScriptsFindWhatTheyNeed' /\ ConditionsAreTrue'
    BY <1>1 DEF InitialisationInvariant, Grounded, ScriptsFindWhatTheyNeed,
                ConditionsAreTrue
  <1>5. /\ \A j \in Jobs : job'[j] = "done" => Leaves(j) \subseteq cypress'
        /\ cypress' \cap {"operator", "bundles"} # {} => "schema" \in cypress'
    BY <1>1 DEF InitialisationInvariant, Grounded
  <1>. QED
    BY <1>1, <1>2, <1>3, <1>4, <1>5 DEF InitialisationInvariant, Grounded

\* An edit leaves the reconciler with an old copy.
LEMMA EditKeeps ==
  ASSUME InitialisationInvariant, EditSpec
  PROVE  InitialisationInvariant'
  <1>1. /\ fresh' = FALSE
        /\ UNCHANGED <<cr, cache, objects, pods, job, cypress, faults>>
    BY DEF EditSpec
  <1>2. spec' \subseteq Optional /\ edits' \in 0..MaxEdits
    BY SpecsAssumption DEF EditSpec, InitialisationInvariant, TypeOK
  <1>3. TypeOK'
    BY <1>1, <1>2, Zenon DEF InitialisationInvariant, TypeOK
  <1>4. Grounded'
    BY <1>1 DEF InitialisationInvariant, Grounded, ScriptsFindWhatTheyNeed,
                ConditionsAreTrue
  <1>. QED
    BY <1>3, <1>4 DEF InitialisationInvariant

LEMMA InitHolds ==
  ASSUME Init
  PROVE  InitialisationInvariant
  <1>1. TypeOK
    <2>1. spec \subseteq Optional
      BY SpecsAssumption DEF Init
    <2>2. /\ cr \in [state : ClusterState, conditions : SUBSET Conditions]
          /\ cache \in [spec : SUBSET Optional, state : ClusterState,
                       conditions : SUBSET Conditions]
      BY <2>1 DEF Init, ClusterState
    <2>3. pods \in [Components -> PodState] /\ job \in [Jobs -> JobState]
      BY DEF Init, PodState, JobState
    <2>4. edits \in 0..MaxEdits /\ faults \in 0..MaxFaults
      BY SpecsAssumption DEF Init
    <2>5. fresh \in BOOLEAN /\ objects \subseteq Kinds \X Components /\ cypress \subseteq Facts
      BY DEF Init
    <2>. QED
      BY <2>1, <2>2, <2>3, <2>4, <2>5 DEF TypeOK
  <1>2. AreTrue({}, cypress)
    BY DEF AreTrue
  <1>3. Grounded
    BY <1>2 DEF Init, Grounded, ScriptsFindWhatTheyNeed,
                ConditionsAreTrue
  <1>. QED
    BY <1>1, <1>3 DEF InitialisationInvariant

LEMMA StutterKeeps ==
  ASSUME InitialisationInvariant, UNCHANGED vars
  PROVE  InitialisationInvariant'
  <1>1. UNCHANGED <<spec, cr, cache, fresh, objects, pods, job, cypress, edits, faults>>
    BY DEF vars
  <1>2. TypeOK'
    BY <1>1 DEF InitialisationInvariant, TypeOK
  <1>3. Grounded'
    BY <1>1 DEF InitialisationInvariant, Grounded, ScriptsFindWhatTheyNeed,
                ConditionsAreTrue
  <1>. QED
    BY <1>2, <1>3 DEF InitialisationInvariant

LEMMA StepKeeps ==
  ASSUME InitialisationInvariant, [Next]_vars
  PROVE  InitialisationInvariant'
  BY ReconcileKeeps, FailKeeps, PodsKeep, JobKeeps, DeliverKeeps, EditKeeps,
     StutterKeeps DEF Next

\* The status, the reconciler's copy of it and the jobs are never ahead of
\* what has been written in Cypress, and everything keeps its type.
THEOREM NothingAhead == Spec => []InitialisationInvariant
  <1>1. Init => InitialisationInvariant
    BY InitHolds
  <1>2. InitialisationInvariant /\ [Next]_vars => InitialisationInvariant'
    BY StepKeeps
  <1>. QED
    BY <1>1, <1>2, PTL DEF Spec

-------------------------------------------------------------------------------
(* What a cluster that comes up can rely on.                               *)

\* Every variable keeps its type, whatever the specs, edits and bounds.
THEOREM TypeCorrect == Spec => []TypeOK
  <1>1. InitialisationInvariant => TypeOK
    BY DEF InitialisationInvariant
  <1>. QED
    BY <1>1, NothingAhead, PTL

\* No init job is created before the users, the schema and the bundle its
\* script relies on exist, for any spec and any sequence of edits, failed
\* syncs and stale copies.
THEOREM ScriptsFind == Spec => []ScriptsFindWhatTheyNeed
  <1>1. InitialisationInvariant => ScriptsFindWhatTheyNeed
    BY DEF InitialisationInvariant, Grounded
  <1>. QED
    BY <1>1, NothingAhead, PTL

\* A condition in the stored status is true: its job has run, the bundles
\* exist, the component is registered.
THEOREM ConditionsTrue == Spec => []ConditionsAreTrue
  <1>1. InitialisationInvariant => ConditionsAreTrue
    BY DEF InitialisationInvariant, Grounded
  <1>. QED
    BY <1>1, NothingAhead, PTL

\* What a component that has passed its gates has behind it.
Initialised(c, S, k) ==
  LET g == Gates(c, S)[k]
  IN /\ g.gate = "object" => <<g.on, c>> \in objects
     /\ g.gate = "job" => Leaves(g.on) \subseteq cypress
     /\ Writes(c, g) \subseteq cypress

\* The conditions of a component that has passed: for the query tracker and
\* the queue agent the registration comes last, after the job.
LEMMA Registered ==
  ASSUME NEW v, v.spec \subseteq Optional, NEW c \in Members(v.spec),
         doSync(v)[c].gate = "none"
  PROVE  /\ c = "QueryTracker" => "queryTracker" \in v.conditions
         /\ c = "QueueAgent" => "queueAgent" \in v.conditions
  <1>1. ASSUME c = "QueryTracker" PROVE "queryTracker" \in v.conditions
    <2>1. Gates(c, v.spec) = QueryTracker
      BY <1>1 DEF Gates, Plain
    <2>2. 6 \in 1..Len(QueryTracker) /\ QueryTracker[6] = Condition("queryTracker")
      BY DEF QueryTracker
    <2>3. Holds(v, doSync(v), c, Condition("queryTracker"))
      BY <2>1, <2>2, PassedHolds
    <2>. QED
      BY <2>3 DEF Holds, Condition
  <1>2. ASSUME c = "QueueAgent" PROVE "queueAgent" \in v.conditions
    <2>1. Gates(c, v.spec) = QueueAgent
      BY <1>2 DEF Gates, Plain
    <2>2. 8 \in 1..Len(QueueAgent) /\ QueueAgent[8] = Condition("queueAgent")
      BY DEF QueueAgent
    <2>3. Holds(v, doSync(v), c, Condition("queueAgent"))
      BY <2>1, <2>2, PassedHolds
    <2>. QED
      BY <2>3 DEF Holds, Condition
  <1>. QED
    BY <1>1, <1>2

\* What a component writes at a gate is behind its last conditions.
LEMMA WritesBehind ==
  ASSUME NEW c, NEW S, NEW gates, NEW k, GatePlaced(c, S, gates, k),
         NEW C, NEW F, AreTrue(C, F),
         gates[k].gate = "condition" => gates[k].on \in C,
         c = "QueryTracker" => "queryTracker" \in C,
         c = "QueueAgent" => "queueAgent" \in C
  PROVE  Writes(c, gates[k]) \subseteq F
  BY DEF Writes, GatePlaced, AreTrue

\* A component that has passed according to a copy whose conditions are true
\* has been initialised.
LEMMA PassedIsInitialised ==
  ASSUME NEW v, v.spec \subseteq Optional, AreTrue(v.conditions, cypress),
         NEW c \in Members(v.spec), doSync(v)[c].gate = "none",
         NEW k \in 1..Len(Gates(c, v.spec))
  PROVE  Initialised(c, v.spec, k)
  <1>. DEFINE G == Gates(c, v.spec)
  <1>1. Holds(v, doSync(v), c, G[k])
    BY PassedHolds
  <1>2. c \in Components
    BY MembersTyped
  <1>3. GatePlaced(c, v.spec, G, k)
    BY <1>2, AllPlaced DEF GatesPlaced
  <1>4. /\ c = "QueryTracker" => "queryTracker" \in v.conditions
        /\ c = "QueueAgent" => "queueAgent" \in v.conditions
    BY Registered
  <1>. HIDE DEF G
  <1>5. /\ G[k].gate = "object" => <<G[k].on, c>> \in objects
        /\ G[k].gate \in {"job", "condition"} => G[k].on \in v.conditions
    BY <1>1 DEF Holds
  <1>6. G[k].gate = "job" => Leaves(G[k].on) \subseteq cypress
    BY <1>3, <1>5 DEF GatePlaced, JobPlaced, AreTrue
  <1>7. Writes(c, G[k]) \subseteq cypress
    BY <1>3, <1>4, <1>5, WritesBehind
  <1>. QED
    BY <1>5, <1>6, <1>7 DEF Initialised, G

\* Only a component that has passed is ready.
LEMMA ReadyHasPassed ==
  ASSUME NEW g, SyncStatus(g) = "Ready"
  PROVE  g.gate = "none"
  BY DEF SyncStatus

\* Only a reconcile changes the stored state.
LEMMA RunningStep ==
  ASSUME InitialisationInvariant, [Next]_vars,
         cr.state # "Running", cr'.state = "Running",
         NEW c \in Members(spec), NEW k \in 1..Len(Gates(c, spec))
  PROVE  Initialised(c, spec, k)
  <1>1. CASE Reconcile
    <2>1. Reconciled.cr.state = "Running"
      BY <1>1 DEF Reconcile, Becomes
    <2>2. fresh /\ ~needSync(cache)
      BY <2>1, ReconciledOutcome
    <2>3. cache.spec = spec
      BY <2>2 DEF InitialisationInvariant, Grounded
    <2>4. doSync(cache)[c].gate = "none"
      BY <2>2, <2>3, ReadyHasPassed DEF needSync
    <2>5. cache.spec \subseteq Optional /\ AreTrue(cache.conditions, cypress)
      BY InContext
    <2>6. c \in Members(cache.spec) /\ k \in 1..Len(Gates(c, cache.spec))
      BY <2>3
    <2>7. Initialised(c, cache.spec, k)
      BY <2>4, <2>5, <2>6, PassedIsInitialised
    <2>. QED
      BY <2>3, <2>7
  <1>2. CASE Fail
    <2>1. cr' = cr
      BY <1>2 DEF Fail, Becomes, Done
    <2>. QED
      BY <2>1
  <1>3. CASE ~Reconcile /\ ~Fail
    <2>1. cr' = cr
      BY <1>3, Zenon DEF Next, vars, PodsStart, PodsRun, PodsFail, JobSucceeds,
                         Deliver, EditSpec
    <2>. QED
      BY <2>1
  <1>. QED
    BY <1>1, <1>2, <1>3

\* The cluster is only declared Running when every component of the spec
\* stored at that moment has its objects, has been registered and has run its
\* jobs, although the reconciler decides from a copy and syncs may have failed
\* half way.
THEOREM RunningInitialised == Spec => RunningMeansInitialised
  <1>1. InitialisationInvariant /\ [Next]_vars =>
          [cr.state # "Running" /\ cr'.state = "Running" =>
             \A c \in Members(spec) : \A i \in 1..Len(Gates(c, spec)) :
               LET g == Gates(c, spec)[i]
               IN /\ g.gate = "object" => <<g.on, c>> \in objects
                  /\ g.gate = "job" => Leaves(g.on) \subseteq cypress
                  /\ Writes(c, g) \subseteq cypress]_vars
    BY RunningStep DEF Initialised
  <1>. QED
    BY <1>1, NothingAhead, PTL DEF Spec, RunningMeansInitialised

\* The component manager never has everyone waiting on everyone: as long as a
\* component of the resource is not ready, some component stands at a gate of
\* its own, an object to create, pods to come up, a job or a registration,
\* whatever the spec and whatever exists.
THEOREM NoCircularWait ==
  ASSUME NEW v, v.spec \subseteq Optional, needSync(v)
  PROVE  \E c \in Members(v.spec) :
           doSync(v)[c].gate \in {"object", "pods", "job", "condition"}
  <1>. DEFINE at == doSync(v)
              M == Members(v.spec)
              T == {Rank[c] : c \in {d \in M : at[d] # Passed}}
  <1>0. M \subseteq Components /\ "Client" \in M
    BY MembersTyped DEF Always
  <1>1. T \subseteq Nat
    <2>1. \A c \in M : Rank[c] \in Nat
      BY <1>0, Ranks
    <2>. QED
      BY <2>1
  <1>2. T # {}
    <2>1. SyncStatus(Passed) = "Ready"
      BY DEF SyncStatus, Passed
    <2>. QED
      BY <2>1 DEF needSync
  <1>3. PICK x \in T : \A y \in T : x <= y
    <2>. HIDE DEF T
    <2>. QED
      BY <1>1, <1>2, Least, Zenon
  <1>4. PICK c \in M : at[c] # Passed /\ x = Rank[c]
    BY <1>3
  <1>5. ASSUME NEW d \in M, Rank[d] < Rank[c] PROVE at[d] = Passed
    <2>1. ASSUME at[d] # Passed PROVE FALSE
      <3>1. Rank[d] \in T
        BY <2>1
      <3>2. Rank[c] \in Nat /\ Rank[d] \in Nat /\ Rank[c] <= Rank[d]
        BY <1>1, <1>3, <1>4, <3>1
      <3>. QED
        BY <1>5, <3>2
    <2>. QED
      BY <2>1
  <1>. DEFINE G == Gates(c, v.spec)
  <1>6. PICK k \in 1..Len(G) : at[c] = G[k] /\ ~Holds(v, at, c, G[k])
    BY <1>4, SyncIsFirst DEF IsFirst
  <1>7. GatePlaced(c, v.spec, G, k)
    BY <1>0, <1>6, AllPlaced DEF GatesPlaced
  <1>. HIDE DEF at, M, T, G
  <1>8. /\ G[k].gate \in {"wait", "object", "pods", "job", "client", "condition"}
        /\ G[k].gate = "wait" => Rank[G[k].on] < Rank[c]
        /\ G[k].gate = "client" => Rank["Client"] < Rank[c]
    BY <1>7 DEF GatePlaced
  <1>9. G[k].gate # "wait"
    <2>1. G[k].gate = "wait" => G[k].on \in M /\ at[G[k].on] # Passed
      BY <1>6 DEF Holds, M
    <2>. QED
      BY <1>5, <1>8, <2>1
  <1>10. G[k].gate # "client"
    <2>1. G[k].gate = "client" => at["Client"] # Passed
      BY <1>6 DEF Holds
    <2>. QED
      BY <1>0, <1>5, <1>8, <2>1
  <1>11. at[c].gate \in {"object", "pods", "job", "condition"}
    BY <1>6, <1>8, <1>9, <1>10
  <1>. QED
    BY <1>11 DEF at, M
================================================================================
