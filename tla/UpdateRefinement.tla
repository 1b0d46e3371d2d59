--------------------------- MODULE UpdateRefinement ---------------------------
(***************************************************************************)
(* The operator implements the update protocol: the phase is read off the  *)
(* stored status, the rest is what the cluster and its StatefulSets are.   *)
(***************************************************************************)
EXTENDS UpdateInvariant

Replacing == {"WaitingForSnapshots", "WaitingForPodsRemoval",
              "WaitingForPodsCreation", "WaitingForMasterExitReadOnly"}

PhaseOf(r) ==
  CASE r.cluster # "Updating" -> "serving"
    [] r.cluster = "Updating" /\ r.state \in Removing -> "draining"
    [] r.cluster = "Updating" /\ r.state \in Replacing -> "replacing"
    [] r.cluster = "Updating" /\ r.state = "WaitingForTabletCellsRecovery" ->
         "restoring"
    [] OTHER -> "serving"

Down(servers) == {c \in Components : servers[c].replicas = 0}

Protocol ==
  INSTANCE UpdateProtocol WITH
    phase <- PhaseOf(cr), cells <- alive, leaving <- dying,
    frozen <- readOnly # {}, thawed <- "ExitReadOnly" \in ran,
    down <- Down(sts)

\* Every behaviour of the operator, the cluster and its faults is one of the
\* update protocol: whichever stale copy a reconcile works on, cells only go
\* while the stored status says the cluster drains and only come back while
\* it restores, components only go down in between, and nothing is frozen or
\* down when the status says it serves.  That masters are still frozen when
\* they go down is promised only of an update in which no exit-read-only job
\* ran before: one that an earlier update left behind may thaw them.
ImplementsProtocol == Protocol!Spec
===============================================================================
