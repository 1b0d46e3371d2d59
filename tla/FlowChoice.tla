------------------------------ MODULE FlowChoice ------------------------------
(***************************************************************************)
(* The choice of an update flow over all its inputs: the user sets the     *)
(* selector and enableFullUpdate, some components need an update, and      *)
(* chooseUpdateFlow says which flow to start on which components, or that  *)
(* the update is blocked.                                                  *)
(***************************************************************************)
EXTENDS UpdateFlow

VARIABLES
  selector,     \* spec.updateSelector
  fullEnabled,  \* spec.enableFullUpdate
  need,         \* components with status NeedLocalUpdate
  meta          \* what chooseUpdateFlow returns

vars == <<selector, fullEnabled, need, meta>>

Init ==
  /\ selector \in UpdateSelector
  /\ fullEnabled \in BOOLEAN
  /\ need \in (SUBSET Components) \ {{}}
  /\ meta = chooseUpdateFlow(selector, fullEnabled, need)

Next ==
  /\ selector' \in UpdateSelector
  /\ fullEnabled' \in BOOLEAN
  /\ need' \in (SUBSET Components) \ {{}}
  /\ meta' = chooseUpdateFlow(selector', fullEnabled', need')

Spec == Init /\ [][Next]_vars

-------------------------------------------------------------------------------
Stateful == Masters \cup TabletNodes

\* The components whose pods the chosen update replaces.
Taken == IF meta.blocked THEN {}
         ELSE {c \in Components : IsUpdatingComponent(meta.names, c)}

\* What the user allows to be updated.
Allowed ==
  CASE selector = "Unspecified" -> IF fullEnabled THEN Components
                                       ELSE Components \ Stateful
    [] selector = "Nothing" -> {}
    [] selector = "StatelessOnly" -> Components \ Stateful
    [] selector = "MasterOnly" -> Masters
    [] selector = "TabletNodesOnly" -> TabletNodes
    [] selector = "ExecNodesOnly" -> ExecNodes
    [] selector = "Everything" -> Components

\* Every variable keeps its type.
TypeOK ==
  /\ selector \in UpdateSelector
  /\ fullEnabled \in BOOLEAN
  /\ need \in (SUBSET Components) \ {{}}
  /\ meta \in [flow : Flow, names : SUBSET Components, blocked : BOOLEAN]

\* chooseUpdateFlow takes down no component the user does not allow to be
\* updated, and outside the Full flow none that needs no update; a list of
\* names is never empty by accident, which would mean every component.
SelectorRespected ==
  /\ Taken \subseteq Allowed
  /\ meta.flow # "Full" => Taken \subseteq need

\* Masters are only taken down by a flow that snapshots them (Full, Master),
\* tablet nodes only by one that saves and restores the tablet cells (Full,
\* TabletNodes).
FlowProtectsState ==
  /\ Taken \cap Masters # {} => meta.flow \in {"Full", "Master"}
  /\ Taken \cap TabletNodes # {} => meta.flow \in {"Full", "TabletNodes"}

\* An update is blocked only if the user allows none of the components that
\* need one; without a selector, only if a stateful one needs a full update
\* that is not enabled.
BlockedOnlyByUser ==
  meta.blocked <=> IF selector = "Unspecified"
                   THEN ~fullEnabled /\ need \cap Stateful # {}
                   ELSE need \cap Allowed = {}
===============================================================================
