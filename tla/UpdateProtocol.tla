---------------------------- MODULE UpdateProtocol ----------------------------
(***************************************************************************)
(* What an update promises, without saying how: a cluster that serves has  *)
(* all its tablet cells, writable masters and every component up; cells    *)
(* only go while the cluster drains and only come back while it restores;  *)
(* masters are only frozen, and components only taken down, in between.    *)
(* Masters may be thawed at any time, by what an earlier update left       *)
(* behind; one thawed too early is taken down all the same.                *)
(* No copy of a status, no condition and no reconciler occurs here.        *)
(***************************************************************************)
EXTENDS Naturals

CONSTANTS
  Components, Masters, TabletNodes,
  Bundles, Cells   \* Cells[b]: the tablet cells of bundle b

VARIABLES
  phase,    \* "serving", "draining", "replacing" or "restoring"
  cells,    \* cells[b]: tablet cells of bundle b
  leaving,  \* leaving[b]: cells told to go that are still there
  frozen,   \* some master is read-only
  thawed,   \* the masters were thawed since this update began
  down      \* the components that have been scaled to nothing

vars == <<phase, cells, leaving, frozen, thawed, down>>

NoCells == [b \in Bundles |-> 0]

Init ==
  /\ phase = "serving" /\ cells = Cells /\ leaving = NoCells
  /\ frozen = FALSE /\ thawed = FALSE /\ down = {}

\* An update is decided on.
Begin ==
  /\ phase = "serving" /\ thawed' = FALSE
  /\ UNCHANGED <<phase, cells, leaving, frozen, down>>

\* It starts: with tablet cells to remove, or without.
Drain ==
  /\ phase = "serving" /\ phase' = "draining"
  /\ UNCHANGED <<cells, leaving, frozen, thawed, down>>

Replace ==
  /\ phase = "serving" /\ phase' = "replacing"
  /\ UNCHANGED <<cells, leaving, frozen, thawed, down>>

\* Some cells are told to go; each is gone later.
RemoveCells ==
  /\ phase = "draining"
  /\ DOMAIN cells' = Bundles /\ DOMAIN leaving' = Bundles
  /\ \A b \in Bundles : /\ cells'[b] \in 0..cells[b]
                        /\ cells'[b] + leaving'[b] = cells[b] + leaving[b]
  /\ UNCHANGED <<phase, frozen, thawed, down>>

CellGone(b) ==
  /\ phase = "draining" /\ leaving[b] > 0
  /\ leaving' = [leaving EXCEPT ![b] = @ - 1]
  /\ UNCHANGED <<phase, cells, frozen, thawed, down>>

Drained ==
  /\ phase = "draining" /\ cells = NoCells /\ leaving = NoCells
  /\ phase' = "replacing"
  /\ UNCHANGED <<cells, leaving, frozen, thawed, down>>

Freeze ==
  /\ phase = "replacing" /\ frozen' = TRUE
  /\ UNCHANGED <<phase, cells, leaving, thawed, down>>

Thaw ==
  /\ frozen' = FALSE /\ thawed' = TRUE
  /\ UNCHANGED <<phase, cells, leaving, down>>

\* Masters go down frozen, unless they were thawed under way; tablet nodes
\* go down without cells.
TakeDown(c) ==
  /\ phase = "replacing"
  /\ c \in Masters => frozen \/ thawed
  /\ c \in TabletNodes => cells = NoCells
  /\ down' = down \cup {c}
  /\ UNCHANGED <<phase, cells, leaving, frozen, thawed>>

BringUp(c) ==
  /\ phase = "replacing" /\ down' = down \ {c}
  /\ UNCHANGED <<phase, cells, leaving, frozen, thawed>>

Restore ==
  /\ phase = "replacing" /\ ~frozen /\ down = {}
  /\ phase' = "restoring"
  /\ UNCHANGED <<cells, leaving, frozen, thawed, down>>

RecreateCells ==
  /\ phase = "restoring"
  /\ DOMAIN cells' = Bundles
  /\ \A b \in Bundles : cells'[b] \in cells[b]..Cells[b]
  /\ UNCHANGED <<phase, leaving, frozen, thawed, down>>

\* The cluster serves again once it has everything back.
Serve ==
  /\ phase \in {"replacing", "restoring"} /\ phase' = "serving"
  /\ cells = Cells /\ leaving = NoCells /\ ~frozen /\ down = {}
  /\ UNCHANGED <<cells, leaving, frozen, thawed, down>>

Next ==
  \/ Begin \/ Drain \/ Replace \/ RemoveCells \/ Drained \/ Freeze \/ Thaw
  \/ \E b \in Bundles : CellGone(b)
  \/ \E c \in Components : TakeDown(c) \/ BringUp(c)
  \/ Restore \/ RecreateCells \/ Serve

Spec == Init /\ [][Next]_vars
===============================================================================
