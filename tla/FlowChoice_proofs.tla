--------------------------- MODULE FlowChoice_proofs ---------------------------
(***************************************************************************)
(* The choice of an update flow is right for any set of components.        *)
(***************************************************************************)
EXTENDS FlowChoice, TLAPS

\* The inputs of chooseUpdateFlow, whose result meta is.
Chosen ==
  /\ selector \in UpdateSelector
  /\ fullEnabled \in BOOLEAN
  /\ need \in (SUBSET Components) \ {{}}
  /\ meta = chooseUpdateFlow(selector, fullEnabled, need)

\* meta is always what chooseUpdateFlow returns for the inputs.
LEMMA AlwaysChosen == Spec => []Chosen
  <1>1. Init => Chosen
    BY DEF Init, Chosen
  <1>2. Chosen /\ [Next]_vars => Chosen'
    BY DEF Next, vars, Chosen
  <1>. QED
    BY <1>1, <1>2, PTL DEF Spec

\* What chooseUpdateFlow returns, by selector.
LEMMA Choices ==
  ASSUME Chosen
  PROVE  /\ selector = "Unspecified" => meta =
              IF need \cap Stateful # {}
              THEN IF fullEnabled THEN Proceed("Full", {}) ELSE Block
              ELSE Proceed("Stateless", need)
         /\ selector = "Everything" => meta =
              IF need \cap Stateful # {} THEN Proceed("Full", {})
                                         ELSE Proceed("Stateless", need)
         /\ selector = "MasterOnly" =>
              meta = ProceedWith("Master", need \cap Masters)
         /\ selector = "TabletNodesOnly" =>
              meta = ProceedWith("TabletNodes", need \cap TabletNodes)
         /\ selector = "ExecNodesOnly" =>
              meta = ProceedWith("Stateless", need \cap ExecNodes)
         /\ selector = "StatelessOnly" =>
              meta = ProceedWith("Stateless", need \ Stateful)
         /\ selector = "Nothing" => meta = Block
  BY DEF Chosen, chooseUpdateFlow, statefulIn, Stateful

\* The four kinds of outcome: blocked, a Full update of everything, a
\* Stateless update of what needs it, or an update of the part of it that
\* the selector names.
Outcome(flow, names, blocked) ==
  meta.flow = flow /\ meta.names = names /\ meta.blocked = blocked

PossibleOutcome ==
  \/ /\ Outcome("NoFlow", {}, TRUE)
       /\ IF selector = "Unspecified" THEN ~fullEnabled /\ need \cap Stateful # {}
                          ELSE need \cap Allowed = {}
    \/ /\ Outcome("Full", {}, FALSE)
       /\ Allowed = Components
       /\ selector = "Unspecified" => fullEnabled
       /\ selector # "Unspecified" => need \cap Allowed # {}
    \/ /\ selector \in {"Unspecified", "Everything"}
       /\ Outcome("Stateless", need, FALSE)
       /\ need # {} /\ need \subseteq Components
       /\ need \cap Stateful = {}
       /\ need \subseteq Allowed
    \/ /\ selector \in {"MasterOnly", "TabletNodesOnly", "ExecNodesOnly",
                        "StatelessOnly"}
       /\ need \cap Allowed # {}
       /\ Outcome(IF selector = "MasterOnly" THEN "Master"
                  ELSE IF selector = "TabletNodesOnly" THEN "TabletNodes"
                  ELSE "Stateless",
                  need \cap Allowed, FALSE)

\* Every choice is one of these outcomes.
LEMMA Outcomes ==
  ASSUME Chosen
  PROVE  PossibleOutcome
  <1>1. /\ selector \in UpdateSelector /\ fullEnabled \in BOOLEAN
        /\ need \subseteq Components /\ need # {}
    BY DEF Chosen
  <1>2. /\ Masters \subseteq Components /\ TabletNodes \subseteq Components
        /\ ExecNodes \subseteq Components
    BY KindsAssumption
  <1>3. CASE selector = "Unspecified"
    <2>1. CASE need \cap Stateful = {}
      BY <1>1, <1>3, <2>1, Choices
      DEF PossibleOutcome, Outcome, Allowed, Proceed, Stateful
    <2>2. CASE need \cap Stateful # {} /\ fullEnabled
      BY <1>1, <1>3, <2>2, Choices
      DEF PossibleOutcome, Outcome, Allowed, Proceed
    <2>3. CASE need \cap Stateful # {} /\ ~fullEnabled
      BY <1>1, <1>3, <2>3, Choices DEF PossibleOutcome, Outcome, Block
    <2>. QED
      BY <2>1, <2>2, <2>3
  <1>4. CASE selector = "Everything"
    <2>1. Allowed = Components
      BY <1>4 DEF Allowed
    <2>2. CASE need \cap Stateful = {}
      BY <1>1, <1>4, <2>1, <2>2, Choices
      DEF PossibleOutcome, Outcome, Proceed
    <2>3. CASE need \cap Stateful # {}
      BY <1>1, <1>4, <2>1, <2>3, Choices
      DEF PossibleOutcome, Outcome, Proceed
    <2>. QED
      BY <2>2, <2>3
  <1>5. CASE selector = "MasterOnly"
    <2>1. Allowed = Masters /\ meta = ProceedWith("Master", need \cap Masters)
      BY <1>5, Choices DEF Allowed
    <2>. QED
      BY <1>1, <1>5, <2>1 DEF PossibleOutcome, Outcome, Proceed, ProceedWith, Block
  <1>6. CASE selector = "TabletNodesOnly"
    <2>1. /\ Allowed = TabletNodes
          /\ meta = ProceedWith("TabletNodes", need \cap TabletNodes)
      BY <1>6, Choices DEF Allowed
    <2>. QED
      BY <1>1, <1>6, <2>1 DEF PossibleOutcome, Outcome, Proceed, ProceedWith, Block
  <1>7. CASE selector = "ExecNodesOnly"
    <2>1. /\ Allowed = ExecNodes
          /\ meta = ProceedWith("Stateless", need \cap ExecNodes)
      BY <1>7, Choices DEF Allowed
    <2>. QED
      BY <1>1, <1>7, <2>1 DEF PossibleOutcome, Outcome, Proceed, ProceedWith, Block
  <1>8. CASE selector = "StatelessOnly"
    <2>1. Allowed = Components \ Stateful
      BY <1>8 DEF Allowed
    <2>2. meta = ProceedWith("Stateless", need \ Stateful)
      BY <1>8, Choices
    <2>3. need \ Stateful = need \cap Allowed
      BY <1>1, <2>1
    <2>. QED
      BY <1>1, <1>8, <2>2, <2>3 DEF PossibleOutcome, Outcome, Proceed, ProceedWith, Block
  <1>9. CASE selector = "Nothing"
    BY <1>1, <1>9, Choices DEF PossibleOutcome, Outcome, Allowed, Block
  <1>. QED
    BY <1>1, <1>3, <1>4, <1>5, <1>6, <1>7, <1>8, <1>9 DEF UpdateSelector

\* Type correctness, from the inputs and the choice.
LEMMA ChosenTyped == Chosen => TypeOK
  <1>. SUFFICES ASSUME Chosen
                PROVE  meta \in [flow : Flow, names : SUBSET Components,
                                 blocked : BOOLEAN]
    BY DEF Chosen, TypeOK
  <1>1. \E flow, names, blocked :
          meta = [flow |-> flow, names |-> names, blocked |-> blocked]
    <2>1. selector \in UpdateSelector
      BY DEF Chosen
    <2>. QED
      BY <2>1, Choices DEF UpdateSelector, Proceed, ProceedWith, Block
  <1>2. /\ meta.flow \in Flow /\ meta.names \subseteq Components
        /\ meta.blocked \in BOOLEAN
    BY Outcomes, Zenon DEF PossibleOutcome, Outcome, Flow, Chosen
  <1>. QED
    BY <1>1, <1>2

\* The selector is respected for any set of components.
LEMMA ChosenRespects == Chosen => SelectorRespected
  BY Outcomes, Zenon DEF PossibleOutcome, Outcome, SelectorRespected, Taken, IsUpdatingComponent

\* Stateful components are only taken down by a flow that protects them.
LEMMA ChosenProtects == Chosen => FlowProtectsState
  <1>. SUFFICES ASSUME Chosen PROVE FlowProtectsState
    OBVIOUS
  <1>1. CASE selector \in {"MasterOnly", "TabletNodesOnly", "ExecNodesOnly",
                           "StatelessOnly"}
    <2>1. Allowed = CASE selector = "MasterOnly" -> Masters
                      [] selector = "TabletNodesOnly" -> TabletNodes
                      [] selector = "ExecNodesOnly" -> ExecNodes
                      [] selector = "StatelessOnly" ->
                           Components \ (Masters \cup TabletNodes)
      BY <1>1 DEF Allowed, Stateful
    <2>. QED
      BY <1>1, <2>1, Outcomes, KindsAssumption, Zenon
      DEF PossibleOutcome, Outcome, FlowProtectsState, Taken, IsUpdatingComponent
  <1>2. CASE selector \notin {"MasterOnly", "TabletNodesOnly",
                              "ExecNodesOnly", "StatelessOnly"}
    BY <1>2, Outcomes, Zenon
    DEF PossibleOutcome, Outcome, FlowProtectsState, Taken, IsUpdatingComponent, Stateful
  <1>. QED
    BY <1>1, <1>2

\* A choice is blocked exactly when the user's settings block it.
LEMMA ChosenBlocked == Chosen => BlockedOnlyByUser
  BY Outcomes, Zenon DEF PossibleOutcome, Outcome, BlockedOnlyByUser, Chosen

-------------------------------------------------------------------------------
\* The types of the choice.
THEOREM TypeCorrect == Spec => []TypeOK
  BY AlwaysChosen, ChosenTyped, PTL

\* chooseUpdateFlow takes down only what the user allows and what needs it,
\* for any components of any kinds.
THEOREM RespectsSelector == Spec => []SelectorRespected
  BY AlwaysChosen, ChosenRespects, PTL

\* chooseUpdateFlow never takes down a master or a tablet node with a flow
\* that does not protect its state, for any components of any kinds.
THEOREM ProtectsState == Spec => []FlowProtectsState
  BY AlwaysChosen, ChosenProtects, PTL

\* chooseUpdateFlow blocks exactly the updates the user's settings block.
THEOREM BlocksOnlyByUser == Spec => []BlockedOnlyByUser
  BY AlwaysChosen, ChosenBlocked, PTL
===============================================================================
