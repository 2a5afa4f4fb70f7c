---------------------------- MODULE MCFlowParts ----------------------------
(* The flow engine over the flows of MCFlowEngine and, each on its own, what *)
(* a flow runs with: the flow plan-execute-review and its agents, the CI     *)
(* gate, the worktrees, the egress broker's container, the watchdog.         *)
(* A behaviour is of one part, the others stay where they began.             *)
EXTENDS MCFlowEngine, Watchdog, Worktree, PlanExecuteReview, CiGate, EgressContainer

MCPeerCosts == <<1, 1>>

VARIABLE part \* whose behaviour it is

\* What is read back out of text is what was written, and the reviewer's excerpt leaves out
\* only what it must: the logs of the CI job's steps and of the broker's container.
TextsSound ==
    /\ part = "gate" => ExcerptSound
    /\ part = "container" => DecisionsReadBack

PartsInit ==
    /\ part \in {"flow", "watchdog", "worktree", "review", "gate", "container"}
    /\ Init /\ DogInit /\ TreeInit /\ PerInit /\ GateInit /\ ContainerInit
    /\ part # "flow" => def = Branching /\ input = [task |-> "first", human |-> FALSE]

PartsNext ==
    /\ UNCHANGED part
    /\ IF part = "flow" THEN Next ELSE UNCHANGED flowVars
    /\ IF part = "watchdog" THEN DogNext ELSE UNCHANGED dogVars
    /\ IF part = "worktree" THEN TreeNext ELSE UNCHANGED treeVars
    /\ IF part = "review" THEN PerNext ELSE UNCHANGED perVars
    /\ IF part = "gate" THEN GateNext ELSE UNCHANGED gateVars
    /\ IF part = "container" THEN ContainerNext ELSE UNCHANGED containerVars

PartsSpec ==
    /\ PartsInit
    /\ [][PartsNext]_<<part, flowVars, dogVars, treeVars, perVars, gateVars, containerVars>>
    /\ WF_flowVars(Walk) /\ WF_flowVars(Settle)
=============================================================================
