------------------------------ MODULE MCAgents ------------------------------
(* What a daemon and a command line run an agent with, each on its own: the  *)
(* rate limiter with two roles, one of them without an entry in perRoleCap;  *)
(* the label machine with two callers over one issue; a swarm of three roles *)
(* of which the executor escalates to its role and the others to the swarm;  *)
(* one Codex handle over two user turns; and the stream and the log of one   *)
(* run's events.                                                             *)
EXTENDS RateLimiter, LabelMachine, Swarm, CodexHandle, EventTail

CONSTANTS e1, e2, e3, p1

MCRequests == {e1, e2, e3, p1}
MCRoles == {"executor", "planner"}
MCRoleOf == [r \in MCRequests |-> IF r = p1 THEN "planner" ELSE "executor"]
MCPerRoleCap == [role \in {"executor"} |-> 1]
ExecutorAlone == [q \in SwarmRoles |-> IF q = "executor" THEN "role" ELSE "swarm"]

VARIABLE part \* whose behaviour it is, the others stay where they began

AgentsInit ==
    /\ part \in {"limiter", "labels", "swarm", "codex", "tail"}
    /\ Init /\ LabelInit /\ SwarmInit /\ CodexInit /\ TailInit
    /\ part = "codex" \/ source = "spawn"

AgentsNext ==
    /\ UNCHANGED part
    /\ IF part = "limiter" THEN Next ELSE UNCHANGED limiterVars
    /\ IF part = "labels" THEN LabelNext ELSE UNCHANGED labelVars
    /\ IF part = "swarm" THEN SwarmNext ELSE UNCHANGED swarmVars
    /\ IF part = "codex" THEN CodexNext ELSE UNCHANGED codexVars
    /\ IF part = "tail" THEN TailNext ELSE UNCHANGED tailVars

AgentsSpec ==
    /\ AgentsInit
    /\ [][AgentsNext]_<<part, limiterVars, labelVars, swarmVars, codexVars, tailVars>>
    /\ Fairness /\ SwarmFairness /\ CodexFairness /\ TailFairness
=============================================================================
