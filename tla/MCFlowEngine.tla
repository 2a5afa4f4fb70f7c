---------------------------- MODULE MCFlowEngine ----------------------------
(* Three flows: a branch, a loop in front of a gate, and a missing runner. *)
EXTENDS FlowEngine

\* 4 decides through 1 between 2 and 3; 3 has no dependents.
Branching ==
    [nodes |-> 1..4,
     kind |-> <<"conditional", "agent_step", "agent_step", "agent_step">>,
     dependsOn |-> <<{4}, {1}, {1}, {}>>,
     trueBranch |-> <<2, 0, 0, 0>>,
     falseBranch |-> <<3, 0, 0, 0>>,
     maxRetries |-> <<0, 0, 0, 1>>,
     maxIterations |-> <<0, 0, 0, 0>>,
     unregistered |-> {}]

Gated ==
    [nodes |-> 1..4,
     kind |-> <<"human_gate", "loop", "agent_step", "agent_step">>,
     dependsOn |-> <<{2}, {4}, {1}, {}>>,
     trueBranch |-> <<0, 0, 0, 0>>,
     falseBranch |-> <<0, 0, 0, 0>>,
     maxRetries |-> <<0, 0, 1, 0>>,
     maxIterations |-> <<0, 2, 0, 0>>,
     unregistered |-> {}]

\* The branch that 1 decides for has no runner.
Unwired ==
    [nodes |-> 1..3,
     kind |-> <<"conditional", "agent_step", "agent_step">>,
     dependsOn |-> <<{}, {1}, {1}>>,
     trueBranch |-> <<2, 0, 0>>,
     falseBranch |-> <<3, 0, 0>>,
     maxRetries |-> <<0, 0, 1>>,
     maxIterations |-> <<0, 0, 0>>,
     unregistered |-> {2}]

MCDefinitions == {Branching, Gated, Unwired}

MCInputs == {[task |-> "first", human |-> FALSE], [task |-> "first", human |-> TRUE],
             [task |-> "second", human |-> FALSE]}
=============================================================================
