------------------------------ MODULE MCEdges ------------------------------
(* The daemon and what it talks to, each part on its own: the daemon's drain *)
(* with three pickups of one issue; the requests of the two line protocols   *)
(* and their framing; an A2A client and its server; the identities of A2A;   *)
(* the tunnel in front of the webhook server; the egress broker in front of  *)
(* an agent.                                                                 *)
(* A behaviour is of one part, the others stay where they began.             *)
EXTENDS LinearRuntime, RpcClient, A2a, Tunnel, EgressBroker

CONSTANTS r1, r2, r3, i1

AllSame == [r \in Runs |-> i1]

\* One host and one suffix; an allowed target, one that only ends like the suffix, one without a port.
MCPolicy == [ok |-> TRUE, hosts |-> {<<"x">>}, suffixes |-> {<<".", "a">>}]
MCTargets == {<<"1", ".", "a", ":", "1">>, <<"x", "a", ":", "1">>, <<"x">>}

\* What is told to stop stops: drainAndStop resolves with no pickup left parked, and a stop of
\* the tunnel returns when cloudflared is gone.
StopsComplete == DrainSound /\ TunnelStops

VARIABLE part \* whose behaviour it is

EdgesInit ==
    /\ part \in {"runtime", "rpc", "frames", "a2a", "cards", "tunnel", "broker"}
    /\ Init /\ RpcInit /\ FrameInit /\ A2aInit /\ CardInit /\ TunnelInit /\ BrokerInit

EdgesNext ==
    /\ UNCHANGED part
    /\ IF part = "runtime" THEN Next ELSE UNCHANGED vars
    /\ IF part = "rpc" THEN RpcNext ELSE UNCHANGED rpcVars
    /\ IF part = "frames" THEN FrameNext ELSE UNCHANGED frameVars
    /\ IF part = "a2a" THEN A2aNext ELSE UNCHANGED a2aVars
    /\ IF part = "cards" THEN CardNext ELSE UNCHANGED cardVars
    /\ IF part = "tunnel" THEN TunnelNext ELSE UNCHANGED tunnel
    /\ IF part = "broker" THEN BrokerNext ELSE UNCHANGED brokerVars

EdgesSpec ==
    /\ EdgesInit
    /\ [][EdgesNext]_<<part, vars, rpcVars, frameVars, a2aVars, cardVars, tunnel, brokerVars>>
    /\ Fairness /\ RpcFairness /\ A2aFairness /\ TunnelFairness /\ BrokerFairness
=============================================================================
