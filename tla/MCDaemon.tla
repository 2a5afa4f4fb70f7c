------------------------------ MODULE MCDaemon ------------------------------
(* The Linear daemon over three pickups, two of issue i1 and one of i2; the  *)
(* leases of two runs of different agents over two disjoint globs (side by   *)
(* side, and two leases for one glob in conflict); every pair of small       *)
(* globs; the webhook server; and the client of Linear.  A behaviour is of   *)
(* one of them, the others stay where they began.                            *)
EXTENDS LinearRuntime, Leases, Globs, Webhook, LinearClient

CONSTANTS r1, r2, r3, i1, i2, p1, p2, g1, g2

TwoAndOne == [r \in {r1, r2, r3} |-> IF r = r3 THEN i2 ELSE i1]

AgentOfRun == [r \in LeaseRuns |-> IF r = r1 THEN "planner" ELSE "executor"]
OnePathEach == [g \in Globs |-> IF g = g1 THEN {p1} ELSE {p2}]
OnlyWithItself == {<<g, g>> : g \in Globs}

EditCalls == {<<"append", 1>>, <<"append", 2>>, <<"finalize", 1>>, <<"finalize", 2>>}

VARIABLE part \* whose behaviour it is

DaemonInit ==
    /\ part \in {"runtime", "leases", "globs", "hook", "client"}
    /\ Init /\ LeaseInit /\ GlobInit /\ HookInit /\ LinearInit

DaemonNext ==
    /\ UNCHANGED part
    /\ IF part = "runtime" THEN Next ELSE UNCHANGED vars
    /\ IF part = "leases" THEN LeaseNext ELSE UNCHANGED leaseVars
    /\ IF part = "globs" THEN GlobNext ELSE UNCHANGED globVars
    /\ IF part = "hook" THEN HookNext ELSE UNCHANGED hookVars
    /\ IF part = "client" THEN LinearNext ELSE UNCHANGED linearVars

DaemonSpec ==
    DaemonInit /\ [][DaemonNext]_<<part, vars, leaseVars, globVars, hookVars, linearVars>>
=============================================================================
