------------------------------- MODULE Tunnel -------------------------------
(***************************************************************************)
(* The cloudflared process in front of the webhook server,                 *)
(* packages/linear/webhook/src/tunnel.ts.                                  *)
(***************************************************************************)

\* stop is called by the caller and by the SIGTERM listener.
Stoppers == {"caller", "signal"}

VARIABLE
    tunnel \* child: the process; deaf: it ignores SIGTERM; termed, killed: signals it
           \* got; stops: where each call of stop is

TunnelInit ==
    tunnel = [child |-> "none", deaf |-> FALSE, termed |-> FALSE, killed |-> FALSE,
              stops |-> [s \in Stoppers |-> "no"]]

\* check, then spawn: "absent" is the TunnelBootError.
startTunnel(present, deaf) ==
    /\ tunnel.child = "none"
    /\ tunnel' = [tunnel EXCEPT !.child = IF present THEN "alive" ELSE "absent", !.deaf = deaf]

StopTunnel(s) ==
    /\ tunnel.child \in {"alive", "gone"} /\ tunnel.stops[s] = "no"
    /\ tunnel' = IF tunnel.child = "gone" THEN [tunnel EXCEPT !.stops[s] = "done"]
                 ELSE [tunnel EXCEPT !.stops[s] = "grace", !.termed = TRUE]

\* Mutant: the grace period ends without a SIGKILL.
GraceOverKeeps(s) ==
    /\ tunnel.stops[s] = "grace" /\ tunnel.child = "alive"
    /\ tunnel' = [tunnel EXCEPT !.stops[s] = "exited"]

GraceOver(s) ==
    /\ tunnel.stops[s] = "grace" /\ tunnel.child = "alive"
    /\ tunnel' = [tunnel EXCEPT !.stops[s] = "exited", !.killed = TRUE]

\* The process goes by itself, or for a signal that it heeds.
ChildExit ==
    /\ tunnel.child = "alive"
    /\ tunnel' = [tunnel EXCEPT !.child = "gone"]

StopReturns(s) ==
    /\ tunnel.stops[s] \in {"grace", "exited"} /\ tunnel.child = "gone"
    /\ tunnel' = [tunnel EXCEPT !.stops[s] = "done"]

Doomed == tunnel.child = "alive" /\ (tunnel.killed \/ (tunnel.termed /\ ~tunnel.deaf))

TunnelNext ==
    \/ \E present, deaf \in BOOLEAN : startTunnel(present, deaf)
    \/ \E s \in Stoppers : StopTunnel(s) \/ GraceOver(s) \/ StopReturns(s)
    \/ ChildExit

\* A grace period ends, a call whose process is gone returns, and a process that was
\* killed, or heeds the SIGTERM it got, exits.
TunnelFairness ==
    /\ \A s \in Stoppers : WF_tunnel(GraceOver(s)) /\ WF_tunnel(StopReturns(s))
    /\ WF_tunnel(Doomed /\ ChildExit)

\* A stop of the tunnel returns, and then the process is gone, deaf to SIGTERM or not.
TunnelStops ==
    /\ \A s \in Stoppers : tunnel.stops[s] # "no" ~> tunnel.stops[s] = "done"
    /\ [](\A s \in Stoppers : tunnel.stops[s] = "done" => tunnel.child = "gone")
=============================================================================
