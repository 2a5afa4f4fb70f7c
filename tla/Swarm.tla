-------------------------------- MODULE Swarm --------------------------------
(***************************************************************************)
(* The swarm of packages/core/supervisor/src/swarm.ts over its event bus   *)
(* (bus.ts), with the emitter of packages/core/composition that puts the   *)
(* escalations of the mailbox and the watchdog on that bus.                *)
(*                                                                         *)
(* A role's supervisor is what module Supervisor shows of it, seen from    *)
(* outside: start ends in "running" or, after an escalation, in "stopped"; *)
(* stop ends in "stopped"; a child beyond its restart intensity raises an  *)
(* escalation and takes the role down.  An action is the swarm's code from *)
(* one await of a role to the next.                                        *)
(***************************************************************************)
EXTENDS Naturals, Sequences

CONSTANTS
    SwarmRoles, \* roleIds
    Escalate    \* Escalate[q]: policy.escalate of the role, "role" or "swarm"

ASSUME SwarmAssumption == Escalate \in [SwarmRoles -> {"role", "swarm"}]

VARIABLES
    swarmState,  \* _state
    roleSeq,     \* roles, in insertion order
    roleState,   \* the state of each role's supervisor
    leaving,     \* roles whose supervisor tears itself down after an escalation
    starter,     \* the call of start: where its loop or its teardown is
    stopper,     \* the call of stop: the role it waits for, 0 if there is none
    listening,   \* the internal listener is on the bus
    microtask,   \* a stop("swarm_escalation") is queued
    emitterOn,   \* ~stopped of the escalation emitter
    escalated,   \* history: roles that raised an escalation
    crossed      \* history: stop was called while start was under way

swarmVars == <<swarmState, roleSeq, roleState, leaving, starter, stopper, listening, microtask,
               emitterOn, escalated, crossed>>

RoleStates == {"idle", "starting", "running", "stopping", "stopped"}
Idle == [mode |-> "none", at |-> 0, failing |-> 0, owns |-> FALSE]

SwarmTypeOK ==
    /\ swarmState \in RoleStates
    /\ roleState \in [SwarmRoles -> RoleStates]
    /\ \A i \in DOMAIN roleSeq : roleSeq[i] \in SwarmRoles
    /\ leaving \subseteq SwarmRoles /\ escalated \subseteq SwarmRoles
    /\ starter.mode \in {"none", "start", "teardown"} /\ starter.at \in 0..Len(roleSeq)
    /\ stopper.at \in 0..Len(roleSeq)

SwarmInit ==
    /\ swarmState = "idle" /\ roleSeq = <<>>
    /\ roleState = [q \in SwarmRoles |-> "idle"]
    /\ leaving = {} /\ escalated = {} /\ crossed = FALSE
    /\ starter = Idle /\ stopper = Idle
    /\ listening = TRUE /\ microtask = FALSE /\ emitterOn = TRUE

addRole(q) ==
    /\ swarmState = "idle"
    /\ \A i \in DOMAIN roleSeq : roleSeq[i] # q
    /\ roleSeq' = Append(roleSeq, q)
    /\ UNCHANGED <<swarmState, roleState, leaving, starter, stopper, listening, microtask, emitterOn,
                   escalated, crossed>>

---------------------------------------------------------------------------
(* Escalations. *)

\* Mutant: an escalation to the role is taken for one to the swarm.
publishAny(target) == microtask' = (microtask \/ (listening /\ swarmState = "running"))

\* EventBus.publish of an escalation: the swarm's listener queues a stop if the
\* swarm is running.
publish(target) == microtask' = (microtask \/ (listening /\ target = "swarm" /\ swarmState = "running"))

\* A child is beyond its restart intensity (the role then goes down) or its
\* restart failed (the role stays).
RoleEscalates(q) ==
    /\ roleState[q] \in {"starting", "running"} /\ q \notin leaving
    /\ publish(Escalate[q])
    /\ \/ leaving' = leaving \cup {q}
       \/ UNCHANGED leaving
    /\ escalated' = escalated \cup {q}
    /\ UNCHANGED <<swarmState, roleSeq, roleState, starter, stopper, listening, emitterOn, crossed>>

RoleDown(q) ==
    /\ q \in leaving
    /\ leaving' = leaving \ {q}
    /\ roleState' = [roleState EXCEPT ![q] = "stopped"]
    /\ UNCHANGED <<swarmState, roleSeq, starter, stopper, listening, microtask, emitterOn, escalated, crossed>>

\* The emitter's translations: a watchdog alert and a CI tripwire go to the
\* role, a refused reclaim wherever the mailbox sends it.
Translations == [watchdogAlert |-> {"role"}, ciTripwire |-> {"role"}, mailboxEscalation |-> {"role", "swarm"}]

EmitterPublishes ==
    /\ emitterOn
    /\ \E source \in DOMAIN Translations : \E target \in Translations[source] : publish(target)
    /\ UNCHANGED <<swarmState, roleSeq, roleState, leaving, starter, stopper, listening, emitterOn,
                   escalated, crossed>>

EmitterStops ==
    /\ emitterOn /\ emitterOn' = FALSE
    /\ UNCHANGED <<swarmState, roleSeq, roleState, leaving, starter, stopper, listening, microtask,
                   escalated, crossed>>

---------------------------------------------------------------------------
(* stop of the swarm and of its roles. *)

\* Supervisor.stop of role number i: the state after its synchronous part, and
\* whether this call is the one that ends in "stopped".
StopCalled(states, i) ==
    [states EXCEPT ![roleSeq[i]] = IF @ \in {"idle", "stopped"} THEN "stopped" ELSE "stopping"]
Owns(states, i) == states[roleSeq[i]] # "stopping"

\* The loop of stop goes on with role number i, or ends: the bus is cleared.
StopFrom(states, i) ==
    IF i > 0
      THEN /\ stopper' = [Idle EXCEPT !.mode = "stop", !.at = i, !.owns = Owns(states, i)]
           /\ roleState' = StopCalled(states, i)
           /\ swarmState' = "stopping" /\ UNCHANGED listening
      ELSE /\ stopper' = Idle
           /\ roleState' = states
           /\ swarmState' = "stopped" /\ listening' = FALSE

stop ==
    /\ swarmState \notin {"stopped", "stopping"}
    /\ StopFrom(roleState, Len(roleSeq))
    /\ crossed' = (crossed \/ starter # Idle)
    /\ UNCHANGED <<roleSeq, leaving, starter, emitterOn, escalated>>

StopSwarm == stop /\ UNCHANGED microtask

Microtask ==
    /\ microtask /\ microtask' = FALSE
    /\ \/ stop
       \/ /\ swarmState \in {"stopped", "stopping"}
          /\ UNCHANGED <<swarmState, roleSeq, roleState, leaving, starter, stopper, listening, emitterOn,
                         escalated, crossed>>

Stopped(call) ==
    IF call.owns THEN [roleState EXCEPT ![roleSeq[call.at]] = "stopped"] ELSE roleState

StopReturns ==
    /\ stopper # Idle
    /\ StopFrom(Stopped(stopper), stopper.at - 1)
    /\ UNCHANGED <<roleSeq, leaving, starter, microtask, emitterOn, escalated, crossed>>

---------------------------------------------------------------------------
(* start. *)

\* The loop of start goes on with role number i: a role that is not idle makes
\* it throw; behind the last role the swarm is running, whatever it was.
StartFrom(states, i) ==
    CASE i > Len(roleSeq) ->
           /\ swarmState' = "running" /\ starter' = Idle /\ roleState' = states
      [] i <= Len(roleSeq) /\ states[roleSeq[i]] = "idle" ->
           /\ starter' = [Idle EXCEPT !.mode = "start", !.at = i]
           /\ roleState' = [states EXCEPT ![roleSeq[i]] = "starting"]
           /\ swarmState' = IF swarmState = "idle" THEN "starting" ELSE swarmState
      [] OTHER ->
           /\ starter' = Idle /\ roleState' = states
           /\ UNCHANGED swarmState

start ==
    /\ swarmState = "idle"
    /\ StartFrom(roleState, 1)
    /\ UNCHANGED <<roleSeq, leaving, stopper, listening, microtask, emitterOn, escalated, crossed>>

\* Supervisor.start sets "running" even if a stop came in between.
RoleStarts ==
    /\ starter.mode = "start"
    /\ StartFrom([roleState EXCEPT ![roleSeq[starter.at]] = "running"], starter.at + 1)
    /\ UNCHANGED <<roleSeq, leaving, stopper, listening, microtask, emitterOn, escalated, crossed>>

\* teardownStartedRoles: the next role at or before i, other than the failing
\* one, that is running.
TeardownFrom(states, i, failing) ==
    LET due == {k \in 1..i : k # failing /\ states[roleSeq[k]] = "running"} IN
    IF due # {}
      THEN LET k == CHOOSE k \in due : \A l \in due : l <= k IN
           /\ starter' = [mode |-> "teardown", at |-> k, failing |-> failing, owns |-> Owns(states, k)]
           /\ roleState' = StopCalled(states, k)
           /\ UNCHANGED <<swarmState, listening>>
      ELSE /\ starter' = Idle /\ roleState' = states
           /\ swarmState' = "stopped" /\ listening' = FALSE

RoleStartFails ==
    /\ starter.mode = "start"
    /\ LET q == roleSeq[starter.at] IN
         /\ publish(Escalate[q])
         /\ escalated' = escalated \cup {q}
         /\ TeardownFrom([roleState EXCEPT ![q] = "stopped"], Len(roleSeq), starter.at)
    /\ UNCHANGED <<roleSeq, leaving, stopper, emitterOn, crossed>>

TeardownReturns ==
    /\ starter.mode = "teardown"
    /\ TeardownFrom(Stopped(starter), starter.at - 1, starter.failing)
    /\ UNCHANGED <<roleSeq, leaving, stopper, microtask, emitterOn, escalated, crossed>>

SwarmNext ==
    \/ \E q \in SwarmRoles : addRole(q) \/ RoleEscalates(q) \/ RoleDown(q)
    \/ EmitterPublishes \/ EmitterStops
    \/ start \/ RoleStarts \/ RoleStartFails \/ TeardownReturns
    \/ StopSwarm \/ Microtask \/ StopReturns

\* Every await of a role's supervisor settles (SupervisorProgress), microtasks run.
SwarmFairness ==
    /\ WF_swarmVars(RoleStarts \/ RoleStartFails) /\ WF_swarmVars(TeardownReturns)
    /\ WF_swarmVars(Microtask) /\ WF_swarmVars(StopReturns)
    /\ \A q \in SwarmRoles : WF_swarmVars(RoleDown(q))

SwarmSpec == SwarmInit /\ [][SwarmNext]_swarmVars /\ SwarmFairness

---------------------------------------------------------------------------

Registered == {roleSeq[i] : i \in DOMAIN roleSeq}

\* A stopped swarm has no role left running, whichever of a failed start, a
\* stop and an escalation stopped it, as long as stop did not cross start.
StoppedSwarmIsQuiet ==
    ~crossed /\ swarmState = "stopped" => \A q \in Registered : roleState[q] \in {"idle", "stopped"}

\* stop takes the roles down from the last to the first.
DownInReverse ==
    ~crossed /\ stopper # Idle => \A i \in DOMAIN roleSeq : i > stopper.at => roleState[roleSeq[i]] = "stopped"

\* A role that is missing from a running swarm has raised an escalation.
MissingRoleKnown ==
    ~crossed /\ swarmState = "running" => \A q \in Registered : roleState[q] = "running" \/ q \in escalated

\* An escalation to the swarm that found it running halts every role.
EscalationHalts ==
    microtask ~> (crossed \/ (swarmState = "stopped" /\ \A q \in Registered : roleState[q] = "stopped"))

\* A step of a role never stops a sibling's role unless its escalation goes to
\* the swarm: a stop is queued only with a source that names the swarm.
RoleStaysAlone ==
    [][~microtask /\ microtask' =>
         emitterOn \/ \E q \in SwarmRoles : q \in escalated' /\ Escalate[q] = "swarm"]_swarmVars

\* What the swarm promises while starts, stops and escalations interleave.
SwarmSound ==
    [](SwarmTypeOK /\ StoppedSwarmIsQuiet /\ DownInReverse /\ MissingRoleKnown) /\ EscalationHalts /\ RoleStaysAlone
==============================================================================
