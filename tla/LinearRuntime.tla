--------------------------- MODULE LinearRuntime ---------------------------
(***************************************************************************)
(* The Linear daemon of apps/cli/src/services/linear-runtime.ts: pickups,  *)
(* the detached handler of every run, pause and drainAndStop.  It composes *)
(* the rate limiter (RateLimiter), the label machine (LabelMachine), the   *)
(* run/issue registry (registry.ts), the pickup driver (pickup.ts) and the *)
(* escalation sink (escalation-sink.ts).                                   *)
(*                                                                         *)
(* A run id is minted per pickup, so a pickup is identified with its run.  *)
(* A step runs from one await to the next.  The calls of a handler to      *)
(* Linear that only write comments, the task builder and the flow-shim     *)
(* prune change no modelled state and are left out; the boot (label        *)
(* resolution) has succeeded.                                              *)
(***************************************************************************)
EXTENDS Integers, FiniteSets

CONSTANTS
    Runs,          \* pickups: ready-label events, each with its minted run id
    Issues,
    IssueOf,       \* the issue of each pickup
    GlobalCap, ExecutorCap, QueueCapacity,
    MaxEscalations, \* bound: escalations in one behaviour
    MaxFailures,    \* bound: failed calls to Linear in one behaviour
    NoCall, NoIssue, NoRun

\* A run belongs to one issue; the limiter's own validation bounds the caps.
ASSUME LinearRuntimeAssumption ==
    /\ IssueOf \in [Runs -> Issues]
    /\ NoIssue \notin Issues
    /\ NoRun \notin Runs

VARIABLES
    inFlight, roleCounts, ahead, status, aborted, \* the limiter
    labels, call,                                 \* the label machine
    failures,    \* failed calls to Linear, bounded by MaxFailures
    byRun, byIssue,                               \* the registry's two maps
    handler,     \* where onPickup / handlePickup stands for each run
    broker,      \* runs whose egress broker is listening
    cancelled,   \* runs whose controller was aborted
    sink,        \* the escalation sink's task for each run
    sinkStopped,
    escalations, \* how many there were, bounded by MaxEscalations
    paused,
    driving,     \* the pickup driver's loop has not exited
    drain,       \* progress of drainAndStop
    awaited      \* the runs whose promises drainAndStop is waiting for

limiterVars == <<inFlight, roleCounts, ahead, status, aborted>>
labelVars == <<labels, call>>
registryVars == <<byRun, byIssue>>
sinkVars == <<sink, sinkStopped, escalations>>
drainVars == <<paused, driving, drain, awaited>>
vars == <<limiterVars, labelVars, registryVars, handler, broker, cancelled, sinkVars, drainVars,
          failures>>

\* Every pickup asks for the default role, "executor".
Roles == {"executor"}

Limiter == INSTANCE RateLimiter WITH
    Requests <- Runs,
    RoleOf <- [r \in Runs |-> "executor"],
    PerRoleCap <- [role \in Roles |-> ExecutorCap]

\* Callers of the label machine: a run's handler and the sink's task for it.
OfRun(r) == <<"run", r>>
OfSink(r) == <<"sink", r>>
Callers == {OfRun(r) : r \in Runs} \cup {OfSink(r) : r \in Runs}

Labels == INSTANCE LabelMachine

HandlerState ==
    {"none",        \* no pickup yet
     "parked",      \* awaiting limiter.acquire
     "overflowing", \* flipping blocked after an overflow
     "start",       \* handler: in-progress flip, task, comment, broker start
     "flow",        \* handler: awaiting runFlow
     "finish",      \* handler: finalising, then broker shutdown
     "over",        \* handler settled
     "dropped"}     \* no handler: paused, or overflowed

Live == {"start", "flow", "finish"}

\* Keys of the map inFlightRuns.
inFlightRuns == {r \in Runs : handler[r] \in Live}

LabelCallSettled(k) == ~Labels!InFlight(k)

\* The awaiting function goes on after its transition; nobody keeps the result.
Resume(k) ==
    /\ LabelCallSettled(k)
    /\ call' = [call EXCEPT ![k] = NoCall]
    /\ UNCHANGED labels

Init ==
    /\ Limiter!Init
    /\ Labels!LabelInit
    /\ byRun = [r \in Runs |-> NoIssue]
    /\ byIssue = [i \in Issues |-> NoRun]
    /\ handler = [r \in Runs |-> "none"]
    /\ broker = {}
    /\ cancelled = {}
    /\ sink = [r \in Runs |-> "idle"]
    /\ sinkStopped = FALSE
    /\ escalations = 0
    /\ failures = 0
    /\ paused = FALSE
    /\ driving = TRUE
    /\ drain = "no"
    /\ awaited = {}

\* registry.bind of a freshly minted run id.
Bind(r) ==
    /\ byRun' = [byRun EXCEPT ![r] = IssueOf[r]]
    /\ byIssue' = [byIssue EXCEPT ![IssueOf[r]] = r]

\* registry.release.
ReleaseBinding(r) ==
    IF byRun[r] = NoIssue THEN UNCHANGED registryVars
    ELSE /\ byRun' = [byRun EXCEPT ![r] = NoIssue]
         /\ byIssue' = [byIssue EXCEPT ![byRun[r]] = NoRun]

\* registry.bind followed at once by registry.release.
BindAndRelease(r) ==
    /\ byIssue' = [byIssue EXCEPT ![IssueOf[r]] = NoRun]
    /\ UNCHANGED byRun

\* spawnHandler: handlePickup runs up to its first await, the in-progress flip.
Spawn(r) ==
    /\ handler' = [handler EXCEPT ![r] = "start"]
    /\ Labels!Transition(OfRun(r), IssueOf[r], "in-progress")

\* The pickup driver delivers a ready event while the daemon is paused.
PickupPaused(r) ==
    /\ driving /\ handler[r] = "none"
    /\ paused
    /\ BindAndRelease(r)
    /\ handler' = [handler EXCEPT ![r] = "dropped"]
    /\ UNCHANGED <<limiterVars, labelVars, broker, cancelled, sinkVars, drainVars, failures>>

\* Fast path of onPickup.
PickupNow(r) ==
    /\ driving /\ handler[r] = "none"
    /\ ~paused
    /\ Bind(r)
    /\ Limiter!TryAcquire(r)
    /\ Spawn(r)
    /\ UNCHANGED <<broker, cancelled, sinkVars, drainVars, failures>>

\* Slow path of onPickup: the detached task parks on the limiter ...
PickupParked(r) ==
    /\ driving /\ handler[r] = "none"
    /\ ~paused
    /\ Bind(r)
    /\ Limiter!AcquirePark(r)
    /\ handler' = [handler EXCEPT ![r] = "parked"]
    /\ UNCHANGED <<labelVars, broker, cancelled, sinkVars, drainVars, failures>>

\* ... or is refused, and flips the issue to blocked.
PickupOverflow(r) ==
    /\ driving /\ handler[r] = "none"
    /\ ~paused
    /\ Bind(r)
    /\ Limiter!AcquireOverflow(r)
    /\ Labels!Transition(OfRun(r), IssueOf[r], "blocked")
    /\ handler' = [handler EXCEPT ![r] = "overflowing"]
    /\ UNCHANGED <<broker, cancelled, sinkVars, drainVars, failures>>

Pickup(r) == PickupPaused(r) \/ PickupNow(r) \/ PickupParked(r) \/ PickupOverflow(r)

OverflowFlipped(r) ==
    /\ handler[r] = "overflowing"
    /\ Resume(OfRun(r))
    /\ ReleaseBinding(r)
    /\ handler' = [handler EXCEPT ![r] = "dropped"]
    /\ UNCHANGED <<limiterVars, broker, cancelled, sinkVars, drainVars, failures>>

\* Mutant: paused is not looked at again after the wait.
GrantedUnchecked(r) ==
    /\ handler[r] = "parked" /\ status[r] = "held"
    /\ Spawn(r)
    /\ UNCHANGED <<limiterVars, registryVars, broker, cancelled, sinkVars, drainVars, failures>>

\* `await limiter.acquire' resumes with a lease.
Granted(r) ==
    /\ handler[r] = "parked" /\ status[r] = "held"
    /\ \/ /\ paused
          /\ Limiter!ReleaseFirst(r)
          /\ ReleaseBinding(r)
          /\ handler' = [handler EXCEPT ![r] = "dropped"]
          /\ UNCHANGED labelVars
       \/ /\ ~paused
          /\ Spawn(r)
          /\ UNCHANGED <<limiterVars, registryVars>>
    /\ UNCHANGED <<broker, cancelled, sinkVars, drainVars, failures>>

\* The in-progress flip has settled (its failure is only logged), the comment
\* is open and the broker listens, unless its start failed; runFlow is called.
BeginFlow(r) ==
    /\ handler[r] = "start"
    /\ Resume(OfRun(r))
    /\ handler' = [handler EXCEPT ![r] = "flow"]
    /\ \E up \in BOOLEAN : broker' = IF up THEN broker \cup {r} ELSE broker
    /\ UNCHANGED <<limiterVars, registryVars, cancelled, sinkVars, drainVars, failures>>

\* runFlow settles.  "succeeded" flips to review; "failed", a rejection after
\* an abort and a crash (the outer catch) flip to blocked.
FlowEnds(r, to) ==
    /\ handler[r] = "flow"
    /\ to \in {"review", "blocked"}
    /\ Labels!Transition(OfRun(r), IssueOf[r], to)
    /\ handler' = [handler EXCEPT ![r] = "finish"]
    /\ UNCHANGED <<limiterVars, registryVars, broker, cancelled, sinkVars, drainVars, failures>>

\* runFlow resolves with "paused": the labels stay as they are.
FlowPauses(r) ==
    /\ handler[r] = "flow"
    /\ handler' = [handler EXCEPT ![r] = "finish"]
    /\ UNCHANGED <<limiterVars, labelVars, registryVars, broker, cancelled, sinkVars, drainVars, failures>>

\* Something throws between the in-progress flip and runFlow (outer catch).
HandlerThrows(r) ==
    /\ handler[r] = "start"
    /\ LabelCallSettled(OfRun(r))
    /\ Labels!Transition(OfRun(r), IssueOf[r], "blocked")
    /\ handler' = [handler EXCEPT ![r] = "finish"]
    /\ UNCHANGED <<limiterVars, registryVars, broker, cancelled, sinkVars, drainVars, failures>>

\* The finally block: broker shutdown, then the lease, inFlightRuns and the
\* registry, with no await in between.
Cleanup(r) ==
    /\ handler[r] = "finish"
    /\ Resume(OfRun(r))
    /\ broker' = broker \ {r}
    /\ Limiter!ReleaseFirst(r)
    /\ ReleaseBinding(r)
    /\ handler' = [handler EXCEPT ![r] = "over"]
    /\ UNCHANGED <<cancelled, sinkVars, drainVars, failures>>

\* A broker denial (or another escalation of the run) reaches the bus; the sink
\* looks the issue up and starts its task.  One task per run at a time.
Escalate(r) ==
    /\ r \in broker
    /\ ~sinkStopped
    /\ sink[r] = "idle"
    /\ byRun[r] # NoIssue
    /\ escalations < MaxEscalations
    /\ escalations' = escalations + 1
    /\ sink' = [sink EXCEPT ![r] = "comment"]
    /\ UNCHANGED <<limiterVars, labelVars, registryVars, handler, broker, cancelled, sinkStopped, drainVars, failures>>

\* createComment settled: stop if the sink was stopped, else flip to blocked.
SinkCommented(r) ==
    /\ sink[r] = "comment"
    /\ \/ /\ sinkStopped
          /\ sink' = [sink EXCEPT ![r] = "idle"]
          /\ UNCHANGED labelVars
       \/ /\ ~sinkStopped
          /\ sink' = [sink EXCEPT ![r] = "label"]
          /\ Labels!Transition(OfSink(r), IssueOf[r], "blocked")
    /\ UNCHANGED <<limiterVars, registryVars, handler, broker, cancelled, sinkStopped, escalations,
                   drainVars, failures>>

SinkFlipped(r) ==
    /\ sink[r] = "label"
    /\ Resume(OfSink(r))
    /\ sink' = [sink EXCEPT ![r] = "idle"]
    /\ UNCHANGED <<limiterVars, registryVars, handler, broker, cancelled, sinkStopped, escalations, drainVars, failures>>

\* Linear answers one call of a transition.
LabelStep(k) ==
    /\ \/ /\ Labels!Answered(k)
          /\ UNCHANGED failures
       \/ /\ Labels!ClientFails(k)
          /\ failures < MaxFailures
          /\ failures' = failures + 1
    /\ UNCHANGED <<limiterVars, registryVars, handler, broker, cancelled, sinkVars, drainVars>>

Pause ==
    /\ ~paused
    /\ paused' = TRUE
    /\ UNCHANGED <<limiterVars, labelVars, registryVars, handler, broker, cancelled, sinkVars,
                   driving, drain, awaited, failures>>

\* First call of drainAndStop (later ones return the same promise): intake is
\* paused and pickup.stop() called.
DrainAndStop ==
    /\ drain = "no"
    /\ drain' = "stopping"
    /\ paused' = TRUE
    /\ UNCHANGED <<limiterVars, labelVars, registryVars, handler, broker, cancelled, sinkVars,
                   driving, awaited, failures>>

\* The pickup loop has exited; the runs in flight now are awaited.
DriverStopped ==
    /\ drain = "stopping"
    /\ driving' = FALSE
    /\ awaited' = inFlightRuns
    /\ drain' = IF inFlightRuns = {} THEN "closing" ELSE "waiting"
    /\ UNCHANGED <<limiterVars, labelVars, registryVars, handler, broker, cancelled, sinkVars, paused, failures>>

\* Mutant: the controllers are not aborted.
RaceSettlesNoAbort ==
    /\ drain = "waiting"
    /\ awaited' = inFlightRuns
    /\ drain' = IF inFlightRuns = {} THEN "closing" ELSE "cancelling"
    /\ UNCHANGED <<limiterVars, labelVars, registryVars, handler, broker, cancelled, sinkVars, paused,
                   driving, failures>>

\* Promise.race([allDone, deadlineReached]) settles.  Runs still in flight, if
\* any, are aborted and awaited.
RaceSettles ==
    /\ drain = "waiting"
    /\ awaited' = inFlightRuns
    /\ cancelled' = cancelled \cup inFlightRuns
    /\ drain' = IF inFlightRuns = {} THEN "closing" ELSE "cancelling"
    /\ UNCHANGED <<limiterVars, labelVars, registryVars, handler, broker, sinkVars, paused, driving, failures>>

CancelledSettle ==
    /\ drain = "cancelling"
    /\ \A r \in awaited : handler[r] = "over"
    /\ drain' = "closing"
    /\ UNCHANGED <<limiterVars, labelVars, registryVars, handler, broker, cancelled, sinkVars,
                   paused, driving, awaited, failures>>

\* The webhook server is stopped, then sink, emitter and registry.
Close ==
    /\ drain = "closing"
    /\ drain' = "closed"
    /\ sinkStopped' = TRUE
    /\ byRun' = [r \in Runs |-> NoIssue]
    /\ byIssue' = [i \in Issues |-> NoRun]
    /\ UNCHANGED <<limiterVars, labelVars, handler, broker, cancelled, sink, escalations,
                   paused, driving, awaited, failures>>

HandlerStep(r) ==
    \/ OverflowFlipped(r)
    \/ Granted(r)
    \/ BeginFlow(r)
    \/ \E to \in {"review", "blocked"} : FlowEnds(r, to)
    \/ FlowPauses(r)
    \/ HandlerThrows(r)
    \/ Cleanup(r)

SinkStep(r) == SinkCommented(r) \/ SinkFlipped(r)

DrainStep == DriverStopped \/ RaceSettles \/ CancelledSettle \/ Close

Next ==
    \/ \E r \in Runs : Pickup(r) \/ HandlerStep(r) \/ Escalate(r) \/ SinkStep(r)
    \/ \E k \in Callers : LabelStep(k)
    \/ Pause
    \/ DrainAndStop
    \/ DrainStep

Spec == Init /\ [][Next]_vars

(***************************************************************************)
(* Fairness: promises settle.  Linear answers every call, a handler that   *)
(* is not waiting for its flow goes on, and the deadline timer fires.  A   *)
(* flow may run for ever, unless its controller was aborted.               *)
(***************************************************************************)
Fairness ==
    /\ \A k \in Callers : WF_vars(LabelStep(k))
    /\ \A r \in Runs :
          /\ WF_vars(OverflowFlipped(r))
          /\ WF_vars(Granted(r))
          /\ WF_vars(BeginFlow(r))
          /\ WF_vars(Cleanup(r))
          /\ WF_vars(r \in cancelled /\ \E to \in {"review", "blocked"} : FlowEnds(r, to))
    /\ WF_vars(DrainStep)

FairSpec == Spec /\ Fairness

-----------------------------------------------------------------------------

\* Every variable keeps its shape.
TypeOK ==
    /\ Limiter!TypeOK
    /\ Labels!LabelsTyped
    /\ byRun \in [Runs -> Issues \cup {NoIssue}]
    /\ byIssue \in [Issues -> Runs \cup {NoRun}]
    /\ handler \in [Runs -> HandlerState]
    /\ broker \subseteq Runs
    /\ cancelled \subseteq Runs
    /\ sink \in [Runs -> {"idle", "comment", "label"}]
    /\ sinkStopped \in BOOLEAN
    /\ escalations \in 0..MaxEscalations
    /\ failures \in 0..MaxFailures
    /\ paused \in BOOLEAN
    /\ driving \in BOOLEAN
    /\ drain \in {"no", "stopping", "waiting", "cancelling", "closing", "closed"}
    /\ awaited \subseteq Runs

\* Tokens of the limiter and runs match: exactly the live handlers, and parked
\* pickups whose wake-up has not resumed yet, hold one.  No path of onPickup or
\* handlePickup leaks a token or runs without one.
TokenPerRun ==
    Limiter!Held = inFlightRuns \cup {r \in Runs : handler[r] = "parked" /\ status[r] = "held"}

\* No handler is started once the daemon is paused, whichever path the pickup
\* took (pause(): pickups that arrive later are acknowledged and ignored).
NoSpawnAfterPause == [][paused => inFlightRuns' \subseteq inFlightRuns]_vars

\* An escalation raised while a run's broker listens finds the run's issue, even
\* when other pickups of the same issue come and go.
EscalationRouted == \A r \in broker : byRun[r] = IssueOf[r]

\* drainAndStop does not resolve before every handler has settled.
Drained == drain = "closed" => inFlightRuns = {}

\* When a handler ends after a final flip that succeeded, and no other pickup is
\* of the same issue, the issue is not left in-progress, whatever the sink did.
InProgressCleared ==
    [][\A r \in Runs :
          /\ handler[r] = "finish" /\ handler'[r] = "over"
          /\ call[OfRun(r)] # NoCall /\ call[OfRun(r)].pc = "ok"
          /\ \A s \in Runs \ {r} : IssueOf[s] # IssueOf[r]
          => "in-progress" \notin labels[IssueOf[r]]]_vars

\* drainAndStop resolves: the deadline and the abort leave nothing to wait for.
DrainCompletes == drain = "stopping" ~> drain = "closed"

\* A drain leaves no pickup parked on the limiter: each is woken and dropped.
ParkedDropped == \A r \in Runs : (handler[r] = "parked" /\ drain # "no") ~> (handler[r] = "dropped")

\* onPickup and runToCompletion together: a run in flight holds its own token,
\* an escalation reaches the issue of the run that raised it, close leaves no
\* run behind, shamu:in-progress goes when its run does, and a pause that came
\* while a pickup waited for its token stops that pickup.
RuntimeSound == [](TokenPerRun /\ EscalationRouted /\ Drained) /\ InProgressCleared /\ NoSpawnAfterPause

\* drainAndStop resolves whatever the runs and Linear do, and the pickups parked
\* in the limiter are woken by its abort signal and dropped.
DrainSound == DrainCompletes /\ ParkedDropped
=============================================================================
