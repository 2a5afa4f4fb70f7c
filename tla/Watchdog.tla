------------------------------ MODULE Watchdog ------------------------------
(***************************************************************************)
(* The watchdog, packages/watchdog/src: what it reads out of the event     *)
(* table of a run (signals/), when two signals make an alert               *)
(* (agreement.ts, watchdog.ts), and the CI tripwire (ci-tripwire.ts).      *)
(* One run, with the costs of its peers given; time and cost are small     *)
(* numbers.                                                                *)
(***************************************************************************)
EXTENDS Integers, Sequences, FiniteSets, SequencesExt

CONSTANTS
    LagFloor, MinSample,  \* checkpointLagFloorMs, checkpointMinSampleSize
    NoWriteAfter,         \* noWriteActivityThresholdMs
    LoopThreshold,        \* toolLoopConsecutiveThreshold
    CostMultiplier, MinPeers, PeerCosts, \* costVelocity*, and what the peers cost
    AgreementWindow,
    TripThreshold,        \* threshold of the CI tripwire
    DogTime, MaxEvents    \* bounds: clock, events of the run, CI results

ASSUME WatchdogAssumption ==
    AgreementWindow \in Nat \ {0} /\ TripThreshold \in Nat \ {0} /\ LoopThreshold > 0

VARIABLES
    dogClock,
    runLog,     \* the run's rows of the events table: kind and ts_wall
    runStatus,  \* "running" or "completed"
    bucket,     \* RunBucket: the entries of the Map perSignal, each with its place in the
                \* order they came in, and alertedPairs
    lastSeq,    \* ToolLoopDedupState of the run: last seq emitted for each tool
    alerts,     \* history: alerts emitted
    tripped     \* the CI tripwire of one role, and what it was told

runVars == <<runLog, runStatus>>
dogVars == <<dogClock, runVars, bucket, lastSeq, alerts, tripped>>

-----------------------------------------------------------------------------
(* signals/.  An observation is a signal and its confidence; "none" where    *)
(* the signal is silent.                                                     *)

RowKinds == {"checkpoint", "write", "read", "turn_end", "cost"}

Times(kinds) ==
    LET rows == SelectSeq(runLog, LAMBDA e : e.kind \in kinds)
    IN [k \in DOMAIN rows |-> rows[k].at]

\* Twice the median, which may be half a unit.
median2(values) ==
    LET sorted == SortSeq(values, <)
        mid == Len(sorted) \div 2
    IN IF values = <<>> THEN 0
       ELSE IF Len(sorted) % 2 = 1 THEN 2 * sorted[mid + 1]
       ELSE sorted[mid] + sorted[mid + 1]

evaluateRunCheckpointLag ==
    LET checkpoints == Times({"checkpoint"})
        count == Len(checkpoints)
        gap == dogClock - (IF count = 0 THEN Last(runLog).at ELSE checkpoints[count])
        intervals == [k \in 1..(count - 1) |-> checkpoints[k + 1] - checkpoints[k]]
    IN IF runLog = <<>> \/ gap < LagFloor THEN "none"
       ELSE IF count < MinSample THEN "unknown"
       ELSE IF 2 * gap < 3 * median2(intervals) THEN "none" ELSE "medium"

\* The vendor is known and its only write tool is "write".
evaluateRunNoWriteActivity ==
    LET active == Times({"write", "turn_end"})
    IN IF runLog = <<>> \/ \E k \in DOMAIN active : active[k] > dogClock - NoWriteAfter THEN "none"
       ELSE IF Times({"write"}) = <<>> THEN "low"
       ELSE "medium"

\* Each cost event is one unit.  Runs are tallied whatever their status.
evaluateCostVelocity ==
    LET usd == Len(Times({"cost"}))
        usds == PeerCosts
    IN IF usd = 0 THEN "none"
       ELSE IF Len(usds) < MinPeers
         THEN IF usds = <<>> \/ usd <= CostMultiplier * usds[Len(usds)] THEN "none" ELSE "unknown"
       ELSE IF 2 * usd > CostMultiplier * median2(usds) THEN "medium" ELSE "none"

\* The tool calls at the end of the log that equal the last one.
trailingRun ==
    LET calls == SelectSeq(runLog, LAMBDA e : e.kind \in {"write", "read"})
        differs == {k \in DOMAIN calls : calls[k].kind # Last(calls).kind}
    IN IF calls = <<>> THEN [length |-> 0, tool |-> "none", seq |-> 0]
       ELSE [length |-> Len(calls) - (IF differs = {} THEN 0 ELSE CHOOSE k \in differs :
                                          \A j \in differs : j <= k),
             tool |-> Last(calls).kind, seq |-> Len(calls)]

evaluateRunToolLoop ==
    IF trailingRun.length < LoopThreshold THEN "none"
    ELSE IF trailingRun.length >= 2 * LoopThreshold THEN "high" ELSE "medium"

\* ToolLoopDedupState: once for each length of the loop.
shouldEmit == lastSeq[trailingRun.tool] # trailingRun.seq

-----------------------------------------------------------------------------
(* agreement.ts.                                                             *)

countsTowardAgreement(confidence) == confidence \in {"medium", "high"}

\* Map.set: a key keeps its place, a new one comes last.
setSignal(perSignal, obs) ==
    LET same == {e \in perSignal : e.obs.signal = obs.signal}
        places == {e.place : e \in IF same = {} THEN perSignal ELSE same}
    IN (perSignal \ same) \cup
       {[place |-> IF same = {} THEN Max(places \cup {0}) + 1 ELSE Max(places), obs |-> obs]}

\* A signal that aged out takes its pairs with it.
sweepRun(b, now) ==
    LET expired == {e.obs.signal : e \in {x \in b.perSignal : x.obs.at < now - AgreementWindow}}
    IN [perSignal |-> {e \in b.perSignal : e.obs.signal \notin expired},
        alertedPairs |-> {p \in b.alertedPairs : p \cap expired = {}}]

\* The entry that comes first in the Map.
earliest(entries) == CHOOSE e \in entries : \A f \in entries : e.place <= f.place

\* Mutant: the pair is not marked.
ingestUnmarked(b, obs) ==
    LET swept == sweepRun(b, obs.at)
        partners == {e \in swept.perSignal : /\ e.obs.signal # obs.signal
                                             /\ countsTowardAgreement(e.obs.confidence)}
        prior == earliest(partners).obs
    IN [bucket |-> [swept EXCEPT !.perSignal = setSignal(@, obs)],
        alert |-> IF countsTowardAgreement(obs.confidence) /\ partners # {}
                    THEN <<[signals |-> {obs.signal, prior.signal}, of |-> {obs, prior}]>>
                    ELSE <<>>]

\* The bucket after an observation, and the alert it makes with the first partner in the
\* Map that the pair was not alerted for.
ingest(b, obs) ==
    LET swept == sweepRun(b, obs.at)
        partners == {e \in swept.perSignal : /\ e.obs.signal # obs.signal
                                             /\ countsTowardAgreement(e.obs.confidence)
                                             /\ {e.obs.signal, obs.signal} \notin swept.alertedPairs}
        found == countsTowardAgreement(obs.confidence) /\ partners # {}
        prior == earliest(partners).obs
        pair == {obs.signal, prior.signal}
    IN [bucket |-> [perSignal |-> setSignal(swept.perSignal, obs),
                    alertedPairs |-> swept.alertedPairs \cup (IF found THEN {pair} ELSE {})],
        alert |-> IF found THEN <<[signals |-> pair, of |-> {obs, prior}]>> ELSE <<>>]

-----------------------------------------------------------------------------
(* watchdog.ts.                                                              *)

\* A signal that is judged and not silent is ingested.
heard(acc, signal, confidence, judged) ==
    LET result == ingest(acc.bucket, [signal |-> signal, confidence |-> confidence, at |-> dogClock])
    IN IF judged /\ confidence # "none"
         THEN [bucket |-> result.bucket, alerts |-> acc.alerts \o result.alert] ELSE acc

\* The bucket and the alerts after a tick's observations, in SIGNAL_ORDER.  Only the cost is
\* judged once the run is completed.
Observed ==
    LET live == runStatus = "running"
        lag == heard([bucket |-> bucket, alerts |-> alerts], "checkpoint_lag", evaluateRunCheckpointLag, live)
        idle == heard(lag, "no_write_activity", evaluateRunNoWriteActivity, live)
        cost == heard(idle, "cost_velocity", evaluateCostVelocity, TRUE)
    IN heard(cost, "tool_loop", evaluateRunToolLoop, live /\ shouldEmit)

\* A tick of the loop in entry.ts: one for every unit of time.
runWatchdog ==
    /\ dogClock < DogTime /\ dogClock' = dogClock + 1
    /\ bucket' = sweepRun(Observed.bucket, dogClock)
    /\ alerts' = Observed.alerts
    /\ lastSeq' = IF runStatus = "running" /\ evaluateRunToolLoop # "none"
                    THEN [lastSeq EXCEPT ![trailingRun.tool] = trailingRun.seq] ELSE lastSeq
    /\ UNCHANGED <<runVars, tripped>>

\* The run's process appends a row, or completes the run.
RowAppended(kind) ==
    /\ runStatus = "running" /\ Len(runLog) < MaxEvents
    /\ runLog' = Append(runLog, [kind |-> kind, at |-> dogClock])
    /\ UNCHANGED <<dogClock, runStatus, bucket, lastSeq, alerts, tripped>>

Complete ==
    /\ runStatus = "running"
    /\ runStatus' = "completed"
    /\ UNCHANGED <<dogClock, runLog, bucket, lastSeq, alerts, tripped>>

\* A tick whose queries throw is reported and skipped.
TickFails ==
    /\ dogClock < DogTime /\ dogClock' = dogClock + 1
    /\ UNCHANGED <<runVars, bucket, lastSeq, alerts, tripped>>

-----------------------------------------------------------------------------
(* ci-tripwire.ts, for one role.                                             *)

observe(status) ==
    LET count == tripped.count + 1
        fires == status = "red" /\ count >= TripThreshold
    IN /\ Len(tripped.told) < MaxEvents
       /\ tripped' = [tripped EXCEPT
            !.told = Append(@, status),
            !.count = CASE status = "unknown" -> @ [] status = "green" \/ fires -> 0 [] OTHER -> count,
            !.fired = @ + (IF fires THEN 1 ELSE 0)]
       /\ UNCHANGED <<dogClock, runVars, bucket, lastSeq, alerts>>

reset ==
    /\ Len(tripped.told) < MaxEvents
    /\ tripped' = [tripped EXCEPT !.told = Append(@, "reset"), !.count = 0]
    /\ UNCHANGED <<dogClock, runVars, bucket, lastSeq, alerts>>

-----------------------------------------------------------------------------

DogInit ==
    /\ dogClock = 1 /\ runLog = <<>> /\ runStatus = "running"
    /\ bucket = [perSignal |-> {}, alertedPairs |-> {}]
    /\ lastSeq = [tool \in {"write", "read", "none"} |-> 0]
    /\ alerts = <<>>
    /\ tripped = [count |-> 0, fired |-> 0, told |-> <<>>]

DogNext ==
    \/ tripped.told = <<>> /\ (runWatchdog \/ Complete \/ TickFails \/ \E kind \in RowKinds : RowAppended(kind))
    \/ dogClock = 1 /\ runLog = <<>> /\ runStatus = "running"
         /\ (reset \/ \E status \in {"red", "green", "unknown"} : observe(status))

-----------------------------------------------------------------------------

\* An alert stands for two different signals, both of counted confidence and observed
\* within the window of each other: one signal alone, however often it fires, makes none.
AlertsAgree ==
    \A k \in DOMAIN alerts :
        /\ Cardinality(alerts[k].signals) = 2
        /\ \A o1, o2 \in alerts[k].of : /\ o1.signal \in alerts[k].signals
                                        /\ countsTowardAgreement(o1.confidence)
                                        /\ o1.at - o2.at <= AgreementWindow

AlertAt(k) == LET o == CHOOSE x \in alerts[k].of : \A y \in alerts[k].of : y.at <= x.at IN o.at

\* A pair is alerted again only after the window has passed since one of its signals was
\* heard for the first alert: a stuck run does not alert on every tick.
NoRepeat ==
    \A j, k \in DOMAIN alerts :
        j < k /\ alerts[j].signals = alerts[k].signals
            => \E o \in alerts[j].of : AlertAt(k) > o.at + AgreementWindow

\* Two signals that agree in the buffer were alerted as a pair, or gave way to an alert of
\* the run no older than the later of them.
NoMiss ==
    \A o1, o2 \in {e.obs : e \in bucket.perSignal} :
        /\ o1.signal # o2.signal
        /\ countsTowardAgreement(o1.confidence) /\ countsTowardAgreement(o2.confidence)
        => \/ {o1.signal, o2.signal} \in bucket.alertedPairs
           \/ \E k \in DOMAIN alerts : AlertAt(k) >= o1.at /\ AlertAt(k) >= o2.at

\* The tripwire has fired once for every TripThreshold reds of a streak that nothing but
\* unknown results interrupt, and counts on from there.
Reds == {k \in DOMAIN tripped.told : tripped.told[k] = "red"}
Breaks == {k \in DOMAIN tripped.told : tripped.told[k] \in {"green", "reset"}}
Streak == Cardinality({k \in Reds : \A b \in Breaks : b < k})
TripwireCounts ==
    /\ tripped.count = Streak % TripThreshold
    /\ tripped.fired >= Streak \div TripThreshold
    /\ tripped.fired * TripThreshold <= Cardinality(Reds)

\* What the supervisor may read into the watchdog's alerts.
WatchdogSound == AlertsAgree /\ NoRepeat /\ NoMiss /\ TripwireCounts
=============================================================================
