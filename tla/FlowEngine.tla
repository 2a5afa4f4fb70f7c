----------------------------- MODULE FlowEngine -----------------------------
(***************************************************************************)
(* The flow engine of packages/core/flow/src/engine.ts as it is driven by  *)
(* runFlowInProcess of apps/cli/src/services/flow-runner.ts: one flow run, *)
(* its passes (a fresh one, then resumes of the stored row) and the death  *)
(* of the process between any two steps.                                   *)
(*                                                                         *)
(* A step is one iteration of the walk up to the await of a runner, or the *)
(* code from a runner's answer to the next iteration.  contentHash is      *)
(* taken to be injective, so a hash is the bundle it is computed from; the *)
(* hashes of loops and gates are stored and never compared.  Node ids are  *)
(* numbers, compared as the strings are.  Times, prompts, cost amounts and *)
(* all events but flow_completed are left out; of the cost samples their   *)
(* number is kept.                                                         *)
(***************************************************************************)
EXTENDS Integers, Sequences, FiniteSets, FiniteSetsExt, SequencesExt

CONSTANTS
    Definitions, \* flow definitions, with the runner keys nobody registered
    Inputs,      \* initialInputs: the task, and whether the gate is answered
    MaxPasses,   \* bound on engine.run calls
    MaxFaults,   \* bound on process deaths and failed database writes
    NoNode, NoOutput, NoRow, NoOutcome

\* What topologicalOrder accepts: every dependency exists and there is no cycle (any set
\* of nodes has one that depends on none of them).  The numbers are what types.ts asks for.
ASSUME DefinitionAssumption ==
    \A d \in Definitions :
        /\ d.nodes \subseteq Nat /\ IsFiniteSet(d.nodes) /\ NoNode \notin d.nodes
        /\ d.dependsOn \in [d.nodes -> SUBSET d.nodes]
        /\ \A S \in SUBSET d.nodes : S # {} => \E n \in S : d.dependsOn[n] \cap S = {}
        /\ d.kind \in [d.nodes -> {"agent_step", "conditional", "loop", "human_gate"}]
        /\ d.maxRetries \in [d.nodes -> Nat]
        /\ \A n \in d.nodes : d.kind[n] = "loop" => d.maxIterations[n] \in Nat \ {0}

\* types.ts, Conditional: "Both branches are node ids"; and they come behind the
\* conditional, as every flow in the repository has it.  The engine checks neither.
ASSUME BranchAssumption ==
    \A d \in Definitions : \A c \in d.nodes : d.kind[c] = "conditional" =>
        \A n \in {d.trueBranch[c], d.falseBranch[c]} : n \in d.nodes /\ c \in d.dependsOn[n]

\* The bundles and the outputs of a flow's nodes.
Bundles(d) == [initial : Inputs, deps : UNION {[S -> BOOLEAN] : S \in SUBSET d.nodes}]
Outputs(d) == [hash : Bundles(d), ok : BOOLEAN, value : BOOLEAN]

ASSUME NoOutputAssumption ==
    \A d \in Definitions : NoOutput \notin Bundles(d) /\ NoOutput \notin Outputs(d)

VARIABLES
    def,     \* FlowDefinition, one and the same in every pass
    pc,      \* "idle", "walk": next iteration, "call": a runner is awaited
    input,   \* initialInputs of the pass
    aborted, \* signal.aborted
    pos,     \* position in the topological order
    attempt, \* attempt of an agent step, iterations of a loop
    skipped, \* the set skipped
    state,   \* MutableState
    row,     \* the row of flow_runs
    outcome, \* how the last pass ended
    resumed, \* the pass was given resumeFrom
    passes,
    faults,
    lost,    \* why a state was lost: "death" of the process, a failed "write"
    last,    \* the bundle each node last settled with, in any pass
    calls    \* runner calls made in any pass

flowVars == <<def, pc, input, aborted, pos, attempt, skipped, state, row, outcome, resumed,
              passes, faults, lost, last, calls>>

Nodes == def.nodes

\* topologicalOrder: Kahn's algorithm over a list of ready ids kept sorted.
topologicalOrder(d) ==
    LET emitted[k \in 0..Cardinality(d.nodes)] ==
            IF k = 0 THEN <<>>
            ELSE LET done == Range(emitted[k - 1]) IN
                 Append(emitted[k - 1], Min({n \in d.nodes \ done : d.dependsOn[n] \subseteq done}))
    IN emitted[Cardinality(d.nodes)]

OrderOf == [d \in Definitions |-> topologicalOrder(d)]

Order == OrderOf[def]

Current == Order[pos]

Kind == def.kind[Current]

\* nodeStatus is an object: keys lists its keys in insertion order.
emptyState ==
    [nodeStatus |-> [n \in Nodes |-> "none"], keys |-> <<>>,
     nodeOutputs |-> [n \in Nodes |-> NoOutput], pendingGate |-> NoNode, samples |-> 0]

SetStatus(s, n, status) ==
    [s EXCEPT !.nodeStatus[n] = status,
              !.keys = IF s.nodeStatus[n] = "none" THEN Append(@, n) ELSE @]

SetOutput(s, n, hash, ok, value) ==
    [s EXCEPT !.nodeOutputs[n] = [hash |-> hash, ok |-> ok, value |-> value]]

recordCostSample(s) == [s EXCEPT !.samples = @ + 1]

\* What contentHash is applied to: the initial inputs and the dependencies' values.
resolveInputs(n) ==
    [initial |-> input,
     deps |-> [d \in {d \in def.dependsOn[n] : state.nodeOutputs[d] # NoOutput} |->
                  state.nodeOutputs[d].value]]

\* The branch a conditional with this value does not select.
Unpicked(n, value) == IF value THEN def.falseBranch[n] ELSE def.trueBranch[n]

deriveTerminalStatus(s) ==
    LET open == {k \in DOMAIN s.keys : s.nodeStatus[s.keys[k]] # "succeeded"} IN
    IF s.pendingGate # NoNode THEN "paused"
    ELSE IF open = {} THEN "succeeded"
    ELSE IF s.nodeStatus[s.keys[Min(open)]] = "paused" THEN "paused" ELSE "failed"

Init ==
    /\ def \in Definitions
    /\ pc = "idle"
    /\ input \in Inputs
    /\ aborted = FALSE
    /\ pos = 0
    /\ attempt = 0
    /\ skipped = {}
    /\ state = emptyState
    /\ row = NoRow
    /\ outcome = NoOutcome
    /\ resumed = FALSE
    /\ passes = 0
    /\ faults = 0
    /\ lost = {}
    /\ last = [n \in Nodes |-> NoOutput]
    /\ calls = 0

-----------------------------------------------------------------------------
(* A pass begins.                                                          *)

Enter(i, s) ==
    /\ pc = "idle"
    /\ passes < MaxPasses
    /\ passes' = passes + 1
    /\ pc' = "walk"
    /\ input' = i
    /\ pos' = 1
    /\ state' = s
    /\ outcome' = NoOutcome
    /\ UNCHANGED <<def, aborted, attempt, skipped, calls>>

\* A fresh pass inserts the row on flow_started; a failed insert is reported on
\* stderr and the pass goes on.
BeginFresh(i) ==
    /\ row = NoRow
    /\ Enter(i, emptyState)
    /\ resumed' = FALSE
    /\ last' = [n \in Nodes |-> NoOutput]
    /\ \/ /\ row' = [status |-> "running", state |-> emptyState]
          /\ lost' = {}
          /\ UNCHANGED faults
       \/ /\ faults < MaxFaults
          /\ faults' = faults + 1
          /\ lost' = {"write"}
          /\ UNCHANGED row

\* Mutant: the outputs are not taken over.
BeginResumeBare(i) ==
    /\ row # NoRow
    /\ Enter(i, [emptyState EXCEPT !.nodeStatus = row.state.nodeStatus, !.keys = row.state.keys])
    /\ resumed' = TRUE
    /\ UNCHANGED <<row, faults, lost, last>>

\* A resume takes the stored state; the pending gate is cleared.
BeginResume(i) ==
    /\ row # NoRow
    /\ Enter(i, [row.state EXCEPT !.pendingGate = NoNode])
    /\ resumed' = TRUE
    /\ UNCHANGED <<row, faults, lost, last>>

-----------------------------------------------------------------------------
(* A pass ends.                                                            *)

Leave ==
    /\ pc' = "idle"
    /\ pos' = 0
    /\ attempt' = 0
    /\ skipped' = {}
    /\ aborted' = FALSE
    /\ resumed' = FALSE
    /\ state' = emptyState

\* finish(status) and the flush of the final state, which may fail.
Finish(status, s) ==
    /\ Leave
    /\ outcome' = [published |-> status, report |-> deriveTerminalStatus(s),
                   resumed |-> resumed, aborted |-> aborted]
    /\ \/ row' = [status |-> deriveTerminalStatus(s), state |-> s] /\ UNCHANGED <<faults, lost>>
       \/ /\ faults < MaxFaults
          /\ faults' = faults + 1
          /\ lost' = lost \cup {"write"}
          /\ UNCHANGED row
    /\ UNCHANGED <<def, input, passes, calls>>

\* The walk goes on behind the current node.
Advance(s, skips) ==
    /\ pc' = "walk"
    /\ pos' = pos + 1
    /\ attempt' = 0
    /\ skipped' = skipped \cup skips
    /\ state' = s
    /\ UNCHANGED <<def, input, aborted, row, outcome, resumed, passes, faults, lost, calls>>

\* The runner is called (again).
Call(s, k) ==
    /\ pc' = "call"
    /\ attempt' = k
    /\ calls' = calls + 1
    /\ state' = s
    /\ UNCHANGED <<def, input, aborted, pos, skipped, row, outcome, resumed, passes, faults, lost, last>>

-----------------------------------------------------------------------------
(* One iteration of the loop of run().                                     *)

AtNode == pc = "walk" /\ pos <= Len(Order)

WalkAborted ==
    /\ AtNode
    /\ aborted
    /\ Finish("failed", SetStatus(state, Current, IF state.nodeStatus[Current] = "none"
                                                    THEN "pending" ELSE state.nodeStatus[Current]))
    /\ UNCHANGED last

Skips == Current \in skipped \/ \E d \in def.dependsOn[Current] : d \in skipped \/ state.nodeStatus[d] = "failed"

SkipNode ==
    /\ AtNode
    /\ ~aborted
    /\ Skips
    /\ Advance(state, {Current})
    /\ UNCHANGED last

Enters == AtNode /\ ~aborted /\ ~Skips

\* No runner under the node's key: the catch of run().
RunnerMissing ==
    /\ Enters
    /\ Kind # "human_gate"
    /\ Current \in def.unregistered
    /\ Finish("failed", SetStatus(state, Current, "failed"))
    /\ UNCHANGED last

CacheHit ==
    /\ Kind \in {"agent_step", "conditional"}
    /\ state.nodeOutputs[Current] # NoOutput
    /\ state.nodeOutputs[Current].hash = resolveInputs(Current)

\* A stored output is used instead of a call.
ReplayOk ==
    /\ Enters
    /\ Current \notin def.unregistered
    /\ CacheHit
    /\ state.nodeOutputs[Current].ok
    /\ Advance(SetStatus(state, Current, "succeeded"),
               IF Kind = "conditional" THEN {Unpicked(Current, state.nodeOutputs[Current].value)} ELSE {})
    /\ UNCHANGED last

\* A stored failure fails the flow again.
ReplayFailure ==
    /\ Enters
    /\ Current \notin def.unregistered
    /\ CacheHit
    /\ ~state.nodeOutputs[Current].ok
    /\ Finish("failed", SetStatus(state, Current, "failed"))
    /\ UNCHANGED last

CallRunner ==
    /\ Enters
    /\ Kind # "human_gate"
    /\ Current \notin def.unregistered
    /\ ~CacheHit
    /\ Call(SetStatus(state, Current, "running"), 1)

\* runHumanGate with the human's input among the initial inputs.
GateSatisfied ==
    /\ Enters
    /\ Kind = "human_gate"
    /\ input.human
    /\ Advance(SetOutput(SetStatus(state, Current, "succeeded"), Current, resolveInputs(Current), TRUE, TRUE), {})
    /\ UNCHANGED last

GatePauses ==
    /\ Enters
    /\ Kind = "human_gate"
    /\ ~input.human
    /\ Finish("paused", [SetStatus(state, Current, "paused") EXCEPT !.pendingGate = Current])
    /\ UNCHANGED last

WalkEnds ==
    /\ pc = "walk"
    /\ pos > Len(Order)
    /\ Finish("succeeded", state)
    /\ UNCHANGED last

-----------------------------------------------------------------------------
(* A runner answers.                                                       *)

Settled == last' = [last EXCEPT ![Current] = resolveInputs(Current)]

\* The output of the current node is stored and paid for.
Store(ok, value) ==
    recordCostSample(SetOutput(SetStatus(state, Current, IF ok THEN "succeeded" ELSE "failed"),
                               Current, resolveInputs(Current), ok, value))

StepOk(value) ==
    /\ pc = "call"
    /\ Kind \in {"agent_step", "conditional"}
    /\ Advance(Store(TRUE, value), IF Kind = "conditional" THEN {Unpicked(Current, value)} ELSE {})
    /\ Settled

\* Mutant: the attempts start again when they are used up.
StepRetriesForever ==
    /\ pc = "call"
    /\ Kind = "agent_step"
    /\ def.maxRetries[Current] > 0
    /\ attempt' = (attempt % (1 + def.maxRetries[Current])) + 1
    /\ UNCHANGED <<def, pc, input, aborted, pos, skipped, state, row, outcome, resumed, passes, faults,
                   lost, last, calls>>

\* A retriable failure within the budget; its output is dropped.
StepRetries ==
    /\ pc = "call"
    /\ Kind = "agent_step"
    /\ attempt <= def.maxRetries[Current]
    /\ Call(state, attempt + 1)

\* Any other failure; an agent step's may be retriable with the budget used up.
StepFails ==
    /\ pc = "call"
    /\ Kind \in {"agent_step", "conditional"}
    /\ Finish("failed", Store(FALSE, FALSE))
    /\ Settled

LoopAgain ==
    /\ pc = "call"
    /\ Kind = "loop"
    /\ attempt < def.maxIterations[Current]
    /\ Call(recordCostSample(state), attempt + 1)

\* until holds, or the iterations are used up.
LoopEnds(value) ==
    /\ pc = "call"
    /\ Kind = "loop"
    /\ value \/ attempt = def.maxIterations[Current]
    /\ Advance(Store(TRUE, value), {})
    /\ UNCHANGED last

\* The predicate of a loop fails; nothing is stored.
LoopFails ==
    /\ pc = "call"
    /\ Kind = "loop"
    /\ Finish("failed", recordCostSample(SetStatus(state, Current, "failed")))
    /\ UNCHANGED last

\* The runner of any node throws; nothing is stored or paid for.
RunnerThrows ==
    /\ pc = "call"
    /\ Finish("failed", SetStatus(state, Current, "failed"))
    /\ UNCHANGED last

-----------------------------------------------------------------------------

Abort ==
    /\ pc # "idle"
    /\ ~aborted
    /\ aborted' = TRUE
    /\ UNCHANGED <<def, pc, input, pos, attempt, skipped, state, row, outcome, resumed, passes, faults,
                   lost, last, calls>>

\* The process dies: what was not written is gone.
Die ==
    /\ pc # "idle"
    /\ faults < MaxFaults
    /\ faults' = faults + 1
    /\ lost' = lost \cup {"death"}
    /\ outcome' = NoOutcome
    /\ Leave
    /\ UNCHANGED <<def, input, row, passes, last, calls>>

Walk ==
    \/ WalkAborted
    \/ SkipNode
    \/ RunnerMissing
    \/ ReplayOk
    \/ ReplayFailure
    \/ CallRunner
    \/ GateSatisfied
    \/ GatePauses
    \/ WalkEnds

Settle ==
    \/ \E value \in BOOLEAN : StepOk(value) \/ LoopEnds(value)
    \/ StepRetries
    \/ StepFails
    \/ LoopAgain
    \/ LoopFails
    \/ RunnerThrows

Next ==
    \/ \E i \in Inputs : BeginFresh(i) \/ BeginResume(i)
    \/ Walk
    \/ Settle
    \/ Abort
    \/ Die

\* The event loop runs what is ready, and every runner answers in the end.
Spec == Init /\ [][Next]_flowVars /\ WF_flowVars(Walk) /\ WF_flowVars(Settle)

-----------------------------------------------------------------------------

OutputOK(o) ==
    /\ o.hash.initial \in Inputs
    /\ DOMAIN o.hash.deps \subseteq Nodes
    /\ o.ok \in BOOLEAN /\ o.value \in BOOLEAN

StateOK(s) ==
    /\ s.nodeStatus \in [Nodes -> {"none", "pending", "running", "succeeded", "failed", "paused"}]
    /\ s.keys \in Seq(Nodes)
    /\ \A n \in Nodes : s.nodeOutputs[n] # NoOutput => OutputOK(s.nodeOutputs[n])
    /\ s.pendingGate \in Nodes \cup {NoNode}
    /\ s.samples \in Nat

Budget(n) == IF def.kind[n] = "loop" THEN def.maxIterations[n] ELSE 1 + def.maxRetries[n]

\* Every variable keeps its shape, and no node gets more calls in a pass than
\* its maxRetries or maxIterations allow.
TypeOK ==
    /\ pc \in {"idle", "walk", "call"}
    /\ input \in Inputs
    /\ pos \in 0..(Len(Order) + 1)
    /\ attempt \in 0..(IF pc = "call" THEN Budget(Current) ELSE 0)
    /\ skipped \subseteq Nodes
    /\ StateOK(state)
    /\ row # NoRow =>
          row.status \in {"running", "succeeded", "failed", "paused"} /\ StateOK(row.state)
    /\ outcome # NoOutcome =>
          outcome.published \in {"succeeded", "failed", "paused"}
    /\ lost \subseteq {"death", "write"}

\* The walk of run(): a runner is only called when every dependency has
\* succeeded and left an output, in resumed passes with stale statuses too.
DependenciesFirst ==
    pc = "call" =>
        \A d \in def.dependsOn[Current] :
            /\ state.nodeStatus[d] = "succeeded"
            /\ state.nodeOutputs[d] # NoOutput
            /\ state.nodeOutputs[d].ok

\* types.ts, Conditional: only the selected branch is executed, whether the
\* conditional ran in this pass or was replayed from the stored state.
UnpickedNotRun ==
    pc = "call" =>
        \A c \in Nodes :
            def.kind[c] = "conditional" /\ Current \in {def.trueBranch[c], def.falseBranch[c]} =>
                Unpicked(c, state.nodeOutputs[c].value) # Current

\* The nodes that are, or lie behind, an unselected branch.
Excluded ==
    LET out[k \in 0..Len(Order)] ==
            IF k = 0 THEN {}
            ELSE LET n == Order[k] IN
                 out[k - 1] \cup
                    (IF \/ \E d \in def.dependsOn[n] : d \in out[k - 1]
                        \/ \E c \in Nodes \ out[k - 1] :
                              /\ def.kind[c] = "conditional"
                              /\ n \in {def.trueBranch[c], def.falseBranch[c]}
                              /\ Unpicked(c, state.nodeOutputs[c].value) = n
                       THEN {n} ELSE {})
    IN out[Len(Order)]

\* A flow that is about to be published as succeeded has run or replayed every
\* node but those behind an unselected branch: nothing is dropped silently.
SuccessComplete ==
    pc = "walk" /\ pos > Len(Order) =>
        \A n \in Nodes \ Excluded : state.nodeStatus[n] = "succeeded"

\* The status runFlowInProcess stores is the one flow_completed carried, for a
\* fresh pass; a pause is always reported, and success is reported only for
\* passes that succeeded or were aborted.
ReportAgrees ==
    outcome # NoOutcome =>
        /\ ~outcome.resumed => outcome.report = outcome.published
        /\ outcome.published = "paused" => outcome.report = "paused"
        /\ outcome.report = "succeeded" => outcome.published = "succeeded" \/ outcome.aborted

\* The cost of a flow run is not inflated by replays: over all its passes there
\* are never more cost samples than runner calls.
CostNotInflated ==
    /\ state.samples <= calls
    /\ row # NoRow => row.state.samples <= calls

\* A runner call for a node that has already settled with the very same bundle.
RepeatsWork ==
    /\ pc = "walk"
    /\ pc' = "call"
    /\ Kind # "loop"
    /\ last[Current] = resolveInputs(Current)

\* Content-hashed reruns: as long as no state is lost, a resume never repeats a
\* call that settled in an earlier pass, whatever happened in between.
ResumeReuses == [][RepeatsWork => lost # {}]_flowVars

\* A pass ends, if runners answer.
PassEnds == pc # "idle" ~> pc = "idle"

\* README.md: flows resume against their last completed node if the process
\* dies mid-run, so only a failed write may make a resume repeat a call.
DeathKeepsWork == [][RepeatsWork => "write" \in lost]_flowVars

\* What a pass of the engine promises: predecessors first, nothing behind the
\* branch a condition did not take, success only when all that was due has
\* run, a report that agrees with the events, a cost never counted twice, and
\* (except for work a death or a failed write lost) no runner called again by
\* a resume with the same inputs.
FlowSound ==
    /\ [](TypeOK /\ DependenciesFirst /\ UnpickedNotRun /\ SuccessComplete /\ ReportAgrees /\ CostNotInflated)
    /\ ResumeReuses
=============================================================================
