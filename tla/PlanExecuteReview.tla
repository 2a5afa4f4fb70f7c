------------------------- MODULE PlanExecuteReview -------------------------
(***************************************************************************)
(* The flow plan-execute-review, packages/flows/plan-execute-review/src:   *)
(* its five nodes, what their runners do with an agent's turn and with the *)
(* CI gate, and the review loop that runs inside the reviewer.  The engine *)
(* is FlowEngine's, cut down to what this flow uses of it: the nodes in    *)
(* order, a node that fails, an abort between nodes, and outputs reused by *)
(* a resumed pass, good or failed, under the same task.  flow-runner.ts    *)
(* stores them when a pass has ended and not before.  The observer of      *)
(* core/composition feeds the CI tripwire from the engine's events.        *)
(***************************************************************************)
EXTENDS Integers, Sequences, FiniteSets, SequencesExt

CONSTANTS
    MaxIterations, \* maxIterations of registerRunners
    MaxWalks,      \* bound: passes over the flow
    MaxMessages    \* bound: events of a turn

ASSUME FlowAssumption == MaxIterations \in Nat \ {0}

VARIABLES
    step,      \* the node of the pass and where in it, or "idle"
    outputs,   \* node -> the output in the engine's state, <<>> for none
    stateJson,       \* the outputs in the row of flow_runs, as the last flush left them
    turn,      \* runSingleTurn: the agent's handle, the texts and costs it gave
    review,    \* runReviewer: iteration, the CI result in hand, verdict, fresh
    workspace, \* times an executor has worked in workspaceCwd
    signal,    \* the pass is aborted
    walks,     \* passes begun
    told,      \* history: what the tripwire was told, with the gate run it is of and the pass it
               \* was told in, and the results of the CI node's gate runs
    left       \* history: handles that were spawned and not shut down

perVars == <<step, outputs, turn, review, workspace, signal, walks, told, left, stateJson>>

NodeOrder == <<"plan", "execute", "ci", "review", "loop">>
NodeNames == {"plan", "execute", "ci", "review", "loop"}
Position(n) == CHOOSE k \in DOMAIN NodeOrder : NodeOrder[k] = n
Before(n) == NodeOrder[Position(n) - 1]
BetweenPasses == [node |-> "idle", at |-> "node"]
NoTurn == [state |-> "none", blocks |-> <<>>, costs |-> {}, got |-> 0]
NoCi == [status |-> "none", of |-> 0]

Verdicts == {"approve", "revise", "requires_ci_rerun"}
CiStatuses == {"green", "red", "unknown"}

-----------------------------------------------------------------------------
(* The engine.  flowDefinition: each node depends on the one before it.      *)

\* A pass ends, or goes to the next node.
GoOn(n) == step' = IF n = "loop" THEN [node |-> "idle", at |-> "flush"]
                   ELSE [node |-> NodeOrder[Position(n) + 1], at |-> "node"]

StoreOutput(n, output) == outputs' = [outputs EXCEPT ![n] = output]

\* The observer: node_completed of the CI node, of a cached output as well; a failed one has no
\* summary to tell.  run is the runId of the value.
HeardAs(status, run) == [status |-> status, run |-> run, walk |-> walks]
observed(n, output) ==
    told' = IF n = "ci" /\ output.ok
              THEN [told EXCEPT !.tripwire = Append(@, HeardAs(output.value.status, output.run))] ELSE told

Completes(n, output) ==
    /\ StoreOutput(n, output) /\ observed(n, output) /\ GoOn(n)
    /\ UNCHANGED <<workspace, signal, walks, stateJson>>

\* A runner that throws fails its node for good: the engine retries only what is returned as
\* retriable.  A failed output is stored, a throw is not.
Throws(n) ==
    /\ step' = [node |-> n, at |-> "failed"]
    /\ UNCHANGED <<outputs, told, workspace, signal, walks, stateJson>>

\* A first pass, or one that resumes from the row.
BeginWalk ==
    /\ step = BetweenPasses /\ walks < MaxWalks
    /\ step' = [node |-> "plan", at |-> "node"]
    /\ walks' = walks + 1 /\ outputs' = stateJson
    /\ signal' = FALSE
    /\ UNCHANGED <<turn, review, workspace, told, left, stateJson>>

At(n) == step = [node |-> n, at |-> "node"] /\ ~signal

Succeeded(n) == IF outputs[n] = <<>> THEN FALSE ELSE outputs[n].ok

\* What this one depends on has not failed.
Reached(n) == IF n = "plan" THEN TRUE ELSE Succeeded(Before(n))

\* Its inputs are those of the pass that stored it, so the hash is the same: what that pass
\* came to is replayed, a failure too.
Cached(n) ==
    /\ At(n) /\ outputs[n] # <<>>
    /\ observed(n, outputs[n])
    /\ IF outputs[n].ok THEN GoOn(n) ELSE step' = [node |-> n, at |-> "failed"]
    /\ UNCHANGED <<outputs, turn, review, workspace, signal, walks, left, stateJson>>

\* The walk stops at a failed node, and between nodes at an abort.
EndOfWalk ==
    /\ \/ step.at = "failed"
       \/ step.at = "node" /\ step.node # "idle" /\ signal
    /\ step' = [node |-> "idle", at |-> "flush"]
    /\ UNCHANGED <<outputs, turn, review, workspace, signal, walks, told, left, stateJson>>

AbortWalk ==
    /\ step.node # "idle" /\ ~signal
    /\ signal' = TRUE
    /\ UNCHANGED <<step, outputs, turn, review, workspace, walks, told, left, stateJson>>

\* The process dies anywhere in a pass: what the row holds remains.
Crash ==
    /\ step # BetweenPasses
    /\ step' = BetweenPasses
    /\ outputs' = stateJson
    /\ turn' = NoTurn
    /\ left' = 0
    /\ UNCHANGED <<review, workspace, signal, walks, told, stateJson>>

\* The final state is flushed to the row, or the write fails, which is only logged.
FlushRow ==
    /\ step = [node |-> "idle", at |-> "flush"]
    /\ step' = BetweenPasses
    /\ stateJson' \in {stateJson, outputs}
    /\ UNCHANGED <<outputs, turn, review, workspace, signal, walks, told, left>>

-----------------------------------------------------------------------------
(* runSingleTurn.  What an agent says last counts: of its messages the last, *)
(* of the fenced blocks in it the last.  A message is a sequence of blocks.  *)

Messages == {<<>>, <<"nonsense">>, <<"misfit">>} \cup {<<v>> : v \in Verdicts}
            \cup {<<"approve", "revise">>, <<"revise", "misfit">>}

\* "none" where it throws: no block, not JSON, or not of the schema.
parseLastJsonBlock(blocks) ==
    IF blocks = <<>> \/ Last(blocks) \in {"nonsense", "misfit"} THEN "none" ELSE Last(blocks)

\* Costs are the confidences seen.
summarizeCost(costs) ==
    IF "exact" \in costs /\ "estimate" \notin costs THEN "exact"
    ELSE IF "estimate" \in costs THEN "estimate" ELSE "unknown"

Spawning(next) == turn' = [NoTurn EXCEPT !.state = "spawning"] /\ step' = next

spawn ==
    /\ turn.state = "spawning"
    /\ turn' = [turn EXCEPT !.state = "sending"]
    /\ left' = left + 1
    /\ UNCHANGED <<step, outputs, review, workspace, signal, walks, told, stateJson>>

\* spawn or send throws: with a handle, it is shut down.
TurnFails ==
    /\ turn.state \in {"spawning", "sending", "streaming"}
    /\ turn' = [turn EXCEPT !.state = IF @ = "spawning" THEN "thrown" ELSE "closing", !.blocks = <<"nonsense">>]
    /\ UNCHANGED <<step, outputs, review, workspace, signal, walks, told, left, stateJson>>

send ==
    /\ turn.state = "sending"
    /\ turn' = [turn EXCEPT !.state = "streaming"]
    /\ UNCHANGED <<step, outputs, review, workspace, signal, walks, told, left, stateJson>>

\* An event; an aborted pass drops it and stops listening.
TurnEvent ==
    /\ turn.state = "streaming"
    /\ \/ /\ signal
          /\ turn' = [turn EXCEPT !.state = "closing"]
       \/ /\ ~signal /\ turn.got < MaxMessages
          /\ \/ \E text \in Messages : turn' = [turn EXCEPT !.blocks = text, !.got = @ + 1]
             \/ \E c \in {"exact", "estimate", "unknown"} :
                    turn' = [turn EXCEPT !.costs = @ \cup {c}, !.got = @ + 1]
       \/ /\ ~signal \* turn_end or session_end
          /\ turn' = [turn EXCEPT !.state = "closing"]
    /\ UNCHANGED <<step, outputs, review, workspace, signal, walks, told, left, stateJson>>

\* Mutant: the handle is shut down only on the way that works.
ShutdownIfSpoke ==
    /\ turn.state = "closing"
    /\ turn' = [turn EXCEPT !.state = "over"]
    /\ left' = IF turn.blocks = <<"nonsense">> THEN left ELSE left - 1
    /\ UNCHANGED <<step, outputs, review, workspace, signal, walks, told, stateJson>>

\* finally: shutdown, whose own failure is swallowed.
ShutdownTurn ==
    /\ turn.state = "closing"
    /\ turn' = [turn EXCEPT !.state = "over"]
    /\ left' = left - 1
    /\ UNCHANGED <<step, outputs, review, workspace, signal, walks, told, stateJson>>

Answered == turn.state \in {"over", "thrown"}
Answer == IF turn.state = "thrown" THEN "none" ELSE parseLastJsonBlock(turn.blocks)

-----------------------------------------------------------------------------
(* The planner and the executor.                                             *)

runPlanner ==
    \/ /\ At("plan") /\ outputs["plan"] = <<>>
       /\ Spawning([node |-> "plan", at |-> "turn"])
       /\ UNCHANGED <<outputs, review, workspace, signal, walks, told, left, stateJson>>
    \/ /\ step = [node |-> "plan", at |-> "turn"] /\ Answered
       /\ turn' = NoTurn
       /\ IF Answer = "none" THEN Throws("plan")
          ELSE Completes("plan", [ok |-> TRUE, value |-> [plan |-> 1]])
       /\ UNCHANGED <<review, left>>

\* Its agent may have written to the workspace, whatever the turn came to.
runExecutor ==
    \/ /\ At("execute") /\ outputs["execute"] = <<>> /\ Reached("execute")
       /\ Spawning([node |-> "execute", at |-> "turn"])
       /\ workspace' = workspace + 1
       /\ UNCHANGED <<outputs, review, signal, walks, told, left, stateJson>>
    \/ /\ step = [node |-> "execute", at |-> "turn"] /\ Answered
       /\ turn' = NoTurn
       /\ IF Answer = "none" THEN Throws("execute")
          ELSE Completes("execute", [ok |-> TRUE, value |-> [cost |-> summarizeCost(turn.costs)]])
       /\ UNCHANGED <<review, left>>

-----------------------------------------------------------------------------
(* The CI gate.                                                              *)

\* runGate throws or finds no summary: the output is not ok, and no result is in hand.
invokeCiGate(status) == IF status \in CiStatuses THEN [status |-> status, of |-> workspace] ELSE NoCi

runCi ==
    \/ /\ At("ci") /\ outputs["ci"] = <<>> /\ Reached("ci")
       /\ step' = [node |-> "ci", at |-> "gate"]
       /\ UNCHANGED <<outputs, turn, review, workspace, signal, walks, told, left, stateJson>>
    \/ /\ step = [node |-> "ci", at |-> "gate"]
       /\ \E status \in CiStatuses :
            /\ StoreOutput("ci", [ok |-> TRUE, value |-> invokeCiGate(status), run |-> Len(told.gate) + 1])
            /\ told' = [tripwire |-> Append(told.tripwire, HeardAs(status, Len(told.gate) + 1)),
                        gate |-> Append(told.gate, status)]
            /\ GoOn("ci")
       /\ UNCHANGED <<turn, review, workspace, signal, walks, left, stateJson>>
    \/ /\ step = [node |-> "ci", at |-> "gate"]
       /\ StoreOutput("ci", [ok |-> FALSE, value |-> invokeCiGate("none"), run |-> 0])
       /\ step' = [node |-> "ci", at |-> "failed"]
       /\ UNCHANGED <<turn, review, workspace, signal, walks, told, left, stateJson>>

-----------------------------------------------------------------------------
(* The reviewer and the loop inside it.                                      *)

extractPriorCiOutput == IF outputs["ci"].ok THEN outputs["ci"].value ELSE NoCi

runReviewer ==
    /\ At("review") /\ outputs["review"] = <<>> /\ Reached("review")
    /\ Spawning([node |-> "review", at |-> "verdict"])
    /\ review' = [iteration |-> 1, ci |-> extractPriorCiOutput, verdict |-> "none",
                  fresh |-> workspace = extractPriorCiOutput.of]
    /\ UNCHANGED <<outputs, workspace, signal, walks, told, left, stateJson>>

\* An approval against red CI is turned into a request to revise.
renderReviewerVerdict(answer, ci) ==
    IF answer = "approve" /\ ci.status = "red" THEN "revise" ELSE answer

\* The verdict: the loop ends, or the executor is called again, or CI alone.
Verdict ==
    LET verdict == renderReviewerVerdict(Answer, review.ci)
        final == verdict = "approve" \/ review.iteration >= MaxIterations
    IN /\ step = [node |-> "review", at |-> "verdict"] /\ Answered
       /\ \/ /\ Answer = "none" /\ turn' = NoTurn
             /\ Throws("review")
             /\ UNCHANGED <<review, left>>
          \/ /\ Answer # "none" /\ final /\ turn' = NoTurn
             /\ review' = [review EXCEPT !.verdict = verdict]
             /\ Completes("review", [ok |-> TRUE, value |-> [verdict |-> verdict, used |-> review.iteration]])
             /\ UNCHANGED left
          \/ /\ Answer # "none" /\ ~final /\ verdict = "revise"
             /\ review' = [review EXCEPT !.iteration = @ + 1]
             /\ Spawning([node |-> "review", at |-> "reexecute"])
             /\ workspace' = workspace + 1
             /\ UNCHANGED <<outputs, signal, walks, told, left, stateJson>>
          \/ /\ Answer # "none" /\ ~final /\ verdict = "requires_ci_rerun" /\ turn' = NoTurn
             /\ review' = [review EXCEPT !.iteration = @ + 1]
             /\ step' = [node |-> "review", at |-> "gate"]
             /\ UNCHANGED <<outputs, workspace, signal, walks, told, left, stateJson>>

invokeExecutor ==
    /\ step = [node |-> "review", at |-> "reexecute"] /\ Answered
    /\ turn' = NoTurn
    /\ IF Answer = "none" THEN Throws("review")
       ELSE /\ step' = [node |-> "review", at |-> "gate"]
            /\ UNCHANGED <<outputs, workspace, signal, walks, told, stateJson>>
    /\ UNCHANGED <<review, left>>

\* A gate that fails here leaves the reviewer without a CI result.
rerunCiForIteration ==
    /\ step = [node |-> "review", at |-> "gate"]
    /\ \E status \in CiStatuses \cup {"none"} :
         review' = [review EXCEPT !.ci = invokeCiGate(status), !.fresh = TRUE]
    /\ Spawning([node |-> "review", at |-> "verdict"])
    /\ UNCHANGED <<outputs, workspace, signal, walks, told, left, stateJson>>

\* Every verdict ends the loop node.
runLoopPredicate ==
    /\ At("loop") /\ outputs["loop"] = <<>> /\ Reached("loop")
    /\ Completes("loop", [ok |-> TRUE, value |-> [until |-> outputs["review"].value.verdict \in Verdicts]])
    /\ UNCHANGED <<turn, review, left>>

-----------------------------------------------------------------------------

PerInit ==
    /\ step = BetweenPasses
    /\ outputs = [n \in NodeNames |-> <<>>] /\ stateJson = outputs
    /\ turn = NoTurn
    /\ review = [iteration |-> 0, ci |-> NoCi, verdict |-> "none", fresh |-> TRUE]
    /\ workspace = 0 /\ signal = FALSE /\ walks = 0
    /\ told = [tripwire |-> <<>>, gate |-> <<>>]
    /\ left = 0

PerNext ==
    \/ BeginWalk \/ EndOfWalk \/ AbortWalk \/ Crash \/ FlushRow \/ (\E n \in NodeNames : Cached(n))
    \/ spawn \/ send \/ TurnEvent \/ TurnFails \/ ShutdownTurn
    \/ runPlanner \/ runExecutor \/ runCi \/ runReviewer \/ Verdict \/ invokeExecutor
    \/ rerunCiForIteration \/ runLoopPredicate

PerSpec == PerInit /\ [][PerNext]_perVars

-----------------------------------------------------------------------------

\* Between turns no agent is left running: the handle of every turn, answered, failed or
\* aborted, has been shut down before its runner goes on.
NoAgentLeft == left = (IF turn.state \in {"sending", "streaming", "closing"} THEN 1 ELSE 0)

\* What was approved was not red when it was approved, and CI had been run on the workspace
\* as it stood, except where the gate itself failed, or where a resumed pass takes the CI
\* result of an earlier one although a review that was cut off has let the executor go on.
ApprovedIsTested ==
    outputs["review"] # <<>> /\ outputs["review"].value.verdict = "approve"
        => /\ review.ci.status # "red"
           /\ review.ci.status # "none" /\ review.fresh => review.ci.of = workspace

\* The review loop stays within its iterations, and the flow ends only with a verdict.
LoopBounded ==
    /\ review.iteration <= MaxIterations
    /\ outputs["loop"] # <<>> => outputs["loop"].value.until
    /\ workspace <= walks * MaxIterations

\* The tripwire hears of every run of the CI node that had a result, also of those a death has
\* made the row forget, never of another, in the order of the runs and once in a pass.  It
\* hears a run again only while the row holds that run: a resumed pass counts what it replays.
TripwireHears ==
    /\ \A k \in DOMAIN told.tripwire :
         /\ told.tripwire[k].run \in DOMAIN told.gate
         /\ told.tripwire[k].status = told.gate[told.tripwire[k].run]
    /\ \A run \in DOMAIN told.gate : \E k \in DOMAIN told.tripwire : told.tripwire[k].run = run
    /\ \A j, k \in DOMAIN told.tripwire : j < k =>
         /\ told.tripwire[j].walk < told.tripwire[k].walk
         /\ told.tripwire[j].run <= told.tripwire[k].run
         /\ told.tripwire[j].run = told.tripwire[k].run
              => stateJson["ci"] # <<>> /\ stateJson["ci"].run = told.tripwire[k].run

\* What a run of plan-execute-review may be trusted with.
ReviewSound == NoAgentLeft /\ ApprovedIsTested /\ LoopBounded /\ TripwireHears
=============================================================================
