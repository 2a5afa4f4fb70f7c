------------------------------- MODULE CiGate -------------------------------
(***************************************************************************)
(* The CI gate, packages/ci/src.  runGate spawns agent-ci, finds the run   *)
(* directory it left in a working directory that all gates share, and      *)
(* projects the run's state into a verdict and an excerpt for the          *)
(* reviewer.  agent-ci, its files and docker are external.                 *)
(***************************************************************************)
EXTENDS Integers, Sequences, FiniteSets, SequencesExt, Functions

CONSTANTS
    Gates,     \* calls of runGate
    MaxJobs,   \* bound: jobs of a workflow, and workflows of a run
    MaxLog,    \* bound: lines of a step log
    MaxLines,  \* maxErrorLinesPerTest
    Sizes,     \* sizes of the pieces of an excerpt
    MaxTokens     \* maxTokens

ASSUME GateAssumption == IsFiniteSet(Gates)

VARIABLES
    gates,  \* the calls: where they are, the names listed before, the signal, the answer
    agent,  \* the agent-ci process of a gate: its run directory, container and job
    mixed   \* history: gates during which another gate's run directory appeared

gateVars == <<gates, agent, mixed>>

-----------------------------------------------------------------------------
(* parse-run-state.ts                                                        *)

Statuses == {"queued", "running", "paused", "completed", "failed", "skipped"}

jobStatus(job) ==
    IF job = "completed" THEN "green" ELSE IF job \in {"failed", "paused"} THEN "red" ELSE "unknown"

mapToTriStatus(reported, jobs) ==
    IF reported = "completed" THEN "green"
    ELSE IF reported = "failed" \/ \E j \in DOMAIN jobs : jobs[j] \in {"failed", "paused"} THEN "red"
    ELSE IF jobs # <<>> /\ \A j \in DOMAIN jobs : jobs[j] = "completed" THEN "green"
    ELSE "unknown"

summarizeWorkflow(wf) ==
    [status |-> mapToTriStatus(wf.status, wf.jobs), jobs |-> [j \in DOMAIN wf.jobs |-> jobStatus(wf.jobs[j])]]

deriveRunStatus(workflows) ==
    IF workflows = <<>> THEN "unknown"
    ELSE IF \E w \in DOMAIN workflows : workflows[w].status = "red" THEN "red"
    ELSE IF \A w \in DOMAIN workflows : workflows[w].status = "green" THEN "green"
    ELSE "unknown"

parseRunState(flows) == deriveRunStatus([w \in DOMAIN flows |-> summarizeWorkflow(flows[w])])

toDomainEvent(status) == IF status = "red" THEN "CIRed" ELSE "PatchReady"

-----------------------------------------------------------------------------
(* parse-step-log.ts.  A log is a sequence of kinds of lines; of indentation *)
(* only that the body of an error block is deeper than its keys.             *)

LogLines == {"ok", "not ok", "---", "...", "error: |", "error: 1 subtest failed", "body", "blank"}
Logs == SeqOf(LogLines, MaxLog)
IsTapLine(line) == line \in {"ok", "not ok"}
IsKey(line) == line \in {"error: |", "error: 1 subtest failed"}

\* The first of the positions in S, or past.
FirstOf(S, past) == IF S = {} THEN past ELSE CHOOSE k \in S : \A l \in S : k <= l

\* The line --- that opens the details of the test at i, within three lines and before another test.
YamlStart(log, i) ==
    FirstOf({j \in (i + 1)..(i + 3) : j <= Len(log) /\ log[j] = "---"
                /\ \A k \in (i + 1)..(j - 1) : ~IsTapLine(log[k])}, 0)
YamlEnd(log, start) == FirstOf({k \in (start + 1)..Len(log) : log[k] = "..."}, Len(log) + 1)

Bounded(lines) == SubSeq(lines, 1, IF Len(lines) < MaxLines THEN Len(lines) ELSE MaxLines)
TrimEnd(lines) ==
    SubSeq(lines, 1, IF \A i \in DOMAIN lines : lines[i] = "blank" THEN 0
                     ELSE CHOOSE i \in DOMAIN lines : lines[i] # "blank"
                            /\ \A j \in (i + 1)..Len(lines) : lines[j] = "blank")

\* The field error: its value, or the block under it down to a line that is less indented than
\* the block's first.
extractYamlField(block) ==
    LET at == FirstOf({i \in DOMAIN block : IsKey(block[i])}, 0)
        rest == SubSeq(block, at + 1, Len(block))
        first == FirstOf({i \in DOMAIN rest : rest[i] # "blank"}, 0)
        stop == FirstOf({i \in DOMAIN rest : first # 0 /\ rest[first] = "body" /\ rest[i] \notin {"body", "blank"}},
                        Len(rest) + 1)
    IN IF at = 0 THEN <<>>
       ELSE IF block[at] = "error: |" THEN TrimEnd(Bounded(SubSeq(rest, 1, stop - 1)))
       ELSE Bounded(<<"1 subtest failed">>)

TestAt(log, i) ==
    LET start == YamlStart(log, i)
        block == SubSeq(log, start + 1, YamlEnd(log, start) - 1)
        error == extractYamlField(block)
        others == SelectSeq(block, LAMBDA line : line # "blank" /\ ~IsKey(line))
    IN IF start = 0 THEN <<>> ELSE IF error = <<>> THEN Bounded(others) ELSE error

\* A failing test's details are skipped, and whatever they hold with them.
parseTapFailures(log) ==
    LET found[i \in 1..(Len(log) + 2)] ==
            IF i > Len(log) THEN <<>>
            ELSE IF log[i] # "not ok" THEN found[i + 1]
            ELSE LET start == YamlStart(log, i)
                     next == IF start = 0 THEN i + 1 ELSE YamlEnd(log, start) + 1
                 IN <<[at |-> i, errorLines |-> TestAt(log, i)]>> \o found[next]
    IN SelectSeq(found[1], LAMBDA f : Bounded(f.errorLines) # <<"1 subtest failed">>)

\* One entry with the end of the log, none for a blank log.
tailFailure(log) ==
    IF TrimEnd(log) = <<>> THEN <<>> ELSE <<[at |-> 0, errorLines |-> TrimEnd(log)]>>

\* classifyStep has said that the step runs tests.
parseStepLog(log) ==
    IF parseTapFailures(log) # <<>> THEN parseTapFailures(log) ELSE tailFailure(log)

\* A job's tests, from the log of its failed step: the file, or else the last lines that
\* agent-ci has kept.
summarizeJob(job) ==
    IF ~job.failedStep THEN <<>>
    ELSE IF job.hasFile THEN parseStepLog(job.file)
    ELSE IF job.lastOutputLines = <<>> THEN <<>> ELSE parseStepLog(job.lastOutputLines)

-----------------------------------------------------------------------------
(* excerpt.ts.  The size of a piece stands for its text: header, and per job *)
(* its first line and its tests; a remark on what is left out counts one.    *)

Total(s) == FoldFunction(LAMBDA a, b : a + b, 0, s)
FirstFew(s, n) == SubSeq(s, 1, IF Len(s) < n THEN Len(s) ELSE n)

renderJobBlock(job, maxTests) ==
    job.head + Total(FirstFew(job.tests, maxTests)) + (IF Len(job.tests) > maxTests THEN 1 ELSE 0)

Rendered(head, jobs, maxTests, remark) ==
    head + Total([j \in DOMAIN jobs |-> renderJobBlock(jobs[j], maxTests)]) + remark

\* All there is, then three tests and one test per job, then jobs dropped from the tail, then
\* the header alone.  Returns the jobs shown, the tests of each at most, and the size.
buildReviewerExcerpt(head, jobs, maxTests) ==
    LET shown(n, cap, remark) == [jobs |-> n, tests |-> cap, size |-> Rendered(head, FirstFew(jobs, n), cap, remark)]
        all == Len(jobs)
        stages == <<shown(all, maxTests, 0), shown(all, 3, 1), shown(all, 1, 1)>>
                    \o [k \in 1..(IF all = 0 THEN 0 ELSE all - 1) |-> shown(all - k, 1, 1)]
        fits == {k \in DOMAIN stages : stages[k].size <= MaxTokens}
    IN IF all = 0 THEN [jobs |-> 0, tests |-> 0, size |-> head]
       ELSE IF fits = {} THEN [jobs |-> 0, tests |-> 0, size |-> head + 1]
       ELSE stages[FirstOf(fits, 1)]

-----------------------------------------------------------------------------
(* runGate, gate.ts                                                          *)

Directories == {agent[h].dir : h \in Gates} \ {0}
\* A run directory is named after the time: they are numbered as they appear.
NextDir == Cardinality(Directories) + 1

\* Without a repository it throws before anything is spawned.
GateBootError(g) ==
    /\ gates[g].pc = "idle"
    /\ gates' = [gates EXCEPT ![g].pc = "settled", ![g].status = "thrown"]
    /\ UNCHANGED <<agent, mixed>>

\* The names are listed and agent-ci is spawned in one go; a signal that is set already is
\* acted on at once.
StartGate(g, reject) ==
    /\ gates[g].pc = "idle"
    /\ gates' = [gates EXCEPT ![g].pc = "waiting", ![g].reaper = gates[g].aborted,
                              ![g].before = Directories, ![g].reject = reject]
    /\ agent' = [agent EXCEPT ![g].state = "up"]
    /\ UNCHANGED mixed

\* abortHandler: SIGTERM, which only hastens an exit that may come at any time, then the reaper,
\* which lists the containers of every gate.
AbortGate(g) ==
    /\ ~gates[g].aborted /\ gates[g].pc \in {"idle", "waiting"}
    /\ gates' = [gates EXCEPT ![g].aborted = TRUE, ![g].reaper = gates[g].pc = "waiting"]
    /\ UNCHANGED <<agent, mixed>>

ReaperLists(g) ==
    /\ gates[g].reaper
    /\ gates' = [gates EXCEPT ![g].reaper = FALSE, ![g].names = {h \in Gates : agent[h].container}]
    /\ UNCHANGED <<agent, mixed>>

\* docker rm -f of what was listed.  Nobody waits for the reaper: it may go on after the gate
\* has settled.
defaultDockerReaper(g) ==
    /\ gates[g].names # {}
    /\ agent' = [h \in Gates |-> IF h \in gates[g].names /\ agent[h].container
                                 THEN [agent[h] EXCEPT !.container = FALSE, !.reaped = TRUE] ELSE agent[h]]
    /\ gates' = [gates EXCEPT ![g].names = {}]
    /\ UNCHANGED mixed

\* Mutant: any run directory will do.
diffRunDirsAny(before, after) == IF after = {} THEN 0 ELSE CHOOSE d \in after : \A e \in after : e <= d

\* The names are timestamps: the last of the new ones.
diffRunDirs(before, after) ==
    IF after \ before = {} THEN 0 ELSE CHOOSE d \in after \ before : \A e \in after \ before : e <= d

\* The state of the run in directory d.  parseRunDir throws where the file is missing or half
\* written, which only that of a run that has not flushed its end can be.
RunIn(d) == agent[CHOOSE h \in Gates : agent[h].dir = d]
Readable(d) == IF d = 0 THEN {FALSE} ELSE IF RunIn(d).flow = "running" THEN BOOLEAN ELSE {TRUE}

runGate(g) ==
    /\ gates[g].pc = "waiting" /\ agent[g].state = "gone"
    /\ LET d == diffRunDirs(gates[g].before, Directories)
       IN \E readable \in Readable(d) :
          LET status ==
                     IF gates[g].reject /\ agent[g].code # 0 THEN "thrown"
                     ELSE IF ~readable THEN "none"
                     ELSE parseRunState(<<[status |-> RunIn(d).flow, jobs |-> <<RunIn(d).job>>]>>)
          IN gates' = [gates EXCEPT ![g].pc = "settled", ![g].status = status,
                                    ![g].runDir = IF status = "thrown" THEN 0 ELSE d,
                                    ![g].event = IF status \in {"thrown", "none"} THEN "none" ELSE toDomainEvent(status)]
    /\ UNCHANGED <<agent, mixed>>

-----------------------------------------------------------------------------
(* agent-ci.                                                                 *)

Up(g) == agent[g].state = "up"

AgentBoots(g) ==
    /\ Up(g) /\ agent[g].dir = 0
    /\ agent' = [agent EXCEPT ![g].dir = NextDir, ![g].container = TRUE, ![g].job = "running"]
    /\ mixed' = mixed \cup {h \in Gates \ {g} : gates[h].pc = "waiting"}
    /\ UNCHANGED gates

\* A job fails on its own account, or because its container has been taken away.
AgentJob(g) ==
    /\ Up(g) /\ agent[g].job = "running"
    /\ \E ok \in (IF agent[g].reaped THEN {FALSE} ELSE BOOLEAN) :
         agent' = [agent EXCEPT ![g].job = IF ok THEN "completed" ELSE "failed", ![g].container = FALSE]
    /\ UNCHANGED <<gates, mixed>>

\* It exits when done or at SIGTERM, or dies; the workflow's status may not be flushed.
AgentExits(g) ==
    /\ Up(g)
    /\ \E flushed \in BOOLEAN :
         agent' = [agent EXCEPT ![g].state = "gone", ![g].code = IF agent[g].job = "completed" THEN 0 ELSE 1,
                                ![g].flow = IF flushed /\ agent[g].job \in {"completed", "failed"}
                                            THEN agent[g].job ELSE @]
    /\ UNCHANGED <<gates, mixed>>

-----------------------------------------------------------------------------

GateInit ==
    /\ gates = [g \in Gates |-> [pc |-> "idle", before |-> {}, reject |-> FALSE, aborted |-> FALSE, reaper |-> FALSE, names |-> {},
                                 runDir |-> 0, status |-> "none", event |-> "none"]]
    /\ agent = [g \in Gates |-> [state |-> "none", dir |-> 0, container |-> FALSE,
                                 reaped |-> FALSE, job |-> "queued", flow |-> "running", code |-> 0]]
    /\ mixed = {}

GateNext ==
    \E g \in Gates :
        \/ GateBootError(g) \/ (\E reject \in BOOLEAN : StartGate(g, reject))
        \/ AbortGate(g) \/ ReaperLists(g) \/ defaultDockerReaper(g) \/ runGate(g)
        \/ AgentBoots(g) \/ AgentJob(g) \/ AgentExits(g)

GateSpec == GateInit /\ [][GateNext]_gateVars

-----------------------------------------------------------------------------

\* A gate answers for its own run: green only if its own job has completed, red only if it has
\* failed, unless the run directory of another gate appeared while it waited; and a job loses
\* its container only to the reaper of a gate that was aborted.
VerdictIsOwn ==
    \A g \in Gates :
        /\ gates[g].pc = "settled" /\ g \notin mixed
            => /\ gates[g].runDir \in {0, agent[g].dir}
               /\ gates[g].status = "green" => agent[g].job = "completed"
               /\ gates[g].status = "red" => agent[g].job = "failed"
               /\ gates[g].event = "CIRed" <=> gates[g].status = "red"
        /\ agent[g].reaped => \E h \in Gates : gates[h].aborted

\* The projection of run states: what is seen red before agent-ci has flushed stays red
\* whatever the jobs under way come to, and green is never said over a failed job except on
\* agent-ci's own word for the workflow.
Flows == [status : Statuses, jobs : SeqOf(Statuses, MaxJobs)]
Settles(jobs, later) ==
    /\ DOMAIN later = DOMAIN jobs
    /\ \A j \in DOMAIN jobs : jobs[j] \in {"completed", "failed", "skipped"} => later[j] = jobs[j]
    /\ \A j \in DOMAIN jobs : jobs[j] = "paused" => later[j] \in {"paused", "failed"}
EarlyRedStays ==
    /\ \A flow \in Flows, later \in Flows :
        flow.status = "running" /\ later.status \in {"running", "failed"} /\ Settles(flow.jobs, later.jobs)
            => (parseRunState(<<flow>>) = "red" => parseRunState(<<later>>) = "red")
    /\ \A flow \in Flows, other \in Flows :
        parseRunState(<<flow, other>>) = "green"
            => \A wf \in {flow, other} : wf.status = "completed" \/ \A j \in DOMAIN wf.jobs : jobStatus(wf.jobs[j]) = "green"

\* The reviewer is given something of every log that is not blank, although roll-ups of failed
\* subtests are left out and details are skipped; the first failing test is in it unless it is
\* a roll-up; no test takes more than its share of lines.
LogsReported ==
    \A log \in Logs :
        LET tests == parseStepLog(log)
            first == FirstOf({i \in DOMAIN log : log[i] = "not ok"}, 0)
        IN /\ tests = <<>> <=> \A i \in DOMAIN log : log[i] = "blank"
           /\ first # 0 /\ TestAt(log, first) # <<"1 subtest failed">> => tests[1].at = first
           /\ \A t \in DOMAIN tests : tests[t].at # 0 => Len(tests[t].errorLines) <= MaxLines

\* A failed step is shown to the reviewer whenever something is known of it: from its file,
\* and from the last lines of the job when there is no file.
JobsReported ==
    \A file, output \in SeqOf(LogLines, 2), hasFile \in BOOLEAN :
        LET job == [failedStep |-> TRUE, hasFile |-> hasFile, file |-> file, lastOutputLines |-> output]
        IN summarizeJob(job) = <<>> => TrimEnd(IF hasFile THEN file ELSE output) = <<>>

\* An excerpt is within the reviewer's budget unless it is the header alone, nothing is left
\* out of one that fits as it is, and a job is left out only when it would not have fitted
\* even with one test.
Jobs == [head : Sizes, tests : SeqOf(Sizes, 4)]
ExcerptFits ==
    \A jobs \in SeqOf(Jobs, 2), maxTests \in {2, 4} :
        LET e == buildReviewerExcerpt(1, jobs, maxTests)
            n == Len(jobs)
        IN /\ e.jobs > 0 => e.size <= MaxTokens
           /\ Rendered(1, jobs, maxTests, 0) <= MaxTokens => e.jobs = n /\ (n > 0 => e.tests = maxTests)
           /\ e.jobs < n => Rendered(1, FirstFew(jobs, e.jobs + 1), 1, 1) > MaxTokens

\* What the flow may read into the verdict of a gate.
GateSound == VerdictIsOwn /\ EarlyRedStays

\* What the reviewer may read into what it is shown of a red run.
ExcerptSound == LogsReported /\ JobsReported /\ ExcerptFits
=============================================================================
