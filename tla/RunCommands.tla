----------------------------- MODULE RunCommands -----------------------------
(***************************************************************************)
(* How a run is driven from its start to its last write: `shamu run' and   *)
(* `shamu resume' of apps/cli, and the runner of the dashboard,            *)
(* apps/web/src/server/runs-runner.ts, over the tables runs and sessions.  *)
(*                                                                         *)
(* A command of the CLI is a process of its own; the dashboard's runs share*)
(* one process and its map ACTIVE_RUNS.  An action is the code between two *)
(* awaits: of spawn or resume, of send, of the next event, of shutdown.    *)
(* A write to the database may fail.  The handle and its process are       *)
(* external: they may throw, hand back another runId, end their stream or  *)
(* be killed with the command.                                             *)
(***************************************************************************)
EXTENDS Naturals

CONSTANTS
    CmdRuns,  \* runIds: each is minted by one command
    VendorSessions, \* the session ids vendors assign
    NoOwner, NoSession

ASSUME RunCommandsAssumption == NoOwner \notin CmdRuns /\ NoSession \notin VendorSessions

VARIABLES
    runJob,      \* runJob[r]: the command or request that minted runId r
    runRows,     \* runRows[r]: the status column of r's row, "none" without a row
    sessionRows, \* sessionRows[s]: the run_id column of session s's row
    activeRuns   \* the keys of ACTIVE_RUNS

cmdVars == <<runJob, runRows, sessionRows, activeRuns>>

Cli == {"run", "resume"}

\* code: the exit code of the process, or what the HTTP handler and then the
\* background task came to.  proc: the vendor's process.  hits: interrupts in
\* streamHandle, calls of handle.interrupt for the dashboard.
Job == [way : Cli \cup {"web", "none"},
        step : {"new", "spawning", "refusing", "sending", "streaming", "closing", "cutting", "over"},
        code : {"none", "OK", "USAGE", "INTERNAL", "RUN_FAILED", "INTERRUPTED", "killed"},
        proc : {"none", "up", "down", "lost"},
        broker : {"none", "up", "down"},
        session : VendorSessions \cup {NoSession},
        sessionPersisted : BOOLEAN,
        fatal : BOOLEAN,
        hits : 0..2]

RunTypeOK ==
    /\ runJob \in [CmdRuns -> Job]
    /\ runRows \in [CmdRuns -> {"none", "running", "completed", "failed"}]
    /\ sessionRows \in [VendorSessions -> CmdRuns \cup {NoOwner}]
    /\ activeRuns \subseteq CmdRuns

CmdInit ==
    /\ runJob = [r \in CmdRuns |->
                   [way |-> "none", step |-> "new", code |-> "none", proc |-> "none", broker |-> "none",
                    session |-> NoSession, sessionPersisted |-> FALSE, fatal |-> FALSE, hits |-> 0]]
    /\ runRows = [r \in CmdRuns |-> "none"]
    /\ sessionRows = [s \in VendorSessions |-> NoOwner]
    /\ activeRuns = {}

---------------------------------------------------------------------------
(* The tables. *)

\* A write that may fail; ok tells whether it did not.
SetRow(r, st, ok) == runRows' = IF ok THEN [runRows EXCEPT ![r] = st] ELSE runRows

\* INSERT OR IGNORE: the first run that announces a session keeps it.
insertSession(s, r) == IF sessionRows[s] = NoOwner THEN [sessionRows EXCEPT ![s] = r] ELSE sessionRows

getSessionByRunId(r) == {s \in VendorSessions : sessionRows[s] = r}

---------------------------------------------------------------------------
(* Before the handle exists. *)

SetJob(r, job) == runJob' = [runJob EXCEPT ![r] = job]
Over(job, code) == [job EXCEPT !.step = "over", !.code = code]

\* The command or request stops before it spawned anything.
Refuse(r, way, codes) ==
    /\ runJob[r].step = "new"
    /\ \E c \in codes : SetJob(r, Over([runJob[r] EXCEPT !.way = way], c))
    /\ UNCHANGED <<runRows, sessionRows, activeRuns>>

\* Missing or unknown adapter, a config that does not load, a CLI that is not
\* found, --dry-run, a database that does not open.
RunRefuses(r) == Refuse(r, "run", {"OK", "USAGE", "INTERNAL"})

\* The same of resume, and an adapter that cannot resume or is not the session's.
ResumeRefuses(r) == Refuse(r, "resume", {"USAGE", "INTERNAL"})

\* POST /api/runs: a failed CSRF check, an invalid body, an unknown adapter, a
\* CLI that is not found (4xx); a broker that does not start (500).
WebRefuses(r) == Refuse(r, "web", {"USAGE", "INTERNAL"})

\* The checks pass and adapter.spawn is called.
BeginRun(r) ==
    /\ runJob[r].step = "new"
    /\ SetJob(r, [runJob[r] EXCEPT !.way = "run", !.step = "spawning"])
    /\ UNCHANGED <<runRows, sessionRows, activeRuns>>

\* startRun up to adapter.spawn; the echo adapter gets no broker.
startRun(r) ==
    /\ runJob[r].step = "new"
    /\ \E b \in {"up", "none"} :
         SetJob(r, [runJob[r] EXCEPT !.way = "web", !.step = "spawning", !.broker = b])
    /\ UNCHANGED <<runRows, sessionRows, activeRuns>>

\* resume looks its session up, inserts the row of the new run and only then
\* calls adapter.resume; it refuses when there is no session, and an insert
\* that fails ends it.
BeginResume(r) ==
    /\ runJob[r].step = "new"
    /\ \E original \in CmdRuns \ {r} :
         LET job == [runJob[r] EXCEPT !.way = "resume"] IN
         \/ /\ runRows[original] = "none" \/ getSessionByRunId(original) = {}
            /\ SetJob(r, Over(job, "USAGE"))
            /\ UNCHANGED runRows
         \/ /\ runRows[original] # "none"
            /\ \E s \in getSessionByRunId(original), ok \in BOOLEAN :
                 /\ SetRow(r, "running", ok)
                 /\ SetJob(r, IF ok THEN [job EXCEPT !.step = "spawning", !.session = s]
                                  ELSE Over(job, "INTERNAL"))
    /\ UNCHANGED <<sessionRows, activeRuns>>

SpawnThrows(r) ==
    /\ runJob[r].step = "spawning"
    /\ SetJob(r, Over([runJob[r] EXCEPT !.broker = IF @ = "up" THEN "down" ELSE @], "INTERNAL"))
    /\ UNCHANGED <<runRows, sessionRows, activeRuns>>

\* The handle has another runId: it is shut down and the command gives up.
SpawnMismatch(r) ==
    /\ runJob[r].step = "spawning"
    /\ SetJob(r, [runJob[r] EXCEPT !.proc = "up", !.step = "refusing"])
    /\ UNCHANGED <<runRows, sessionRows, activeRuns>>

\* The handle is there.  run and the dashboard insert their row now; when that
\* fails run exits at once and the dashboard shuts the handle down first.  A
\* resumed session may continue under its own id or a new one.
SpawnResolves(r) ==
    /\ runJob[r].step = "spawning"
    /\ \E s \in VendorSessions, ok \in BOOLEAN :
         LET job == [runJob[r] EXCEPT !.proc = "up", !.session = s] IN
         /\ job.way = "resume" => ok
         /\ SetRow(r, "running", ok)
         /\ SetJob(r, CASE ok -> [job EXCEPT !.step = "sending"]
                      [] ~ok /\ job.way = "run" -> Over(job, "INTERNAL")
                      [] OTHER -> [job EXCEPT !.step = "refusing"])
         /\ activeRuns' = IF ok /\ job.way = "web" THEN activeRuns \cup {r} ELSE activeRuns
    /\ UNCHANGED sessionRows

\* The shutdown of a handle that is not wanted returns or throws; the
\* dashboard then shuts its broker down.
RefusedHandle(r) ==
    /\ runJob[r].step = "refusing"
    /\ \E p \in {"down", "lost"} :
         SetJob(r, Over([runJob[r] EXCEPT !.proc = p, !.broker = IF @ = "up" THEN "down" ELSE @], "INTERNAL"))
    /\ UNCHANGED <<runRows, sessionRows, activeRuns>>

---------------------------------------------------------------------------
(* Driving the turn. *)

\* What the dashboard's background task comes to when it throws: the row is
\* set to failed if it can be, the finally block deletes the run from
\* ACTIVE_RUNS and shuts down.
WebFails(r) ==
    /\ \E ok \in BOOLEAN : SetRow(r, "failed", ok)
    /\ SetJob(r, [runJob[r] EXCEPT !.step = "closing", !.code = "RUN_FAILED"])
    /\ activeRuns' = activeRuns \ {r}

\* A command of the CLI whose send, event iterator or database call throws:
\* the catch block prints and exits.
CliThrows(r, job) ==
    /\ SetJob(r, Over(job, "INTERNAL"))
    /\ UNCHANGED activeRuns

SendSettles(r) ==
    /\ runJob[r].step = "sending"
    /\ \/ SetJob(r, [runJob[r] EXCEPT !.step = "streaming"]) /\ UNCHANGED <<runRows, activeRuns>>
       \/ IF runJob[r].way = "web" THEN WebFails(r) ELSE CliThrows(r, runJob[r]) /\ UNCHANGED runRows
    /\ UNCHANGED sessionRows

\* Mutant: a fatal error is forgotten when its turn ends.
ExitCodeOfLastEvent(job) == IF job.hits > 0 THEN "INTERRUPTED" ELSE "OK"

\* streamHandle's result.
ExitCodeOf(job) ==
    CASE job.hits > 0 -> "INTERRUPTED"
      [] job.hits = 0 /\ job.fatal -> "RUN_FAILED"
      [] OTHER -> "OK"

Terminal(code) == IF code = "OK" THEN "completed" ELSE "failed"

\* The loop over handle.events is left.  The CLI writes the row and the cost
\* summary, either of which may throw, and awaits shutdown with its exit code
\* in hand.  The dashboard writes "completed" whatever ended the loop.
LoopLeft(r, job) ==
    IF job.way = "web"
      THEN \/ /\ SetRow(r, "completed", TRUE)
              /\ SetJob(r, [job EXCEPT !.step = "closing", !.code = "OK"])
              /\ activeRuns' = activeRuns \ {r}
           \/ WebFails(r)
      ELSE \/ /\ SetRow(r, Terminal(ExitCodeOf(job)), TRUE)
              /\ \/ SetJob(r, [job EXCEPT !.step = "closing", !.code = ExitCodeOf(job)])
                 \/ SetJob(r, Over(job, "INTERNAL"))
              /\ UNCHANGED activeRuns
           \/ CliThrows(r, job) /\ UNCHANGED runRows

\* One event: fatal error, turn_end or another, with or without the vendor's
\* session id, which the CLI writes once (a failed write is tried again with
\* the next event).  The CLI leaves the loop on turn_end and, once a second
\* interrupt came, on any event; the dashboard on turn_end and a fatal error.
EventRead(r) ==
    /\ runJob[r].step = "streaming"
    /\ \E kind \in {"other", "fatal", "turn_end"}, ok \in BOOLEAN :
         LET cli == runJob[r].way \in Cli
             writes == cli /\ ok /\ ~runJob[r].sessionPersisted
             job == [runJob[r] EXCEPT !.fatal = @ \/ kind = "fatal", !.sessionPersisted = @ \/ writes]
             leaves == \/ kind = "turn_end"
                       \/ cli /\ runJob[r].hits = 2
                       \/ ~cli /\ kind = "fatal"
         IN /\ sessionRows' = IF writes THEN insertSession(job.session, r) ELSE sessionRows
            /\ IF leaves THEN LoopLeft(r, job) ELSE SetJob(r, job) /\ UNCHANGED <<runRows, activeRuns>>

\* The iterator ends without a turn_end, or throws.
EventsEnd(r) ==
    /\ runJob[r].step = "streaming"
    /\ \/ LoopLeft(r, runJob[r])
       \/ IF runJob[r].way = "web" THEN WebFails(r) ELSE CliThrows(r, runJob[r]) /\ UNCHANGED runRows
    /\ UNCHANGED sessionRows

\* SIGINT or SIGTERM while streamHandle listens: the first asks the handle to
\* interrupt, the second is looked at with the next event.
onSigint(r) ==
    /\ runJob[r].way \in Cli /\ runJob[r].step = "streaming" /\ runJob[r].hits < 2
    /\ SetJob(r, [runJob[r] EXCEPT !.hits = @ + 1])
    /\ UNCHANGED <<runRows, sessionRows, activeRuns>>

\* POST /api/runs/:id/interrupt of an active run; of any other it is a 404, and
\* a repeated one changes nothing here.
interruptRun(r) ==
    /\ r \in activeRuns /\ runJob[r].hits = 0
    /\ SetJob(r, [runJob[r] EXCEPT !.hits = @ + 1])
    /\ UNCHANGED <<runRows, sessionRows, activeRuns>>

---------------------------------------------------------------------------
(* The end. *)

\* handle.shutdown returns or throws.  The CLI exits with its code, or with
\* INTERNAL; the dashboard ignores the failure and goes on to its broker.
ShutdownSettles(r) ==
    /\ runJob[r].step = "closing"
    /\ \E p \in {"down", "lost"} :
         LET job == [runJob[r] EXCEPT !.proc = p] IN
         SetJob(r, IF job.way = "web" THEN [job EXCEPT !.step = "cutting"]
                                    ELSE Over(job, IF p = "down" THEN job.code ELSE "INTERNAL"))
    /\ UNCHANGED <<runRows, sessionRows, activeRuns>>

BrokerShutdown(r) ==
    /\ runJob[r].step = "cutting"
    /\ SetJob(r, [runJob[r] EXCEPT !.step = "over", !.broker = IF @ = "up" THEN "down" ELSE @])
    /\ UNCHANGED <<runRows, sessionRows, activeRuns>>

\* A signal outside streamHandle, or SIGKILL: the process is gone.
Killed(r) ==
    /\ runJob[r].way \in Cli /\ runJob[r].step # "over"
    /\ SetJob(r, Over(runJob[r], "killed"))
    /\ UNCHANGED <<runRows, sessionRows, activeRuns>>

CmdStep(r) ==
    \/ SpawnThrows(r) \/ SpawnMismatch(r) \/ SpawnResolves(r) \/ RefusedHandle(r)
    \/ SendSettles(r) \/ EventRead(r) \/ EventsEnd(r)

CmdNext ==
    \E r \in CmdRuns :
      \/ RunRefuses(r) \/ ResumeRefuses(r) \/ WebRefuses(r)
      \/ BeginRun(r) \/ startRun(r) \/ BeginResume(r) \/ CmdStep(r)
      \/ onSigint(r) \/ interruptRun(r) \/ ShutdownSettles(r) \/ BrokerShutdown(r) \/ Killed(r)

CmdSpec == CmdInit /\ [][CmdNext]_cmdVars

---------------------------------------------------------------------------

\* The exit code and the row agree, across processes that die and writes that
\* fail: OK only with a completed row and a turn without fatal error or
\* interrupt, INTERRUPTED and RUN_FAILED only with a failed one, and in all
\* three the vendor's process is down.
ExitTellsRow ==
    \A r \in CmdRuns : LET job == runJob[r] IN
      /\ job.step = "over" /\ job.way \in Cli /\ job.proc # "none" =>
           /\ job.code = "OK" => runRows[r] = "completed" /\ job.proc = "down"
           /\ job.code \in {"INTERRUPTED", "RUN_FAILED"} => runRows[r] = "failed" /\ job.proc = "down"
      /\ job.way \in Cli /\ runRows[r] = "completed" => ~job.fatal /\ job.hits = 0

\* startRun and its background task give back what they took on every path:
\* once over, no broker is left, the run is not in ACTIVE_RUNS, and the
\* vendor's process was told to go; a start that failed leaves no row.
WebReleases ==
    \A r \in CmdRuns : LET job == runJob[r] IN
      /\ job.way = "web" /\ job.step = "over" =>
           /\ job.broker # "up" /\ job.proc # "up" /\ r \notin activeRuns
           /\ job.code = "INTERNAL" => runRows[r] = "none"
      /\ r \in activeRuns => runRows[r] = "running" /\ job.proc = "up"

\* The row of a session names the first run that announced it, for ever: a
\* later run that resumes the session does not take it over, so that resuming
\* the first run again still finds it.
SessionKept == [][\A s \in VendorSessions : sessionRows[s] # NoOwner => sessionRows'[s] = sessionRows[s]]_cmdVars

\* Every path of the CLI's and the dashboard's drivers, from the checks to the
\* last shutdown.
RunsSound == [](RunTypeOK /\ ExitTellsRow /\ WebReleases) /\ SessionKept

==============================================================================
