# A TLA+ verification project for shamu

shamu runs swarms of coding agents. A CLI and a dashboard drive vendor agents
through adapters, a flow engine runs graphs of agent steps, a supervisor tree
keeps workers alive, a mailbox with leases keeps two writers off one file, a CI
gate and a watchdog judge the work, an egress broker stands between an agent and
the network, and a daemon turns labelled Linear issues into runs. Everything but
the vendor processes lives in JavaScript processes over one SQLite database, so
the difficult behaviour is that of asynchronous code: a function is atomic from
one `await` to the next, and whatever it read before an `await` may be stale
after it.

The modules here model the parts that carry state across such points. An action
is the code from one `await` to the next; a call in flight is a record that says
where the call stands and what it has read. Pure decisions (globs, host
policies, path and command gates, version ranges, cost sums) are operators,
checked against a definition of what they are for.

## 1. Inventory

| Part (under `src/`) | State it keeps | Operations | What is hard | What makes it correct |
|---|---|---|---|---|
| rate limiter, `packages/linear/integration/src/rate-limiter.ts` | tokens in flight, per role, queue of parked callers | tryAcquire, acquire, release, abort | the only wake-up is in release | caps and queue limit kept, tokens accounted, no lost wake-up, FIFO per role |
| label machine, `…/labels.ts` | none; the labels live in Linear | transition | overlapping and half-failed transitions | a lone success leaves exactly the target; labels vanish only by overlap |
| registry, pickup, escalation sink, `…/registry.ts`, `pickup.ts`, `escalation-sink.ts` | run/issue maps, claimed events | bind, release, claim, route | several runs of one issue | an escalation reaches the issue of its run |
| rolling comment, `…/comments.ts`, and Linear client, `packages/linear/client/src` | the comment's body, label cache | create, appendCheckpoint, finalize; queries and mutations | calls that overlap, a mutation applied but reported as failed | a label is looked up in its team's table, text is lost only by overlap |
| Linear daemon, `apps/cli/src/services/linear-runtime.ts` | handlers, pause flag, drain phase | onPickup, handlePickup, pause, drainAndStop | detached tasks, deadline against completion | one token per run, nothing spawned after pause, drain ends and leaves nothing |
| webhook server and tunnel, `packages/linear/webhook/src` | nonce store, event queue, the cloudflared child | deliver, iterate, close; start, stop | replay within the clock skew, eviction at the limit, exit against grace period | a delivery is taken once and in order, stop ends with the child gone |
| supervisor, `packages/core/supervisor/src/supervisor.ts` | records, handles, restart windows | start, stop, addChild, removeChild, exit handling | exits and calls during awaits | one worker per child, dependents down first, restarts bounded, crashes answered |
| swarm and bus, `…/swarm.ts`, `bus.ts` | role supervisors on one bus | addRole, start, stop, escalation | escalation while starting, stop crossing start | a swarm escalation stops every role |
| flow engine and runner, `packages/core/flow/src/engine.ts`, `apps/cli/src/services/flow-runner.ts` | node statuses, outputs by content hash, stored row | run, resume | stale state after a resume, death of the process | dependencies first, one branch, success means complete, no work repeated |
| plan-execute-review, `packages/flows/plan-execute-review/src` | what planner, executor, CI and reviewer left | the five nodes, the review loop | a loop inside a node, CI reruns, aborts | an approval is about a tested tree, the loop is bounded, no agent is left running |
| CI gate, `packages/ci/src` | the child, its run directory | runGate, abort, reaper, parsers | directories shared with other gates, half-written files | a verdict is of the gate's own run, a red stays red, failures are reported within the budget |
| watchdog, `packages/watchdog/src` | agreement buffer, alerts, streak | ticks of four signals, ingest, sweep, tripwire | buffered observations are refreshed while a pair is marked | alerts need two agreeing signals, none repeated or missed |
| worktree, `packages/worktree/src` | git worktrees and branches | create, destroy, collect, hook | a worktree dirtied or recreated between two git calls | only ended, clean, old worktrees are collected |
| leases and commit guard, `packages/mailbox/src/leases.ts`, `pre-commit.ts` | lease rows with expiry | acquire, release, reclaim, guard | clock read early; git run between check and delete | live leases disjoint, no live lease stolen, uncommitted work keeps its row |
| glob overlap, `packages/mailbox/src/globs.ts` | none | globsOverlap, globMatchesPath | stars inside segments, empty `**` | globs reported as disjoint share no path |
| mailbox messages, `packages/mailbox/src/mailbox.ts`, `materialize.ts` | rows, exported JSONL files, the last ULID | whisper, broadcast, markRead, append, reconcile | crash between commit and rename, two processes that open and write one temporary file | a line is a row of the table, torn only where two wrote one file; with one process a file is a prefix of its rows, and equal after reconcile |
| audit chain, `packages/persistence/src/queries/audit.ts`, doctor's check | rows with chained HMACs, the keychain's secret | load or create the secret, append, verify | two first boots, payloads that change in JSON | what verifies is what was appended; an untouched log passes |
| database, `…/db.ts`, `migrations.ts`, `queries/*` | tables, migrations, advisory lock | open, migrate, sums | two opens at once, death with the lock held | migrations exclude each other and lose nothing, the cost views agree |
| egress policy, broker, container, `packages/egress-broker*` | listener, tunnels, requests; container and network | allow, CONNECT, request, start, shutdown | shutdown during start, docker commands that fail or hang | only allowed hosts are dialled, no tunnel survives, what is left is held by the handle |
| ACP and Pi clients, `packages/protocol/acp/src`, `packages/adapters/pi/src/rpc-client.ts` | pending requests, timers, framing buffer | request, answer, close | timer, answer, failed send and close race | a request is settled once, whatever the chunks |
| A2A, `packages/protocol/a2a/src` | tasks, streams, tokens, cards | tasks/send, tasks/sendSubscribe, cards, JWS | ends from two sides at once, rotation | one task-end, an iterator that ends, only authentic cards and tokens |
| adapter handles, `packages/adapters/*/src/handle.ts` over `base/src/harness.ts` | active turn, watchdog, turn framing, remembered tool calls, event queue | send, interrupt, setModel, shutdown, projection | prompt answer, watchdog, interrupt, shutdown and stream end race | no event after its turn's end, every send given back, results after their calls, shutdown completes |
| spawn, gates and inputs, `packages/adapters/*/src/{index,driver}.ts`, `base/src` | the vendor process | spawn stages, reap; path and command gates; CLI, environment, version | failure half way, a process deaf to SIGTERM, vendors' different dictionaries for one permission, links and commands the gates do not see | no orphan, nothing outside the worktree or the allowed commands but over named gaps, sources in their order |
| run commands and dashboard, `apps/cli/src/commands/{run,resume,logs}.ts`, `apps/web/src/server` | rows of runs and sessions, active runs, readers of the event table | run, resume, POST /api/runs, interrupt, stream, logs --tail | a throw or a kill at any await; a batch shared by all runs | exit code and row agree, the dashboard forgets what ended, a session keeps its run, readers see the history |

How they interact: the daemon claims a webhook event, mints a run id, binds it in
the registry, takes a token from the limiter (or parks, or is refused and flips
the issue to blocked), and starts a detached handler, which flips labels, starts
an egress broker, runs a flow and finally releases token and binding. An
escalation raised during the run goes over a bus to the sink, which looks the
issue up in the registry and flips its label too: the same label machine is at
work for one issue from several tasks. Executors take leases over globs before
they write and the commit hook checks staged paths against them. The flow engine
calls runners and the flow runner stores what it returns. A runner drives an
adapter's handle: it sends a user turn and reads the handle's event queue until a
turn_end; the handle speaks to a vendor's SDK or process, over the ACP or Pi
client. The events are rows that the dashboard, `logs` and the watchdog read.

`hazards` in `PROJECT.json` lists at their lines the places where this is hard to
test, with the properties that watch them.

## 2. Modules

| Module | Models | Variables and actions |
|---|---|---|
| `RateLimiter` | `rate-limiter.ts` | the two counters, each request's status, and for each parked request the ones ahead of it, which is the order of the array; one action per outcome of tryAcquire, acquire, release, abort. `ReleaseFirst` contains the whole `drainWaiters` loop |
| `LabelMachine` | `labels.ts` | labels per issue and a call record per caller; `Transition`, `ReadIssue`, `AddLabel`, `RemoveLabel`, each of which may be `ClientFails` |
| `LinearRuntime` | the daemon with registry, pickup driver and sink | INSTANCEs `RateLimiter` and `LabelMachine` over its own variables; `PickupNow`, `PickupParked`, `PickupOverflow`, `Granted`, `BeginFlow`, `FlowEnds`, `HandlerThrows`, `Cleanup`, `Escalate`, `Pause`, `DrainAndStop` and the phases behind it |
| `LinearClient` | `client.ts`, `graphql.ts`, `comments.ts`, `attachments.ts` | the team's labels and the cache of them, each call's position, Linear's comment and the body a caller builds; request and answer are two steps and either may be lost |
| `Webhook`, `Tunnel` | `verify.ts`, `events.ts`, `server.ts`; `tunnel.ts` | the nonce store with its two limits, the event queue and its one consumer; cloudflared with its two stoppers |
| `Supervisor` | `supervisor.ts`, `intensity.ts`, `policy.ts` | records, handles, restart stamps, suspended tasks; calls, exits, and the settling of factory, start and stop |
| `Swarm` | `swarm.ts`, `bus.ts`, the escalation emitter | a role is what `Supervisor` shows from outside; start with its teardown, stop, the listener and its microtask |
| `FlowEngine` | `engine.ts`, `flow-runner.ts` | the walk's position, the run state, the stored row, the passes; every node kind, cache hits, retries, abort, death, failed write |
| `PlanExecuteReview` | the flow and its runners, the tripwire observer | the agent turn of each runner, the review loop with re-executions and CI reruns; passes that resume from the stored row, where a stored failure is replayed (`Cached`); `Crash` loses what the row has not, `FlushRow` stores at the end of a pass, or fails to |
| `CiGate` | `packages/ci/src` | gates over one directory, their child, abort, reaper; parsers of run state and step log, the excerpt |
| `Watchdog`, `Worktree` | `packages/watchdog/src`, `packages/worktree/src` | signals, agreement, tripwire; git worktrees with every git call a step |
| `Leases` | `leases.ts`, `pre-commit.ts`, the lease queries | the clock, rows, operation of each run, uncommitted paths; acquire, reclaim and the guard in their awaited steps |
| `Globs` | `globs.ts` | a pair of globs, built up segment by segment; the algorithm beside matching by definition |
| `Mailbox` | `mailbox.ts`, `materialize.ts`, `ulid.ts` | the table, each agent's file and temporary file, what each process is doing and the file its descriptor is of. Reading, opening (which empties the temporary file), writing and renaming are a step each, and `MailCrash` or the other process may come between any two. A descriptor stays with its file when that is renamed; a shorter write leaves the rest of a longer file behind it (`Remains`), of which a `Torn` line may be the start |
| `Persistence` | `queries/audit.ts`, `doctor-audit-chain.ts`; `db.ts`, `migrations.ts`; `queries/cost.ts` | the keychain, the secret each process holds, the rows, a digest being the tuple it digests (`Damage` is external); the advisory lock, the versions applied, where each open stands; the cost and usage events and their two sums |
| `RunCommands` | `run.ts`, `resume.ts`, `run-driver.ts`, `runs-runner.ts`, the tables runs and sessions | one record per run: who drives it, its row, its handle; every throw and signal |
| `EventTail` | `GET /api/runs/:id/stream`, `logs --tail`, `queries/events.ts` | the rows by run and seq, each reader's position |
| `EgressBroker`, `EgressContainer` | `policy.ts`, `broker.ts`, `container.ts`, `preflight.ts`, `docker/proxy.ts` | a host is a sequence of characters; connections from dial to end; docker's containers and networks and the policy files against what the handle knows; a file may be written half, and its removal fail unseen |
| `RpcClient` | `acp/src/client.ts`, `framing.ts`, `transport-stdio.ts`; `pi/src/rpc-client.ts` | pending requests, timers, settled requests; the decoder over every cut of a stream |
| `A2a` | `transport.ts`; `cards.ts`, `jws.ts` | a call from token to answer or end of its stream, on both sides; cards and tokens with ideal signatures, base58 |
| `TurnFrame` | `correlation.ts` and the projectors' `turnOpen` | operators on a *batch*: a frame and the events one step pushes |
| `CodexHandle` | the codex handle with projector and permission gate | `stream` is the live `runTurn`, `frame` the projector's flags with the correlation state's turn, `calls` is `toolCallByItemId`. Actions: `Send`, `StreamOpens`, one per kind of SDK event, `StreamEnds`, `StreamThrows`, `Interrupt`, `ShutdownLive`, `ShutdownCloses`. A tool's result may come without its start: `ToolCompleted` has no guard. `out`, `ended`, `got`, `asked`, `begun` are history |
| `HandleBase`; `SharedHandles`; `Handles` | `AdapterHandleBase`; the handles of Gemini, Cursor, Pi and Amp over it; those of OpenCode and Claude without it, and the composition of all | the active turn, its watchdog, prompts and cancels under way, tool calls seen; each vendor has actions for its sends and events |
| `VendorSpawn`, `VendorGates` | `makeHandle` and the drivers; the two gates and the permission handlers, CLI resolution, version ranges, environments | a spawn as a row of stages, the end of stdin and the reaping of its process; one question of each kind and its answer: a path in a file system given by `Directories` and `Links` (which may dangle) under one of `Roots` (which may be links themselves), a command, a tool call that each vendor's dictionary (`SHELL_TOOL_NAMES`, `PATH_TOOL_NAMES`, `PathKeys`, `PathFieldsFor`) reads in its own way |

`MC*` modules give the constants values. Components that share no state are
checked in one run, as a product in which a behaviour is of one of them while the
others stay where they began: `MCDaemon`, `MCEdges`, `MCFlowParts`, `MCHost`,
`MCHandles`, `MCAgents`. Three of the runs that expect a violation check a
component's module itself, `MCFlowEngine` and `MCSupervisor` give the others their
flows and children. The proofs are in `RateLimiterProofs`, `LabelMachineProofs` (with
`LinearClient` and `Webhook`), `LinearRuntimeProofs`, `HostProofs` (`Leases`, `RunCommands`,
`Supervisor`, `Persistence`, `Mailbox`), `FlowEngineProofs`, `FlowPartsProofs` (`Worktree`,
`CiGate`, `EgressBroker`, `EgressContainer`, `PlanExecuteReview`), `AgentProofs` (`CodexHandle`,
`Swarm`, `EventTail`, `Watchdog`) and `AdapterProofs` (`Handles`, `VendorSpawn`, `RpcClient`, `A2a`,
`VendorGates`). In the specifications a definition marked
"Mutant" is a plausible mistake in the definition that follows it; replacing the
definition by the mutant violates the property `PROJECT.json` pairs them with.

Abstractions common to all: ids, prompts, texts and payloads are model values or
small sets; logs and event payloads are left out; a content hash or a digest is
the value that is hashed, a signature the record of who signed what; a database
query is atomic, as the synchronous calls of bun:sqlite are. git, docker, the
vendors, Linear and the operating system are external: each may fail, answer
late, or not at all, as far as the code handles it.

## 3. Runs

| Run | Question | Result |
|---|---|---|
| `daemon` | the daemon: three pickups of two issues, an escalation, a pause and a drain at any time (`RuntimeSound`). Leases: two runs, two globs, expiry, reclaim and commits interleaved (`LiveDisjoint`, `WorkKeepsRow`, `NoLiveStolen`). Globs: all pairs within the bound (`NoRaceOnWholeStars`). Webhook: is a delivery taken once, in order, and its labels surfaced (`HookSound`)? Linear client: two calls over one cache and one comment (`LinearSound`) | holds; the overlap test is symmetric, and sound when a star is a whole segment |
| `edges` | does a drain end when calls to Linear may fail, and a stop of the tunnel with its child gone (`StopsComplete`)? is a request settled once, and does the framing not depend on the chunks (`RpcSound`)? do A2A tasks and iterations end, once (`A2aServed`)? are only authentic cards and tokens accepted (`CardsSound`)? does the broker dial only allowed hosts and shut down (`EgressSound`)? | holds under the fairness of section 5 |
| `flow` | three flows, fresh and resumed, with retries, aborts and one fault (`FlowSound`, `PassEnds`); plan-execute-review (`ReviewSound`), the CI gate (`GateSound`), the watchdog (`WatchdogSound`), worktrees (`WorktreeSound`), the broker's container (`ContainerSound`); what is read back from the logs of CI steps and of the container (`TextsSound`) | holds |
| `host` | the supervisor: what survives free overlap of two calls with exits, and what holds for calls one at a time (`SupervisorSound`, `SupervisorProgress`); two runs driven by commands and dashboard (`RunsSound`); mail files, audit chain, migrations and cost sums (`RecordsSound`) | holds |
| `handles` | a handle of any of six vendors over two sends (`TurnsSound`, `ReleaseSound`, `AdaptersProgress`); spawns that fail anywhere (`NoOrphan`, `AdaptersProgress`); which binary, version and environment (`InputsSound`); what the gates let through (`GatesSound`) | holds |
| `agents` | limiter: do limits, order and wake-ups survive every order of acquire, release, repeated release and abort (`LimitsRespected`, `NoIdleWaiter`, `LimiterServes`, `AtMostOneWake`)? label machine: two transitions, each call able to fail (`BareOnlyByOverlap`, `ConvergesAlone`). Swarm (`SwarmSound`). Codex handle: two sends, three SDK events each, two interrupts and a shutdown at any time (`OpenOnlyAfterAbort`, `StreamSound`). Readers of the event table (`TailSound`) | holds; a release never wakes more than one caller, though the comment on `drainWaiters` expects several |
| `supervisor_remove` | two overlapping `removeChild` calls | **violated**: the second removal splices an index computed before its `await` and takes out another child |
| `flow_death` | does a resume keep completed nodes after the process died? (README of the repository) | **violated**: the row is written only when the flow starts and when it returns |
| `globs_unsound` | is the overlap test conservative for every glob? (header of `globs.ts`) | **violated** by `a*` and `*a` |
| `codex_interrupt` | is an interrupt of a running turn followed by its `turn_end` or an error? (acceptance table of PLAN.md) | **violated**: when the abort surfaces as an exception, `runTurn` pushes nothing |
| `handles_watchdog` | does OpenCode's watchdog give an unanswered send back? (header of its `handle.ts`) | **violated**: `forceTurnEnd` returns when no turn is open |
| `tail_starved` | does the dashboard's stream deliver the events of its run? (README of apps/web) | **violated**: other runs' rows fill the batch and `since` never moves |

A property named `…Sound` is a conjunction of named parts, one per promise; the
definition in its module lists them and each part has a comment of its own. The type
invariant of a module is one of the parts where it has one.

### Bounds, and why they are enough

- Limiter (`agents`): three executors and a planner, global cap 2, executor cap 1, the
  planner uncapped, queue of 2.
  Both caps can be what saturates, a planner release can serve an executor, the
  queue overflows, and a caller may call again. Labels: one issue and two
  callers; a human may add any label between transitions, so a transition starts
  from every set of labels.
- Daemon: executor cap 1 and a queue of 1 let one pickup run, one park and one
  overflow, and two are of one issue; in `edges` a queue of 2 lets two park.
  `MaxEscalations` and `MaxFailures` bound the environment: one escalation without
  failed calls in `daemon`, one failed call without escalations in `edges`.
- Leases: `MaxClock` 1 with a time-to-live of 1 lets a lease expire, be reclaimed and
  be taken again (longer histories are the proofs'); two lease ids. The two globs are disjoint, so leases stand side
  by side, and each conflicts with itself. Globs: two letters and the star,
  segments of up to two characters and globs of up to two segments. `X` is one of
  the letters because the algorithm substitutes it for a star.
- Webhook: a store of two nonces with four posts of three deliveries in five units
  of time: the window (2) and the size limit both evict. Client: two calls, three
  changes of the team's labels.
- RPC: two requests of either client and one call from the server; the framing over
  every cut of a short stream into up to three chunks. A2A: one call, up to two
  updates, five seconds with a token that lives two. Cards: two keys, two texts;
  base58 of up to three bytes. Broker: two connections and texts of up to
  `MaxText` characters of an alphabet that holds everything the parsers look for.
- Flow: three flows of three or four nodes that contain a conditional with two
  branches, a loop before a gate, a retry and a branch without a runner. `MaxPasses` 2 is one run and one
  resume; `MaxFaults` 1 is one death or one failed write. Node numbers are chosen
  so that the order of ids is not the order of dependencies. Watchdog: four events in
  three units of time, an agreement window of 1. Review: two
  iterations, two walks, each of which may die or end with a failed write of the row. CI: two gates over one directory, two jobs, logs of up to
  five lines. Container: four calls of start and shutdown with two faults, of docker or of the policy file.
- Supervisor (`host`): one or two children of both strategies, two worker handles,
  two async calls in flight; a child's intensity is 0 or 1, so that the limit is
  reached. `supervisor_remove` has three children, of which one is the victim.
- Run commands: two runs over two vendor sessions, so that a resume can meet its
  own or another run's session.
- Mail and persistence: two messages, two agents, two processes. Where both processes run,
  `SharedAgents` restricts the recipients to one, the file they fight over; a
  single process writes to both agents. `MaxMs` 1 and a random part of two values
  let ids share a millisecond, overflow it or not. Audit: two secrets, three rows, so
  that a middle row can be lost. Costs: two events of two runs.
- Handles: `MaxSends` 2 lets what a first turn left behind meet a second;
  `MaxRaw` (2, for Codex 3) is enough for a tool's start and its end, in every order;
  `MaxInterrupts` 2 is one during a stream and one after it. The violation runs need
  less. Paths of up to four names in a worktree with links into it, out of it and to
  nothing, under its real path, an alias and a root that does not exist; commands of up
  to three tokens.
- Tail: three runs with two events each and a batch of two, the smallest in which
  two other runs fill the batch.

Deadlock is not checked: every one of these systems may stop (a drained daemon, a
stopped supervisor, a flow with no passes left, a full lease table, a closed
handle), and a product stops with its part.

## 4. What the checks show beyond pass and fail

Observations met while modelling, beside the findings. Where the code does less
than one would expect, the property states what is left, and its comment names
the exception.

Daemon, labels, supervisor, swarm
- Two overlapping transitions of one issue can leave it with no shamu label; the
  daemon and the sink can be those two. `BareOnlyByOverlap` is what holds.
- A restart that still awaits its factory when `stop` passes its record puts a
  live worker under a stopped supervisor. `StoppedIsQuiet` is checked for calls
  that do not overlap. An escalation during `start` is overwritten: `start` ends
  with `running` after the teardown set `stopped`.
- `drainAndStop` does not wait for the label flip of an overflowed pickup
  (`linear-runtime.ts:779`).
- An escalation to the swarm while it starts is ignored (`swarm.ts:16`: "halts
  every role"); a `stop()` that crosses `start()` can leave the swarm running, or
  make start reject.

Leases, mailbox, records
- `acquireLease` ignores expired rows, so a path with uncommitted work of an
  earlier holder can be leased again without the last-touch check; the row of the
  earlier holder stays (`WorkKeepsRow`). The commit guard decides with the time at
  which it was called (`pre-commit.ts:106`).
- Lease rows keep writers off one another's *paths* only where `globsOverlap` is
  sound: `Leases` takes the overlap relation as a parameter, and `Globs` shows for
  which globs it can be trusted.
- `materialize.ts:10` promises that a file is a prefix of its rows "at any
  observable moment". A death between commit and rename that is followed by a
  later append, a read that fails (taken for an empty file) and `markRead` break it
  until reconcile. Two processes that append to one agent lose or repeat lines;
  they share the temporary file, so that the second rename throws, one publishes a file
  the other has just emptied, or writes over a longer one and leaves its end behind as a
  torn line. `LinesAreMail` allows that only where both had the file open at once.
- Two first boots each put a secret in the keychain: the chain then verifies under
  neither. A payload with an undefined value makes an untouched row fail, since
  the digest covers a text that is not what is stored. Rows lost from the end go
  unnoticed.
- Every open takes `schema_lock`: of two commands that open at once one throws,
  even with nothing to migrate. A process that dies with the lock held makes every
  later open fail, though the message says "Retry shortly" (`migrations.ts:146`).
- Costs of a run whose vendor column is NULL and that has no usage event are
  missing from the role's view. The header of `cost.ts` says (line 18) that the
  amount of an `unknown` row is not summed; `foldCostRows` sums it.

Flows, CI, watchdog, worktrees
- The initial inputs are part of every content hash: a flow resumed with a new
  task text runs all nodes again. A node behind both branches of a conditional is
  always skipped. Only the cost of the last attempt of a retried node is recorded.
- Planner, executor and reviewer throw where they fail, so `maxRetries` never
  applies. A failed CI node skips the review, against the comment on `ciNode`. A
  rerun of the gate that fails leaves the reviewer without a CI result, so that an
  approval passes after a red. The loop's predicate is true of every verdict: the
  flow succeeds unapproved once the iterations are used up. Re-executions are not
  in the cost; the summary says "exact" with unknown amounts in it.
- A failed result of the CI node is stored too, and a resume of the flow with the same task
  replays it and fails (`engine.ts:360`), although the gate might pass now. Every resumed
  pass tells the tripwire the stored result again: `TripwireHears` names this. A death
  loses the outputs of its pass, whose CI runs the tripwire has heard.
- An aborted gate gives "unknown", which is let through as ready. A run state that is
  missing or half written gives a gate without a verdict. The exit code is
  ignored unless asked for. Two gates of one directory may take each other's run,
  and the reaper kills the containers of both. A workflow reported completed is
  green over failed jobs; an unterminated YAML block swallows what follows; a blank
  step log hides the last lines.
- The watchdog's cost velocity judges completed runs too; one ingest raises at most
  one alert.
- destroy without `pruneBranch` makes a later create of the same run fail.

Egress, webhook, Linear client
- A shutdown during start returns at once and the broker listens afterwards. The
  upstream of a plain request outlives client and shutdown. The socket of a denied
  CONNECT is not among the tunnels, so close waits for its client.
- A container's shutdown during the first stages of start marks it shut down, and
  the container started afterwards is never reaped; likewise after a kill that
  failed twice, and after a network create cut off by its timeout. The
  `docker rm -f` of the header (`container.ts:34`) is not in the code. The preflight
  reports the containers of live brokers too. A policy file that cannot be removed, or
  that was written half before its cleanup was known, stays behind, and neither start
  nor shutdown says so.
- A nonce is remembered before the body is parsed; an event that comes after the
  sink has closed is acknowledged and dropped. A spawn error of cloudflared without an exit leaves stop waiting.
- A listing in flight refills the label cache with an older table. A mutation may
  have been applied although it is reported as a network error. Overlapping
  `appendCheckpoint` and `finalize` overwrite each other.

Adapters, protocols, commands
- An interrupted codex turn whose stream throws stays open (finding): the next send
  shares it. In a later turn a stream of events that all project to nothing is
  given no `turn_end`; `TailPushed` names this. `turn.failed` followed by an
  exception answers one send with two `turn_end` events (`handle.ts:287`). An
  `item.completed` without its `item.started` is linked to the call of an earlier
  turn with that item id, although `jsonl-projection.ts:500` speaks of a fresh id;
  `ResultLinked` names this.
- OpenCode: `session.idle` or `session.error` of any session releases the turn.
  Gemini and Cursor: a prompt answered without an update gets no `turn_end`. In the
  shared handle a late answer, rejection or cancel ends the turn of a later send; a
  failed `setModel` reports after session_end. Claude's events join a turn after its
  turn_end. Amp marks the calls behind a denied one as emitted without pushing them.
  Pi's agent_end pushes session_end in mid-session.
- The drivers of Gemini, Cursor, Pi and Amp await the end of stdin before any signal,
  without a timeout: a process that does not read its stdin holds shutdown up
  (`Clogged`, the exception of `AdaptersProgress`).
- A version that the last-chance path of the CLI does not meet is thrown within the `try`
  that looks for it, and is reported as a CLI that was not found (`vendor-cli-resolver.ts:436`).
- The path gate accepts a link that dangles wherever it points, since `existsSync` does
  not see it (`path-scope.ts:68`, against its header). An absolute path through a link to the
  worktree is refused. `splitSegments` (`shell-gate.ts:175`) does not split at `|&`, `;;` and
  newline, so what stands behind them is never looked at; nor is a command behind its
  redirection, whose target is taken for it. `CommandsPermitted` speaks of the rest.
- The dictionaries of the permission handlers differ: `write_file` is gated by Gemini,
  Cursor and Pi, not by Amp and OpenCode, `create_file` by Amp only, `terminal` not by
  OpenCode, and Amp and OpenCode do not read `abs_path`. `WriteFile`, which the comment on
  Gemini's dictionary names, is in none of them in lower case. `GatesNested` states exactly
  which denial implies which.
- Amp's driver never sends SIGKILL, though the header of its handle speaks of it, and its close, like
  OpenCode's, does not await the exit. An empty value in `SpawnOpts.env` removes the
  vendor's option, not the daemon's own value. A `>=` range whose base cannot be read accepts
  everything.
- The end of an RPC stream leaves pending requests to their timers. A one-shot A2A
  task whose handler throws emits task-start without task-end; the client yields
  updates behind a final one of the same chunk; a token being signed when close is
  called is cached again.
- `run` and `resume`: rows stay `running` when send, resume or the stream throws or
  the process is killed, and the handle is not shut down then; a second SIGINT waits
  for the next event; a failing shutdown turns the exit code of a completed run. A
  resumed run with the same session has no session row (INSERT OR IGNORE), so it
  cannot be resumed itself, although `resume.ts:206` says that the table links the
  two. The dashboard writes no session, and marks fatal errors and interrupts
  completed (`runs-runner.ts:282`).

## 5. Fairness

- `RateLimiter`: a lease that was granted is released (weak fairness of
  `ReleaseFirst`). The daemon releases in a `finally`. Nothing is assumed of
  acquire or abort.
- `LinearRuntime`: a call to Linear ends, with success or not (this is the
  runtime's `fetch`, which gives up by itself; the client sets no timeout of its
  own, so a drain is only as prompt as that); a resolved promise resumes its task; the
  drain's own steps happen. A flow is *not* assumed to end, unless its controller
  was aborted: the engine passes the signal to its runners.
- `Supervisor`, `Swarm`: every promise a task awaits settles. Workers need never
  exit and nobody need call anything.
- `FlowEngine`: the walk goes on and an awaited runner answers.
- `CodexHandle`: `runStreamed` settles, a stream that was aborted ends or throws,
  and shutdown goes on after its await. A stream that was not aborted need not end.
- `Handles`: a timer that runs fires, and shutdown goes on after awaits that each
  have a timeout. The vendor need do nothing.
- `VendorSpawn`: the timers of the reaper fire, the end of stdin settles if the process
  reads it or is gone, a process that was signalled exits
  unless it is deaf to the signal, SIGKILL is not ignored.
- `RpcClient`: timers fire; after close the stream of the process ends.
- `A2a`: handlers of the server end and a client that iterates reads on.
- `Tunnel`: the grace period ends; a child that was killed exits.
- `EgressBroker`: listen and close call back once they can, and clients go away.
- `EventTail`: the readers keep polling.

## 6. Proofs

Checked by TLAPS, for every value of the constants that satisfies the assumptions
named here (each is an `ASSUME` of the component's module, and TLC evaluates it on
every run of that module).

**RateLimiterProofs** (`RateLimiterAssumption`: finitely many requests, caps and
queue capacity as `createRateLimiter` validates them). The inductive invariant is
`TypeOK /\ TokensAccounted /\ CapsRespected /\ QueueBounded /\ NoIdleWaiter`.
`CapsRespected` alone is not inductive, since the code compares counters and the
property counts leases: `TokensAccounted` joins the two. `NoIdleWaiter` is needed
about the state *before* a release: every parked request then lacks the token
that comes back and no other, so the first one woken uses it up. That gives
`NoLostWakeup` after the loop and `SingleWake`, that the loop of `drainWaiters`
never turns twice. Since one release wakes one request and both of two waiters of a role
need the same token, the one in front is it (`EarlierIsWoken`): with `NoIdleWaiter`, which
keeps newcomers out, `FirstComeFirstServed` is `FifoPerRole`. `LimitsCorrect` and
`TypeCorrect` follow from the invariant.

**LabelMachineProofs** (`HookAssumption` for the webhooks: the nonce window is at least
twice the accepted skew, as the defaults are, and the cache holds an entry). While a transition is in flight that none
has overlapped, its plan determines the issue's labels (`PlanFits`) and it is the
only one at work (`OverlapKnown`). `MovesKeeps` shows once that a step of one
caller disturbs nobody else's plan; the four client steps are instances of it.
`AloneConverges` and `AloneNeverBare` follow. The second part is `LinearClient`
(`LinearCorrect`). A call may hold a table of labels older than both the cache and
Linear, so the invariant speaks of history: every entry of a table that is held bore
its name once (`TablesBorne`), and a call that nothing disturbed has lost no cache
(`LookupFits`). For the comment, Linear's body is at most one edit ahead of the
body it was computed from (`BodiesFit`), and at most one edit is a summary. The third
part is `Webhook`: an accepted delivery's nonce is in the store with only nonces posted
since behind it, or `MaxEntries` were posted since, or its timestamp is stale by now
(`Remembered`); one lemma for each operation on the store (`EvictFits`, `TouchFits`,
`RememberFits`) keeps that, and an entry the touch of another one hides stays long enough
because the window is twice the skew. `HookCorrect` is all of `HookSound`.

**LinearRuntimeProofs** (`RateLimiterAssumption`, `LinearRuntimeAssumption`). No
handler writes down that it holds a token or a binding: both follow from where it
stands. `IInv` says so (`TokenFits`, `BindingFits`), and that drain and label calls
agree with that place (`DrainFits`, `CallFits`, `PlanClears`). `RuntimeCorrect` is all
of `RuntimeSound`; `UsesLimiter` shows that every step of the daemon is a step of
the limiter or leaves it alone, so that the theorems of `RateLimiterProofs` hold of
the daemon's limiter.

**HostProofs** has five components. *Leases* (`LeasesAssumption`: the overlap
relation is symmetric, every glob covers a set of paths, a positive time-to-live).
`LiveDisjoint` needs to know that an acquirer's time is not in the future
(`AcquirersPast`): then what was live for it includes all that is live at its
commit. `NoLiveStolen` needs that the row a reclaimer works on stays stale
(`ReclaimStale`), and `WorkKeepsRow` that uncommitted work has a row no reclaimer
has found clean (`WorkHasRow`). Here a worker edits only under a live lease of its
own, as PLAN.md's patch lifecycle has it; without this a holder could write
between git status and the delete.
*RunCommands* (`RunCommandsAssumption`: the values for "nobody" and "no session"
are not a run or a session). `JobFits` says what a run's step implies for its row, its
process, its broker and its place in `ACTIVE_RUNS`; `RunsCorrect` reads `RunsSound`
off it.
*Supervisor* (`SupervisorAssumption`, `NoTaskAssumption`). The invariant has two
layers. `SupBase` survives any overlap of calls and exits: listeners belong to
records (`HandlesFit`), suspended tasks are shaped as the code left them
(`TasksShaped`), the restart stamps stay within the limit (`WithinIntensity`). `Alone`
holds while no two calls have met: there is at most one task, and its place in its
loop fixes which children run (`AliveFits`), which position the loop has reached
(`PlaceFits`), its phase and its flags, or else nothing is under way
(`Settled`). After an escalation only teardowns and removals are left, which gives
`NoFactoryAfterEscalation`.
*Persistence* (`AuditAssumption`: the marks of a secret that is not there are no secrets,
the bound is a natural). One process at most is between its INSERT into
`schema_lock` and its DELETE, the row is there while it is or after it died
(`LockFits`), and what it read as applied still is (`SchemaFits`), so migration 2
drops the table before any row can be in it. `MigrationsExclude` and
`MigrationsKeepRows` follow. The audit log is `Intact`, row for row what was appended
and linked, or `Changed`, one row saying something else, or `Holed`, a number
missing with rows behind it; appending keeps each of the three. While no two secrets
met, every row is under the one in the keychain (`OneSecret`). `AuditCorrect` is all of
`AuditSound`: a change breaks the digest of its row and a hole the numbering of the
next, so what verifies is `Intact`, and an `Intact` log verifies in every range.
*Mailbox* (`MailAssumption`: there is a process, shared agents are agents, the marks of
a torn line and of a file that is not there are no message and no file, the bounds are naturals). The rows of an agent have one
order by time and id, whatever the clock does (`RowsTo` exists and is unique), and a row
behind all of them goes to its end (`RowsToGrows`). With any number of processes and
crashes, every line of a file, of a temporary file or about to be written is a row of
the table, or torn and of an agent whose temporary file two processes had open
(`FilesFit`). That needs to know of each descriptor that nobody shares that its file is
empty until the write (`FdsFit`), through every rename. With one process, ids ascend with the table and the appends that
process still owes make each file what the table says (`AloneFits`, `Owed`).
`MailCorrect` is all of `MailSound`.

**FlowEngineProofs** (`DefinitionAssumption`: what `validateDefinition` accepts, with
`maxIterations` at least 1; `NoOutputAssumption`; and for the theorems on branches
and for the type `BranchAssumption`: branches lie behind their conditional). The
order of the walk is a recursive function: that it exists, emits every node and puts
dependencies first (`OrderFixed`) is proved from the least element of a set of
naturals, since the induction theorems of the library cannot be used. `EngineInv`
is `EngineTyped /\ WalkFits /\ FreshFits /\ CostFits /\ ReuseFits /\ ReportAgrees`:
what the walk has passed is settled in the state, the state's outputs are those the
row will hold, a cached output is reused only under its own hash, and costs are counted
once per call. `BranchFits` adds which nodes an unpicked branch has taken away.
`FlowCorrect` is all of `FlowSound`; its parts are theorems of their own.

**FlowPartsProofs** (`WorktreeAssumption`, `GateAssumption`, `ContainerAssumption`,
`FlowAssumption`, `PortAssumption`, `BrokerAssumption`). Each invariant relates what an operation has read to what may have
changed since. `TreeInv`: where create, destroy and the collector stand against git's
record, the checkout and the row (`GcFits`, `HookFits`, `DestroyFits`). `GateInv`: run
directories made side by side differ, a gate's claimed directory is of its own job
unless it was crowded, and a reaper reaps what it listed. `ContainerInv`: what docker holds beyond the handle is what
a fault of docker or of the policy file left (`MachineFits`), also after a death. `PerInv`: an agent runs only where a
runner waits for it (`NoAgentLeft`), and what was approved was tested
(`ApprovedIsTested`, `TestedFits`), through any passes, resumed from whatever the row holds. The egress policy is
proved for texts of any length: that the code's comparison of string ends is a comparison of
labels needs that a suffix starts with a dot (`SuffixStarts`), which is why the policy in
`BrokerAssumption` has suffixes as `loadEgressPolicy` accepts them; a port is read
digit by digit, by an induction on the prefixes of the text (`PrefixValues`), and
`PortAssumption` asks only that the ports 1 and 10, which `ReadsBack` writes, are ports.
`BrokerInv`: a connection holds an upstream only for a host its policy allows and a
tunnel only while it is accepted, which needs a listening server (`ConnFits`); each
connection that has asked was reported (`AskStep`); the wrapper goes with the
server as long as nobody else calls the handle (`WrapFits`).

**AgentProofs** (`CodexAssumption`, `SwarmAssumption`, `EventTailAssumption`: the bounds are
naturals and the batch size positive, a role escalates to itself or to the swarm; `WatchdogAssumption`: the agreement window and the
tripwire's threshold are positive, as the code checks) has four components. *CodexHandle*: a step
computes a batch from the frame and delivers it (`EveryStep`). A batch is `Framed` when
`turnOpen` in the projector and the closed flag of the correlation state, which different
objects keep, agree in its frame (`envelope()` throws where they disagree), the turns that
have ended are behind it, and each of its events `Fits`: of a turn that has not ended, a
result of the send that is read. It is `Good` when besides a turn was closed by pushing
its end. One lemma for each operator on batches (`StartTurn`, `EndTurn`, `Push`,
`EnsureSyntheticFrame`, ...) keeps that; each action is composed of them. The inductive
invariant adds to the types that what an active send has got is in an open turn or ended
with its tail, and that an item begun in the live stream is remembered with the present send, and any other
with an earlier one (`Remembered`, in `CodexInv`). `StreamThrows` of an aborted stream is the only step that may leave a turn
open between two sends (`TurnsFramed`). `StreamCorrect` is all of `StreamSound` but that
shutdown completes.
*Swarm*: a role goes down by itself while `start` waits for the next one, tears down
what it started, or `stop` waits. `SwarmInv` says for each of these places which roles may
be up and which supervisors are there (`IdleFits`, `StartFits`, `RunFits`, `StopFits`,
`StoppedFits`), as long as `stop` did not cross a `start`; `SwarmSafe` is the safety of
`SwarmSound` and `RolesStayAlone` that a role which fails leaves the others alone.
*EventTail*: a set of naturals has exactly one ordered list (`Lists`, from the least
counterexample), and a batch holds the next rows of the run behind the reader's position
(`GoesOn`), so that what was received stays the history: `ReadersCorrect`.
*Watchdog*: `WatchdogCorrect` is all of `WatchdogSound`, whatever the four signals make of
the events. Its invariant `DogFits` holds between any two observations of a tick: an alert's
pair stays marked, and the buffer's observations of its signals are no older than the
alert's, until one of these is older than the window (`AllMarked`); that needs one entry for
a signal. The tripwire's count is what a streak leaves over after whole rounds (`TripInv`).

**AdapterProofs** (`HandleAssumption`, `RpcAssumption`, `A2aAssumption`, `GatesBounds`: the
bounds and the lives of tokens are naturals). `NoProcessLeft`: the stages of a spawn and its
process fit each other, whatever stage fails. For the handles of the six vendors
`HInv` says that the frame agrees with the events that are out, that tool calls in
flight were announced and that an active send is watched. A batch is `Good` when its events
extend what is out in order; a lemma for each operator of `TurnFrame` keeps it good,
and an action is a chain of them. `TurnsWellOrdered` and `SendsReleased` follow.
The clients of acp and pi: whoever removes a request from the pending ones settles it, so
that its answers, its timer, its failed send and close cannot both do so (`RequestsFit`).
The A2A transport: `CallFits` says for every place of a call what was checked of its
caller, that a task-end is the last event of a stream, and that what the client yielded,
followed by what is on the wire, ascends. The expiry clause of `CallSound` showed the
model to be wrong about small constants: a token that lives shorter than the rotation
margin lives `TokenTtl`, so that the clause speaks of the smaller of the two (`Margin`).
The pure decisions (`GatesBounds`: the three bounds are naturals; `FileSystem`: directories lie
in directories, and `Links` names the end of a chain of links): a state holds one question, so
the proofs are about the operators. A first match is the least of a set of places
(`LeastPlace`). A fold is a recursive function over the prefixes whose values exist because
its step keeps to a set (`FoldsTo`), and what holds at each prefix goes up by the least
counterexample (`Upward`). `InputsCorrect` is all of `InputsSound`. For the paths of
`GatesSound`, where no link dangles what does not exist leads nowhere (`FollowGone`), so that resolving the
deepest ancestor that exists resolves all there is (`DeepestIsReal`); for the commands, the stage
that starts at a place of the text is being read until it ends, and is then held in one of the
segments until the last token (`StageHeld`), and its head is the word that stands there
(`WordPlaced`). `GatesLetThrough` is all of `GatesSound`.

## 7. Only model-checked

Liveness (`StopsComplete`, `WaiterServed` in `LimiterServes`, `PassEnds`,
`SupervisorProgress`, `AdaptersProgress`, `ShutdownCompletes` in `StreamSound`, `RpcProgress`
in `RpcSound`, `A2aProgress` in `A2aServed`, `ShutdownResolves` in `EgressSound`,
`TailCatchesUp` in `TailSound`, `EscalationHalts` in `SwarmSound`): it rests on fairness, which the prover does not handle.

Of `RecordsSound`, `RollupAgrees`: sums over folds (section 8); the rest of it is
proved.

`NoRaceOnWholeStars` and the parsers and decoders (`CardsSound`, `TextsSound`, the framing of
`RpcClient`, the folds of `Persistence`) compute over texts of any length with recursive
operators, or with folds whose induction theorems take an operator as a
parameter. The first cannot occur beside a theorem, the second cannot be
instantiated. A recursive function whose steps are all explicit can be reasoned
about from the least counterexample, as `FlowEngineProofs` does for the walk's order,
`FlowPartsProofs` for the digits of a port and `AdapterProofs` for paths and commands.

## 8. Not modelled, and the plan

Without behaviour of their own: string helpers (ids, redaction, prompts,
formatting), the wire format of GraphQL, cryptography, the HTML front end, model
catalogues, the commands that print the result of one query or probe, the echo
adapter and the replay harness, which stand in for a vendor in tests.

`core/composition/src/diff-overlap.ts` is two git listings and their intersection.
Reading it: its header says that both sides of a rename are captured, while
`--name-only -M` lists the new name; it speaks of the integration branch and the code
diffs against `rec.branch`.

The hazards `linear-runtime.ts:779`, `pre-commit.ts:106` and `codex/src/handle.ts:287`
are in section 4 only: what the code does there is the whole story, and no
property of it is left to state. That a death while `schema_lock` is held blocks the database for ever
is in `OneMigrates` as its exception.

Planned:

1. `Persistence`: `RollupAgrees` for any number of events.
