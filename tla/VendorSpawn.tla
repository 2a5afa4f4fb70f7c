---------------------------- MODULE VendorSpawn ----------------------------
(***************************************************************************)
(* How an adapter brings a vendor's process to life and takes it down      *)
(* again: makeHandle of packages/adapters/*/src/index.ts, the drivers they *)
(* create (driver.ts) and the stdio transport of protocol/acp.  A spawn is *)
(* a row of stages, each an await that may fail; what a failure unwinds    *)
(* depends on the stage and the vendor.  Taking the process down is a      *)
(* dialogue of signals and timeouts with a process that may ignore all but *)
(* SIGKILL.                                                                *)
(***************************************************************************)
EXTENDS Integers, Sequences

CONSTANT Spawners  \* the adapters of the instance

VARIABLES
    spVendor,  \* whose spawn it is, "none" before the first
    spAttach,  \* opencode: attachBaseUrl is set, the server is not ours
    spStage,   \* position in Stages(spVendor)
    spState,   \* "idle", "starting", "unwinding", "failed", "live", "stopping", "stopped"
    spProc,    \* "none", "running", "gone"
    spDeaf,    \* of the process: with "signals" it ignores the end of its stdin and
               \* SIGTERM, with "stdin" it no longer reads what fills its pipe
    spReap,    \* how far the taking down is: "no", "ending", "eof", "term", "kill", "done"
    spSignals  \* the signals sent

spawnVars == <<spVendor, spAttach, spStage, spState, spProc, spDeaf, spReap, spSignals>>

SpawnInit ==
    /\ spVendor = "none" /\ spAttach = FALSE /\ spStage = 0 /\ spState = "idle"
    /\ spProc = "none" /\ spDeaf = {} /\ spReap = "no" /\ spSignals = {}

-----------------------------------------------------------------------------
(* The stages of each driver's creation, and of makeHandle around it. *)

GeminiDriver == <<"resolve", "process", "client">>
CursorDriver == <<"resolve", "process", "client">>
PiDriver == <<"resolve", "process", "client", "handshake">>
AmpDriver == <<"resolve", "process">>
OpencodeDriver == <<"process">>

GeminiStages == GeminiDriver \o <<"initialize", "auth", "session", "handle">>
CursorStages == CursorDriver \o <<"initialize", "auth", "session", "handle">>
PiStages == PiDriver \o <<"session", "handle">>
AmpStages == <<"auth">> \o AmpDriver \o <<"handle">>
OpencodeStages == OpencodeDriver \o <<"auth", "session", "handle">>
\* Claude and Codex start a process per prompt, in their SDK, and not here.
ClaudeStages == <<"options", "driver", "handle">>
CodexStages == <<"auth", "thread", "handle">>

Stages(v) ==
    CASE v = "gemini" -> GeminiStages
      [] v = "cursor" -> CursorStages
      [] v = "pi" -> PiStages
      [] v = "amp" -> AmpStages
      [] v = "opencode" -> OpencodeStages
      [] v = "claude" -> ClaudeStages
      [] v = "codex" -> CodexStages

Stage == Stages(spVendor)[spStage]

\* What the constructor and the check of runId do cannot fail: the handle takes
\* its runId from the options it is compared with.  The constructor of Claude's
\* options fails on nothing either.
Failing == {"resolve", "process", "client", "initialize", "handshake", "auth", "session", "driver", "thread"}

\* spawn and resume: the two take the same stages.
Begin(v) ==
    /\ spState = "idle"
    /\ spVendor' = v /\ spState' = "starting" /\ spStage' = 1
    /\ spAttach' \in IF v = "opencode" THEN BOOLEAN ELSE {FALSE}
    /\ UNCHANGED <<spProc, spDeaf, spReap, spSignals>>

\* waitForHandshake settles once: well by the ready event or the grace timer, badly
\* by the hard cap or the exit of the process.
Handshake == [ready |-> TRUE, grace |-> TRUE, cap |-> FALSE, exited |-> FALSE]
HandshakeMay(resolve) ==
    \E how \in DOMAIN Handshake :
        Handshake[how] = resolve /\ (how = "exited" => spProc = "gone")

\* The stage is through; the last one returns the handle.
StageDone ==
    /\ spState = "starting"
    /\ Stage = "handshake" => HandshakeMay(TRUE)
    /\ IF Stage = "process" /\ ~spAttach THEN spProc' = "running" /\ spDeaf' \in SUBSET {"signals", "stdin"}
                                          ELSE UNCHANGED <<spProc, spDeaf>>
    /\ IF spStage = Len(Stages(spVendor)) THEN spState' = "live" /\ UNCHANGED spStage
                                          ELSE spStage' = spStage + 1 /\ UNCHANGED spState
    /\ UNCHANGED <<spVendor, spAttach, spReap, spSignals>>

\* The first step of taking the process down.  transport.close and the drivers of pi
\* and amp await the end of stdin, without a timeout; what pi's driver unwinds itself
\* is signalled at once; the SDK's server.close signals and does not wait.
AwaitStdin == spReap' = "ending" /\ UNCHANGED spSignals
Reap == spReap' = "term" /\ spSignals' = {"SIGTERM"}
AcpClose == AwaitStdin
PiClose == IF spState = "starting" /\ Stage \in {"client", "handshake"} THEN Reap ELSE AwaitStdin
AmpClose == AwaitStdin
OpencodeClose ==
    /\ spReap' = "done"
    /\ spSignals' = IF spAttach THEN {} ELSE {"SIGTERM"}
NothingToClose == spReap' = "done" /\ UNCHANGED spSignals

CloseDriver ==
    CASE spVendor \in {"gemini", "cursor"} -> AcpClose
      [] spVendor = "pi" -> PiClose
      [] spVendor = "amp" -> AmpClose
      [] spVendor = "opencode" -> OpencodeClose
      [] spVendor \in {"claude", "codex"} -> NothingToClose

\* Mutant: what fails inside the driver's own constructor is not taken down.
StageFailsBare ==
    /\ spState = "starting" /\ Stage \in Failing
    /\ IF spProc = "none" \/ Stage \in {"client", "handshake"}
         THEN spState' = "failed" /\ UNCHANGED <<spReap, spSignals>>
         ELSE spState' = "unwinding" /\ CloseDriver
    /\ UNCHANGED <<spVendor, spAttach, spStage, spProc, spDeaf>>

\* The stage throws.  Without a process there is nothing to take down; a failure of
\* the client or the handshake is the driver's to clean up, a later one makeHandle's.
StageFails ==
    /\ spState = "starting" /\ Stage \in Failing
    /\ Stage = "handshake" => HandshakeMay(FALSE)
    /\ IF spProc = "none" THEN spState' = "failed" /\ UNCHANGED <<spReap, spSignals>>
                          ELSE spState' = "unwinding" /\ CloseDriver
    /\ UNCHANGED <<spVendor, spAttach, spStage, spProc, spDeaf>>

\* The handle's shutdown closes the driver, which closes once.
Stop ==
    /\ spState = "live"
    /\ spState' = "stopping" /\ CloseDriver
    /\ UNCHANGED <<spVendor, spAttach, spStage, spProc, spDeaf>>

\* stdin.end() settled, with or without an error: amp goes on to wait for the process
\* to leave by itself, the others signal it.
StdinEnded ==
    /\ spReap = "ending" /\ ("stdin" \in spDeaf => spProc # "running")
    /\ IF spVendor = "amp" THEN spReap' = "eof" /\ UNCHANGED spSignals ELSE Reap
    /\ UNCHANGED <<spVendor, spAttach, spStage, spState, spProc, spDeaf>>

\* The process ends: by itself, or because it was asked in a way it cannot refuse.
Exits ==
    /\ spProc = "running"
    /\ "signals" \notin spDeaf \/ "SIGKILL" \in spSignals
    /\ spProc' = "gone"
    /\ UNCHANGED <<spVendor, spAttach, spStage, spState, spDeaf, spReap, spSignals>>

\* The timeout beside proc.exited passed.
Kill == spReap' = "kill" /\ spSignals' = spSignals \cup {"SIGKILL"}

\* amp: doKill sends one signal and then remembers that it killed, so that the
\* second call of close, for SIGKILL, returns at once.
AmpTimeout ==
    \/ spReap = "eof" /\ spReap' = "term" /\ spSignals' = spSignals \cup {"SIGTERM"}
    \/ spReap = "term" /\ spReap' = "done" /\ UNCHANGED spSignals

ReapTimeout ==
    /\ spProc = "running"
    /\ \/ spVendor \in {"gemini", "cursor", "pi"} /\ spReap = "term" /\ Kill
       \/ spVendor = "amp" /\ AmpTimeout
    /\ UNCHANGED <<spVendor, spAttach, spStage, spState, spProc, spDeaf>>

\* proc.exited resolved.
ReapExited ==
    /\ spReap \in {"eof", "term", "kill"} /\ spProc # "running"
    /\ spReap' = "done"
    /\ UNCHANGED <<spVendor, spAttach, spStage, spState, spProc, spDeaf, spSignals>>

\* close returned: makeHandle throws what it caught, or shutdown is over.
CloseReturns ==
    /\ spReap = "done" /\ spState \in {"unwinding", "stopping"}
    /\ spState' = IF spState = "unwinding" THEN "failed" ELSE "stopped"
    /\ UNCHANGED <<spVendor, spAttach, spStage, spProc, spDeaf, spReap, spSignals>>

SpawnNext ==
    \/ \E v \in Spawners : Begin(v)
    \/ StageDone \/ StageFails \/ Stop \/ StdinEnded
    \/ Exits \/ ReapTimeout \/ ReapExited \/ CloseReturns

SpawnSpec == SpawnInit /\ [][SpawnNext]_spawnVars

\* Timers fire, promises settle, and a process that may end on a signal does.
SpawnFairness ==
    /\ WF_spawnVars(StdinEnded) /\ WF_spawnVars(ReapTimeout) /\ WF_spawnVars(ReapExited) /\ WF_spawnVars(CloseReturns)
    /\ WF_spawnVars(spSignals # {} /\ Exits)

-----------------------------------------------------------------------------

\* The vendors whose driver waits for the process it ends.
Awaiting == {"gemini", "cursor", "pi"}

\* No spawn that failed, at whatever stage, and no shutdown leaves the vendor's
\* process behind: when the promise settles the process is gone, for the drivers
\* that await it even if it ignores SIGTERM.
NoOrphan ==
    spState \in {"failed", "stopped"} /\ spVendor \in Awaiting => spProc # "running"

\* The end of stdin waits for a process that does not read it, and for no timer.
Clogged == spReap = "ending" /\ "stdin" \in spDeaf /\ spProc = "running"

\* The promise of a spawn or a shutdown that tears down waits to settle, other than for
\* the end of a clogged stdin, or the process it leaves, which a signal may end, waits
\* to be gone.
SpawnOwed ==
    \/ spState \in {"unwinding", "stopping"} /\ ~Clogged
    \/ spState \in {"failed", "stopped"} /\ "signals" \notin spDeaf /\ spProc = "running"
=============================================================================
