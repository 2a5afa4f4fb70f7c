---------------------------- MODULE CodexHandle ----------------------------
(***************************************************************************)
(* The live handle of the Codex adapter, packages/adapters/codex/src:      *)
(* handle.ts (send, runTurn, interrupt, shutdown), the projection of SDK   *)
(* events in jsonl-projection.ts, the turn framing of CorrelationState     *)
(* (adapters/base/src/correlation.ts) and the gate of                      *)
(* permission-handler.ts.                                                  *)
(*                                                                         *)
(* A handle runs on one event loop: a step is what happens between two     *)
(* awaits.  The SDK stream is external: it yields events in any order the  *)
(* projector accepts, then ends or throws; an aborted one always does.  Of *)
(* an event the model keeps its kind, its turn and, for a tool result, the *)
(* call it is linked to; texts, tokens and timestamps are left out.        *)
(***************************************************************************)
EXTENDS TurnFrame

CONSTANTS
    Items,    \* item ids of the SDK, used again by every stream
    MaxSends, \* bound: user turns sent
    MaxRaw,   \* bound: SDK events in one stream
    MaxInterrupts \* bound: calls of interrupt

ASSUME CodexAssumption == MaxSends \in Nat /\ MaxRaw \in Nat /\ MaxInterrupts \in Nat

VARIABLES
    source,   \* sessionSource: "spawn" or "resume"
    life,     \* "open", "closing" (shutdown awaits the turn), "closed"
    stream,   \* the live runTurn: "none", "opening" (runStreamed), "reading"
    abortSet, \* signal.aborted of the live turn, else of the last one
    frame,    \* CorrelationState and projState: the turn events are put in
    calls,    \* toolCallByItemId: the send of the remembered tool_call, 0: none
    threadId, \* projState.threadId is known
    sessionId,\* handle.sessionId is known
    raws,     \* SDK events of the stream so far; projectedAny: more than none
    sends, interrupts, \* calls of send and of interrupt so far
    begun,    \* history: items started in the live stream, else in the last one
    out,      \* history: what the last step pushed to the queue
    ended,    \* history: turns whose turn_end was pushed
    got,      \* history: of the last send, "nothing", "events" or "tail"
    asked     \* history: an interrupt of an open turn waits for its turn_end or error

sessionVars == <<threadId, sessionId>>
pushVars == <<frame, out, ended, got, asked>>
codexVars == <<source, life, stream, abortSet, calls, sessionVars, raws, sends, interrupts, begun, pushVars>>

-----------------------------------------------------------------------------
(* A batch is a frame with the events a step has pushed so far.            *)

Batch == [frame |-> frame, events |-> <<>>]

SessionStart(b) ==
    Push([b EXCEPT !.frame = [b.frame EXCEPT !.sessionStarted = TRUE]], "session_start")

EnsureSyntheticFrame(b) ==
    IF b.frame.turnOpen THEN b
    ELSE IF b.frame.sessionStarted THEN StartTurn(b)
    ELSE SessionStart(StartTurn(b))

EnqueueError(b) == Push(EnsureSyntheticFrame(b), "error")

EmitSyntheticTurnEnd(b) == UsageCostEnd(EnsureSyntheticFrame(b))

EmitResumeSessionStart(b) == SessionStart(StartTurn(b))

HandleThreadStarted(b) == IF b.frame.sessionStarted THEN b ELSE SessionStart(OpenTurn(b))

HandleTurnCompleted(b) == UsageCostEnd(OpenTurn(b))

HandleTurnFailed(b) == EndTurn(Push(Emit(b, "error"), "turn_end"))

ToolCall(b) == Emit(b, "tool_call")

ParentFor(i) == calls[i]

\* The result of an item and, of a successful file change, the patch.
ToolResult(b, i, patched) ==
    LET result == PushChild(OpenTurn(b), "tool_result", ParentFor(i))
    IN IF patched THEN PushChild(result, "patch_applied", ParentFor(i)) ELSE result

-----------------------------------------------------------------------------

\* The step pushed what b holds; before and waiting are got and asked without it.
Deliver(b, before, waiting) ==
    /\ frame' = b.frame
    /\ out' = b.events
    /\ ended' = ended \cup EndedBy(b.events)
    /\ got' = IF "turn_end" \in KindsOf(b.events) THEN "tail"
              ELSE IF before = "nothing" /\ b.events # <<>> THEN "events"
              ELSE before
    /\ asked' = (waiting /\ KindsOf(b.events) \cap {"turn_end", "error", "session_end"} = {})

Quiet == Deliver(Batch, got, asked)

CodexInit ==
    /\ source \in {"spawn", "resume"}
    /\ life = "open" /\ stream = "none" /\ abortSet = FALSE
    /\ frame = FirstFrame
    /\ calls = [i \in Items |-> 0]
    /\ threadId = (source = "resume") /\ sessionId = (source = "resume")
    /\ raws = 0 /\ sends = 0 /\ interrupts = 0 /\ begun = {}
    /\ out = <<>> /\ ended = {} /\ got = "nothing" /\ asked = FALSE

\* send and runTurn up to its first await.  send throws while a turn is active.
Send ==
    /\ life = "open" /\ stream = "none" /\ sends < MaxSends
    /\ stream' = "opening"
    /\ abortSet' = FALSE
    /\ sends' = sends + 1 /\ raws' = 0 /\ begun' = {}
    /\ Deliver(IF source = "resume" /\ ~frame.sessionStarted THEN EmitResumeSessionStart(Batch) ELSE Batch,
               "nothing", asked)
    /\ UNCHANGED <<source, life, calls, sessionVars, interrupts>>

StreamOpens ==
    /\ stream = "opening"
    /\ stream' = "reading"
    /\ Quiet
    /\ UNCHANGED <<source, life, abortSet, calls, sessionVars, raws, sends, interrupts, begun>>

\* One turn of the for await loop: b is what handleRawEvent pushed, thread
\* whether the thread is known after it.  A handle that shuts down leaves the loop.
Read(b, thread) ==
    /\ stream = "reading" /\ raws < MaxRaw
    /\ raws' = raws + 1
    /\ threadId' = thread
    /\ IF life = "open"
         THEN UNCHANGED <<stream, sessionId>>
         ELSE stream' = "none" /\ sessionId' = (sessionId \/ thread)
    /\ Deliver(b, got, asked)
    /\ UNCHANGED <<source, life, sends, interrupts>>

ThreadStarted ==
    Read(HandleThreadStarted(Batch), TRUE) /\ UNCHANGED <<abortSet, calls, begun>>

TurnStarted ==
    Read(OpenTurn(Batch), threadId) /\ UNCHANGED <<abortSet, calls, begun>>

TurnCompleted ==
    Read(HandleTurnCompleted(Batch), threadId) /\ UNCHANGED <<abortSet, calls, begun>>

TurnFailed ==
    Read(HandleTurnFailed(Batch), threadId) /\ UNCHANGED <<abortSet, calls, begun>>

\* An item that is no tool, or the error of the thread: one event.
NoteItem(kind) ==
    Read(Emit(Batch, kind), threadId) /\ UNCHANGED <<abortSet, calls, begun>>

\* item.updated and unknown events are dropped.
ItemUpdated ==
    Read(Batch, threadId) /\ UNCHANGED <<abortSet, calls, begun>>

\* Mutant: the first call with this item id stays remembered.
RememberFirst(i) == calls' = [calls EXCEPT ![i] = IF @ = 0 THEN sends ELSE @]

RememberToolCall(i) == calls' = [calls EXCEPT ![i] = sends]

\* path-scope and the shell gate: what they decide about a command or a path is
\* left open here.
decidePermission == {"allowed", "denied"}

\* A denied item is projected like an allowed one; then an error, and abort().
ToolStarted(i) ==
    /\ \E decision \in decidePermission :
         /\ Read(IF decision = "denied" THEN EnqueueError(ToolCall(Batch)) ELSE ToolCall(Batch), threadId)
         /\ abortSet' = (abortSet \/ decision = "denied")
    /\ RememberToolCall(i)
    /\ begun' = begun \cup {i}

\* The item may have been started in this stream, in an earlier one, or never.
ToolCompleted(i) ==
    /\ \E patched \in BOOLEAN : Read(ToolResult(Batch, i, patched), threadId)
    /\ UNCHANGED <<abortSet, calls, begun>>

NeedsSyntheticTail(b) == b.frame.turnOpen \/ raws = 0

\* The stream is exhausted: runTurn after its loop, and its finally.
StreamEnds ==
    /\ stream = "reading"
    /\ stream' = "none"
    /\ sessionId' = (sessionId \/ threadId)
    /\ LET b == IF raws = 0 /\ life = "open" /\ ~abortSet THEN EnqueueError(Batch) ELSE Batch
       IN Deliver(IF life = "open" /\ NeedsSyntheticTail(b) THEN EmitSyntheticTurnEnd(b) ELSE b, got, asked)
    /\ UNCHANGED <<source, life, abortSet, calls, threadId, raws, sends, interrupts, begun>>

\* runStreamed or the stream throws: the catch of runTurn, and its finally.
StreamThrows ==
    /\ stream \in {"opening", "reading"}
    /\ stream' = "none"
    /\ IF abortSet \/ life # "open"
         THEN Quiet
         ELSE Deliver(EmitSyntheticTurnEnd(EnqueueError(Batch)), got, asked)
    /\ UNCHANGED <<source, life, abortSet, calls, sessionVars, raws, sends, interrupts, begun>>

\* Without a live stream the turn is ended here, or a turn of its own made for
\* the event; with one the stream is aborted and runTurn left to end the turn.
Interrupt ==
    /\ life = "open"
    /\ interrupts < MaxInterrupts
    /\ interrupts' = interrupts + 1
    /\ abortSet' = (abortSet \/ stream # "none")
    /\ Deliver(IF stream = "none"
                 THEN EmitSyntheticTurnEnd(Emit(Batch, "interrupt"))
                 ELSE Push(Batch, "interrupt"),
               got, asked \/ frame.turnOpen)
    /\ UNCHANGED <<source, life, stream, calls, sessionVars, raws, sends, begun>>

EndSession == EndTurn(Emit(Batch, "session_end"))

\* shutdown with a live turn: abort, then wait for runTurn.
ShutdownLive ==
    /\ life = "open" /\ stream # "none"
    /\ life' = "closing"
    /\ abortSet' = TRUE
    /\ Quiet
    /\ UNCHANGED <<source, stream, calls, sessionVars, raws, sends, interrupts, begun>>

\* shutdown from there on, or at once without a turn: session_end, queue.close().
ShutdownCloses ==
    /\ life \in {"open", "closing"} /\ stream = "none"
    /\ life' = "closed"
    /\ Deliver(EndSession, got, asked)
    /\ UNCHANGED <<source, stream, abortSet, calls, sessionVars, raws, sends, interrupts, begun>>

RawEvent ==
    \/ ThreadStarted \/ TurnStarted \/ TurnCompleted \/ TurnFailed \/ ItemUpdated
    \/ \E kind \in {"message", "error"} : NoteItem(kind)
    \/ \E i \in Items : ToolStarted(i) \/ ToolCompleted(i)

CodexNext ==
    \/ Send \/ StreamOpens \/ RawEvent \/ StreamEnds \/ StreamThrows
    \/ Interrupt \/ ShutdownLive \/ ShutdownCloses

CodexSpec == CodexInit /\ [][CodexNext]_codexVars

\* The SDK ends a stream it was told to abort, and shutdown goes on after its await.
CodexFairness ==
    /\ WF_codexVars(StreamOpens)
    /\ WF_codexVars(abortSet /\ (StreamThrows \/ StreamEnds))
    /\ WF_codexVars(life = "closing" /\ ShutdownCloses)

FairCodexSpec == CodexSpec /\ CodexFairness

-----------------------------------------------------------------------------

CodexTypeOK ==
    /\ source \in {"spawn", "resume"}
    /\ life \in {"open", "closing", "closed"}
    /\ stream \in {"none", "opening", "reading"}
    /\ abortSet \in BOOLEAN /\ threadId \in BOOLEAN /\ sessionId \in BOOLEAN /\ asked \in BOOLEAN
    /\ frame \in Frame
    /\ calls \in [Items -> 0..MaxSends]
    /\ raws \in 0..MaxRaw /\ sends \in 0..MaxSends /\ interrupts \in 0..MaxInterrupts /\ begun \subseteq Items
    /\ \A k \in DOMAIN out : out[k] \in Event
    /\ ended \subseteq 1..frame.turn
    /\ got \in {"nothing", "events", "tail"}

\* The projector and CorrelationState agree on whether a turn is open, so the
\* catches handle.ts calls unreachable are; and between two sends a turn is
\* open only because the stream that filled it was aborted.
OpenOnlyAfterAbort ==
    /\ frame.turnOpen <=> CanEnvelope(frame)
    /\ stream = "none" /\ life = "open" /\ frame.turnOpen => abortSet

\* checkOrderingInvariants: once turn_end is pushed no event joins that turn,
\* across sends, interrupts, synthetic tails and shutdown; and session_start
\* is pushed once, whoever of the three that announce it comes first.
StreamWellFormed ==
    [][/\ \A k \in DOMAIN out' :
            /\ out'[k].turn \notin ended
            /\ \A n \in 1..(k - 1) : out'[n].kind = "turn_end" => out'[n].turn # out'[k].turn
            /\ out'[k].kind = "session_start" => ~frame.sessionStarted
       /\ frame.sessionStarted => frame'.sessionStarted]_codexVars

\* A send whose stream ends or fails without being aborted is answered by a
\* turn_end, so the consumer's loop goes on; the exception is a stream of
\* events that all project to nothing.
TailPushed ==
    [][stream # "none" /\ stream' = "none" /\ ~abortSet' /\ life = "open" =>
         got' = "tail" \/ (raws' > 0 /\ got' = "nothing")]_codexVars

\* A tool_result is linked to the tool_call of its own stream, although item ids
\* return in later turns.  The exception: of an item this stream never announced the
\* result names no call, or one of an earlier turn that had the same item id, although
\* toolCallIdFor says it synthesizes a fresh id; never a call of this turn.
ResultLinked ==
    [][\A i \in Items : ToolCompleted(i) =>
         \A k \in DOMAIN out' :
           out'[k].kind \in {"tool_result", "patch_applied"} =>
             IF i \in begun THEN out'[k].parent = sends ELSE out'[k].parent < sends]_codexVars

\* shutdown closes the queue, whatever the stream does while it waits.
ShutdownCompletes == life = "closing" ~> life = "closed"

\* PLAN.md, acceptance table: an interrupt() of a running turn is followed by
\* its turn_end or an error.
InterruptAnswered == asked ~> ~asked

\* The event stream of a Codex handle: turns open and close in order, a
\* tool_result names the tool_call its own stream announced, a stream that broke off
\* gets its synthetic tail, and shutdown closes it in the end.
StreamSound ==
    /\ []CodexTypeOK
    /\ StreamWellFormed /\ TailPushed /\ ResultLinked
    /\ ShutdownCompletes
=============================================================================
