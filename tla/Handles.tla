------------------------------ MODULE Handles ------------------------------
(***************************************************************************)
(* The handles of all adapters but Codex, as one specification: a handle   *)
(* of one vendor, its callers (send, interrupt, setModel, shutdown), its   *)
(* watchdog and the vendor's events, in any order.  OpenCode and Claude,   *)
(* which do not extend AdapterHandleBase and keep its fields themselves,   *)
(* each over the SDK of its vendor, come first.                            *)
(***************************************************************************)
EXTENDS SharedHandles

-----------------------------------------------------------------------------
(* The handle of the OpenCode adapter, packages/adapters/opencode/src/     *)
(* handle.ts and projection.ts.  It keeps the fields of AdapterHandleBase  *)
(* without extending it: its forceTurnEnd returns at once where no turn is *)
(* open.  One message of the vendor is modelled: held says that parts of   *)
(* it wait in pendingParts until its role is known.                        *)

OpencodeSend == vendor = "opencode" /\ SendPrompt

OpencodePrompted(n) == vendor = "opencode" /\ PromptResolved(n, Batch, FALSE)

\* forceTurnEnd: without an open turn not even turnActive is reset.
OpencodeForceTurnEnd(b) ==
    /\ Deliver(forceTurnEnd(b))
    /\ IF b.frame.turnOpen THEN Release ELSE UNCHANGED <<turnActive, armed>>

\* interrupt after its await of session.abort.
OpencodeInterruptReturns ==
    /\ vendor = "opencode" /\ cancelling > 0
    /\ cancelling' = cancelling - 1
    /\ OpencodeForceTurnEnd(Batch)
    /\ UNCHANGED <<vendor, life, prompts, setting, stream, terminal, projVars, boundVars>>

\* armWatchdog's timer.
OpencodeWatchdogFires ==
    /\ vendor = "opencode" /\ armed /\ armed' = FALSE
    /\ IF life = "open" /\ turnActive
         THEN /\ Deliver(forceTurnEnd(Batch))
              /\ turnActive' = (turnActive /\ ~frame.turnOpen)
         ELSE UNCHANGED turnActive /\ Nothing
    /\ UNCHANGED <<vendor, life, stream, terminal, pendingVars, projVars, boundVars>>

OpencodeReceive(b) == vendor = "opencode" /\ stream = "reading" /\ Receive(b)

\* session.created and session.updated.
SessionInfo ==
    /\ OpencodeReceive(IF frame.sessionStarted THEN Batch
                       ELSE LET b == OpenTurn(Batch)
                            IN Push([b EXCEPT !.frame.sessionStarted = TRUE], "session_start"))
    /\ UNCHANGED <<turnActive, armed, projVars>>

OpencodeUsageAndCost(b) == Push(Push(b, "usage"), "cost")

\* session.idle, of this session or another: the turn of this one ends, and
\* turnActive is reset either way.
SessionIdle(own) ==
    /\ OpencodeReceive(IF own /\ frame.turnOpen
                         THEN EndTurn(Push(OpencodeUsageAndCost(Batch), "turn_end"))
                         ELSE Batch)
    /\ Release
    /\ UNCHANGED projVars

\* session.error: an error in a turn that stays open, and turnActive is reset.
SessionError(own) ==
    /\ OpencodeReceive(IF own THEN Emit(Batch, "error") ELSE Batch)
    /\ Release
    /\ UNCHANGED projVars

\* message.updated: the parts of a user message are dropped, an assistant's released.
MessageUpdated(r) ==
    /\ role \in {"unknown", r} /\ role' = r
    /\ OpencodeReceive(IF r = "assistant" /\ held THEN Emit(Batch, "message") ELSE Batch)
    /\ held' = FALSE
    /\ UNCHANGED <<turnActive, armed, calls, results>>

\* A text or reasoning part: dropped, kept back or projected, by its message's role.
TextPart ==
    /\ \E b \in {Emit(Batch, "message"), OpenTurn(Batch)} :
         OpencodeReceive(IF role = "assistant" THEN b ELSE Batch)
    /\ held' = (held \/ role = "unknown")
    /\ UNCHANGED <<turnActive, armed, calls, results, role>>

\* Parts that do not wait for the role: a patch, or one that only opens the turn.
OtherPart ==
    /\ \E b \in {Emit(Batch, "patch_applied"), OpenTurn(Batch)} :
         OpencodeReceive(IF role = "user" THEN Batch ELSE b)
    /\ UNCHANGED <<turnActive, armed, projVars>>

\* decideOpencodePermission; see VendorGates.
OpencodeDecisions == {"denied", "allowed"}

\* A tool part: the call once and, when it is over, the result once.  A denied
\* one that is pending or running is projected, reported and its turn forced to end.
ToolPart(t, over) ==
    LET b == IF role = "user" THEN Batch ELSE ToolCallOf(OpenTurn(Batch), t)
        done == over /\ role # "user"
    IN /\ \E decision \in OpencodeDecisions :
            IF decision = "denied" /\ ~over
              THEN /\ OpencodeReceive(forceTurnEnd(Push(b, "error")))
                   /\ IF b.frame.turnOpen THEN Release ELSE UNCHANGED <<turnActive, armed>>
              ELSE /\ OpencodeReceive(IF done THEN ToolResultOf(b, t, {t}) ELSE b)
                   /\ UNCHANGED <<turnActive, armed>>
       /\ calls' = IF role = "user" THEN calls ELSE calls \cup {t}
       /\ results' = IF done THEN results \cup {t} ELSE results
       /\ UNCHANGED <<held, role>>

\* permission.updated and permission.replied.
PermissionEvent ==
    OpencodeReceive(Emit(Batch, "permission_request")) /\ UNCHANGED <<turnActive, armed, projVars>>

\* consumeEventStream throws, or the server closed it.
consumeEventStream ==
    /\ vendor = "opencode" /\ stream = "reading" /\ stream' = "over"
    /\ \E failed \in BOOLEAN :
         Deliver(IF failed /\ life = "open" THEN ReportError(Batch) ELSE Batch)
    /\ UNCHANGED <<vendor, life, turnActive, armed, terminal, pendingVars, projVars, boundVars>>

\* shutdown up to the close of the driver.
OpencodeShutdown == vendor = "opencode" /\ runSharedShutdown

\* handleIncomingEvent.
OpencodeEvent ==
    \/ SessionInfo \/ TextPart \/ OtherPart \/ PermissionEvent
    \/ \E own \in BOOLEAN : SessionIdle(own) \/ SessionError(own)
    \/ \E r \in {"user", "assistant"} : MessageUpdated(r)
    \/ \E t \in Tools, over \in BOOLEAN : ToolPart(t, over)

OpencodeNext ==
    \/ OpencodeSend \/ OpencodeEvent \/ OpencodeInterruptReturns \/ OpencodeWatchdogFires
    \/ consumeEventStream \/ OpencodeShutdown
    \/ \E n \in prompts : OpencodePrompted(n)

-----------------------------------------------------------------------------
(* The handle of the Claude adapter, packages/adapters/claude/src/         *)
(* handle.ts and the projections of hooks.ts.  It has no watchdog: a turn  *)
(* lasts as long as the SDK's stream, which drainTurn reads.  The turn of  *)
(* CorrelationState ends with the stream, not with the turn_end event that *)
(* the SDK's result message is projected to.                               *)

\* emitSessionStartIfNeeded.
EmitSessionStart(b) ==
    IF b.frame.sessionStarted THEN b
    ELSE Push([b EXCEPT !.frame.sessionStarted = TRUE], "session_start")

ClaudeSend ==
    /\ vendor = "claude" /\ life = "open" /\ ~turnActive /\ sends < MaxSends
    /\ turnActive' = TRUE
    /\ stream' = "starting" /\ terminal' = FALSE
    /\ sends' = sends + 1
    /\ DeliverFrom(EmitSessionStart(StartTurn(Batch)), "nothing")
    /\ UNCHANGED <<vendor, life, armed, pendingVars, projVars, interrupts, raws>>

\* drainTurn up to its loop: startQuery or sendOnSession answered.
DrainStarts ==
    /\ vendor = "claude" /\ stream = "starting" /\ stream' = "reading"
    /\ Nothing
    /\ UNCHANGED <<vendor, life, turnActive, armed, terminal, pendingVars, projVars, boundVars>>

\* handleDrainError: startQuery failed.
handleDrainError ==
    /\ vendor = "claude" /\ stream = "starting" /\ stream' = "none"
    /\ IF life = "open"
         THEN Deliver(EndTurn(Push(Push(Batch, "error"), "turn_end"))) /\ turnActive' = FALSE
         ELSE Nothing /\ UNCHANGED turnActive
    /\ UNCHANGED <<vendor, life, armed, terminal, pendingVars, projVars, boundVars>>

\* One message of the loop; a handle that was shut down leaves it instead.
ClaudeReceive(b) == vendor = "claude" /\ stream = "reading" /\ Receive(b)

\* A message without a projection, a rate limit, a text, a thought or a delta.
ClaudeNote ==
    /\ \E b \in {Batch, Push(Batch, "rate_limit"), Push(Batch, "message")} : ClaudeReceive(b)
    /\ UNCHANGED <<turnActive, armed, projVars>>

\* A tool_use block; it is not remembered as emitted, only as a parent.
ClaudeToolUse(t) ==
    /\ ClaudeReceive(PushChild(Batch, "tool_call", t))
    /\ calls' = calls \cup {t}
    /\ UNCHANGED <<turnActive, armed, results, held, role>>

ClaudeToolResult(t) ==
    /\ ClaudeReceive(PushChild(Batch, "tool_result", IF t \in calls THEN t ELSE 0))
    /\ UNCHANGED <<turnActive, armed, projVars>>

\* The result message: usage if it has one, cost, the error of a failed turn, turn_end.
ClaudeResult ==
    /\ vendor = "claude" /\ stream = "reading" /\ life = "open" /\ raws < MaxRaw
    /\ raws' = raws + 1 /\ terminal' = TRUE
    /\ \E usage \in BOOLEAN, failed \in BOOLEAN :
         LET b == Push(IF usage THEN Push(Batch, "usage") ELSE Batch, "cost")
         IN Deliver(Push(IF failed THEN Push(b, "error") ELSE b, "turn_end"))
    /\ UNCHANGED <<vendor, life, turnActive, armed, stream, pendingVars, projVars, sends, interrupts>>

\* drainTurn after its loop, for a stream that ended, broke off or threw.  A
\* stream that throws after shutdown ends in handleDrainError, which returns.
DrainEnds(threw) ==
    /\ vendor = "claude" /\ stream = "reading" /\ stream' = "none"
    /\ LET b == IF threw THEN Push(Batch, "error") ELSE Batch
       IN Deliver(EndTurn(IF terminal \/ life # "open" THEN b ELSE Push(b, "turn_end")))
    /\ turnActive' = (turnActive /\ threw /\ life # "open")
    /\ UNCHANGED <<vendor, life, armed, terminal, pendingVars, projVars, boundVars>>

\* projectHook: Stop is a checkpoint, and outside a turn it throws to its caller.
projectHook ==
    /\ vendor = "claude"
    /\ Receive(Push(Batch, "checkpoint"))
    /\ UNCHANGED <<turnActive, armed, projVars>>

\* interrupt: in the open turn, which the stream is left to end, or a turn of its own.
ClaudeInterrupt ==
    /\ vendor = "claude" /\ life = "open" /\ interrupts < MaxInterrupts
    /\ interrupts' = interrupts + 1
    /\ Deliver(IF CanEnvelope(frame)
                 THEN Push(Batch, "interrupt")
                 ELSE EndTurn(Push(Push(StartTurn(Batch), "interrupt"), "turn_end")))
    /\ UNCHANGED <<vendor, life, turnActive, armed, stream, terminal, pendingVars, projVars, sends, raws>>

\* shutdown awaits nothing: the queue is closed at once.
ClaudeShutdown ==
    /\ vendor = "claude" /\ life = "open" /\ life' = "closed"
    /\ Deliver(EndTurn(Push(IF turnActive THEN Batch ELSE StartTurn(Batch), "session_end")))
    /\ UNCHANGED <<vendor, turnActive, armed, stream, terminal, pendingVars, projVars, boundVars>>

\* projectClaudeMessage.
ClaudeMessage ==
    \/ ClaudeNote \/ ClaudeResult
    \/ \E t \in Tools : ClaudeToolUse(t) \/ ClaudeToolResult(t)

ClaudeNext ==
    \/ ClaudeSend \/ DrainStarts \/ handleDrainError \/ ClaudeMessage
    \/ \E threw \in BOOLEAN : DrainEnds(threw)
    \/ projectHook \/ ClaudeInterrupt \/ ClaudeShutdown

-----------------------------------------------------------------------------
(* Every handle.                                                           *)

\* interrupt, shutdown, the watchdog and a failed prompt, as AdapterHandleBase has them.
SharedNext ==
    /\ vendor \in Shared
    /\ \/ doInterrupt \/ InterruptReturns \/ WatchdogFires \/ runSharedShutdown
       \/ runShutdownSequence \/ SetModelReturns

HandleNext ==
    \/ SharedNext \/ GeminiNext \/ CursorNext \/ PiNext \/ AmpNext \/ OpencodeNext \/ ClaudeNext
    \/ vendor # "claude" /\ \E n \in prompts : PromptRejected(n)
    \/ vendor = "opencode" /\ (doInterrupt \/ runShutdownSequence)

\* A running timer fires, and shutdown goes on after its awaits, each of which
\* has a timeout of its own.
HandleFairness ==
    /\ WF_handleVars(WatchdogFires \/ OpencodeWatchdogFires)
    /\ WF_handleVars(runShutdownSequence)

HandleSpec == HandleInit /\ [][HandleNext]_handleVars

FairHandleSpec == HandleSpec /\ HandleFairness

-----------------------------------------------------------------------------

\* Every variable of a handle has its type; prompts and cancels belong to calls made.
HandleTypeOK ==
    /\ vendor \in Vendors
    /\ life \in {"open", "closing", "closed"}
    /\ frame \in Frame
    /\ turnActive \in BOOLEAN /\ armed \in BOOLEAN /\ setting \in BOOLEAN /\ held \in BOOLEAN /\ terminal \in BOOLEAN
    /\ prompts \subseteq 1..sends /\ cancelling \in 0..interrupts
    /\ stream \in {"none", "starting", "reading", "over"} /\ role \in {"unknown", "user", "assistant"}
    /\ calls \subseteq Tools /\ results \subseteq Tools
    /\ sends \in 0..MaxSends /\ interrupts \in 0..MaxInterrupts /\ raws \in 0..MaxRaw
    /\ \A k \in DOMAIN out : out[k] \in Event

\* While a send of a shared handle is active its watchdog runs, whatever
\* answers, interrupts and late events of earlier sends come in between: no
\* path clears the timer and leaves turnActive set.
ActiveIsWatched == vendor \in Shared /\ life = "open" /\ turnActive => armed

\* checkOrderingInvariants: after a turn_end no event joins its turn, and the
\* projector and CorrelationState agree on whether a turn is open.  Claude's
\* turn outlives its turn_end and is left out.
TurnsWellFormed ==
    [][/\ frame'.turnOpen <=> CanEnvelope(frame')
       /\ vendor # "claude" =>
            \A k \in DOMAIN out' :
              /\ out'[k].turn \notin ended
              /\ \A n \in 1..(k - 1) : out'[n].kind = "turn_end" => out'[n].turn # out'[k].turn]_handleVars

\* A shared handle gives a send back only with the end of its turn or of the
\* session, unless the vendor was silent all along.
ReleasedWithTail ==
    [][(vendor \in Shared /\ life = "open" /\ turnActive /\ ~turnActive') =>
         got' \in {"tail", "nothing"}]_handleVars

\* After the session_end of shutdown late answers, cancels and events push
\* nothing; only a setModel that was under way reports its failure, in a turn it
\* opens and that an interrupt under way may then end.
QuietAfterEnd ==
    [][life # "open" /\ out' # <<>> => (setting /\ ~setting') \/ frame.turnOpen]_handleVars

\* A tool_result is linked to a tool_call that was pushed before it; Amp, which
\* drops the calls behind a denied one after marking them, is left out.
ResultAfterCall ==
    [][vendor # "amp" =>
         \A k \in DOMAIN out' :
           out'[k].kind = "tool_result" /\ out'[k].parent # 0 => out'[k].parent \in called']_handleVars

\* A send of a shared handle waits for its end, or a shutdown for the queue to close.
HandleOwed == life = "closing" \/ (vendor \in Shared /\ life = "open" /\ turnActive)

\* opencode/src/handle.ts: "if promptTimeoutMs elapses without a terminal event
\* the handle aborts the session and emits a synthetic turn_end", so that an
\* active send is given back.
WatchdogReleases ==
    (vendor = "opencode" /\ life = "open" /\ turnActive) ~> (life # "open" \/ ~turnActive)

\* The event stream of every handle: turns open and close in order, nothing
\* follows session_end but the report of a setModel under way, and a
\* tool_result comes after its tool_call.
TurnsSound == []HandleTypeOK /\ TurnsWellFormed /\ QuietAfterEnd /\ ResultAfterCall

\* An active turn of the shared handle is under a watchdog, and releasing one
\* leaves its error and turn_end in the stream.
ReleaseSound == []ActiveIsWatched /\ ReleasedWithTail
=============================================================================
