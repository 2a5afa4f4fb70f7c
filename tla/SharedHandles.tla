--------------------------- MODULE SharedHandles ----------------------------
(***************************************************************************)
(* The handles that extend AdapterHandleBase: Gemini and Cursor, which     *)
(* speak ACP, Pi and Amp.  Each brings its sends, its setModel and the     *)
(* projection of its vendor's events.                                      *)
(***************************************************************************)
EXTENDS HandleBase

-----------------------------------------------------------------------------
(* The handles of the Gemini and Cursor adapters, which speak ACP:         *)
(* packages/adapters/{gemini,cursor}/src/{handle,projection}.ts.  The two  *)
(* differ in setModel, which Gemini asks the vendor about and Cursor keeps *)
(* to itself, and in the update kinds they ignore.                         *)

\* What extractTextFromContent and extractPlanText find in an update: text or none.
GeminiText == BOOLEAN
CursorText == BOOLEAN

\* onPromptResult: where no turn is open the first envelope throws and
\* nothing is pushed.
OnPromptResult(b) == IF CanEnvelope(b.frame) THEN UsageCostEnd(b) ELSE b

\* A chunk, a thought or a plan; an update kind that is ignored opens the turn too.
Chunk(hasText) == IF hasText THEN Emit(Batch, "message") ELSE OpenTurn(Batch)

\* Also an update of another session, and an unknown one or one that throws.
ProjectNote(texts) == {Chunk(hasText) : hasText \in texts} \cup {Batch, ReportError(Batch)}

\* tool_call, with the result if its status says completed or failed.
ProjectToolCall(t, done) ==
    LET b == ToolCallOf(OpenTurn(Batch), t)
    IN IF done /\ t \notin calls THEN ToolResultOf(b, t, {t}) ELSE b

ToolCallUpdate(t, done) ==
    /\ Receive(ProjectToolCall(t, done))
    /\ calls' = calls \cup {t}
    /\ results' = IF done /\ t \notin calls THEN results \cup {t} ELSE results
    /\ UNCHANGED <<turnActive, armed, held, role>>

\* tool_call_update: a result, even of a call that was never seen.
MaybeEmitToolResult(t) ==
    /\ Receive(ToolResultOf(OpenTurn(Batch), t, calls))
    /\ results' = results \cup {t}
    /\ UNCHANGED <<turnActive, armed, calls, held, role>>

Update(texts) ==
    \/ \E b \in ProjectNote(texts) : Receive(b) /\ UNCHANGED <<turnActive, armed, projVars>>
    \/ \E t \in Tools :
         \/ \E done \in BOOLEAN : ToolCallUpdate(t, done)
         \/ MaybeEmitToolResult(t)

\* decideGeminiPermission and decideCursorPermission; see VendorGates.
Permissions == {"denied", "allowed", "ask"}

\* handlePermission: the request, and the error of a denial.
HandlePermission(decision) ==
    LET b == Emit(Batch, "permission_request")
    IN /\ Receive(IF decision = "denied" THEN Push(b, "error") ELSE b)
       /\ UNCHANGED <<turnActive, armed, projVars>>

\* handleProtocolError.
HandleProtocolError == Receive(ReportError(Batch)) /\ UNCHANGED <<turnActive, armed, projVars>>

-----------------------------------------------------------------------------

GeminiSend == vendor = "gemini" /\ SendPrompt

GeminiPromptResult(n) == vendor = "gemini" /\ PromptResolved(n, OnPromptResult(Batch), TRUE)

GeminiSetModel == vendor = "gemini" /\ life = "open" /\ SetModel

GeminiUpdate == vendor = "gemini" /\ Update(GeminiText)

GeminiPermission == vendor = "gemini" /\ \E decision \in Permissions : HandlePermission(decision)

GeminiNext ==
    \/ GeminiSend \/ GeminiSetModel \/ GeminiUpdate \/ GeminiPermission
    \/ \E n \in prompts : GeminiPromptResult(n)
    \/ vendor = "gemini" /\ HandleProtocolError

CursorSend == vendor = "cursor" /\ SendPrompt

CursorPromptResult(n) == vendor = "cursor" /\ PromptResolved(n, OnPromptResult(Batch), TRUE)

CursorUpdate == vendor = "cursor" /\ Update(CursorText)

CursorPermission == vendor = "cursor" /\ \E decision \in Permissions : HandlePermission(decision)

CursorProtocolError == vendor = "cursor" /\ HandleProtocolError

CursorNext ==
    \/ CursorSend \/ CursorUpdate \/ CursorPermission \/ CursorProtocolError
    \/ \E n \in prompts : CursorPromptResult(n)

-----------------------------------------------------------------------------
(* The handle of the Pi adapter, packages/adapters/pi/src/handle.ts and    *)
(* projection.ts.  The answer to a prompt says nothing: the turn ends with *)
(* the vendor's turn_end event.                                            *)

PiSend == vendor = "pi" /\ SendPrompt

PiPromptAcknowledged(n) == vendor = "pi" /\ PromptResolved(n, Batch, FALSE)

\* setModel asks the vendor whether or not the handle is closed.
PiSetModel == vendor = "pi" /\ life # "closed" /\ SetModel

PiReceive(b) == vendor = "pi" /\ Receive(b)

\* agent_start (session_start was pushed by the constructor), the events
\* without a projection, and an unknown event or a failing extension.
PiNote ==
    /\ \E b \in {Batch, Emit(Batch, "error")} : PiReceive(b)
    /\ UNCHANGED <<turnActive, armed, projVars>>

\* agent_end: a session_end closes the turn, and the send stays active.
PiAgentEnd == PiReceive(EndTurn(Emit(Batch, "session_end"))) /\ UNCHANGED <<turnActive, armed, projVars>>

\* turn_start and message_start drop the text of the message before.
PiMessageStart ==
    /\ PiReceive(OpenTurn(Batch))
    /\ held' = FALSE
    /\ UNCHANGED <<turnActive, armed, calls, results, role>>

\* projectMessageUpdate: a text delta is buffered too; thinking, an error, or nothing.
projectMessageUpdate ==
    /\ \/ PiReceive(Emit(Batch, "message")) /\ held' \in {held, TRUE}
       \/ \E b \in {OpenTurn(Batch), Emit(Batch, "error")} : PiReceive(b) /\ UNCHANGED held
    /\ UNCHANGED <<turnActive, armed, calls, results, role>>

PiMessageEnd ==
    /\ PiReceive(IF held THEN Emit(Batch, "message") ELSE OpenTurn(Batch))
    /\ held' = FALSE
    /\ UNCHANGED <<turnActive, armed, calls, results, role>>

\* decidePiPermission; see VendorGates.
PiDecisions == {"denied", "allowed"}

\* tool_execution_start: a denied tool is projected, reported and its turn ended.
projectToolStart(t) ==
    /\ \E decision \in PiDecisions :
         LET b == ToolCallOf(OpenTurn(Batch), t)
         IN IF decision = "denied"
              THEN PiReceive(forceTurnEnd(Push(b, "error"))) /\ Release
              ELSE PiReceive(b) /\ UNCHANGED <<turnActive, armed>>
    /\ calls' = calls \cup {t}
    /\ UNCHANGED <<results, held, role>>

\* isWriteClassTool and collectPathsFromInput: a write with paths, or not.
WritesFiles == BOOLEAN

\* tool_execution_end: the result and, of a successful write, the patch.
projectToolEnd(t) ==
    /\ \E wrote \in WritesFiles :
         LET b == ToolResultOf(Batch, t, calls)
         IN PiReceive(IF wrote /\ t \notin results
                        THEN PushChild(b, "patch_applied", IF t \in calls THEN t ELSE 0) ELSE b)
    /\ results' = results \cup {t}
    /\ UNCHANGED <<turnActive, armed, calls, held, role>>

PiUsageAndCost(b) == Push(Push(b, "usage"), "cost")

PiTurnEnd ==
    /\ PiReceive(EndTurn(Push(PiUsageAndCost(OpenTurn(Batch)), "turn_end")))
    /\ Release
    /\ held' = FALSE
    /\ UNCHANGED <<calls, results, role>>

PiProtocolError == PiReceive(ReportError(Batch)) /\ UNCHANGED <<turnActive, armed, projVars>>

\* handleAsyncEvent.
PiEvent ==
    \/ PiNote \/ PiAgentEnd \/ PiMessageStart \/ projectMessageUpdate \/ PiMessageEnd
    \/ PiTurnEnd \/ PiProtocolError
    \/ \E t \in Tools : projectToolStart(t) \/ projectToolEnd(t)

PiNext ==
    \/ PiSend \/ PiSetModel \/ PiEvent
    \/ \E n \in prompts : PiPromptAcknowledged(n)

-----------------------------------------------------------------------------
(* The handle of the Amp adapter, packages/adapters/amp/src/handle.ts and  *)
(* projection.ts: user turns are lines on the child's stdin, events lines  *)
(* of its stdout.  prompts holds the send whose line is being written.     *)

AmpSend == vendor = "amp" /\ SendPrompt

\* writeLine resolved.  Its failure is PromptRejected's error and forced end.
AmpWritten(n) == vendor = "amp" /\ PromptResolved(n, Batch, FALSE)

AmpReceive(b) == vendor = "amp" /\ stream = "reading" /\ Receive(b)

\* A line that is no JSON, an empty one, or a message without a projection.
projectAmpLine ==
    /\ \E b \in {Emit(Batch, "error"), Batch} : AmpReceive(b)
    /\ UNCHANGED <<turnActive, armed, projVars>>

\* The system message: session_start once.
AmpSystem ==
    /\ AmpReceive(IF frame.sessionStarted THEN Batch
                  ELSE LET b == OpenTurn(Batch)
                       IN Push([b EXCEPT !.frame.sessionStarted = TRUE], "session_start"))
    /\ UNCHANGED <<turnActive, armed, projVars>>

\* The tool_use blocks of one message that were not emitted before: at most two here.
ToolUses == {<<>>} \cup {<<t>> : t \in Tools \ calls}
                  \cup {<<t, u>> : t \in Tools \ calls, u \in Tools \ calls}

\* An assistant message: text and tool calls.  All the calls are marked as
\* emitted; one that is denied is pushed with its error and ends the turn, and
\* the rest of the message is dropped.  denied: the first denied call, 0: none.
AmpAssistant(hasText, uses, denied) ==
    LET open == IF hasText THEN Emit(Batch, "message") ELSE OpenTurn(Batch)
        pushed == IF denied = 0 THEN uses ELSE SubSeq(uses, 1, denied)
        b == [open EXCEPT !.events = @ \o
                [k \in DOMAIN pushed |-> [kind |-> "tool_call", turn |-> open.frame.turn, parent |-> pushed[k]]]]
    IN /\ IF denied = 0
            THEN AmpReceive(b) /\ UNCHANGED <<turnActive, armed>>
            ELSE AmpReceive(forceTurnEnd(Push(b, "error"))) /\ Release
       /\ calls' = calls \cup {uses[k] : k \in DOMAIN uses}
       /\ UNCHANGED <<results, held, role>>

\* A tool_result of a user message.
AmpToolResult(t) ==
    /\ AmpReceive(ToolResultOf(Batch, t, calls))
    /\ results' = results \cup {t}
    /\ UNCHANGED <<turnActive, armed, calls, held, role>>

\* The result message: usage, cost, the error of a failed turn, turn_end.
AmpResult ==
    /\ \E failed \in BOOLEAN :
         LET b == Push(Emit(Batch, "usage"), "cost")
         IN AmpReceive(EndTurn(Push(IF failed THEN Push(b, "error") ELSE b, "turn_end")))
    /\ Release
    /\ UNCHANGED projVars

\* consumeStdout throws: an error, and no more events; or the child closed stdout.
consumeStdout ==
    /\ vendor = "amp" /\ stream = "reading" /\ stream' = "over"
    /\ \E failed \in BOOLEAN :
         Deliver(IF failed /\ life = "open" THEN ReportError(Batch) ELSE Batch)
    /\ UNCHANGED <<vendor, life, turnActive, armed, terminal, pendingVars, projVars, boundVars>>

\* handleLine.
AmpLine ==
    \/ projectAmpLine \/ AmpSystem \/ AmpResult
    \/ \E hasText \in BOOLEAN, uses \in ToolUses :
         \E denied \in 0..Len(uses) : AmpAssistant(hasText, uses, denied)
    \/ \E t \in Tools : AmpToolResult(t)

AmpNext ==
    \/ AmpSend \/ AmpLine \/ consumeStdout
    \/ \E n \in prompts : AmpWritten(n)
=============================================================================
