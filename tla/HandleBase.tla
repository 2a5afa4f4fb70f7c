----------------------------- MODULE HandleBase -----------------------------
(***************************************************************************)
(* What the live handles of the adapters have in common: the state of      *)
(* AdapterHandleBase (packages/adapters/base/src/harness.ts) and its       *)
(* operations, which the modules of the vendors compose into handlers.     *)
(* The handles of OpenCode and Claude do not extend that class but keep    *)
(* the same fields, so they share the variables here and bring their own   *)
(* operations.                                                             *)
(*                                                                         *)
(* A handle runs on one event loop; a step is what happens between two     *)
(* awaits.  The vendor's process is external: it answers, fails or stays   *)
(* silent as it likes, and its events come in any order.                   *)
(***************************************************************************)
EXTENDS TurnFrame

CONSTANTS
    Vendors,       \* the adapters of the instance
    Tools,         \* the vendor's tool call ids, unique within a session
    MaxSends,      \* bound: user turns sent
    MaxRaw,        \* bound: events of the vendor
    MaxInterrupts  \* bound: calls of interrupt and setModel

ASSUME HandleAssumption ==
    /\ Vendors \subseteq {"gemini", "cursor", "pi", "amp", "opencode", "claude"}
    /\ Tools \subseteq Nat \ {0}
    /\ MaxSends \in Nat /\ MaxRaw \in Nat /\ MaxInterrupts \in Nat

VARIABLES
    vendor,     \* whose handle it is
    life,       \* "open", "closing" (closed is set, the driver closes), "closed" (queue too)
    frame,      \* CorrelationState and projState.turnOpen
    turnActive, \* send refuses while it is set
    armed,      \* the prompt watchdog's timer runs
    prompts,    \* sends whose prompt has neither resolved nor rejected
    cancelling, \* interrupts that await the vendor's cancel
    setting,    \* a setModel awaits the vendor
    stream,     \* the vendor's event stream: "none", "starting", "reading", "over"
    calls,      \* toolCallsEmitted, and the keys of toolCallParents
    results,    \* toolResultsEmitted
    held,       \* projected text not pushed yet: of pi's buffer, of opencode's pendingParts
    role,       \* opencode: the role of the message, "unknown", "user" or "assistant"
    terminal,   \* claude: sawTerminal of the live drainTurn
    sends, interrupts, raws, \* counters for the bounds
    out,        \* history: what the last step pushed to the queue
    ended,      \* history: turns whose turn_end was pushed
    called,     \* history: tools whose tool_call was pushed
    got         \* history: of the last send, "nothing", "events" or "tail"

pendingVars == <<prompts, cancelling, setting>>
projVars == <<calls, results, held, role>>
pushVars == <<frame, out, ended, called, got>>
boundVars == <<sends, interrupts, raws>>
handleVars == <<vendor, life, turnActive, armed, stream, terminal, pendingVars, projVars, boundVars, pushVars>>

\* The classes that extend AdapterHandleBase.
Shared == {"gemini", "cursor", "pi", "amp"}

Batch == [frame |-> frame, events |-> <<>>]

\* The constructors of gemini, cursor and pi push session_start at once.
FirstBatch ==
    LET b == [frame |-> FirstFrame, events |-> <<>>]
    IN IF vendor \in {"gemini", "cursor", "pi"} THEN Push(StartTurn(b), "session_start") ELSE b

HandleInit ==
    /\ vendor \in Vendors
    /\ life = "open" /\ turnActive = FALSE /\ armed = FALSE
    /\ prompts = {} /\ cancelling = 0 /\ setting = FALSE
    /\ stream = IF vendor \in {"amp", "opencode"} THEN "reading" ELSE "none"
    /\ calls = {} /\ results = {} /\ held = FALSE /\ role = "unknown" /\ terminal = FALSE
    /\ sends = 0 /\ interrupts = 0 /\ raws = 0
    /\ frame = FirstBatch.frame /\ out = FirstBatch.events
    /\ ended = {} /\ called = {} /\ got = "nothing"

\* emit: a closed queue drops what is pushed.  before: what the last send had got.
DeliverFrom(b, before) ==
    /\ frame' = b.frame
    /\ out' = IF life = "closed" THEN <<>> ELSE b.events
    /\ ended' = ended \cup EndedBy(out')
    /\ called' = called \cup {out'[k].parent : k \in {n \in DOMAIN out' : out'[n].kind = "tool_call"}}
    /\ got' = IF KindsOf(out') \cap {"turn_end", "session_end"} # {} THEN "tail"
              ELSE IF before = "nothing" /\ out' # <<>> THEN "events"
              ELSE before

Deliver(b) == DeliverFrom(b, got)

Nothing == Deliver(Batch)

beginTurn == turnActive' = TRUE /\ armed' = TRUE

Release == turnActive' = FALSE /\ armed' = FALSE

\* Mutant: an error, and no end of the turn.
forceTurnEndDropped(b) == Push(b, "error")

forceTurnEnd(b) == IF b.frame.turnOpen THEN UsageCostEnd(b) ELSE b

\* emitSafely with safeEnvelope().
ReportError(b) == Emit(b, "error")

\* send up to the vendor's answer: it throws after shutdown and while a turn is active.
SendPrompt ==
    /\ life = "open" /\ ~turnActive /\ sends < MaxSends
    /\ beginTurn
    /\ sends' = sends + 1
    /\ prompts' = prompts \cup {sends + 1}
    /\ DeliverFrom(Batch, "nothing")
    /\ UNCHANGED <<vendor, life, cancelling, setting, stream, terminal, projVars, interrupts, raws>>

\* watchPromptPromise: prompt n rejected.
PromptRejected(n) ==
    /\ n \in prompts
    /\ prompts' = prompts \ {n}
    /\ IF life = "open" THEN Release /\ Deliver(forceTurnEnd(ReportError(Batch)))
                        ELSE UNCHANGED <<turnActive, armed>> /\ Nothing
    /\ UNCHANGED <<vendor, life, cancelling, setting, stream, terminal, projVars, boundVars>>

\* prompt n resolved: onResolved pushes b and, if released, ends the turn.
PromptResolved(n, b, released) ==
    /\ n \in prompts
    /\ prompts' = prompts \ {n}
    /\ IF life = "open"
         THEN Deliver(b) /\ (IF released THEN Release ELSE UNCHANGED <<turnActive, armed>>)
         ELSE Nothing /\ UNCHANGED <<turnActive, armed>>
    /\ UNCHANGED <<vendor, life, cancelling, setting, stream, terminal, projVars, boundVars>>

\* The interrupt event joins the open turn, or one of its own.
InterruptEvent(b) == Push(IF CanEnvelope(b.frame) THEN b ELSE StartTurn(b), "interrupt")

\* doInterrupt up to the await of the vendor's cancel.
doInterrupt ==
    /\ life = "open" /\ interrupts < MaxInterrupts
    /\ interrupts' = interrupts + 1
    /\ cancelling' = cancelling + 1
    /\ Deliver(InterruptEvent(Batch))
    /\ UNCHANGED <<vendor, life, turnActive, armed, prompts, setting, stream, terminal, projVars, sends, raws>>

\* The cancel settled: the turn that is open now is ended, whosever it is.
InterruptReturns ==
    /\ cancelling > 0
    /\ cancelling' = cancelling - 1
    /\ Release
    /\ Deliver(forceTurnEnd(Batch))
    /\ UNCHANGED <<vendor, life, prompts, setting, stream, terminal, projVars, boundVars>>

\* Mutant: the timer of a turn is cleared when it fires, and the turn stays active.
WatchdogForgets ==
    /\ armed /\ armed' = FALSE
    /\ Nothing
    /\ UNCHANGED <<vendor, life, turnActive, stream, terminal, pendingVars, projVars, boundVars>>

\* PromptWatchdog: onWatchdogFire of every vendor cancels and forces the end.
WatchdogFires ==
    /\ armed /\ armed' = FALSE
    /\ IF life = "open" /\ turnActive THEN turnActive' = FALSE /\ Deliver(forceTurnEnd(Batch))
                                      ELSE UNCHANGED turnActive /\ Nothing
    /\ UNCHANGED <<vendor, life, stream, terminal, pendingVars, projVars, boundVars>>

\* runSharedShutdown up to runShutdownSequence: session_end in the open turn or a new one.
runSharedShutdown ==
    /\ life = "open"
    /\ life' = "closing" /\ armed' = FALSE
    /\ Deliver(EndTurn(Emit(Batch, "session_end")))
    /\ UNCHANGED <<vendor, turnActive, stream, terminal, pendingVars, projVars, boundVars>>

\* runShutdownSequence: the driver closed or its timeout passed, the stream was
\* drained likewise, the listeners are gone; then queue.close().
runShutdownSequence ==
    /\ life = "closing"
    /\ life' = "closed"
    /\ Nothing
    /\ UNCHANGED <<vendor, turnActive, armed, stream, terminal, pendingVars, projVars, boundVars>>

\* setModel where the vendor is asked.
SetModel ==
    /\ ~setting /\ interrupts < MaxInterrupts
    /\ setting' = TRUE /\ interrupts' = interrupts + 1
    /\ Nothing
    /\ UNCHANGED <<vendor, life, turnActive, armed, prompts, cancelling, stream, terminal, projVars, sends, raws>>

\* The vendor's answer to setModel: a failure is reported, whether the handle is closed or not.
SetModelReturns ==
    /\ setting /\ setting' = FALSE
    /\ \E failed \in BOOLEAN : Deliver(IF failed THEN ReportError(Batch) ELSE Batch)
    /\ UNCHANGED <<vendor, life, turnActive, armed, prompts, cancelling, stream, terminal, projVars, boundVars>>

\* One event of the vendor that the handler turns into b; a closed handle ignores it.
Receive(b) ==
    /\ life = "open" /\ raws < MaxRaw
    /\ raws' = raws + 1
    /\ Deliver(b)
    /\ UNCHANGED <<vendor, life, stream, terminal, pendingVars, sends, interrupts>>

\* The projection of a tool call, once per id.
ToolCallOf(b, t) == IF t \in calls THEN b ELSE PushChild(b, "tool_call", t)

\* The projection of a result, once per id, linked to the call if there was one.
ToolResultOf(b, t, known) ==
    IF t \in results THEN b
    ELSE PushChild(OpenTurn(b), "tool_result", IF t \in known THEN t ELSE 0)
=============================================================================
