------------------------------ MODULE TurnFrame ------------------------------
(***************************************************************************)
(* The turn framing every adapter handle shares: CorrelationState of       *)
(* adapters/base/src/correlation.ts and the turnOpen flag each projector   *)
(* keeps beside it.  A batch is a frame with the events that one step of a *)
(* handle pushes.  Of an event the model keeps its kind, its turn and the  *)
(* tool call it is about; texts, tokens, redaction and timestamps are left *)
(* out.                                                                    *)
(***************************************************************************)
EXTENDS Integers, Sequences

Kinds ==
    {"session_start", "message", "tool_call", "tool_result", "patch_applied",
     "permission_request", "rate_limit", "checkpoint",
     "error", "usage", "cost", "turn_end", "interrupt", "session_end"}

\* turnOpen and sessionStarted are the projector's, turn and turnClosed CorrelationState's.
Frame == [turnOpen : BOOLEAN, sessionStarted : BOOLEAN, turn : Nat, turnClosed : BOOLEAN]

\* parent: the tool call the event is about or linked to, 0 for none.
Event == [kind : Kinds, turn : Nat, parent : Nat]

FirstFrame == [turnOpen |-> FALSE, sessionStarted |-> FALSE, turn |-> 0, turnClosed |-> FALSE]

StartTurn(b) ==
    [b EXCEPT !.frame = [turnOpen |-> TRUE, sessionStarted |-> b.frame.sessionStarted,
                         turn |-> b.frame.turn + 1, turnClosed |-> FALSE]]

\* Mutants: neither, or only one, of the two parties learns that the turn is over.
EndTurnForgotten(b) == b
EndTurnHalf(b) == [b EXCEPT !.frame.turnClosed = TRUE]

EndTurn(b) == [b EXCEPT !.frame = [b.frame EXCEPT !.turnClosed = TRUE, !.turnOpen = FALSE]]

\* envelope() throws outside a turn.
CanEnvelope(f) == f.turn # 0 /\ ~f.turnClosed

\* corr.envelope() and enqueue; where it throws, the caller's catch drops the event.
PushChild(b, kind, parent) ==
    IF CanEnvelope(b.frame)
      THEN [b EXCEPT !.events = Append(@, [kind |-> kind, turn |-> b.frame.turn, parent |-> parent])]
      ELSE b

Push(b, kind) == PushChild(b, kind, 0)

OpenTurn(b) == IF b.frame.turnOpen THEN b ELSE StartTurn(b)

\* Open a turn if none is, then push.
Emit(b, kind) == Push(OpenTurn(b), kind)

UsageCostEnd(b) == EndTurn(Push(Push(Push(b, "usage"), "cost"), "turn_end"))

KindsOf(events) == {events[k].kind : k \in DOMAIN events}

EndedBy(events) == {events[k].turn : k \in {n \in DOMAIN events : events[n].kind = "turn_end"}}
=============================================================================
