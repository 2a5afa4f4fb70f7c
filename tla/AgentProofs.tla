----------------------------- MODULE AgentProofs -----------------------------
(***************************************************************************)
(* Proofs about a role's agent and what surrounds it: the turns of its     *)
(* handle (CodexHandle), the swarm that starts and stops the roles         *)
(* (Swarm), the readers of the events it leaves (EventTail) and the        *)
(* watchdog over them (Watchdog), for any number of sends, SDK events,     *)
(* interrupts, roles, escalations, runs, reconnects and ticks.             *)
(***************************************************************************)
EXTENDS CodexHandle, Swarm, EventTail, Watchdog, FiniteSetTheorems, SequenceTheorems, WellFoundedInduction, TLAPS

-----------------------------------------------------------------------------
(* The turns of the handle.  Every step computes a batch from the frame    *)
(* and delivers it.  Good says what such a batch may be in the state it is *)
(* computed in; the lemmas say of each operator on batches that it keeps   *)
(* Good and what it does to turnOpen, and the proof for a step cites those *)
(* it is made of.                                                          *)

\* The projector and CorrelationState agree on whether a turn is open.
Agrees(f) == f.turnOpen <=> CanEnvelope(f)

\* Turns that have ended are behind the frame.
Behind(f) == ended \subseteq 1..f.turn /\ \A t \in ended : t = f.turn => f.turnClosed

\* What the k-th event of a batch may be: of a turn that has not ended, neither before the
\* step nor before it in the batch.
Fits(b, k) ==
    /\ b.events[k].turn \in 1..b.frame.turn /\ b.events[k].turn \notin ended
    /\ b.events[k].kind = "turn_end" /\ b.events[k].turn = b.frame.turn => b.frame.turnClosed
    /\ \A n \in 1..(k - 1) : b.events[n].kind = "turn_end" => b.events[n].turn # b.events[k].turn
    /\ b.events[k].kind = "session_start" => ~frame.sessionStarted

Framed(b) ==
    /\ b = [frame |-> b.frame, events |-> b.events]
    /\ b.frame \in Frame /\ Agrees(b.frame) /\ Behind(b.frame)
    /\ frame.sessionStarted => b.frame.sessionStarted
    /\ b.events \in Seq(Event)
    /\ \A k \in DOMAIN b.events : Fits(b, k)

Ends(b) == "turn_end" \in KindsOf(b.events)

\* A turn is closed by pushing its end.
Shown(b) == ~Ends(b) /\ (frame.turnOpen \/ b.events # <<>>) => b.frame.turnOpen

Good(b) == Framed(b) /\ Shown(b)

\* The remembered call of an item is of the stream that is read if this one announced it,
\* and older otherwise.
Remembered ==
    /\ stream # "none" => sends # 0
    /\ \A i \in Items : IF i \in begun THEN calls[i] = sends ELSE calls[i] = 0 \/ calls[i] < sends

\* The inductive invariant.  What a send has got so far is in an open turn, or its end was
\* among it.
CodexInv ==
    /\ CodexTypeOK
    /\ OpenOnlyAfterAbort
    /\ Behind(frame)
    /\ Remembered
    /\ life = "open" /\ stream # "none" /\ got = "events" => frame.turnOpen

-----------------------------------------------------------------------------

\* A framed batch, spelled out.
LEMMA FramedTyped ==
    ASSUME NEW b, Framed(b)
    PROVE  /\ b.frame.turnOpen \in BOOLEAN /\ b.frame.turnClosed \in BOOLEAN
           /\ b.frame.sessionStarted \in BOOLEAN /\ b.frame.turn \in Nat
           /\ b.frame.turnOpen <=> b.frame.turn # 0 /\ ~b.frame.turnClosed
           /\ Len(b.events) \in Nat /\ DOMAIN b.events = 1..Len(b.events)
           /\ \A k \in 1..Len(b.events) :
                 b.events[k].turn \in Nat /\ b.events[k].kind \in Kinds /\ b.events[k].parent \in Nat
  <1>1. /\ b.frame \in Frame /\ Agrees(b.frame) /\ b.events \in Seq(Event)
    BY DEF Framed
  <1>2. \A k \in 1..Len(b.events) : b.events[k] \in Event
    BY <1>1
  <1> QED BY <1>1, <1>2 DEF Frame, Event, Agrees, CanEnvelope

\* A batch whose frame is replaced by one that is not behind it.
LEMMA FrameReplaced ==
    ASSUME NEW b, Framed(b), NEW f \in Frame, Agrees(f),
           f.turn >= b.frame.turn,
           f.turn = b.frame.turn /\ b.frame.turnClosed => f.turnClosed,
           frame.sessionStarted => f.sessionStarted
    PROVE  /\ Framed([b EXCEPT !.frame = f])
           /\ [b EXCEPT !.frame = f].frame = f /\ [b EXCEPT !.frame = f].events = b.events
  <1> DEFINE c == [frame |-> f, events |-> b.events]
  <1>1. [b EXCEPT !.frame = f] = c
    BY DEF Framed
  <1>2. c.frame = f /\ c.events = b.events
    OBVIOUS
  <1>3. f.turn \in Nat /\ b.frame.turn \in Nat
    BY FramedTyped DEF Frame
  <1>4. Behind(f)
    BY <1>3 DEF Framed, Behind
  <1>5. \A k \in DOMAIN b.events : Fits(c, k)
    <2> SUFFICES ASSUME NEW k \in DOMAIN b.events PROVE Fits(c, k)
      OBVIOUS
    <2>1. Fits(b, k) /\ b.events[k].turn \in Nat
      BY FramedTyped DEF Framed
    <2> HIDE DEF c
    <2> QED BY <1>2, <1>3, <2>1 DEF Fits
  <1>6. Framed(c)
    BY <1>4, <1>5 DEF Framed
  <1> QED BY <1>1, <1>2, <1>6

\* startTurn() with turnOpen = true opens a fresh turn for both parties.
LEMMA StartTurnGood ==
    ASSUME NEW b, Good(b)
    PROVE  /\ Good(StartTurn(b)) /\ StartTurn(b).frame.turnOpen
           /\ StartTurn(b).events = b.events
  <1> DEFINE f == [turnOpen |-> TRUE, sessionStarted |-> b.frame.sessionStarted,
                   turn |-> b.frame.turn + 1, turnClosed |-> FALSE]
  <1>0. Framed(b) /\ b.frame.turn \in Nat /\ b.frame.sessionStarted \in BOOLEAN
        /\ (frame.sessionStarted => b.frame.sessionStarted)
    BY FramedTyped DEF Good, Framed
  <1>1. /\ f \in Frame /\ f.turnOpen /\ Agrees(f)
        /\ f.turn >= b.frame.turn /\ f.turn # b.frame.turn
        /\ frame.sessionStarted => f.sessionStarted
    BY <1>0 DEF Frame, Agrees, CanEnvelope
  <1> HIDE DEF f
  <1>2. Framed([b EXCEPT !.frame = f]) /\ [b EXCEPT !.frame = f].frame = f
        /\ [b EXCEPT !.frame = f].events = b.events
    BY <1>0, <1>1, FrameReplaced
  <1>3. StartTurn(b) = [b EXCEPT !.frame = f]
    BY DEF StartTurn, f
  <1> QED BY <1>1, <1>2, <1>3 DEF Good, Shown

\* endTurn() with turnOpen = false closes it for both.
LEMMA EndTurnFramed ==
    ASSUME NEW b, Framed(b)
    PROVE  Framed(EndTurn(b)) /\ ~EndTurn(b).frame.turnOpen /\ EndTurn(b).events = b.events
  <1> DEFINE f == [b.frame EXCEPT !.turnClosed = TRUE, !.turnOpen = FALSE]
  <1>0. b.frame \in Frame /\ b.frame.turn \in Nat /\ (frame.sessionStarted => b.frame.sessionStarted)
    BY FramedTyped DEF Framed
  <1>1. /\ f \in Frame /\ ~f.turnOpen /\ Agrees(f) /\ f.turn = b.frame.turn /\ f.turnClosed
        /\ frame.sessionStarted => f.sessionStarted
    BY <1>0 DEF Frame, Agrees, CanEnvelope
  <1> HIDE DEF f
  <1>2. Framed([b EXCEPT !.frame = f]) /\ [b EXCEPT !.frame = f].frame = f
        /\ [b EXCEPT !.frame = f].events = b.events
    BY <1>0, <1>1, FrameReplaced
  <1>3. EndTurn(b) = [b EXCEPT !.frame = f]
    BY DEF EndTurn, f
  <1> QED BY <1>1, <1>2, <1>3

\* A batch grows at its end.
LEMMA AppendedTo ==
    ASSUME NEW events \in Seq(Event), NEW ev \in Event
    PROVE  /\ Append(events, ev) \in Seq(Event)
           /\ Len(Append(events, ev)) = Len(events) + 1
           /\ Append(events, ev)[Len(events) + 1] = ev
           /\ \A k \in 1..Len(events) : Append(events, ev)[k] = events[k]
  OBVIOUS

\* Pushing leaves the frame alone.
LEMMA PushShape ==
    ASSUME NEW b, Framed(b), NEW kind, NEW parent
    PROVE  PushChild(b, kind, parent) = [frame |-> b.frame, events |-> PushChild(b, kind, parent).events]
  BY DEF Framed, PushChild

\* An event pushed into the open turn stands behind those of the batch.
LEMMA PushedInto ==
    ASSUME NEW b, Framed(b), b.frame.turnOpen, NEW kind \in Kinds, NEW parent \in Nat
    PROVE  /\ PushChild(b, kind, parent).frame = b.frame
           /\ PushChild(b, kind, parent).events \in Seq(Event)
           /\ Len(PushChild(b, kind, parent).events) = Len(b.events) + 1
           /\ PushChild(b, kind, parent).events[Len(b.events) + 1]
                = [kind |-> kind, turn |-> b.frame.turn, parent |-> parent]
           /\ \A k \in 1..Len(b.events) : PushChild(b, kind, parent).events[k] = b.events[k]
  <1> DEFINE ev == [kind |-> kind, turn |-> b.frame.turn, parent |-> parent]
             c == [frame |-> b.frame, events |-> Append(b.events, ev)]
  <1>1. PushChild(b, kind, parent) = c
    BY DEF PushChild, Framed, Agrees
  <1>2. ev \in Event /\ b.events \in Seq(Event)
    BY FramedTyped DEF Framed, Event
  <1>3. /\ Append(b.events, ev) \in Seq(Event)
        /\ Len(Append(b.events, ev)) = Len(b.events) + 1
        /\ Append(b.events, ev)[Len(b.events) + 1] = ev
        /\ \A k \in 1..Len(b.events) : Append(b.events, ev)[k] = b.events[k]
    BY <1>2, AppendedTo
  <1>4. c.frame = b.frame /\ c.events = Append(b.events, ev)
    OBVIOUS
  <1> HIDE DEF c
  <1> QED BY <1>1, <1>3, <1>4

\* It makes the batch one longer.
LEMMA PushedTyped ==
    ASSUME NEW b, Framed(b), b.frame.turnOpen, NEW kind \in Kinds, NEW parent \in Nat
    PROVE  /\ PushChild(b, kind, parent).frame = b.frame
           /\ PushChild(b, kind, parent).events \in Seq(Event)
           /\ Len(PushChild(b, kind, parent).events) = Len(b.events) + 1
  <1> DEFINE ev == [kind |-> kind, turn |-> b.frame.turn, parent |-> parent]
             c == [frame |-> b.frame, events |-> Append(b.events, ev)]
  <1>1. PushChild(b, kind, parent) = c
    BY DEF PushChild, Framed, Agrees
  <1>2. ev \in Event /\ b.events \in Seq(Event)
    BY FramedTyped DEF Framed, Event
  <1>3. Append(b.events, ev) \in Seq(Event) /\ Len(Append(b.events, ev)) = Len(b.events) + 1
    BY <1>2, AppendedTo
  <1>4. c.frame = b.frame /\ c.events = Append(b.events, ev)
    OBVIOUS
  <1> HIDE DEF c, ev
  <1> QED BY <1>1, <1>3, <1>4

\* It is in the batch with all that was there.
LEMMA PushedKinds ==
    ASSUME NEW b, Framed(b), b.frame.turnOpen, NEW kind \in Kinds, NEW parent \in Nat
    PROVE  LET c == PushChild(b, kind, parent) IN
           /\ kind \in KindsOf(c.events) /\ KindsOf(b.events) \subseteq KindsOf(c.events)
           /\ c.events # <<>>
  <1> DEFINE c == PushChild(b, kind, parent)
  <1>1. /\ c.events \in Seq(Event) /\ Len(c.events) = Len(b.events) + 1
        /\ c.events[Len(b.events) + 1] = [kind |-> kind, turn |-> b.frame.turn, parent |-> parent]
        /\ \A k \in 1..Len(b.events) : c.events[k] = b.events[k]
    BY PushedInto
  <1>2. Len(b.events) \in Nat /\ DOMAIN b.events = 1..Len(b.events)
    BY FramedTyped
  <1> HIDE DEF c
  <1>3. kind \in KindsOf(c.events) /\ KindsOf(b.events) \subseteq KindsOf(c.events) /\ c.events # <<>>
    BY <1>1, <1>2 DEF KindsOf
  <1> QED BY <1>3 DEF c

\* The place it stands at fits, whether or not its turn ends with it.
LEMMA PushedFits ==
    ASSUME NEW b, Framed(b), b.frame.turnOpen, NEW kind \in Kinds, NEW parent \in Nat,
           kind = "session_start" => ~frame.sessionStarted,
           NEW f \in Frame, f.turn = b.frame.turn, kind = "turn_end" => f.turnClosed
    PROVE  \A k \in 1..(Len(b.events) + 1) :
               Fits([frame |-> f, events |-> PushChild(b, kind, parent).events], k)
  <1> DEFINE c == [frame |-> f, events |-> PushChild(b, kind, parent).events]
             len == Len(b.events)
             ev == [kind |-> kind, turn |-> b.frame.turn, parent |-> parent]
  <1>1. /\ len \in Nat /\ DOMAIN b.events = 1..len /\ b.frame.turn \in Nat /\ b.frame.turn # 0
        /\ ~b.frame.turnClosed /\ Behind(b.frame)
        /\ \A k \in 1..len : b.events[k].turn \in Nat
    BY FramedTyped DEF Framed
  <1>2. c.frame = f /\ c.events[len + 1] = ev /\ \A k \in 1..len : c.events[k] = b.events[k]
    BY PushedInto
  <1>3. \A k \in 1..len : Fits(b, k)
    BY <1>1 DEF Framed
  <1> HIDE DEF c
  <1>4. ASSUME NEW k \in 1..len PROVE Fits(c, k)
    <2>1. \A n \in 1..(k - 1) : n \in 1..len
      BY <1>1
    <2>2. Fits(b, k) /\ c.events[k] = b.events[k] /\ \A n \in 1..(k - 1) : c.events[n] = b.events[n]
      BY <1>2, <1>3, <2>1
    <2>3. ~(b.events[k].kind = "turn_end" /\ b.events[k].turn = b.frame.turn)
      BY <1>1, <2>2 DEF Fits
    <2> QED BY <1>2, <2>2, <2>3 DEF Fits
  <1>5. Fits(c, len + 1)
    <2>1. c.events[len + 1].turn = b.frame.turn /\ c.events[len + 1].kind = kind
      BY <1>2
    <2>2. b.frame.turn \notin ended /\ b.frame.turn \in 1..f.turn
      BY <1>1 DEF Behind
    <2>3. ASSUME NEW n \in 1..((len + 1) - 1), c.events[n].kind = "turn_end"
          PROVE  c.events[n].turn # b.frame.turn
      <3>1. n \in 1..len
        BY <1>1
      <3>2. Fits(b, n) /\ c.events[n] = b.events[n]
        BY <1>2, <1>3, <3>1
      <3> QED BY <1>1, <2>3, <3>2 DEF Fits
    <2> QED BY <1>2, <2>1, <2>2, <2>3 DEF Fits
  <1>6. \A k \in 1..(len + 1) : k \in 1..len \/ k = len + 1
    BY <1>1
  <1> QED BY <1>4, <1>5, <1>6 DEF c

\* An event that ends no turn joins the turn that is open.
LEMMA PushGood ==
    ASSUME NEW b, Good(b), b.frame.turnOpen, NEW kind \in Kinds \ {"turn_end"}, NEW parent \in Nat,
           kind = "session_start" => ~frame.sessionStarted
    PROVE  /\ Good(PushChild(b, kind, parent))
           /\ PushChild(b, kind, parent).frame = b.frame
           /\ KindsOf(b.events) \subseteq KindsOf(PushChild(b, kind, parent).events)
  <1> DEFINE c == PushChild(b, kind, parent)
  <1>1. Framed(b) /\ b.frame \in Frame
    BY DEF Good, Framed
  <1>0. kind \in Kinds
    OBVIOUS
  <1>2. /\ c = [frame |-> b.frame, events |-> c.events] /\ c.frame = b.frame /\ c.events \in Seq(Event)
        /\ Len(c.events) = Len(b.events) + 1
    <2>1. c = [frame |-> b.frame, events |-> c.events]
      BY <1>1, PushShape
    <2>2. c.frame = b.frame /\ c.events \in Seq(Event) /\ Len(c.events) = Len(b.events) + 1
      BY <1>0, <1>1, PushedTyped
    <2> HIDE DEF c
    <2> QED BY <2>1, <2>2
  <1>3. \A k \in DOMAIN c.events : Fits(c, k)
    <2>1. DOMAIN c.events = 1..(Len(b.events) + 1)
      <3> HIDE DEF c
      <3> QED BY <1>2
    <2> QED BY <1>1, <1>2, <2>1, PushedFits
  <1>4. KindsOf(b.events) \subseteq KindsOf(c.events)
    BY <1>1, PushedKinds
  <1> HIDE DEF c
  <1>5. Framed(c) /\ Shown(c)
    BY <1>1, <1>2, <1>3 DEF Framed, Shown
  <1> QED BY <1>2, <1>4, <1>5 DEF Good, c

\* Push is PushChild of an event about no tool call.
LEMMA PlainGood ==
    ASSUME NEW b, Good(b), b.frame.turnOpen,
           NEW kind \in Kinds \ {"turn_end", "tool_result", "patch_applied"},
           kind = "session_start" => ~frame.sessionStarted
    PROVE  Good(Push(b, kind)) /\ Push(b, kind).frame = b.frame
  BY PushGood DEF Push

\* The end of an open turn: its event, and both parties learn of it.
LEMMA TurnEndGood ==
    ASSUME NEW b, Good(b), b.frame.turnOpen
    PROVE  LET d == EndTurn(Push(b, "turn_end")) IN Good(d) /\ Ends(d) /\ ~d.frame.turnOpen
  <1> DEFINE c == PushChild(b, "turn_end", 0)
             f == [b.frame EXCEPT !.turnClosed = TRUE, !.turnOpen = FALSE]
             d == [frame |-> f, events |-> c.events]
  <1>1. Framed(b) /\ b.frame \in Frame /\ b.frame.turn \in Nat /\ "turn_end" \in Kinds
        /\ Behind(b.frame) /\ (frame.sessionStarted => b.frame.sessionStarted)
    BY FramedTyped DEF Good, Framed, Kinds
  <1>0. 0 \in Nat
    OBVIOUS
  <1>2. /\ c = [frame |-> b.frame, events |-> c.events] /\ c.frame = b.frame /\ c.events \in Seq(Event)
        /\ Len(c.events) = Len(b.events) + 1
    <2>1. c = [frame |-> b.frame, events |-> c.events]
      BY <1>1, PushShape
    <2>2. c.frame = b.frame /\ c.events \in Seq(Event) /\ Len(c.events) = Len(b.events) + 1
      BY <1>0, <1>1, PushedTyped
    <2> HIDE DEF c
    <2> QED BY <2>1, <2>2
  <1>3. "turn_end" \in KindsOf(c.events)
    BY <1>1, PushedKinds
  <1>4. /\ f \in Frame /\ ~f.turnOpen /\ Agrees(f) /\ f.turn = b.frame.turn /\ f.turnClosed
        /\ frame.sessionStarted => f.sessionStarted
    BY <1>1 DEF Frame, Agrees, CanEnvelope
  <1>5. \A k \in DOMAIN c.events : Fits(d, k)
    <2>1. DOMAIN c.events = 1..(Len(b.events) + 1)
      <3> HIDE DEF c
      <3> QED BY <1>2
    <2> HIDE DEF f
    <2> QED BY <1>1, <1>2, <1>4, <2>1, PushedFits
  <1>6. EndTurn(Push(b, "turn_end")) = d
    <2>1. Push(b, "turn_end") = c
      BY DEF Push
    <2> HIDE DEF c
    <2>2. EndTurn(c) = [c EXCEPT !.frame = [c.frame EXCEPT !.turnClosed = TRUE, !.turnOpen = FALSE]]
      BY DEF EndTurn
    <2>3. EndTurn(c) = d
      BY <1>2, <2>2
    <2> QED BY <2>1, <2>3
  <1> HIDE DEF c, f
  <1>7. Framed(d)
    BY <1>1, <1>2, <1>4, <1>5 DEF Framed, Behind
  <1> QED BY <1>3, <1>4, <1>6, <1>7 DEF Good, Shown, Ends

\* openTurn leaves a turn open.
LEMMA OpenTurnGood ==
    ASSUME NEW b, Good(b)
    PROVE  Good(OpenTurn(b)) /\ OpenTurn(b).frame.turnOpen
  BY StartTurnGood DEF OpenTurn

\* What is pushed into it leaves it open.
LEMMA EmitGood ==
    ASSUME NEW b, Good(b),
           NEW kind \in Kinds \ {"turn_end", "tool_result", "patch_applied", "session_start"}
    PROVE  Good(Emit(b, kind)) /\ Emit(b, kind).frame.turnOpen
  BY OpenTurnGood, PlainGood DEF Emit

\* The session is announced in an open turn, unless it was before.
LEMMA SessionStartGood ==
    ASSUME NEW b, Good(b), b.frame.turnOpen, ~frame.sessionStarted
    PROVE  Good(SessionStart(b)) /\ SessionStart(b).frame.turnOpen
  <1> DEFINE f == [b.frame EXCEPT !.sessionStarted = TRUE]
             c == [b EXCEPT !.frame = f]
  <1>1. Framed(b) /\ b.frame \in Frame /\ Agrees(b.frame) /\ b.frame.turn \in Nat
    BY FramedTyped DEF Good, Framed
  <1>2. /\ f \in Frame /\ f.turnOpen /\ Agrees(f) /\ f.turn = b.frame.turn
        /\ f.turnClosed = b.frame.turnClosed
    BY <1>1 DEF Frame, Agrees, CanEnvelope
  <1>3. SessionStart(b) = Push(c, "session_start")
    BY DEF SessionStart
  <1> HIDE DEF f
  <1>4. Framed(c) /\ c.frame = f
    BY <1>1, <1>2, FrameReplaced
  <1> HIDE DEF c
  <1>5. Good(c) /\ c.frame.turnOpen
    BY <1>2, <1>4 DEF Good, Shown
  <1>6. Good(Push(c, "session_start")) /\ Push(c, "session_start").frame = c.frame
    BY <1>5, PlainGood DEF Kinds
  <1> QED BY <1>3, <1>5, <1>6

\* ensureSyntheticFrame opens a turn, announcing the session if nobody did.
LEMMA EnsureSyntheticFrameGood ==
    ASSUME NEW b, Good(b)
    PROVE  Good(EnsureSyntheticFrame(b)) /\ EnsureSyntheticFrame(b).frame.turnOpen
  <1>1. frame.sessionStarted => b.frame.sessionStarted
    BY DEF Good, Framed
  <1>2. Good(StartTurn(b)) /\ StartTurn(b).frame.turnOpen
    BY StartTurnGood
  <1>3. ~frame.sessionStarted => Good(SessionStart(StartTurn(b))) /\ SessionStart(StartTurn(b)).frame.turnOpen
    BY <1>2, SessionStartGood
  <1> QED BY <1>1, <1>2, <1>3 DEF EnsureSyntheticFrame

\* enqueueError leaves a turn open.
LEMMA EnqueueErrorGood ==
    ASSUME NEW b, Good(b)
    PROVE  Good(EnqueueError(b)) /\ EnqueueError(b).frame.turnOpen
  <1>1. "error" \in Kinds \ {"turn_end", "tool_result", "patch_applied"}
    BY DEF Kinds
  <1> QED BY <1>1, EnsureSyntheticFrameGood, PlainGood DEF EnqueueError

\* The triple usage, cost, turn_end closes the turn.
LEMMA UsageCostEndGood ==
    ASSUME NEW b, Good(b), b.frame.turnOpen
    PROVE  Good(UsageCostEnd(b)) /\ Ends(UsageCostEnd(b)) /\ ~UsageCostEnd(b).frame.turnOpen
  <1> DEFINE c == Push(b, "usage")
             d == Push(c, "cost")
  <1>0. {"usage", "cost"} \subseteq Kinds \ {"turn_end", "tool_result", "patch_applied"}
    BY DEF Kinds
  <1>1. Good(c) /\ c.frame.turnOpen
    BY <1>0, PlainGood
  <1> HIDE DEF c
  <1>2. Good(d) /\ d.frame.turnOpen
    BY <1>0, <1>1, PlainGood
  <1> HIDE DEF d
  <1>3. LET e == EndTurn(Push(d, "turn_end")) IN Good(e) /\ Ends(e) /\ ~e.frame.turnOpen
    BY <1>2, TurnEndGood
  <1> QED BY <1>3 DEF UsageCostEnd, c, d

\* emitSyntheticTurnEnd closes the turn.
LEMMA SyntheticTurnEndGood ==
    ASSUME NEW b, Good(b)
    PROVE  /\ Good(EmitSyntheticTurnEnd(b)) /\ Ends(EmitSyntheticTurnEnd(b))
           /\ ~EmitSyntheticTurnEnd(b).frame.turnOpen
  BY EnsureSyntheticFrameGood, UsageCostEndGood DEF EmitSyntheticTurnEnd

\* What the projector makes of an SDK event is a good batch.
LEMMA ProjectionGood ==
    ASSUME NEW b, Good(b)
    PROVE  /\ Good(HandleThreadStarted(b))
           /\ Good(HandleTurnCompleted(b))
           /\ Good(HandleTurnFailed(b))
           /\ ~frame.sessionStarted => Good(EmitResumeSessionStart(b))
  <1>0. frame.sessionStarted => b.frame.sessionStarted
    BY DEF Good, Framed
  <1>1. Good(HandleThreadStarted(b))
    BY <1>0, OpenTurnGood, SessionStartGood DEF HandleThreadStarted
  <1>2. Good(HandleTurnCompleted(b))
    BY OpenTurnGood, UsageCostEndGood DEF HandleTurnCompleted
  <1>3. Good(HandleTurnFailed(b))
    <2>1. Good(Emit(b, "error")) /\ Emit(b, "error").frame.turnOpen
      BY EmitGood DEF Kinds
    <2>2. LET d == EndTurn(Push(Emit(b, "error"), "turn_end")) IN Good(d) /\ Ends(d) /\ ~d.frame.turnOpen
      BY <2>1, TurnEndGood
    <2> QED BY <2>2 DEF HandleTurnFailed
  <1>4. ~frame.sessionStarted => Good(EmitResumeSessionStart(b))
    BY StartTurnGood, SessionStartGood DEF EmitResumeSessionStart
  <1> QED BY <1>1, <1>2, <1>3, <1>4

\* The result of an item, with its patch or without.
LEMMA ToolResultGood ==
    ASSUME NEW b, Good(b), NEW i, calls[i] \in Nat, NEW patched \in BOOLEAN
    PROVE  Good(ToolResult(b, i, patched))
  <1> DEFINE c == PushChild(OpenTurn(b), "tool_result", ParentFor(i))
             d == PushChild(c, "patch_applied", ParentFor(i))
  <1>0. {"tool_result", "patch_applied"} \subseteq Kinds \ {"turn_end"} /\ ParentFor(i) \in Nat
    BY DEF Kinds, ParentFor
  <1>1. Good(c) /\ c.frame.turnOpen
    BY <1>0, OpenTurnGood, PushGood
  <1> HIDE DEF c
  <1>2. Good(d)
    BY <1>0, <1>1, PushGood
  <1> HIDE DEF d
  <1> QED BY <1>1, <1>2 DEF ToolResult, c, d

\* The empty batch of a step.
LEMMA BatchGood ==
    ASSUME CodexInv
    PROVE  Good(Batch) /\ Batch.frame = frame /\ Batch.events = <<>> /\ ~Ends(Batch)
  <1>1. Batch.frame = frame /\ Batch.events = <<>> /\ Batch = [frame |-> Batch.frame, events |-> Batch.events]
    BY DEF Batch
  <1>2. frame \in Frame /\ Agrees(frame) /\ Behind(frame)
    BY DEF CodexInv, CodexTypeOK, OpenOnlyAfterAbort, Agrees
  <1>3. ~Ends(Batch)
    BY <1>1 DEF Ends, KindsOf
  <1> HIDE DEF Batch
  <1>4. Batch.events \in Seq(Event) /\ \A k \in DOMAIN Batch.events : Fits(Batch, k)
    BY <1>1
  <1>5. Framed(Batch)
    BY <1>1, <1>2, <1>4 DEF Framed
  <1> QED BY <1>1, <1>3, <1>5 DEF Good, Shown

-----------------------------------------------------------------------------

\* What a step delivers, before and after which the handle is where it says.
Step(b, before) ==
    /\ Framed(b) /\ \E waiting \in BOOLEAN : Deliver(b, before, waiting)
    /\ life' = "open" => life = "open" /\ Shown(b)
    /\ before = "nothing" \/ before = got
    /\ life' = "open" /\ stream' = "none" /\ b.frame.turnOpen => abortSet'
    /\ life' = "open" /\ stream' # "none" /\ before # "nothing" => stream # "none"
    /\ stream # "none" /\ stream' = "none" /\ ~abortSet' /\ life = "open"
         => Ends(b) \/ (b.events = <<>> /\ before = got /\ raws' > 0 /\ ~frame.turnOpen)

\* The variables that no batch is about.
Counted ==
    /\ source \in {"spawn", "resume"}
    /\ life \in {"open", "closing", "closed"}
    /\ stream \in {"none", "opening", "reading"}
    /\ abortSet \in BOOLEAN /\ threadId \in BOOLEAN /\ sessionId \in BOOLEAN
    /\ calls \in [Items -> 0..MaxSends]
    /\ raws \in 0..MaxRaw /\ sends \in 0..MaxSends /\ interrupts \in 0..MaxInterrupts /\ begun \subseteq Items
    /\ Remembered

\* Every event the loop reads is one of a stream, and leaves the rest alone.
LEMMA ReadCounts ==
    ASSUME Counted, NEW b, NEW thread \in BOOLEAN, Read(b, thread)
    PROVE  /\ source' \in {"spawn", "resume"} /\ life' \in {"open", "closing", "closed"}
           /\ stream' \in {"none", "opening", "reading"}
           /\ threadId' \in BOOLEAN /\ sessionId' \in BOOLEAN
           /\ raws' \in 0..MaxRaw /\ sends' = sends /\ interrupts' = interrupts /\ sends # 0
  <1>1. raws' = raws + 1 /\ raws < MaxRaw /\ raws \in 0..MaxRaw /\ MaxRaw \in Nat
    BY CodexAssumption DEF Read, Counted
  <1>2. raws' \in 0..MaxRaw
    BY <1>1
  <1> QED BY <1>2 DEF Read, Counted, Remembered

\* Every step keeps them.
LEMMA CountedKept ==
    ASSUME Counted, CodexNext
    PROVE  Counted'
  <1>0. sends \in 0..MaxSends /\ MaxSends \in Nat /\ interrupts \in 0..MaxInterrupts /\ MaxInterrupts \in Nat
        /\ MaxRaw \in Nat
    BY CodexAssumption DEF Counted
  <1>1. CASE Send
    <2>1. sends' \in 0..MaxSends /\ raws' \in 0..MaxRaw
      BY <1>0, <1>1 DEF Send
    <2>2. Remembered'
      <3>1. calls' = calls /\ sends' = sends + 1 /\ begun' = {} /\ sends \in Nat
        BY <1>0, <1>1 DEF Send
      <3>2. \A i \in Items : calls[i] \in Nat /\ calls[i] <= sends
        BY <1>0 DEF Counted, Remembered
      <3> QED BY <3>1, <3>2 DEF Remembered
    <2> QED BY <1>1, <2>1, <2>2 DEF Send, sessionVars, Counted
  <1>2. CASE StreamOpens
    BY <1>2 DEF StreamOpens, sessionVars, Counted, Remembered
  <1>3. CASE RawEvent
    <2>1. ASSUME NEW b, NEW thread \in BOOLEAN, Read(b, thread), UNCHANGED <<abortSet, calls, begun>>
          PROVE  Counted'
      BY <2>1, ReadCounts DEF Counted, Remembered
    <2>2. threadId \in BOOLEAN
      BY DEF Counted
    <2>3. CASE ThreadStarted \/ TurnStarted \/ TurnCompleted \/ TurnFailed \/ ItemUpdated
               \/ \E kind \in {"message", "error"} : NoteItem(kind)
      BY <2>1, <2>2, <2>3 DEF ThreadStarted, TurnStarted, TurnCompleted, TurnFailed, ItemUpdated, NoteItem
    <2>4. ASSUME NEW i \in Items, ToolStarted(i) PROVE Counted'
      <3>1. PICK decision \in decidePermission :
              /\ Read(IF decision = "denied" THEN EnqueueError(ToolCall(Batch)) ELSE ToolCall(Batch), threadId)
              /\ abortSet' = (abortSet \/ decision = "denied")
        BY <2>4 DEF ToolStarted
      <3> DEFINE b == IF decision = "denied" THEN EnqueueError(ToolCall(Batch)) ELSE ToolCall(Batch)
      <3> HIDE DEF b
      <3>2. Read(b, threadId)
        BY <3>1 DEF b
      <3>3. /\ source' \in {"spawn", "resume"} /\ life' \in {"open", "closing", "closed"}
            /\ stream' \in {"none", "opening", "reading"}
            /\ threadId' \in BOOLEAN /\ sessionId' \in BOOLEAN
            /\ raws' \in 0..MaxRaw /\ sends' = sends /\ interrupts' = interrupts
        BY <2>2, <3>2, ReadCounts
      <3>4. calls' = [calls EXCEPT ![i] = sends] /\ begun' = begun \cup {i} /\ abortSet' \in BOOLEAN
        BY <2>4, <3>1 DEF ToolStarted, RememberToolCall, Counted
      <3>5. calls' \in [Items -> 0..MaxSends]
        BY <1>0, <3>4 DEF Counted
      <3>6. Remembered'
        <4>1. \A j \in Items : calls'[j] = IF j = i THEN sends ELSE calls[j]
          BY <3>4 DEF Counted
        <4> QED BY <3>2, <3>3, <3>4, <4>1, ReadCounts, <2>2 DEF Counted, Remembered
      <3> QED BY <3>3, <3>4, <3>5, <3>6 DEF Counted
    <2>5. ASSUME NEW i \in Items, ToolCompleted(i) PROVE Counted'
      <3>1. PICK patched \in BOOLEAN : Read(ToolResult(Batch, i, patched), threadId)
        BY <2>5 DEF ToolCompleted
      <3>2. /\ source' \in {"spawn", "resume"} /\ life' \in {"open", "closing", "closed"}
            /\ stream' \in {"none", "opening", "reading"}
            /\ threadId' \in BOOLEAN /\ sessionId' \in BOOLEAN
            /\ raws' \in 0..MaxRaw /\ sends' = sends /\ interrupts' = interrupts
        BY <2>2, <3>1, ReadCounts
      <3> QED BY <2>5, <2>2, <3>1, <3>2, ReadCounts DEF ToolCompleted, Counted, Remembered
    <2> QED BY <1>3, <2>3, <2>4, <2>5 DEF RawEvent
  <1>4. CASE StreamEnds
    BY <1>4 DEF StreamEnds, Counted, Remembered
  <1>5. CASE StreamThrows
    BY <1>5 DEF StreamThrows, sessionVars, Counted, Remembered
  <1>6. CASE Interrupt
    <2>1. interrupts' \in 0..MaxInterrupts
      BY <1>0, <1>6 DEF Interrupt
    <2> QED BY <1>6, <2>1 DEF Interrupt, sessionVars, Counted, Remembered
  <1>7. CASE ShutdownLive
    BY <1>7 DEF ShutdownLive, sessionVars, Counted, Remembered
  <1>8. CASE ShutdownCloses
    BY <1>8 DEF ShutdownCloses, sessionVars, Counted, Remembered
  <1> QED BY <1>1, <1>2, <1>3, <1>4, <1>5, <1>6, <1>7, <1>8 DEF CodexNext

\* handleRawEvent and the loop around it: the stream goes on, or the handle is closing.
LEMMA ReadStep ==
    ASSUME CodexInv, NEW b, Good(b), NEW thread, Read(b, thread)
    PROVE  Step(b, got)
  <1>1. life' = life /\ Deliver(b, got, asked) /\ asked \in BOOLEAN /\ stream # "none"
    BY DEF Read, CodexInv, CodexTypeOK
  <1>2. stream' = "none" => life # "open"
    BY DEF Read
  <1> QED BY <1>1, <1>2 DEF Step, Good

\* Every SDK event the loop reads delivers a good batch.
LEMMA RawEventStep ==
    ASSUME CodexInv, RawEvent
    PROVE  \E b, before : Step(b, before)
  <1>0. Good(Batch) /\ sends \in Nat
    BY BatchGood, CodexAssumption DEF CodexInv, CodexTypeOK
  <1>1. CASE ThreadStarted
    BY <1>0, <1>1, ProjectionGood, ReadStep DEF ThreadStarted
  <1>2. CASE TurnStarted
    BY <1>0, <1>2, OpenTurnGood, ReadStep DEF TurnStarted
  <1>3. CASE TurnCompleted
    BY <1>0, <1>3, ProjectionGood, ReadStep DEF TurnCompleted
  <1>4. CASE TurnFailed
    BY <1>0, <1>4, ProjectionGood, ReadStep DEF TurnFailed
  <1>5. CASE ItemUpdated
    BY <1>0, <1>5, ReadStep DEF ItemUpdated
  <1>6. ASSUME NEW kind \in {"message", "error"}, NoteItem(kind) PROVE \E b, before : Step(b, before)
    <2>1. kind \in Kinds \ {"turn_end", "tool_result", "patch_applied", "session_start"}
      BY DEF Kinds
    <2>2. Good(Emit(Batch, kind))
      BY <1>0, <2>1, EmitGood
    <2> QED BY <1>6, <2>2, ReadStep DEF NoteItem
  <1>7. ASSUME NEW i, ToolStarted(i) PROVE \E b, before : Step(b, before)
    <2>1. PICK decision \in decidePermission :
            Read(IF decision = "denied" THEN EnqueueError(ToolCall(Batch)) ELSE ToolCall(Batch), threadId)
      BY <1>7 DEF ToolStarted
    <2>2. "tool_call" \in Kinds \ {"turn_end", "tool_result", "patch_applied", "session_start"}
      BY DEF Kinds
    <2>3. Good(ToolCall(Batch))
      BY <1>0, <2>2, EmitGood DEF ToolCall
    <2>4. Good(EnqueueError(ToolCall(Batch)))
      BY <2>3, EnqueueErrorGood
    <2> QED BY <2>1, <2>3, <2>4, ReadStep
  <1>8. ASSUME NEW i \in Items, ToolCompleted(i) PROVE \E b, before : Step(b, before)
    <2>1. PICK patched \in BOOLEAN : Read(ToolResult(Batch, i, patched), threadId)
      BY <1>8 DEF ToolCompleted
    <2>2. calls[i] \in Nat
      BY <1>8, CodexAssumption DEF CodexInv, CodexTypeOK
    <2>3. Good(ToolResult(Batch, i, patched))
      BY <1>0, <2>2, ToolResultGood
    <2> QED BY <2>1, <2>3, ReadStep
  <1> QED BY <1>1, <1>2, <1>3, <1>4, <1>5, <1>6, <1>7, <1>8 DEF RawEvent

\* runTurn after its loop: what is open gets the synthetic tail, and so does a stream of
\* no events.
LEMMA StreamEndsStep ==
    ASSUME CodexInv, StreamEnds
    PROVE  \E b, before : Step(b, before)
  <1> DEFINE b == IF raws = 0 /\ life = "open" /\ ~abortSet THEN EnqueueError(Batch) ELSE Batch
             c == IF life = "open" /\ NeedsSyntheticTail(b) THEN EmitSyntheticTurnEnd(b) ELSE b
  <1>0. Good(Batch) /\ Batch.frame = frame /\ Batch.events = <<>>
    BY BatchGood
  <1>1. Good(b) /\ (raws # 0 => b = Batch)
    BY <1>0, EnqueueErrorGood
  <1>2. Deliver(c, got, asked) /\ life' = life /\ asked \in BOOLEAN /\ stream' = "none" /\ raws' = raws
        /\ raws \in Nat
    BY CodexAssumption DEF StreamEnds, CodexInv, CodexTypeOK
  <1> HIDE DEF b
  <1>3. /\ Good(c)
        /\ life = "open" => ~c.frame.turnOpen
        /\ life = "open" => Ends(c) \/ (c.events = <<>> /\ raws # 0 /\ ~frame.turnOpen)
    <2>1. CASE life = "open" /\ NeedsSyntheticTail(b)
      <3>1. c = EmitSyntheticTurnEnd(b)
        BY <2>1
      <3> HIDE DEF c
      <3> QED BY <1>1, <3>1, SyntheticTurnEndGood
    <2>2. CASE ~(life = "open" /\ NeedsSyntheticTail(b))
      BY <2>2, <1>0, <1>1 DEF NeedsSyntheticTail
    <2> QED BY <2>1, <2>2
  <1> HIDE DEF c
  <1>4. Step(c, got)
    BY <1>2, <1>3 DEF Step, Good
  <1> QED BY <1>4

\* The catch of runTurn: it emits the tail unless the stream was aborted.
LEMMA StreamThrowsStep ==
    ASSUME CodexInv, StreamThrows
    PROVE  \E b, before : Step(b, before)
  <1>1. Good(Batch) /\ life' = life /\ abortSet' = abortSet /\ asked \in BOOLEAN /\ stream' = "none"
    BY BatchGood DEF StreamThrows, CodexInv, CodexTypeOK
  <1>2. CASE abortSet \/ life # "open"
    <2>1. Deliver(Batch, got, asked)
      BY <1>2 DEF StreamThrows, Quiet
    <2>2. Step(Batch, got)
      BY <1>1, <1>2, <2>1 DEF Step, Good
    <2> QED BY <2>2
  <1>3. CASE ~(abortSet \/ life # "open")
    <2> DEFINE b == EmitSyntheticTurnEnd(EnqueueError(Batch))
    <2>1. Deliver(b, got, asked)
      BY <1>3 DEF StreamThrows
    <2>2. Good(b) /\ Ends(b) /\ ~b.frame.turnOpen
      BY <1>1, EnqueueErrorGood, SyntheticTurnEndGood
    <2> HIDE DEF b
    <2>3. Step(b, got)
      BY <1>1, <1>3, <2>1, <2>2 DEF Step, Good
    <2> QED BY <2>3
  <1> QED BY <1>2, <1>3

\* interrupt() ends the turn itself only without a live stream.
LEMMA InterruptStep ==
    ASSUME CodexInv, Interrupt
    PROVE  \E b, before : Step(b, before)
  <1>1. /\ Good(Batch) /\ Batch.frame = frame /\ stream' = stream /\ life = "open" /\ life' = life
        /\ asked \in BOOLEAN /\ frame.turnOpen \in BOOLEAN /\ frame.turnOpen <=> CanEnvelope(frame)
    BY BatchGood DEF Interrupt, CodexInv, CodexTypeOK, Frame, OpenOnlyAfterAbort
  <1>2. "interrupt" \in Kinds \ {"turn_end", "tool_result", "patch_applied", "session_start"}
    BY DEF Kinds
  <1>3. CASE stream = "none"
    <2> DEFINE b == EmitSyntheticTurnEnd(Emit(Batch, "interrupt"))
    <2>1. Deliver(b, got, asked \/ frame.turnOpen)
      BY <1>3 DEF Interrupt
    <2>2. Good(b) /\ ~b.frame.turnOpen
      BY <1>1, <1>2, EmitGood, SyntheticTurnEndGood
    <2> HIDE DEF b
    <2>3. Step(b, got)
      BY <1>1, <1>3, <2>1, <2>2 DEF Step, Good
    <2> QED BY <2>3
  <1>4. CASE stream # "none"
    <2> DEFINE b == Push(Batch, "interrupt")
    <2>1. Deliver(b, got, asked \/ frame.turnOpen)
      BY <1>4 DEF Interrupt
    <2>2. Good(b)
      <3>1. CASE frame.turnOpen
        BY <1>1, <1>2, <3>1, PlainGood
      <3>2. CASE ~frame.turnOpen
        BY <1>1, <3>2 DEF Push, PushChild
      <3> QED BY <3>1, <3>2
    <2> HIDE DEF b
    <2>3. Step(b, got)
      BY <1>1, <1>4, <2>1, <2>2 DEF Step, Good
    <2> QED BY <2>3
  <1> QED BY <1>3, <1>4

\* Every step delivers one.
LEMMA EveryStep ==
    ASSUME CodexInv, CodexNext
    PROVE  \E b, before : Step(b, before)
  <1>0. Good(Batch) /\ asked \in BOOLEAN
    BY BatchGood DEF CodexInv, CodexTypeOK
  <1>1. CASE Send
    <2> DEFINE b == IF source = "resume" /\ ~frame.sessionStarted THEN EmitResumeSessionStart(Batch) ELSE Batch
    <2>1. Good(b)
      BY <1>0, ProjectionGood
    <2>2. Deliver(b, "nothing", asked) /\ stream = "none" /\ stream' = "opening" /\ life = "open" /\ life' = life
      BY <1>1 DEF Send
    <2> HIDE DEF b
    <2>3. Step(b, "nothing")
      BY <1>0, <2>1, <2>2 DEF Step, Good
    <2> QED BY <2>3
  <1>2. CASE StreamOpens
    <2>1. Deliver(Batch, got, asked) /\ stream = "opening" /\ stream' = "reading" /\ life' = life
      BY <1>2 DEF StreamOpens, Quiet
    <2>2. Step(Batch, got)
      BY <1>0, <2>1 DEF Step, Good
    <2> QED BY <2>2
  <1>3. CASE ShutdownLive
    <2>1. Deliver(Batch, got, asked) /\ life' = "closing" /\ stream' = stream
      BY <1>3 DEF ShutdownLive, Quiet
    <2>2. Step(Batch, got)
      BY <1>0, <2>1 DEF Step, Good
    <2> QED BY <2>2
  <1>4. CASE ShutdownCloses
    <2>1. "session_end" \in Kinds \ {"turn_end", "tool_result", "patch_applied", "session_start"}
      BY DEF Kinds
    <2>2. Framed(EndSession)
      BY <1>0, <2>1, EmitGood, EndTurnFramed DEF EndSession, Good
    <2>3. Deliver(EndSession, got, asked) /\ life' = "closed" /\ stream = "none"
      BY <1>4 DEF ShutdownCloses
    <2>4. Step(EndSession, got)
      BY <1>0, <2>2, <2>3 DEF Step
    <2> QED BY <2>4
  <1> QED BY <1>1, <1>2, <1>3, <1>4, RawEventStep, StreamEndsStep, StreamThrowsStep, InterruptStep DEF CodexNext

\* What a step delivers keeps the invariant.
LEMMA StepKeeps ==
    ASSUME CodexInv, Counted', NEW b, NEW before, Step(b, before)
    PROVE  CodexInv'
  <1>1. /\ frame' = b.frame /\ out' = b.events
        /\ ended' = ended \cup EndedBy(b.events)
        /\ got' = IF Ends(b) THEN "tail" ELSE IF before = "nothing" /\ b.events # <<>> THEN "events" ELSE before
        /\ asked' \in BOOLEAN
    BY DEF Step, Deliver, Ends
  <1>2. /\ b.frame \in Frame /\ Agrees(b.frame) /\ Behind(b.frame) /\ b.frame.turn \in Nat
        /\ b.events \in Seq(Event) /\ \A k \in DOMAIN b.events : Fits(b, k)
    BY FramedTyped DEF Step, Framed
  <1>3. \A t \in EndedBy(b.events) : t \in 1..b.frame.turn /\ (t = b.frame.turn => b.frame.turnClosed)
    BY <1>2 DEF EndedBy, Fits
  <1>4. ended' \subseteq 1..frame'.turn /\ Behind(frame)'
    BY <1>1, <1>2, <1>3 DEF Behind
  <1>5. got' \in {"nothing", "events", "tail"}
    BY <1>1 DEF Step, CodexInv, CodexTypeOK
  <1>6. \A k \in DOMAIN out' : out'[k] \in Event
    BY <1>1, <1>2
  <1>7. CodexTypeOK'
    BY <1>1, <1>2, <1>4, <1>5, <1>6 DEF Counted, CodexTypeOK
  <1>8. OpenOnlyAfterAbort'
    BY <1>1, <1>2 DEF Step, OpenOnlyAfterAbort, Agrees
  <1>9. life' = "open" /\ stream' # "none" /\ got' = "events" => frame'.turnOpen
    <2> SUFFICES ASSUME life' = "open", stream' # "none", got' = "events" PROVE b.frame.turnOpen
      BY <1>1
    <2>1. ~Ends(b) /\ life = "open" /\ Shown(b)
      BY <1>1 DEF Step
    <2>2. CASE b.events # <<>>
      BY <2>1, <2>2 DEF Shown
    <2>3. CASE b.events = <<>>
      <3>1. before = "events"
        BY <1>1, <2>1, <2>3
      <3>2. stream # "none" /\ got = "events"
        BY <3>1 DEF Step
      <3>3. frame.turnOpen
        BY <2>1, <3>2 DEF CodexInv
      <3> QED BY <2>1, <3>3 DEF Shown
    <2> QED BY <2>2, <2>3
  <1> QED BY <1>4, <1>7, <1>8, <1>9 DEF CodexInv, Counted

\* A new handle has no turn open.
LEMMA CodexInitInv == CodexInit => CodexInv
  <1> SUFFICES ASSUME CodexInit PROVE CodexInv
    OBVIOUS
  <1>1. frame = [turnOpen |-> FALSE, sessionStarted |-> FALSE, turn |-> 0, turnClosed |-> FALSE]
    BY DEF CodexInit, FirstFrame
  <1>2. frame \in Frame /\ ~frame.turnOpen /\ ~CanEnvelope(frame)
    BY <1>1 DEF Frame, CanEnvelope
  <1>3. CodexTypeOK
    <2>1. threadId \in BOOLEAN /\ sessionId \in BOOLEAN /\ abortSet \in BOOLEAN /\ asked \in BOOLEAN
      BY DEF CodexInit
    <2>2. calls \in [Items -> 0..MaxSends] /\ raws \in 0..MaxRaw /\ sends \in 0..MaxSends
          /\ interrupts \in 0..MaxInterrupts /\ begun \subseteq Items
      BY CodexAssumption DEF CodexInit
    <2>3. (\A k \in DOMAIN out : out[k] \in Event) /\ ended \subseteq 1..frame.turn
      BY DEF CodexInit
    <2>4. source \in {"spawn", "resume"} /\ life \in {"open", "closing", "closed"}
          /\ stream \in {"none", "opening", "reading"} /\ got \in {"nothing", "events", "tail"}
      BY DEF CodexInit
    <2> QED BY <1>2, <2>1, <2>2, <2>3, <2>4 DEF CodexTypeOK
  <1>4. Remembered
    BY DEF CodexInit, Remembered
  <1> QED BY <1>2, <1>3, <1>4 DEF CodexInit, CodexInv, OpenOnlyAfterAbort, Behind

\* A step of the handle delivers, or nothing happens.
LEMMA NextStep ==
    ASSUME CodexInv, CodexNext
    PROVE  CodexInv' /\ \E b, before : Step(b, before)
  <1>1. Counted
    BY DEF CodexInv, CodexTypeOK, Counted
  <1>2. Counted'
    BY <1>1, CountedKept
  <1> QED BY <1>2, EveryStep, StepKeeps

\* The invariant is inductive.
LEMMA CodexInvKept == CodexInv /\ [CodexNext]_codexVars => CodexInv'
  <1>1. CodexInv /\ UNCHANGED codexVars => CodexInv'
    BY DEF codexVars, sessionVars, pushVars, CodexInv, CodexTypeOK, OpenOnlyAfterAbort, Behind, Remembered
  <1> QED BY <1>1, NextStep

\* The inductive invariant holds throughout every behaviour.
THEOREM CodexInvariant == CodexSpec => []CodexInv
  <1> QED BY CodexInitInv, CodexInvKept, PTL DEF CodexSpec

\* OpenOnlyAfterAbort for every handle: no event is dropped by a catch that
\* handle.ts calls unreachable, and only an abort leaves a turn open between sends.
THEOREM TurnsFramed == CodexSpec => []OpenOnlyAfterAbort
  <1>1. CodexInv => OpenOnlyAfterAbort
    BY DEF CodexInv
  <1> QED BY <1>1, CodexInvariant, PTL

\* What the completion of an item pushes about a tool names the call remembered for it.
LEMMA ResultNamed ==
    ASSUME CodexInv, NEW i \in Items, ToolCompleted(i), NEW k \in DOMAIN out',
           out'[k].kind \in {"tool_result", "patch_applied"}
    PROVE  IF i \in begun THEN out'[k].parent = sends ELSE out'[k].parent < sends
  <1>1. PICK patched \in BOOLEAN : Read(ToolResult(Batch, i, patched), threadId)
    BY DEF ToolCompleted
  <1>2. out' = ToolResult(Batch, i, patched).events
    BY <1>1 DEF Read, Deliver
  <1> DEFINE c == PushChild(OpenTurn(Batch), "tool_result", ParentFor(i))
             d == PushChild(c, "patch_applied", ParentFor(i))
  <1>3. Good(OpenTurn(Batch)) /\ OpenTurn(Batch).frame.turnOpen /\ OpenTurn(Batch).events = <<>>
    BY BatchGood, OpenTurnGood DEF OpenTurn, StartTurn
  <1>4. calls[i] \in Nat /\ {"tool_result", "patch_applied"} \subseteq Kinds \ {"turn_end"}
    BY CodexAssumption DEF CodexInv, CodexTypeOK, Kinds
  <1>5. Good(c) /\ c.frame.turnOpen /\ \A n \in DOMAIN c.events : c.events[n].parent = calls[i]
    <2>1. Good(c) /\ c.frame.turnOpen
      BY <1>3, <1>4, PushGood DEF ParentFor
    <2>2. c.events = Append(<<>>, [kind |-> "tool_result", turn |-> OpenTurn(Batch).frame.turn, parent |-> calls[i]])
      BY <1>3 DEF PushChild, ParentFor, Good, Framed, Agrees
    <2> QED BY <2>1, <2>2
  <1> HIDE DEF c
  <1>6. \A n \in DOMAIN d.events : d.events[n].parent = calls[i]
    <2> DEFINE ev == [kind |-> "patch_applied", turn |-> c.frame.turn, parent |-> calls[i]]
    <2>1. d.events = Append(c.events, ev) /\ c.events \in Seq(Event)
      BY <1>5 DEF PushChild, ParentFor, Good, Framed, Agrees
    <2>2. ev.parent = calls[i]
      OBVIOUS
    <2> HIDE DEF ev, d
    <2> QED BY <1>5, <2>1, <2>2
  <1> HIDE DEF d
  <1>7. out'[k].parent = calls[i]
    BY <1>2, <1>5, <1>6 DEF ToolResult, c, d
  <1>8. stream # "none" /\ sends \in Nat
    BY <1>1, CodexAssumption DEF Read, CodexInv, CodexTypeOK
  <1> QED BY <1>4, <1>7, <1>8 DEF CodexInv, Remembered

\* handle.ts and its projector, for any number of sends, SDK events, interrupts and items:
\* no event joins a turn that has ended, the session is announced once, a send that is not
\* aborted gets its tail, and a result names the call its own stream announced, or, when it
\* announced none, none or one of an earlier turn.
THEOREM StreamCorrect == CodexSpec => []CodexTypeOK /\ StreamWellFormed /\ TailPushed /\ ResultLinked
  <1> DEFINE WellFormed ==
               /\ \A k \in DOMAIN out' :
                    /\ out'[k].turn \notin ended
                    /\ \A n \in 1..(k - 1) : out'[n].kind = "turn_end" => out'[n].turn # out'[k].turn
                    /\ out'[k].kind = "session_start" => ~frame.sessionStarted
               /\ frame.sessionStarted => frame'.sessionStarted
             Tail1 == stream # "none" /\ stream' = "none" /\ ~abortSet' /\ life = "open" =>
                        got' = "tail" \/ (raws' > 0 /\ got' = "nothing")
             Named == \A i \in Items : ToolCompleted(i) =>
                        \A k \in DOMAIN out' :
                          out'[k].kind \in {"tool_result", "patch_applied"} =>
                            IF i \in begun THEN out'[k].parent = sends ELSE out'[k].parent < sends
  <1>1. CodexInv => CodexTypeOK
    BY DEF CodexInv
  <1>2. CodexInv /\ [CodexNext]_codexVars => [WellFormed]_codexVars /\ [Tail1]_codexVars /\ [Named]_codexVars
    <2> SUFFICES ASSUME CodexInv, CodexNext PROVE WellFormed /\ Tail1 /\ Named
      OBVIOUS
    <2>1. PICK b, before : Step(b, before)
      BY NextStep
    <2>2. /\ frame' = b.frame /\ out' = b.events
          /\ got' = IF Ends(b) THEN "tail" ELSE IF before = "nothing" /\ b.events # <<>> THEN "events" ELSE before
      BY <2>1 DEF Step, Deliver, Ends
    <2>3. Framed(b)
      BY <2>1 DEF Step
    <2>4. WellFormed
      BY <2>2, <2>3 DEF Framed, Fits
    <2>6. Named
      BY ResultNamed
    <2>5. Tail1
      <3> SUFFICES ASSUME stream # "none", stream' = "none", ~abortSet', life = "open", ~Ends(b)
                   PROVE  got' = "tail" \/ (raws' > 0 /\ got' = "nothing")
        BY <2>2
      <3>1. b.events = <<>> /\ before = got /\ raws' > 0 /\ ~frame.turnOpen
        BY <2>1 DEF Step
      <3>2. got # "events" /\ got \in {"nothing", "events", "tail"}
        BY <3>1 DEF CodexInv, CodexTypeOK
      <3> QED BY <2>2, <3>1, <3>2
    <2> QED BY <2>4, <2>5, <2>6
  <1> QED BY <1>1, <1>2, CodexInvariant, PTL DEF CodexSpec, StreamWellFormed, TailPushed, ResultLinked

-----------------------------------------------------------------------------
(* The swarm. *)

Calls == [mode : {"none", "start", "stop", "teardown"}, at : Nat, failing : Nat, owns : BOOLEAN]

\* A role is registered once; a call that waits stands at a role.
SwarmTyped ==
    /\ swarmState \in RoleStates /\ roleState \in [SwarmRoles -> RoleStates]
    /\ roleSeq \in Seq(SwarmRoles)
    /\ \A i, j \in DOMAIN roleSeq : i # j => roleSeq[i] # roleSeq[j]
    /\ leaving \subseteq SwarmRoles /\ escalated \subseteq SwarmRoles
    /\ microtask \in BOOLEAN /\ emitterOn \in BOOLEAN /\ listening \in BOOLEAN /\ crossed \in BOOLEAN
    /\ starter \in Calls /\ starter.mode # "stop"
    /\ stopper \in Calls /\ stopper.mode \in {"none", "stop"}
    /\ starter = Idle \/ (starter.mode # "none" /\ starter.at \in 1..Len(roleSeq))
    /\ stopper = Idle \/ (stopper.mode # "none" /\ stopper.at \in 1..Len(roleSeq))

\* A role that goes down by itself was started and has said so.
LeavingKnown == \A q \in leaving : q \in escalated /\ roleState[q] # "idle"

State(i) == roleState[roleSeq[i]]
Up(i) == State(i) = "running" \/ (State(i) = "stopped" /\ roleSeq[i] \in escalated)

\* Where every role is while start waits for one, tears down, or stop waits for one.
Idles == starter = Idle /\ stopper = Idle
IdleFits == swarmState = "idle" => Idles /\ \A q \in SwarmRoles : roleState[q] = "idle"
StartFits ==
    swarmState = "starting" =>
        /\ stopper = Idle /\ starter # Idle
        /\ starter.mode = "start" =>
              /\ \A i \in DOMAIN roleSeq : i < starter.at => Up(i)
              /\ State(starter.at) = "starting"
                   \/ (State(starter.at) = "stopped" /\ roleSeq[starter.at] \in escalated)
              /\ \A i \in DOMAIN roleSeq : i > starter.at => State(i) = "idle"
        /\ starter.mode = "teardown" =>
              /\ starter.owns
              /\ State(starter.at) \in {"stopping", "stopped"}
              /\ \A i \in DOMAIN roleSeq : i < starter.at => State(i) \in {"idle", "running", "stopped"}
              /\ \A i \in DOMAIN roleSeq : i > starter.at => State(i) \in {"idle", "stopped"}
              /\ starter.failing \in DOMAIN roleSeq => State(starter.failing) = "stopped"
RunFits == swarmState = "running" => Idles /\ \A i \in DOMAIN roleSeq : Up(i)
StopFits ==
    swarmState = "stopping" =>
        /\ starter = Idle /\ stopper # Idle /\ stopper.owns
        /\ State(stopper.at) \in {"stopping", "stopped"}
        /\ \A i \in DOMAIN roleSeq : i < stopper.at => State(i) \in {"idle", "running", "stopped"}
        /\ \A i \in DOMAIN roleSeq : i > stopper.at => State(i) = "stopped"
StoppedFits ==
    swarmState = "stopped" => Idles /\ \A i \in DOMAIN roleSeq : State(i) \in {"idle", "stopped"}

SwarmFits == ~crossed => IdleFits /\ StartFits /\ RunFits /\ StopFits /\ StoppedFits

SwarmInv == SwarmTyped /\ LeavingKnown /\ SwarmFits

LEMMA SwarmInitInv == SwarmInit => SwarmInv
<1> SUFFICES ASSUME SwarmInit PROVE SwarmInv
  OBVIOUS
<1>1. SwarmTyped
  <2>1. Idle \in Calls /\ Idle.mode = "none"
    BY DEF Idle, Calls
  <2>2. roleSeq \in Seq(SwarmRoles) /\ DOMAIN roleSeq = {}
    BY DEF SwarmInit
  <2>3. roleState \in [SwarmRoles -> RoleStates] /\ swarmState \in RoleStates
    BY DEF SwarmInit, RoleStates
  <2> QED BY <2>1, <2>2, <2>3 DEF SwarmInit, SwarmTyped
<1>2. LeavingKnown
  BY DEF SwarmInit, LeavingKnown
<1>3. SwarmFits
  BY DEF SwarmInit, SwarmFits, IdleFits, StartFits, RunFits, StopFits, StoppedFits, Idles
<1> QED BY <1>1, <1>2, <1>3 DEF SwarmInv

\* A role escalates or goes down; nobody waits for anything else.
LEMMA RolesMove ==
    ASSUME SwarmInv, escalated \subseteq escalated', escalated' \subseteq SwarmRoles,
           leaving' \subseteq escalated', microtask' \in BOOLEAN,
           \A q \in leaving' : roleState'[q] # "idle",
           roleState' \in [SwarmRoles -> RoleStates],
           \A q \in SwarmRoles : roleState'[q] # roleState[q] => q \in leaving /\ roleState'[q] = "stopped",
           UNCHANGED <<swarmState, roleSeq, starter, stopper, listening, emitterOn, crossed>>
    PROVE  SwarmInv'
<1>1. SwarmTyped' /\ LeavingKnown'
  BY DEF SwarmInv, SwarmTyped, LeavingKnown
<1>2. \A i \in DOMAIN roleSeq :
         /\ roleSeq[i] \in SwarmRoles
         /\ State(i)' = State(i)
              \/ (State(i) # "idle" /\ State(i)' = "stopped" /\ roleSeq[i] \in escalated')
  BY DEF SwarmInv, SwarmTyped, LeavingKnown, State
<1>3. \A i \in DOMAIN roleSeq : Up(i) => Up(i)'
  BY <1>2 DEF Up, State
<1>4. IdleFits => IdleFits'
  BY DEF IdleFits, SwarmInv, LeavingKnown, Idles
<1>5. StartFits => StartFits'
  <2> SUFFICES ASSUME StartFits, swarmState = "starting" PROVE StartFits'
    BY DEF StartFits
  <2>1. starter.at \in DOMAIN roleSeq
    BY DEF SwarmInv, SwarmTyped, StartFits
  <2> QED BY <1>2, <1>3, <2>1 DEF StartFits, State
<1>6. (RunFits => RunFits') /\ (StoppedFits => StoppedFits')
  BY <1>2, <1>3 DEF RunFits, StoppedFits, Idles
<1>7. StopFits => StopFits'
  <2> SUFFICES ASSUME StopFits, swarmState = "stopping" PROVE StopFits'
    BY DEF StopFits
  <2>1. stopper.at \in DOMAIN roleSeq
    BY DEF SwarmInv, SwarmTyped, StopFits
  <2> QED BY <1>2, <2>1 DEF StopFits
<1> QED BY <1>1, <1>4, <1>5, <1>6, <1>7 DEF SwarmInv, SwarmFits

\* A role is registered before anything runs.
LEMMA AddKeeps == ASSUME SwarmInv, NEW q \in SwarmRoles, addRole(q) PROVE SwarmInv'
<1>1. /\ roleSeq' \in Seq(SwarmRoles) /\ Len(roleSeq') = Len(roleSeq) + 1
      /\ \A i \in DOMAIN roleSeq : roleSeq'[i] = roleSeq[i]
      /\ roleSeq'[Len(roleSeq) + 1] = q
  BY DEF addRole, SwarmInv, SwarmTyped
<1>2. \A i \in DOMAIN roleSeq' : i \in DOMAIN roleSeq \/ i = Len(roleSeq) + 1
  BY <1>1 DEF SwarmInv, SwarmTyped
<1>3. \A i, j \in DOMAIN roleSeq' : i # j => roleSeq'[i] # roleSeq'[j]
  <2> SUFFICES ASSUME NEW i \in DOMAIN roleSeq', NEW j \in DOMAIN roleSeq', i # j
               PROVE  roleSeq'[i] # roleSeq'[j]
    OBVIOUS
  <2>1. CASE i \in DOMAIN roleSeq /\ j \in DOMAIN roleSeq
    BY <2>1, <1>1 DEF SwarmInv, SwarmTyped
  <2>2. CASE i = Len(roleSeq) + 1 /\ j \in DOMAIN roleSeq
    BY <2>2, <1>1 DEF addRole
  <2>3. CASE i \in DOMAIN roleSeq /\ j = Len(roleSeq) + 1
    BY <2>3, <1>1 DEF addRole
  <2> QED BY <1>2, <2>1, <2>2, <2>3
<1>4. SwarmTyped'
  BY <1>1, <1>3 DEF addRole, SwarmInv, SwarmTyped
<1>5. LeavingKnown' /\ SwarmFits'
  BY DEF addRole, SwarmInv, LeavingKnown, SwarmFits, IdleFits, StartFits, RunFits, StopFits, StoppedFits, Idles
<1> QED BY <1>4, <1>5 DEF SwarmInv

-----------------------------------------------------------------------------
(* stop. *)

\* stop goes on with a role below which nothing has been stopped by it.
LEMMA StopGoesOn ==
    ASSUME SwarmInv, NEW states \in [SwarmRoles -> RoleStates], NEW n \in 0..Len(roleSeq), StopFrom(states, n),
           \A q \in leaving : states[q] # "idle", microtask' \in BOOLEAN, crossed' \in BOOLEAN,
           ~crossed' => /\ starter = Idle
                        /\ \A i \in DOMAIN roleSeq : i <= n => states[roleSeq[i]] \in {"idle", "running", "stopped"}
                        /\ \A i \in DOMAIN roleSeq : i > n => states[roleSeq[i]] = "stopped",
           UNCHANGED <<roleSeq, leaving, starter, emitterOn, escalated>>
    PROVE  SwarmInv'
<1>0. /\ roleSeq \in Seq(SwarmRoles) /\ DOMAIN roleSeq = 1..Len(roleSeq) /\ Len(roleSeq) \in Nat
      /\ \A i, j \in DOMAIN roleSeq : i # j => roleSeq[i] # roleSeq[j]
      /\ \A i \in DOMAIN roleSeq : roleSeq[i] \in SwarmRoles
  BY DEF SwarmInv, SwarmTyped
<1>1. CASE n = 0
  <2>1. stopper' = Idle /\ roleState' = states /\ swarmState' = "stopped" /\ listening' = FALSE
    BY <1>1 DEF StopFrom
  <2>2. Idle \in Calls /\ Idle.mode = "none"
    BY DEF Idle, Calls
  <2>3. SwarmTyped'
    BY <2>1, <2>2 DEF SwarmInv, SwarmTyped, RoleStates
  <2>4. LeavingKnown'
    BY <2>1 DEF SwarmInv, LeavingKnown
  <2>5. SwarmFits'
    BY <1>0, <1>1, <2>1 DEF SwarmFits, IdleFits, StartFits, RunFits, StopFits, StoppedFits, Idles, State
  <2> QED BY <2>3, <2>4, <2>5 DEF SwarmInv
<1>2. CASE n > 0
  <2> DEFINE call == [mode |-> "stop", at |-> n, failing |-> 0, owns |-> Owns(states, n)]
  <2>1. /\ stopper' = call /\ roleState' = StopCalled(states, n) /\ swarmState' = "stopping"
        /\ UNCHANGED listening
    BY <1>2 DEF StopFrom, Idle
  <2>2. call \in Calls /\ call.mode = "stop" /\ call.at = n /\ call # Idle
        /\ call.owns = (states[roleSeq[n]] # "stopping")
    BY DEF Idle, Calls, Owns
  <2>3. n \in DOMAIN roleSeq
    BY <1>0, <1>2
  <2>4. /\ roleState' \in [SwarmRoles -> RoleStates]
        /\ roleState'[roleSeq[n]] = IF states[roleSeq[n]] \in {"idle", "stopped"} THEN "stopped" ELSE "stopping"
        /\ \A q \in SwarmRoles : q # roleSeq[n] => roleState'[q] = states[q]
    BY <1>0, <2>1, <2>3 DEF StopCalled, RoleStates
  <2> HIDE DEF call
  <2>5. SwarmTyped'
    BY <1>2, <2>1, <2>2, <2>3, <2>4 DEF SwarmInv, SwarmTyped, RoleStates
  <2>6. LeavingKnown'
    BY <1>0, <2>4, <2>3 DEF SwarmInv, LeavingKnown, SwarmTyped
  <2>7. StopFits' \/ crossed'
    <3> SUFFICES ASSUME ~crossed' PROVE StopFits'
      OBVIOUS
    <3>0. states[roleSeq[n]] \in {"idle", "running", "stopped"}
      BY <2>3
    <3>1. State(n)' \in {"stopping", "stopped"} /\ call.owns = TRUE
      BY <2>2, <2>4, <3>0 DEF State
    <3>2. \A i \in DOMAIN roleSeq : i # n => State(i)' = states[roleSeq[i]]
      BY <1>0, <2>3, <2>4 DEF State
    <3> QED BY <1>0, <2>1, <2>2, <3>1, <3>2 DEF StopFits, State
  <2>8. SwarmFits'
    BY <2>1, <2>7 DEF SwarmFits, IdleFits, StartFits, RunFits, StoppedFits
  <2> QED BY <2>5, <2>6, <2>8 DEF SwarmInv
<1> QED BY <1>0, <1>1, <1>2

LEMMA StopKeeps == ASSUME SwarmInv, stop, microtask' \in BOOLEAN PROVE SwarmInv'
<1>1. /\ roleSeq \in Seq(SwarmRoles) /\ Len(roleSeq) \in 0..Len(roleSeq) /\ roleState \in [SwarmRoles -> RoleStates]
      /\ \A q \in leaving : roleState[q] # "idle"
      /\ DOMAIN roleSeq = 1..Len(roleSeq) /\ \A i \in DOMAIN roleSeq : roleSeq[i] \in SwarmRoles
  BY DEF SwarmInv, SwarmTyped, LeavingKnown
<1>2. StopFrom(roleState, Len(roleSeq)) /\ UNCHANGED <<roleSeq, leaving, starter, emitterOn, escalated>>
  BY DEF stop
<1>3. crossed' \in BOOLEAN /\ (~crossed' => ~crossed /\ starter = Idle)
  BY DEF stop, SwarmInv, SwarmTyped
<1>4. ~crossed' => \A i \in DOMAIN roleSeq : roleState[roleSeq[i]] \in {"idle", "running", "stopped"}
  <2> SUFFICES ASSUME ~crossed' PROVE \A i \in DOMAIN roleSeq : State(i) \in {"idle", "running", "stopped"}
    BY DEF State
  <2>1. swarmState \in {"idle", "running"}
    BY <1>3 DEF stop, SwarmInv, SwarmTyped, SwarmFits, StartFits, RoleStates
  <2> QED BY <1>1, <1>3, <2>1 DEF SwarmInv, SwarmFits, IdleFits, RunFits, Up, State
<1> QED BY <1>1, <1>2, <1>3, <1>4, StopGoesOn

\* What a call of a role's stop leaves when it returns.
LEMMA StoppedStates ==
    ASSUME SwarmInv, NEW call \in Calls, call.at \in 1..Len(roleSeq)
    PROVE  /\ Stopped(call) \in [SwarmRoles -> RoleStates]
           /\ \A q \in leaving : Stopped(call)[q] # "idle"
           /\ call.owns => Stopped(call)[roleSeq[call.at]] = "stopped"
           /\ \A i \in DOMAIN roleSeq : i # call.at => Stopped(call)[roleSeq[i]] = State(i)
<1>1. /\ call.at \in DOMAIN roleSeq /\ \A i, j \in DOMAIN roleSeq : i # j => roleSeq[i] # roleSeq[j]
      /\ \A i \in DOMAIN roleSeq : roleSeq[i] \in SwarmRoles
      /\ roleState \in [SwarmRoles -> RoleStates] /\ "stopped" \in RoleStates
      /\ leaving \subseteq SwarmRoles /\ \A q \in leaving : roleState[q] # "idle"
  BY DEF SwarmInv, SwarmTyped, LeavingKnown, RoleStates
<1> QED BY <1>1 DEF Stopped, State

LEMMA StopReturnsKeeps == ASSUME SwarmInv, StopReturns PROVE SwarmInv'
<1>1. /\ stopper \in Calls /\ stopper.at \in 1..Len(roleSeq) /\ Len(roleSeq) \in Nat
      /\ microtask \in BOOLEAN /\ crossed \in BOOLEAN /\ stopper # Idle
  BY DEF SwarmInv, SwarmTyped, StopReturns
<1>2. /\ StopFrom(Stopped(stopper), stopper.at - 1)
      /\ UNCHANGED <<roleSeq, leaving, starter, microtask, emitterOn, escalated, crossed>>
  BY DEF StopReturns
<1>3. ~crossed => swarmState = "stopping" /\ StopFits
  BY <1>1 DEF SwarmInv, SwarmFits, IdleFits, StartFits, RunFits, StoppedFits, Idles, SwarmTyped, RoleStates
<1>4. ~crossed =>
         /\ starter = Idle
         /\ \A i \in DOMAIN roleSeq : i <= stopper.at - 1
               => Stopped(stopper)[roleSeq[i]] \in {"idle", "running", "stopped"}
         /\ \A i \in DOMAIN roleSeq : i > stopper.at - 1 => Stopped(stopper)[roleSeq[i]] = "stopped"
  <2> SUFFICES ASSUME ~crossed, NEW i \in DOMAIN roleSeq
               PROVE  /\ starter = Idle
                      /\ i <= stopper.at - 1 => Stopped(stopper)[roleSeq[i]] \in {"idle", "running", "stopped"}
                      /\ i > stopper.at - 1 => Stopped(stopper)[roleSeq[i]] = "stopped"
    BY <1>3 DEF StopFits
  <2>1. i \in Nat /\ stopper.at \in Nat
    BY <1>1 DEF SwarmInv, SwarmTyped
  <2>2. CASE i = stopper.at
    BY <1>1, <1>3, <2>1, <2>2, StoppedStates DEF StopFits
  <2>3. CASE i # stopper.at
    <3>1. Stopped(stopper)[roleSeq[i]] = State(i)
      BY <1>1, <2>3, StoppedStates
    <3> QED BY <1>1, <1>3, <2>1, <2>3, <3>1 DEF StopFits
  <2> QED BY <2>2, <2>3
<1>5. stopper.at - 1 \in 0..Len(roleSeq) /\ Stopped(stopper) \in [SwarmRoles -> RoleStates]
      /\ \A q \in leaving : Stopped(stopper)[q] # "idle"
  BY <1>1, StoppedStates
<1> QED BY <1>1, <1>2, <1>4, <1>5, StopGoesOn

-----------------------------------------------------------------------------
(* start. *)

\* start goes on with role number n, the roles before it being up.
LEMMA StartGoesOn ==
    ASSUME SwarmInv, NEW states \in [SwarmRoles -> RoleStates], NEW n \in 1..(Len(roleSeq) + 1), StartFrom(states, n),
           \A q \in leaving : states[q] # "idle", crossed' = crossed,
           ~crossed => /\ stopper = Idle /\ swarmState \in {"idle", "starting"}
                       /\ \A i \in DOMAIN roleSeq :
                             i < n => states[roleSeq[i]] = "running"
                                        \/ (states[roleSeq[i]] = "stopped" /\ roleSeq[i] \in escalated)
                       /\ \A i \in DOMAIN roleSeq : i >= n => states[roleSeq[i]] = "idle",
           UNCHANGED <<roleSeq, leaving, stopper, listening, microtask, emitterOn, escalated>>
    PROVE  SwarmInv'
<1>0. /\ roleSeq \in Seq(SwarmRoles) /\ DOMAIN roleSeq = 1..Len(roleSeq) /\ Len(roleSeq) \in Nat
      /\ \A i, j \in DOMAIN roleSeq : i # j => roleSeq[i] # roleSeq[j]
      /\ \A i \in DOMAIN roleSeq : roleSeq[i] \in SwarmRoles
  BY DEF SwarmInv, SwarmTyped
<1>00. Idle \in Calls /\ Idle.mode = "none"
  BY DEF Idle, Calls
<1>1. CASE n > Len(roleSeq)
  <2>1. swarmState' = "running" /\ starter' = Idle /\ roleState' = states
    BY <1>1 DEF StartFrom
  <2>2. SwarmTyped' /\ LeavingKnown'
    BY <1>00, <2>1 DEF SwarmInv, SwarmTyped, LeavingKnown, RoleStates
  <2>3. SwarmFits'
    <3> SUFFICES ASSUME ~crossed PROVE RunFits'
      BY <2>1 DEF SwarmFits, IdleFits, StartFits, StopFits, StoppedFits
    <3>1. \A i \in DOMAIN roleSeq : i < n
      BY <1>0, <1>1
    <3> QED BY <1>0, <2>1, <3>1 DEF RunFits, Idles, Up, State
  <2> QED BY <2>2, <2>3 DEF SwarmInv
<1>2. CASE n <= Len(roleSeq) /\ states[roleSeq[n]] = "idle"
  <2> DEFINE call == [Idle EXCEPT !.mode = "start", !.at = n]
  <2>1. /\ starter' = call /\ roleState' = [states EXCEPT ![roleSeq[n]] = "starting"]
        /\ swarmState' = IF swarmState = "idle" THEN "starting" ELSE swarmState
    BY <1>0, <1>2 DEF StartFrom
  <2>2. call \in Calls /\ call.mode = "start" /\ call.at = n /\ call # Idle
    <3>1. n \in Nat
      BY <1>0
    <3>2. \A c \in Calls : [c EXCEPT !.mode = "start", !.at = n] \in Calls
      BY <3>1 DEF Calls
    <3>3. call \in Calls /\ call.mode = "start" /\ call.at = n
      BY <1>00, <3>2 DEF Calls
    <3> HIDE DEF call
    <3> QED BY <1>00, <3>3
  <2>3. n \in DOMAIN roleSeq
    BY <1>0, <1>2
  <2>4. /\ roleState' \in [SwarmRoles -> RoleStates]
        /\ roleState'[roleSeq[n]] = "starting"
        /\ \A q \in SwarmRoles : q # roleSeq[n] => roleState'[q] = states[q]
    BY <1>0, <2>1, <2>3 DEF RoleStates
  <2> HIDE DEF call
  <2>5. SwarmTyped'
    BY <1>0, <2>1, <2>2, <2>3, <2>4 DEF SwarmInv, SwarmTyped, RoleStates
  <2>6. LeavingKnown'
    BY <1>0, <2>3, <2>4 DEF SwarmInv, LeavingKnown, SwarmTyped
  <2>7. ASSUME ~crossed PROVE swarmState' = "starting" /\ StartFits'
    <3>1. State(n)' = "starting" /\ \A i \in DOMAIN roleSeq : i # n => State(i)' = states[roleSeq[i]]
      BY <1>0, <2>3, <2>4 DEF State
    <3>2. swarmState' = "starting"
      BY <2>1, <2>7
    <3>3. \A i \in DOMAIN roleSeq : i < n => Up(i)'
      BY <1>0, <2>3, <2>7, <3>1 DEF Up, State
    <3>4. \A i \in DOMAIN roleSeq : i > n => State(i)' = "idle"
      BY <1>0, <2>3, <2>7, <3>1
    <3> QED BY <2>1, <2>2, <2>7, <3>1, <3>2, <3>3, <3>4 DEF StartFits, State
  <2>8. SwarmFits'
    BY <2>7 DEF SwarmFits, IdleFits, RunFits, StopFits, StoppedFits
  <2> QED BY <2>5, <2>6, <2>8 DEF SwarmInv
<1>3. CASE n <= Len(roleSeq) /\ states[roleSeq[n]] # "idle"
  <2>1. starter' = Idle /\ roleState' = states /\ UNCHANGED swarmState
    BY <1>3 DEF StartFrom
  <2>2. crossed
    BY <1>0, <1>3
  <2> QED BY <1>00, <2>1, <2>2 DEF SwarmInv, SwarmTyped, LeavingKnown, SwarmFits
<1> QED BY <1>0, <1>1, <1>2, <1>3

LEMMA StartKeeps == ASSUME SwarmInv, start PROVE SwarmInv'
<1>1. /\ roleState \in [SwarmRoles -> RoleStates] /\ 1 \in 1..(Len(roleSeq) + 1)
      /\ DOMAIN roleSeq = 1..Len(roleSeq) /\ Len(roleSeq) \in Nat
      /\ \A i \in DOMAIN roleSeq : roleSeq[i] \in SwarmRoles
      /\ \A q \in leaving : roleState[q] # "idle"
  BY DEF SwarmInv, SwarmTyped, LeavingKnown
<1>2. StartFrom(roleState, 1) /\ swarmState = "idle"
      /\ UNCHANGED <<roleSeq, leaving, stopper, listening, microtask, emitterOn, escalated, crossed>>
  BY DEF start
<1>3. ~crossed => stopper = Idle /\ \A i \in DOMAIN roleSeq : roleState[roleSeq[i]] = "idle"
  BY <1>1, <1>2 DEF SwarmInv, SwarmFits, IdleFits, Idles
<1>4. \A i \in DOMAIN roleSeq : ~(i < 1)
  BY <1>1
<1> QED BY <1>1, <1>2, <1>3, <1>4, StartGoesOn

\* While start waits for a role.
LEMMA Starting ==
    ASSUME SwarmInv, starter.mode = "start"
    PROVE  /\ starter.at \in 1..Len(roleSeq) /\ starter.at \in Nat /\ starter # Idle
           /\ Len(roleSeq) \in Nat /\ DOMAIN roleSeq = 1..Len(roleSeq)
           /\ \A i \in DOMAIN roleSeq : roleSeq[i] \in SwarmRoles
           /\ \A i, j \in DOMAIN roleSeq : i # j => roleSeq[i] # roleSeq[j]
           /\ ~crossed => swarmState = "starting" /\ StartFits
<1>1. starter # Idle
  BY DEF Idle
<1> QED BY <1>1 DEF SwarmInv, SwarmTyped, SwarmFits, IdleFits, RunFits, StopFits, StoppedFits, Idles, RoleStates

LEMMA RoleStartsKeeps == ASSUME SwarmInv, RoleStarts PROVE SwarmInv'
<1> DEFINE states == [roleState EXCEPT ![roleSeq[starter.at]] = "running"]
<1>1. /\ starter.mode = "start" /\ StartFrom(states, starter.at + 1)
      /\ UNCHANGED <<roleSeq, leaving, stopper, listening, microtask, emitterOn, escalated, crossed>>
  BY DEF RoleStarts
<1>2. /\ starter.at \in DOMAIN roleSeq /\ starter.at \in Nat /\ DOMAIN roleSeq = 1..Len(roleSeq) /\ Len(roleSeq) \in Nat
      /\ \A i \in DOMAIN roleSeq : roleSeq[i] \in SwarmRoles
      /\ \A i, j \in DOMAIN roleSeq : i # j => roleSeq[i] # roleSeq[j]
      /\ ~crossed => swarmState = "starting" /\ StartFits
  BY <1>1, Starting
<1>3. /\ states \in [SwarmRoles -> RoleStates] /\ states[roleSeq[starter.at]] = "running"
      /\ \A i \in DOMAIN roleSeq : i # starter.at => states[roleSeq[i]] = State(i)
      /\ \A q \in SwarmRoles : states[q] = roleState[q] \/ states[q] = "running"
  BY <1>2 DEF SwarmInv, SwarmTyped, RoleStates, State
<1> HIDE DEF states
<1>4. \A q \in leaving : states[q] # "idle"
  BY <1>3 DEF SwarmInv, SwarmTyped, LeavingKnown
<1>5. ASSUME ~crossed
      PROVE  /\ stopper = Idle
             /\ \A i \in DOMAIN roleSeq :
                   i < starter.at + 1 => states[roleSeq[i]] = "running"
                                           \/ (states[roleSeq[i]] = "stopped" /\ roleSeq[i] \in escalated)
             /\ \A i \in DOMAIN roleSeq : i >= starter.at + 1 => states[roleSeq[i]] = "idle"
  <2>1. StartFits /\ swarmState = "starting"
    BY <1>2, <1>5
  <2> SUFFICES ASSUME NEW i \in DOMAIN roleSeq
               PROVE  /\ i < starter.at + 1 => states[roleSeq[i]] = "running"
                                                  \/ (states[roleSeq[i]] = "stopped" /\ roleSeq[i] \in escalated)
                      /\ i >= starter.at + 1 => states[roleSeq[i]] = "idle"
    BY <2>1 DEF StartFits
  <2>2. i \in Nat
    BY <1>2
  <2>3. CASE i = starter.at
    BY <1>2, <1>3, <2>3
  <2>4. CASE i # starter.at
    <3>1. states[roleSeq[i]] = State(i)
      BY <1>3, <2>4
    <3> QED BY <1>1, <1>2, <2>1, <2>2, <2>4, <3>1 DEF StartFits, Up, State
  <2> QED BY <2>3, <2>4
<1>6. starter.at + 1 \in 1..(Len(roleSeq) + 1)
  BY <1>2
<1> QED BY <1>1, <1>2, <1>3, <1>4, <1>5, <1>6, StartGoesOn

\* A set of places has a last one.
LEMMA LastPlace ==
    ASSUME NEW n \in Nat, NEW S \in SUBSET (1..n), S # {}
    PROVE  \E k \in S : \A j \in S : j <= k
<1> DEFINE T == {n - k : k \in S}
<1>1. T \in SUBSET Nat /\ T # {}
  <2>1. \A k \in S : n - k \in Nat
    OBVIOUS
  <2> QED BY <2>1
<1> HIDE DEF T
<1>2. PICK m \in T : \A j \in T : ~(<<j, m>> \in OpToRel(<, Nat))
  BY <1>1, WFMin, NatLessThanWellFounded
<1>3. \A j \in T : ~(j < m)
  BY <1>1, <1>2 DEF OpToRel
<1>4. PICK k \in S : m = n - k
  BY <1>2 DEF T
<1>5. \A j \in S : ~(n - j < n - k)
  BY <1>3, <1>4 DEF T
<1>6. \A j \in S : j <= k
  BY <1>5
<1> QED BY <1>6

\* The teardown goes on below role number n, the roles from there on being down.
LEMMA TeardownGoesOn ==
    ASSUME SwarmInv, NEW states \in [SwarmRoles -> RoleStates], NEW n \in 0..Len(roleSeq), NEW failing \in Nat,
           TeardownFrom(states, n, failing), \A q \in leaving' : states[q] # "idle", crossed' = crossed,
           leaving' = leaving, escalated \subseteq escalated', escalated' \subseteq SwarmRoles, microtask' \in BOOLEAN,
           ~crossed => /\ stopper = Idle /\ swarmState = "starting"
                       /\ \A i \in DOMAIN roleSeq : i <= n => states[roleSeq[i]] \in {"idle", "running", "stopped"}
                       /\ \A i \in DOMAIN roleSeq : i > n => states[roleSeq[i]] \in {"idle", "stopped"}
                       /\ failing \in DOMAIN roleSeq => states[roleSeq[failing]] = "stopped",
           UNCHANGED <<roleSeq, stopper, emitterOn>>
    PROVE  SwarmInv'
<1> DEFINE due == {k \in 1..n : k # failing /\ states[roleSeq[k]] = "running"}
<1>0. /\ roleSeq \in Seq(SwarmRoles) /\ DOMAIN roleSeq = 1..Len(roleSeq) /\ Len(roleSeq) \in Nat
      /\ \A i, j \in DOMAIN roleSeq : i # j => roleSeq[i] # roleSeq[j]
      /\ \A i \in DOMAIN roleSeq : roleSeq[i] \in SwarmRoles
      /\ leaving \subseteq escalated
  BY DEF SwarmInv, SwarmTyped, LeavingKnown
<1>00. Idle \in Calls /\ Idle.mode = "none"
  BY DEF Idle, Calls
<1>1. CASE due = {}
  <2>1. starter' = Idle /\ roleState' = states /\ swarmState' = "stopped" /\ listening' = FALSE
    BY <1>1 DEF TeardownFrom
  <2>2. SwarmTyped' /\ LeavingKnown'
    BY <1>0, <1>00, <2>1 DEF SwarmInv, SwarmTyped, LeavingKnown, RoleStates
  <2>3. SwarmFits'
    <3> SUFFICES ASSUME ~crossed PROVE StoppedFits'
      BY <2>1 DEF SwarmFits, IdleFits, StartFits, RunFits, StopFits
    <3>1. \A i \in DOMAIN roleSeq : states[roleSeq[i]] \in {"idle", "stopped"}
      <4> SUFFICES ASSUME NEW i \in DOMAIN roleSeq PROVE states[roleSeq[i]] \in {"idle", "stopped"}
        OBVIOUS
      <4>1. CASE i > n
        BY <4>1
      <4>2. CASE i <= n
        BY <1>0, <1>1, <4>2
      <4> QED BY <1>0, <4>1, <4>2
    <3> QED BY <1>0, <2>1, <3>1 DEF StoppedFits, Idles, State
  <2> QED BY <2>2, <2>3 DEF SwarmInv
<1>2. CASE due # {}
  <2>0. PICK k : k = CHOOSE m \in due : \A l \in due : l <= m
    OBVIOUS
  <2> DEFINE call == [mode |-> "teardown", at |-> k, failing |-> failing, owns |-> Owns(states, k)]
  <2>1. /\ starter' = call /\ roleState' = StopCalled(states, k) /\ UNCHANGED <<swarmState, listening>>
    BY <1>2, <2>0 DEF TeardownFrom
  <2>2. k \in due /\ \A l \in due : l <= k
    <3> HIDE DEF due
    <3>1. due \in SUBSET (1..n) /\ n \in Nat
      BY <1>0 DEF due
    <3> QED BY <1>2, <2>0, <3>1, LastPlace
  <2>3. /\ k \in DOMAIN roleSeq /\ k \in Nat /\ k <= n /\ k # failing /\ states[roleSeq[k]] = "running"
        /\ \A i \in DOMAIN roleSeq : i > k /\ i <= n => i = failing \/ states[roleSeq[i]] # "running"
    BY <1>0, <2>2
  <2>4. call \in Calls /\ call.mode = "teardown" /\ call.at = k /\ call.failing = failing /\ call.owns = TRUE
    BY <2>3 DEF Calls, Owns
  <2>5. /\ roleState' \in [SwarmRoles -> RoleStates] /\ roleState'[roleSeq[k]] = "stopping"
        /\ \A q \in SwarmRoles : q # roleSeq[k] => roleState'[q] = states[q]
    BY <1>0, <2>1, <2>3 DEF StopCalled, RoleStates
  <2> HIDE DEF call, due
  <2>6. SwarmTyped'
    <3>1. call # Idle
      BY <1>00, <2>4
    <3> QED BY <1>0, <2>1, <2>3, <2>4, <2>5, <3>1 DEF SwarmInv, SwarmTyped
  <2>7. LeavingKnown'
    BY <1>0, <2>3, <2>5 DEF SwarmInv, LeavingKnown, SwarmTyped
  <2>8. ASSUME ~crossed PROVE swarmState' = "starting" /\ StartFits'
    <3>1. State(k)' = "stopping" /\ \A i \in DOMAIN roleSeq : i # k => State(i)' = states[roleSeq[i]]
      BY <1>0, <2>3, <2>5 DEF State
    <3>2. failing \in DOMAIN roleSeq => State(failing)' = "stopped"
      BY <2>3, <2>8, <3>1
    <3>3. \A i \in DOMAIN roleSeq : i < k => State(i)' \in {"idle", "running", "stopped"}
      BY <1>0, <2>3, <2>8, <3>1
    <3>4. \A i \in DOMAIN roleSeq : i > k => State(i)' \in {"idle", "stopped"}
      <4> SUFFICES ASSUME NEW i \in DOMAIN roleSeq, i > k PROVE states[roleSeq[i]] \in {"idle", "stopped"}
        BY <2>3, <3>1
      <4>1. CASE i > n
        BY <2>8, <4>1
      <4>2. CASE i <= n
        BY <2>3, <2>8, <4>2
      <4> QED BY <1>0, <4>1, <4>2
    <3>5. call # Idle
      BY <1>00, <2>4
    <3> QED BY <2>1, <2>4, <2>8, <3>1, <3>2, <3>3, <3>4, <3>5 DEF StartFits, State
  <2>9. SwarmFits'
    BY <2>8 DEF SwarmFits, IdleFits, RunFits, StopFits, StoppedFits
  <2> QED BY <2>6, <2>7, <2>9 DEF SwarmInv
<1> QED BY <1>1, <1>2

LEMMA RoleStartFailsKeeps == ASSUME SwarmInv, RoleStartFails PROVE SwarmInv'
<1> DEFINE q == roleSeq[starter.at]
           states == [roleState EXCEPT ![q] = "stopped"]
<1>1. /\ starter.mode = "start" /\ TeardownFrom(states, Len(roleSeq), starter.at)
      /\ escalated' = escalated \cup {q} /\ publish(Escalate[q])
      /\ UNCHANGED <<roleSeq, leaving, stopper, emitterOn, crossed>>
  BY DEF RoleStartFails
<1>2. /\ starter.at \in DOMAIN roleSeq /\ starter.at \in Nat /\ DOMAIN roleSeq = 1..Len(roleSeq) /\ Len(roleSeq) \in Nat
      /\ \A i \in DOMAIN roleSeq : roleSeq[i] \in SwarmRoles
      /\ \A i, j \in DOMAIN roleSeq : i # j => roleSeq[i] # roleSeq[j]
      /\ ~crossed => swarmState = "starting" /\ StartFits
  BY <1>1, Starting
<1>3. /\ states \in [SwarmRoles -> RoleStates] /\ states[roleSeq[starter.at]] = "stopped"
      /\ \A i \in DOMAIN roleSeq : i # starter.at => states[roleSeq[i]] = State(i)
      /\ \A p \in SwarmRoles : states[p] = roleState[p] \/ states[p] = "stopped"
  BY <1>2 DEF SwarmInv, SwarmTyped, RoleStates, State
<1>4. microtask' \in BOOLEAN
  BY <1>1 DEF publish
<1>5. escalated \subseteq escalated' /\ escalated' \subseteq SwarmRoles
  BY <1>1, <1>2 DEF SwarmInv, SwarmTyped
<1> HIDE DEF states
<1>6. \A p \in leaving' : states[p] # "idle"
  BY <1>1, <1>3 DEF SwarmInv, SwarmTyped, LeavingKnown
<1>7. ASSUME ~crossed
      PROVE  /\ stopper = Idle
             /\ \A i \in DOMAIN roleSeq : states[roleSeq[i]] \in {"idle", "running", "stopped"}
  <2>1. StartFits /\ swarmState = "starting"
    BY <1>2, <1>7
  <2> SUFFICES ASSUME NEW i \in DOMAIN roleSeq PROVE states[roleSeq[i]] \in {"idle", "running", "stopped"}
    BY <2>1 DEF StartFits
  <2>2. CASE i = starter.at
    BY <1>3, <2>2
  <2>3. CASE i # starter.at
    <3>1. states[roleSeq[i]] = State(i) /\ i \in Nat
      BY <1>2, <1>3, <2>3
    <3> QED BY <1>1, <1>2, <2>1, <2>3, <3>1 DEF StartFits, Up
  <2> QED BY <2>2, <2>3
<1>8. Len(roleSeq) \in 0..Len(roleSeq) /\ \A i \in DOMAIN roleSeq : i <= Len(roleSeq) /\ ~(i > Len(roleSeq))
  BY <1>2
<1> QED BY <1>1, <1>2, <1>3, <1>4, <1>5, <1>6, <1>7, <1>8, TeardownGoesOn

LEMMA TeardownReturnsKeeps == ASSUME SwarmInv, TeardownReturns PROVE SwarmInv'
<1> DEFINE states == Stopped(starter)
<1>1. /\ starter.mode = "teardown" /\ TeardownFrom(states, starter.at - 1, starter.failing)
      /\ UNCHANGED <<roleSeq, leaving, stopper, microtask, emitterOn, escalated, crossed>>
  BY DEF TeardownReturns
<1>2. starter # Idle
  BY <1>1 DEF Idle
<1>3. /\ starter \in Calls /\ starter.at \in 1..Len(roleSeq) /\ starter.failing \in Nat
      /\ DOMAIN roleSeq = 1..Len(roleSeq) /\ Len(roleSeq) \in Nat
      /\ microtask \in BOOLEAN /\ leaving \subseteq escalated /\ escalated \subseteq SwarmRoles
  BY <1>2 DEF SwarmInv, SwarmTyped, LeavingKnown, Calls
<1>4. ~crossed => swarmState = "starting" /\ StartFits
  BY <1>2 DEF SwarmInv, SwarmTyped, SwarmFits, IdleFits, RunFits, StopFits, StoppedFits, Idles, RoleStates
<1>5. /\ states \in [SwarmRoles -> RoleStates] /\ \A q \in leaving : states[q] # "idle"
      /\ starter.owns => states[roleSeq[starter.at]] = "stopped"
      /\ \A i \in DOMAIN roleSeq : i # starter.at => states[roleSeq[i]] = State(i)
  BY <1>3, StoppedStates
<1> HIDE DEF states
<1>6. ASSUME ~crossed
      PROVE  /\ stopper = Idle /\ swarmState = "starting"
             /\ \A i \in DOMAIN roleSeq : i <= starter.at - 1 => states[roleSeq[i]] \in {"idle", "running", "stopped"}
             /\ \A i \in DOMAIN roleSeq : i > starter.at - 1 => states[roleSeq[i]] \in {"idle", "stopped"}
             /\ starter.failing \in DOMAIN roleSeq => states[roleSeq[starter.failing]] = "stopped"
  <2>1. StartFits /\ swarmState = "starting" /\ stopper = Idle
    BY <1>4, <1>6 DEF StartFits
  <2>2. states[roleSeq[starter.at]] = "stopped"
    BY <1>1, <1>5, <2>1 DEF StartFits
  <2>3. ASSUME NEW i \in DOMAIN roleSeq
        PROVE  /\ i <= starter.at - 1 => states[roleSeq[i]] \in {"idle", "running", "stopped"}
               /\ i > starter.at - 1 => states[roleSeq[i]] \in {"idle", "stopped"}
               /\ i = starter.failing => states[roleSeq[i]] = "stopped"
    <3>1. CASE i = starter.at
      BY <1>3, <2>2, <3>1
    <3>2. CASE i # starter.at
      <4>1. states[roleSeq[i]] = State(i) /\ i \in Nat
        BY <1>3, <1>5, <3>2
      <4> QED BY <1>1, <1>3, <2>1, <3>2, <4>1 DEF StartFits
    <3> QED BY <3>1, <3>2
  <2> QED BY <2>1, <2>3
<1>7. starter.at - 1 \in 0..Len(roleSeq)
  BY <1>3
<1> QED BY <1>1, <1>3, <1>5, <1>6, <1>7, TeardownGoesOn

-----------------------------------------------------------------------------

LEMMA EscalatesKeeps == ASSUME SwarmInv, NEW q \in SwarmRoles, RoleEscalates(q) \/ RoleDown(q) PROVE SwarmInv'
<1>1. CASE RoleEscalates(q)
  <2>1. /\ microtask' \in BOOLEAN /\ escalated' = escalated \cup {q} /\ leaving' \subseteq leaving \cup {q}
        /\ roleState[q] # "idle"
        /\ UNCHANGED <<swarmState, roleSeq, roleState, starter, stopper, listening, emitterOn, crossed>>
    BY <1>1 DEF RoleEscalates, publish
  <2>2. /\ escalated' \subseteq SwarmRoles /\ leaving' \subseteq escalated' /\ roleState' \in [SwarmRoles -> RoleStates]
        /\ \A p \in leaving' : roleState'[p] # "idle"
    BY <2>1 DEF SwarmInv, SwarmTyped, LeavingKnown
  <2> QED BY <2>1, <2>2, RolesMove
<1>2. CASE RoleDown(q)
  <2>1. /\ q \in leaving /\ leaving' = leaving \ {q} /\ roleState' = [roleState EXCEPT ![q] = "stopped"]
        /\ UNCHANGED <<swarmState, roleSeq, starter, stopper, listening, microtask, emitterOn, escalated, crossed>>
    BY <1>2 DEF RoleDown
  <2>2. /\ escalated' \subseteq SwarmRoles /\ leaving' \subseteq escalated' /\ roleState' \in [SwarmRoles -> RoleStates]
        /\ \A p \in leaving' : roleState'[p] # "idle"
        /\ \A p \in SwarmRoles : roleState'[p] # roleState[p] => p \in leaving /\ roleState'[p] = "stopped"
        /\ microtask' \in BOOLEAN
    BY <2>1 DEF SwarmInv, SwarmTyped, LeavingKnown, RoleStates
  <2> QED BY <2>1, <2>2, RolesMove
<1> QED BY <1>1, <1>2

LEMMA EmitterKeeps == ASSUME SwarmInv, EmitterPublishes \/ EmitterStops PROVE SwarmInv'
<1>1. /\ microtask' \in BOOLEAN /\ emitterOn' \in BOOLEAN
      /\ UNCHANGED <<swarmState, roleSeq, roleState, leaving, starter, stopper, listening, escalated, crossed>>
  BY DEF EmitterPublishes, EmitterStops, publish, SwarmInv, SwarmTyped
<1>2. SwarmTyped' /\ LeavingKnown'
  BY <1>1 DEF SwarmInv, SwarmTyped, LeavingKnown
<1>3. SwarmFits'
  BY <1>1 DEF SwarmInv, SwarmFits, IdleFits, StartFits, RunFits, StopFits, StoppedFits, Idles, Up, State
<1> QED BY <1>2, <1>3 DEF SwarmInv

LEMMA QueuedStopKeeps == ASSUME SwarmInv, Microtask PROVE SwarmInv'
<1>1. CASE stop
  BY <1>1, StopKeeps DEF Microtask
<1>2. CASE UNCHANGED <<swarmState, roleSeq, roleState, leaving, starter, stopper, listening, emitterOn, escalated, crossed>>
  <2>1. SwarmTyped' /\ LeavingKnown'
    BY <1>2 DEF Microtask, SwarmInv, SwarmTyped, LeavingKnown
  <2>2. SwarmFits'
    BY <1>2 DEF SwarmInv, SwarmFits, IdleFits, StartFits, RunFits, StopFits, StoppedFits, Idles, Up, State
  <2> QED BY <2>1, <2>2 DEF SwarmInv
<1> QED BY <1>1, <1>2 DEF Microtask

LEMMA SwarmKeeps == ASSUME SwarmInv, [SwarmNext]_swarmVars PROVE SwarmInv'
<1>1. CASE UNCHANGED swarmVars
  <2>1. SwarmTyped' /\ LeavingKnown'
    BY <1>1 DEF swarmVars, SwarmInv, SwarmTyped, LeavingKnown
  <2>2. SwarmFits'
    BY <1>1 DEF swarmVars, SwarmInv, SwarmFits, IdleFits, StartFits, RunFits, StopFits, StoppedFits, Idles, Up, State
  <2> QED BY <2>1, <2>2 DEF SwarmInv
<1>2. CASE StopSwarm
  BY <1>2, StopKeeps DEF StopSwarm, SwarmInv, SwarmTyped
<1>3. CASE SwarmNext
  BY <1>2, <1>3, AddKeeps, EscalatesKeeps, EmitterKeeps, StartKeeps, RoleStartsKeeps, RoleStartFailsKeeps,
     TeardownReturnsKeeps, QueuedStopKeeps, StopReturnsKeeps DEF SwarmNext
<1> QED BY <1>1, <1>3

\* The invariant of swarm.ts, for any roles and policies.
THEOREM SwarmInvariant == SwarmSpec => []SwarmInv
<1> QED BY SwarmInitInv, SwarmKeeps, PTL DEF SwarmSpec

\* For any roles and policies, while starts, failed starts, stops and escalations interleave:
\* a stopped swarm has no role left running, stop takes roles down from the last to the
\* first, and a role missing from a running swarm has escalated.
THEOREM SwarmSafe == SwarmSpec => [](SwarmTypeOK /\ StoppedSwarmIsQuiet /\ DownInReverse /\ MissingRoleKnown)
<1>1. SwarmInv => SwarmTypeOK
  BY DEF SwarmInv, SwarmTyped, SwarmTypeOK, Idle, Calls
<1>2. SwarmInv => StoppedSwarmIsQuiet
  BY DEF SwarmInv, SwarmFits, StoppedFits, StoppedSwarmIsQuiet, Registered, State
<1>3. SwarmInv => DownInReverse
  <2> SUFFICES ASSUME SwarmInv, ~crossed, stopper # Idle PROVE \A i \in DOMAIN roleSeq : i > stopper.at => State(i) = "stopped"
    BY DEF DownInReverse, State
  <2>1. swarmState = "stopping"
    BY DEF SwarmInv, SwarmTyped, SwarmFits, IdleFits, StartFits, RunFits, StoppedFits, Idles, RoleStates
  <2> QED BY <2>1 DEF SwarmInv, SwarmFits, StopFits
<1>4. SwarmInv => MissingRoleKnown
  BY DEF SwarmInv, SwarmFits, RunFits, Up, State, MissingRoleKnown, Registered
<1> QED BY <1>1, <1>2, <1>3, <1>4, SwarmInvariant, PTL

\* A stop of the whole swarm is queued only by the emitter or by a role whose policy is to
\* escalate to the swarm: no other role takes its siblings down.
THEOREM RolesStayAlone == SwarmSpec => RoleStaysAlone
<1>1. ASSUME SwarmInv, SwarmNext, ~microtask, microtask'
      PROVE  emitterOn \/ \E q \in SwarmRoles : q \in escalated' /\ Escalate[q] = "swarm"
  <2>1. CASE \E q \in SwarmRoles : RoleEscalates(q)
    BY <1>1, <2>1 DEF RoleEscalates, publish
  <2>2. CASE RoleStartFails
    <3>1. roleSeq[starter.at] \in SwarmRoles
      BY <1>1, <2>2, Starting DEF RoleStartFails
    <3> QED BY <1>1, <2>2, <3>1 DEF RoleStartFails, publish
  <2>3. CASE EmitterPublishes
    BY <2>3 DEF EmitterPublishes
  <2>4. CASE ~RoleStartFails /\ ~EmitterPublishes /\ \A q \in SwarmRoles : ~RoleEscalates(q)
    BY <1>1, <2>4 DEF SwarmNext, addRole, RoleDown, EmitterStops, start, RoleStarts, TeardownReturns, StopSwarm,
                      Microtask, StopReturns
  <2> QED BY <2>1, <2>2, <2>3, <2>4
<1>2. SwarmInv /\ [SwarmNext]_swarmVars
        => [~microtask /\ microtask' => emitterOn \/ \E q \in SwarmRoles : q \in escalated' /\ Escalate[q] = "swarm"]_swarmVars
  BY <1>1
<1> QED BY <1>2, SwarmInvariant, PTL DEF SwarmSpec, RoleStaysAlone

-----------------------------------------------------------------------------
(* The readers of events. *)

\* q is the elements of S, in order.
Lists(q, S) ==
    /\ q \in Seq(Nat)
    /\ \A i, j \in DOMAIN q : i < j => q[i] < q[j]
    /\ \A i \in DOMAIN q : q[i] \in S
    /\ \A x \in S : \E i \in DOMAIN q : q[i] = x

LEMMA ListLength ==
    ASSUME NEW S, NEW q, Lists(q, S)
    PROVE  Cardinality(S) = Len(q) /\ q \in [1..Len(q) -> S] /\ IsFiniteSet(S)
<1>1. Len(q) \in Nat /\ DOMAIN q = 1..Len(q) /\ \A i \in DOMAIN q : q[i] \in S /\ q[i] \in Nat
  BY DEF Lists
<1>2. q \in [1..Len(q) -> S]
  BY <1>1 DEF Lists
<1>3. \A i, j \in 1..Len(q) : q[i] = q[j] => i = j
  BY <1>1 DEF Lists
<1>4. q \in Bijection(1..Len(q), S)
  BY <1>1, <1>2, <1>3 DEF Lists, Bijection, Injection, Surjection, IsInjective
<1>5. ExistsBijection(1..Len(q), S)
  BY <1>4 DEF ExistsBijection
<1> QED BY <1>1, <1>2, <1>5, FS_CountingElements, FS_NatBijection

\* A set of naturals up to n has a list.
LEMMA ListExists ==
    ASSUME NEW n \in Nat, NEW S \in SUBSET (1..n)
    PROVE  \E q : Lists(q, S)
<1> DEFINE Without == {m \in Nat : \E T \in SUBSET (1..m) : ~ \E q : Lists(q, T)}
<1> SUFFICES ASSUME Without # {} PROVE FALSE
  OBVIOUS
<1>1. PICK m \in Without : \A j \in Without : ~(j < m)
  <2>1. Without \in SUBSET Nat
    OBVIOUS
  <2> HIDE DEF Without
  <2>2. PICK m \in Without : \A j \in Without : ~(<<j, m>> \in OpToRel(<, Nat))
    BY <2>1, WFMin, NatLessThanWellFounded
  <2> QED BY <2>1, <2>2 DEF OpToRel
<1>2. PICK T \in SUBSET (1..m) : ~ \E q : Lists(q, T)
  OBVIOUS
<1>3. CASE m = 0
  <2>1. T = {}
    BY <1>3
  <2>2. Lists(<<>>, T)
    BY <2>1 DEF Lists
  <2> QED BY <1>2, <2>2
<1>4. CASE m > 0
  <2>1. m - 1 \in Nat /\ m - 1 < m /\ T \ {m} \in SUBSET (1..(m - 1))
    BY <1>4
  <2>2. PICK p : Lists(p, T \ {m})
    BY <1>1, <2>1
  <2>3. CASE m \notin T
    BY <1>2, <2>2, <2>3
  <2>4. CASE m \in T
    <3> DEFINE q == Append(p, m)
    <3>1. /\ q \in Seq(Nat) /\ Len(q) = Len(p) + 1 /\ q[Len(p) + 1] = m /\ DOMAIN p = 1..Len(p) /\ Len(p) \in Nat
          /\ DOMAIN q = 1..(Len(p) + 1) /\ \A i \in DOMAIN p : q[i] = p[i]
      BY <2>2 DEF Lists
    <3>2. \A i \in DOMAIN p : p[i] \in T /\ p[i] < m
      BY <2>1, <2>2 DEF Lists
    <3> HIDE DEF q
    <3>3. \A i, j \in DOMAIN q : i < j => q[i] < q[j]
      <4> SUFFICES ASSUME NEW i \in DOMAIN q, NEW j \in DOMAIN q, i < j PROVE q[i] < q[j]
        OBVIOUS
      <4>1. i \in DOMAIN p
        BY <3>1
      <4>2. CASE j \in DOMAIN p
        BY <2>2, <3>1, <4>1, <4>2 DEF Lists
      <4>3. CASE j = Len(p) + 1
        BY <3>1, <3>2, <4>1, <4>3
      <4> QED BY <3>1, <4>2, <4>3
    <3>4. \A i \in DOMAIN q : q[i] \in T
      <4> SUFFICES ASSUME NEW i \in DOMAIN q PROVE q[i] \in T
        OBVIOUS
      <4>1. CASE i \in DOMAIN p
        BY <3>1, <3>2, <4>1
      <4>2. CASE i = Len(p) + 1
        BY <2>4, <3>1, <4>2
      <4> QED BY <3>1, <4>1, <4>2
    <3>5. \A x \in T : \E i \in DOMAIN q : q[i] = x
      <4> SUFFICES ASSUME NEW x \in T PROVE \E i \in DOMAIN q : q[i] = x
        OBVIOUS
      <4>1. CASE x = m
        BY <3>1, <4>1
      <4>2. CASE x # m
        <5>1. PICK i \in DOMAIN p : p[i] = x
          BY <2>2, <4>2 DEF Lists
        <5> QED BY <3>1, <5>1
      <4> QED BY <4>1, <4>2
    <3> QED BY <1>2, <3>1, <3>3, <3>4, <3>5 DEF Lists
  <2> QED BY <2>3, <2>4
<1> QED BY <1>3, <1>4

\* There is one list only.
LEMMA ListUnique ==
    ASSUME NEW S, NEW p, NEW q, Lists(p, S), Lists(q, S)
    PROVE  p = q
<1>1. Len(p) = Len(q)
  BY ListLength
<1>2. /\ DOMAIN p = 1..Len(p) /\ DOMAIN q = DOMAIN p /\ Len(p) \in Nat /\ p \in Seq(Nat) /\ q \in Seq(Nat)
      /\ \A i \in DOMAIN p : p[i] \in Nat /\ q[i] \in Nat /\ i \in Nat
  BY <1>1 DEF Lists
<1> DEFINE Differ == {k \in DOMAIN p : p[k] # q[k]}
<1>3. CASE Differ = {}
  BY <1>2, <1>3
<1>4. CASE Differ # {}
  <2>1. Differ \in SUBSET Nat
    BY <1>2
  <2>2. PICK k \in Differ : \A j \in Differ : ~(j < k)
    <3> HIDE DEF Differ
    <3>1. PICK k \in Differ : \A j \in Differ : ~(<<j, k>> \in OpToRel(<, Nat))
      BY <1>4, <2>1, WFMin, NatLessThanWellFounded
    <3> QED BY <2>1, <3>1 DEF OpToRel
  <2>3. \A j \in DOMAIN p : j < k => p[j] = q[j]
    BY <2>2
  <2>4. PICK i \in DOMAIN q : q[i] = p[k]
    BY <2>2 DEF Lists
  <2>5. PICK j \in DOMAIN p : p[j] = q[k]
    BY <1>2, <2>2 DEF Lists
  <2>6. ~(i < k) /\ ~(j < k)
    <3>1. ASSUME i < k PROVE FALSE
      <4>1. p[i] = p[k] /\ i \in DOMAIN p /\ k \in DOMAIN p
        BY <1>2, <2>2, <2>3, <2>4, <3>1
      <4>2. p[i] < p[k]
        BY <3>1, <4>1 DEF Lists
      <4> QED BY <1>2, <4>1, <4>2
    <3>2. ASSUME j < k PROVE FALSE
      <4>1. q[j] = q[k] /\ j \in DOMAIN q /\ k \in DOMAIN q
        BY <1>2, <2>2, <2>3, <2>5, <3>2
      <4>2. q[j] < q[k]
        BY <3>2, <4>1 DEF Lists
      <4> QED BY <1>2, <4>1, <4>2
    <3> QED BY <3>1, <3>2
  <2>7. k < i /\ k < j
    BY <1>2, <2>2, <2>4, <2>5, <2>6
  <2>8. q[k] < q[i] /\ p[k] < p[j]
    BY <1>2, <2>2, <2>7 DEF Lists
  <2> QED BY <1>2, <2>2, <2>4, <2>5, <2>8
<1> QED BY <1>3, <1>4

\* The seqs of the watched run in a set of rows.
Own(someRows) == {e[2] : e \in {f \in someRows : f[1] = Watched}}
Past(n) == Own({e \in eventRows : e[2] <= n})
LastOf(q) == IF q = <<>> THEN 0 ELSE q[Len(q)]

LEMMA SeqsOfLists ==
    ASSUME NEW n \in Nat, NEW someRows, Own(someRows) \subseteq 1..n
    PROVE  Lists(SeqsOf(someRows), Own(someRows))
<1> DEFINE own == Own(someRows)
           InOrder(q) == \A i, j \in DOMAIN q : i < j => q[i] < q[j]
<1>1. SeqsOf(someRows) = CHOOSE q \in [1..Cardinality(own) -> own] : InOrder(q)
  BY DEF SeqsOf, Own
<1>2. PICK p : Lists(p, own)
  BY ListExists
<1>3. p \in [1..Cardinality(own) -> own] /\ InOrder(p) /\ IsFiniteSet(own) /\ Cardinality(own) \in Nat
  BY <1>2, ListLength DEF Lists
<1>4. \A x \in own : x \in Nat
  OBVIOUS
<1> HIDE DEF own
<1>5. PICK q : q \in [1..Cardinality(own) -> own] /\ InOrder(q) /\ q = SeqsOf(someRows)
  BY <1>1, <1>3
<1>6. q \in Seq(own) /\ q \in Seq(Nat) /\ DOMAIN q = 1..Cardinality(own)
  BY <1>3, <1>4, <1>5
<1>7. \A i, j \in DOMAIN q : q[i] = q[j] => i = j
  <2> SUFFICES ASSUME NEW i \in DOMAIN q, NEW j \in DOMAIN q, q[i] = q[j], i # j PROVE FALSE
    OBVIOUS
  <2>1. i \in Nat /\ j \in Nat /\ q[i] \in Nat
    BY <1>3, <1>6
  <2>2. CASE i < j
    BY <1>5, <2>1, <2>2
  <2>3. CASE j < i
    BY <1>5, <2>1, <2>3
  <2> QED BY <2>1, <2>2, <2>3
<1>8. q \in Injection(1..Cardinality(own), own)
  BY <1>5, <1>6, <1>7 DEF Injection, IsInjective
<1>9. Cardinality(1..Cardinality(own)) = Cardinality(own)
  BY <1>3, FS_Interval
<1>10. q \in Surjection(1..Cardinality(own), own)
  <2>1. IsFiniteSet(own)
    BY <1>3
  <2>2. Cardinality(1..Cardinality(own)) = Cardinality(own) <=> q \in Surjection(1..Cardinality(own), own)
    BY <1>8, <2>1, FS_Injection
  <2> QED BY <1>9, <2>2
<1>11. (\A i \in DOMAIN q : q[i] \in own) /\ \A x \in own : \E i \in DOMAIN q : q[i] = x
  BY <1>6, <1>10 DEF Surjection
<1> QED BY <1>5, <1>6, <1>11 DEF Lists, own

TailTyped ==
    /\ eventRows \subseteq TailRuns \X (1..TailSeqs)
    /\ pushed \in [TailRuns -> 0..TailSeqs]
    /\ sse \in [since : 0..TailSeqs, open : BOOLEAN, got : Seq(Nat)]
    /\ logs \in [lastSeq : 0..TailSeqs, out : Seq(Nat), state : {"tailing", "done", "cancelled"}]

\* A driver inserts in the order of seq.
Pushed == \A e \in eventRows : e[2] <= pushed[e[1]]

\* What each reader has received, and what it remembers of it.
Received ==
    /\ Lists(sse.got, Past(LastOf(sse.got))) /\ Lists(logs.out, Past(LastOf(logs.out)))
    /\ logs.lastSeq = LastOf(logs.out)
    /\ sse.open => sse.since = LastOf(sse.got)

TailInv == TailTyped /\ Pushed /\ Received

LEMMA PastIs ==
    ASSUME TailTyped, NEW n \in Nat
    PROVE  /\ Past(n) \subseteq 1..TailSeqs
           /\ \A x : x \in Past(n) <=> <<Watched, x>> \in eventRows /\ x <= n
<1>1. \A e \in eventRows : e = <<e[1], e[2]>> /\ e[2] \in 1..TailSeqs
  BY DEF TailTyped
<1>2. \A x : x \in Past(n) => <<Watched, x>> \in eventRows /\ x <= n /\ x \in 1..TailSeqs
  BY <1>1 DEF Past, Own
<1>3. ASSUME NEW x, <<Watched, x>> \in eventRows, x <= n PROVE x \in Past(n)
  <2>1. <<Watched, x>>[1] = Watched /\ <<Watched, x>>[2] = x
    OBVIOUS
  <2> QED BY <1>3, <2>1 DEF Past, Own
<1> QED BY <1>2, <1>3

LEMMA LastIsSeq ==
    ASSUME TailTyped, NEW q, NEW n \in Nat, Lists(q, Past(n))
    PROVE  LastOf(q) \in 0..TailSeqs /\ (q # <<>> => LastOf(q) \in Past(n))
<1>1. CASE q = <<>>
  BY <1>1, EventTailAssumption DEF LastOf
<1>2. CASE q # <<>>
  <2>1. q \in Seq(Nat) /\ Len(q) \in DOMAIN q
    BY <1>2 DEF Lists
  <2>2. q[Len(q)] \in Past(n)
    BY <2>1 DEF Lists
  <2> QED BY <1>2, <2>2, PastIs, EventTailAssumption DEF LastOf
<1> QED BY <1>1, <1>2

LEMMA LastIsNat == ASSUME NEW q \in Seq(Nat) PROVE LastOf(q) \in Nat
<1>1. q # <<>> => Len(q) \in DOMAIN q
  OBVIOUS
<1> QED BY <1>1 DEF LastOf

\* What a reader has, and the first k of what is sent.
Joined(g, p, q, k) ==
    /\ g \in Seq(Nat) /\ Len(g) = Len(p) + k /\ DOMAIN g = 1..(Len(p) + k)
    /\ \A i \in 1..Len(p) : g[i] = p[i]
    /\ \A i \in 1..k : g[Len(p) + i] = q[i]
    /\ \A i \in DOMAIN g : i \in 1..Len(p) \/ \E j \in 1..k : i = Len(p) + j

LEMMA Joins ==
    ASSUME NEW p \in Seq(Nat), NEW q \in Seq(Nat), NEW k \in 0..Len(q)
    PROVE  Joined(p \o SubSeq(q, 1, k), p, q, k)
<1> DEFINE g == p \o SubSeq(q, 1, k)
<1>0. Len(p) \in Nat /\ Len(q) \in Nat /\ k \in Nat /\ DOMAIN p = 1..Len(p) /\ DOMAIN q = 1..Len(q)
  OBVIOUS
<1>1. PICK r : r = SubSeq(q, 1, k)
  OBVIOUS
<1>2. r \in Seq(Nat) /\ Len(r) = k /\ \A i \in 1..k : r[i] = q[i]
  BY <1>0, <1>1
<1>3. g = p \o r
  BY <1>1
<1> HIDE DEF g
<1>4. g \in Seq(Nat) /\ Len(g) = Len(p) + k /\ DOMAIN g = 1..(Len(p) + k)
  <2>1. g \in Seq(Nat)
    BY <1>2, <1>3
  <2>2. Len(g) = Len(p) + k
    BY <1>2, <1>3, ConcatProperties
  <2> QED BY <2>1, <2>2
<1>5. \A i \in 1..Len(p) : g[i] = p[i]
  BY <1>0, <1>2, <1>3
<1>6. ASSUME NEW i \in 1..k PROVE g[Len(p) + i] = q[i]
  BY <1>0, <1>2, <1>3
<1>7. ASSUME NEW i \in DOMAIN g, ~(i \in 1..Len(p)) PROVE \E j \in 1..k : i = Len(p) + j
  <2>1. i - Len(p) \in 1..k /\ i = Len(p) + (i - Len(p))
    BY <1>0, <1>4, <1>7
  <2> QED BY <2>1
<1> QED BY <1>4, <1>5, <1>6, <1>7 DEF Joined, g

\* A reader that has the history so far goes on with the next seqs of the run.
NextOf(S, last) ==
    /\ \A x \in S : <<Watched, x>> \in eventRows /\ x > last
    /\ \A x \in S, y \in 1..TailSeqs : <<Watched, y>> \in eventRows /\ y > last /\ y <= x => y \in S
HistoryTo(q, last) == LastOf(q) = last /\ Lists(q, Past(last))

LEMMA GoesOn ==
    ASSUME TailTyped, NEW last \in Nat, NEW have, HistoryTo(have, last), NEW q, NEW S, Lists(q, S), NextOf(S, last),
           NEW k \in 0..Len(q)
    PROVE  HistoryTo(have \o SubSeq(q, 1, k), IF k = 0 THEN last ELSE q[k])
<1> DEFINE g == have \o SubSeq(q, 1, k)
<1>0. LastOf(have) = last /\ LastOf(have) \in Nat /\ Lists(have, Past(LastOf(have)))
  BY DEF HistoryTo
<1>00. /\ \A x \in S : <<Watched, x>> \in eventRows /\ x > LastOf(have)
       /\ \A x \in S, y \in 1..TailSeqs :
             <<Watched, y>> \in eventRows /\ y > LastOf(have) /\ y <= x => y \in S
  BY <1>0 DEF NextOf
<1>1. /\ have \in Seq(Nat) /\ q \in Seq(Nat) /\ Len(have) \in Nat /\ Len(q) \in Nat /\ k \in Nat
      /\ DOMAIN have = 1..Len(have) /\ DOMAIN q = 1..Len(q)
  BY <1>0 DEF Lists
<1>2. /\ g \in Seq(Nat) /\ Len(g) = Len(have) + k /\ DOMAIN g = 1..(Len(have) + k)
      /\ \A i \in 1..Len(have) : g[i] = have[i]
      /\ \A i \in 1..k : g[Len(have) + i] = q[i]
      /\ \A i \in DOMAIN g : i \in 1..Len(have) \/ \E j \in 1..k : i = Len(have) + j
  <2>1. Joined(g, have, q, k)
    BY <1>1, Joins
  <2> QED BY <2>1 DEF Joined
<1>3. CASE k = 0
  <2>1. g = have
    BY <1>1, <1>3
  <2> QED BY <1>0, <1>3, <2>1 DEF HistoryTo
<1> HIDE DEF g
<1>4. CASE k > 0
  <2>1. k \in DOMAIN q /\ g[Len(have) + k] = q[k] /\ g # <<>> /\ q[k] \in Nat /\ k \in 1..k
    <3>1. k \in DOMAIN q /\ k \in 1..k
      BY <1>1, <1>4
    <3>2. g[Len(have) + k] = q[k] /\ q[k] \in Nat
      BY <1>1, <1>2, <3>1
    <3>3. Len(g) > 0
      BY <1>1, <1>2, <1>4
    <3> QED BY <3>1, <3>2, <3>3
  <2>2. LastOf(g) = q[k]
    BY <1>2, <2>1 DEF LastOf
  <2>3. \A i \in 1..Len(have) : have[i] \in Nat /\ <<Watched, have[i]>> \in eventRows /\ have[i] <= LastOf(have)
    <3>1. \A i \in DOMAIN have : have[i] \in Nat /\ have[i] \in Past(LastOf(have))
      BY <1>0 DEF Lists
    <3> QED BY <1>0, <1>1, <3>1, PastIs
  <2>4. \A i \in 1..Len(q) : q[i] \in Nat /\ <<Watched, q[i]>> \in eventRows /\ q[i] > LastOf(have)
    <3>1. \A i \in DOMAIN q : q[i] \in Nat /\ q[i] \in S
      BY DEF Lists
    <3> QED BY <1>00, <1>1, <3>1
  <2>5. \A i, j \in DOMAIN g : i < j => g[i] < g[j]
    <3> SUFFICES ASSUME NEW i \in DOMAIN g, NEW j \in DOMAIN g, i < j PROVE g[i] < g[j]
      OBVIOUS
    <3>1. CASE i \in 1..Len(have) /\ j \in 1..Len(have)
      <4>1. i \in DOMAIN have /\ j \in DOMAIN have /\ g[i] = have[i] /\ g[j] = have[j]
        BY <1>1, <1>2, <3>1
      <4> QED BY <1>0, <4>1 DEF Lists
    <3>2. CASE i \in 1..Len(have) /\ \E b \in 1..k : j = Len(have) + b
      <4>1. PICK b \in 1..k : j = Len(have) + b
        BY <3>2
      <4>2. g[i] = have[i] /\ g[j] = q[b] /\ b \in 1..Len(q)
        <5>1. g[i] = have[i] /\ g[Len(have) + b] = q[b]
          BY <1>2, <3>2
        <5> QED BY <1>1, <4>1, <5>1
      <4>3. have[i] \in Nat /\ q[b] \in Nat /\ have[i] <= LastOf(have) /\ q[b] > LastOf(have)
        BY <2>3, <2>4, <3>2, <4>2
      <4>33. LastOf(have) \in Nat
        BY <1>0
      <4>4. have[i] < q[b]
        BY <4>3, <4>33
      <4> QED BY <4>2, <4>4
    <3>3. CASE (\E a \in 1..k : i = Len(have) + a) /\ (\E b \in 1..k : j = Len(have) + b)
      <4>1. PICK a \in 1..k, b \in 1..k : i = Len(have) + a /\ j = Len(have) + b
        BY <3>3
      <4>2. a \in DOMAIN q /\ b \in DOMAIN q /\ a < b /\ g[i] = q[a] /\ g[j] = q[b]
        <5>1. g[Len(have) + a] = q[a] /\ g[Len(have) + b] = q[b]
          BY <1>2
        <5>2. a < b /\ a \in DOMAIN q /\ b \in DOMAIN q
          BY <1>1, <4>1
        <5> QED BY <4>1, <5>1, <5>2
      <4> QED BY <4>2 DEF Lists
    <3>4. CASE (\E a \in 1..k : i = Len(have) + a) /\ j \in 1..Len(have)
      BY <1>1, <3>4
    <3> QED BY <1>2, <3>1, <3>2, <3>3, <3>4
  <2>6. \A i \in 1..k : q[i] <= q[k]
    <3> SUFFICES ASSUME NEW i \in 1..k, i # k PROVE q[i] <= q[k]
      BY <2>1
    <3>1. i \in DOMAIN q /\ k \in DOMAIN q /\ i < k
      BY <1>1
    <3>2. q[i] < q[k]
      BY <3>1 DEF Lists
    <3> QED BY <1>1, <2>4, <3>1, <3>2
  <2>7. \A i \in DOMAIN g : g[i] \in Past(q[k])
    <3> SUFFICES ASSUME NEW i \in DOMAIN g PROVE <<Watched, g[i]>> \in eventRows /\ g[i] <= q[k]
      BY <2>1, PastIs
    <3>1. CASE i \in 1..Len(have)
      <4>1. q[k] > LastOf(have)
        BY <1>1, <2>1, <2>4
      <4>2. g[i] = have[i]
        BY <1>2, <3>1
      <4>3. have[i] \in Nat /\ <<Watched, have[i]>> \in eventRows /\ have[i] <= LastOf(have)
        BY <2>3, <3>1
      <4>4. have[i] <= q[k]
        BY <1>0, <2>1, <4>1, <4>3
      <4> QED BY <4>2, <4>3, <4>4
    <3>2. CASE \E a \in 1..k : i = Len(have) + a
      <4>1. PICK a \in 1..k : i = Len(have) + a
        BY <3>2
      <4>2. g[i] = q[a] /\ a \in 1..Len(q)
        <5>1. g[Len(have) + a] = q[a]
          BY <1>2
        <5> QED BY <1>1, <4>1, <5>1
      <4> QED BY <2>4, <2>6, <4>1, <4>2
    <3> QED BY <1>2, <3>1, <3>2
  <2>8. \A x \in Past(q[k]) : \E i \in DOMAIN g : g[i] = x
    <3> SUFFICES ASSUME NEW x \in Past(q[k]) PROVE \E i \in DOMAIN g : g[i] = x
      OBVIOUS
    <3>0. <<Watched, x>> \in eventRows /\ x <= q[k] /\ x \in 1..TailSeqs /\ x \in Nat
      BY <2>1, PastIs, EventTailAssumption
    <3>1. CASE x <= LastOf(have)
      <4>1. x \in Past(LastOf(have))
        BY <1>0, <3>0, <3>1, PastIs
      <4>2. PICK i \in DOMAIN have : have[i] = x
        BY <1>0, <4>1 DEF Lists
      <4> QED BY <1>1, <1>2, <4>2
    <3>2. CASE x > LastOf(have)
      <4>1. q[k] \in S
        BY <2>1 DEF Lists
      <4>2. x \in S
        BY <1>00, <3>0, <3>2, <4>1
      <4>3. PICK i \in DOMAIN q : q[i] = x
        BY <4>2 DEF Lists
      <4>4. i <= k
        <5> SUFFICES ASSUME i > k PROVE FALSE
          BY <1>1
        <5>1. q[k] < q[i]
          BY <1>1, <2>1 DEF Lists
        <5> QED BY <2>1, <3>0, <4>3, <5>1
      <4>5. Len(have) + i \in DOMAIN g /\ g[Len(have) + i] = q[i]
        BY <1>1, <1>2, <4>4
      <4> QED BY <4>3, <4>5
    <3> QED BY <1>0, <3>0, <3>1, <3>2
  <2>9. Lists(g, Past(q[k]))
    BY <1>2, <2>5, <2>7, <2>8 DEF Lists
  <2> QED BY <1>4, <2>1, <2>2, <2>9 DEF HistoryTo, g
<1> QED BY <1>1, <1>3, <1>4

LEMMA TailInitInv == TailInit => TailInv
<1> SUFFICES ASSUME TailInit PROVE TailInv
  OBVIOUS
<1>1. TailTyped /\ Pushed
  BY EventTailAssumption DEF TailInit, TailTyped, Pushed
<1>2. Past(0) = {} /\ LastOf(<<>>) = 0
  BY DEF TailInit, Past, Own, LastOf
<1>3. Lists(<<>>, Past(0))
  BY <1>2 DEF Lists
<1> QED BY <1>1, <1>2, <1>3 DEF TailInit, TailInv, Received

LEMMA InsertKeeps == ASSUME TailInv, NEW r \in TailRuns, insertEvent(r) PROVE TailInv'
<1> DEFINE n == pushed[r] + 1
<1>1. /\ pushed[r] < TailSeqs /\ pushed' = [pushed EXCEPT ![r] = n] /\ UNCHANGED <<sse, logs>>
      /\ eventRows' = eventRows \cup {<<r, n>>} \/ eventRows' = eventRows
  <2>1. pushed'[r] = n
    BY DEF insertEvent, TailInv, TailTyped
  <2> QED BY <2>1 DEF insertEvent
<1>2. pushed \in [TailRuns -> 0..TailSeqs] /\ TailSeqs \in Nat /\ n \in 1..TailSeqs /\ pushed[r] \in Nat
  BY <1>1, EventTailAssumption DEF TailInv, TailTyped
<1>3. TailTyped'
  BY <1>1, <1>2 DEF TailInv, TailTyped
<1>4. Pushed'
  <2> SUFFICES ASSUME NEW e \in eventRows' PROVE e[2] <= pushed'[e[1]]
    BY DEF Pushed
  <2>1. CASE e \in eventRows
    <3>1. e[2] <= pushed[e[1]] /\ e[1] \in TailRuns /\ e[2] \in Nat
      BY <2>1, EventTailAssumption DEF TailInv, TailTyped, Pushed
    <3>2. pushed[e[1]] \in Nat /\ pushed'[e[1]] = IF e[1] = r THEN n ELSE pushed[e[1]]
      BY <1>1, <1>2, <3>1
    <3> QED BY <1>2, <3>1, <3>2
  <2>2. CASE e = <<r, n>>
    BY <1>1, <1>2, <2>2
  <2> QED BY <1>1, <2>1, <2>2
<1> HIDE DEF n
<1>5. ASSUME NEW q, NEW m \in Nat, Lists(q, Past(m)), m = LastOf(q)
      PROVE  Past(m)' = Past(m)
  <2>1. m <= pushed[Watched] /\ pushed[Watched] \in Nat
    <3>1. CASE q = <<>>
      BY <1>2, <1>5, <3>1, EventTailAssumption DEF LastOf
    <3>2. CASE q # <<>>
      <4>1. <<Watched, m>> \in eventRows
        BY <1>5, <3>2, LastIsSeq, PastIs DEF TailInv
      <4>2. <<Watched, m>>[2] <= pushed[<<Watched, m>>[1]]
        BY <4>1 DEF TailInv, Pushed
      <4> QED BY <1>2, <4>2, EventTailAssumption
    <3> QED BY <3>1, <3>2
  <2>2. \A x : <<Watched, x>> \in eventRows' /\ x <= m <=> <<Watched, x>> \in eventRows /\ x <= m
    <3> SUFFICES ASSUME NEW x, <<Watched, x>> = <<r, n>>, x <= m PROVE FALSE
      BY <1>1
    <3>1. x = n /\ r = Watched
      BY Zenon
    <3> QED BY <1>2, <2>1, <3>1 DEF n
  <2>3. \A x : x \in Past(m)' <=> <<Watched, x>> \in eventRows' /\ x <= m
    <3>1. \A e \in eventRows' : e = <<e[1], e[2]>>
      BY <1>3 DEF TailTyped
    <3>2. \A x : x \in Past(m)' => <<Watched, x>> \in eventRows' /\ x <= m
      BY <3>1 DEF Past, Own
    <3>3. ASSUME NEW x, <<Watched, x>> \in eventRows', x <= m PROVE x \in Past(m)'
      <4>1. <<Watched, x>>[1] = Watched /\ <<Watched, x>>[2] = x
        OBVIOUS
      <4> QED BY <3>3, <4>1 DEF Past, Own
    <3> QED BY <3>2, <3>3
  <2>4. \A x : x \in Past(m) <=> <<Watched, x>> \in eventRows /\ x <= m
    BY PastIs DEF TailInv
  <2>5. \A x : x \in Past(m)' <=> x \in Past(m)
    BY <2>2, <2>3, <2>4
  <2> QED BY <2>5
<1>6. LastOf(sse.got) \in Nat /\ LastOf(logs.out) \in Nat
  BY LastIsNat, <1>2 DEF TailInv, TailTyped
<1>7. Lists(sse.got, Past(LastOf(sse.got)))'
  <2>1. PICK q, m : q = sse.got /\ m = LastOf(q)
    OBVIOUS
  <2>2. Past(m)' = Past(m) /\ Lists(q, Past(m))
    BY <1>5, <1>6, <2>1 DEF TailInv, Received
  <2>3. Lists(sse.got, Past(LastOf(sse.got)))' <=> Lists(q, Past(m)')
    BY <1>1, <2>1 DEF LastOf, Lists, Past
  <2> QED BY <2>2, <2>3
<1>8. Lists(logs.out, Past(LastOf(logs.out)))'
  <2>1. PICK q, m : q = logs.out /\ m = LastOf(q)
    OBVIOUS
  <2>2. Past(m)' = Past(m) /\ Lists(q, Past(m))
    BY <1>5, <1>6, <2>1 DEF TailInv, Received
  <2>3. Lists(logs.out, Past(LastOf(logs.out)))' <=> Lists(q, Past(m)')
    BY <1>1, <2>1 DEF LastOf, Lists, Past
  <2> QED BY <2>2, <2>3
<1>9. Received'
  BY <1>1, <1>7, <1>8 DEF TailInv, Received, LastOf
<1> QED BY <1>3, <1>4, <1>9 DEF TailInv

\* Connecting, breaking off and cancelling change nothing that was received.
LEMMA QuietKeeps == ASSUME TailInv, Connect \/ Disconnect \/ Cancel PROVE TailInv'
<1>1. UNCHANGED <<eventRows, pushed>> /\ sse'.got = sse.got /\ logs'.out = logs.out /\ logs'.lastSeq = logs.lastSeq
  BY DEF Connect, Disconnect, Cancel, TailInv, TailTyped
<1>2. LastOf(sse.got) \in 0..TailSeqs
  <2>1. LastOf(sse.got) \in Nat
    BY LastIsNat DEF TailInv, TailTyped
  <2> QED BY <2>1, LastIsSeq DEF TailInv, Received
<1>3. TailTyped'
  BY <1>2 DEF Connect, Disconnect, Cancel, TailInv, TailTyped, LastOf
<1>4. sse'.open => sse'.since = LastOf(sse.got)
  BY DEF Connect, Disconnect, Cancel, TailInv, TailTyped, Received, LastOf
<1>5. Received'
  BY <1>1, <1>4 DEF TailInv, Received, LastOf, Past, Lists, Own
<1>6. Pushed'
  BY <1>1 DEF TailInv, Pushed
<1> QED BY <1>3, <1>5, <1>6 DEF TailInv

\* What a set of rows tells of the watched run.
LEMMA OwnIs ==
    ASSUME TailTyped, NEW someRows \in SUBSET eventRows
    PROVE  /\ Own(someRows) \subseteq 1..TailSeqs /\ \A x : x \in Own(someRows) <=> <<Watched, x>> \in someRows
           /\ Lists(SeqsOf(someRows), Own(someRows))
<1>1. \A e \in someRows : e = <<e[1], e[2]>> /\ e[2] \in 1..TailSeqs
  BY DEF TailTyped
<1>2. \A x : x \in Own(someRows) => <<Watched, x>> \in someRows /\ x \in 1..TailSeqs
  BY <1>1 DEF Own
<1>3. ASSUME NEW x, <<Watched, x>> \in someRows PROVE x \in Own(someRows)
  <2>1. <<Watched, x>>[1] = Watched /\ <<Watched, x>>[2] = x
    OBVIOUS
  <2> QED BY <1>3, <2>1 DEF Own
<1>4. Lists(SeqsOf(someRows), Own(someRows))
  BY <1>2, SeqsOfLists, EventTailAssumption
<1> QED BY <1>2, <1>3, <1>4

\* A batch is the next rows, so that its own seqs are the next of the run.
LEMMA PollKeeps == ASSUME TailInv, Poll PROVE TailInv'
<1>0. PICK b \in tailEvents(sse.since) :
         LET q == SeqsOf(b) IN
         \E k \in 0..Len(q) :
            sse' = [since |-> IF q = <<>> THEN sse.since ELSE q[Len(q)], open |-> k = Len(q),
                    got |-> sse.got \o SubSeq(q, 1, k)]
  BY Zenon DEF Poll
<1>00. PICK q : q = SeqsOf(b)
  OBVIOUS
<1>1. PICK k \in 0..Len(q) :
         sse' = [since |-> IF q = <<>> THEN sse.since ELSE q[Len(q)], open |-> k = Len(q),
                 got |-> sse.got \o SubSeq(q, 1, k)]
  BY <1>0, <1>00, Zenon
<1>2. UNCHANGED <<eventRows, pushed, logs>> /\ sse.open
  BY DEF Poll
<1>3. /\ b \in SUBSET eventRows /\ \A e \in b : e[2] > sse.since
      /\ \A e \in b, f \in eventRows : f[2] > sse.since /\ f \notin b => e[2] <= f[2]
  BY <1>0 DEF tailEvents
<1>4. /\ Own(b) \subseteq 1..TailSeqs /\ Lists(q, Own(b))
      /\ \A x : x \in Own(b) <=> <<Watched, x>> \in b
  BY <1>00, <1>3, OwnIs DEF TailInv
<1>5. sse.since = LastOf(sse.got) /\ sse.since \in 0..TailSeqs /\ sse.since \in Nat /\ sse.got \in Seq(Nat)
  BY <1>2, EventTailAssumption DEF TailInv, TailTyped, Received
<1>6. \A x \in Own(b) : <<Watched, x>> \in eventRows /\ x > LastOf(sse.got)
  <2> SUFFICES ASSUME NEW x \in Own(b) PROVE <<Watched, x>> \in eventRows /\ x > LastOf(sse.got)
    OBVIOUS
  <2>1. <<Watched, x>> \in b /\ <<Watched, x>>[2] = x
    BY <1>4
  <2> QED BY <1>3, <1>5, <2>1
<1>7. \A x \in Own(b), y \in 1..TailSeqs :
         <<Watched, y>> \in eventRows /\ y > LastOf(sse.got) /\ y <= x => y \in Own(b)
  <2> SUFFICES ASSUME NEW x \in Own(b), NEW y \in 1..TailSeqs, <<Watched, y>> \in eventRows, y > LastOf(sse.got),
                      y <= x, <<Watched, y>> \notin b
               PROVE  FALSE
    BY <1>4
  <2>1. <<Watched, x>> \in b /\ <<Watched, x>>[2] = x /\ <<Watched, y>>[2] = y
    BY <1>4
  <2>2. x <= y
    BY <1>3, <1>5, <2>1
  <2>3. x = y
    BY <1>4, <2>2, EventTailAssumption
  <2> QED BY <2>1, <2>3
<1> DEFINE g == sse.got \o SubSeq(q, 1, k)
<1>8. Lists(g, Past(LastOf(g))) /\ LastOf(g) = IF k = 0 THEN LastOf(sse.got) ELSE q[k]
  <2>1. TailTyped /\ LastOf(sse.got) \in Nat /\ HistoryTo(sse.got, LastOf(sse.got))
    BY <1>5 DEF TailInv, Received, HistoryTo
  <2>2. NextOf(Own(b), LastOf(sse.got))
    BY <1>6, <1>7 DEF NextOf
  <2>3. HistoryTo(g, IF k = 0 THEN LastOf(sse.got) ELSE q[k])
    BY <1>4, <2>1, <2>2, GoesOn
  <2> QED BY <2>3 DEF HistoryTo
<1>9. q \in Seq(Nat) /\ Len(q) \in Nat /\ k \in Nat /\ (q = <<>> <=> Len(q) = 0)
      /\ (Len(q) # 0 => q[Len(q)] \in 1..TailSeqs)
  <2>1. q \in Seq(Nat) /\ Len(q) \in Nat /\ DOMAIN q = 1..Len(q) /\ (q = <<>> <=> Len(q) = 0)
    BY <1>4 DEF Lists
  <2>2. \A i \in DOMAIN q : q[i] \in Own(b)
    BY <1>4 DEF Lists
  <2>3. Len(q) # 0 => q[Len(q)] \in Own(b)
    BY <2>1, <2>2
  <2>4. k \in Nat
    BY <2>1
  <2> QED BY <1>4, <2>1, <2>3, <2>4
<1>10. g \in Seq(Nat)
  BY <1>8 DEF Lists
<1> HIDE DEF g
<1>11. sse'.got = g /\ (sse'.open => k = Len(q)) /\ sse'.open \in BOOLEAN
       /\ sse'.since = IF q = <<>> THEN sse.since ELSE q[Len(q)]
  BY <1>1 DEF g
<1>12. TailTyped'
  <2>1. sse'.since \in 0..TailSeqs
    BY <1>5, <1>9, <1>11, EventTailAssumption
  <2>2. sse' \in [since : 0..TailSeqs, open : BOOLEAN, got : Seq(Nat)]
    BY <1>1, <1>10, <1>11, <2>1
  <2> QED BY <1>2, <2>2 DEF TailInv, TailTyped
<1>13. sse'.open => sse'.since = LastOf(g)
  BY <1>5, <1>8, <1>9, <1>11
<1>14. Received'
  BY <1>2, <1>8, <1>11, <1>13 DEF TailInv, Received, Lists, Past, Own, LastOf
<1> QED BY <1>2, <1>12, <1>14 DEF TailInv, Pushed

LEMMA TickKeeps == ASSUME TailInv, Tick PROVE TailInv'
<1> DEFINE due == {e \in eventRows : e[2] > logs.lastSeq}
<1>00. PICK q : q = SeqsOf(due)
  OBVIOUS
<1>1. /\ logs' = [lastSeq |-> IF q = <<>> THEN logs.lastSeq ELSE q[Len(q)], out |-> logs.out \o q,
                  state |-> IF <<Watched, TailSeqs>> \in eventRows THEN "done" ELSE "tailing"]
      /\ UNCHANGED <<eventRows, pushed, sse>>
  BY <1>00 DEF Tick
<1>3. due \in SUBSET eventRows
  OBVIOUS
<1>4. /\ Own(due) \subseteq 1..TailSeqs /\ Lists(q, Own(due))
      /\ \A x : x \in Own(due) <=> <<Watched, x>> \in due
  BY <1>00, <1>3, OwnIs DEF TailInv
<1>5. logs.lastSeq = LastOf(logs.out) /\ logs.lastSeq \in 0..TailSeqs /\ logs.lastSeq \in Nat /\ logs.out \in Seq(Nat)
  BY EventTailAssumption DEF TailInv, TailTyped, Received
<1>6. \A x : <<Watched, x>> \in due <=> <<Watched, x>> \in eventRows /\ x > LastOf(logs.out)
  BY <1>5
<1> HIDE DEF due
<1>7. \A x \in Own(due) : <<Watched, x>> \in eventRows /\ x > LastOf(logs.out)
  BY <1>4, <1>6
<1>8. \A x \in Own(due), y \in 1..TailSeqs :
         <<Watched, y>> \in eventRows /\ y > LastOf(logs.out) /\ y <= x => y \in Own(due)
  BY <1>4, <1>6
<1>9. q \in Seq(Nat) /\ Len(q) \in Nat /\ Len(q) \in 0..Len(q) /\ (q = <<>> <=> Len(q) = 0)
      /\ (Len(q) # 0 => q[Len(q)] \in 1..TailSeqs) /\ SubSeq(q, 1, Len(q)) = q
  <2>1. q \in Seq(Nat) /\ Len(q) \in Nat /\ DOMAIN q = 1..Len(q) /\ (q = <<>> <=> Len(q) = 0)
    BY <1>4 DEF Lists
  <2>2. \A i \in DOMAIN q : q[i] \in Own(due)
    BY <1>4 DEF Lists
  <2> QED BY <1>4, <2>1, <2>2
<1> DEFINE g == logs.out \o SubSeq(q, 1, Len(q))
<1>10. Lists(g, Past(LastOf(g))) /\ LastOf(g) = IF Len(q) = 0 THEN LastOf(logs.out) ELSE q[Len(q)]
  <2>1. TailTyped /\ LastOf(logs.out) \in Nat /\ HistoryTo(logs.out, LastOf(logs.out))
    BY <1>5 DEF TailInv, Received, HistoryTo
  <2>2. NextOf(Own(due), LastOf(logs.out))
    BY <1>7, <1>8 DEF NextOf
  <2>3. HistoryTo(g, IF Len(q) = 0 THEN LastOf(logs.out) ELSE q[Len(q)])
    BY <1>4, <1>9, <2>1, <2>2, GoesOn
  <2> QED BY <2>3 DEF HistoryTo
<1>11. g \in Seq(Nat) /\ g = logs.out \o q
  BY <1>9, <1>10 DEF Lists
<1> HIDE DEF g
<1>12. logs'.out = g /\ logs'.lastSeq = LastOf(g)
  BY <1>1, <1>5, <1>9, <1>10, <1>11
<1>13. TailTyped'
  <2>1. logs'.lastSeq \in 0..TailSeqs
    BY <1>1, <1>5, <1>9, EventTailAssumption
  <2>2. logs' \in [lastSeq : 0..TailSeqs, out : Seq(Nat), state : {"tailing", "done", "cancelled"}]
    BY <1>1, <1>11, <1>12, <2>1
  <2> QED BY <1>1, <2>2 DEF TailInv, TailTyped
<1>14. Received'
  <2>0. Past(LastOf(logs.out))' = Past(LastOf(g))
    BY <1>1, <1>12 DEF Past, Own, LastOf
  <2>1. Lists(logs.out, Past(LastOf(logs.out)))'
    BY <1>10, <1>12, <2>0
  <2>2. (logs.lastSeq = LastOf(logs.out))'
    BY <1>12 DEF LastOf
  <2>3. (Lists(sse.got, Past(LastOf(sse.got))) /\ (sse.open => sse.since = LastOf(sse.got)))'
    BY <1>1 DEF TailInv, Received, Lists, Past, Own, LastOf
  <2> QED BY <2>1, <2>2, <2>3 DEF Received
<1> QED BY <1>1, <1>13, <1>14 DEF TailInv, Pushed

LEMMA TailKeeps == ASSUME TailInv, [TailNext]_tailVars PROVE TailInv'
<1>1. CASE UNCHANGED tailVars
  BY <1>1 DEF tailVars, TailInv, TailTyped, Pushed, Received, Lists, Past, Own, LastOf
<1> QED BY <1>1, InsertKeeps, QuietKeeps, PollKeeps, TickKeeps DEF TailNext

\* The invariant of the readers of events, for any runs, number of events and batch size.
THEOREM TailInvariant == TailSpec => []TailInv
<1> QED BY TailInitInv, TailKeeps, PTL DEF TailSpec

LEMMA HistoryKnown ==
    ASSUME TailTyped, NEW have \in Seq(Nat), Lists(have, Past(LastOf(have)))
    PROVE  IsHistory(have) /\ Len(have) <= TailSeqs
<1> DEFINE someRows == {e \in eventRows : e[2] <= LastOf(have)}
<1>1. LastOf(have) \in Nat /\ Past(LastOf(have)) = Own(someRows)
  BY LastIsNat DEF Past
<1>2. Lists(SeqsOf(someRows), Own(someRows)) /\ Own(someRows) \subseteq 1..TailSeqs
  BY OwnIs
<1>3. have = SeqsOf(someRows)
  BY <1>1, <1>2, ListUnique
<1>4. IsHistory(have)
  BY <1>3 DEF IsHistory, LastOf
<1>5. IsFiniteSet(1..TailSeqs) /\ Cardinality(1..TailSeqs) = TailSeqs
  BY FS_Interval, EventTailAssumption
<1>6. Cardinality(Own(someRows)) = Len(have) /\ Cardinality(Own(someRows)) <= TailSeqs
  <2>1. Own(someRows) \in SUBSET (1..TailSeqs)
    BY <1>2
  <2>2. Cardinality(Own(someRows)) <= Cardinality(1..TailSeqs)
    BY <1>5, <2>1, FS_Subset
  <2> QED BY <1>1, <1>5, <2>2, ListLength
<1> QED BY <1>4, <1>6

\* What each reader received is the run's history so far, each event once and in order, over
\* any breaks and reconnects, with any runs in the table and any batch size.
THEOREM ReadersCorrect == TailSpec => [](TailTypeOK /\ ReadersSeeHistory)
<1>1. TailInv => ReadersSeeHistory
  BY HistoryKnown DEF TailInv, TailTyped, Received, ReadersSeeHistory
<1>2. TailInv => TailTypeOK
  BY HistoryKnown DEF TailInv, TailTyped, Received, TailTypeOK
<1> QED BY <1>1, <1>2, TailInvariant, PTL

-----------------------------------------------------------------------------
(* The watchdog. *)

DogSignals == {"checkpoint_lag", "no_write_activity", "cost_velocity", "tool_loop"}
Heard == [signal : DogSignals, confidence : {"medium", "high"}, at : Nat]
Alerts == [signals : SUBSET DogSignals, of : SUBSET Heard]

MadeAt(a) == LET o == CHOOSE x \in a.of : \A y \in a.of : y.at <= x.at IN o.at

\* Two signals made the alert, the later of them at a time up to now.
Agreed(a, now) ==
    \E o1, o2 \in Heard :
        /\ a = [signals |-> {o1.signal, o2.signal}, of |-> {o1, o2}]
        /\ o1.signal # o2.signal
        /\ o2.at <= o1.at /\ o1.at <= o2.at + AgreementWindow /\ o1.at <= now

\* The pair is marked, and what the buffer has of its signals is no older than the alert.
Marked(b, a) ==
    /\ a.signals \in b.alertedPairs
    /\ \A o \in a.of, e \in b.perSignal : e.obs.signal = o.signal => e.obs.at >= o.at

BucketTyped(b, now) ==
    /\ b = [perSignal |-> b.perSignal, alertedPairs |-> b.alertedPairs]
    /\ \E bound \in Nat : \A e \in b.perSignal : e.place <= bound
    /\ \A e, f \in b.perSignal : e.obs.signal = f.obs.signal => e = f
    /\ \A e \in b.perSignal :
         /\ e.place \in Nat /\ e.obs.at \in Nat /\ e.obs.at <= now
         /\ e.obs = [signal |-> e.obs.signal, confidence |-> e.obs.confidence, at |-> e.obs.at]
         /\ e.obs.signal \in DogSignals

AlertsFit(al, now) ==
    /\ al \in Seq(Alerts)
    /\ \A k \in DOMAIN al : Agreed(al[k], now)
    /\ \A j, k \in DOMAIN al :
          j < k /\ al[j].signals = al[k].signals => \E o \in al[j].of : MadeAt(al[k]) > o.at + AgreementWindow

\* An alert is marked until one of the observations it was made of is older than the window.
AllMarked(b, al, now) ==
    \A k \in DOMAIN al : Marked(b, al[k]) \/ \E o \in al[k].of : now > o.at + AgreementWindow

PairsMade(b, al) ==
    \A e, f \in b.perSignal :
        /\ e.obs.signal # f.obs.signal
        /\ countsTowardAgreement(e.obs.confidence) /\ countsTowardAgreement(f.obs.confidence)
        => \/ {e.obs.signal, f.obs.signal} \in b.alertedPairs
           \/ \E k \in DOMAIN al : MadeAt(al[k]) >= e.obs.at /\ MadeAt(al[k]) >= f.obs.at

DogFits(b, al, now) ==
    BucketTyped(b, now) /\ AlertsFit(al, now) /\ AllMarked(b, al, now) /\ PairsMade(b, al)

LEMMA MadeAtLatest ==
    ASSUME NEW o1 \in Heard, NEW o2 \in Heard, o2.at <= o1.at,
           NEW a, a.of = {o1, o2}
    PROVE  MadeAt(a) = o1.at
<1> DEFINE Latest(x) == x \in a.of /\ \A y \in a.of : y.at <= x.at
<1>1. o1.at \in Nat /\ o2.at \in Nat
  BY DEF Heard
<1>2. Latest(o1)
  BY <1>1
<1>3. \A x : Latest(x) => x.at = o1.at
  BY <1>1
<1> QED BY <1>2, <1>3 DEF MadeAt

\* Sweeping forgets a pair only when a signal of it has aged out.
LEMMA SweepFits ==
    ASSUME NEW b, NEW al, NEW now \in Nat, DogFits(b, al, now)
    PROVE  /\ DogFits(sweepRun(b, now), al, now)
           /\ \A e \in sweepRun(b, now).perSignal : e.obs.at + AgreementWindow >= now
<1> DEFINE c == sweepRun(b, now)
           expired == {e.obs.signal : e \in {x \in b.perSignal : x.obs.at < now - AgreementWindow}}
<1>0. AgreementWindow \in Nat
  BY WatchdogAssumption
<1>1. c.perSignal = {e \in b.perSignal : e.obs.signal \notin expired}
  BY DEF sweepRun
<1>2. c.alertedPairs = {p \in b.alertedPairs : p \cap expired = {}} /\ c = [perSignal |-> c.perSignal, alertedPairs |-> c.alertedPairs]
  BY DEF sweepRun
<1> HIDE DEF c
<1>3. BucketTyped(c, now)
  BY <1>1, <1>2 DEF DogFits, BucketTyped
<1>4. \A e \in c.perSignal : e.obs.at + AgreementWindow >= now
  <2> SUFFICES ASSUME NEW e \in c.perSignal PROVE e.obs.at + AgreementWindow >= now
    OBVIOUS
  <2>1. e \in b.perSignal /\ ~(e.obs.at < now - AgreementWindow)
    BY <1>1
  <2>2. e.obs.at \in Nat
    BY <2>1 DEF BucketTyped, DogFits
  <2> QED BY <1>0, <2>1, <2>2
<1>5. AllMarked(c, al, now)
  <2> SUFFICES ASSUME NEW k \in DOMAIN al, Marked(b, al[k]), ~Marked(c, al[k])
               PROVE \E o \in al[k].of : now > o.at + AgreementWindow
    BY DEF AllMarked, DogFits
  <2>1. al[k].signals \in b.alertedPairs /\ al[k].signals \notin c.alertedPairs
    BY <1>1 DEF Marked
  <2>2. PICK s \in al[k].signals : s \in expired
    BY <1>2, <2>1
  <2>3. PICK e \in b.perSignal : e.obs.at < now - AgreementWindow /\ e.obs.signal = s
    BY <2>2
  <2>4. PICK o1, o2 \in Heard : al[k] = [signals |-> {o1.signal, o2.signal}, of |-> {o1, o2}]
    BY DEF DogFits, AlertsFit, Agreed
  <2>5. PICK o \in al[k].of : o.signal = s /\ o \in Heard
    BY <2>2, <2>4
  <2>6. e.obs.at >= o.at
    BY <2>3, <2>5 DEF Marked
  <2>7. e.obs.at \in Nat /\ o.at \in Nat
    BY <2>5 DEF DogFits, BucketTyped, Heard
  <2> QED BY <1>0, <2>3, <2>5, <2>6, <2>7
<1>6. PairsMade(c, al)
  <2> SUFFICES ASSUME NEW e \in c.perSignal, NEW f \in c.perSignal, {e.obs.signal, f.obs.signal} \in b.alertedPairs
               PROVE {e.obs.signal, f.obs.signal} \in c.alertedPairs
    BY <1>1 DEF PairsMade, DogFits
  <2> QED BY <1>1, <1>2
<1> QED BY <1>3, <1>4, <1>5, <1>6 DEF DogFits, c

\* A non-empty set of naturals has a least member.
LEMMA LeastNatural ==
    ASSUME NEW S \in SUBSET Nat, S # {}
    PROVE  \E n \in S : \A m \in S : n <= m
<1>1. PICK n \in S : \A m \in S : ~(<<m, n>> \in OpToRel(<, Nat))
  BY WFMin, NatLessThanWellFounded
<1>2. \A m \in S : ~(m < n)
  BY <1>1 DEF OpToRel
<1> QED BY <1>2

\* Bounded naturals have a first and a last one.
LEMMA PlacesKnown ==
    ASSUME NEW places \in SUBSET Nat, places # {}, NEW bound \in Nat, \A m \in places : m <= bound
    PROVE  /\ Max(places) \in places /\ \A m \in places : m <= Max(places)
           /\ \E n \in places : \A m \in places : n <= m
<1>1. \E n \in places : \A m \in places : n <= m
  BY LeastNatural
<1>2. \E n \in places : \A m \in places : n >= m
  <2> DEFINE Upper == {n \in Nat : \A m \in places : m <= n}
  <2>1. bound \in Upper /\ Upper \in SUBSET Nat
    OBVIOUS
  <2>2. PICK n \in Upper : \A m \in Upper : n <= m
    <3> HIDE DEF Upper
    <3> QED BY <2>1, LeastNatural
  <2>3. ASSUME n \notin places PROVE FALSE
    <3>1. \A m \in places : m <= n - 1
      BY <2>2, <2>3
    <3>2. n - 1 \in Nat
      <4>1. PICK m \in places : m <= n - 1
        BY <3>1
      <4> QED BY <2>2, <4>1
    <3> QED BY <2>2, <3>1, <3>2
  <2> QED BY <2>2, <2>3
<1>3. Max(places) \in places /\ \A m \in places : Max(places) >= m
  BY <1>2 DEF Max
<1> QED BY <1>1, <1>3

\* An observation takes the place of its signal in the Map, or the last one.
LEMMA SetSignalFits ==
    ASSUME NEW b, NEW now \in Nat, BucketTyped(b, now), NEW obs
    PROVE  \E place \in Nat :
              setSignal(b.perSignal, obs)
                = {e \in b.perSignal : e.obs.signal # obs.signal} \cup {[place |-> place, obs |-> obs]}
<1> DEFINE same == {e \in b.perSignal : e.obs.signal = obs.signal}
           places == {e.place : e \in IF same = {} THEN b.perSignal ELSE same}
           place == IF same = {} THEN Max(places \cup {0}) + 1 ELSE Max(places)
<1>1. PICK bound \in Nat : \A e \in b.perSignal : e.place <= bound
  BY DEF BucketTyped
<1>2. places \subseteq Nat /\ \A m \in places : m <= bound
  BY <1>1 DEF BucketTyped
<1>3. place \in Nat
  <2>1. Max(places \cup {0}) \in places \cup {0}
    <3> HIDE DEF places
    <3>1. places \cup {0} \in SUBSET Nat /\ \A m \in places \cup {0} : m <= bound
      BY <1>2
    <3> QED BY <3>1, PlacesKnown
  <2>2. same # {} => places # {}
    OBVIOUS
  <2>3. places # {} => Max(places) \in places
    <3> HIDE DEF places
    <3> QED BY <1>2, PlacesKnown
  <2> QED BY <1>2, <2>1, <2>2, <2>3
<1>4. b.perSignal \ same = {e \in b.perSignal : e.obs.signal # obs.signal}
  OBVIOUS
<1> QED BY <1>3, <1>4 DEF setSignal

\* The first of some entries is one of them.
LEMMA EarliestFits ==
    ASSUME NEW b, NEW now \in Nat, BucketTyped(b, now), NEW entries \in SUBSET b.perSignal, entries # {}
    PROVE  earliest(entries) \in entries
<1> DEFINE places == {e.place : e \in entries}
<1>1. PICK bound \in Nat : \A e \in b.perSignal : e.place \in Nat /\ e.place <= bound
  BY DEF BucketTyped
<1>2. places \in SUBSET Nat /\ (\A m \in places : m <= bound) /\ places # {}
  BY <1>1
<1>3. PICK n \in places : \A m \in places : n <= m
  <2> HIDE DEF places
  <2> QED BY <1>2, PlacesKnown
<1>4. \E e \in entries : \A f \in entries : e.place <= f.place
  BY <1>3
<1> QED BY <1>4 DEF earliest

\* An observation of now that is ingested, with the alert it makes.
LEMMA IngestFits ==
    ASSUME NEW b, NEW al, NEW now \in Nat, DogFits(b, al, now),
           NEW obs, obs = [signal |-> obs.signal, confidence |-> obs.confidence, at |-> now], obs.signal \in DogSignals
    PROVE  DogFits(ingest(b, obs).bucket, al \o ingest(b, obs).alert, now)
<1> DEFINE swept == sweepRun(b, obs.at)
           partners == {e \in swept.perSignal : /\ e.obs.signal # obs.signal
                                                /\ countsTowardAgreement(e.obs.confidence)
                                                /\ {e.obs.signal, obs.signal} \notin swept.alertedPairs}
           found == countsTowardAgreement(obs.confidence) /\ partners # {}
           prior == earliest(partners).obs
           pair == {obs.signal, prior.signal}
           alert == [signals |-> pair, of |-> {obs, prior}]
           c == ingest(b, obs).bucket
           more == ingest(b, obs).alert
<1>1. obs.at = now /\ AgreementWindow \in Nat
  BY WatchdogAssumption
<1>2. DogFits(swept, al, now) /\ \A e \in swept.perSignal : e.obs.at + AgreementWindow >= now
  BY <1>1, SweepFits
<1>3. /\ c = [perSignal |-> setSignal(swept.perSignal, obs),
               alertedPairs |-> swept.alertedPairs \cup (IF found THEN {pair} ELSE {})]
      /\ more = IF found THEN <<alert>> ELSE <<>>
  BY DEF ingest
<1>4. PICK place \in Nat :
         setSignal(swept.perSignal, obs)
           = {e \in swept.perSignal : e.obs.signal # obs.signal} \cup {[place |-> place, obs |-> obs]}
  <2> HIDE DEF swept
  <2> QED BY <1>2, SetSignalFits DEF DogFits
<1>5. found => earliest(partners) \in partners
  <2>1. partners \in SUBSET swept.perSignal
    OBVIOUS
  <2> HIDE DEF swept, partners
  <2> QED BY <1>2, <2>1, EarliestFits DEF DogFits
<1> HIDE DEF c, more, swept, partners
<1>6. /\ \A e \in c.perSignal : e.obs.signal # obs.signal => e \in swept.perSignal
      /\ \A e \in c.perSignal : e.obs.signal = obs.signal => e.obs = obs
      /\ swept.alertedPairs \subseteq c.alertedPairs
      /\ found => pair \in c.alertedPairs
      /\ \A e \in c.perSignal : e \in swept.perSignal \/ e = [place |-> place, obs |-> obs]
  BY <1>3, <1>4
<1>7. BucketTyped(c, now)
  <2>1. PICK bound \in Nat : \A e \in swept.perSignal : e.place <= bound
    BY <1>2 DEF DogFits, BucketTyped
  <2> DEFINE Typed(e) ==
               /\ e.place \in Nat /\ e.obs.at \in Nat /\ e.obs.at <= now
               /\ e.obs = [signal |-> e.obs.signal, confidence |-> e.obs.confidence, at |-> e.obs.at]
               /\ e.obs.signal \in DogSignals
  <2>2. ASSUME NEW e \in swept.perSignal PROVE Typed(e) /\ e.place <= bound + place
    <3>1. e.place \in Nat /\ e.place <= bound
      BY <1>2, <2>1 DEF DogFits, BucketTyped
    <3>2. e.place <= bound + place
      BY <3>1
    <3> QED BY <1>2, <3>1, <3>2 DEF DogFits, BucketTyped
  <2>3. Typed([place |-> place, obs |-> obs]) /\ place <= bound + place
    BY <1>1
  <2>4. c = [perSignal |-> c.perSignal, alertedPairs |-> c.alertedPairs] /\ bound + place \in Nat
    BY <1>3
  <2>5. \A e \in c.perSignal : Typed(e) /\ e.place <= bound + place
    <3> HIDE DEF Typed
    <3>1. [place |-> place, obs |-> obs].place = place
      OBVIOUS
    <3> QED BY <1>6, <2>2, <2>3, <3>1
  <2>6. \A e, f \in c.perSignal : e.obs.signal = f.obs.signal => e = f
    <3>1. \A e, f \in swept.perSignal : e.obs.signal = f.obs.signal => e = f
      BY <1>2 DEF DogFits, BucketTyped
    <3>2. \A e \in c.perSignal :
            \/ e \in swept.perSignal /\ e.obs.signal # obs.signal
            \/ e = [place |-> place, obs |-> obs] /\ e.obs.signal = obs.signal
      BY <1>3, <1>4
    <3> QED BY <3>1, <3>2
  <2> QED BY <2>4, <2>5, <2>6 DEF BucketTyped
<1>8. \A k \in DOMAIN al : Marked(c, al[k]) \/ \E o \in al[k].of : now > o.at + AgreementWindow
  <2> SUFFICES ASSUME NEW k \in DOMAIN al, Marked(swept, al[k]) PROVE Marked(c, al[k])
    BY <1>2 DEF DogFits, AllMarked
  <2>1. PICK o1, o2 \in Heard :
           /\ al[k] = [signals |-> {o1.signal, o2.signal}, of |-> {o1, o2}]
           /\ o2.at <= o1.at /\ o1.at <= now
    BY <1>2 DEF DogFits, AlertsFit, Agreed
  <2>2. \A o \in al[k].of : o.at \in Nat /\ o.at <= now
    BY <2>1 DEF Heard
  <2> QED BY <1>1, <1>6, <2>2 DEF Marked
<1>9. CASE ~found
  <2>1. al \o more = al /\ al \in Seq(Alerts)
    BY <1>2, <1>3, <1>9 DEF DogFits, AlertsFit
  <2>2. PairsMade(c, al)
    <3> SUFFICES ASSUME NEW e \in c.perSignal, NEW f \in c.perSignal, e.obs.signal # f.obs.signal,
                        countsTowardAgreement(e.obs.confidence), countsTowardAgreement(f.obs.confidence)
                 PROVE \/ {e.obs.signal, f.obs.signal} \in c.alertedPairs
                       \/ \E k \in DOMAIN al : MadeAt(al[k]) >= e.obs.at /\ MadeAt(al[k]) >= f.obs.at
      BY DEF PairsMade
    <3>1. CASE e.obs.signal # obs.signal /\ f.obs.signal # obs.signal
      BY <1>2, <1>6, <3>1 DEF DogFits, PairsMade
    <3>2. ASSUME NEW g \in c.perSignal, NEW h \in c.perSignal, g.obs.signal = obs.signal, h.obs.signal # obs.signal,
                 countsTowardAgreement(g.obs.confidence), countsTowardAgreement(h.obs.confidence)
          PROVE {h.obs.signal, g.obs.signal} \in c.alertedPairs
      BY <1>6, <1>9, <3>2 DEF partners
    <3>3. CASE e.obs.signal = obs.signal
      BY <3>2, <3>3
    <3>4. CASE f.obs.signal = obs.signal
      BY <3>2, <3>4
    <3> QED BY <3>1, <3>3, <3>4
  <2>3. DogFits(c, al, now)
    BY <1>2, <1>7, <1>8, <2>2 DEF DogFits, AllMarked
  <2> QED BY <2>1, <2>3 DEF c, more
<1>10. CASE found
  <2> DEFINE now2 == al \o more
  <2>1. /\ prior.signal # obs.signal /\ countsTowardAgreement(prior.confidence) /\ pair \notin swept.alertedPairs
        /\ earliest(partners) \in swept.perSignal /\ countsTowardAgreement(obs.confidence)
    BY <1>5, <1>10 DEF partners
  <2>2. /\ prior.at \in Nat /\ prior.at <= now /\ prior.at + AgreementWindow >= now
        /\ prior \in Heard /\ obs \in Heard
    <3>1. /\ prior.at \in Nat /\ prior.at <= now /\ prior.signal \in DogSignals
          /\ prior = [signal |-> prior.signal, confidence |-> prior.confidence, at |-> prior.at]
      BY <1>2, <2>1 DEF DogFits, BucketTyped
    <3>2. prior.at + AgreementWindow >= now
      BY <1>2, <2>1
    <3>3. prior \in Heard
      BY <2>1, <3>1 DEF Heard, countsTowardAgreement
    <3>4. obs \in Heard
      BY <2>1 DEF Heard, countsTowardAgreement
    <3> QED BY <3>1, <3>2, <3>3, <3>4
  <2> HIDE DEF prior
  <2>3. Agreed(alert, now) /\ MadeAt(alert) = now /\ alert \in Alerts
    <3>1. MadeAt(alert) = obs.at
      BY <1>1, <2>2, MadeAtLatest
    <3>2. Agreed(alert, now)
      <4>1. obs.signal # prior.signal /\ prior.at <= obs.at /\ obs.at <= prior.at + AgreementWindow /\ obs.at <= now
        BY <1>1, <2>1, <2>2
      <4>2. obs \in Heard /\ prior \in Heard
        BY <2>2
      <4> QED BY <4>1, <4>2 DEF Agreed
    <3>3. alert \in Alerts
      BY <2>2 DEF Alerts, Heard
    <3> QED BY <1>1, <3>1, <3>2, <3>3
  <2> DEFINE n == Len(al)
  <2> HIDE DEF alert
  <2>4. /\ al \in Seq(Alerts) /\ more = <<alert>> /\ n \in Nat /\ DOMAIN al = 1..n
    BY <1>2, <1>3, <1>10 DEF DogFits, AlertsFit
  <2>5. /\ now2 \in Seq(Alerts) /\ DOMAIN now2 = 1..(n + 1)
        /\ \A k \in 1..n : now2[k] = al[k]
        /\ now2[n + 1] = alert
    BY <2>3, <2>4
  <2> HIDE DEF now2, n
  <2>6. \A k \in DOMAIN now2 : Agreed(now2[k], now)
    BY <1>2, <2>3, <2>4, <2>5 DEF DogFits, AlertsFit
  <2>7. \A j, k \in DOMAIN now2 :
           j < k /\ now2[j].signals = now2[k].signals => \E o \in now2[j].of : MadeAt(now2[k]) > o.at + AgreementWindow
    <3> SUFFICES ASSUME NEW j \in DOMAIN now2, NEW k \in DOMAIN now2, j < k, now2[j].signals = now2[k].signals
                 PROVE \E o \in now2[j].of : MadeAt(now2[k]) > o.at + AgreementWindow
      OBVIOUS
    <3>1. CASE k \in 1..n
      <4>1. j \in 1..n /\ now2[j] = al[j] /\ now2[k] = al[k]
        BY <2>4, <2>5, <3>1
      <4> QED BY <1>2, <2>4, <3>1, <4>1 DEF DogFits, AlertsFit
    <3>2. CASE k = n + 1
      <4>1. now2[j] = al[j] /\ j \in DOMAIN al /\ al[j].signals = pair
        BY <2>4, <2>5, <3>2 DEF alert
      <4>2. ~Marked(swept, al[j])
        BY <2>1, <4>1 DEF Marked, prior
      <4> QED BY <1>2, <2>3, <2>5, <3>2, <4>1, <4>2 DEF DogFits, AllMarked
    <3> QED BY <2>4, <2>5, <3>1, <3>2
  <2>8. AllMarked(c, now2, now)
    <3>1. Marked(c, alert)
      <4>1. alert.signals \in c.alertedPairs
        BY <1>6, <1>10 DEF alert, prior
      <4>2. \A e \in c.perSignal : e.obs.signal = prior.signal => e.obs.at >= prior.at
        <5> SUFFICES ASSUME NEW e \in c.perSignal, e.obs.signal = prior.signal PROVE e.obs.at >= prior.at
          OBVIOUS
        <5>1. e \in swept.perSignal
          BY <1>6, <2>1
        <5>2. e = earliest(partners)
          BY <1>2, <2>1, <5>1 DEF DogFits, BucketTyped, prior
        <5> QED BY <2>2, <5>2 DEF prior
      <4> QED BY <1>1, <1>6, <4>1, <4>2 DEF Marked, alert
    <3> QED BY <1>8, <2>4, <2>5, <3>1 DEF AllMarked
  <2>9. PairsMade(c, now2)
    <3>1. \A e \in c.perSignal : MadeAt(now2[n + 1]) >= e.obs.at
      BY <1>7, <2>3, <2>5 DEF BucketTyped
    <3>2. n + 1 \in DOMAIN now2
      BY <2>4, <2>5
    <3> SUFFICES ASSUME NEW e \in c.perSignal, NEW f \in c.perSignal
                 PROVE \E k \in DOMAIN now2 : MadeAt(now2[k]) >= e.obs.at /\ MadeAt(now2[k]) >= f.obs.at
      BY DEF PairsMade
    <3> QED BY <3>1, <3>2
  <2>10. DogFits(c, now2, now)
    BY <1>7, <2>5, <2>6, <2>7, <2>8, <2>9 DEF DogFits, AlertsFit
  <2> QED BY <2>10 DEF now2, c, more
<1> QED BY <1>9, <1>10 DEF c, more

\* A bucket with the alerts made so far, in a tick.
Seen(acc) == acc = [bucket |-> acc.bucket, alerts |-> acc.alerts] /\ DogFits(acc.bucket, acc.alerts, dogClock)

\* A signal that is judged.
LEMMA HeardFits ==
    ASSUME dogClock \in Nat, NEW acc, Seen(acc), NEW signal \in DogSignals, NEW confidence, NEW judged
    PROVE  Seen(heard(acc, signal, confidence, judged))
<1> DEFINE obs == [signal |-> signal, confidence |-> confidence, at |-> dogClock]
           result == ingest(acc.bucket, obs)
           next == heard(acc, signal, confidence, judged)
<1>1. DogFits(result.bucket, acc.alerts \o result.alert, dogClock)
  <2>1. obs = [signal |-> obs.signal, confidence |-> obs.confidence, at |-> dogClock] /\ obs.signal \in DogSignals
    OBVIOUS
  <2> HIDE DEF obs
  <2> QED BY <2>1, IngestFits DEF Seen
<1> HIDE DEF result
<1>2. next = [bucket |-> result.bucket, alerts |-> acc.alerts \o result.alert] \/ next = acc
  BY DEF heard, result
<1> HIDE DEF next
<1>3. Seen([bucket |-> result.bucket, alerts |-> acc.alerts \o result.alert])
  BY <1>1 DEF Seen
<1>4. Seen(next)
  BY <1>2, <1>3
<1> QED BY <1>4 DEF next

\* The clock moves on, and the sweep of the time before stays good.
LEMMA LaterFits ==
    ASSUME NEW b, NEW al, NEW now \in Nat, DogFits(b, al, now)
    PROVE  DogFits(b, al, now + 1)
<1>1. AgreementWindow \in Nat
  BY WatchdogAssumption
<1>2. BucketTyped(b, now + 1)
  <2>0. \A e \in b.perSignal : e.obs.at \in Nat /\ e.obs.at <= now
    BY DEF DogFits, BucketTyped
  <2>1. \A e \in b.perSignal : e.obs.at \in Nat /\ e.obs.at <= now + 1
    BY <2>0
  <2> QED BY <2>1 DEF DogFits, BucketTyped
<1>3. AlertsFit(al, now + 1)
  <2>1. \A a : Agreed(a, now) => Agreed(a, now + 1)
    <3> SUFFICES ASSUME NEW a, NEW o1 \in Heard, o1.at <= now PROVE o1.at <= now + 1
      BY DEF Agreed
    <3> QED BY DEF Heard
  <2> QED BY <2>1 DEF DogFits, AlertsFit
<1>4. AllMarked(b, al, now + 1)
  <2> SUFFICES ASSUME NEW k \in DOMAIN al, NEW o \in al[k].of, now > o.at + AgreementWindow
               PROVE now + 1 > o.at + AgreementWindow
    BY DEF DogFits, AllMarked
  <2>0. PICK o1, o2 \in Heard : al[k] = [signals |-> {o1.signal, o2.signal}, of |-> {o1, o2}]
    BY DEF DogFits, AlertsFit, Agreed
  <2>1. o.at \in Nat
    BY <2>0 DEF Heard
  <2> QED BY <1>1, <2>1
<1> QED BY <1>2, <1>3, <1>4 DEF DogFits

DogInv == dogClock \in Nat /\ bucket = [perSignal |-> bucket.perSignal, alertedPairs |-> bucket.alertedPairs]
          /\ DogFits(bucket, alerts, dogClock)

LEMMA TicksKeep == ASSUME DogInv, runWatchdog PROVE DogInv'
<1> DEFINE live == runStatus = "running"
           lag == heard([bucket |-> bucket, alerts |-> alerts], "checkpoint_lag", evaluateRunCheckpointLag, live)
           idle == heard(lag, "no_write_activity", evaluateRunNoWriteActivity, live)
           cost == heard(idle, "cost_velocity", evaluateCostVelocity, TRUE)
           loop == heard(cost, "tool_loop", evaluateRunToolLoop, live /\ shouldEmit)
<1>0. /\ dogClock \in Nat /\ dogClock' = dogClock + 1
      /\ bucket' = sweepRun(Observed.bucket, dogClock) /\ alerts' = Observed.alerts
  BY DEF DogInv, runWatchdog
<1>1. Observed = loop
  BY DEF Observed
<1>2. ASSUME NEW acc, Seen(acc), NEW signal \in DogSignals, NEW confidence, NEW judged
      PROVE Seen(heard(acc, signal, confidence, judged))
  BY <1>0, <1>2, HeardFits
<1>3. Seen([bucket |-> bucket, alerts |-> alerts])
  BY DEF DogInv, Seen
<1> HIDE DEF live
<1>4. Seen(lag)
  BY <1>2, <1>3 DEF DogSignals
<1> HIDE DEF lag
<1>5. Seen(idle)
  BY <1>2, <1>4 DEF DogSignals
<1> HIDE DEF idle
<1>6. Seen(cost)
  BY <1>2, <1>5 DEF DogSignals
<1> HIDE DEF cost
<1>7. Seen(loop)
  BY <1>2, <1>6 DEF DogSignals
<1>8. DogFits(sweepRun(Observed.bucket, dogClock), Observed.alerts, dogClock)
  BY <1>0, <1>1, <1>7, SweepFits DEF Seen
<1>9. DogFits(bucket', alerts', dogClock')
  BY <1>0, <1>8, LaterFits
<1> QED BY <1>0, <1>9 DEF DogInv, DogFits, BucketTyped

-----------------------------------------------------------------------------
(* The CI tripwire. *)

\* A number has one quotient and one remainder.
LEMMA QuotientIs ==
    ASSUME NEW d \in Nat \ {0}, NEW m \in Nat, NEW c \in 0..(d - 1)
    PROVE  (m * d + c) % d = c /\ (m * d + c) \div d = m
OBVIOUS

\* The reds it was told since anything broke their streak: whole rounds of the threshold,
\* each of which it fired for, and the count.
TripInv ==
    /\ tripped = [count |-> tripped.count, fired |-> tripped.fired, told |-> tripped.told]
    /\ tripped.told \in Seq({"red", "green", "unknown", "reset"})
    /\ tripped.count \in 0..(TripThreshold - 1) /\ tripped.fired \in Nat
    /\ \E m \in 0..tripped.fired : Streak = m * TripThreshold + tripped.count
    /\ tripped.fired * TripThreshold + tripped.count <= Cardinality(Reds)

\* What is told next.
LEMMA ToldKeeps ==
    ASSUME TripInv, NEW s \in {"red", "green", "unknown", "reset"}, tripped'.told = Append(tripped.told, s)
    PROVE  /\ Streak \in Nat /\ Cardinality(Reds) \in Nat
           /\ s = "red" => Streak' = Streak + 1 /\ Cardinality(Reds)' = Cardinality(Reds) + 1
           /\ s = "unknown" => Streak' = Streak
           /\ s \in {"green", "reset"} => Streak' = 0
           /\ s # "red" => Cardinality(Reds)' = Cardinality(Reds)
<1> DEFINE told == tripped.told
           n == Len(told)
           run == {k \in Reds : \A b \in Breaks : b < k}
<1>1. /\ n \in Nat /\ DOMAIN told = 1..n /\ tripped'.told \in Seq({"red", "green", "unknown", "reset"})
      /\ DOMAIN tripped'.told = 1..(n + 1) /\ tripped'.told[n + 1] = s
      /\ \A k \in 1..n : tripped'.told[k] = told[k]
  BY DEF TripInv
<1> HIDE DEF n, told
<1>2. Reds \subseteq 1..n /\ Breaks \subseteq 1..n /\ Reds' \subseteq 1..(n + 1) /\ Breaks' \subseteq 1..(n + 1)
  BY <1>1 DEF Reds, Breaks, told
<1>3. /\ s = "red" => Reds' = Reds \cup {n + 1}
      /\ s # "red" => Reds' = Reds
      /\ s \in {"green", "reset"} => Breaks' = Breaks \cup {n + 1}
      /\ s \notin {"green", "reset"} => Breaks' = Breaks
  BY <1>1 DEF Reds, Breaks, told
<1>4. IsFiniteSet(Reds) /\ IsFiniteSet(run) /\ n + 1 \notin Reds /\ n + 1 \notin run
  <2>1. IsFiniteSet(1..n)
    BY <1>1, FS_Interval
  <2>2. IsFiniteSet(Reds)
    BY <1>2, <2>1, FS_Subset
  <2>3. IsFiniteSet(run)
    BY <2>2, FS_Subset
  <2> QED BY <1>1, <1>2, <2>2, <2>3
<1>5. Cardinality(Reds) \in Nat /\ Cardinality(run) \in Nat /\ Streak = Cardinality(run)
  BY <1>4, FS_CardinalityType DEF Streak
<1>6. CASE s = "red"
  <2>1. {k \in Reds' : \A b \in Breaks' : b < k} = run \cup {n + 1}
    BY <1>1, <1>2, <1>3, <1>6
  <2>2. Streak' = Cardinality(run \cup {n + 1})
    BY <2>1 DEF Streak
  <2>3. Cardinality(run \cup {n + 1}) = Cardinality(run) + 1 /\ Cardinality(Reds \cup {n + 1}) = Cardinality(Reds) + 1
    <3> HIDE DEF run
    <3> QED BY <1>4, FS_AddElement
  <2> QED BY <1>3, <1>5, <1>6, <2>2, <2>3
<1>7. CASE s = "unknown"
  BY <1>3, <1>5, <1>7 DEF Streak
<1>8. CASE s \in {"green", "reset"}
  <2>0. n + 1 \in Breaks' /\ \A k \in Reds' : ~(n + 1 < k)
    BY <1>1, <1>2, <1>3, <1>8
  <2>1. {k \in Reds' : \A b \in Breaks' : b < k} = {}
    BY <2>0
  <2>2. Streak' = 0
    BY <2>1, FS_EmptySet DEF Streak
  <2> QED BY <1>3, <1>5, <1>8, <2>2
<1> QED BY <1>6, <1>7, <1>8

LEMMA ObserveKeeps == ASSUME TripInv, NEW status \in {"red", "green", "unknown"}, observe(status) PROVE TripInv'
<1> DEFINE count == tripped.count + 1
           fires == status = "red" /\ count >= TripThreshold
<1>0. TripThreshold \in Nat \ {0}
  BY WatchdogAssumption
<1>1. /\ tripped' = [count |-> tripped'.count, fired |-> tripped'.fired, told |-> tripped'.told]
      /\ tripped'.told = Append(tripped.told, status)
      /\ tripped'.fired = tripped.fired + (IF fires THEN 1 ELSE 0)
      /\ status = "unknown" => tripped'.count = tripped.count
      /\ status = "green" => tripped'.count = 0
      /\ status = "red" => tripped'.count = IF fires THEN 0 ELSE count
  BY DEF TripInv, observe
<1>2. PICK m \in 0..tripped.fired : Streak = m * TripThreshold + tripped.count
  BY DEF TripInv
<1>3. /\ tripped.count \in 0..(TripThreshold - 1) /\ tripped.fired \in Nat
      /\ tripped.fired * TripThreshold + tripped.count <= Cardinality(Reds)
      /\ tripped.told \in Seq({"red", "green", "unknown", "reset"})
  BY DEF TripInv
<1>4. tripped'.told \in Seq({"red", "green", "unknown", "reset"})
  BY <1>1, <1>3
<1>5. /\ Streak \in Nat /\ Cardinality(Reds) \in Nat
      /\ status = "red" => Streak' = Streak + 1 /\ Cardinality(Reds)' = Cardinality(Reds) + 1
      /\ status = "unknown" => Streak' = Streak
      /\ status = "green" => Streak' = 0
      /\ status # "red" => Cardinality(Reds)' = Cardinality(Reds)
  BY <1>1, ToldKeeps
<1>6. CASE fires
  <2>1. tripped.count = TripThreshold - 1 /\ tripped'.count = 0 /\ tripped'.fired = tripped.fired + 1
    BY <1>0, <1>1, <1>3, <1>6
  <2>2. m + 1 \in 0..tripped'.fired /\ Streak' = (m + 1) * TripThreshold + tripped'.count
    BY <1>0, <1>2, <1>3, <1>5, <1>6, <2>1
  <2>3. tripped'.fired * TripThreshold + tripped'.count <= Cardinality(Reds)'
    BY <1>0, <1>3, <1>5, <1>6, <2>1
  <2>4. tripped'.count \in 0..(TripThreshold - 1) /\ tripped'.fired \in Nat
    BY <1>0, <1>3, <2>1
  <2> QED BY <1>1, <1>4, <2>2, <2>3, <2>4 DEF TripInv
<1>7. CASE status = "red" /\ ~fires
  <2>1. tripped'.count = tripped.count + 1 /\ tripped'.fired = tripped.fired /\ tripped'.count \in 0..(TripThreshold - 1)
    BY <1>0, <1>1, <1>3, <1>7
  <2>2. m \in 0..tripped'.fired /\ Streak' = m * TripThreshold + tripped'.count
    BY <1>0, <1>2, <1>3, <1>5, <1>7, <2>1
  <2>3. tripped'.fired * TripThreshold + tripped'.count <= Cardinality(Reds)'
    BY <1>0, <1>3, <1>5, <1>7, <2>1
  <2> QED BY <1>1, <1>3, <1>4, <2>1, <2>2, <2>3 DEF TripInv
<1>8. CASE status = "unknown"
  BY <1>1, <1>2, <1>3, <1>4, <1>5, <1>8 DEF TripInv
<1>9. CASE status = "green"
  <2>1. tripped'.count = 0 /\ tripped'.fired = tripped.fired
    BY <1>1, <1>3, <1>9
  <2>2. 0 \in 0..tripped'.fired /\ Streak' = 0 * TripThreshold + tripped'.count /\ 0 \in 0..(TripThreshold - 1)
    BY <1>0, <1>3, <1>5, <1>9, <2>1
  <2>3. tripped'.fired * TripThreshold + tripped'.count <= Cardinality(Reds)'
    BY <1>0, <1>3, <1>5, <1>9, <2>1
  <2> QED BY <1>1, <1>3, <1>4, <2>1, <2>2, <2>3 DEF TripInv
<1> QED BY <1>6, <1>7, <1>8, <1>9

LEMMA ResetKeeps == ASSUME TripInv, reset PROVE TripInv'
<1>0. TripThreshold \in Nat \ {0}
  BY WatchdogAssumption
<1>1. /\ tripped' = [count |-> 0, fired |-> tripped'.fired, told |-> tripped'.told]
      /\ tripped'.told = Append(tripped.told, "reset") /\ tripped'.fired = tripped.fired /\ tripped'.count = 0
  BY DEF TripInv, reset
<1>2. /\ tripped.count \in 0..(TripThreshold - 1) /\ tripped.fired \in Nat
      /\ tripped.fired * TripThreshold + tripped.count <= Cardinality(Reds)
      /\ tripped'.told \in Seq({"red", "green", "unknown", "reset"})
  BY <1>1 DEF TripInv
<1>3. Streak' = 0 /\ Cardinality(Reds)' = Cardinality(Reds) /\ Cardinality(Reds) \in Nat
  BY <1>1, ToldKeeps
<1>4. 0 \in 0..tripped'.fired /\ Streak' = 0 * TripThreshold + tripped'.count /\ 0 \in 0..(TripThreshold - 1)
  BY <1>0, <1>1, <1>2, <1>3
<1>5. tripped'.fired * TripThreshold + tripped'.count <= Cardinality(Reds)'
  BY <1>0, <1>1, <1>2, <1>3
<1> QED BY <1>1, <1>2, <1>4, <1>5 DEF TripInv

LEMMA WatchdogInit == DogInit => DogInv /\ TripInv
<1> SUFFICES ASSUME DogInit PROVE DogInv /\ TripInv
  OBVIOUS
<1>1. DogInv
  <2>1. bucket = [perSignal |-> {}, alertedPairs |-> {}] /\ alerts = <<>> /\ dogClock = 1
    BY DEF DogInit
  <2>2. BucketTyped(bucket, 1)
    BY <2>1 DEF BucketTyped
  <2>3. AlertsFit(<<>>, 1) /\ AllMarked(bucket, <<>>, 1) /\ PairsMade(bucket, <<>>)
    BY <2>1 DEF AlertsFit, AllMarked, PairsMade
  <2> QED BY <2>1, <2>2, <2>3 DEF DogInv, DogFits
<1>2. TripInv
  <2>1. tripped = [count |-> 0, fired |-> 0, told |-> <<>>] /\ TripThreshold \in Nat \ {0}
    BY WatchdogAssumption DEF DogInit
  <2>2. Reds = {} /\ Streak = 0 /\ Cardinality(Reds) = 0
    BY <2>1, FS_EmptySet DEF Reds, Streak
  <2>3. 0 \in 0..0 /\ Streak = 0 * TripThreshold + 0 /\ 0 * TripThreshold + 0 <= Cardinality(Reds) /\ 0 \in 0..(TripThreshold - 1)
    BY <2>1, <2>2
  <2> QED BY <2>1, <2>3 DEF TripInv
<1> QED BY <1>1, <1>2

LEMMA WatchdogKeeps == ASSUME DogInv, TripInv, [DogNext]_dogVars PROVE DogInv' /\ TripInv'
<1>1. ASSUME UNCHANGED tripped PROVE TripInv'
  BY <1>1 DEF TripInv, Streak, Reds, Breaks
<1>2. ASSUME UNCHANGED <<bucket, alerts, dogClock>> PROVE DogInv'
  BY <1>2 DEF DogInv
<1>3. CASE UNCHANGED dogVars
  BY <1>1, <1>2, <1>3 DEF dogVars
<1>4. CASE runWatchdog
  BY <1>1, <1>4, TicksKeep DEF runWatchdog
<1>5. CASE Complete \/ \E kind \in RowKinds : RowAppended(kind)
  BY <1>1, <1>2, <1>5 DEF Complete, RowAppended
<1>6. CASE TickFails
  <2>1. UNCHANGED <<bucket, alerts, tripped>> /\ dogClock' = dogClock + 1
    BY <1>6 DEF TickFails
  <2>2. DogFits(bucket, alerts, dogClock + 1)
    BY LaterFits DEF DogInv
  <2>3. DogFits(bucket', alerts', dogClock')
    BY <2>1, <2>2
  <2> QED BY <1>1, <2>1, <2>3 DEF DogInv
<1>7. CASE reset \/ \E status \in {"red", "green", "unknown"} : observe(status)
  <2>1. UNCHANGED <<bucket, alerts, dogClock>>
    BY <1>7 DEF reset, observe
  <2>2. CASE reset
    BY <1>2, <2>1, <2>2, ResetKeeps
  <2>3. CASE \E status \in {"red", "green", "unknown"} : observe(status)
    BY <1>2, <2>1, <2>3, ObserveKeeps
  <2> QED BY <1>7, <2>2, <2>3
<1> QED BY <1>3, <1>4, <1>5, <1>6, <1>7 DEF DogNext

DogSpec == DogInit /\ [][DogNext]_dogVars

\* What the supervisor may read into the watchdog's alerts, for any window, threshold,
\* costs, number of events and time, and whatever the signals make of the event table.
THEOREM WatchdogCorrect == DogSpec => []WatchdogSound
<1>1. DogInv => AlertsAgree
  <2> SUFFICES ASSUME DogInv, NEW k \in DOMAIN alerts
               PROVE /\ Cardinality(alerts[k].signals) = 2
                     /\ \A o1, o2 \in alerts[k].of : /\ o1.signal \in alerts[k].signals
                                                     /\ countsTowardAgreement(o1.confidence)
                                                     /\ o1.at - o2.at <= AgreementWindow
    BY DEF AlertsAgree
  <2>1. PICK o1, o2 \in Heard :
           /\ alerts[k] = [signals |-> {o1.signal, o2.signal}, of |-> {o1, o2}]
           /\ o1.signal # o2.signal /\ o2.at <= o1.at /\ o1.at <= o2.at + AgreementWindow
    BY DEF DogInv, DogFits, AlertsFit, Agreed
  <2>2. Cardinality({o1.signal, o2.signal}) = 2
    <3>1. IsFiniteSet({o2.signal}) /\ Cardinality({o2.signal}) = 1
      BY FS_Singleton
    <3>2. {o1.signal, o2.signal} = {o2.signal} \cup {o1.signal} /\ o1.signal \notin {o2.signal}
      BY <2>1
    <3>3. Cardinality({o2.signal} \cup {o1.signal}) = Cardinality({o2.signal}) + 1
      BY <3>1, <3>2, FS_AddElement
    <3> QED BY <3>1, <3>2, <3>3
  <2>3. \A o \in {o1, o2} : countsTowardAgreement(o.confidence) /\ o.at \in Nat
    BY DEF Heard, countsTowardAgreement
  <2> QED BY <2>1, <2>2, <2>3, WatchdogAssumption
<1>2. DogInv => NoRepeat /\ NoMiss
  <2> SUFFICES ASSUME DogInv PROVE NoRepeat /\ NoMiss
    OBVIOUS
  <2>1. \A k : AlertAt(k) = MadeAt(alerts[k])
    BY DEF AlertAt, MadeAt
  <2>2. NoRepeat
    BY <2>1 DEF NoRepeat, DogInv, DogFits, AlertsFit
  <2>3. NoMiss
    BY <2>1 DEF NoMiss, DogInv, DogFits, PairsMade
  <2> QED BY <2>2, <2>3
<1>3. TripInv => TripwireCounts
  <2> SUFFICES ASSUME TripInv PROVE TripwireCounts
    OBVIOUS
  <2>1. PICK m \in 0..tripped.fired : Streak = m * TripThreshold + tripped.count
    BY DEF TripInv
  <2>2. /\ TripThreshold \in Nat \ {0} /\ tripped.count \in 0..(TripThreshold - 1) /\ tripped.fired \in Nat
        /\ tripped.fired * TripThreshold + tripped.count <= Cardinality(Reds) /\ m \in Nat /\ m <= tripped.fired
    BY <2>1, WatchdogAssumption DEF TripInv
  <2>3. Streak % TripThreshold = tripped.count /\ Streak \div TripThreshold = m
    BY <2>1, <2>2, QuotientIs
  <2>4. tripped.fired * TripThreshold <= Cardinality(Reds)
    <3>1. Cardinality(Reds) \in Nat
      <4>0. Len(tripped.told) \in Nat /\ DOMAIN tripped.told = 1..Len(tripped.told)
        BY DEF TripInv
      <4>1. IsFiniteSet(1..Len(tripped.told)) /\ Reds \subseteq 1..Len(tripped.told)
        BY <4>0, FS_Interval DEF Reds
      <4> QED BY <4>1, FS_Subset, FS_CardinalityType
    <3> QED BY <2>2, <3>1
  <2> QED BY <2>2, <2>3, <2>4 DEF TripwireCounts
<1>4. DogInv /\ TripInv => WatchdogSound
  BY <1>1, <1>2, <1>3 DEF WatchdogSound
<1> QED BY <1>4, WatchdogInit, WatchdogKeeps, PTL DEF DogSpec
=============================================================================
