--------------------------- MODULE AdapterProofs ---------------------------
(***************************************************************************)
(* Proofs about the adapters and the protocols: the life of a vendor's     *)
(* process (VendorSpawn), the handle of every vendor but Codex (Handles),  *)
(* for any number of sends, vendor events, interrupts and tools, the       *)
(* JSON-RPC clients of acp and pi (RpcClient), for any number of requests, *)
(* the A2A transport (A2a), for any number of calls, and the pure          *)
(* decisions of the adapters (VendorGates), for version numbers of any     *)
(* size, any file system, and paths and commands of any length.            *)
(*                                                                         *)
(* A request of an RpcClient is pending with its timer or settled once     *)
(* (RequestsFit).  A call of the transport fits its place (CallFits): what *)
(* it has done, what was checked of its caller, the end of its stream and  *)
(* the updates under way.                                                  *)
(*                                                                         *)
(* A step of a handle computes a batch from the frame and delivers it.     *)
(* Good says what such a batch may be in the state it is computed in; the  *)
(* lemmas say of every operator on batches that it keeps Good, and of a    *)
(* step that delivers a good batch that it keeps the invariant.            *)
(*                                                                         *)
(* A fold of VendorGates is unfolded into the values after each prefix     *)
(* (FoldsTo).  Of a path these are the directories it leads to (Followed), *)
(* of a command the accumulators of splitSegments (Taken), in which every  *)
(* stage of the text is being read or is held (StageHeld).                 *)
(***************************************************************************)
EXTENDS Handles, VendorSpawn, RpcClient, A2a, VendorGates, FiniteSetTheorems, SequenceTheorems,
        WellFoundedInduction, TLAPS

-----------------------------------------------------------------------------
(* The vendor's process. *)

\* Teardown starts with the first failure or the shutdown, and of a driver that
\* awaits its process it is over only when the process is gone.
SpawnInv ==
    /\ spState = "idle" => spProc = "none"
    /\ spState \in {"idle", "starting", "live"} => spReap = "no"
    /\ spVendor \in Awaiting /\ spReap = "done" => spProc # "running"
    /\ spVendor \in Awaiting /\ spState \in {"failed", "stopped"} => spProc # "running"

\* Every stage, its failure and every step of the teardown keep it.
LEMMA SpawnInvKept == SpawnInv /\ [SpawnNext]_spawnVars => SpawnInv'
  <1> SUFFICES ASSUME SpawnInv, [SpawnNext]_spawnVars PROVE SpawnInv'
    OBVIOUS
  <1>1. ASSUME NEW v \in Spawners, Begin(v) PROVE SpawnInv'
    BY <1>1 DEF Begin, SpawnInv, Awaiting
  <1>2. CASE StageDone
    BY <1>2 DEF StageDone, SpawnInv, Awaiting
  <1>3. CASE StageFails
    <2>1. CASE spProc = "none"
      BY <1>3, <2>1 DEF StageFails, SpawnInv, Awaiting
    <2>2. CASE spProc # "none"
      <3>1. spState' = "unwinding" /\ spProc' = spProc /\ spVendor' = spVendor /\ CloseDriver
        BY <1>3, <2>2 DEF StageFails
      <3>2. spVendor \in Awaiting => spReap' \in {"ending", "term"}
        BY <3>1 DEF CloseDriver, AcpClose, PiClose, AwaitStdin, Reap, Awaiting
      <3> QED
        BY <3>1, <3>2 DEF SpawnInv
    <2> QED
      BY <2>1, <2>2
  <1>4. CASE Stop
    <2>1. spState' = "stopping" /\ spProc' = spProc /\ spVendor' = spVendor /\ CloseDriver
      BY <1>4 DEF Stop
    <2>2. spVendor \in Awaiting => spReap' \in {"ending", "term"}
      BY <2>1 DEF CloseDriver, AcpClose, PiClose, AwaitStdin, Reap, Awaiting
    <2> QED
      BY <2>1, <2>2 DEF SpawnInv
  <1>5. CASE Exits
    BY <1>5 DEF Exits, SpawnInv
  <1>6. CASE ReapTimeout
    BY <1>6 DEF ReapTimeout, Kill, AmpTimeout, SpawnInv, Awaiting
  <1>7. CASE ReapExited
    BY <1>7 DEF ReapExited, SpawnInv
  <1>8. CASE CloseReturns
    BY <1>8 DEF CloseReturns, SpawnInv
  <1>9. CASE UNCHANGED spawnVars
    BY <1>9 DEF spawnVars, SpawnInv
  <1>10. CASE StdinEnded
    BY <1>10 DEF StdinEnded, Reap, SpawnInv, Awaiting
  <1> QED
    BY <1>1, <1>2, <1>3, <1>4, <1>5, <1>6, <1>7, <1>8, <1>9, <1>10 DEF SpawnNext

\* A spawn that failed at any stage and a shutdown that settled leave no process of
\* gemini, cursor or pi behind, whether or not it ignores SIGTERM.
THEOREM NoProcessLeft == SpawnSpec => []NoOrphan
  <1>1. SpawnInit => SpawnInv
    BY DEF SpawnInit, SpawnInv, Awaiting
  <1>2. SpawnInv => NoOrphan
    BY DEF SpawnInv, NoOrphan
  <1> QED
    BY <1>1, <1>2, SpawnInvKept, PTL DEF SpawnSpec

-----------------------------------------------------------------------------
(* Batches. *)

EndKinds == {"turn_end", "session_end"}

\* The projector and CorrelationState agree on whether a turn is open.
Agrees(f) == f.turnOpen <=> CanEnvelope(f)

CallsIn(b) == {b.events[k].parent : k \in {n \in DOMAIN b.events : b.events[n].kind = "tool_call"}}

\* Nothing of a turn comes after its end, neither in the batch nor later.
Ordered(b) ==
    /\ ended \subseteq Nat
    /\ \A t \in ended : t <= b.frame.turn /\ (t = b.frame.turn => b.frame.turnClosed)
    /\ \A k \in DOMAIN b.events :
          /\ b.events[k].turn \notin ended
          /\ b.events[k].turn <= b.frame.turn
          /\ b.events[k].kind = "turn_end" /\ b.events[k].turn = b.frame.turn => b.frame.turnClosed
          /\ \A n \in 1..(k - 1) : b.events[n].kind = "turn_end" => b.events[n].turn # b.events[k].turn

\* A result names a call that was pushed earlier, or in the batch.
Linked(b) ==
    \A k \in DOMAIN b.events :
        b.events[k].kind = "tool_result" /\ b.events[k].parent # 0 => b.events[k].parent \in called \cup CallsIn(b)

\* A turn is closed by pushing its end or the session's.
Shown(b) ==
    KindsOf(b.events) \cap EndKinds = {} /\ (frame.turnOpen \/ b.events # <<>>) => b.frame.turnOpen

Good(b) ==
    /\ b = [frame |-> b.frame, events |-> b.events]
    /\ b.frame \in Frame /\ Agrees(b.frame)
    /\ b.events \in Seq(Event)
    /\ vendor # "claude" => Ordered(b) /\ Shown(b)
    /\ vendor # "amp" => Linked(b)

-----------------------------------------------------------------------------
(* The invariant. *)

\* Turns that ended are behind the frame.
EndedFits ==
    /\ ended \subseteq Nat
    /\ \A t \in ended : t <= frame.turn /\ (t = frame.turn => frame.turnClosed)

\* drainTurn reads inside the turn that send opened.
ClaudeReadsInTurn ==
    vendor = "claude" /\ life = "open" /\ stream \in {"starting", "reading"} => frame.turnOpen

\* What an active send of a shared handle has got so far is in an open turn, or
\* its end was among it.
SendInTurn ==
    vendor \in Shared /\ life = "open" /\ turnActive /\ got = "events" => frame.turnOpen

HInv ==
    /\ HandleTypeOK
    /\ out \in Seq(Event)
    /\ Agrees(frame)
    /\ vendor # "claude" => EndedFits
    /\ vendor # "amp" => calls \subseteq called
    /\ got \in {"nothing", "events", "tail"}
    /\ ClaudeReadsInTurn
    /\ SendInTurn
    /\ ActiveIsWatched

-----------------------------------------------------------------------------
(* What the operators do to a good batch. *)

\* The empty batch of a step.
LEMMA BatchGood == HInv => Good(Batch) /\ Batch.frame = frame /\ Batch.events = <<>>
  BY DEF HInv, HandleTypeOK, Good, Batch, Ordered, Linked, Shown, EndedFits

\* A good batch, spelled out.
LEMMA GoodTyped ==
    ASSUME NEW b, Good(b)
    PROVE  /\ b.frame.turnOpen \in BOOLEAN /\ b.frame.turnClosed \in BOOLEAN
           /\ b.frame.sessionStarted \in BOOLEAN /\ b.frame.turn \in Nat
           /\ b.frame.turnOpen <=> CanEnvelope(b.frame)
           /\ Len(b.events) \in Nat /\ DOMAIN b.events = 1..Len(b.events)
           /\ \A k \in 1..Len(b.events) :
                 b.events[k].turn \in Nat /\ b.events[k].kind \in Kinds /\ b.events[k].parent \in Nat
  <1>1. /\ b.frame \in Frame /\ Agrees(b.frame) /\ b.events \in Seq(Event)
    BY DEF Good
  <1>2. \A k \in 1..Len(b.events) : b.events[k] \in Event
    BY <1>1
  <1> QED
    BY <1>1, <1>2 DEF Frame, Event, Agrees

\* A batch whose frame is replaced.
LEMMA FrameReplaced ==
    ASSUME NEW b, Good(b), NEW f \in Frame, Agrees(f),
           vendor # "claude" =>
             /\ Shown([frame |-> f, events |-> b.events])
             /\ f.turn >= b.frame.turn
             /\ f.turn = b.frame.turn /\ b.frame.turnClosed => f.turnClosed
    PROVE  /\ Good([b EXCEPT !.frame = f])
           /\ [b EXCEPT !.frame = f].frame = f /\ [b EXCEPT !.frame = f].events = b.events
  <1> DEFINE c == [frame |-> f, events |-> b.events]
  <1>1. [b EXCEPT !.frame = f] = c
    BY DEF Good
  <1>2. c.frame = f /\ c.events = b.events
    OBVIOUS
  <1>3. vendor # "amp" => Linked(c)
    BY DEF Good, Linked, CallsIn
  <1>4. vendor # "claude" => Ordered(c)
    <2> SUFFICES ASSUME vendor # "claude" PROVE Ordered(c)
      OBVIOUS
    <2>1. Ordered(b) /\ f.turn \in Nat /\ b.frame.turn \in Nat
      BY DEF Good, Frame
    <2>2. \A k \in DOMAIN b.events : b.events[k].turn \in Nat
      BY GoodTyped
    <2> QED
      BY <2>1, <2>2 DEF Ordered
  <1>5. Good(c)
    BY <1>3, <1>4 DEF Good
  <1> QED
    BY <1>1, <1>2, <1>5

\* startTurn() opens a fresh turn for both parties.
LEMMA StartTurnGood ==
    ASSUME NEW b, Good(b)
    PROVE  /\ Good(StartTurn(b)) /\ StartTurn(b).frame.turnOpen
           /\ StartTurn(b).events = b.events
  <1> DEFINE f == [turnOpen |-> TRUE, sessionStarted |-> b.frame.sessionStarted,
                   turn |-> b.frame.turn + 1, turnClosed |-> FALSE]
  <1>1. f \in Frame /\ f.turnOpen /\ Agrees(f) /\ f.turn > b.frame.turn /\ b.frame.turn \in Nat
    BY GoodTyped DEF Frame, Agrees, CanEnvelope
  <1>2. Shown([frame |-> f, events |-> b.events])
    BY DEF Shown
  <1>3. f.turn >= b.frame.turn /\ f.turn # b.frame.turn
    BY <1>1 DEF Frame
  <1> HIDE DEF f
  <1>4. Good([b EXCEPT !.frame = f]) /\ [b EXCEPT !.frame = f].frame = f
        /\ [b EXCEPT !.frame = f].events = b.events
    BY <1>1, <1>2, <1>3, FrameReplaced
  <1> QED
    BY <1>1, <1>4 DEF StartTurn, f

\* endTurn() closes the turn for both, behind its end or the session's.
LEMMA EndTurnGood ==
    ASSUME NEW b, Good(b), vendor # "claude" => KindsOf(b.events) \cap EndKinds # {}
    PROVE  /\ Good(EndTurn(b)) /\ ~EndTurn(b).frame.turnOpen
           /\ EndTurn(b).events = b.events
  <1> DEFINE f == [b.frame EXCEPT !.turnClosed = TRUE, !.turnOpen = FALSE]
  <1>0. b.frame \in Frame
    BY DEF Good
  <1>1. f \in Frame /\ ~f.turnOpen /\ Agrees(f) /\ f.turn = b.frame.turn /\ f.turnClosed
        /\ b.frame.turn \in Nat
    BY <1>0 DEF Frame, Agrees, CanEnvelope
  <1>2. vendor # "claude" => Shown([frame |-> f, events |-> b.events])
    BY DEF Shown
  <1> HIDE DEF f
  <1>4. Good([b EXCEPT !.frame = f]) /\ [b EXCEPT !.frame = f].frame = f
        /\ [b EXCEPT !.frame = f].events = b.events
    BY <1>1, <1>2, FrameReplaced
  <1> QED
    BY <1>1, <1>4 DEF EndTurn, f

\* A batch grows at its end.
LEMMA AppendedTo ==
    ASSUME NEW events \in Seq(Event), NEW ev \in Event
    PROVE  /\ Append(events, ev) \in Seq(Event)
           /\ DOMAIN Append(events, ev) = 1..(Len(events) + 1)
           /\ Append(events, ev)[Len(events) + 1] = ev
           /\ \A k \in 1..Len(events) : Append(events, ev)[k] = events[k]
  OBVIOUS

\* An event that ends no turn joins the turn that is open, or is dropped.
LEMMA PushGood ==
    ASSUME NEW b, Good(b), NEW kind \in Kinds, NEW parent \in Nat,
           vendor = "claude" \/ kind # "turn_end",
           vendor = "amp" \/ kind # "tool_result" \/ parent = 0 \/ parent \in called \cup CallsIn(b)
    PROVE  /\ Good(PushChild(b, kind, parent))
           /\ PushChild(b, kind, parent).frame = b.frame
           /\ CallsIn(b) \subseteq CallsIn(PushChild(b, kind, parent))
           /\ KindsOf(b.events) \subseteq KindsOf(PushChild(b, kind, parent).events)
           /\ b.frame.turnOpen => /\ kind \in KindsOf(PushChild(b, kind, parent).events)
                                  /\ kind = "tool_call" => parent \in CallsIn(PushChild(b, kind, parent))
  <1> DEFINE ev == [kind |-> kind, turn |-> b.frame.turn, parent |-> parent]
             c == [frame |-> b.frame, events |-> Append(b.events, ev)]
             len == Len(b.events)
  <1>1. CASE ~CanEnvelope(b.frame)
    BY <1>1 DEF PushChild, Good, Agrees
  <1>2. CASE CanEnvelope(b.frame)
    <2>1. PushChild(b, kind, parent) = c
      BY <1>2 DEF PushChild, Good
    <2>2. /\ ev \in Event /\ b.events \in Seq(Event) /\ len \in Nat /\ DOMAIN b.events = 1..len
          /\ DOMAIN c.events = 1..(len + 1) /\ c.frame = b.frame
          /\ c.events[len + 1] = ev
          /\ \A k \in 1..len : c.events[k] = b.events[k]
          /\ c.events \in Seq(Event)
      <3>1. ev \in Event /\ b.events \in Seq(Event) /\ len \in Nat /\ DOMAIN b.events = 1..len
        BY GoodTyped DEF Good, Event
      <3> QED
        BY <3>1, AppendedTo
    <2>3. /\ CallsIn(b) \subseteq CallsIn(c)
          /\ KindsOf(b.events) \subseteq KindsOf(c.events)
          /\ kind \in KindsOf(c.events)
          /\ kind = "tool_call" => parent \in CallsIn(c)
      BY <2>2 DEF CallsIn, KindsOf
    <2>4. vendor # "amp" => Linked(c)
      <3> SUFFICES ASSUME vendor # "amp", NEW k \in 1..(len + 1),
                          c.events[k].kind = "tool_result", c.events[k].parent # 0
                   PROVE  c.events[k].parent \in called \cup CallsIn(c)
        BY <2>2 DEF Linked
      <3>1. CASE k \in 1..len
        <4>1. Linked(b)
          BY DEF Good
        <4> QED
          BY <2>2, <2>3, <3>1, <4>1 DEF Linked
      <3>2. CASE k = len + 1
        <4>1. c.events[k] = ev
          BY <2>2, <3>2
        <4>2. kind = "tool_result" /\ parent # 0
          BY <4>1
        <4>3. parent \in called \cup CallsIn(c)
          BY <2>3, <4>2
        <4>4. c.events[k].parent = parent
          BY <4>1
        <4> QED
          BY <4>3, <4>4
      <3> QED
        BY <2>2, <3>1, <3>2
    <2>5. vendor # "claude" => Ordered(c)
      <3> SUFFICES ASSUME vendor # "claude" PROVE Ordered(c)
        OBVIOUS
      <3>0. Ordered(b) /\ kind # "turn_end" /\ ~b.frame.turnClosed /\ b.frame.turn \in Nat
        BY <1>2, GoodTyped DEF Good, CanEnvelope
      <3>1. ASSUME NEW k \in 1..(len + 1)
            PROVE  /\ c.events[k].turn \notin ended
                   /\ c.events[k].turn <= b.frame.turn
                   /\ ~(c.events[k].kind = "turn_end" /\ c.events[k].turn = b.frame.turn)
                   /\ \A n \in 1..(k - 1) : c.events[n].kind = "turn_end" => c.events[n].turn # c.events[k].turn
        <4>1. CASE k \in 1..len
          <5>1. \A n \in 1..(k - 1) : n \in 1..len
            BY <2>2, <4>1
          <5> QED
            BY <2>2, <3>0, <4>1, <5>1 DEF Ordered
        <4>2. CASE k = len + 1
          BY <2>2, <3>0, <4>2 DEF Ordered
        <4> QED
          BY <2>2, <4>1, <4>2
      <3> QED
        BY <2>2, <3>0, <3>1 DEF Ordered
    <2>6. Shown(c)
      BY <1>2 DEF Shown, Good, Agrees
    <2>7. Good(c)
      BY <2>2, <2>4, <2>5, <2>6 DEF Good
    <2> QED
      BY <2>1, <2>2, <2>3, <2>7
  <1> QED
    BY <1>1, <1>2

\* Push is PushChild of an event about no tool call.
LEMMA PushPlain ==
    ASSUME NEW b, Good(b), NEW kind \in Kinds, vendor = "claude" \/ kind # "turn_end"
    PROVE  /\ Good(Push(b, kind))
           /\ Push(b, kind).frame = b.frame
           /\ CallsIn(b) \subseteq CallsIn(Push(b, kind))
           /\ KindsOf(b.events) \subseteq KindsOf(Push(b, kind).events)
           /\ b.frame.turnOpen => kind \in KindsOf(Push(b, kind).events)
  BY PushGood DEF Push

\* The end of a turn: its event, and both parties learn of it.
LEMMA TurnEndGood ==
    ASSUME NEW b, Good(b), b.frame.turnOpen, vendor # "claude"
    PROVE  /\ Good(EndTurn(Push(b, "turn_end")))
           /\ ~EndTurn(Push(b, "turn_end")).frame.turnOpen
           /\ CallsIn(b) \subseteq CallsIn(EndTurn(Push(b, "turn_end")))
           /\ KindsOf(EndTurn(Push(b, "turn_end")).events) \cap EndKinds # {}
  <1> DEFINE ev == [kind |-> "turn_end", turn |-> b.frame.turn, parent |-> 0]
             f == [b.frame EXCEPT !.turnClosed = TRUE, !.turnOpen = FALSE]
             c == [frame |-> f, events |-> Append(b.events, ev)]
             len == Len(b.events)
  <1>0. CanEnvelope(b.frame) /\ b.frame \in Frame /\ ~b.frame.turnClosed /\ Ordered(b)
    BY DEF Good, Agrees, CanEnvelope
  <1>1. EndTurn(Push(b, "turn_end")) = c
    <2> DEFINE d == [frame |-> b.frame, events |-> Append(b.events, ev)]
    <2>1. Push(b, "turn_end") = d
      BY <1>0 DEF Push, PushChild, Good
    <2>2. EndTurn(d) = c
      BY DEF EndTurn
    <2> QED
      BY <2>1, <2>2
  <1>2. /\ f \in Frame /\ ~f.turnOpen /\ f.turnClosed /\ f.turn = b.frame.turn /\ b.frame.turn \in Nat
        /\ Agrees(f)
    BY <1>0 DEF Frame, Agrees, CanEnvelope
  <1> HIDE DEF f
  <1>3. /\ ev \in Event /\ b.events \in Seq(Event) /\ len \in Nat /\ DOMAIN b.events = 1..len
        /\ DOMAIN c.events = 1..(len + 1) /\ c.frame = f
        /\ c.events[len + 1] = ev
        /\ \A k \in 1..len : c.events[k] = b.events[k]
        /\ c.events \in Seq(Event)
    <2>1. ev \in Event /\ b.events \in Seq(Event) /\ len \in Nat /\ DOMAIN b.events = 1..len
      BY <1>2, GoodTyped DEF Good, Event, Kinds
    <2> QED
      BY <2>1, AppendedTo
  <1>4. CallsIn(b) \subseteq CallsIn(c) /\ "turn_end" \in KindsOf(c.events)
    BY <1>3 DEF CallsIn, KindsOf
  <1>5. vendor # "amp" => Linked(c)
    <2> SUFFICES ASSUME vendor # "amp", NEW k \in 1..(len + 1),
                        c.events[k].kind = "tool_result", c.events[k].parent # 0
                 PROVE  c.events[k].parent \in called \cup CallsIn(c)
      BY <1>3 DEF Linked
    <2>1. k \in 1..len
      BY <1>3
    <2> QED
      BY <1>3, <1>4, <2>1 DEF Good, Linked
  <1>6. Ordered(c)
    <2>1. ASSUME NEW k \in 1..(len + 1)
          PROVE  /\ c.events[k].turn \notin ended
                 /\ c.events[k].turn <= f.turn
                 /\ \A n \in 1..(k - 1) : c.events[n].kind = "turn_end" => c.events[n].turn # c.events[k].turn
      <3>1. CASE k \in 1..len
        <4>1. \A n \in 1..(k - 1) : n \in 1..len
          BY <1>3, <3>1
        <4> QED
          BY <1>0, <1>2, <1>3, <3>1, <4>1 DEF Ordered
      <3>2. CASE k = len + 1
        BY <1>0, <1>2, <1>3, <3>2 DEF Ordered
      <3> QED
        BY <1>3, <3>1, <3>2
    <2> QED
      BY <1>0, <1>2, <1>3, <2>1 DEF Ordered
  <1>7. Shown(c)
    BY <1>4 DEF Shown, EndKinds
  <1>8. Good(c)
    BY <1>2, <1>3, <1>5, <1>6, <1>7 DEF Good
  <1> QED
    BY <1>1, <1>2, <1>3, <1>4, <1>8 DEF EndKinds

\* openTurn leaves a turn open.
LEMMA OpenTurnGood ==
    ASSUME NEW b, Good(b)
    PROVE  Good(OpenTurn(b)) /\ OpenTurn(b).frame.turnOpen /\ OpenTurn(b).events = b.events
  BY StartTurnGood DEF OpenTurn

\* Emit pushes in an open turn and leaves it open.
LEMMA EmitGood ==
    ASSUME NEW b, Good(b), NEW kind \in Kinds, vendor = "claude" \/ kind # "turn_end"
    PROVE  Good(Emit(b, kind)) /\ Emit(b, kind).frame.turnOpen /\ kind \in KindsOf(Emit(b, kind).events)
  BY OpenTurnGood, PushPlain DEF Emit

\* usage, cost and turn_end close an open turn.
LEMMA UsageCostEndGood ==
    ASSUME NEW b, Good(b), b.frame.turnOpen, vendor # "claude"
    PROVE  /\ Good(UsageCostEnd(b)) /\ ~UsageCostEnd(b).frame.turnOpen
           /\ CallsIn(b) \subseteq CallsIn(UsageCostEnd(b))
           /\ KindsOf(UsageCostEnd(b).events) \cap EndKinds # {}
  <1> DEFINE c == Push(b, "usage")
             d == Push(c, "cost")
  <1>1. Good(c) /\ c.frame = b.frame /\ CallsIn(b) \subseteq CallsIn(c)
    BY PushPlain DEF Kinds
  <1> HIDE DEF c
  <1>2. Good(d) /\ d.frame = c.frame /\ CallsIn(c) \subseteq CallsIn(d)
    BY <1>1, PushPlain DEF Kinds
  <1> HIDE DEF d
  <1>3. Good(EndTurn(Push(d, "turn_end"))) /\ ~EndTurn(Push(d, "turn_end")).frame.turnOpen
        /\ CallsIn(d) \subseteq CallsIn(EndTurn(Push(d, "turn_end")))
        /\ KindsOf(EndTurn(Push(d, "turn_end")).events) \cap EndKinds # {}
    BY <1>1, <1>2, TurnEndGood
  <1> QED
    BY <1>1, <1>2, <1>3 DEF UsageCostEnd, c, d

\* forceTurnEnd ends an open turn and does nothing otherwise.
LEMMA ForceTurnEndGood ==
    ASSUME NEW b, Good(b), vendor # "claude"
    PROVE  /\ Good(forceTurnEnd(b)) /\ ~forceTurnEnd(b).frame.turnOpen
           /\ CallsIn(b) \subseteq CallsIn(forceTurnEnd(b))
           /\ b.frame.turnOpen => KindsOf(forceTurnEnd(b).events) \cap EndKinds # {}
           /\ ~b.frame.turnOpen => forceTurnEnd(b) = b
  BY UsageCostEndGood, GoodTyped DEF forceTurnEnd

\* Announcing the session changes neither the turn nor the batch.
LEMMA SessionFlagGood ==
    ASSUME NEW b, Good(b)
    PROVE  /\ Good([b EXCEPT !.frame.sessionStarted = TRUE])
           /\ [b EXCEPT !.frame.sessionStarted = TRUE].frame.turnOpen = b.frame.turnOpen
           /\ [b EXCEPT !.frame.sessionStarted = TRUE].events = b.events
  <1> DEFINE f == [b.frame EXCEPT !.sessionStarted = TRUE]
  <1>0. b.frame \in Frame /\ Agrees(b.frame)
    BY DEF Good
  <1>1. f \in Frame /\ f.turnOpen = b.frame.turnOpen /\ Agrees(f) /\ f.turn = b.frame.turn
        /\ f.turnClosed = b.frame.turnClosed /\ b.frame.turn \in Nat
    BY <1>0 DEF Frame, Agrees, CanEnvelope
  <1>2. vendor # "claude" => Shown([frame |-> f, events |-> b.events])
    BY <1>1 DEF Shown, Good
  <1>3. [b EXCEPT !.frame.sessionStarted = TRUE] = [b EXCEPT !.frame = f]
    BY DEF Good
  <1> HIDE DEF f
  <1>4. Good([b EXCEPT !.frame = f]) /\ [b EXCEPT !.frame = f].frame = f
        /\ [b EXCEPT !.frame = f].events = b.events
    BY <1>1, <1>2, FrameReplaced
  <1> QED
    BY <1>1, <1>3, <1>4

-----------------------------------------------------------------------------
(* What delivering a good batch does to the handle. *)

\* The types of the variables no batch is delivered to.
ControlTyped ==
    /\ vendor \in Vendors
    /\ life \in {"open", "closing", "closed"}
    /\ turnActive \in BOOLEAN /\ armed \in BOOLEAN /\ setting \in BOOLEAN /\ held \in BOOLEAN /\ terminal \in BOOLEAN
    /\ prompts \subseteq 1..sends /\ cancelling \in 0..interrupts
    /\ stream \in {"none", "starting", "reading", "over"} /\ role \in {"unknown", "user", "assistant"}
    /\ calls \subseteq Tools /\ results \subseteq Tools
    /\ sends \in 0..MaxSends /\ interrupts \in 0..MaxInterrupts /\ raws \in 0..MaxRaw

\* The steps TurnsWellFormed, QuietAfterEnd, ResultAfterCall and ReleasedWithTail allow.
TurnsStep ==
    /\ frame'.turnOpen <=> CanEnvelope(frame')
    /\ vendor # "claude" =>
         \A k \in DOMAIN out' :
           /\ out'[k].turn \notin ended
           /\ \A n \in 1..(k - 1) : out'[n].kind = "turn_end" => out'[n].turn # out'[k].turn

QuietStep == life # "open" /\ out' # <<>> => (setting /\ ~setting') \/ frame.turnOpen

ResultStep ==
    vendor # "amp" =>
      \A k \in DOMAIN out' :
        out'[k].kind = "tool_result" /\ out'[k].parent # 0 => out'[k].parent \in called'

ReleaseStep ==
    (vendor \in Shared /\ life = "open" /\ turnActive /\ ~turnActive') => got' \in {"tail", "nothing"}

StepOK == HInv' /\ TurnsStep /\ QuietStep /\ ResultStep /\ ReleaseStep

Gots == {"nothing", "events", "tail"}

\* The queue, the frame and the histories after a delivery.
LEMMA DeliverKeeps ==
    ASSUME HInv, NEW b, Good(b), NEW before \in Gots, DeliverFrom(b, before), vendor' = vendor
    PROVE  /\ frame' = b.frame /\ frame' \in Frame /\ Agrees(frame')
           /\ out' \in Seq(Event) /\ \A k \in DOMAIN out' : out'[k] \in Event
           /\ vendor # "claude" => EndedFits'
           /\ called \subseteq called'
           /\ life # "closed" => CallsIn(b) \subseteq called'
           /\ TurnsStep /\ ResultStep
           /\ got' \in Gots
           /\ life # "closed" /\ KindsOf(b.events) \cap EndKinds # {} => got' = "tail"
           /\ b.events = <<>> => got' = before
           /\ life # "closed" /\ got' = "events" =>
                KindsOf(b.events) \cap EndKinds = {} /\ (before = "events" \/ b.events # <<>>)
  <1>1. /\ frame' = b.frame
        /\ out' = IF life = "closed" THEN <<>> ELSE b.events
        /\ ended' = ended \cup EndedBy(out')
        /\ called' = called \cup {out'[k].parent : k \in {n \in DOMAIN out' : out'[n].kind = "tool_call"}}
        /\ got' = IF KindsOf(out') \cap EndKinds # {} THEN "tail"
                  ELSE IF before = "nothing" /\ out' # <<>> THEN "events" ELSE before
    BY DEF DeliverFrom, EndKinds
  <1>2. b.frame \in Frame /\ Agrees(b.frame) /\ b.events \in Seq(Event)
    BY DEF Good
  <1>3. out' \in Seq(Event) /\ \A k \in DOMAIN out' : out'[k] \in Event
    BY <1>1, <1>2
  <1>4. life # "closed" => CallsIn(b) \subseteq called'
    BY <1>1 DEF CallsIn
  <1>5. vendor # "claude" => EndedFits'
    <2> SUFFICES ASSUME vendor # "claude" PROVE EndedFits'
      OBVIOUS
    <2>1. Ordered(b)
      BY DEF Good
    <2>2. CASE life = "closed"
      <3>1. ended' = ended
        BY <1>1, <2>2 DEF EndedBy
      <3> QED
        BY <1>1, <2>1, <3>1 DEF EndedFits, Ordered
    <2>3. CASE life # "closed"
      <3>1. ended' = ended \cup {b.events[k].turn : k \in {n \in DOMAIN b.events : b.events[n].kind = "turn_end"}}
        BY <1>1, <2>3 DEF EndedBy
      <3>2. \A k \in DOMAIN b.events : b.events[k].turn \in Nat
        BY GoodTyped
      <3>3. \A t \in ended' : t \in Nat /\ t <= b.frame.turn /\ (t = b.frame.turn => b.frame.turnClosed)
        BY <2>1, <3>1, <3>2 DEF Ordered
      <3> QED
        BY <1>1, <3>3 DEF EndedFits
    <2> QED
      BY <2>2, <2>3
  <1>6. TurnsStep
    <2>1. frame'.turnOpen <=> CanEnvelope(frame')
      BY <1>1, <1>2 DEF Agrees
    <2>2. ASSUME vendor # "claude", NEW k \in DOMAIN out'
          PROVE  /\ out'[k].turn \notin ended
                 /\ \A n \in 1..(k - 1) : out'[n].kind = "turn_end" => out'[n].turn # out'[k].turn
      <3>1. out' = b.events
        BY <1>1, <2>2
      <3> QED
        BY <2>2, <3>1 DEF Good, Ordered
    <2> QED
      BY <2>1, <2>2 DEF TurnsStep
  <1>7. ResultStep
    <2> SUFFICES ASSUME vendor # "amp", NEW k \in DOMAIN out',
                        out'[k].kind = "tool_result", out'[k].parent # 0
                 PROVE  out'[k].parent \in called'
      BY DEF ResultStep
    <2>1. out' = b.events /\ life # "closed"
      BY <1>1
    <2> QED
      BY <1>1, <1>4, <2>1 DEF Good, Linked
  <1>8. /\ got' \in Gots
        /\ life # "closed" /\ KindsOf(b.events) \cap EndKinds # {} => got' = "tail"
        /\ life # "closed" /\ got' = "events" =>
             KindsOf(b.events) \cap EndKinds = {} /\ (before = "events" \/ b.events # <<>>)
    <2> DEFINE kinds == KindsOf(out')
    <2>1. life # "closed" => out' = b.events /\ kinds = KindsOf(b.events)
      BY <1>1
    <2> QED
      BY <1>1, <2>1 DEF Gots
  <1>9. b.events = <<>> => got' = before
    <2>1. b.events = <<>> => out' = <<>>
      BY <1>1
    <2>2. KindsOf(<<>>) = {}
      BY DEF KindsOf
    <2> QED
      BY <1>1, <2>1, <2>2
  <1>10. called \subseteq called'
    BY <1>1
  <1> QED
    BY <1>1, <1>2, <1>3, <1>4, <1>5, <1>6, <1>7, <1>8, <1>9, <1>10

\* A step that delivers a good batch keeps the invariant, if what it does to the
\* turn, the watchdog and the tools fits the batch.
LEMMA StepFromBatch ==
    ASSUME HInv, NEW b, Good(b), NEW before \in Gots, DeliverFrom(b, before),
           vendor' = vendor, ControlTyped', ClaudeReadsInTurn', ActiveIsWatched',
           vendor # "amp" => calls' \subseteq called \/ (life # "closed" /\ calls' \subseteq called \cup CallsIn(b)),
           vendor \in Shared /\ life' = "open" /\ turnActive' =>
               life = "open" /\ (before = "events" => before = got /\ turnActive),
           life = "open" \/ life = "closed" \/ b.events = <<>> \/ frame.turnOpen \/ (setting /\ ~setting'),
           vendor \in Shared /\ life = "open" /\ turnActive /\ ~turnActive' =>
               KindsOf(b.events) \cap EndKinds # {} \/ (b.events = <<>> /\ before = got /\ ~frame.turnOpen)
    PROVE  StepOK
  <1>1. /\ frame' = b.frame /\ frame' \in Frame /\ Agrees(frame')
        /\ out' \in Seq(Event) /\ \A k \in DOMAIN out' : out'[k] \in Event
        /\ vendor # "claude" => EndedFits'
        /\ called \subseteq called'
        /\ life # "closed" => CallsIn(b) \subseteq called'
        /\ TurnsStep /\ ResultStep
        /\ got' \in Gots
        /\ life # "closed" /\ KindsOf(b.events) \cap EndKinds # {} => got' = "tail"
        /\ b.events = <<>> => got' = before
        /\ life # "closed" /\ got' = "events" =>
             KindsOf(b.events) \cap EndKinds = {} /\ (before = "events" \/ b.events # <<>>)
    BY DeliverKeeps
  <1>2. HandleTypeOK'
    BY <1>1 DEF HandleTypeOK, ControlTyped
  <1>3. vendor # "amp" => calls' \subseteq called'
    BY <1>1
  <1>4. SendInTurn'
    <2> SUFFICES ASSUME vendor \in Shared, life' = "open", turnActive', got' = "events"
                 PROVE  b.frame.turnOpen
      BY <1>1 DEF SendInTurn
    <2>1. life = "open" /\ vendor # "claude"
      BY DEF Shared
    <2>2. KindsOf(b.events) \cap EndKinds = {} /\ (before = "events" \/ b.events # <<>>)
      BY <1>1, <2>1
    <2>3. before = "events" => frame.turnOpen
      BY <2>1 DEF HInv, SendInTurn
    <2> QED
      BY <2>1, <2>2, <2>3 DEF Good, Shown
  <1>5. ReleaseStep
    <2> SUFFICES ASSUME vendor \in Shared, life = "open", turnActive, ~turnActive'
                 PROVE  got' \in {"tail", "nothing"}
      BY DEF ReleaseStep
    <2>1. CASE KindsOf(b.events) \cap EndKinds # {}
      BY <1>1, <2>1
    <2>2. CASE b.events = <<>> /\ before = got /\ ~frame.turnOpen
      BY <1>1, <2>2 DEF HInv, SendInTurn, Gots
    <2> QED
      BY <2>1, <2>2
  <1>6. QuietStep
    <2>1. out' = IF life = "closed" THEN <<>> ELSE b.events
      BY DEF DeliverFrom
    <2> QED
      BY <2>1 DEF QuietStep
  <1>7. HInv'
    BY <1>1, <1>2, <1>3, <1>4 DEF HInv, Gots
  <1> QED
    BY <1>1, <1>5, <1>6, <1>7 DEF StepOK

-----------------------------------------------------------------------------
(* The vendor's events. *)

\* What an event does to the turn of the send: nothing, or its release, which a
\* shared handle makes only behind an end it pushes.
TurnLeft == turnActive' = turnActive /\ armed' = armed

TurnReleased(b) == Release /\ (vendor \in Shared => KindsOf(b.events) \cap EndKinds # {})

\* An event that is turned into a good batch, in whose course the turn is left
\* alone or released behind its end, keeps the invariant.
LEMMA ReceiveStep ==
    ASSUME HInv, NEW b, Good(b), Receive(b),
           TurnLeft \/ TurnReleased(b),
           calls' \subseteq Tools, results' \subseteq Tools,
           held' \in BOOLEAN, role' \in {"unknown", "user", "assistant"},
           vendor # "amp" => calls' \subseteq called \cup CallsIn(b),
           vendor = "claude" /\ frame.turnOpen => b.frame.turnOpen
    PROVE  StepOK
  <1>1. /\ life = "open" /\ raws < MaxRaw /\ raws' = raws + 1 /\ DeliverFrom(b, got)
        /\ vendor' = vendor /\ life' = life /\ stream' = stream /\ terminal' = terminal
        /\ prompts' = prompts /\ cancelling' = cancelling /\ setting' = setting
        /\ sends' = sends /\ interrupts' = interrupts
    BY DEF Receive, Deliver, pendingVars
  <1>2. got \in Gots /\ frame' = b.frame
    BY <1>1 DEF HInv, Gots, DeliverFrom
  <1>3. ControlTyped'
    <2>1. turnActive' \in BOOLEAN /\ armed' \in BOOLEAN
      BY DEF HInv, HandleTypeOK, TurnLeft, TurnReleased, Release
    <2>2. raws' \in 0..MaxRaw
      BY <1>1, HandleAssumption DEF HInv, HandleTypeOK
    <2> QED
      BY <1>1, <2>1, <2>2 DEF HInv, HandleTypeOK, ControlTyped
  <1>4. ClaudeReadsInTurn'
    BY <1>1, <1>2 DEF HInv, ClaudeReadsInTurn
  <1>5. ActiveIsWatched'
    <2>1. CASE TurnLeft
      BY <1>1, <2>1 DEF HInv, ActiveIsWatched, TurnLeft
    <2>2. CASE TurnReleased(b)
      BY <2>2 DEF ActiveIsWatched, TurnReleased, Release
    <2> QED
      BY <2>1, <2>2
  <1>6. vendor \in Shared /\ turnActive' => turnActive
    BY DEF TurnLeft, TurnReleased, Release
  <1>7. vendor \in Shared /\ turnActive /\ ~turnActive' => KindsOf(b.events) \cap EndKinds # {}
    BY DEF TurnLeft, TurnReleased, Release
  <1> QED
    BY <1>1, <1>2, <1>3, <1>4, <1>5, <1>6, <1>7, StepFromBatch

\* The projection of a tool call leaves it among the calls pushed by now.
LEMMA ToolCallGood ==
    ASSUME HInv, NEW b, Good(b), b.frame.turnOpen, NEW t \in Tools
    PROVE  /\ Good(ToolCallOf(b, t)) /\ ToolCallOf(b, t).frame = b.frame
           /\ vendor # "amp" => calls \cup {t} \subseteq called \cup CallsIn(ToolCallOf(b, t))
  <1>1. t \in Nat /\ "tool_call" \in Kinds
    BY HandleAssumption DEF Kinds
  <1>2. vendor # "amp" => calls \subseteq called
    BY DEF HInv
  <1>3. CASE t \in calls
    BY <1>2, <1>3 DEF ToolCallOf
  <1>4. CASE t \notin calls
    <2>1. ToolCallOf(b, t) = PushChild(b, "tool_call", t)
      BY <1>4 DEF ToolCallOf
    <2> QED
      BY <1>1, <1>2, <2>1, PushGood
  <1> QED
    BY <1>3, <1>4

\* The projection of a result, linked at most to a call that was pushed.
LEMMA ToolResultGood ==
    ASSUME NEW b, Good(b), NEW t \in Tools, NEW known,
           vendor # "amp" => (t \in known => t \in called \cup CallsIn(b))
    PROVE  /\ Good(ToolResultOf(b, t, known))
           /\ CallsIn(b) \subseteq CallsIn(ToolResultOf(b, t, known))
           /\ t \notin results => ToolResultOf(b, t, known).frame.turnOpen
           /\ b.frame.turnOpen => ToolResultOf(b, t, known).frame.turnOpen
  <1> DEFINE c == OpenTurn(b)
             p == IF t \in known THEN t ELSE 0
  <1>1. t \in Nat /\ "tool_result" \in Kinds
    BY HandleAssumption DEF Kinds
  <1>2. Good(c) /\ c.frame.turnOpen /\ c.events = b.events
    BY OpenTurnGood
  <1>3. CallsIn(c) = CallsIn(b)
    BY <1>2 DEF CallsIn
  <1>4. p \in Nat /\ (vendor = "amp" \/ p = 0 \/ p \in called \cup CallsIn(c))
    BY <1>1, <1>3
  <1> HIDE DEF c, p
  <1>5. /\ Good(PushChild(c, "tool_result", p)) /\ PushChild(c, "tool_result", p).frame = c.frame
        /\ CallsIn(c) \subseteq CallsIn(PushChild(c, "tool_result", p))
    BY <1>1, <1>2, <1>4, PushGood
  <1>6. t \notin results => ToolResultOf(b, t, known) = PushChild(c, "tool_result", p)
    BY DEF ToolResultOf, c, p
  <1>7. t \in results => ToolResultOf(b, t, known) = b
    BY DEF ToolResultOf
  <1> QED
    BY <1>2, <1>3, <1>5, <1>6, <1>7

\* An event about no tool.
LEMMA NoteStep ==
    ASSUME HInv, NEW b, Good(b), Receive(b), UNCHANGED <<turnActive, armed, calls, results>>,
           held' \in BOOLEAN, role' \in {"unknown", "user", "assistant"}, vendor # "claude"
    PROVE  StepOK
  <1>1. /\ calls' \subseteq Tools /\ results' \subseteq Tools
        /\ vendor # "amp" => calls' \subseteq called \cup CallsIn(b)
    BY DEF HInv, HandleTypeOK
  <1>2. TurnLeft
    BY DEF TurnLeft
  <1> QED
    BY <1>1, <1>2, ReceiveStep

\* The batches that are a note: an empty one, a kind in the open turn or a new one.
LEMMA NotesGood ==
    ASSUME HInv, vendor # "claude"
    PROVE  /\ Good(Batch) /\ Good(OpenTurn(Batch)) /\ Good(ReportError(Batch))
           /\ \A kind \in Kinds \ {"turn_end"} : Good(Emit(Batch, kind))
           /\ OpenTurn(Batch).frame.turnOpen
  BY BatchGood, OpenTurnGood, EmitGood DEF ReportError, Kinds

\* Whatever a note leaves alone keeps its type.
LEMMA ProjTyped == HInv => /\ held \in BOOLEAN /\ role \in {"unknown", "user", "assistant"}
                           /\ calls \subseteq Tools /\ results \subseteq Tools
  BY DEF HInv, HandleTypeOK

-----------------------------------------------------------------------------
(* Gemini and Cursor. *)

\* An update: a note, a tool call with or without its result, a result.
LEMMA UpdateStep ==
    ASSUME HInv, vendor \in {"gemini", "cursor"}, NEW texts \in SUBSET BOOLEAN, Update(texts)
    PROVE  StepOK
  <1>1. ASSUME NEW b \in ProjectNote(texts), Receive(b), UNCHANGED <<turnActive, armed, projVars>>
        PROVE  StepOK
    <2>1. Good(b)
      BY <1>1, NotesGood DEF ProjectNote, Chunk, Kinds
    <2> QED
      BY <1>1, <2>1, NoteStep, ProjTyped DEF projVars
  <1>2. ASSUME NEW t \in Tools, NEW done \in BOOLEAN, ToolCallUpdate(t, done)
        PROVE  StepOK
    <2> DEFINE o == OpenTurn(Batch)
               b == ToolCallOf(o, t)
               c == ProjectToolCall(t, done)
    <2>1. Good(o) /\ o.frame.turnOpen
      BY NotesGood
    <2> HIDE DEF o
    <2>2. Good(b) /\ calls \cup {t} \subseteq called \cup CallsIn(b)
      BY <2>1, ToolCallGood
    <2> HIDE DEF b
    <2>3. Good(ToolResultOf(b, t, {t})) /\ CallsIn(b) \subseteq CallsIn(ToolResultOf(b, t, {t}))
      BY <2>2, ToolResultGood
    <2>4. c = b \/ c = ToolResultOf(b, t, {t})
      BY DEF ProjectToolCall, b, o
    <2>5. Good(c) /\ calls \cup {t} \subseteq called \cup CallsIn(c)
      BY <2>2, <2>3, <2>4
    <2> HIDE DEF c
    <2>6. /\ Receive(c) /\ calls' = calls \cup {t} /\ results' \in {results, results \cup {t}}
          /\ TurnLeft /\ held' = held /\ role' = role
      BY <1>2 DEF ToolCallUpdate, TurnLeft, c
    <2>7. /\ calls' \subseteq Tools /\ results' \subseteq Tools
          /\ held' \in BOOLEAN /\ role' \in {"unknown", "user", "assistant"}
      BY <2>6, ProjTyped
    <2> QED
      BY <2>5, <2>6, <2>7, ReceiveStep
  <1>3. ASSUME NEW t \in Tools, MaybeEmitToolResult(t)
        PROVE  StepOK
    <2> DEFINE c == ToolResultOf(OpenTurn(Batch), t, calls)
    <2>1. Good(c)
      BY NotesGood, ToolResultGood DEF HInv
    <2> HIDE DEF c
    <2>2. /\ Receive(c) /\ calls' = calls /\ results' = results \cup {t}
          /\ TurnLeft /\ held' = held /\ role' = role
      BY <1>3 DEF MaybeEmitToolResult, TurnLeft, c
    <2>3. /\ calls' \subseteq Tools /\ results' \subseteq Tools /\ calls' \subseteq called
          /\ held' \in BOOLEAN /\ role' \in {"unknown", "user", "assistant"}
      BY <2>2, ProjTyped DEF HInv
    <2> QED
      BY <2>1, <2>2, <2>3, ReceiveStep
  <1> QED
    BY <1>1, <1>2, <1>3 DEF Update

\* A permission request, and the error of a denial.
LEMMA PermissionStep ==
    ASSUME HInv, vendor \in {"gemini", "cursor"}, NEW decision \in Permissions, HandlePermission(decision)
    PROVE  StepOK
  <1> DEFINE e == Emit(Batch, "permission_request")
  <1>1. Good(e)
    BY NotesGood DEF Kinds
  <1> HIDE DEF e
  <1>2. Good(Push(e, "error"))
    BY <1>1, PushPlain DEF Kinds
  <1>3. PICK b \in {e, Push(e, "error")} : Receive(b) /\ UNCHANGED <<turnActive, armed, projVars>>
    BY DEF HandlePermission, e
  <1> QED
    BY <1>1, <1>2, <1>3, NoteStep, ProjTyped DEF projVars

\* A protocol error is reported in the open turn or a new one.
LEMMA ProtocolErrorStep ==
    ASSUME HInv, vendor # "claude", HandleProtocolError
    PROVE  StepOK
  BY NotesGood, NoteStep, ProjTyped DEF HandleProtocolError, projVars

-----------------------------------------------------------------------------
(* Pi. *)

\* The events of pi: only turn_end and a denied tool release the send.
LEMMA PiEventStep ==
    ASSUME HInv, PiEvent
    PROVE  StepOK
  <1>0. CASE vendor # "pi"
    <2>1. ~PiEvent
      BY <1>0 DEF PiEvent, PiNote, PiAgentEnd, PiMessageStart, projectMessageUpdate, PiMessageEnd, PiTurnEnd,
                  PiProtocolError, projectToolStart, projectToolEnd, PiReceive
    <2> QED
      BY <2>1
  <1> SUFFICES ASSUME vendor = "pi" PROVE StepOK
    BY <1>0
  <1>1. ASSUME PiNote \/ PiMessageStart \/ projectMessageUpdate \/ PiMessageEnd \/ PiProtocolError
        PROVE  StepOK
    <2>1. PICK b \in {Batch, OpenTurn(Batch), Emit(Batch, "error"), Emit(Batch, "message")} :
             Receive(b) /\ UNCHANGED <<turnActive, armed, calls, results>>
             /\ held' \in {held, TRUE, FALSE} /\ role' = role
      BY <1>1 DEF PiNote, PiMessageStart, projectMessageUpdate, PiMessageEnd, PiProtocolError, PiReceive,
                  ReportError, projVars
    <2>2. Good(b)
      BY NotesGood DEF Kinds
    <2>3. held' \in BOOLEAN /\ role' \in {"unknown", "user", "assistant"}
      BY <2>1, ProjTyped
    <2> QED
      BY <2>1, <2>2, <2>3, NoteStep
  <1>2. CASE PiAgentEnd
    <2> DEFINE e == Emit(Batch, "session_end")
    <2>1. Good(e) /\ "session_end" \in KindsOf(e.events)
      BY BatchGood, EmitGood DEF Kinds
    <2> HIDE DEF e
    <2>2. Good(EndTurn(e))
      BY <2>1, EndTurnGood DEF EndKinds
    <2>3. Receive(EndTurn(e)) /\ UNCHANGED <<turnActive, armed, calls, results>> /\ held' = held /\ role' = role
      BY <1>2 DEF PiAgentEnd, PiReceive, projVars, e
    <2> QED
      BY <2>2, <2>3, NoteStep, ProjTyped
  <1>3. CASE PiTurnEnd
    <2> DEFINE o == OpenTurn(Batch)
               u == Push(o, "usage")
               c == Push(u, "cost")
    <2>1. Good(o) /\ o.frame.turnOpen
      BY NotesGood
    <2> HIDE DEF o
    <2>2. Good(u) /\ u.frame = o.frame
      BY <2>1, PushPlain DEF Kinds
    <2> HIDE DEF u
    <2>3. Good(c) /\ c.frame = u.frame
      BY <2>2, PushPlain DEF Kinds
    <2> HIDE DEF c
    <2>4. Good(EndTurn(Push(c, "turn_end"))) /\ KindsOf(EndTurn(Push(c, "turn_end")).events) \cap EndKinds # {}
      BY <2>1, <2>2, <2>3, TurnEndGood
    <2>5. /\ Receive(EndTurn(Push(c, "turn_end"))) /\ Release
          /\ calls' = calls /\ results' = results /\ held' = FALSE /\ role' = role
      BY <1>3 DEF PiTurnEnd, PiReceive, PiUsageAndCost, o, u, c
    <2>6. TurnReleased(EndTurn(Push(c, "turn_end")))
      BY <2>4, <2>5 DEF TurnReleased
    <2>7. /\ calls' \subseteq Tools /\ results' \subseteq Tools /\ calls' \subseteq called
          /\ held' \in BOOLEAN /\ role' \in {"unknown", "user", "assistant"}
      BY <2>5, ProjTyped DEF HInv
    <2> QED
      BY <2>4, <2>5, <2>6, <2>7, ReceiveStep
  <1>4. ASSUME NEW t \in Tools, projectToolStart(t)
        PROVE  StepOK
    <2> DEFINE o == OpenTurn(Batch)
               b == ToolCallOf(o, t)
               e == Push(b, "error")
    <2>1. Good(o) /\ o.frame.turnOpen
      BY NotesGood
    <2>2. PICK decision \in PiDecisions :
             IF decision = "denied" THEN Receive(forceTurnEnd(e)) /\ Release
                                    ELSE Receive(b) /\ UNCHANGED <<turnActive, armed>>
      BY <1>4 DEF projectToolStart, PiReceive
    <2> HIDE DEF o
    <2>3. Good(b) /\ b.frame.turnOpen /\ calls \cup {t} \subseteq called \cup CallsIn(b)
      BY <2>1, ToolCallGood
    <2> HIDE DEF b
    <2>4. Good(e) /\ e.frame.turnOpen /\ CallsIn(b) \subseteq CallsIn(e)
      BY <2>3, PushPlain DEF Kinds
    <2> HIDE DEF e
    <2>5. /\ Good(forceTurnEnd(e)) /\ CallsIn(e) \subseteq CallsIn(forceTurnEnd(e))
          /\ KindsOf(forceTurnEnd(e).events) \cap EndKinds # {}
      BY <2>4, ForceTurnEndGood
    <2>6. calls' = calls \cup {t} /\ results' = results /\ held' = held /\ role' = role
      BY <1>4 DEF projectToolStart
    <2>7. /\ calls' \subseteq Tools /\ results' \subseteq Tools
          /\ held' \in BOOLEAN /\ role' \in {"unknown", "user", "assistant"}
      BY <2>6, ProjTyped
    <2>8. CASE Receive(forceTurnEnd(e)) /\ Release
      <3>1. TurnReleased(forceTurnEnd(e)) /\ calls' \subseteq called \cup CallsIn(forceTurnEnd(e))
        BY <2>3, <2>4, <2>5, <2>6, <2>8 DEF TurnReleased
      <3> QED
        BY <2>5, <2>7, <2>8, <3>1, ReceiveStep
    <2>9. CASE Receive(b) /\ UNCHANGED <<turnActive, armed>>
      <3>1. TurnLeft /\ calls' \subseteq called \cup CallsIn(b)
        BY <2>3, <2>6, <2>9 DEF TurnLeft
      <3> QED
        BY <2>3, <2>7, <2>9, <3>1, ReceiveStep
    <2> QED
      BY <2>2, <2>8, <2>9
  <1>5. ASSUME NEW t \in Tools, projectToolEnd(t)
        PROVE  StepOK
    <2> DEFINE b == ToolResultOf(Batch, t, calls)
               p == IF t \in calls THEN t ELSE 0
               c == PushChild(b, "patch_applied", p)
    <2>1. PICK d \in {b, c} : Receive(d)
      BY <1>5 DEF projectToolEnd, PiReceive
    <2>2. Good(b)
      BY BatchGood, ToolResultGood DEF HInv
    <2>3. p \in Nat
      BY HandleAssumption
    <2> HIDE DEF b, p
    <2>4. Good(c)
      BY <2>2, <2>3, PushGood DEF Kinds
    <2>5. Good(d)
      BY <2>2, <2>4
    <2>6. TurnLeft /\ calls' = calls /\ results' = results \cup {t} /\ held' = held /\ role' = role
      BY <1>5 DEF projectToolEnd, TurnLeft
    <2>7. /\ calls' \subseteq Tools /\ results' \subseteq Tools /\ calls' \subseteq called
          /\ held' \in BOOLEAN /\ role' \in {"unknown", "user", "assistant"}
      BY <2>6, ProjTyped DEF HInv
    <2> QED
      BY <2>1, <2>5, <2>6, <2>7, ReceiveStep
  <1> QED
    BY <1>1, <1>2, <1>3, <1>4, <1>5 DEF PiEvent

-----------------------------------------------------------------------------
(* Amp. *)

\* The tool calls of one message join the open turn behind what was pushed before.
LEMMA CallsGood ==
    ASSUME NEW b, Good(b), b.frame.turnOpen, vendor = "amp", NEW pushed \in Seq(Tools)
    PROVE  LET c == [b EXCEPT !.events = @ \o
                       [k \in DOMAIN pushed |-> [kind |-> "tool_call", turn |-> b.frame.turn, parent |-> pushed[k]]]]
           IN Good(c) /\ c.frame = b.frame
  <1> DEFINE more == [k \in DOMAIN pushed |-> [kind |-> "tool_call", turn |-> b.frame.turn, parent |-> pushed[k]]]
             c == [frame |-> b.frame, events |-> b.events \o more]
             len == Len(b.events)
             len2 == Len(more)
  <1>1. [b EXCEPT !.events = @ \o more] = c
    <2>1. b = [frame |-> b.frame, events |-> b.events]
      BY DEF Good
    <2> DEFINE all == b.events \o more
    <2>2. \A z : [b EXCEPT !.events = z] = [frame |-> b.frame, events |-> z]
      BY <2>1
    <2>3. [b EXCEPT !.events = all] = [frame |-> b.frame, events |-> all]
      BY <2>2
    <2> QED
      BY <2>3
  <1>2. /\ b.events \in Seq(Event) /\ b.frame.turn \in Nat /\ b.frame \in Frame
        /\ Ordered(b) /\ ~b.frame.turnClosed /\ Agrees(b.frame)
    BY GoodTyped DEF Good, Agrees, CanEnvelope
  <1>3. more \in Seq(Event)
    <2>1. DOMAIN pushed = 1..Len(pushed) /\ Len(pushed) \in Nat
      OBVIOUS
    <2>2. \A k \in DOMAIN pushed : pushed[k] \in Nat
      <3>1. \A k \in DOMAIN pushed : pushed[k] \in Tools
        BY <2>1
      <3> QED
        BY <3>1, HandleAssumption
    <2>3. more \in [1..Len(pushed) -> Event]
      BY <1>2, <2>1, <2>2 DEF Event, Kinds
    <2> QED
      BY <2>1, <2>3, SeqDef
  <1>4. \A k \in DOMAIN more : more[k].kind = "tool_call" /\ more[k].turn = b.frame.turn
    OBVIOUS
  <1> HIDE DEF more
  <1>5. /\ c.events \in Seq(Event) /\ DOMAIN c.events = 1..(len + len2)
        /\ len \in Nat /\ len2 \in Nat /\ DOMAIN b.events = 1..len
        /\ \A k \in 1..len : c.events[k] = b.events[k]
        /\ \A k \in (len + 1)..(len + len2) : c.events[k].kind = "tool_call" /\ c.events[k].turn = b.frame.turn
    <2>1. len \in Nat /\ len2 \in Nat /\ DOMAIN b.events = 1..len /\ DOMAIN more = 1..len2
      BY <1>2, <1>3
    <2>2. c.events \in Seq(Event) /\ Len(c.events) = len + len2
      BY <1>2, <1>3, ConcatProperties
    <2>3. \A k \in 1..(len + len2) : c.events[k] = IF k <= len THEN b.events[k] ELSE more[k - len]
      BY <1>2, <1>3, ConcatProperties
    <2>4. \A k \in (len + 1)..(len + len2) : k - len \in DOMAIN more /\ ~(k <= len) /\ k \in 1..(len + len2)
      BY <2>1
    <2>5. \A k \in (len + 1)..(len + len2) : c.events[k] = more[k - len]
      BY <2>3, <2>4
    <2>6. \A k \in 1..len : k <= len /\ k \in 1..(len + len2)
      BY <2>1
    <2>7. \A k \in 1..len : c.events[k] = b.events[k]
      BY <2>3, <2>6
    <2>8. \A k \in (len + 1)..(len + len2) : c.events[k].kind = "tool_call" /\ c.events[k].turn = b.frame.turn
      BY <1>4, <2>4, <2>5
    <2>9. DOMAIN c.events = 1..(len + len2)
      BY <2>2
    <2> HIDE DEF c
    <2> QED
      BY <2>1, <2>2, <2>7, <2>8, <2>9
  <1>5a. c.frame = b.frame
    OBVIOUS
  <1>5b. \A k \in 1..len :
           /\ b.events[k].turn \notin ended
           /\ b.events[k].turn <= b.frame.turn
           /\ ~(b.events[k].kind = "turn_end" /\ b.events[k].turn = b.frame.turn)
           /\ \A n \in 1..(k - 1) : b.events[n].kind = "turn_end" => b.events[n].turn # b.events[k].turn
    BY <1>2, <1>5 DEF Ordered
  <1>5c. b.frame.turn \notin ended
    BY <1>2 DEF Ordered
  <1> HIDE DEF c
  <1>6. Ordered(c)
    <2>1. ASSUME NEW k \in 1..(len + len2)
          PROVE  /\ c.events[k].turn \notin ended
                 /\ c.events[k].turn <= b.frame.turn
                 /\ ~(c.events[k].kind = "turn_end" /\ c.events[k].turn = b.frame.turn)
                 /\ \A n \in 1..(k - 1) : c.events[n].kind = "turn_end" => c.events[n].turn # c.events[k].turn
      <3>1. CASE k \in 1..len
        <4>1. \A n \in 1..(k - 1) : c.events[n] = b.events[n]
          BY <1>5, <3>1
        <4>2. c.events[k] = b.events[k]
          BY <1>5, <3>1
        <4> QED
          BY <1>5b, <3>1, <4>1, <4>2
      <3>2. CASE k \in (len + 1)..(len + len2)
        <4>1. c.events[k].kind = "tool_call" /\ c.events[k].turn = b.frame.turn
          BY <1>5, <3>2
        <4>2. ASSUME NEW n \in 1..(k - 1), c.events[n].kind = "turn_end"
              PROVE  c.events[n].turn # b.frame.turn
          <5>1. CASE n \in 1..len
            BY <1>5, <1>5b, <4>2, <5>1
          <5>2. CASE n \notin 1..len
            <6>1. n \in (len + 1)..(len + len2)
              BY <1>5, <5>2
            <6> QED
              BY <1>5, <4>2, <6>1
          <5> QED
            BY <5>1, <5>2
        <4> QED
          BY <1>2, <1>5c, <4>1, <4>2
      <3> QED
        BY <1>5, <3>1, <3>2
    <2> QED
      BY <1>2, <1>5, <1>5a, <2>1 DEF Ordered
  <1>7. Shown(c)
    BY <1>5a DEF Shown
  <1>8. Good(c)
    <2>1. c = [frame |-> c.frame, events |-> c.events]
      BY DEF c
    <2> QED
      BY <1>2, <1>5, <1>5a, <1>6, <1>7, <2>1 DEF Good
  <1> QED
    BY <1>1, <1>5a, <1>8 DEF more

\* The tools of one message are a sequence of tools.
LEMMA ToolUsesTyped == ToolUses \subseteq Seq(Tools)
  <1>1. <<>> \in Seq(Tools)
    OBVIOUS
  <1>2. \A t \in Tools : <<t>> \in Seq(Tools)
    OBVIOUS
  <1>3. \A t, u \in Tools : <<t, u>> \in Seq(Tools)
    OBVIOUS
  <1> QED
    <2>1. Tools \ calls \subseteq Tools
      OBVIOUS
    <2>2. \A s \in ToolUses : \/ s = <<>>
                              \/ \E t \in Tools : s = <<t>>
                              \/ \E t, u \in Tools : s = <<t, u>>
      BY <2>1 DEF ToolUses
    <2> QED
      BY <1>1, <1>2, <1>3, <2>2

\* An assistant message: its text, its calls, and the end of the turn at a denied one.
LEMMA AmpAssistantStep ==
    ASSUME HInv, NEW hasText \in BOOLEAN, NEW uses \in ToolUses, NEW denied \in 0..Len(uses),
           AmpAssistant(hasText, uses, denied)
    PROVE  StepOK
  <1> DEFINE open == IF hasText THEN Emit(Batch, "message") ELSE OpenTurn(Batch)
             pushed == IF denied = 0 THEN uses ELSE SubSeq(uses, 1, denied)
             b == [open EXCEPT !.events = @ \o
                    [k \in DOMAIN pushed |-> [kind |-> "tool_call", turn |-> open.frame.turn, parent |-> pushed[k]]]]
             e == Push(b, "error")
  <1>1. vendor = "amp"
    BY DEF AmpAssistant, AmpReceive
  <1>2. /\ IF denied = 0 THEN Receive(b) /\ UNCHANGED <<turnActive, armed>>
                         ELSE Receive(forceTurnEnd(e)) /\ Release
        /\ calls' = calls \cup {uses[k] : k \in DOMAIN uses}
        /\ results' = results /\ held' = held /\ role' = role
    BY DEF AmpAssistant, AmpReceive
  <1>3. Good(open) /\ open.frame.turnOpen
    BY <1>1, BatchGood, EmitGood, OpenTurnGood DEF Kinds
  <1>4. uses \in Seq(Tools) /\ pushed \in Seq(Tools)
    <2>1. uses \in Seq(Tools)
      BY ToolUsesTyped
    <2>2. denied # 0 => SubSeq(uses, 1, denied) \in Seq(Tools)
      BY <2>1, SubSeqProperties
    <2> QED
      BY <2>1, <2>2
  <1> HIDE DEF open, pushed
  <1>5. Good(b) /\ b.frame = open.frame
    BY <1>1, <1>3, <1>4, CallsGood
  <1> HIDE DEF b
  <1>6. Good(e) /\ e.frame = b.frame
    BY <1>5, PushPlain, <1>1 DEF Kinds
  <1> HIDE DEF e
  <1>7. Good(forceTurnEnd(e)) /\ KindsOf(forceTurnEnd(e).events) \cap EndKinds # {}
    BY <1>1, <1>3, <1>5, <1>6, ForceTurnEndGood
  <1>8. /\ calls' \subseteq Tools /\ results' \subseteq Tools
        /\ held' \in BOOLEAN /\ role' \in {"unknown", "user", "assistant"}
    BY <1>2, <1>4, ProjTyped
  <1>9. CASE denied = 0
    <2>1. Receive(b) /\ TurnLeft
      BY <1>2, <1>9 DEF TurnLeft
    <2> QED
      BY <1>1, <1>5, <1>8, <2>1, ReceiveStep
  <1>10. CASE denied # 0
    <2>1. Receive(forceTurnEnd(e)) /\ TurnReleased(forceTurnEnd(e))
      BY <1>2, <1>7, <1>10 DEF TurnReleased
    <2> QED
      BY <1>1, <1>7, <1>8, <2>1, ReceiveStep
  <1> QED
    BY <1>9, <1>10

\* The lines of amp's stdout.
LEMMA AmpLineStep ==
    ASSUME HInv, AmpLine
    PROVE  StepOK
  <1>0. vendor = "amp"
    BY DEF AmpLine, projectAmpLine, AmpSystem, AmpResult, AmpAssistant, AmpToolResult, AmpReceive
  <1>1. CASE projectAmpLine
    <2>1. PICK b \in {Emit(Batch, "error"), Batch} : Receive(b) /\ UNCHANGED <<turnActive, armed, projVars>>
      BY <1>1 DEF projectAmpLine, AmpReceive
    <2>2. Good(b)
      BY <1>0, NotesGood DEF Kinds
    <2> QED
      BY <1>0, <2>1, <2>2, NoteStep, ProjTyped DEF projVars
  <1>2. CASE AmpSystem
    <2> DEFINE o == OpenTurn(Batch)
               f == [o EXCEPT !.frame.sessionStarted = TRUE]
    <2>1. Good(o)
      BY <1>0, NotesGood
    <2>2. PICK b \in {Batch, Push(f, "session_start")} : Receive(b) /\ UNCHANGED <<turnActive, armed, projVars>>
      BY <1>2 DEF AmpSystem, AmpReceive
    <2> HIDE DEF o
    <2>3. Good(f)
      BY <2>1, SessionFlagGood
    <2> HIDE DEF f
    <2>4. Good(b)
      BY <1>0, <2>3, BatchGood, PushPlain DEF Kinds
    <2> QED
      BY <1>0, <2>2, <2>4, NoteStep, ProjTyped DEF projVars
  <1>3. CASE AmpResult
    <2> DEFINE u == Emit(Batch, "usage")
               c == Push(u, "cost")
               e == Push(c, "error")
    <2>1. Good(u) /\ u.frame.turnOpen
      BY <1>0, BatchGood, EmitGood DEF Kinds
    <2>2. PICK b \in {c, e} : Receive(EndTurn(Push(b, "turn_end")))
      BY <1>3 DEF AmpResult, AmpReceive
    <2> HIDE DEF u
    <2>3. Good(c) /\ c.frame = u.frame
      BY <1>0, <2>1, PushPlain DEF Kinds
    <2> HIDE DEF c
    <2>4. Good(e) /\ e.frame = c.frame
      BY <1>0, <2>3, PushPlain DEF Kinds
    <2> HIDE DEF e
    <2>5. Good(b) /\ b.frame.turnOpen
      BY <2>1, <2>2, <2>3, <2>4
    <2>6. Good(EndTurn(Push(b, "turn_end"))) /\ KindsOf(EndTurn(Push(b, "turn_end")).events) \cap EndKinds # {}
      BY <1>0, <2>5, TurnEndGood
    <2>7. Release /\ calls' = calls /\ results' = results /\ held' = held /\ role' = role
      BY <1>3 DEF AmpResult, projVars
    <2>8. TurnReleased(EndTurn(Push(b, "turn_end")))
      BY <2>6, <2>7 DEF TurnReleased
    <2>9. /\ calls' \subseteq Tools /\ results' \subseteq Tools
          /\ held' \in BOOLEAN /\ role' \in {"unknown", "user", "assistant"}
      BY <2>7, ProjTyped
    <2> QED
      BY <1>0, <2>2, <2>6, <2>8, <2>9, ReceiveStep
  <1>4. ASSUME NEW t \in Tools, AmpToolResult(t)
        PROVE  StepOK
    <2> DEFINE c == ToolResultOf(Batch, t, calls)
    <2>1. Good(c)
      BY <1>0, BatchGood, ToolResultGood
    <2> HIDE DEF c
    <2>2. Receive(c) /\ TurnLeft /\ calls' = calls /\ results' = results \cup {t} /\ held' = held /\ role' = role
      BY <1>4 DEF AmpToolResult, AmpReceive, TurnLeft, c
    <2>3. /\ calls' \subseteq Tools /\ results' \subseteq Tools
          /\ held' \in BOOLEAN /\ role' \in {"unknown", "user", "assistant"}
      BY <2>2, ProjTyped
    <2> QED
      BY <1>0, <2>1, <2>2, <2>3, ReceiveStep
  <1> QED
    BY <1>1, <1>2, <1>3, <1>4, AmpAssistantStep DEF AmpLine

-----------------------------------------------------------------------------
(* OpenCode. *)

\* A part of a tool: the call, its denial, its result.
LEMMA ToolPartStep ==
    ASSUME HInv, NEW t \in Tools, NEW over \in BOOLEAN, ToolPart(t, over)
    PROVE  StepOK
  <1> DEFINE o == OpenTurn(Batch)
             b == IF role = "user" THEN Batch ELSE ToolCallOf(o, t)
             e == Push(b, "error")
             r == ToolResultOf(b, t, {t})
  <1>1. PICK decision \in OpencodeDecisions :
           IF decision = "denied" /\ ~over
             THEN /\ vendor = "opencode" /\ Receive(forceTurnEnd(e))
                  /\ IF b.frame.turnOpen THEN Release ELSE UNCHANGED <<turnActive, armed>>
             ELSE /\ vendor = "opencode" /\ Receive(IF over /\ role # "user" THEN r ELSE b)
                  /\ UNCHANGED <<turnActive, armed>>
    BY DEF ToolPart, OpencodeReceive
  <1>2. /\ calls' = (IF role = "user" THEN calls ELSE calls \cup {t})
        /\ results' \in {results, results \cup {t}} /\ held' = held /\ role' = role
    BY DEF ToolPart
  <1>3. vendor = "opencode"
    BY <1>1
  <1>4. Good(b) /\ calls' \subseteq called \cup CallsIn(b)
    <2>1. Good(o) /\ o.frame.turnOpen /\ Good(Batch) /\ calls \subseteq called
      BY <1>3, NotesGood DEF HInv
    <2> HIDE DEF o
    <2>2. Good(ToolCallOf(o, t)) /\ calls \cup {t} \subseteq called \cup CallsIn(ToolCallOf(o, t))
      BY <1>3, <2>1, ToolCallGood
    <2> QED
      BY <1>2, <2>1, <2>2
  <1>5. role # "user" => t \in called \cup CallsIn(b)
    BY <1>2, <1>4
  <1>6. /\ calls' \subseteq Tools /\ results' \subseteq Tools
        /\ held' \in BOOLEAN /\ role' \in {"unknown", "user", "assistant"}
    BY <1>2, ProjTyped
  <1> HIDE DEF b
  <1>7. Good(e) /\ CallsIn(b) \subseteq CallsIn(e)
    BY <1>3, <1>4, PushPlain DEF Kinds
  <1>8. role # "user" => Good(r) /\ CallsIn(b) \subseteq CallsIn(r)
    BY <1>4, <1>5, ToolResultGood
  <1> HIDE DEF e, r
  <1>9. Good(forceTurnEnd(e)) /\ CallsIn(e) \subseteq CallsIn(forceTurnEnd(e))
    BY <1>3, <1>7, ForceTurnEndGood
  <1>10. CASE Receive(forceTurnEnd(e)) /\ (Release \/ UNCHANGED <<turnActive, armed>>)
    <2>1. TurnLeft \/ TurnReleased(forceTurnEnd(e))
      BY <1>3, <1>10 DEF TurnLeft, TurnReleased, Shared
    <2>2. calls' \subseteq called \cup CallsIn(forceTurnEnd(e))
      BY <1>4, <1>7, <1>9
    <2> QED
      BY <1>3, <1>6, <1>9, <1>10, <2>1, <2>2, ReceiveStep
  <1>11. ASSUME NEW c, c = b \/ (role # "user" /\ c = r), Receive(c), UNCHANGED <<turnActive, armed>>
         PROVE  StepOK
    <2>1. TurnLeft /\ Good(c) /\ calls' \subseteq called \cup CallsIn(c)
      BY <1>4, <1>8, <1>11 DEF TurnLeft
    <2> QED
      BY <1>3, <1>6, <1>11, <2>1, ReceiveStep
  <1> QED
    BY <1>1, <1>10, <1>11

\* The events of opencode's stream.
LEMMA OpencodeEventStep ==
    ASSUME HInv, OpencodeEvent
    PROVE  StepOK
  <1>0. vendor = "opencode"
    BY DEF OpencodeEvent, SessionInfo, TextPart, OtherPart, PermissionEvent, SessionIdle, SessionError,
           MessageUpdated, ToolPart, OpencodeReceive
  <1>1. CASE SessionInfo
    <2> DEFINE o == OpenTurn(Batch)
               f == [o EXCEPT !.frame.sessionStarted = TRUE]
    <2>1. Good(o)
      BY <1>0, NotesGood
    <2>2. PICK b \in {Batch, Push(f, "session_start")} : Receive(b) /\ UNCHANGED <<turnActive, armed, projVars>>
      BY <1>1 DEF SessionInfo, OpencodeReceive
    <2> HIDE DEF o
    <2>3. Good(f)
      BY <2>1, SessionFlagGood
    <2> HIDE DEF f
    <2>4. Good(b)
      BY <1>0, <2>3, BatchGood, PushPlain DEF Kinds
    <2> QED
      BY <1>0, <2>2, <2>4, NoteStep, ProjTyped DEF projVars
  <1>2. ASSUME \/ TextPart \/ OtherPart \/ PermissionEvent
               \/ \E r \in {"user", "assistant"} : MessageUpdated(r)
        PROVE  StepOK
    <2>1. PICK b \in {Batch, OpenTurn(Batch)} \cup
                     {Emit(Batch, kind) : kind \in {"message", "patch_applied", "permission_request"}} :
             Receive(b) /\ UNCHANGED <<turnActive, armed, calls, results>>
             /\ held' \in BOOLEAN /\ role' \in {role, "user", "assistant"}
      BY <1>2, ProjTyped DEF TextPart, OtherPart, PermissionEvent, MessageUpdated, OpencodeReceive, projVars
    <2>2. Good(b)
      BY <1>0, NotesGood DEF Kinds
    <2>3. role' \in {"unknown", "user", "assistant"}
      BY <2>1, ProjTyped
    <2> QED
      BY <1>0, <2>1, <2>2, <2>3, NoteStep
  <1>3. ASSUME NEW own \in BOOLEAN, SessionIdle(own) \/ SessionError(own)
        PROVE  StepOK
    <2> DEFINE u == Push(Batch, "usage")
               c == Push(u, "cost")
               e == EndTurn(Push(c, "turn_end"))
    <2>1. PICK b \in {Batch, Emit(Batch, "error"), e} :
             Receive(b) /\ Release /\ UNCHANGED projVars /\ (b = e => frame.turnOpen \/ b = Batch \/ b = Emit(Batch, "error"))
      BY <1>3 DEF SessionIdle, SessionError, OpencodeReceive, OpencodeUsageAndCost
    <2>2. Good(u) /\ u.frame = frame
      BY <1>0, BatchGood, PushPlain DEF Kinds
    <2> HIDE DEF u
    <2>3. Good(c) /\ c.frame = u.frame
      BY <1>0, <2>2, PushPlain DEF Kinds
    <2> HIDE DEF c
    <2>4. frame.turnOpen => Good(e)
      BY <1>0, <2>2, <2>3, TurnEndGood
    <2> HIDE DEF e
    <2>5. Good(b)
      BY <1>0, <2>1, <2>4, NotesGood DEF Kinds
    <2>6. TurnReleased(b)
      BY <1>0, <2>1 DEF TurnReleased, Shared
    <2>7. calls' = calls /\ results' = results /\ held' = held /\ role' = role
      BY <2>1 DEF projVars
    <2>8. /\ calls' \subseteq Tools /\ results' \subseteq Tools /\ calls' \subseteq called
          /\ held' \in BOOLEAN /\ role' \in {"unknown", "user", "assistant"}
      BY <1>0, <2>7, ProjTyped DEF HInv
    <2> QED
      BY <1>0, <2>1, <2>5, <2>6, <2>8, ReceiveStep
  <1> QED
    BY <1>1, <1>2, <1>3, ToolPartStep DEF OpencodeEvent

-----------------------------------------------------------------------------
(* Claude. *)

\* A message of the stream or a hook, but the result message.
LEMMA ClaudeMessageStep ==
    ASSUME HInv, \/ ClaudeNote \/ projectHook
                 \/ \E t \in Tools : ClaudeToolUse(t) \/ ClaudeToolResult(t)
    PROVE  StepOK
  <1>0. vendor = "claude"
    BY DEF ClaudeNote, projectHook, ClaudeToolUse, ClaudeToolResult, ClaudeReceive
  <1>1. Good(Batch) /\ Batch.frame = frame /\ calls \subseteq called
    BY <1>0, BatchGood DEF HInv
  <1>2. ASSUME ClaudeNote \/ projectHook
        PROVE  StepOK
    <2>1. PICK b \in {Batch} \cup {Push(Batch, kind) : kind \in {"rate_limit", "message", "checkpoint"}} :
             Receive(b) /\ UNCHANGED <<turnActive, armed, projVars>>
      BY <1>2 DEF ClaudeNote, projectHook, ClaudeReceive
    <2>2. Good(b) /\ b.frame = frame
      BY <1>0, <1>1, PushPlain DEF Kinds
    <2>3. TurnLeft /\ calls' = calls /\ results' = results /\ held' = held /\ role' = role
      BY <2>1 DEF projVars, TurnLeft
    <2>4. /\ calls' \subseteq Tools /\ results' \subseteq Tools /\ calls' \subseteq called
          /\ held' \in BOOLEAN /\ role' \in {"unknown", "user", "assistant"}
      BY <1>1, <2>3, ProjTyped
    <2> QED
      BY <2>1, <2>2, <2>3, <2>4, ReceiveStep
  <1>3. ASSUME NEW t \in Tools, ClaudeToolUse(t)
        PROVE  StepOK
    <2> DEFINE b == PushChild(Batch, "tool_call", t)
    <2>1. /\ Receive(b) /\ TurnLeft /\ stream = "reading"
          /\ calls' = calls \cup {t} /\ results' = results /\ held' = held /\ role' = role
      BY <1>3 DEF ClaudeToolUse, ClaudeReceive, TurnLeft
    <2>2. frame.turnOpen
      BY <1>0, <2>1 DEF HInv, ClaudeReadsInTurn, Receive
    <2>3. t \in Nat
      BY HandleAssumption
    <2>4. Good(b) /\ b.frame = frame /\ t \in CallsIn(b)
      BY <1>0, <1>1, <2>2, <2>3, PushGood DEF Kinds
    <2> HIDE DEF b
    <2>5. /\ calls' \subseteq Tools /\ results' \subseteq Tools /\ calls' \subseteq called \cup CallsIn(b)
          /\ held' \in BOOLEAN /\ role' \in {"unknown", "user", "assistant"}
      BY <1>1, <2>1, <2>4, ProjTyped
    <2> QED
      BY <2>1, <2>4, <2>5, ReceiveStep
  <1>4. ASSUME NEW t \in Tools, ClaudeToolResult(t)
        PROVE  StepOK
    <2> DEFINE p == IF t \in calls THEN t ELSE 0
               b == PushChild(Batch, "tool_result", p)
    <2>1. Receive(b) /\ TurnLeft /\ calls' = calls /\ results' = results /\ held' = held /\ role' = role
      BY <1>4 DEF ClaudeToolResult, ClaudeReceive, TurnLeft, projVars
    <2>2. p \in Nat /\ (p = 0 \/ p \in called)
      BY <1>1, HandleAssumption
    <2> HIDE DEF p
    <2>3. Good(b) /\ b.frame = frame
      BY <1>1, <2>2, PushGood, <1>0 DEF Kinds
    <2> HIDE DEF b
    <2>4. /\ calls' \subseteq Tools /\ results' \subseteq Tools /\ calls' \subseteq called
          /\ held' \in BOOLEAN /\ role' \in {"unknown", "user", "assistant"}
      BY <1>1, <2>1, ProjTyped
    <2> QED
      BY <2>1, <2>3, <2>4, ReceiveStep
  <1> QED
    BY <1>2, <1>3, <1>4

-----------------------------------------------------------------------------
(* The calls of the handle, its watchdog and the answers of the vendor. *)

\* A step that releases no send of a shared handle behind its back and pushes a batch
\* into an open handle, or nothing into a closed one.
LEMMA ControlStep ==
    ASSUME HInv, NEW b, Good(b), Deliver(b), vendor' = vendor, ControlTyped', ClaudeReadsInTurn', ActiveIsWatched',
           calls' = calls,
           life' = "open" => life = "open",
           vendor \in Shared /\ turnActive' => turnActive,
           life = "open" \/ life = "closed" \/ b.events = <<>> \/ frame.turnOpen \/ (setting /\ ~setting'),
           vendor \in Shared /\ life = "open" /\ turnActive /\ ~turnActive' =>
               KindsOf(b.events) \cap EndKinds # {} \/ (b.events = <<>> /\ ~frame.turnOpen)
    PROVE  StepOK
  <1>1. got \in Gots /\ DeliverFrom(b, got)
    BY DEF HInv, Gots, Deliver
  <1>2. vendor # "amp" => calls' \subseteq called
    BY DEF HInv
  <1> QED
    BY <1>1, <1>2, StepFromBatch

\* The count of cancels that are awaited does not grow when it is left alone.
LEMMA CancelBound == HInv => cancelling \in 0..cancelling
  <1> SUFFICES ASSUME HInv PROVE cancelling \in 0..cancelling
    OBVIOUS
  <1>1. cancelling \in 0..interrupts /\ interrupts \in 0..MaxInterrupts /\ MaxInterrupts \in Nat
    BY HandleAssumption DEF HInv, HandleTypeOK
  <1> QED
    BY <1>1

\* What a step that leaves the tools and the bounds alone has to say about the rest.
LEMMA TypedStep ==
    ASSUME HInv, UNCHANGED <<vendor, projVars, boundVars>>,
           life' \in {"open", "closing", "closed"},
           turnActive' \in BOOLEAN, armed' \in BOOLEAN, setting' \in BOOLEAN, terminal' \in BOOLEAN,
           prompts' \subseteq prompts, cancelling' \in 0..cancelling,
           stream' \in {"none", "starting", "reading", "over"}
    PROVE  ControlTyped' /\ calls' = calls /\ vendor' = vendor
  <1>1. cancelling \in 0..interrupts /\ interrupts \in 0..MaxInterrupts
    BY DEF HInv, HandleTypeOK
  <1>2. cancelling' \in 0..interrupts
    BY <1>1, HandleAssumption
  <1> QED
    BY <1>2 DEF HInv, HandleTypeOK, ControlTyped, projVars, boundVars

\* send.
LEMMA SendStep ==
    ASSUME HInv, vendor # "claude", SendPrompt
    PROVE  StepOK
  <1>1. /\ life = "open" /\ sends < MaxSends /\ sends' = sends + 1 /\ prompts' = prompts \cup {sends + 1}
        /\ turnActive' = TRUE /\ armed' = TRUE /\ DeliverFrom(Batch, "nothing")
        /\ vendor' = vendor /\ life' = life /\ cancelling' = cancelling /\ setting' = setting
        /\ stream' = stream /\ terminal' = terminal /\ interrupts' = interrupts /\ raws' = raws
        /\ calls' = calls /\ results' = results /\ held' = held /\ role' = role /\ ~turnActive
    BY DEF SendPrompt, beginTurn, projVars
  <1>2. ControlTyped'
    <2>1. sends \in 0..MaxSends /\ MaxSends \in Nat /\ prompts \subseteq 1..sends
      BY HandleAssumption DEF HInv, HandleTypeOK
    <2>2. sends' \in 0..MaxSends /\ prompts' \subseteq 1..sends'
      BY <1>1, <2>1
    <2> QED
      BY <1>1, <2>2 DEF HInv, HandleTypeOK, ControlTyped
  <1>3. ClaudeReadsInTurn' /\ ActiveIsWatched'
    BY <1>1 DEF ClaudeReadsInTurn, ActiveIsWatched
  <1>4. Good(Batch) /\ Batch.events = <<>> /\ "nothing" \in Gots /\ (vendor # "amp" => calls' \subseteq called)
    BY <1>1, BatchGood DEF Gots, HInv
  <1> QED
    BY <1>1, <1>2, <1>3, <1>4, StepFromBatch

\* The prompt was rejected: in an open handle an error, and the end of the turn.
LEMMA RejectedStep ==
    ASSUME HInv, vendor # "claude", NEW n \in prompts, PromptRejected(n)
    PROVE  StepOK
  <1> DEFINE e == ReportError(Batch)
             b == IF life = "open" THEN forceTurnEnd(e) ELSE Batch
  <1>1. /\ prompts' = prompts \ {n} /\ Deliver(b)
        /\ IF life = "open" THEN Release ELSE UNCHANGED <<turnActive, armed>>
        /\ UNCHANGED <<vendor, life, cancelling, setting, stream, terminal, projVars, boundVars>>
    BY DEF PromptRejected, Nothing
  <1>2. Good(e) /\ e.frame.turnOpen
    BY BatchGood, EmitGood DEF ReportError, Kinds
  <1> HIDE DEF e
  <1>3. Good(b) /\ (life = "open" => KindsOf(b.events) \cap EndKinds # {})
    BY <1>2, BatchGood, ForceTurnEndGood
  <1>4. life # "open" => b.events = <<>>
    BY BatchGood
  <1> HIDE DEF b
  <1>5. ControlTyped' /\ calls' = calls /\ vendor' = vendor
    <2>1. turnActive' \in BOOLEAN /\ armed' \in BOOLEAN /\ cancelling' \in 0..cancelling
      BY <1>1, CancelBound DEF HInv, HandleTypeOK, Release
    <2> QED
      BY <1>1, <2>1, TypedStep DEF HInv, HandleTypeOK
  <1>6. ClaudeReadsInTurn' /\ ActiveIsWatched'
    BY <1>1 DEF HInv, ClaudeReadsInTurn, ActiveIsWatched, Release
  <1> QED
    BY <1>1, <1>3, <1>4, <1>5, <1>6, ControlStep DEF Release

\* The prompt was answered.
LEMMA ResolvedStep ==
    ASSUME HInv, vendor # "claude", NEW n \in prompts, NEW b, Good(b), NEW released \in BOOLEAN,
           PromptResolved(n, b, released),
           released => KindsOf(b.events) \cap EndKinds # {} \/ (b.events = <<>> /\ ~frame.turnOpen)
    PROVE  StepOK
  <1> DEFINE c == IF life = "open" THEN b ELSE Batch
  <1>1. /\ prompts' = prompts \ {n} /\ Deliver(c)
        /\ IF life = "open" /\ released THEN Release ELSE UNCHANGED <<turnActive, armed>>
        /\ UNCHANGED <<vendor, life, cancelling, setting, stream, terminal, projVars, boundVars>>
    BY DEF PromptResolved, Nothing
  <1>2. Good(c) /\ (life = "open" => c = b) /\ (life # "open" => c.events = <<>>)
    BY BatchGood
  <1> HIDE DEF c
  <1>3. ControlTyped' /\ calls' = calls /\ vendor' = vendor
    <2>1. turnActive' \in BOOLEAN /\ armed' \in BOOLEAN /\ cancelling' \in 0..cancelling
      BY <1>1, CancelBound DEF HInv, HandleTypeOK, Release
    <2> QED
      BY <1>1, <2>1, TypedStep DEF HInv, HandleTypeOK
  <1>4. ClaudeReadsInTurn' /\ ActiveIsWatched'
    BY <1>1 DEF HInv, ClaudeReadsInTurn, ActiveIsWatched, Release
  <1>5. vendor \in Shared /\ turnActive' => turnActive
    BY <1>1 DEF Release
  <1>6. life = "open" /\ turnActive /\ ~turnActive' => released
    BY <1>1
  <1> QED
    BY <1>1, <1>2, <1>3, <1>4, <1>5, <1>6, ControlStep

\* onPromptResult ends the open turn.
LEMMA PromptResultGood ==
    ASSUME HInv, vendor # "claude"
    PROVE  /\ Good(OnPromptResult(Batch))
           /\ \/ KindsOf(OnPromptResult(Batch).events) \cap EndKinds # {}
              \/ OnPromptResult(Batch).events = <<>> /\ ~frame.turnOpen
  <1>1. Good(Batch) /\ Batch.frame = frame /\ Batch.events = <<>> /\ (frame.turnOpen <=> CanEnvelope(frame))
    BY BatchGood DEF HInv, Agrees
  <1> QED
    BY <1>1, UsageCostEndGood DEF OnPromptResult

\* interrupt, up to the vendor's cancel.
LEMMA InterruptStep ==
    ASSUME HInv, vendor # "claude", doInterrupt
    PROVE  StepOK
  <1> DEFINE o == IF CanEnvelope(frame) THEN Batch ELSE StartTurn(Batch)
             b == Push(o, "interrupt")
  <1>1. /\ life = "open" /\ interrupts < MaxInterrupts /\ interrupts' = interrupts + 1
        /\ cancelling' = cancelling + 1 /\ Deliver(InterruptEvent(Batch))
        /\ vendor' = vendor /\ life' = life /\ turnActive' = turnActive /\ armed' = armed
        /\ prompts' = prompts /\ setting' = setting /\ stream' = stream /\ terminal' = terminal
        /\ calls' = calls /\ results' = results /\ held' = held /\ role' = role /\ sends' = sends /\ raws' = raws
    BY DEF doInterrupt, projVars
  <1>2. Good(o)
    BY BatchGood, StartTurnGood
  <1>3. InterruptEvent(Batch) = b
    BY BatchGood DEF InterruptEvent
  <1> HIDE DEF o
  <1>4. Good(b)
    BY <1>2, PushPlain DEF Kinds
  <1> HIDE DEF b
  <1>5. ControlTyped'
    <2>1. cancelling \in 0..interrupts /\ interrupts \in 0..MaxInterrupts /\ MaxInterrupts \in Nat
      BY HandleAssumption DEF HInv, HandleTypeOK
    <2>2. cancelling' \in 0..interrupts' /\ interrupts' \in 0..MaxInterrupts
      BY <1>1, <2>1
    <2> QED
      BY <1>1, <2>2 DEF HInv, HandleTypeOK, ControlTyped
  <1>6. ClaudeReadsInTurn' /\ ActiveIsWatched'
    BY <1>1 DEF HInv, ClaudeReadsInTurn, ActiveIsWatched
  <1> QED
    BY <1>1, <1>3, <1>4, <1>5, <1>6, ControlStep

\* The cancel settled; the open turn is ended.
LEMMA InterruptReturnsStep ==
    ASSUME HInv, vendor # "claude", InterruptReturns \/ OpencodeInterruptReturns
    PROVE  StepOK
  <1> DEFINE b == forceTurnEnd(Batch)
  <1>1. Good(Batch) /\ Batch.frame = frame /\ Batch.events = <<>>
    BY BatchGood
  <1>2. /\ cancelling > 0 /\ cancelling' = cancelling - 1 /\ Deliver(b)
        /\ Release \/ (vendor \notin Shared /\ UNCHANGED <<turnActive, armed>>)
        /\ UNCHANGED <<vendor, life, prompts, setting, stream, terminal, projVars, boundVars>>
    BY DEF InterruptReturns, OpencodeInterruptReturns, OpencodeForceTurnEnd, Shared
  <1>3. /\ Good(b) /\ (frame.turnOpen => KindsOf(b.events) \cap EndKinds # {})
        /\ ~frame.turnOpen => b.events = <<>>
    BY <1>1, ForceTurnEndGood
  <1> HIDE DEF b
  <1>4. ControlTyped' /\ calls' = calls /\ vendor' = vendor
    <2>1. cancelling \in 0..interrupts /\ interrupts \in 0..MaxInterrupts
      BY DEF HInv, HandleTypeOK
    <2>2. cancelling' \in 0..cancelling
      BY <1>2, <2>1, HandleAssumption
    <2>3. turnActive' \in BOOLEAN /\ armed' \in BOOLEAN
      BY <1>2 DEF HInv, HandleTypeOK, Release
    <2> QED
      BY <1>2, <2>2, <2>3, TypedStep DEF HInv, HandleTypeOK
  <1>5. ClaudeReadsInTurn' /\ ActiveIsWatched'
    BY <1>2 DEF HInv, ClaudeReadsInTurn, ActiveIsWatched, Release
  <1>6. vendor \in Shared /\ turnActive' => turnActive
    BY <1>2 DEF Release
  <1> QED
    BY <1>2, <1>3, <1>4, <1>5, <1>6, ControlStep

\* The watchdog fires.
LEMMA WatchdogStep ==
    ASSUME HInv, vendor # "claude", (vendor \in Shared /\ WatchdogFires) \/ OpencodeWatchdogFires
    PROVE  StepOK
  <1> DEFINE b == IF life = "open" /\ turnActive THEN forceTurnEnd(Batch) ELSE Batch
  <1>1. Good(Batch) /\ Batch.frame = frame /\ Batch.events = <<>>
    BY BatchGood
  <1>2. /\ armed' = FALSE /\ Deliver(b) /\ turnActive' \in {FALSE, turnActive}
        /\ vendor \in Shared /\ life = "open" => turnActive' = FALSE
        /\ UNCHANGED <<vendor, life, stream, terminal, pendingVars, projVars, boundVars>>
    <2>1. CASE vendor \in Shared /\ WatchdogFires
      BY <2>1 DEF WatchdogFires, Nothing, HInv, HandleTypeOK
    <2>2. CASE OpencodeWatchdogFires
      BY <2>2 DEF OpencodeWatchdogFires, Nothing, HInv, HandleTypeOK, Shared
    <2> QED
      BY <2>1, <2>2
  <1>3. /\ Good(b)
        /\ life = "open" /\ turnActive /\ frame.turnOpen => KindsOf(b.events) \cap EndKinds # {}
        /\ ~frame.turnOpen \/ life # "open" => b.events = <<>>
    BY <1>1, ForceTurnEndGood
  <1> HIDE DEF b
  <1>4. ControlTyped' /\ calls' = calls /\ vendor' = vendor
    <2>1. turnActive' \in BOOLEAN /\ armed' \in BOOLEAN /\ cancelling' \in 0..cancelling
      BY <1>2, CancelBound DEF HInv, HandleTypeOK, pendingVars
    <2> QED
      BY <1>2, <2>1, TypedStep DEF HInv, HandleTypeOK, pendingVars
  <1>5. ClaudeReadsInTurn' /\ ActiveIsWatched'
    BY <1>2 DEF ClaudeReadsInTurn, ActiveIsWatched
  <1>6. vendor \in Shared /\ turnActive' => turnActive
    BY <1>2
  <1> QED
    BY <1>2, <1>3, <1>4, <1>5, <1>6, ControlStep

\* The two parts of shutdown.
LEMMA ShutdownStep ==
    ASSUME HInv, vendor # "claude", runSharedShutdown \/ runShutdownSequence
    PROVE  StepOK
  <1> DEFINE e == Emit(Batch, "session_end")
             b == IF life = "open" THEN EndTurn(e) ELSE Batch
  <1>1. /\ life' \in {"closing", "closed"} /\ life \in {"open", "closing"} /\ Deliver(b)
        /\ turnActive' = turnActive /\ armed' \in {FALSE, armed}
        /\ UNCHANGED <<vendor, stream, terminal, pendingVars, projVars, boundVars>>
    BY DEF runSharedShutdown, runShutdownSequence, Nothing
  <1>2. Good(e) /\ "session_end" \in KindsOf(e.events)
    BY BatchGood, EmitGood DEF Kinds
  <1> HIDE DEF e
  <1>3. Good(EndTurn(e))
    BY <1>2, EndTurnGood DEF EndKinds
  <1>4. Good(b) /\ (life # "open" => b.events = <<>>)
    BY <1>3, BatchGood
  <1> HIDE DEF b
  <1>5. ControlTyped' /\ calls' = calls /\ vendor' = vendor
    <2>1. turnActive' \in BOOLEAN /\ armed' \in BOOLEAN /\ cancelling' \in 0..cancelling
      BY <1>1, CancelBound DEF HInv, HandleTypeOK, pendingVars
    <2> QED
      BY <1>1, <2>1, TypedStep DEF HInv, HandleTypeOK, pendingVars
  <1>6. ClaudeReadsInTurn' /\ ActiveIsWatched'
    BY <1>1 DEF ClaudeReadsInTurn, ActiveIsWatched
  <1> QED
    BY <1>1, <1>4, <1>5, <1>6, ControlStep

\* setModel and its answer.
LEMMA SetModelStep ==
    ASSUME HInv, vendor # "claude", SetModel \/ SetModelReturns
    PROVE  StepOK
  <1>1. CASE SetModel
    <2>1. /\ interrupts < MaxInterrupts /\ setting' = TRUE /\ interrupts' = interrupts + 1 /\ Deliver(Batch)
          /\ vendor' = vendor /\ life' = life /\ turnActive' = turnActive /\ armed' = armed
          /\ prompts' = prompts /\ cancelling' = cancelling /\ stream' = stream /\ terminal' = terminal
          /\ calls' = calls /\ results' = results /\ held' = held /\ role' = role /\ sends' = sends /\ raws' = raws
      BY <1>1 DEF SetModel, Nothing, projVars
    <2>2. ControlTyped'
      <3>1. cancelling \in 0..interrupts /\ interrupts \in 0..MaxInterrupts /\ MaxInterrupts \in Nat
        BY HandleAssumption DEF HInv, HandleTypeOK
      <3>2. cancelling' \in 0..interrupts' /\ interrupts' \in 0..MaxInterrupts
        BY <2>1, <3>1
      <3> QED
        BY <2>1, <3>2 DEF HInv, HandleTypeOK, ControlTyped
    <2>3. ClaudeReadsInTurn' /\ ActiveIsWatched'
      BY <2>1 DEF HInv, ClaudeReadsInTurn, ActiveIsWatched
    <2>4. Good(Batch) /\ Batch.events = <<>>
      BY BatchGood
    <2> QED
      BY <2>1, <2>2, <2>3, <2>4, ControlStep
  <1>2. CASE SetModelReturns
    <2>1. PICK failed \in BOOLEAN : Deliver(IF failed THEN ReportError(Batch) ELSE Batch)
      BY <1>2 DEF SetModelReturns
    <2> DEFINE b == IF failed THEN ReportError(Batch) ELSE Batch
    <2>2. Good(b)
      BY BatchGood, EmitGood DEF ReportError, Kinds
    <2>3. Deliver(b)
      BY <2>1
    <2> HIDE DEF b
    <2>4. /\ setting /\ setting' = FALSE
          /\ UNCHANGED <<vendor, life, turnActive, armed, prompts, cancelling, stream, terminal, projVars, boundVars>>
      BY <1>2 DEF SetModelReturns
    <2>5. ControlTyped' /\ calls' = calls /\ vendor' = vendor
      BY <2>4, TypedStep, CancelBound DEF HInv, HandleTypeOK
    <2>6. ClaudeReadsInTurn' /\ ActiveIsWatched'
      BY <2>4 DEF HInv, ClaudeReadsInTurn, ActiveIsWatched
    <2> QED
      BY <2>2, <2>3, <2>4, <2>5, <2>6, ControlStep
  <1> QED
    BY <1>1, <1>2

\* The event stream of amp or opencode ended or failed.
LEMMA StreamStep ==
    ASSUME HInv, consumeStdout \/ consumeEventStream
    PROVE  StepOK
  <1>0. vendor # "claude"
    BY DEF consumeStdout, consumeEventStream
  <1>1. PICK b \in {ReportError(Batch), Batch} : Deliver(b) /\ (life # "open" => b = Batch)
    BY DEF consumeStdout, consumeEventStream
  <1>2. Good(b) /\ (b = Batch => b.events = <<>>)
    BY <1>0, BatchGood, NotesGood
  <1>3. /\ stream' = "over"
        /\ UNCHANGED <<vendor, life, turnActive, armed, terminal, pendingVars, projVars, boundVars>>
    BY DEF consumeStdout, consumeEventStream
  <1>4. ControlTyped' /\ calls' = calls /\ vendor' = vendor
    BY <1>3, TypedStep, CancelBound DEF HInv, HandleTypeOK, pendingVars
  <1>5. ClaudeReadsInTurn' /\ ActiveIsWatched'
    BY <1>3 DEF HInv, ClaudeReadsInTurn, ActiveIsWatched
  <1> QED
    BY <1>1, <1>2, <1>3, <1>4, <1>5, ControlStep

-----------------------------------------------------------------------------
(* The control of Claude's handle. *)

\* emitSessionStartIfNeeded.
LEMMA SessionStartGood ==
    ASSUME NEW b, Good(b)
    PROVE  Good(EmitSessionStart(b)) /\ EmitSessionStart(b).frame.turnOpen = b.frame.turnOpen
  <1> DEFINE f == [b EXCEPT !.frame.sessionStarted = TRUE]
  <1>1. Good(f) /\ f.frame.turnOpen = b.frame.turnOpen
    BY SessionFlagGood
  <1>2. EmitSessionStart(b) \in {b, Push(f, "session_start")}
    BY DEF EmitSessionStart
  <1> HIDE DEF f
  <1>3. Good(Push(f, "session_start")) /\ Push(f, "session_start").frame = f.frame
    BY <1>1, PushPlain DEF Kinds
  <1> QED
    BY <1>1, <1>2, <1>3

\* send, and drainTurn up to its loop.
LEMMA ClaudeSendStep ==
    ASSUME HInv, ClaudeSend
    PROVE  StepOK
  <1> DEFINE o == StartTurn(Batch)
             b == EmitSessionStart(o)
  <1>1. /\ vendor = "claude" /\ life = "open" /\ sends < MaxSends /\ sends' = sends + 1
        /\ turnActive' = TRUE /\ stream' = "starting" /\ terminal' = FALSE /\ DeliverFrom(b, "nothing")
        /\ vendor' = vendor /\ life' = life /\ armed' = armed /\ prompts' = prompts
        /\ cancelling' = cancelling /\ setting' = setting /\ interrupts' = interrupts /\ raws' = raws
        /\ calls' = calls /\ results' = results /\ held' = held /\ role' = role
    BY DEF ClaudeSend, projVars, pendingVars
  <1>2. Good(o) /\ o.frame.turnOpen
    BY BatchGood, StartTurnGood
  <1> HIDE DEF o
  <1>3. Good(b) /\ b.frame.turnOpen
    BY <1>2, SessionStartGood
  <1> HIDE DEF b
  <1>4. ControlTyped'
    <2>1. sends \in 0..MaxSends /\ MaxSends \in Nat /\ prompts \subseteq 1..sends
      BY HandleAssumption DEF HInv, HandleTypeOK
    <2>2. sends' \in 0..MaxSends /\ prompts' \subseteq 1..sends'
      BY <1>1, <2>1
    <2> QED
      BY <1>1, <2>2 DEF HInv, HandleTypeOK, ControlTyped
  <1>5. ClaudeReadsInTurn' /\ ActiveIsWatched'
    BY <1>1, <1>3 DEF ClaudeReadsInTurn, ActiveIsWatched, Shared, DeliverFrom
  <1>6. "nothing" \in Gots /\ calls' \subseteq called /\ vendor \notin Shared
    BY <1>1 DEF Gots, HInv, Shared
  <1> QED
    BY <1>1, <1>3, <1>4, <1>5, <1>6, StepFromBatch

\* A step of drainTurn, interrupt or shutdown, from the batch it pushes.
LEMMA ClaudeControl ==
    ASSUME HInv, vendor = "claude", NEW b, Good(b), Deliver(b), ControlTyped', calls' = calls, vendor' = vendor,
           life' = "open" => life = "open",
           life' = "open" /\ stream' \in {"starting", "reading"} => b.frame.turnOpen,
           life = "open" \/ life = "closed" \/ b.events = <<>> \/ frame.turnOpen
    PROVE  StepOK
  <1>1. ClaudeReadsInTurn' /\ ActiveIsWatched' /\ vendor \notin Shared
    BY DEF ClaudeReadsInTurn, ActiveIsWatched, Shared, Deliver, DeliverFrom
  <1> QED
    BY <1>1, ControlStep

\* The start of the stream and its failure, its result message and its end.
LEMMA ClaudeDrainStep ==
    ASSUME HInv, \/ DrainStarts \/ handleDrainError \/ ClaudeResult
                 \/ \E threw \in BOOLEAN : DrainEnds(threw)
    PROVE  StepOK
  <1>0. vendor = "claude"
    BY DEF DrainStarts, handleDrainError, ClaudeResult, DrainEnds
  <1>1. /\ Good(Batch) /\ Batch.frame = frame /\ Batch.events = <<>>
        /\ frame.turnOpen <=> CanEnvelope(frame)
    BY BatchGood DEF HInv, Agrees
  <1>2. CASE DrainStarts
    <2>1. /\ stream = "starting" /\ stream' = "reading" /\ Deliver(Batch)
          /\ UNCHANGED <<vendor, life, turnActive, armed, terminal, pendingVars, projVars, boundVars>>
      BY <1>2 DEF DrainStarts, Nothing
    <2>2. ControlTyped' /\ calls' = calls /\ vendor' = vendor
      BY <2>1, TypedStep, CancelBound DEF HInv, HandleTypeOK, pendingVars
    <2> QED
      BY <1>0, <1>1, <2>1, <2>2, ClaudeControl DEF HInv, ClaudeReadsInTurn
  <1>3. CASE handleDrainError
    <2> DEFINE e == Push(Batch, "error")
               c == Push(e, "turn_end")
               b == IF life = "open" THEN EndTurn(c) ELSE Batch
    <2>1. /\ stream' = "none" /\ Deliver(b) /\ turnActive' \in {FALSE, turnActive}
          /\ UNCHANGED <<vendor, life, armed, terminal, pendingVars, projVars, boundVars>>
      BY <1>3 DEF handleDrainError, Nothing
    <2>2. Good(e)
      BY <1>0, <1>1, PushPlain DEF Kinds
    <2> HIDE DEF e
    <2>3. Good(c)
      BY <1>0, <2>2, PushPlain DEF Kinds
    <2> HIDE DEF c
    <2>4. Good(b) /\ (life # "open" => b.events = <<>>)
      BY <1>0, <1>1, <2>3, EndTurnGood
    <2> HIDE DEF b
    <2>5. ControlTyped' /\ calls' = calls /\ vendor' = vendor
      BY <2>1, TypedStep, CancelBound DEF HInv, HandleTypeOK, pendingVars
    <2> QED
      BY <1>0, <2>1, <2>4, <2>5, ClaudeControl
  <1>4. CASE ClaudeResult
    <2>1. PICK usage \in BOOLEAN, failed \in BOOLEAN :
            LET c == Push(IF usage THEN Push(Batch, "usage") ELSE Batch, "cost")
            IN Deliver(Push(IF failed THEN Push(c, "error") ELSE c, "turn_end"))
      BY <1>4 DEF ClaudeResult
    <2> DEFINE u == IF usage THEN Push(Batch, "usage") ELSE Batch
               c == Push(u, "cost")
               e == IF failed THEN Push(c, "error") ELSE c
               b == Push(e, "turn_end")
    <2>2. Deliver(b)
      BY <2>1
    <2>3. Good(u) /\ u.frame = frame
      BY <1>0, <1>1, PushPlain DEF Kinds
    <2> HIDE DEF u
    <2>4. Good(c) /\ c.frame = frame
      BY <1>0, <2>3, PushPlain DEF Kinds
    <2> HIDE DEF c
    <2>5. Good(e) /\ e.frame = frame
      BY <1>0, <2>4, PushPlain DEF Kinds
    <2> HIDE DEF e
    <2>6. Good(b) /\ b.frame = frame
      BY <1>0, <2>5, PushPlain DEF Kinds
    <2> HIDE DEF b
    <2>7. /\ life = "open" /\ raws < MaxRaw /\ raws' = raws + 1 /\ terminal' = TRUE
          /\ vendor' = vendor /\ life' = life /\ turnActive' = turnActive /\ armed' = armed /\ stream' = stream
          /\ prompts' = prompts /\ cancelling' = cancelling /\ setting' = setting
          /\ calls' = calls /\ results' = results /\ held' = held /\ role' = role
          /\ sends' = sends /\ interrupts' = interrupts
      BY <1>4 DEF ClaudeResult, pendingVars, projVars
    <2>8. raws' \in 0..MaxRaw
      BY <2>7, HandleAssumption DEF HInv, HandleTypeOK
    <2>9. ControlTyped'
      BY <2>7, <2>8 DEF HInv, HandleTypeOK, ControlTyped
    <2> QED
      BY <1>0, <2>2, <2>6, <2>7, <2>9, ClaudeControl DEF HInv, ClaudeReadsInTurn
  <1>5. ASSUME NEW threw \in BOOLEAN, DrainEnds(threw)
        PROVE  StepOK
    <2> DEFINE e == IF threw THEN Push(Batch, "error") ELSE Batch
               c == IF terminal \/ life # "open" THEN e ELSE Push(e, "turn_end")
               b == EndTurn(c)
    <2>1. /\ stream' = "none" /\ Deliver(b) /\ turnActive' \in {FALSE, turnActive}
          /\ UNCHANGED <<vendor, life, armed, terminal, pendingVars, projVars, boundVars>>
      BY <1>5 DEF DrainEnds, HInv, HandleTypeOK
    <2>2. Good(e) /\ (~frame.turnOpen => e.events = <<>>)
      BY <1>0, <1>1, PushPlain DEF Kinds, Push, PushChild
    <2> HIDE DEF e
    <2>3. Good(c) /\ (life # "open" /\ ~frame.turnOpen => c.events = <<>>)
      BY <1>0, <2>2, PushPlain DEF Kinds
    <2> HIDE DEF c
    <2>4. Good(b) /\ b.events = c.events
      BY <1>0, <2>3, EndTurnGood
    <2> HIDE DEF b
    <2>5. ControlTyped' /\ calls' = calls /\ vendor' = vendor
      BY <2>1, TypedStep, CancelBound DEF HInv, HandleTypeOK, pendingVars
    <2> QED
      BY <1>0, <2>1, <2>3, <2>4, <2>5, ClaudeControl
  <1> QED
    BY <1>2, <1>3, <1>4, <1>5

\* interrupt and shutdown.
LEMMA ClaudeStopStep ==
    ASSUME HInv, ClaudeInterrupt \/ ClaudeShutdown
    PROVE  StepOK
  <1>0. vendor = "claude" /\ life = "open"
    BY DEF ClaudeInterrupt, ClaudeShutdown
  <1>1. /\ Good(Batch) /\ Batch.frame = frame /\ Batch.events = <<>>
        /\ frame.turnOpen <=> CanEnvelope(frame)
    BY BatchGood DEF HInv, Agrees
  <1> DEFINE o == StartTurn(Batch)
  <1>2. Good(o)
    BY <1>1, StartTurnGood
  <1>3. CASE ClaudeInterrupt
    <2> DEFINE i == Push(Batch, "interrupt")
               j == Push(o, "interrupt")
               e == Push(j, "turn_end")
               b == IF CanEnvelope(frame) THEN i ELSE EndTurn(e)
    <2>1. /\ interrupts < MaxInterrupts /\ interrupts' = interrupts + 1 /\ Deliver(b)
          /\ vendor' = vendor /\ life' = life /\ turnActive' = turnActive /\ armed' = armed /\ stream' = stream
          /\ prompts' = prompts /\ cancelling' = cancelling /\ setting' = setting /\ terminal' = terminal
          /\ calls' = calls /\ results' = results /\ held' = held /\ role' = role
          /\ sends' = sends /\ raws' = raws
      BY <1>3 DEF ClaudeInterrupt, pendingVars, projVars
    <2>2. Good(i) /\ i.frame = frame
      BY <1>0, <1>1, PushPlain DEF Kinds
    <2> HIDE DEF o
    <2>3. Good(j)
      BY <1>0, <1>2, PushPlain DEF Kinds
    <2> HIDE DEF i, j
    <2>4. Good(e)
      BY <1>0, <2>3, PushPlain DEF Kinds
    <2> HIDE DEF e
    <2>5. Good(b) /\ (frame.turnOpen => b.frame.turnOpen)
      BY <1>0, <1>1, <2>2, <2>4, EndTurnGood
    <2> HIDE DEF b
    <2>6. ControlTyped'
      <3>1. cancelling \in 0..interrupts /\ interrupts \in 0..MaxInterrupts /\ MaxInterrupts \in Nat
        BY HandleAssumption DEF HInv, HandleTypeOK
      <3>2. cancelling' \in 0..interrupts' /\ interrupts' \in 0..MaxInterrupts
        BY <2>1, <3>1
      <3> QED
        BY <2>1, <3>2 DEF HInv, HandleTypeOK, ControlTyped
    <2> QED
      BY <1>0, <2>1, <2>5, <2>6, ClaudeControl DEF HInv, ClaudeReadsInTurn
  <1>4. CASE ClaudeShutdown
    <2> DEFINE c == IF turnActive THEN Batch ELSE o
               e == Push(c, "session_end")
               b == EndTurn(e)
    <2>1. /\ life' = "closed" /\ Deliver(b)
          /\ UNCHANGED <<vendor, turnActive, armed, stream, terminal, pendingVars, projVars, boundVars>>
      BY <1>4 DEF ClaudeShutdown
    <2> HIDE DEF o
    <2>2. Good(c)
      BY <1>1, <1>2
    <2> HIDE DEF c
    <2>3. Good(e)
      BY <1>0, <2>2, PushPlain DEF Kinds
    <2> HIDE DEF e
    <2>4. Good(b)
      BY <1>0, <2>3, EndTurnGood
    <2> HIDE DEF b
    <2>5. ControlTyped' /\ calls' = calls /\ vendor' = vendor
      BY <2>1, TypedStep, CancelBound DEF HInv, HandleTypeOK, pendingVars
    <2> QED
      BY <1>0, <2>1, <2>4, <2>5, ClaudeControl
  <1> QED
    BY <1>3, <1>4

-----------------------------------------------------------------------------
(* Every step of every handle. *)

\* A handle is created with nothing active, in the frame of its first event.
LEMMA InitHInv == HandleInit => HInv
  <1> SUFFICES ASSUME HandleInit PROVE HInv
    OBVIOUS
  <1> DEFINE z == [frame |-> FirstFrame, events |-> <<>>]
             f == [turnOpen |-> TRUE, sessionStarted |-> FALSE, turn |-> 1, turnClosed |-> FALSE]
             ev == [kind |-> "session_start", turn |-> 1, parent |-> 0]
  <1>1. frame = FirstBatch.frame /\ out = FirstBatch.events
    BY DEF HandleInit
  <1>2. FirstBatch = z \/ FirstBatch = Push(StartTurn(z), "session_start")
    BY DEF FirstBatch
  <1>3. StartTurn(z) = [frame |-> f, events |-> <<>>]
    <2>0. z.frame.turn + 1 = 1 /\ z.frame.sessionStarted = FALSE
      BY DEF FirstFrame
    <2> HIDE DEF z
    <2>1. StartTurn(z) = [z EXCEPT !.frame = f]
      BY <2>0 DEF StartTurn
    <2> USE DEF z
    <2> HIDE DEF f
    <2>2. [z EXCEPT !.frame = f] = [frame |-> f, events |-> <<>>]
      BY DEF FirstFrame
    <2> QED
      BY <2>1, <2>2
  <1>4. Push(StartTurn(z), "session_start") = [frame |-> f, events |-> <<ev>>]
    <2> DEFINE d == [frame |-> f, events |-> <<>>]
    <2>1. CanEnvelope(d.frame) /\ d.frame.turn = 1
      BY DEF CanEnvelope
    <2>2. Append(<<>>, ev) = <<ev>>
      OBVIOUS
    <2>3. Push(d, "session_start") = [d EXCEPT !.events = Append(@, ev)]
      BY <2>1 DEF Push, PushChild
    <2> HIDE DEF f, ev
    <2>4. \A y : [d EXCEPT !.events = y] = [frame |-> f, events |-> y]
      OBVIOUS
    <2>5. [d EXCEPT !.events = Append(@, ev)] = [frame |-> f, events |-> Append(<<>>, ev)]
      BY <2>4
    <2> QED
      BY <1>3, <2>2, <2>3, <2>5
  <1>5. frame \in {FirstFrame, f} /\ out \in {<<>>, <<ev>>}
    BY <1>1, <1>2, <1>4
  <1>6. frame \in Frame /\ Agrees(frame)
    <2>1. FirstFrame \in Frame /\ Agrees(FirstFrame)
      BY DEF Frame, FirstFrame, Agrees, CanEnvelope
    <2>2. f \in Frame /\ Agrees(f)
      BY DEF Frame, Agrees, CanEnvelope
    <2> QED
      BY <1>5, <2>1, <2>2
  <1>7. out \in Seq(Event) /\ \A k \in DOMAIN out : out[k] \in Event
    <2>1. ev \in Event
      BY DEF Event, Kinds
    <2> HIDE DEF ev
    <2>2. <<>> \in Seq(Event) /\ <<ev>> \in Seq(Event)
      BY <2>1
    <2>3. out \in Seq(Event)
      BY <1>5, <2>2
    <2> QED
      BY <2>3
  <1>8. /\ vendor \in Vendors /\ life = "open" /\ turnActive = FALSE /\ armed = FALSE
        /\ prompts = {} /\ cancelling = 0 /\ setting = FALSE
        /\ stream = IF vendor \in {"amp", "opencode"} THEN "reading" ELSE "none"
        /\ calls = {} /\ results = {} /\ held = FALSE /\ role = "unknown" /\ terminal = FALSE
        /\ sends = 0 /\ interrupts = 0 /\ raws = 0 /\ ended = {} /\ called = {} /\ got = "nothing"
    BY DEF HandleInit
  <1>9. HandleTypeOK
    <2>1. 0 \in 0..MaxSends /\ 0 \in 0..MaxInterrupts /\ 0 \in 0..MaxRaw /\ 0 \in 0..0
      BY HandleAssumption
    <2>2. cancelling \in 0..interrupts
      BY <1>8, <2>1
    <2> QED
      BY <1>6, <1>7, <1>8, <2>1, <2>2 DEF HandleTypeOK
  <1> QED
    BY <1>6, <1>7, <1>8, <1>9 DEF HInv, EndedFits, ClaudeReadsInTurn, SendInTurn, ActiveIsWatched

\* Gemini, Cursor, Pi and Amp, but for what AdapterHandleBase does itself.
LEMMA VendorStep ==
    ASSUME HInv, GeminiNext \/ CursorNext \/ PiNext \/ AmpNext
    PROVE  StepOK
  <1>0. vendor # "claude"
    BY DEF GeminiNext, CursorNext, PiNext, AmpNext, GeminiSend, GeminiSetModel, GeminiUpdate, GeminiPermission,
           GeminiPromptResult, CursorSend, CursorUpdate, CursorPermission, CursorProtocolError, CursorPromptResult,
           PiSend, PiSetModel, PiPromptAcknowledged, AmpSend, AmpWritten, consumeStdout,
           PiEvent, PiNote, PiAgentEnd, PiMessageStart, projectMessageUpdate, PiMessageEnd, PiTurnEnd,
           PiProtocolError, projectToolStart, projectToolEnd, PiReceive,
           AmpLine, projectAmpLine, AmpSystem, AmpResult, AmpAssistant, AmpToolResult, AmpReceive
  <1>1. ASSUME GeminiSend \/ CursorSend \/ PiSend \/ AmpSend PROVE StepOK
    BY <1>0, <1>1, SendStep DEF GeminiSend, CursorSend, PiSend, AmpSend
  <1>2. ASSUME NEW n \in prompts, GeminiPromptResult(n) \/ CursorPromptResult(n) PROVE StepOK
    BY <1>0, <1>2, PromptResultGood, ResolvedStep DEF GeminiPromptResult, CursorPromptResult
  <1>3. ASSUME NEW n \in prompts, PiPromptAcknowledged(n) \/ AmpWritten(n) PROVE StepOK
    BY <1>0, <1>3, BatchGood, ResolvedStep DEF PiPromptAcknowledged, AmpWritten
  <1>4. ASSUME GeminiSetModel \/ PiSetModel PROVE StepOK
    BY <1>0, <1>4, SetModelStep DEF GeminiSetModel, PiSetModel
  <1>5. ASSUME GeminiUpdate \/ CursorUpdate PROVE StepOK
    BY <1>5, UpdateStep DEF GeminiUpdate, CursorUpdate, GeminiText, CursorText
  <1>6. ASSUME GeminiPermission \/ CursorPermission PROVE StepOK
    BY <1>6, PermissionStep DEF GeminiPermission, CursorPermission
  <1>7. ASSUME HandleProtocolError PROVE StepOK
    BY <1>0, <1>7, ProtocolErrorStep
  <1>8. ASSUME PiEvent \/ AmpLine \/ consumeStdout PROVE StepOK
    BY <1>8, PiEventStep, AmpLineStep, StreamStep
  <1> QED
    BY <1>1, <1>2, <1>3, <1>4, <1>5, <1>6, <1>7, <1>8
       DEF GeminiNext, CursorNext, CursorProtocolError, PiNext, AmpNext

\* OpenCode and Claude.
LEMMA SdkStep ==
    ASSUME HInv, OpencodeNext \/ ClaudeNext
    PROVE  StepOK
  <1>1. ASSUME OpencodeNext PROVE StepOK
    <2>1. vendor # "claude"
      BY <1>1 DEF OpencodeNext, OpencodeSend, OpencodeEvent, OpencodeInterruptReturns, OpencodeWatchdogFires,
                  consumeEventStream, OpencodeShutdown, OpencodePrompted, SessionInfo, TextPart, OtherPart,
                  PermissionEvent, SessionIdle, SessionError, MessageUpdated, ToolPart, OpencodeReceive
    <2>2. ASSUME OpencodeSend PROVE StepOK
      BY <2>1, <2>2, SendStep DEF OpencodeSend
    <2>3. ASSUME NEW n \in prompts, OpencodePrompted(n) PROVE StepOK
      BY <2>1, <2>3, BatchGood, ResolvedStep DEF OpencodePrompted
    <2>4. ASSUME OpencodeShutdown PROVE StepOK
      BY <2>1, <2>4, ShutdownStep DEF OpencodeShutdown
    <2> QED
      BY <1>1, <2>1, <2>2, <2>3, <2>4, OpencodeEventStep, InterruptReturnsStep, WatchdogStep, StreamStep
         DEF OpencodeNext
  <1>2. ASSUME ClaudeNext PROVE StepOK
    BY <1>2, ClaudeSendStep, ClaudeDrainStep, ClaudeMessageStep, ClaudeStopStep DEF ClaudeNext, ClaudeMessage
  <1> QED
    BY <1>1, <1>2

\* Any step of any handle.
LEMMA EveryStep ==
    ASSUME HInv, HandleNext
    PROVE  StepOK
  <1>1. ASSUME SharedNext PROVE StepOK
    <2>1. vendor \in Shared /\ vendor # "claude"
      BY <1>1 DEF SharedNext, Shared
    <2> QED
      BY <1>1, <2>1, InterruptStep, InterruptReturnsStep, WatchdogStep, ShutdownStep, SetModelStep DEF SharedNext
  <1>2. ASSUME vendor # "claude", NEW n \in prompts, PromptRejected(n) PROVE StepOK
    BY <1>2, RejectedStep
  <1>3. ASSUME vendor = "opencode", doInterrupt \/ runShutdownSequence PROVE StepOK
    BY <1>3, InterruptStep, ShutdownStep
  <1> QED
    BY <1>1, <1>2, <1>3, VendorStep, SdkStep DEF HandleNext

\* A step that changes nothing.
LEMMA StutterHInv == HInv /\ UNCHANGED handleVars => HInv'
  BY DEF HInv, HandleTypeOK, Agrees, CanEnvelope, EndedFits, ClaudeReadsInTurn, SendInTurn, ActiveIsWatched,
         handleVars, pendingVars, projVars, boundVars, pushVars

\* The inductive invariant of every handle.
THEOREM HandleInvariant == HandleSpec => []HInv
  <1>1. HInv /\ [HandleNext]_handleVars => HInv'
    BY EveryStep, StutterHInv DEF StepOK
  <1> QED
    BY <1>1, InitHInv, PTL DEF HandleSpec

\* The event stream of every handle is well-formed, for any number of sends,
\* vendor events, interrupts and tools: what checkOrderingInvariants asks of a
\* recorded run.
THEOREM TurnsWellOrdered == HandleSpec => TurnsSound
  <1>1. HInv /\ [HandleNext]_handleVars => [TurnsStep]_handleVars /\ [QuietStep]_handleVars /\ [ResultStep]_handleVars
    BY EveryStep DEF StepOK
  <1>2. HInv => HandleTypeOK
    BY DEF HInv
  <1>3. HandleSpec => []HandleTypeOK
    BY <1>2, HandleInvariant, PTL
  <1>4. HandleSpec => [][TurnsStep]_handleVars /\ [][QuietStep]_handleVars /\ [][ResultStep]_handleVars
    BY <1>1, HandleInvariant, PTL DEF HandleSpec
  <1>5. HandleSpec => TurnsWellFormed
    BY <1>4 DEF TurnsStep, TurnsWellFormed
  <1>6. HandleSpec => QuietAfterEnd
    BY <1>4 DEF QuietStep, QuietAfterEnd
  <1>7. HandleSpec => ResultAfterCall
    BY <1>4 DEF ResultStep, ResultAfterCall
  <1> QED
    BY <1>3, <1>5, <1>6, <1>7 DEF TurnsSound

\* The shared handle never leaves a send active without its watchdog, and gives
\* one back only behind the end of its turn or of the session.
THEOREM SendsReleased == HandleSpec => ReleaseSound
  <1>1. HInv /\ [HandleNext]_handleVars => [ReleaseStep]_handleVars
    BY EveryStep DEF StepOK
  <1>2. HInv => ActiveIsWatched
    BY DEF HInv
  <1>3. HandleSpec => []ActiveIsWatched
    BY <1>2, HandleInvariant, PTL
  <1>4. HandleSpec => [][ReleaseStep]_handleVars
    BY <1>1, HandleInvariant, PTL DEF HandleSpec
  <1>5. HandleSpec => ReleasedWithTail
    BY <1>4 DEF ReleaseStep, ReleasedWithTail
  <1> QED
    BY <1>3, <1>5 DEF ReleaseSound

-----------------------------------------------------------------------------
(* The JSON-RPC clients. *)

Outcomes == {"shutdown", "send_failed", "timeout", "stream_failed", "result", "error"}

RpcTyped ==
    /\ rpSent \in 0..MaxRequests
    /\ rpPending \subseteq 1..rpSent
    /\ rpSettled \in [Ids -> Seq(Outcomes)]
    /\ rpServing \subseteq ServerIds
    /\ rpReplies \in [ServerIds -> -1..1]

\* A request that has its timer is pending, one that was sent is pending or settled
\* once; a request of the vendor is being served or has its one answer.
RequestsFit ==
    /\ rpTimers = rpPending
    /\ \A id \in Ids : rpSettled[id] = <<>> <=> id \in rpPending \/ id > rpSent
    /\ \A id \in Ids : Len(rpSettled[id]) <= 1
    /\ \A id \in rpServing : rpReplies[id] = 0

RpcInv == RpcTyped /\ RequestsFit

\* pending.delete is what makes a settlement unique.
LEMMA SettleKeeps ==
    ASSUME RpcInv, NEW ids \in SUBSET rpPending, NEW how \in Outcomes,
           Settle(ids, how), UNCHANGED <<rpSent, serveVars>>
    PROVE  RpcInv'
<1> USE RpcAssumption
<1>1. ids \subseteq Ids /\ rpPending' \subseteq 1..rpSent'
  BY DEF RpcInv, RpcTyped, Settle, Ids
<1>2. ASSUME NEW id \in ids
      PROVE  rpSettled[id] = <<>> /\ Append(rpSettled[id], how) \in Seq(Outcomes)
             /\ Len(Append(rpSettled[id], how)) = 1
  <2>1. rpSettled[id] = <<>>
    BY <1>1 DEF RpcInv, RequestsFit
  <2> QED BY <2>1
<1>3. rpSettled' \in [Ids -> Seq(Outcomes)]
  BY <1>2 DEF RpcInv, RpcTyped, Settle
<1>4. ASSUME NEW id \in Ids
      PROVE  /\ rpSettled'[id] = <<>> <=> id \in rpPending' \/ id > rpSent'
             /\ Len(rpSettled'[id]) <= 1
  <2>1. CASE id \in ids
    <3>1. rpSettled'[id] = Append(rpSettled[id], how) /\ id \notin rpPending' /\ id <= rpSent'
      BY <2>1, <1>1 DEF Settle, RpcInv, RpcTyped, Ids
    <3>2. rpSettled'[id] # <<>>
      BY <3>1, <2>1, <1>2
    <3> QED BY <3>1, <3>2, <2>1, <1>2 DEF RpcInv, RpcTyped, Ids
  <2>2. CASE id \notin ids
    BY <2>2 DEF Settle, RpcInv, RequestsFit
  <2> QED BY <2>1, <2>2
<1>5. RpcTyped'
  BY <1>1, <1>3 DEF RpcInv, RpcTyped, serveVars
<1>6. rpTimers' = rpPending' /\ \A id \in rpServing' : rpReplies'[id] = 0
  BY DEF RpcInv, RequestsFit, Settle, serveVars
<1> QED BY <1>4, <1>5, <1>6 DEF RpcInv, RequestsFit

\* A step that touches neither requests nor answers.
LEMMA RpcStutter == ASSUME RpcInv, UNCHANGED <<requestVars, rpSent, serveVars>> PROVE RpcInv'
BY DEF RpcInv, RpcTyped, RequestsFit, requestVars, serveVars

LEMMA RequestKeeps ==
    ASSUME RpcInv, rpSent < MaxRequests, Request(rpSent + 1)
    PROVE  RpcInv'
<1> DEFINE id == rpSent + 1
<1> USE RpcAssumption
<1>1. id \in Ids /\ id \notin rpPending /\ rpSettled[id] = <<>>
  BY DEF RpcInv, RpcTyped, RequestsFit, Ids
<1>2. UNCHANGED serveVars /\ rpSent' = id
  BY DEF Request
<1>3. CASE rpClosed
  <2>1. rpSettled' = [rpSettled EXCEPT ![id] = <<"shutdown">>] /\ UNCHANGED <<rpPending, rpTimers>>
    BY <1>3 DEF Request
  <2>2. <<"shutdown">> \in Seq(Outcomes) /\ <<"shutdown">> # <<>> /\ Len(<<"shutdown">>) = 1
    BY DEF Outcomes
  <2>3. RpcTyped'
    BY <2>1, <2>2, <1>1, <1>2 DEF RpcInv, RpcTyped, serveVars, Ids
  <2>4. ASSUME NEW i \in Ids
        PROVE  /\ rpSettled'[i] = <<>> <=> i \in rpPending' \/ i > rpSent'
               /\ Len(rpSettled'[i]) <= 1
    BY <2>1, <2>2, <1>1, <1>2 DEF RpcInv, RpcTyped, RequestsFit, Ids
  <2> QED BY <2>1, <2>3, <2>4, <1>2 DEF RpcInv, RequestsFit, serveVars
<1>4. CASE ~rpClosed
  <2>1. /\ rpPending' = rpPending \cup {id} /\ rpTimers' = rpTimers \cup {id}
        /\ UNCHANGED rpSettled
    BY <1>4 DEF Request
  <2> QED BY <2>1, <1>1, <1>2 DEF RpcInv, RpcTyped, RequestsFit, serveVars, Ids
<1> QED BY <1>3, <1>4

LEMMA FrameKeeps == ASSUME RpcInv, FrameArrives PROVE RpcInv'
<1>0. UNCHANGED rpSent
  BY DEF FrameArrives, sendVars
<1>1. ASSUME NEW id, NEW outcome \in {"result", "error"}, handleResponse(id, outcome)
      PROVE  RpcInv'
  <2>1. Settle({id} \cap rpPending, outcome) /\ UNCHANGED serveVars
    BY <1>1 DEF handleResponse
  <2> QED BY <2>1, <1>0, SettleKeeps DEF Outcomes
<1>2. ASSUME NEW id, NEW method, handleServerRequest(id, method) PROVE RpcInv'
  <2>1. /\ id \in ServerIds /\ rpReplies[id] = -1 /\ UNCHANGED requestVars
        /\ \/ rpServing' = rpServing \cup {id} /\ rpReplies' = [rpReplies EXCEPT ![id] = 0]
           \/ rpReplies' = [rpReplies EXCEPT ![id] = 1] /\ UNCHANGED rpServing
    BY <1>2 DEF handleServerRequest
  <2>0. 0 \in -1..1 /\ 1 \in -1..1
    OBVIOUS
  <2>4. rpReplies' \in [ServerIds -> -1..1] /\ rpServing' \subseteq ServerIds
    BY <2>0, <2>1 DEF RpcInv, RpcTyped
  <2>2. RpcTyped'
    BY <2>1, <2>4, <1>0 DEF RpcInv, RpcTyped, requestVars
  <2>3. \A i \in rpServing' : rpReplies'[i] = 0
    BY <2>1 DEF RpcInv, RpcTyped, RequestsFit
  <2> QED BY <2>1, <2>2, <2>3, <1>0 DEF RpcInv, RequestsFit, requestVars
<1>3. CASE rpKind = "acp" /\ \E f \in AcpFrames : acpHandleFrame(f)
  <2>1. PICK f \in AcpFrames : acpHandleFrame(f)
    BY <1>3
  <2>2. CASE f.marked /\ f.method # "none" /\ f.id # 0
    BY <2>1, <2>2, <1>2 DEF acpHandleFrame
  <2>3. CASE f.marked /\ f.method # "none" /\ f.id = 0
    <3>1. handleNotification(f.method)
      BY <2>1, <2>3 DEF acpHandleFrame
    <3> QED BY <3>1, <1>0, RpcStutter DEF handleNotification
  <2>4. CASE f.marked /\ f.method = "none" /\ f.outcome # "none"
    <3>1. handleResponse(f.id, f.outcome) /\ f.outcome \in {"result", "error"}
      BY <2>1, <2>4 DEF acpHandleFrame, AcpFrames
    <3> QED BY <3>1, <1>1
  <2>5. CASE ~f.marked \/ (f.method = "none" /\ f.outcome = "none")
    <3>1. UNCHANGED <<requestVars, serveVars>>
      BY <2>1, <2>5 DEF acpHandleFrame
    <3> QED BY <3>1, <1>0, RpcStutter
  <2> QED BY <2>2, <2>3, <2>4, <2>5
<1>4. CASE rpKind = "pi" /\ \E f \in PiFrames : piHandleFrame(f)
  <2>1. PICK f \in PiFrames : piHandleFrame(f)
    BY <1>4
  <2>2. CASE f.type = "response"
    <3>1. handleResponse(f.id, f.outcome) /\ f.outcome \in {"result", "error"}
      BY <2>1, <2>2 DEF piHandleFrame, PiFrames
    <3> QED BY <3>1, <1>1
  <2>3. CASE f.type # "response"
    <3>1. UNCHANGED <<requestVars, serveVars>>
      BY <2>1, <2>3 DEF piHandleFrame
    <3> QED BY <3>1, <1>0, RpcStutter
  <2> QED BY <2>2, <2>3
<1> QED BY <1>3, <1>4 DEF FrameArrives

LEMMA RpcInvNext == ASSUME RpcInv, [RpcNext]_rpcVars PROVE RpcInv'
<1>1. CASE ChooseKind \/ LoopLeaves \/ StdoutEnds \/ CloseDone \/ UNCHANGED rpcVars
  BY <1>1, RpcStutter DEF ChooseKind, LoopLeaves, StdoutEnds, CloseDone, rpcVars, sendVars
<1>2. CASE sendRequest \/ sendCommand
  BY <1>2, RequestKeeps DEF sendRequest, sendCommand
<1>3. ASSUME NEW id \in Ids, SendDone(id) PROVE RpcInv'
  BY <1>3, RpcStutter DEF SendDone
<1>4. ASSUME NEW id \in Ids, SendFailed(id) PROVE RpcInv'
  <2>1. Settle({id} \cap rpPending, "send_failed") /\ UNCHANGED <<rpSent, serveVars>>
    BY <1>4 DEF SendFailed
  <2> QED BY <2>1, SettleKeeps DEF Outcomes
<1>5. ASSUME NEW id \in Ids, TimedOut(id) PROVE RpcInv'
  <2>1. Settle({id}, "timeout") /\ {id} \subseteq rpPending /\ UNCHANGED <<rpSent, serveVars>>
    BY <1>5 DEF TimedOut, sendVars, RpcInv, RequestsFit
  <2> QED BY <2>1, SettleKeeps DEF Outcomes
<1>6. CASE FrameArrives
  BY <1>6, FrameKeeps
<1>7. CASE StdoutErrors
  <2>1. UNCHANGED <<rpSent, serveVars>> /\ (UNCHANGED requestVars \/ Settle(rpPending, "stream_failed"))
    BY <1>7 DEF StdoutErrors, failAllPending, sendVars
  <2> QED BY <2>1, SettleKeeps, RpcStutter DEF Outcomes
<1>8. CASE CloseClient
  <2>1. Settle(rpPending, "shutdown") /\ UNCHANGED <<rpSent, serveVars>>
    BY <1>8 DEF CloseClient, sendVars
  <2> QED BY <2>1, SettleKeeps DEF Outcomes
<1>9. ASSUME NEW id \in ServerIds, Respond(id) PROVE RpcInv'
  <2>1. /\ id \in rpServing /\ rpServing' = rpServing \ {id}
        /\ rpReplies' = [rpReplies EXCEPT ![id] = IF rpClosed THEN @ ELSE @ + 1]
        /\ UNCHANGED <<requestVars, rpSent>>
    BY <1>9 DEF Respond, sendVars
  <2>2. RpcTyped'
    BY <2>1 DEF RpcInv, RpcTyped, RequestsFit, requestVars
  <2>3. \A i \in rpServing' : rpReplies'[i] = 0
    BY <2>1 DEF RpcInv, RpcTyped, RequestsFit
  <2> QED BY <2>1, <2>2, <2>3 DEF RpcInv, RequestsFit, requestVars
<1> QED BY <1>1, <1>2, <1>3, <1>4, <1>5, <1>6, <1>7, <1>8, <1>9 DEF RpcNext

RpcSpec == RpcInit /\ [][RpcNext]_rpcVars

LEMMA RpcInitInv == RpcInit => RpcInv
BY RpcAssumption DEF RpcInit, RpcInv, RpcTyped, RequestsFit, Ids

LEMMA RpcInvSettles == RpcInv => SettledOnce
<1> SUFFICES ASSUME RpcInv PROVE SettledOnce
  OBVIOUS
<1>1. ASSUME NEW id \in Ids, id <= rpSent
      PROVE  Len(rpSettled[id]) = IF id \in rpPending THEN 0 ELSE 1
  <2>1. rpSettled[id] \in Seq(Outcomes) /\ Len(rpSettled[id]) \in Nat
    BY DEF RpcInv, RpcTyped
  <2>2. rpSettled[id] = <<>> <=> Len(rpSettled[id]) = 0
    BY <2>1, EmptySeq
  <2>3. rpSettled[id] = <<>> <=> id \in rpPending
    BY <1>1, RpcAssumption DEF RpcInv, RpcTyped, RequestsFit, Ids
  <2>4. Len(rpSettled[id]) <= 1
    BY DEF RpcInv, RequestsFit
  <2> QED BY <2>1, <2>2, <2>3, <2>4
<1>2. ASSUME NEW id \in ServerIds PROVE rpReplies[id] <= IF id \in rpServing THEN 0 ELSE 1
  BY DEF RpcInv, RpcTyped, RequestsFit
<1> QED BY <1>1, <1>2 DEF SettledOnce, RpcInv, RequestsFit

\* The invariant of the JSON-RPC clients of acp and pi: what was sent is pending under its
\* timer or settled once, and what the vendor asked is being served or was answered once.
THEOREM RpcInvariant == RpcSpec => []RpcInv
<1>1. RpcInit => RpcInv
  BY RpcInitInv
<1>2. RpcInv /\ [RpcNext]_rpcVars => RpcInv'
  BY RpcInvNext
<1> QED BY <1>1, <1>2, PTL DEF RpcSpec

\* SettledOnce for any number of requests: the answer, the timeout, the failed send, the
\* end of stdout and close, in whatever order they come, settle a request once, no timer
\* outlives its request, and the vendor's requests are answered at most once.
THEOREM RequestsSettleOnce == RpcSpec => []SettledOnce
BY RpcInvariant, RpcInvSettles, PTL

-----------------------------------------------------------------------------
(* The A2A transport. *)

CallPcs == {"idle", "minting", "posted", "verifying", "body", "running", "streaming", "answered"}
Results == {"none", "transport error", "missing-token", "bad-token", "untrusted-issuer", "expired",
            "rpc error", "result"}
A2aEvents == {"task-start", "task-update", "task-end"}

CallType ==
    [pc : CallPcs, method : Method, credential : Credential, exp : Int, started : Int,
     result : Results, handled : BOOLEAN, ended : BOOLEAN, done : BOOLEAN,
     updates : Nat, wire : Seq(Nat), got : Seq(Nat), events : Seq(A2aEvents)]

\* Nothing has come of a call that no handler was started for.
BeforeHandler(call) ==
    call.pc \in {"idle", "minting", "posted", "verifying", "body"} =>
        /\ ~call.handled /\ ~call.ended /\ call.result = "none"
        /\ call.events = <<>> /\ call.wire = <<>> /\ call.got = <<>>

\* Behind the checks of the credential it is what they let through.
CredentialFits(call) ==
    /\ call.handled \/ call.pc = "body" => call.credential = "good"
    /\ call.pc = "verifying" => call.credential \in {"forged", "good"}

\* A task-end is the last event, of a stream it is there once the stream is ended, and
\* not before.
EndLast(call) == \A k \in DOMAIN call.events : call.events[k] = "task-end" => k = Len(call.events)
NoEnd(call) == \A k \in DOMAIN call.events : call.events[k] # "task-end"
EventsFit(call) ==
    /\ EndLast(call)
    /\ call.ended => Len(call.events) > 0 /\ call.events[Len(call.events)] = "task-end"
    /\ call.pc = "running" => ~call.ended
    /\ call.pc \in {"running", "streaming"} /\ ~call.ended => NoEnd(call)

\* What was yielded and what is still on the wire are, in this order, some of the
\* updates emitted so far.
Ascending(s) == \A j, k \in DOMAIN s : j < k /\ s[j] # 0 /\ s[k] # 0 => s[j] < s[k]
UpTo(s, n) == \A k \in DOMAIN s : s[k] <= n
UpdatesFit(call) == Ascending(call.got \o call.wire) /\ UpTo(call.got \o call.wire, call.updates)

\* A token under way was good for the rotation margin when it was chosen.
TokenFits(call, now) ==
    /\ call.pc \in {"minting", "posted", "verifying"} /\ call.credential = "good"
          => call.exp - call.started >= Margin
    /\ call.result = "expired" /\ call.credential = "good"
          => now - call.started > Margin + ClockSkew

CallFits(call, now) ==
    /\ call \in CallType
    /\ BeforeHandler(call) /\ CredentialFits(call) /\ EventsFit(call)
    /\ UpdatesFit(call) /\ TokenFits(call, now)

A2aInv ==
    /\ a2Now \in Int /\ a2Cached \in Int
    /\ a2Call = [c \in A2aCalls |-> a2Call[c]]
    /\ \A c \in A2aCalls : CallFits(a2Call[c], a2Now)

A2aSpec == A2aInit /\ [][A2aNext]_a2aVars

LEMMA MarginNat == Margin \in Nat /\ Margin <= TokenTtl /\ Margin <= RotateWithin
BY A2aAssumption DEF Margin

LEMMA NewCallFits == CallFits(NewCall, 0) /\ \A now \in Int : CallFits(NewCall, now)
<1> DEFINE new == NewCall
<1>1. new \in CallType
  BY DEF NewCall, CallType, CallPcs, Results, Method, Credential
<1>2. /\ new.pc = "idle" /\ ~new.handled /\ ~new.ended /\ new.result = "none" /\ new.updates = 0
      /\ new.events = <<>> /\ new.wire = <<>> /\ new.got = <<>>
  BY DEF NewCall
<1>3. new.got \o new.wire = <<>>
  BY <1>2
<1> HIDE DEF new
<1>4. BeforeHandler(new) /\ CredentialFits(new) /\ EventsFit(new)
  BY <1>2 DEF BeforeHandler, CredentialFits, EventsFit, EndLast, NoEnd
<1>5. UpdatesFit(new)
  BY <1>3 DEF UpdatesFit, Ascending, UpTo
<1>6. \A now : TokenFits(new, now)
  BY <1>2 DEF TokenFits
<1> QED BY <1>1, <1>4, <1>5, <1>6 DEF CallFits, new

\* A step of one call.
LEMMA OneGoes ==
    ASSUME A2aInv, NEW c \in A2aCalls, NEW call, CallFits(call, a2Now), Goes(c, call),
           a2Now' = a2Now, a2Cached' \in Int
    PROVE  A2aInv'
BY DEF A2aInv, Goes

\* A call of which only the place, the answer and the credential's checks change.
LEMMA PlaceChanges ==
    ASSUME NEW call, NEW now \in Int, CallFits(call, now), NEW pc \in CallPcs, NEW result \in Results,
           pc \in {"idle", "minting", "posted", "verifying", "body"} =>
              /\ call.pc \in {"idle", "minting", "posted", "verifying", "body"}
              /\ result = call.result,
           pc \in {"minting", "posted", "verifying"} => call.pc \in {"minting", "posted", "verifying"},
           pc = "body" => call.credential = "good",
           pc = "verifying" => call.credential \in {"forged", "good"},
           pc \in {"running", "streaming"} => NoEnd(call) /\ ~call.ended,
           result = "expired" /\ call.credential = "good" => now - call.started > Margin + ClockSkew
    PROVE  CallFits([call EXCEPT !.pc = pc, !.result = result], now)
<1> DEFINE next == [call EXCEPT !.pc = pc, !.result = result]
<1>1. call \in CallType /\ next \in CallType
  BY DEF CallFits, CallType
<1>2. /\ next.pc = pc /\ next.result = result /\ next.credential = call.credential
      /\ next.handled = call.handled /\ next.ended = call.ended /\ next.updates = call.updates
      /\ next.events = call.events /\ next.wire = call.wire /\ next.got = call.got
      /\ next.exp = call.exp /\ next.started = call.started
  BY <1>1 DEF CallType
<1>3. BeforeHandler(next)
  BY <1>2 DEF CallFits, BeforeHandler
<1>4. CredentialFits(next)
  BY <1>2 DEF CallFits, CredentialFits
<1>5. EventsFit(next)
  BY <1>2 DEF CallFits, EventsFit, EndLast, NoEnd
<1>6. UpdatesFit(next)
  BY <1>2 DEF CallFits, UpdatesFit
<1>7. TokenFits(next, now)
  BY <1>2 DEF CallFits, TokenFits
<1> QED BY <1>1, <1>3, <1>4, <1>5, <1>6, <1>7 DEF CallFits

\* endStream, whoever calls it.
LEMMA EndStreamFits ==
    ASSUME NEW call, NEW now \in Int, CallFits(call, now), call.pc = "streaming"
    PROVE  /\ CallFits(endStream(call), now)
           /\ endStream(call).ended /\ endStream(call).pc = "streaming"
           /\ endStream(call).result = call.result
<1> DEFINE next == [call EXCEPT !.ended = TRUE, !.events = Append(@, "task-end")]
<1>0. call \in CallType
  BY DEF CallFits
<1>1. CASE call.ended
  BY <1>1 DEF endStream
<1>2. CASE ~call.ended
  <2>1. call.events \in Seq(A2aEvents) /\ Append(call.events, "task-end") \in Seq(A2aEvents)
    BY <1>0 DEF CallType, A2aEvents
  <2>2. next \in CallType /\ endStream(call) = next
    BY <1>0, <1>2, <2>1 DEF CallType, endStream
  <2>3. /\ next.pc = call.pc /\ next.result = call.result /\ next.credential = call.credential
        /\ next.handled = call.handled /\ next.ended /\ next.updates = call.updates
        /\ next.events = Append(call.events, "task-end") /\ next.wire = call.wire /\ next.got = call.got
        /\ next.exp = call.exp /\ next.started = call.started
    BY <1>0 DEF CallType
  <2> HIDE DEF next
  <2>4. BeforeHandler(next) /\ CredentialFits(next)
    BY <2>3 DEF CallFits, BeforeHandler, CredentialFits
  <2>5. NoEnd(call)
    BY <1>2 DEF CallFits, EventsFit
  <2>6. /\ Len(next.events) = Len(call.events) + 1 /\ DOMAIN next.events = 1..(Len(call.events) + 1)
        /\ next.events[Len(next.events)] = "task-end"
        /\ \A k \in DOMAIN call.events : next.events[k] = call.events[k]
        /\ DOMAIN call.events = 1..Len(call.events)
    BY <2>1, <2>3
  <2>7. EventsFit(next)
    BY <2>1, <2>3, <2>5, <2>6 DEF EventsFit, EndLast, NoEnd
  <2>8. UpdatesFit(next) /\ TokenFits(next, now)
    BY <2>3 DEF CallFits, UpdatesFit, TokenFits
  <2> QED BY <2>2, <2>3, <2>4, <2>7, <2>8 DEF CallFits
<1> QED BY <1>1, <1>2


LEMMA MintKeeps == ASSUME A2aInv, NEW c \in A2aCalls, NEW method \in Method, mintToken(c, method) PROVE A2aInv'
<1> DEFINE fresh == a2Cached = NoToken \/ a2Cached - a2Now <= RotateWithin
           call == a2Call[c]
           exp == IF fresh THEN a2Now + TokenTtl ELSE a2Cached
           next == [call EXCEPT !.pc = IF fresh THEN "minting" ELSE "posted", !.method = method,
                                !.started = a2Now, !.exp = exp]
<1>1. call.pc = "idle" /\ Goes(c, next) /\ OnlyCall
  BY DEF mintToken, At
<1>2. call \in CallType /\ CallFits(call, a2Now) /\ a2Now \in Int /\ a2Cached \in Int
  BY DEF A2aInv, CallFits
<1>3. exp \in Int /\ exp - a2Now >= Margin
  <2>1. CASE fresh
    BY <1>2, <2>1, MarginNat, A2aAssumption
  <2>2. CASE ~fresh
    BY <1>2, <2>2, MarginNat, A2aAssumption
  <2> QED BY <2>1, <2>2
<1> HIDE DEF exp, fresh
<1>4. next \in CallType
  BY <1>2, <1>3 DEF CallType, CallPcs
<1>5. /\ next.pc \in {"minting", "posted"} /\ next.result = call.result /\ next.credential = call.credential
      /\ next.handled = call.handled /\ next.ended = call.ended /\ next.updates = call.updates
      /\ next.events = call.events /\ next.wire = call.wire /\ next.got = call.got
      /\ next.exp = exp /\ next.started = a2Now
  BY <1>2 DEF CallType
<1> HIDE DEF next, call
<1>6. CallFits(next, a2Now)
  <2>1. BeforeHandler(next) /\ CredentialFits(next)
    BY <1>1, <1>2, <1>5 DEF CallFits, BeforeHandler, CredentialFits
  <2>2. EventsFit(next) /\ UpdatesFit(next)
    BY <1>2, <1>5 DEF CallFits, EventsFit, EndLast, NoEnd, UpdatesFit
  <2>3. TokenFits(next, a2Now)
    BY <1>1, <1>2, <1>3, <1>5 DEF CallFits, BeforeHandler, TokenFits
  <2> QED BY <1>4, <2>1, <2>2, <2>3 DEF CallFits
<1> QED BY <1>1, <1>2, <1>6, OneGoes DEF OnlyCall

LEMMA MintedKeeps == ASSUME A2aInv, NEW c \in A2aCalls, Minted(c) PROVE A2aInv'
<1> DEFINE call == a2Call[c]
           next == [call EXCEPT !.pc = "posted", !.result = call.result]
<1>1. call \in CallType /\ CallFits(call, a2Now) /\ a2Now \in Int /\ call.pc = "minting"
  BY DEF A2aInv, CallFits, Minted, At
<1>2. next = [call EXCEPT !.pc = "posted"] /\ call.result \in Results /\ "posted" \in CallPcs
  BY <1>1 DEF CallType, CallPcs
<1>3. CallFits(next, a2Now)
  <2>1. call.result = "none"
    BY <1>1 DEF CallFits, BeforeHandler
  <2> HIDE DEF call
  <2> QED BY <1>1, <1>2, <2>1, PlaceChanges
<1>4. a2Cached' \in Int
  BY <1>1 DEF Minted, CallType
<1> QED BY <1>2, <1>3, <1>4, OneGoes DEF Minted

LEMMA ForeignKeeps ==
    ASSUME A2aInv, NEW c \in A2aCalls, NEW method \in Method, NEW credential \in Credential,
           Foreign(c, method, credential)
    PROVE  A2aInv'
<1> DEFINE call == a2Call[c]
           next == [call EXCEPT !.pc = "posted", !.method = method, !.credential = credential,
                                !.started = a2Now, !.exp = a2Now + TokenTtl]
<1>1. call.pc = "idle" /\ Goes(c, next) /\ OnlyCall
  BY DEF Foreign, At
<1>2. call \in CallType /\ CallFits(call, a2Now) /\ a2Now \in Int /\ a2Cached \in Int
  BY DEF A2aInv, CallFits
<1>3. a2Now + TokenTtl \in Int /\ (a2Now + TokenTtl) - a2Now >= Margin
  BY <1>2, MarginNat, A2aAssumption
<1>4. next \in CallType
  BY <1>2, <1>3 DEF CallType, CallPcs
<1>5. /\ next.pc = "posted" /\ next.result = call.result /\ next.credential = credential
      /\ next.handled = call.handled /\ next.ended = call.ended /\ next.updates = call.updates
      /\ next.events = call.events /\ next.wire = call.wire /\ next.got = call.got
      /\ next.exp = a2Now + TokenTtl /\ next.started = a2Now
  BY <1>2 DEF CallType
<1> HIDE DEF next, call
<1>6. CallFits(next, a2Now)
  <2>1. BeforeHandler(next) /\ CredentialFits(next)
    BY <1>1, <1>2, <1>5 DEF CallFits, BeforeHandler, CredentialFits
  <2>2. EventsFit(next) /\ UpdatesFit(next)
    BY <1>2, <1>5 DEF CallFits, EventsFit, EndLast, NoEnd, UpdatesFit
  <2>3. TokenFits(next, a2Now)
    BY <1>1, <1>2, <1>3, <1>5 DEF CallFits, BeforeHandler, TokenFits
  <2> QED BY <1>4, <2>1, <2>2, <2>3 DEF CallFits
<1> QED BY <1>1, <1>2, <1>6, OneGoes DEF OnlyCall

\* A call that is answered without a handler.
LEMMA AnsweredFits ==
    ASSUME A2aInv, NEW c \in A2aCalls, NEW result \in Results,
           result = "expired" /\ a2Call[c].credential = "good" => a2Now - a2Call[c].started > Margin + ClockSkew
    PROVE  CallFits(Answered(c, result), a2Now)
<1>1. CallFits(a2Call[c], a2Now) /\ a2Now \in Int
  BY DEF A2aInv
<1>2. "answered" \in CallPcs
  BY DEF CallPcs
<1> DEFINE call == a2Call[c]
<1>3. CallFits([call EXCEPT !.pc = "answered", !.result = result], a2Now)
  <2> HIDE DEF call
  <2>1. result = "expired" /\ call.credential = "good" => a2Now - call.started > Margin + ClockSkew
    BY DEF call
  <2> QED BY <1>1, <1>2, <2>1, PlaceChanges DEF call
<1> QED BY <1>3 DEF Answered

LEMMA RefusedKeeps ==
    ASSUME A2aInv, NEW c \in A2aCalls, NEW result \in Results, result # "expired",
           Goes(c, Answered(c, result)), OnlyCall
    PROVE  A2aInv'
<1>1. CallFits(Answered(c, result), a2Now)
  BY AnsweredFits
<1> QED BY <1>1, OneGoes DEF OnlyCall, A2aInv

LEMMA BearerKeeps == ASSUME A2aInv, NEW c \in A2aCalls, verifyBearer(c) PROVE A2aInv'
<1> DEFINE call == a2Call[c]
           next == [call EXCEPT !.pc = "verifying", !.result = call.result]
<1>1. call \in CallType /\ CallFits(call, a2Now) /\ a2Now \in Int /\ call.pc = "posted" /\ OnlyCall
  BY DEF A2aInv, CallFits, verifyBearer, At
<1>2. CASE call.credential = "missing"
  BY <1>1, <1>2, RefusedKeeps DEF verifyBearer, authFail, Results
<1>3. CASE call.credential \in {"garbled", "no issuer"}
  BY <1>1, <1>3, RefusedKeeps DEF verifyBearer, authFail, Results
<1>4. CASE call.credential = "untrusted"
  BY <1>1, <1>4, RefusedKeeps DEF verifyBearer, authFail, Results
<1>5. CASE call.credential \in {"forged", "good"}
  <2>1. next = [call EXCEPT !.pc = "verifying"] /\ call.result \in Results /\ "verifying" \in CallPcs
    BY <1>1 DEF CallType, CallPcs
  <2>2. CallFits(next, a2Now)
    <3>1. call.result = "none"
      BY <1>1 DEF CallFits, BeforeHandler
    <3> HIDE DEF call
    <3> QED BY <1>1, <1>5, <2>1, <3>1, PlaceChanges
  <2>3. Goes(c, next)
    BY <1>5, <2>1 DEF verifyBearer
  <2> QED BY <1>1, <2>2, <2>3, OneGoes DEF OnlyCall, A2aInv
<1>6. call.credential \in Credential
  BY <1>1 DEF CallType
<1> QED BY <1>2, <1>3, <1>4, <1>5, <1>6 DEF Credential

LEMMA SignatureKeeps == ASSUME A2aInv, NEW c \in A2aCalls, SignatureChecked(c) PROVE A2aInv'
<1> DEFINE call == a2Call[c]
           next == [call EXCEPT !.pc = "body", !.result = call.result]
<1>1. call \in CallType /\ CallFits(call, a2Now) /\ a2Now \in Int /\ call.pc = "verifying" /\ OnlyCall
  BY DEF A2aInv, CallFits, SignatureChecked, At
<1>2. call.credential \in {"forged", "good"}
  BY <1>1 DEF CallFits, CredentialFits
<1>3. CASE call.credential = "forged"
  BY <1>1, <1>3, RefusedKeeps DEF SignatureChecked, authFail, Results
<1>4. CASE call.credential # "forged" /\ call.exp + ClockSkew < a2Now
  <2>1. call.exp \in Int /\ call.started \in Int
    BY <1>1 DEF CallType
  <2>2. call.exp - call.started >= Margin
    BY <1>1, <1>2, <1>4 DEF CallFits, TokenFits
  <2>3. a2Now - call.started > Margin + ClockSkew
    BY <1>1, <1>4, <2>1, <2>2, MarginNat, A2aAssumption
  <2>4. CallFits(Answered(c, "expired"), a2Now)
    BY <2>3, AnsweredFits DEF Results
  <2>5. Goes(c, Answered(c, "expired"))
    BY <1>4 DEF SignatureChecked, authFail
  <2> QED BY <1>1, <2>4, <2>5, OneGoes DEF OnlyCall, A2aInv
<1>5. CASE call.credential # "forged" /\ ~(call.exp + ClockSkew < a2Now)
  <2>1. next = [call EXCEPT !.pc = "body"] /\ call.result \in Results /\ "body" \in CallPcs
    BY <1>1 DEF CallType, CallPcs
  <2>2. CallFits(next, a2Now)
    <3>1. call.result = "none"
      BY <1>1 DEF CallFits, BeforeHandler
    <3> HIDE DEF call
    <3> QED BY <1>1, <1>2, <1>5, <2>1, <3>1, PlaceChanges
  <2>3. Goes(c, next)
    BY <1>5, <2>1 DEF SignatureChecked
  <2> QED BY <1>1, <2>2, <2>3, OneGoes DEF OnlyCall, A2aInv
<1> QED BY <1>3, <1>4, <1>5


\* Appending to a sequence, element by element.
LEMMA Appended ==
    ASSUME NEW S, NEW s \in Seq(S), NEW e \in S
    PROVE  /\ Append(s, e) \in Seq(S) /\ Len(Append(s, e)) = Len(s) + 1
           /\ DOMAIN Append(s, e) = 1..(Len(s) + 1) /\ DOMAIN s = 1..Len(s) /\ Len(s) \in Nat
           /\ \A k \in 1..Len(s) : Append(s, e)[k] = s[k]
           /\ Append(s, e)[Len(s) + 1] = e
OBVIOUS

\* What another event does to the place of task-end.
LEMMA EventAppended ==
    ASSUME NEW call, NEW next, call.events \in Seq(A2aEvents), NoEnd(call),
           NEW e \in A2aEvents, next.events = Append(call.events, e)
    PROVE  /\ next.events \in Seq(A2aEvents)
           /\ EndLast(next)
           /\ e # "task-end" => NoEnd(next)
           /\ Len(next.events) > 0 /\ next.events[Len(next.events)] = e
<1>1. \A k \in 1..Len(call.events) : call.events[k] # "task-end"
  BY Appended DEF NoEnd
<1> QED BY <1>1, Appended DEF EndLast, NoEnd

LEMMA DispatchKeeps == ASSUME A2aInv, NEW c \in A2aCalls, Dispatch(c) PROVE A2aInv'
<1> DEFINE call == a2Call[c]
<1>1. /\ call \in CallType /\ CallFits(call, a2Now) /\ a2Now \in Int /\ call.pc = "body" /\ OnlyCall
      /\ a2Cached \in Int
  BY DEF A2aInv, CallFits, Dispatch, At
<1>2. /\ call.credential = "good" /\ call.result = "none" /\ ~call.ended
      /\ call.events = <<>> /\ call.wire = <<>> /\ call.got = <<>>
  BY <1>1 DEF CallFits, CredentialFits, BeforeHandler
<1>3. ASSUME NEW pc \in {"running", "streaming"}, NEW events \in {<<>>, <<"task-start">>},
             NEW next, next = [call EXCEPT !.pc = pc, !.handled = TRUE, !.events = events]
      PROVE  CallFits(next, a2Now)
  <2>1. events \in Seq(A2aEvents) /\ \A k \in DOMAIN events : events[k] = "task-start"
    <3>1. CASE events = <<>>
      BY <3>1
    <3>2. CASE events = <<"task-start">>
      BY <3>2 DEF A2aEvents
    <3> QED BY <1>3, <3>1, <3>2
  <2>2. next \in CallType
    BY <1>1, <1>3, <2>1 DEF CallType, CallPcs
  <2>3. /\ next.pc = pc /\ next.result = "none" /\ next.credential = "good"
        /\ next.ended = call.ended /\ next.updates = call.updates
        /\ next.events = events /\ next.wire = call.wire /\ next.got = call.got
        /\ next.exp = call.exp /\ next.started = call.started
    BY <1>1, <1>2, <1>3 DEF CallType
  <2> HIDE DEF call
  <2>4. BeforeHandler(next) /\ CredentialFits(next)
    BY <2>3 DEF BeforeHandler, CredentialFits
  <2>5. EventsFit(next)
    BY <1>2, <2>1, <2>3 DEF EventsFit, EndLast, NoEnd
  <2>6. UpdatesFit(next)
    BY <1>1, <2>3 DEF CallFits, UpdatesFit
  <2>7. TokenFits(next, a2Now)
    BY <2>3 DEF TokenFits
  <2> QED BY <2>2, <2>4, <2>5, <2>6, <2>7 DEF CallFits
<1>4. ASSUME NEW pc \in {"running", "streaming"}, Goes(c, Start(c, pc)) PROVE A2aInv'
  <2>1. Append(call.events, "task-start") = <<"task-start">>
    BY <1>2
  <2>2. Start(c, pc) = [call EXCEPT !.pc = pc, !.handled = TRUE, !.events = <<"task-start">>]
    BY <2>1 DEF Start
  <2>3. CallFits(Start(c, pc), a2Now)
    BY <1>3, <2>2
  <2> QED BY <1>1, <1>4, <2>3, OneGoes DEF OnlyCall
<1>5. ASSUME Goes(c, [call EXCEPT !.pc = "running", !.handled = TRUE]) PROVE A2aInv'
  <2>1. [call EXCEPT !.pc = "running", !.handled = TRUE]
          = [call EXCEPT !.pc = "running", !.handled = TRUE, !.events = <<>>]
    BY <1>1, <1>2 DEF CallType
  <2>2. CallFits([call EXCEPT !.pc = "running", !.handled = TRUE], a2Now)
    BY <1>3, <2>1
  <2> QED BY <1>1, <1>5, <2>2, OneGoes DEF OnlyCall
<1>6. ASSUME Goes(c, Answered(c, "rpc error")) PROVE A2aInv'
  BY <1>1, <1>6, RefusedKeeps DEF Results
<1> QED BY <1>4, <1>5, <1>6 DEF Dispatch

LEMMA OneShotKeeps == ASSUME A2aInv, NEW c \in A2aCalls, NEW ok \in BOOLEAN, OneShotDone(c, ok) PROVE A2aInv'
<1> DEFINE call == a2Call[c]
           result == IF call.result # "none" THEN call.result ELSE IF ok THEN "result" ELSE "rpc error"
           events == IF ok /\ call.method = "tasks/send" THEN Append(call.events, "task-end") ELSE call.events
           next == [call EXCEPT !.pc = "answered", !.result = result, !.events = events]
<1>1. /\ call \in CallType /\ CallFits(call, a2Now) /\ a2Now \in Int /\ call.pc = "running" /\ OnlyCall
      /\ a2Cached \in Int
  BY DEF A2aInv, CallFits, OneShotDone, At
<1>2. ~call.ended /\ NoEnd(call) /\ call.events \in Seq(A2aEvents)
  BY <1>1 DEF CallFits, EventsFit, CallType
<1>3. events \in Seq(A2aEvents)
  BY <1>2 DEF A2aEvents
<1>4. result \in Results /\ (result = "expired" => call.result = "expired")
  BY <1>1 DEF CallType, Results
<1> HIDE DEF result
<1>5. next \in CallType
  BY <1>1, <1>3, <1>4 DEF CallType, CallPcs
<1>6. /\ next.pc = "answered" /\ next.result = result /\ next.credential = call.credential
      /\ next.handled = call.handled /\ next.ended = call.ended /\ next.updates = call.updates
      /\ next.events = events /\ next.wire = call.wire /\ next.got = call.got
      /\ next.exp = call.exp /\ next.started = call.started
  BY <1>1 DEF CallType
<1>7. Goes(c, next)
  BY DEF OneShotDone, result
<1> HIDE DEF next
<1>8. EndLast(next)
  <2>1. CASE events = call.events
    BY <1>2, <1>6, <2>1 DEF EndLast, NoEnd
  <2>2. CASE events = Append(call.events, "task-end")
    BY <1>2, <1>6, <2>2, EventAppended DEF A2aEvents
  <2> QED BY <2>1, <2>2
<1> HIDE DEF events, call
<1>9. BeforeHandler(next) /\ CredentialFits(next)
  BY <1>1, <1>6 DEF CallFits, BeforeHandler, CredentialFits
<1>10. EventsFit(next)
  BY <1>2, <1>6, <1>8 DEF EventsFit
<1>11. UpdatesFit(next)
  BY <1>1, <1>6 DEF CallFits, UpdatesFit
<1>12. TokenFits(next, a2Now)
  BY <1>1, <1>4, <1>6 DEF CallFits, TokenFits
<1>13. CallFits(next, a2Now)
  BY <1>5, <1>9, <1>10, <1>11, <1>12 DEF CallFits
<1> QED BY <1>1, <1>7, <1>13, OneGoes DEF OnlyCall

\* An update that is new, or final, joins the others.
LEMMA AscendingAppended ==
    ASSUME NEW s \in Seq(Nat), NEW n \in Nat, NEW update \in {0, n + 1},
           Ascending(s), UpTo(s, n)
    PROVE  /\ Ascending(Append(s, update))
           /\ UpTo(Append(s, update), n + 1)
           /\ update = 0 => UpTo(Append(s, update), n)
<1> DEFINE t == Append(s, update)
<1>1. Len(s) \in Nat /\ DOMAIN s = 1..Len(s) /\ DOMAIN t = 1..(Len(s) + 1)
  BY Appended
<1>2. t[Len(s) + 1] = update /\ \A k \in 1..Len(s) : t[k] = s[k]
  BY Appended
<1>3. \A k \in 1..Len(s) : s[k] \in Nat
  OBVIOUS
<1> HIDE DEF t
<1>4. ASSUME NEW k \in 1..Len(s) PROVE t[k] \in Nat /\ t[k] <= n
  BY <1>1, <1>2, <1>3, <1>4 DEF UpTo
<1>5. ASSUME NEW k \in DOMAIN t PROVE k \in 1..Len(s) \/ k = Len(s) + 1
  BY <1>1, <1>5
<1>6. Ascending(t)
  <2> SUFFICES ASSUME NEW j \in DOMAIN t, NEW k \in DOMAIN t, j < k, t[j] # 0, t[k] # 0
               PROVE  t[j] < t[k]
    BY DEF Ascending
  <2>1. j \in 1..Len(s)
    BY <1>1, <1>5
  <2>2. CASE k = Len(s) + 1
    <3>1. t[j] \in Nat /\ t[j] <= n /\ t[k] = update
      BY <1>2, <1>4, <2>1, <2>2
    <3> QED BY <3>1
  <2>3. CASE k \in 1..Len(s)
    BY <1>1, <1>2, <2>1, <2>3 DEF Ascending
  <2> QED BY <1>5, <2>2, <2>3
<1>7. UpTo(t, n + 1)
  BY <1>2, <1>4, <1>5 DEF UpTo
<1>8. update = 0 => UpTo(t, n)
  BY <1>2, <1>4, <1>5 DEF UpTo
<1> QED BY <1>6, <1>7, <1>8 DEF t

\* The same on the wire, behind what was yielded.
LEMMA UpdateAppended ==
    ASSUME NEW yielded \in Seq(Nat), NEW wire \in Seq(Nat), NEW n \in Nat, NEW update \in {0, n + 1},
           Ascending(yielded \o wire), UpTo(yielded \o wire, n)
    PROVE  /\ Ascending(yielded \o Append(wire, update))
           /\ UpTo(yielded \o Append(wire, update), n + 1)
           /\ update = 0 => UpTo(yielded \o Append(wire, update), n)
<1>1. yielded \o wire \in Seq(Nat) /\ update \in Nat
  OBVIOUS
<1>2. yielded \o Append(wire, update) = Append(yielded \o wire, update)
  BY <1>1
<1> QED BY <1>1, <1>2, AscendingAppended

LEMMA EmitKeeps == ASSUME A2aInv, NEW c \in A2aCalls, NEW final \in BOOLEAN, EmitUpdate(c, final) PROVE A2aInv'
<1> DEFINE call == a2Call[c]
           update == IF final THEN 0 ELSE call.updates + 1
           emitted == call.updates + 1
           late == [call EXCEPT !.updates = emitted]
           wire == Append(call.wire, update)
           events == Append(call.events, "task-update")
           told == [call EXCEPT !.updates = emitted, !.wire = wire, !.events = events]
<1>1. /\ call \in CallType /\ CallFits(call, a2Now) /\ a2Now \in Int /\ call.pc = "streaming" /\ OnlyCall
      /\ a2Cached \in Int
  BY DEF A2aInv, CallFits, EmitUpdate, At
<1>2. /\ call.events \in Seq(A2aEvents) /\ call.got \in Seq(Nat) /\ call.wire \in Seq(Nat)
      /\ call.updates \in Nat
  BY <1>1 DEF CallType
<1>3. Ascending(call.got \o call.wire) /\ UpTo(call.got \o call.wire, call.updates)
  BY <1>1 DEF CallFits, UpdatesFit
<1>4. CASE call.ended
  <2>1. late \in CallType
    <3>1. emitted \in Nat
      BY <1>2
    <3> HIDE DEF emitted, call
    <3> QED BY <1>1, <3>1 DEF CallType
  <2>2. /\ late.pc = call.pc /\ late.result = call.result /\ late.credential = call.credential
        /\ late.handled = call.handled /\ late.ended = call.ended /\ late.updates = call.updates + 1
        /\ late.events = call.events /\ late.wire = call.wire /\ late.got = call.got
        /\ late.exp = call.exp /\ late.started = call.started
    BY <1>1 DEF CallType
  <2>3. Goes(c, late)
    BY <1>4 DEF EmitUpdate
  <2>4. UpTo(call.got \o call.wire, call.updates + 1)
    <3> DEFINE s == call.got \o call.wire
    <3>1. s \in Seq(Nat)
      BY <1>2
    <3>3. UpTo(s, call.updates)
      BY <1>3
    <3> HIDE DEF s, call
    <3>2. \A k \in DOMAIN s : s[k] \in Nat
      BY <3>1
    <3>4. UpTo(s, call.updates + 1)
      BY <1>2, <3>2, <3>3 DEF UpTo
    <3> QED BY <3>4 DEF s
  <2> HIDE DEF late, call
  <2>5. BeforeHandler(late) /\ CredentialFits(late)
    BY <1>1, <2>2 DEF CallFits, BeforeHandler, CredentialFits
  <2>6. EventsFit(late)
    BY <1>1, <2>2 DEF CallFits, EventsFit, EndLast, NoEnd
  <2>7. UpdatesFit(late) /\ TokenFits(late, a2Now)
    BY <1>1, <1>3, <2>2, <2>4 DEF CallFits, UpdatesFit, TokenFits
  <2>8. CallFits(late, a2Now)
    BY <2>1, <2>5, <2>6, <2>7 DEF CallFits
  <2> QED BY <1>1, <2>3, <2>8, OneGoes DEF OnlyCall
<1>5. CASE ~call.ended
  <2>0. update \in {0, call.updates + 1} /\ update \in Nat
    BY <1>2
  <2>1. told \in CallType
    <3>1. emitted \in Nat /\ wire \in Seq(Nat) /\ events \in Seq(A2aEvents)
      BY <1>2, <2>0, Appended DEF A2aEvents
    <3> HIDE DEF emitted, wire, events, call
    <3> QED BY <1>1, <3>1 DEF CallType
  <2>2. /\ told.pc = call.pc /\ told.result = call.result /\ told.credential = call.credential
        /\ told.handled = call.handled /\ told.ended = call.ended /\ told.updates = call.updates + 1
        /\ told.events = Append(call.events, "task-update")
        /\ told.wire = Append(call.wire, update) /\ told.got = call.got
        /\ told.exp = call.exp /\ told.started = call.started
    BY <1>1 DEF CallType
  <2>3. Goes(c, told)
    BY <1>5 DEF EmitUpdate
  <2>4. NoEnd(call)
    BY <1>1, <1>5 DEF CallFits, EventsFit
  <2> HIDE DEF told, update, call
  <2>5. BeforeHandler(told) /\ CredentialFits(told)
    BY <1>1, <2>2 DEF CallFits, BeforeHandler, CredentialFits
  <2>6. EndLast(told) /\ NoEnd(told)
    BY <1>2, <2>2, <2>4, EventAppended DEF A2aEvents
  <2>7. EventsFit(told)
    BY <1>1, <1>5, <2>2, <2>6 DEF EventsFit
  <2>8. UpdatesFit(told)
    BY <1>2, <1>3, <2>0, <2>2, UpdateAppended DEF UpdatesFit
  <2>9. TokenFits(told, a2Now)
    BY <1>1, <2>2 DEF CallFits, TokenFits
  <2>10. CallFits(told, a2Now)
    BY <2>1, <2>5, <2>7, <2>8, <2>9 DEF CallFits
  <2> QED BY <1>1, <2>3, <2>10, OneGoes DEF OnlyCall
<1> QED BY <1>4, <1>5

\* A final update written past emit.
LEMMA FinalWritten ==
    ASSUME NEW call, NEW now \in Int, CallFits(call, now), call.pc = "streaming"
    PROVE  LET told == [call EXCEPT !.wire = Append(@, 0)]
           IN CallFits(told, now) /\ told.pc = "streaming"
<1> DEFINE wire == Append(call.wire, 0)
           told == [call EXCEPT !.wire = wire]
<1>1. call \in CallType /\ call.got \in Seq(Nat) /\ call.wire \in Seq(Nat) /\ call.updates \in Nat
  BY DEF CallFits, CallType
<1>2. wire \in Seq(Nat)
  BY <1>1
<1>3. UpTo(call.got \o wire, call.updates) /\ Ascending(call.got \o wire)
  BY <1>1, UpdateAppended DEF CallFits, UpdatesFit
<1> HIDE DEF wire
<1>4. told \in CallType
  BY <1>1, <1>2 DEF CallType
<1>5. /\ told.pc = call.pc /\ told.result = call.result /\ told.credential = call.credential
      /\ told.handled = call.handled /\ told.ended = call.ended /\ told.updates = call.updates
      /\ told.events = call.events /\ told.wire = wire /\ told.got = call.got
      /\ told.exp = call.exp /\ told.started = call.started
  BY <1>1 DEF CallType
<1> HIDE DEF told
<1>6. BeforeHandler(told) /\ CredentialFits(told)
  BY <1>5 DEF CallFits, BeforeHandler, CredentialFits
<1>7. EventsFit(told)
  BY <1>5 DEF CallFits, EventsFit, EndLast, NoEnd
<1>8. UpdatesFit(told) /\ TokenFits(told, now)
  BY <1>3, <1>5 DEF CallFits, UpdatesFit, TokenFits
<1>9. CallFits(told, now) /\ told.pc = "streaming"
  BY <1>4, <1>5, <1>6, <1>7, <1>8 DEF CallFits
<1> QED BY <1>9 DEF told, wire

LEMMA SubscribeKeeps == ASSUME A2aInv, NEW c \in A2aCalls, NEW ok \in BOOLEAN, SubscribeDone(c, ok) PROVE A2aInv'
<1> DEFINE call == a2Call[c]
           told == IF ok \/ call.ended THEN call ELSE [call EXCEPT !.wire = Append(@, 0)]
           over == endStream(told)
           next == [over EXCEPT !.pc = "answered"]
<1>1. CallFits(call, a2Now) /\ a2Now \in Int /\ call.pc = "streaming" /\ OnlyCall /\ a2Cached \in Int
  BY DEF A2aInv, SubscribeDone, At
<1>2. Goes(c, next)
  BY DEF SubscribeDone
<1> HIDE DEF call
<1>3. CallFits(told, a2Now) /\ told.pc = "streaming"
  BY <1>1, FinalWritten
<1> HIDE DEF told
<1>4. CallFits(over, a2Now) /\ over.pc = "streaming" /\ over.ended
  BY <1>1, <1>3, EndStreamFits
<1> HIDE DEF over
<1>5. over \in CallType /\ over.result \in Results /\ "answered" \in CallPcs
  BY <1>4 DEF CallFits, CallType, CallPcs
<1>6. next = [over EXCEPT !.pc = "answered", !.result = over.result]
  BY <1>5 DEF CallType
<1>7. over.result = "expired" /\ over.credential = "good" => a2Now - over.started > Margin + ClockSkew
  BY <1>4 DEF CallFits, TokenFits
<1>8. CallFits([over EXCEPT !.pc = "answered", !.result = over.result], a2Now)
  <2> HIDE DEF next
  <2> QED BY <1>1, <1>4, <1>5, <1>7, PlaceChanges
<1>9. CallFits(next, a2Now)
  BY <1>6, <1>8
<1> QED BY <1>1, <1>2, <1>9, OneGoes DEF OnlyCall

LEMMA ClosedKeeps == ASSUME A2aInv, NEW c \in A2aCalls, ResponseClosed(c) PROVE A2aInv'
<1>1. CallFits(endStream(a2Call[c]), a2Now)
  BY EndStreamFits DEF A2aInv, ResponseClosed, At
<1> QED BY <1>1, OneGoes DEF A2aInv, ResponseClosed, OnlyCall

\* The client's steps move updates from the wire to what it yielded.
LEMMA ReadFits ==
    ASSUME NEW call, NEW now \in Int, CallFits(call, now),
           NEW yielded \in Seq(Nat), NEW wire \in Seq(Nat), NEW done \in BOOLEAN,
           yielded \o wire = call.got \o call.wire,
           call.wire = <<>> => yielded = call.got /\ wire = <<>>
    PROVE  CallFits([call EXCEPT !.got = yielded, !.wire = wire, !.done = done], now)
<1> DEFINE next == [call EXCEPT !.got = yielded, !.wire = wire, !.done = done]
<1>1. call \in CallType /\ next \in CallType
  BY DEF CallFits, CallType
<1>5. /\ next.pc = call.pc /\ next.result = call.result /\ next.credential = call.credential
      /\ next.handled = call.handled /\ next.ended = call.ended /\ next.updates = call.updates
      /\ next.events = call.events /\ next.wire = wire /\ next.got = yielded
      /\ next.exp = call.exp /\ next.started = call.started
  BY <1>1 DEF CallType
<1> HIDE DEF next
<1>6. BeforeHandler(next) /\ CredentialFits(next)
  BY <1>5 DEF CallFits, BeforeHandler, CredentialFits
<1>7. EventsFit(next)
  BY <1>5 DEF CallFits, EventsFit, EndLast, NoEnd
<1>8. UpdatesFit(next) /\ TokenFits(next, now)
  BY <1>5 DEF CallFits, UpdatesFit, TokenFits
<1>9. CallFits(next, now)
  BY <1>1, <1>6, <1>7, <1>8 DEF CallFits
<1> QED BY <1>9 DEF next

LEMMA Rejoined ==
    ASSUME NEW a \in Seq(Nat), NEW b \in Seq(Nat), NEW d \in Seq(Nat)
    PROVE  a \o b \in Seq(Nat) /\ (a \o b) \o d = a \o (b \o d)
<1>1. (a \o b) \o d = a \o (b \o d)
  <2>1. /\ (a \o b) \o d \in Seq(Nat) /\ a \o (b \o d) \in Seq(Nat)
        /\ Len((a \o b) \o d) = Len(a \o (b \o d))
    OBVIOUS
  <2>2. \A i \in 1..Len((a \o b) \o d) : ((a \o b) \o d)[i] = (a \o (b \o d))[i]
    OBVIOUS
  <2> QED BY <2>1, <2>2, SeqEqual
<1> QED BY <1>1

LEMMA Prefix ==
    ASSUME NEW a \in Seq(Nat), NEW b \in Seq(Nat), NEW k \in DOMAIN a
    PROVE  k \in DOMAIN (a \o b) /\ (a \o b)[k] = a[k]
OBVIOUS

LEMMA SseReadKeeps == ASSUME A2aInv, NEW c \in A2aCalls, NEW n \in Nat, SseRead(c, n) PROVE A2aInv'
<1> DEFINE call == a2Call[c]
           chunk == SubSeq(call.wire, 1, n)
           rest == SubSeq(call.wire, n + 1, Len(call.wire))
           yielded == call.got \o chunk
           done == \E k \in 1..n : chunk[k] = 0
           next == [call EXCEPT !.got = yielded, !.wire = rest, !.done = done]
<1>1. CallFits(call, a2Now) /\ a2Now \in Int /\ OnlyCall /\ a2Cached \in Int /\ n \in 1..Len(call.wire)
  BY DEF A2aInv, SseRead
<1>2. call \in CallType /\ call.got \in Seq(Nat) /\ call.wire \in Seq(Nat)
  BY <1>1 DEF CallFits, CallType
<1>3. Goes(c, next)
  BY DEF SseRead
<1> HIDE DEF call
<1>4. chunk \in Seq(Nat) /\ rest \in Seq(Nat) /\ call.wire = chunk \o rest
  BY <1>1, <1>2
<1> HIDE DEF chunk, rest
<1>5. yielded \in Seq(Nat) /\ yielded \o rest = call.got \o call.wire
  <2>1. /\ call.got \o chunk \in Seq(Nat)
        /\ (call.got \o chunk) \o rest = call.got \o (chunk \o rest)
    BY <1>2, <1>4, Rejoined
  <2> QED BY <1>4, <2>1
<1>6. call.wire # <<>> /\ done \in BOOLEAN
  BY <1>1, <1>2
<1> HIDE DEF yielded, done
<1>7. CallFits(next, a2Now)
  BY <1>1, <1>4, <1>5, <1>6, ReadFits
<1> QED BY <1>1, <1>3, <1>7, OneGoes DEF OnlyCall

LEMMA SseEndKeeps == ASSUME A2aInv, NEW c \in A2aCalls, SseEnd(c) PROVE A2aInv'
<1> DEFINE call == a2Call[c]
           next == [call EXCEPT !.done = TRUE]
<1>1. CallFits(call, a2Now) /\ a2Now \in Int /\ OnlyCall /\ a2Cached \in Int /\ Goes(c, next)
  BY DEF A2aInv, SseEnd
<1>2. call \in CallType /\ call.got \in Seq(Nat) /\ call.wire \in Seq(Nat)
  BY <1>1 DEF CallFits, CallType
<1> HIDE DEF call
<1>3. next = [call EXCEPT !.got = call.got, !.wire = call.wire, !.done = TRUE]
  BY <1>2 DEF CallType
<1>4. CallFits([call EXCEPT !.got = call.got, !.wire = call.wire, !.done = TRUE], a2Now)
  BY <1>1, <1>2, ReadFits
<1> QED BY <1>1, <1>3, <1>4, OneGoes DEF OnlyCall

LEMMA TickKeeps == ASSUME A2aInv, Tick PROVE A2aInv'
<1>1. a2Now \in Int /\ a2Now' = a2Now + 1 /\ a2Cached' = a2Cached /\ a2Call' = a2Call
  BY DEF A2aInv, Tick
<1>2. ASSUME NEW c \in A2aCalls PROVE CallFits(a2Call[c], a2Now + 1)
  <2> DEFINE call == a2Call[c]
  <2>1. CallFits(call, a2Now)
    BY DEF A2aInv
  <2>2. call.started \in Int
    BY <2>1 DEF CallFits, CallType
  <2> HIDE DEF call
  <2>3. TokenFits(call, a2Now + 1)
    BY <1>1, <2>1, <2>2, MarginNat, A2aAssumption DEF CallFits, TokenFits
  <2>4. CallFits(call, a2Now + 1)
    BY <2>1, <2>3 DEF CallFits
  <2> QED BY <2>4 DEF call
<1> QED BY <1>1, <1>2 DEF A2aInv

LEMMA ShutdownKeeps == ASSUME A2aInv, Shutdown PROVE A2aInv'
<1>1. a2Now \in Int /\ a2Now' = a2Now /\ a2Cached' = a2Cached /\ a2Cached \in Int
  BY DEF A2aInv, Shutdown
<1>2. ASSUME NEW c \in A2aCalls PROVE CallFits(a2Call'[c], a2Now)
  <2> DEFINE call == a2Call[c]
             cut == [call EXCEPT !.pc = "running", !.result = "transport error"]
  <2>1. CallFits(call, a2Now) /\ call \in CallType
    BY DEF A2aInv, CallFits
  <2>2. CASE call.pc \in {"verifying", "body"}
    <3>1. a2Call'[c] = Answered(c, "transport error")
      BY <2>2 DEF Shutdown
    <3> QED BY <3>1, AnsweredFits DEF Results
  <2>3. CASE call.pc = "running"
    <3>1. a2Call'[c] = [call EXCEPT !.result = "transport error"]
      BY <2>3 DEF Shutdown, At
    <3>2. cut = [call EXCEPT !.result = "transport error"]
      BY <2>1, <2>3 DEF CallType
    <3>3. NoEnd(call) /\ ~call.ended
      BY <2>1, <2>3 DEF CallFits, EventsFit
    <3>4. "running" \in CallPcs /\ "transport error" \in Results
      BY DEF CallPcs, Results
    <3>5. CallFits(cut, a2Now)
      <4> HIDE DEF call
      <4> QED BY <1>1, <2>1, <3>3, <3>4, PlaceChanges
    <3> QED BY <3>1, <3>2, <3>5
  <2>4. CASE call.pc = "streaming"
    <3>1. a2Call'[c] = endStream(call)
      BY <2>4 DEF Shutdown, At
    <3> QED BY <1>1, <2>1, <2>4, <3>1, EndStreamFits
  <2>5. CASE call.pc \notin {"verifying", "body", "running", "streaming"}
    BY <2>1, <2>5 DEF Shutdown, At
  <2> QED BY <2>2, <2>3, <2>4, <2>5
<1> QED BY <1>1, <1>2 DEF A2aInv, Shutdown

LEMMA ServerKeeps == ASSUME A2aInv, NEW c \in A2aCalls, ServerStep(c) PROVE A2aInv'
<1>1. CASE ParseError(c)
  BY <1>1, RefusedKeeps DEF ParseError, Results
<1> QED BY <1>1, BearerKeeps, SignatureKeeps, DispatchKeeps DEF ServerStep

LEMMA OneCallKeeps ==
    ASSUME A2aInv, NEW c \in A2aCalls, Unreachable(c) \/ NextCall(c) \/ HandlerEnds(c) \/ ClientReads(c)
    PROVE  A2aInv'
<1>1. CASE Unreachable(c)
  BY <1>1, RefusedKeeps DEF Unreachable, Results
<1>2. CASE NextCall(c)
  BY <1>2, NewCallFits, OneGoes DEF NextCall, OnlyCall, A2aInv
<1>3. CASE HandlerEnds(c)
  BY <1>3, OneShotKeeps, SubscribeKeeps DEF HandlerEnds
<1>4. CASE ClientReads(c)
  <2>1. CASE SseEnd(c)
    BY <2>1, SseEndKeeps
  <2>2. CASE \E n \in 1..MaxUpdates + 1 : SseRead(c, n)
    <3>1. PICK n \in 1..MaxUpdates + 1 : SseRead(c, n)
      BY <2>2
    <3>2. n \in Nat
      BY <3>1 DEF SseRead
    <3> QED BY <3>1, <3>2, SseReadKeeps
  <2> QED BY <1>4, <2>1, <2>2 DEF ClientReads
<1> QED BY <1>1, <1>2, <1>3, <1>4

LEMMA A2aNextKeeps == ASSUME A2aInv, [A2aNext]_a2aVars PROVE A2aInv'
<1>1. CASE UNCHANGED a2aVars
  BY <1>1 DEF A2aInv, a2aVars
<1>2. CASE Tick
  BY <1>2, TickKeeps
<1>3. CASE CloseA2aClient
  BY <1>3 DEF A2aInv, CloseA2aClient, NoToken
<1>4. CASE Shutdown
  BY <1>4, ShutdownKeeps
<1>5. ASSUME NEW c \in A2aCalls, NEW method \in Method,
             mintToken(c, method) \/ \E credential \in Credential : Foreign(c, method, credential)
      PROVE  A2aInv'
  BY <1>5, MintKeeps, ForeignKeeps
<1>6. ASSUME NEW c \in A2aCalls,
             \/ Minted(c) \/ Unreachable(c) \/ ServerStep(c) \/ HandlerEnds(c) \/ ClientReads(c)
             \/ \E final \in BOOLEAN : EmitUpdate(c, final)
             \/ ResponseClosed(c) \/ NextCall(c)
      PROVE  A2aInv'
  BY <1>6, MintedKeeps, ServerKeeps, OneCallKeeps, EmitKeeps, ClosedKeeps
<1> QED BY <1>1, <1>2, <1>3, <1>4, <1>5, <1>6 DEF A2aNext

\* A2aInv of the transport, packages/protocol/a2a/src/transport.ts: nothing has come of a
\* call before its handler was started, a handler runs behind a credential that was
\* checked, a stream's task-end is its last event, and what was yielded and is on the wire
\* ascends.
THEOREM A2aInvariant == A2aSpec => []A2aInv
<1>1. A2aInit => A2aInv
  BY NewCallFits DEF A2aInit, A2aInv, NoToken
<1> QED BY <1>1, A2aNextKeeps, PTL DEF A2aSpec

LEMMA FitsIsSound == ASSUME A2aInv, NEW c \in A2aCalls PROVE CallSound(c)
<1> DEFINE call == a2Call[c]
           ends == {k \in DOMAIN call.events : call.events[k] = "task-end"}
           last == Len(call.events)
<1>1. CallFits(call, a2Now) /\ call \in CallType
  BY DEF A2aInv, CallFits
<1>2. call.events \in Seq(A2aEvents) /\ call.got \in Seq(Nat) /\ call.wire \in Seq(Nat)
  BY <1>1 DEF CallType
<1>3. last \in Nat /\ DOMAIN call.events = 1..last
  BY <1>2
<1>4. ends \subseteq {last}
  BY <1>1 DEF CallFits, EventsFit, EndLast
<1>5. ends = {} \/ ends = {last}
  BY <1>4
<1>6. Count(call.events, "task-end") = Cardinality(ends)
  BY DEF Count
<1>7. Cardinality({}) = 0 /\ Cardinality({last}) = 1
  BY FS_EmptySet, FS_Singleton
<1>8. \/ Count(call.events, "task-end") = 0 /\ ends = {}
      \/ Count(call.events, "task-end") = 1 /\ ends = {last}
  BY <1>5, <1>6, <1>7, Zenon
<1>9. Count(call.events, "task-end") = 1 => call.events[last] = "task-end"
  <2>1. ends = {last} => call.events[last] = "task-end"
    <3>1. ends = {last} => last \in ends
      OBVIOUS
    <3> QED BY <3>1
  <2> HIDE DEF ends, last, call
  <2> QED BY <1>8, <2>1
<1>10. call.ended => Count(call.events, "task-end") = 1
  <2>1. call.ended => last \in ends
    BY <1>1, <1>3 DEF CallFits, EventsFit
  <2> QED BY <1>5, <1>6, <1>7, <2>1
<1>11. call.handled => call.credential = "good"
  BY <1>1 DEF CallFits, CredentialFits
<1>12. \A j, k \in DOMAIN call.got : j < k /\ call.got[j] # 0 /\ call.got[k] # 0 => call.got[j] < call.got[k]
  <2>1. Ascending(call.got \o call.wire)
    BY <1>1 DEF CallFits, UpdatesFit
  <2>2. \A k \in DOMAIN call.got : k \in DOMAIN (call.got \o call.wire) /\ (call.got \o call.wire)[k] = call.got[k]
    BY <1>2, Prefix
  <2> HIDE DEF call
  <2> QED BY <2>1, <2>2 DEF Ascending
<1>13. call.result = "expired" /\ call.credential = "good" => a2Now - call.started > Margin + ClockSkew
  BY <1>1 DEF CallFits, TokenFits
<1> HIDE DEF ends
<1> QED BY <1>8, <1>9, <1>10, <1>11, <1>12, <1>13 DEF CallSound

\* What the listeners of an A2A server and its client see of a call, for any number of
\* calls and any lives of tokens: endStream, the peer's close, the handler's end and the
\* shutdown race for one task-end, updates are yielded in order, and a handler runs only
\* for a credential that verifyBearer accepted.
THEOREM CallsSound == A2aSpec => [](\A c \in A2aCalls : CallSound(c))
<1>1. A2aInv => \A c \in A2aCalls : CallSound(c)
  BY FitsIsSound
<1> QED BY <1>1, A2aInvariant, PTL

-----------------------------------------------------------------------------
(* The decisions of the adapters. *)

\* The inputs that are asked about are questions.
InputsAsked ==
    /\ askedCli # <<>> => askedCli \in CliQuestion
    /\ askedVersion # <<>> => askedVersion \in VersionQuestion
    /\ askedEnv # <<>> => askedEnv \in EnvQuestion

\* The least of a set of places.
LEMMA LeastPlace ==
    ASSUME NEW I \in SUBSET Nat, I # {}
    PROVE  Min(I) \in I /\ \A i \in I : Min(I) <= i
<1>1. PICK n \in I : \A m \in I : ~(<<m, n>> \in OpToRel(<, Nat))
  BY WFMin, NatLessThanWellFounded
<1>2. ASSUME NEW m \in I PROVE n <= m
  <2>1. ~(m < n) /\ m \in Nat /\ n \in Nat
    BY <1>1 DEF OpToRel
  <2> QED BY <2>1
<1> QED BY <1>2 DEF Min

LEMMA CliAnswer ==
    ASSUME NEW q \in CliQuestion, q.binaries
    PROVE  /\ resolveVendorCli(q) =
                CASE q.explicit # "unset" -> Configured(q, q.explicit, "explicit")
                  [] q.explicit = "unset" /\ q.env # "unset" -> Configured(q, q.env, "env")
                  [] OTHER -> IF q.config # "unset" THEN Configured(q, q.config, "config")
                              ELSE IF q.candidates[1] = "there" THEN verifyVersion(q, "candidate")
                              ELSE IF q.candidates[2] = "there" THEN verifyVersion(q, "pathLookup")
                              ELSE LastChance(q)
<1>1. /\ q.candidates \in [1..2 -> {"missing", "there"}]
      /\ q.explicit \in Given /\ q.env \in Given /\ q.config \in Given
  BY DEF CliQuestion
<1>2. FirstCandidate(q) = IF q.candidates[1] = "there" THEN 1 ELSE IF q.candidates[2] = "there" THEN 2 ELSE 0
  <2> DEFINE I == {i \in 1..Len(q.candidates) : q.candidates[i] = "there"}
  <2>1. FirstCandidate(q) = IF I # {} THEN Min(I) ELSE 0
    BY DEF FirstCandidate, SelectInSeq
  <2>2. Len(q.candidates) = 2
    BY <1>1
  <2>3. I \in SUBSET Nat /\ I \subseteq {1, 2} /\ (1 \in I <=> q.candidates[1] = "there")
        /\ (2 \in I <=> q.candidates[2] = "there")
    BY <2>2
  <2> HIDE DEF I
  <2>4. I # {} => Min(I) \in I /\ \A i \in I : Min(I) <= i
    BY <2>3, LeastPlace
  <2>5. CASE 1 \in I
    <3>1. Min(I) <= 1 /\ Min(I) \in {1, 2}
      BY <2>3, <2>4, <2>5
    <3>2. Min(I) = 1
      BY <3>1
    <3> QED BY <2>1, <2>3, <2>5, <3>2
  <2>6. CASE 1 \notin I /\ 2 \in I
    BY <2>1, <2>3, <2>4, <2>6
  <2>7. CASE I = {}
    BY <2>1, <2>3, <2>7
  <2> QED BY <2>3, <2>5, <2>6, <2>7
<1> QED BY <1>1, <1>2 DEF resolveVendorCli

\* The first source that says anything, and what it says.
LEMMA CliSources ==
    ASSUME NEW q \in CliQuestion
    PROVE  LET first == SelectInSeq(Sources(q), LAMBDA s : s # "unset")
               found == first # 0 /\ Sources(q)[first] = "there"
           IN /\ found <=> (CASE q.explicit # "unset" -> q.explicit = "there"
                         [] q.explicit = "unset" /\ q.env # "unset" -> q.env = "there"
                         [] OTHER -> IF q.config # "unset" THEN q.config = "there"
                                     ELSE \/ q.candidates[1] = "there" \/ q.candidates[2] = "there"
                                          \/ q.lastChance = "there")
              /\ first = 6 <=> /\ q.explicit = "unset" /\ q.env = "unset" /\ q.config = "unset"
                              /\ q.candidates[1] # "there" /\ q.candidates[2] # "there"
                              /\ q.lastChance = "there"
<1> DEFINE S == Sources(q)
           I == {i \in 1..Len(S) : S[i] # "unset"}
           first == SelectInSeq(S, LAMBDA s : s # "unset")
<1>1. first = IF I # {} THEN Min(I) ELSE 0
  BY DEF SelectInSeq
<1>2. /\ Len(S) = 6 /\ S[1] = q.explicit /\ S[2] = q.env /\ S[3] = q.config
      /\ S[4] = (IF q.candidates[1] = "there" THEN "there" ELSE "unset")
      /\ S[5] = (IF q.candidates[2] = "there" THEN "there" ELSE "unset")
      /\ S[6] = (IF q.lastChance = "there" THEN "there" ELSE "unset")
  BY DEF Sources
<1> HIDE DEF S
<1>3. I \in SUBSET Nat /\ \A i \in 1..6 : i \in I <=> S[i] # "unset"
  BY <1>2
<1>6. I \subseteq 1..6
  BY <1>2
<1> HIDE DEF I
<1>4. I # {} => Min(I) \in I /\ \A i \in I : Min(I) <= i
  BY <1>3, LeastPlace
<1>5. /\ 1 \in I => first = 1
      /\ 1 \notin I /\ 2 \in I => first = 2
      /\ 1 \notin I /\ 2 \notin I /\ 3 \in I => first = 3
      /\ 1 \notin I /\ 2 \notin I /\ 3 \notin I /\ 4 \in I => first = 4
      /\ 1 \notin I /\ 2 \notin I /\ 3 \notin I /\ 4 \notin I /\ 5 \in I => first = 5
      /\ 1 \notin I /\ 2 \notin I /\ 3 \notin I /\ 4 \notin I /\ 5 \notin I /\ 6 \in I => first = 6
      /\ 1 \notin I /\ 2 \notin I /\ 3 \notin I /\ 4 \notin I /\ 5 \notin I /\ 6 \notin I => first = 0
  BY <1>1, <1>4, <1>6
<1> HIDE DEF first
<1> DEFINE found == first # 0 /\ S[first] = "there"
           answer == CASE q.explicit # "unset" -> q.explicit = "there"
                       [] q.explicit = "unset" /\ q.env # "unset" -> q.env = "there"
                       [] OTHER -> IF q.config # "unset" THEN q.config = "there"
                                   ELSE \/ q.candidates[1] = "there" \/ q.candidates[2] = "there"
                                        \/ q.lastChance = "there"
<1>7. /\ q.explicit # "unset" => (answer <=> q.explicit = "there")
      /\ q.explicit = "unset" /\ q.env # "unset" => (answer <=> q.env = "there")
      /\ q.explicit = "unset" /\ q.env = "unset" /\ q.config # "unset" => (answer <=> q.config = "there")
      /\ q.explicit = "unset" /\ q.env = "unset" /\ q.config = "unset" =>
           (answer <=> q.candidates[1] = "there" \/ q.candidates[2] = "there" \/ q.lastChance = "there")
  OBVIOUS
<1>12. first = 6 <=> /\ q.explicit = "unset" /\ q.env = "unset" /\ q.config = "unset"
                     /\ q.candidates[1] # "there" /\ q.candidates[2] # "there"
                     /\ q.lastChance = "there"
  <2>1. /\ 1 \in I <=> q.explicit # "unset"
        /\ 2 \in I <=> q.env # "unset"
        /\ 3 \in I <=> q.config # "unset"
        /\ 4 \in I <=> q.candidates[1] = "there"
        /\ 5 \in I <=> q.candidates[2] = "there"
        /\ 6 \in I <=> q.lastChance = "there"
    BY <1>2, <1>3
  <2> QED BY <1>5, <2>1
<1> SUFFICES found <=> answer
  BY <1>12 DEF first, S
<1> HIDE DEF answer
<1> DEFINE said == S[first]
<1>8. /\ q.explicit # "unset" => first = 1
      /\ q.explicit = "unset" /\ q.env # "unset" => first = 2
      /\ q.explicit = "unset" /\ q.env = "unset" /\ q.config # "unset" => first = 3
  BY <1>2, <1>3, <1>5
<1>9. CASE q.explicit # "unset" \/ q.env # "unset" \/ q.config # "unset"
  <2>1. first # 0
    BY <1>8, <1>9
  <2>2. /\ q.explicit # "unset" => said = q.explicit
        /\ q.explicit = "unset" /\ q.env # "unset" => said = q.env
        /\ q.explicit = "unset" /\ q.env = "unset" /\ q.config # "unset" => said = q.config
    BY <1>2, <1>8
  <2>3. found <=> said = "there"
    BY <2>1
  <2> HIDE DEF said, found
  <2> QED BY <1>7, <1>9, <2>2, <2>3
<1>10. CASE q.explicit = "unset" /\ q.env = "unset" /\ q.config = "unset"
  <2>1. 1 \notin I /\ 2 \notin I /\ 3 \notin I
    BY <1>2, <1>3, <1>10
  <2>2. /\ 4 \in I <=> q.candidates[1] = "there"
        /\ 5 \in I <=> q.candidates[2] = "there"
        /\ 6 \in I <=> q.lastChance = "there"
    BY <1>2, <1>3
  <2>3. first \in {0, 4, 5, 6} /\ (first # 0 => first \in I) /\ (first = 0 => 4 \notin I /\ 5 \notin I /\ 6 \notin I)
    BY <1>1, <1>4, <1>5, <1>6, <2>1
  <2>4. first # 0 => said = "there"
    <3>1. first = 4 => said = S[4]
      OBVIOUS
    <3>2. first = 5 => said = S[5]
      OBVIOUS
    <3>3. first = 6 => said = S[6]
      OBVIOUS
    <3>4. /\ 4 \in I => S[4] = "there"
          /\ 5 \in I => S[5] = "there"
          /\ 6 \in I => S[6] = "there"
      BY <1>2, <2>2
    <3> HIDE DEF said
    <3> QED BY <2>3, <3>1, <3>2, <3>3, <3>4
  <2>5. found <=> first # 0 /\ said = "there"
    OBVIOUS
  <2> HIDE DEF said, found
  <2> QED BY <1>7, <1>10, <2>2, <2>3, <2>4, <2>5
<1> QED BY <1>9, <1>10

LEMMA CliFits ==
    ASSUME NEW q \in CliQuestion, q.binaries, askedCli = q
    PROVE  CliOfFirstSource
<1> DEFINE first == SelectInSeq(Sources(q), LAMBDA s : s # "unset")
           found == first # 0 /\ Sources(q)[first] = "there"
           answer == resolveVendorCli(q)
           refused == found /\ q.version = "refused"
           fits == /\ (answer = NoPath) = (~found \/ (refused /\ first = 6))
                   /\ (answer = BadVersion) = (refused /\ first # 6)
                   /\ q.explicit # "unset" \/ q.env # "unset" =>
                        \A driver \in {resolveGeminiBinaryPath(q), resolveCursorBinaryPath(q),
                                       resolvePiBinaryPath(q), resolveAmpBinaryPath(q)} :
                            (driver = "SpawnError") = ~found
                   /\ resolveCodexAuth(q) = "cli" /\ found => answer \in {"explicit", BadVersion}
<1>1. found <=> (CASE q.explicit # "unset" -> q.explicit = "there"
                   [] q.explicit = "unset" /\ q.env # "unset" -> q.env = "there"
                   [] OTHER -> IF q.config # "unset" THEN q.config = "there"
                               ELSE \/ q.candidates[1] = "there" \/ q.candidates[2] = "there"
                                    \/ q.lastChance = "there")
  BY CliSources
<1>10. first = 6 <=> /\ q.explicit = "unset" /\ q.env = "unset" /\ q.config = "unset"
                     /\ q.candidates[1] # "there" /\ q.candidates[2] # "there"
                     /\ q.lastChance = "there"
  BY CliSources
<1>2. answer = CASE q.explicit # "unset" -> Configured(q, q.explicit, "explicit")
                 [] q.explicit = "unset" /\ q.env # "unset" -> Configured(q, q.env, "env")
                 [] OTHER -> IF q.config # "unset" THEN Configured(q, q.config, "config")
                             ELSE IF q.candidates[1] = "there" THEN verifyVersion(q, "candidate")
                             ELSE IF q.candidates[2] = "there" THEN verifyVersion(q, "pathLookup")
                             ELSE LastChance(q)
  BY CliAnswer
<1>0. found \in BOOLEAN
  OBVIOUS
<1>3. fits => CliOfFirstSource
  BY DEF CliOfFirstSource
<1>4. \A given, source : Configured(q, given, source) = IF given = "there" THEN verifyVersion(q, source) ELSE NoPath
  BY DEF Configured
<1>5. \A source : verifyVersion(q, source) = IF q.version = "refused" THEN BadVersion ELSE source
  BY DEF verifyVersion
<1>6. LastChance(q) = IF q.lastChance = "there" /\ q.version # "refused" THEN "lastChance" ELSE NoPath
  BY DEF LastChance, verifyVersion, BadVersion
<1> HIDE DEF found, answer, first
<1>7. CASE q.explicit # "unset"
  <2>1. (found <=> q.explicit = "there") /\ answer = Configured(q, q.explicit, "explicit")
    BY <1>1, <1>2, <1>7
  <2>2. (answer = NoPath <=> ~found) /\ (answer = BadVersion <=> found /\ q.version = "refused") /\ first # 6
    BY <1>4, <1>5, <1>7, <1>10, <2>1 DEF NoPath, BadVersion
  <2>3. found => answer \in {"explicit", BadVersion}
    BY <1>4, <1>5, <2>1
  <2>4. \A driver \in {resolveGeminiBinaryPath(q), resolveCursorBinaryPath(q),
                       resolvePiBinaryPath(q), resolveAmpBinaryPath(q)} : driver = "SpawnError" <=> ~found
    BY <1>7, <2>1 DEF resolveGeminiBinaryPath, resolveCursorBinaryPath, resolvePiBinaryPath, resolveAmpBinaryPath, DriverResolve
  <2> QED BY <1>0, <1>3, <2>2, <2>3, <2>4
<1>8. CASE q.explicit = "unset" /\ q.env # "unset"
  <2>1. (found <=> q.env = "there") /\ answer = Configured(q, q.env, "env")
    BY <1>1, <1>2, <1>8
  <2>2. (answer = NoPath <=> ~found) /\ (answer = BadVersion <=> found /\ q.version = "refused") /\ first # 6
    BY <1>4, <1>5, <1>8, <1>10, <2>1 DEF NoPath, BadVersion
  <2>3. resolveCodexAuth(q) # "cli"
    BY <1>8 DEF resolveCodexAuth
  <2>4. \A driver \in {resolveGeminiBinaryPath(q), resolveCursorBinaryPath(q),
                       resolvePiBinaryPath(q), resolveAmpBinaryPath(q)} : driver = "SpawnError" <=> ~found
    BY <1>8, <2>1 DEF resolveGeminiBinaryPath, resolveCursorBinaryPath, resolvePiBinaryPath, resolveAmpBinaryPath, DriverResolve
  <2> QED BY <1>0, <1>3, <2>2, <2>3, <2>4
<1>9. CASE q.explicit = "unset" /\ q.env = "unset"
  <2>1. /\ found <=> IF q.config # "unset" THEN q.config = "there"
                     ELSE q.candidates[1] = "there" \/ q.candidates[2] = "there" \/ q.lastChance = "there"
        /\ answer = IF q.config # "unset" THEN Configured(q, q.config, "config")
                    ELSE IF q.candidates[1] = "there" THEN verifyVersion(q, "candidate")
                    ELSE IF q.candidates[2] = "there" THEN verifyVersion(q, "pathLookup")
                    ELSE LastChance(q)
    BY <1>1, <1>2, <1>9
  <2>2. /\ answer = NoPath <=> ~found \/ (q.version = "refused" /\ first = 6)
        /\ answer = BadVersion <=> found /\ q.version = "refused" /\ first # 6
    BY <1>4, <1>5, <1>6, <1>9, <1>10, <2>1 DEF NoPath, BadVersion
  <2>3. resolveCodexAuth(q) # "cli"
    BY <1>9 DEF resolveCodexAuth
  <2> QED BY <1>0, <1>3, <1>9, <2>2, <2>3
<1> QED BY <1>7, <1>8, <1>9

-----------------------------------------------------------------------------

LEMMA CompareByFirst ==
    ASSUME NEW v \in [1..3 -> Nat], NEW w \in [1..3 -> Nat]
    PROVE  /\ v # NoVersion
           /\ compareSemver(v, w) = IF v[1] # w[1] THEN v[1] - w[1]
                                    ELSE IF v[2] # w[2] THEN v[2] - w[2] ELSE v[3] - w[3]
<1> DEFINE D == [i \in 1..3 |-> v[i] # w[i]]
           I == {i \in 1..Len(D) : D[i]}
           first == FirstDifference(v, w)
<1>1. first = IF I # {} THEN Min(I) ELSE 0
  BY DEF FirstDifference, SelectInSeq
<1>2. Len(D) = 3 /\ \A i \in 1..3 : D[i] = (v[i] # w[i])
  OBVIOUS
<1> HIDE DEF D
<1>3. \A i \in 1..3 : i \in I <=> v[i] # w[i]
  BY <1>2
<1>11. I \subseteq 1..3
  BY <1>2
<1> HIDE DEF I, first
<1>4. I # {} => Min(I) \in I /\ \A i \in I : Min(I) <= i
  BY <1>11, LeastPlace
<1>5. v # NoVersion /\ w # NoVersion
  BY DEF NoVersion
<1>6. compareSemver(v, w) = IF first = 0 THEN 0 ELSE v[first] - w[first]
  BY <1>5 DEF compareSemver, first
<1>0. /\ 1 \in I => first = 1
      /\ 1 \notin I /\ 2 \in I => first = 2
      /\ 1 \notin I /\ 2 \notin I /\ 3 \in I => first = 3
      /\ 1 \notin I /\ 2 \notin I /\ 3 \notin I => first = 0
  <2>1. \A i \in I : i = 1 \/ i = 2 \/ i = 3
    BY <1>11
  <2>2. I # {} => first \in I /\ \A i \in I : first <= i
    BY <1>1, <1>4
  <2>3. I = {} => first = 0
    BY <1>1
  <2> QED BY <2>1, <2>2, <2>3
<1>7. CASE v[1] # w[1]
  <2>1. first = 1
    BY <1>0, <1>3, <1>7
  <2> QED BY <1>5, <1>6, <1>7, <2>1
<1>8. CASE v[1] = w[1] /\ v[2] # w[2]
  <2>1. first = 2
    BY <1>0, <1>3, <1>8
  <2> QED BY <1>5, <1>6, <1>8, <2>1
<1>9. CASE v[1] = w[1] /\ v[2] = w[2] /\ v[3] # w[3]
  <2>1. first = 3
    BY <1>0, <1>3, <1>9
  <2> QED BY <1>5, <1>6, <1>9, <2>1
<1>10. CASE v[1] = w[1] /\ v[2] = w[2] /\ v[3] = w[3]
  <2>1. first = 0
    BY <1>0, <1>3, <1>10
  <2> QED BY <1>5, <1>6, <1>10, <2>1
<1> QED BY <1>7, <1>8, <1>9, <1>10

LEMMA RangesFit ==
    ASSUME NEW q \in VersionQuestion, askedVersion = q
    PROVE  RangesMeanSemver
<1> SUFFICES ASSUME q.version # NoVersion, q.base # NoVersion PROVE RangesMeanSemver
  BY DEF RangesMeanSemver
<1> DEFINE v == q.version
           b == q.base
           least == v = b \/ \E i \in 1..3 : v[i] > b[i] /\ \A j \in 1..(i - 1) : v[j] = b[j]
           both == <<[operator |-> ">=", base |-> b], [operator |-> "<=", base |-> b]>>
           fits == /\ matchesSingleRange(v, "^", b) = (least /\ Same(v, b, Leading(b)))
                   /\ matchesSingleRange(v, "~", b) = (least /\ Same(v, b, 2))
                   /\ matchesSingleRange(v, ">=", b) = least
                   /\ matchesVersionConstraint(v, both) = (v = b)
<1>1. v \in [1..3 -> Nat] /\ b \in [1..3 -> Nat]
  BY GatesBounds DEF VersionQuestion, Version
<1>2. fits => RangesMeanSemver
  BY DEF RangesMeanSemver
<1>3. PICK v1, v2, v3 \in Nat : v1 = v[1] /\ v2 = v[2] /\ v3 = v[3]
  BY <1>1
<1>4. PICK b1, b2, b3 \in Nat : b1 = b[1] /\ b2 = b[2] /\ b3 = b[3]
  BY <1>1
<1> HIDE DEF v, b
<1>5. v = b <=> v1 = b1 /\ v2 = b2 /\ v3 = b3
  <2>1. v = [i \in 1..3 |-> v[i]] /\ b = [i \in 1..3 |-> b[i]]
    BY <1>1
  <2>2. ASSUME v1 = b1 /\ v2 = b2 /\ v3 = b3, NEW i \in 1..3 PROVE v[i] = b[i]
    <3>1. i = 1 \/ i = 2 \/ i = 3
      OBVIOUS
    <3> QED BY <1>3, <1>4, <2>2, <3>1
  <2> QED BY <1>3, <1>4, <2>1, <2>2
<1>6. least <=> v1 > b1 \/ (v1 = b1 /\ (v2 > b2 \/ (v2 = b2 /\ v3 >= b3)))
  <2> DEFINE After(i) == v[i] > b[i] /\ \A j \in 1..(i - 1) : v[j] = b[j]
  <2>1. After(1) <=> v1 > b1
    BY <1>3, <1>4
  <2>2. After(2) <=> v2 > b2 /\ v1 = b1
    BY <1>3, <1>4
  <2>3. After(3) <=> v3 > b3 /\ v2 = b2 /\ v1 = b1
    BY <1>3, <1>4
  <2>4. (\E i \in 1..3 : After(i)) <=> After(1) \/ After(2) \/ After(3)
    <3> HIDE DEF After
    <3>1. 1..3 = {1, 2, 3}
      OBVIOUS
    <3> QED BY <3>1
  <2>5. least <=> v = b \/ \E i \in 1..3 : After(i)
    OBVIOUS
  <2> HIDE DEF After, least
  <2> QED BY <1>5, <2>1, <2>2, <2>3, <2>4, <2>5
<1> HIDE DEF least
<1>7. /\ v # NoVersion /\ b # NoVersion
      /\ compareSemver(v, b) = IF v1 # b1 THEN v1 - b1 ELSE IF v2 # b2 THEN v2 - b2 ELSE v3 - b3
  BY <1>1, <1>3, <1>4, CompareByFirst
<1>8. ASSUME NEW c1 \in Nat, NEW c2 \in Nat
      PROVE  compareSemver(v, <<c1, c2, 0>>) = IF v1 # c1 THEN v1 - c1 ELSE IF v2 # c2 THEN v2 - c2 ELSE v3 - 0
  <2>1. PICK w : w = <<c1, c2, 0>>
    OBVIOUS
  <2>2. w \in [1..3 -> Nat] /\ w[1] = c1 /\ w[2] = c2 /\ w[3] = 0
    BY <2>1
  <2>3. compareSemver(v, w) = IF v[1] # w[1] THEN v[1] - w[1] ELSE IF v[2] # w[2] THEN v[2] - w[2] ELSE v[3] - w[3]
    BY <1>1, <2>2, CompareByFirst
  <2> QED BY <1>3, <2>1, <2>2, <2>3
<1>9. \A k \in {1, 2, 3} : Same(v, b, k) <=> v1 = b1 /\ (k >= 2 => v2 = b2) /\ (k = 3 => v3 = b3)
  BY <1>3, <1>4 DEF Same
<1>10. matchesSingleRange(v, ">=", b) <=> least
  BY <1>6, <1>7 DEF matchesSingleRange
<1>11. matchesSingleRange(v, "<=", b) <=> v1 < b1 \/ (v1 = b1 /\ (v2 < b2 \/ (v2 = b2 /\ v3 <= b3)))
  BY <1>7 DEF matchesSingleRange
<1>12. matchesSingleRange(v, "~", b) <=> least /\ Same(v, b, 2)
  <2>1. compareSemver(v, <<b1, b2 + 1, 0>>) = IF v1 # b1 THEN v1 - b1 ELSE IF v2 # b2 + 1 THEN v2 - (b2 + 1) ELSE v3 - 0
    BY <1>8
  <2>2. matchesSingleRange(v, "~", b) <=> compareSemver(v, b) >= 0 /\ compareSemver(v, <<b1, b2 + 1, 0>>) < 0
    BY <1>4, <1>7 DEF matchesSingleRange, Tilde, Between
  <2>3. Same(v, b, 2) <=> v1 = b1 /\ v2 = b2
    BY <1>9
  <2> QED BY <1>6, <1>7, <2>1, <2>2, <2>3
<1>13. matchesSingleRange(v, "^", b) <=> least /\ Same(v, b, Leading(b))
  <2>1. matchesSingleRange(v, "^", b) <=> Caret(v, b)
    BY <1>7 DEF matchesSingleRange
  <2>2. CASE b1 # 0
    <3>1. Leading(b) = 1 /\ (Same(v, b, 1) <=> v1 = b1)
      BY <1>4, <1>9, <2>2 DEF Leading
    <3>2. Caret(v, b) <=> compareSemver(v, b) >= 0 /\ compareSemver(v, <<b1 + 1, 0, 0>>) < 0
      BY <1>4, <2>2 DEF Caret, Between
    <3>3. compareSemver(v, <<b1 + 1, 0, 0>>) = IF v1 # b1 + 1 THEN v1 - (b1 + 1) ELSE IF v2 # 0 THEN v2 - 0 ELSE v3 - 0
      BY <1>8
    <3> QED BY <1>6, <1>7, <2>1, <3>1, <3>2, <3>3
  <2>3. CASE b1 = 0 /\ b2 # 0
    <3>1. Leading(b) = 2 /\ (Same(v, b, 2) <=> v1 = b1 /\ v2 = b2)
      BY <1>4, <1>9, <2>3 DEF Leading
    <3>2. Caret(v, b) <=> compareSemver(v, b) >= 0 /\ compareSemver(v, <<0, b2 + 1, 0>>) < 0
      BY <1>4, <2>3 DEF Caret, Between
    <3>3. compareSemver(v, <<0, b2 + 1, 0>>) = IF v1 # 0 THEN v1 - 0 ELSE IF v2 # b2 + 1 THEN v2 - (b2 + 1) ELSE v3 - 0
      BY <1>8
    <3> QED BY <1>6, <1>7, <2>1, <2>3, <3>1, <3>2, <3>3
  <2>4. CASE b1 = 0 /\ b2 = 0
    <3>1. Leading(b) = 3 /\ (Same(v, b, 3) <=> v1 = b1 /\ v2 = b2 /\ v3 = b3)
      BY <1>4, <1>9, <2>4 DEF Leading
    <3>2. Caret(v, b) <=> compareSemver(v, b) = 0
      BY <1>4, <2>4 DEF Caret
    <3> QED BY <1>6, <1>7, <2>1, <3>1, <3>2
  <2> QED BY <2>2, <2>3, <2>4
<1>14. matchesVersionConstraint(v, both) <=> v = b
  <2>1. matchesVersionConstraint(v, both) <=> matchesSingleRange(v, ">=", b) /\ matchesSingleRange(v, "<=", b)
    BY <1>7 DEF matchesVersionConstraint
  <2> QED BY <1>5, <1>6, <1>10, <1>11, <2>1
<1>15. fits
  <2>1. least \in BOOLEAN
    BY DEF least
  <2>2. \A operator \in {"^", "~", ">="} : matchesSingleRange(v, operator, b) \in BOOLEAN
    BY DEF matchesSingleRange
  <2>3. matchesVersionConstraint(v, both) \in BOOLEAN
    BY DEF matchesVersionConstraint
  <2> QED BY <1>10, <1>12, <1>13, <1>14, <2>1, <2>2, <2>3
<1> QED BY <1>2, <1>15

LEMMA EnvFits ==
    ASSUME NEW q \in EnvQuestion, askedEnv = q
    PROVE  EnvFromCaller
<1> DEFINE result == EnvOf(q)
           keys == Passed[q.agent]
<1>1. q.agent \in {"gemini", "cursor", "pi", "amp", "claude", "codex"} /\ q.spawn \in {"unset", "empty", "set"}
  BY DEF EnvQuestion, Passed
<1>2. q.agent \notin {"pi", "codex"} => keys \cap ProviderKeys = {}
  BY <1>1 DEF Passed, GeminiKeys, CursorKeys, AmpKeys, ClaudeKeys, ProviderKeys
<1>3. /\ mergeCallerEnv(q) \in {"spawn", "vendor", "unset"}
      /\ q.spawn = "set" => mergeCallerEnv(q) = "spawn"
      /\ q.spawn = "empty" => mergeCallerEnv(q) = "unset"
  BY <1>1 DEF mergeCallerEnv
<1>4. Ambient(q, keys) \in {"ambient", "unset"} /\ (Ambient(q, keys) = "ambient" => q.key \in keys)
  BY DEF Ambient
<1> HIDE DEF keys
<1>5. /\ defaultEnv(q) \in {"spawn", "vendor", "unset", "ambient"}
      /\ q.spawn = "set" => defaultEnv(q) = "spawn"
      /\ q.spawn = "empty" => defaultEnv(q) \in {"unset", "ambient"}
      /\ defaultEnv(q) = "ambient" => q.key \in keys
  BY <1>3, <1>4 DEF defaultEnv, keys
<1>6. /\ OverlaidEnv(q) \in {"spawn", "unset", "ambient"}
      /\ q.spawn = "set" => OverlaidEnv(q) = "spawn"
      /\ q.spawn = "empty" => OverlaidEnv(q) = "unset"
      /\ OverlaidEnv(q) = "ambient" => q.key \in keys
  BY <1>1, <1>4 DEF OverlaidEnv, keys
<1>7. ampEnv(q) = "option" \/ ampEnv(q) = defaultEnv(q)
  BY DEF ampEnv
<1>8. result = IF q.agent \in {"claude", "codex"} THEN OverlaidEnv(q) ELSE IF q.agent = "amp" THEN ampEnv(q) ELSE defaultEnv(q)
  BY DEF EnvOf
<1>9. /\ q.spawn = "set" => result \in {"spawn", "option"}
      /\ result = "option" => q.agent = "amp"
      /\ q.spawn = "empty" => result \notin {"vendor", "spawn"}
      /\ q.key \in ProviderKeys /\ result = "ambient" => q.agent \in {"pi", "codex"}
  <2> HIDE DEF result
  <2>1. /\ q.spawn = "set" => result \in {"spawn", "option"}
        /\ result = "option" => q.agent = "amp"
        /\ q.spawn = "empty" => result \notin {"vendor", "spawn"}
        /\ result = "ambient" => q.key \in keys
    BY <1>5, <1>6, <1>7, <1>8
  <2> QED BY <1>2, <2>1
<1>10. \A mode \in {"loose", "strict"} :
         resolveEnv(q, mode) = "ambient" => mode = "loose" /\ q.key \notin ProviderKeys
  BY DEF resolveEnv, Ambient, LOOSE_ENV_ALLOWLIST, ProviderKeys
<1> QED BY <1>9, <1>10 DEF EnvFromCaller

LEMMA InputsAskedSound ==
    ASSUME InputsAsked
    PROVE  InputsSound
<1>1. CliOfFirstSource
  BY CliFits DEF InputsAsked, CliOfFirstSource
<1>2. RangesMeanSemver
  BY RangesFit DEF InputsAsked, RangesMeanSemver
<1>3. EnvFromCaller
  BY EnvFits DEF InputsAsked, EnvFromCaller
<1> QED BY <1>1, <1>2, <1>3 DEF InputsSound

\* resolveVendorCli takes the binary of the first source that says anything, and every
\* driver agrees; version ranges mean what semver says, for numbers of any size; and what
\* the caller sets or empties is what the vendor's process sees of it.
THEOREM InputsCorrect == InputSpec => []InputsSound
<1>1. InputInit => InputsAsked
  BY DEF InputInit, InputsAsked
<1>2. InputsAsked /\ [InputNext]_inputVars => InputsAsked'
  BY DEF InputNext, InputInit, AskCli, AskVersion, AskEnv, InputsAsked, inputVars
<1> QED BY <1>1, <1>2, InputsAskedSound, PTL DEF InputSpec

-----------------------------------------------------------------------------
\* What holds at 0 and is handed on from each place to the next holds at every place.
LEMMA Upward ==
    ASSUME NEW n \in Nat, NEW P \in SUBSET (0..n), 0 \in P, \A k \in 1..n : k - 1 \in P => k \in P
    PROVE  P = 0..n
<1> DEFINE T == {k \in 0..n : k \notin P}
<1> SUFFICES ASSUME T # {} PROVE FALSE
  OBVIOUS
<1>1. T \in SUBSET Nat
  OBVIOUS
<1>2. PICK m \in T : \A i \in T : m <= i
  <2> HIDE DEF T
  <2> QED BY <1>1, LeastPlace
<1>3. m \in 1..n /\ m - 1 \in 0..n /\ m - 1 < m /\ m \notin P
  OBVIOUS
<1>4. m - 1 \notin T
  <2> HIDE DEF T
  <2> QED BY <1>1, <1>2, <1>3
<1> QED BY <1>3, <1>4

FoldsTo(A, base, n, step) ==
    \E f \in [0..n -> A] : f[0] = base /\ \A k \in 1..n : f[k] = step[<<f[k - 1], k>>]

\* A fold whose step keeps to a set has its values there.
LEMMA FoldValues ==
    ASSUME NEW A, NEW base \in A, NEW n \in Nat, NEW step \in [A \X (1..n) -> A]
    PROVE  FoldsTo(A, base, n, step)
<1> DEFINE Valued(m) == \E f \in [0..m -> A] : f[0] = base /\ \A k \in 1..m : f[k] = step[<<f[k - 1], k>>]
           P == {m \in 0..n : Valued(m)}
<1>1. 0 \in P
  <2> DEFINE f == [k \in 0..0 |-> base]
  <2>1. f \in [0..0 -> A] /\ f[0] = base /\ \A k \in 1..0 : f[k] = step[<<f[k - 1], k>>]
    OBVIOUS
  <2> HIDE DEF f
  <2>2. Valued(0)
    BY <2>1
  <2> QED BY <2>2
<1>2. ASSUME NEW m \in 1..n, m - 1 \in P PROVE m \in P
  <2>1. PICK f \in [0..(m - 1) -> A] : f[0] = base /\ \A k \in 1..(m - 1) : f[k] = step[<<f[k - 1], k>>]
    BY <1>2
  <2> DEFINE last == step[<<f[m - 1], m>>]
             g == [k \in 0..m |-> IF k < m THEN f[k] ELSE last]
  <2>2. f[m - 1] \in A /\ last \in A
    <3>1. m - 1 \in 0..(m - 1)
      OBVIOUS
    <3> QED BY <3>1
  <2>3. g \in [0..m -> A]
    <3> HIDE DEF last
    <3> QED BY <2>2
  <2>4. g[0] = base
    BY <2>1
  <2>5. ASSUME NEW k \in 1..m PROVE g[k] = step[<<g[k - 1], k>>]
    <3> HIDE DEF last
    <3>1. g[k - 1] = f[k - 1]
      OBVIOUS
    <3>2. CASE k < m
      <4>1. k \in 1..(m - 1)
        BY <3>2
      <4> QED BY <2>1, <3>1, <3>2, <4>1
    <3>3. CASE k = m
      <4>1. g[k] = last
        BY <3>3
      <4>2. step[<<g[k - 1], k>>] = last
        BY <3>1, <3>3 DEF last
      <4> QED BY <4>1, <4>2
    <3> QED BY <3>2, <3>3
  <2> HIDE DEF g
  <2>6. Valued(m)
    BY <2>3, <2>4, <2>5
  <2> QED BY <2>6
<1> HIDE DEF P
<1>3. P = 0..n
  <2>1. P \in SUBSET (0..n)
    BY DEF P
  <2> QED BY <1>1, <1>2, <2>1, Upward
<1>4. n \in P
  BY <1>3
<1> QED BY <1>4 DEF P, FoldsTo

-----------------------------------------------------------------------------

\* The directories a path passes through as Resolve takes its names.
LEMMA ResolveUnfolded ==
    ASSUME NEW base \in Seq(Names), NEW path \in Seq(Names)
    PROVE  Resolve(base, path) \in Seq(Names)
<1> DEFINE n == Len(path)
           A == Seq(Names)
           step == [x \in A \X (1..n) |-> Step(x[1], path[x[2]])]
           upTo[k \in 0..n] == IF k = 0 THEN base ELSE Step(upTo[k - 1], path[k])
<1>1. n \in Nat /\ \A k \in 1..n : path[k] \in Names
  OBVIOUS
<1>2. \A p \in A, name \in Names : Step(p, name) \in A
  <2> SUFFICES ASSUME NEW p \in A, NEW name \in Names PROVE Step(p, name) \in A
    OBVIOUS
  <2>1. p # <<>> => Front(p) \in A
    BY DEF Front
  <2> QED BY <2>1 DEF Step
<1>3. step \in [A \X (1..n) -> A]
  BY <1>1, <1>2
<1> HIDE DEF A
<1>4. PICK f \in [0..n -> A] : f[0] = base /\ \A k \in 1..n : f[k] = step[<<f[k - 1], k>>]
  <2>1. base \in A
    BY DEF A
  <2>2. n \in Nat
    BY <1>1
  <2> HIDE DEF n, step
  <2>3. FoldsTo(A, base, n, step)
    BY <1>3, <2>1, <2>2, FoldValues
  <2> QED BY <2>3 DEF FoldsTo
<1>5. \A k \in 1..n : f[k] = Step(f[k - 1], path[k])
  <2> SUFFICES ASSUME NEW k \in 1..n PROVE f[k] = Step(f[k - 1], path[k])
    OBVIOUS
  <2>1. f[k - 1] \in A
    BY <1>1
  <2>2. <<f[k - 1], k>> \in A \X (1..n)
    BY <2>1
  <2> QED BY <1>4, <2>2
<1>6. f = [k \in 0..n |-> IF k = 0 THEN base ELSE Step(f[k - 1], path[k])]
  BY <1>1, <1>4, <1>5
<1>7. upTo = [k \in 0..n |-> IF k = 0 THEN base ELSE Step(upTo[k - 1], path[k])]
  BY <1>6
<1>8. Resolve(base, path) = upTo[n]
  BY DEF Resolve, Folded
<1> HIDE DEF upTo
<1>9. upTo[0] = base /\ \A k \in 1..n : upTo[k] = Step(upTo[k - 1], path[k])
  BY <1>1, <1>7
<1> DEFINE P == {k \in 0..n : upTo[k] \in A}
<1>10. 0 \in P /\ \A k \in 1..n : k - 1 \in P => k \in P
  <2>1. base \in A
    BY DEF A
  <2> HIDE DEF n
  <2>2. ASSUME NEW k \in 1..n, k - 1 \in P PROVE k \in P
    <3>1. upTo[k - 1] \in A /\ path[k] \in Names
      BY <1>1, <2>2
    <3>2. upTo[k] \in A
      BY <1>2, <1>9, <3>1
    <3> QED BY <1>1, <3>2
  <2> QED BY <1>1, <1>9, <2>1, <2>2
<1>11. P = 0..n
  <2> HIDE DEF P, n
  <2>1. P \in SUBSET (0..n)
    BY DEF P
  <2> QED BY <1>1, <1>10, <2>1, Upward
<1>12. n \in P
  BY <1>1, <1>11
<1> QED BY <1>8, <1>12 DEF A

-----------------------------------------------------------------------------
Followed(f, path) ==
    /\ f \in [0..Len(path) -> Seq(Names)]
    /\ f[0] = <<>>
    /\ \A k \in 1..Len(path) : f[k] = Follow(f[k - 1], path[k])

\* The real directories a path passes through as realpath follows its links.
LEMMA RealPathFollowed ==
    ASSUME NEW path \in Seq(Names)
    PROVE  \E f : Followed(f, path) /\ RealPath(path) = f[Len(path)]
<1> DEFINE n == Len(path)
           A == Seq(Names)
           step == [x \in A \X (1..n) |-> Follow(x[1], path[x[2]])]
           upTo[k \in 0..n] == IF k = 0 THEN <<>> ELSE Follow(upTo[k - 1], path[k])
<1>1. n \in Nat /\ \A k \in 1..n : path[k] \in Names
  OBVIOUS
<1>2. \A p \in A, name \in Names : Follow(p, name) \in A
  <2> SUFFICES ASSUME NEW p \in A, NEW name \in Names PROVE Follow(p, name) \in A
    OBVIOUS
  <2>1. \A l \in DOMAIN Links : Links[l] \in A
    BY FileSystem
  <2>3. Append(p, name) \in A
    OBVIOUS
  <2>4. Follow(p, name) = IF Append(p, name) \in DOMAIN Links THEN Links[Append(p, name)] ELSE Append(p, name)
    BY DEF Follow
  <2> QED BY <2>1, <2>3, <2>4
<1>3. step \in [A \X (1..n) -> A]
  BY <1>1, <1>2
<1> HIDE DEF A
<1>4. PICK f \in [0..n -> A] : f[0] = <<>> /\ \A k \in 1..n : f[k] = step[<<f[k - 1], k>>]
  <2>1. <<>> \in A /\ n \in Nat
    BY <1>1 DEF A
  <2> HIDE DEF n, step
  <2>2. FoldsTo(A, <<>>, n, step)
    BY <1>3, <2>1, FoldValues
  <2> QED BY <2>2 DEF FoldsTo
<1>5. \A k \in 1..n : f[k] = Follow(f[k - 1], path[k])
  <2> SUFFICES ASSUME NEW k \in 1..n PROVE f[k] = Follow(f[k - 1], path[k])
    OBVIOUS
  <2>1. <<f[k - 1], k>> \in A \X (1..n)
    BY <1>1
  <2> QED BY <1>4, <2>1
<1>6. f = [k \in 0..n |-> IF k = 0 THEN <<>> ELSE Follow(f[k - 1], path[k])]
  BY <1>1, <1>4, <1>5
<1>7. upTo = [k \in 0..n |-> IF k = 0 THEN <<>> ELSE Follow(upTo[k - 1], path[k])]
  BY <1>6
<1>8. RealPath(path) = upTo[n]
  BY DEF RealPath, Folded
<1> HIDE DEF upTo
<1>9. upTo[0] = <<>> /\ \A k \in 1..n : upTo[k] = Follow(upTo[k - 1], path[k])
  BY <1>1, <1>7
<1> DEFINE P == {k \in 0..n : upTo[k] \in A}
<1>10. 0 \in P /\ \A k \in 1..n : k - 1 \in P => k \in P
  <2>1. <<>> \in A
    BY DEF A
  <2> HIDE DEF n
  <2>2. ASSUME NEW k \in 1..n, k - 1 \in P PROVE k \in P
    <3>1. upTo[k - 1] \in A /\ path[k] \in Names
      BY <1>1, <2>2
    <3>2. upTo[k] \in A
      BY <1>2, <1>9, <3>1
    <3> QED BY <1>1, <3>2
  <2> QED BY <1>1, <1>9, <2>1, <2>2
<1>11. P = 0..n
  <2> HIDE DEF P, n
  <2>1. P \in SUBSET (0..n)
    BY DEF P
  <2> QED BY <1>1, <1>10, <2>1, Upward
<1>12. upTo \in [0..n -> A]
  <2>1. \A k \in 0..n : upTo[k] \in A
    BY <1>11
  <2>2. upTo = [k \in 0..n |-> upTo[k]]
    BY <1>7
  <2> HIDE DEF n, P
  <2> QED BY <2>1, <2>2
<1> QED BY <1>8, <1>9, <1>12 DEF Followed, A

LEMMA PrefixFollowed ==
    ASSUME NEW path \in Seq(Names), NEW f, Followed(f, path), NEW c \in 0..Len(path)
    PROVE  RealPath(SubSeq(path, 1, c)) = f[c]
<1> DEFINE s == SubSeq(path, 1, c)
<1>1. s \in Seq(Names) /\ Len(s) = c /\ \A k \in 1..c : s[k] = path[k]
  OBVIOUS
<1> HIDE DEF s
<1>2. PICK g : Followed(g, s) /\ RealPath(s) = g[c]
  BY <1>1, RealPathFollowed
<1> DEFINE P == {k \in 0..c : g[k] = f[k]}
<1>3. 0 \in P
  BY <1>2 DEF Followed
<1>4. ASSUME NEW k \in 1..c, k - 1 \in P PROVE k \in P
  <2>1. g[k - 1] = f[k - 1] /\ k \in 1..Len(path) /\ k \in 1..Len(s)
    BY <1>1, <1>4
  <2>2. g[k] = Follow(g[k - 1], s[k]) /\ f[k] = Follow(f[k - 1], path[k])
    BY <1>2, <2>1 DEF Followed
  <2> QED BY <1>1, <2>1, <2>2
<1>5. P = 0..c
  <2>1. P \in SUBSET (0..c) /\ c \in Nat
    OBVIOUS
  <2> HIDE DEF P
  <2> QED BY <1>3, <1>4, <2>1, Upward
<1>6. c \in P
  BY <1>5
<1> QED BY <1>2, <1>6 DEF s

\* What does not exist leads nowhere, and a name that leads nowhere is no link, unless
\* it is one that dangles.
LEMMA FollowGone ==
    ASSUME NEW p \in Seq(Names), NEW name \in Names,
           Append(p, name) \in DOMAIN Links => Links[Append(p, name)] \in Directories
    PROVE  /\ p \notin Directories => Follow(p, name) \notin Directories
           /\ Follow(p, name) \notin Directories => Follow(p, name) = Append(p, name)
<1> DEFINE a == Append(p, name)
<1>1. a # <<>> /\ Front(a) = p
  <2>1. Len(a) = Len(p) + 1 /\ SubSeq(a, 1, Len(p)) = p
    OBVIOUS
  <2> QED BY <2>1 DEF Front
<1>2. Follow(p, name) = IF a \in DOMAIN Links THEN Links[a] ELSE a
  BY DEF Follow
<1> HIDE DEF a
<1>3. p \notin Directories => a \notin DOMAIN Links /\ a \notin Directories
  BY <1>1, FileSystem
<1>4. a \in DOMAIN Links => Follow(p, name) \in Directories
  BY <1>2 DEF a
<1> QED BY <1>2, <1>3, <1>4 DEF a

\* Following the links of the longest ancestor that exists follows all there are.
LEMMA DeepestIsReal ==
    ASSUME NEW path \in Seq(Names)
    PROVE  ~Dangles(path) => realpathOfDeepestExistingAncestor(path) = RealPath(path)
<1> SUFFICES ASSUME ~Dangles(path) PROVE realpathOfDeepestExistingAncestor(path) = RealPath(path)
  OBVIOUS
<1> DEFINE n == Len(path)
           Deepest(c) == /\ Exists(SubSeq(path, 1, c))
                         /\ \A k \in (c + 1)..n : ~Exists(SubSeq(path, 1, k))
           cut == CHOOSE c \in 0..n : Deepest(c)
<1>1. PICK f : Followed(f, path) /\ RealPath(path) = f[n]
  BY RealPathFollowed
<1>2. n \in Nat /\ f \in [0..n -> Seq(Names)] /\ f[0] = <<>> /\ (\A k \in 1..n : f[k] = Follow(f[k - 1], path[k]))
      /\ \A k \in 1..n : path[k] \in Names
  BY <1>1 DEF Followed
<1>3. \A k \in 0..n : Exists(SubSeq(path, 1, k)) <=> f[k] \in Directories
  BY <1>1, PrefixFollowed DEF Exists
<1>15. ASSUME NEW k \in 1..n, Append(f[k - 1], path[k]) \in DOMAIN Links
       PROVE  Links[Append(f[k - 1], path[k])] \in Directories
  <2>1. k - 1 \in 0..Len(path)
    BY <1>15
  <2>2. RealPath(SubSeq(path, 1, k - 1)) = f[k - 1]
    BY <1>1, <2>1, PrefixFollowed
  <2> QED BY <1>15, <2>2 DEF Dangles
<1> HIDE DEF n
<1>4. \A k \in 1..n : /\ f[k - 1] \notin Directories => f[k] \notin Directories
                      /\ f[k] \notin Directories => f[k] = Append(f[k - 1], path[k])
  <2> SUFFICES ASSUME NEW k \in 1..n
               PROVE  /\ f[k - 1] \notin Directories => f[k] \notin Directories
                      /\ f[k] \notin Directories => f[k] = Append(f[k - 1], path[k])
    OBVIOUS
  <2>1. f[k - 1] \in Seq(Names) /\ path[k] \in Names /\ f[k] = Follow(f[k - 1], path[k])
    BY <1>2
  <2>2. Append(f[k - 1], path[k]) \in DOMAIN Links => Links[Append(f[k - 1], path[k])] \in Directories
    BY <1>15
  <2>3. PICK p \in Seq(Names) : p = f[k - 1]
    BY <2>1
  <2> QED BY <2>1, <2>2, <2>3, FollowGone
<1> DEFINE Gone == {k \in 0..n : f[k] \notin Directories}
<1>5. \E c \in 0..n : Deepest(c)
  <2>1. CASE Gone = {}
    <3>1. n \in 0..n /\ f[n] \in Directories
      <4>1. n \in 0..n
        BY <1>2
      <4>2. n \notin Gone
        BY <2>1
      <4> QED BY <4>1, <4>2
    <3>2. (n + 1)..n = {}
      BY <1>2
    <3>3. Deepest(n)
      BY <1>3, <3>1, <3>2
    <3> QED BY <3>1, <3>3
  <2>2. CASE Gone # {}
    <3>1. PICK m \in Gone : \A i \in Gone : m <= i
      <4>1. Gone \in SUBSET Nat
        OBVIOUS
      <4> HIDE DEF Gone
      <4> QED BY <2>2, <4>1, LeastPlace
    <3>2. m # 0 /\ m \in 1..n /\ m - 1 \in 0..n /\ m - 1 < m
      BY <1>2, FileSystem
    <3>3. f[m - 1] \in Directories
      <4>1. m - 1 \notin Gone
        <5> HIDE DEF Gone
        <5> QED BY <3>1, <3>2
      <4> QED BY <3>2, <4>1
    <3> DEFINE P == {j \in 0..(n - m) : m + j \in Gone}
    <3>4. 0 \in P
      BY <1>2, <3>1
    <3>5. ASSUME NEW j \in 1..(n - m), j - 1 \in P PROVE j \in P
      <4>1. m + j \in 1..n /\ (m + j) - 1 \in Gone
        BY <1>2, <3>2, <3>5
      <4>2. f[m + j] \notin Directories
        BY <1>4, <4>1
      <4> QED BY <4>1, <4>2
    <3>6. P = 0..(n - m)
      <4>1. P \in SUBSET (0..(n - m)) /\ n - m \in Nat
        BY <1>2, <3>2
      <4> HIDE DEF P
      <4> QED BY <3>4, <3>5, <4>1, Upward
    <3>7. ASSUME NEW k \in ((m - 1) + 1)..n PROVE f[k] \notin Directories
      <4>1. k - m \in 0..(n - m)
        BY <1>2, <3>2
      <4>2. k - m \in P
        BY <3>6, <4>1
      <4> QED BY <3>2, <4>2
    <3>8. \A k \in ((m - 1) + 1)..n : k \in 0..n
      BY <1>2, <3>2
    <3>9. Deepest(m - 1)
      BY <1>3, <3>2, <3>3, <3>7, <3>8
    <3> QED BY <3>2, <3>9
  <2> QED BY <2>1, <2>2
<1>6. cut \in 0..n /\ Deepest(cut)
  <2> HIDE DEF Deepest
  <2> QED BY <1>5
<1>7. realpathOfDeepestExistingAncestor(path) = RealPath(SubSeq(path, 1, cut)) \o SubSeq(path, cut + 1, n)
  BY DEF realpathOfDeepestExistingAncestor, n
<1> HIDE DEF cut
<1>8. \A k \in (cut + 1)..n : f[k] = Append(f[k - 1], path[k])
  <2> SUFFICES ASSUME NEW k \in (cut + 1)..n PROVE f[k] = Append(f[k - 1], path[k])
    OBVIOUS
  <2>1. k \in 1..n /\ k \in 0..n
    BY <1>2, <1>6
  <2>2. ~Exists(SubSeq(path, 1, k))
    BY <1>6
  <2>3. f[k] \notin Directories
    BY <1>3, <2>1, <2>2
  <2> QED BY <1>4, <2>1, <2>3
<1> HIDE DEF Gone, Deepest
<1> DEFINE Extends(j) == f[cut + j] = f[cut] \o SubSeq(path, cut + 1, cut + j)
           Q == {j \in 0..(n - cut) : Extends(j)}
<1>9. n - cut \in Nat /\ cut \in Nat /\ f[cut] \in Seq(Names)
  BY <1>2, <1>6
<1>10. 0 \in Q
  <2>1. SubSeq(path, cut + 1, cut + 0) = <<>>
    BY <1>9
  <2>2. f[cut] \o <<>> = f[cut]
    BY <1>9
  <2>3. cut + 0 = cut
    BY <1>9
  <2>4. Extends(0)
    BY <2>1, <2>2, <2>3
  <2> HIDE DEF Extends
  <2> QED BY <1>9, <2>4
<1>11. ASSUME NEW j \in 1..(n - cut), j - 1 \in Q PROVE j \in Q
  <2>1. cut + j \in (cut + 1)..n /\ (cut + j) - 1 = cut + (j - 1) /\ cut + j \in 1..n
    BY <1>9, <1>2
  <2>2. f[cut + j] = Append(f[cut] \o SubSeq(path, cut + 1, cut + (j - 1)), path[cut + j])
    BY <1>8, <1>11, <2>1
  <2>3. SubSeq(path, cut + 1, cut + j) = Append(SubSeq(path, cut + 1, cut + (j - 1)), path[cut + j])
    BY <1>2, <1>9, <2>1 DEF n
  <2>4. SubSeq(path, cut + 1, cut + (j - 1)) \in Seq(Names)
    BY <1>2, <1>9, <2>1 DEF n
  <2>5. \A p, r \in Seq(Names) : \A x \in Names : Append(p \o r, x) = p \o Append(r, x)
    <3> SUFFICES ASSUME NEW p \in Seq(Names), NEW r \in Seq(Names), NEW x \in Names
                 PROVE  Append(p \o r, x) = p \o Append(r, x)
      OBVIOUS
    <3>1. Append(p \o r, x) \in Seq(Names) /\ p \o Append(r, x) \in Seq(Names)
      OBVIOUS
    <3>2. Len(Append(p \o r, x)) = Len(p \o Append(r, x))
      OBVIOUS
    <3>3. \A i \in 1..Len(Append(p \o r, x)) : Append(p \o r, x)[i] = (p \o Append(r, x))[i]
      OBVIOUS
    <3> QED BY <3>1, <3>2, <3>3, SeqEqual
  <2>6. path[cut + j] \in Names
    BY <1>2, <2>1
  <2>7. Append(f[cut] \o SubSeq(path, cut + 1, cut + (j - 1)), path[cut + j])
        = f[cut] \o Append(SubSeq(path, cut + 1, cut + (j - 1)), path[cut + j])
    BY <1>9, <2>4, <2>5, <2>6
  <2>8. Extends(j)
    BY <2>2, <2>3, <2>7
  <2> HIDE DEF Extends
  <2> QED BY <1>9, <2>8
<1>12. Q = 0..(n - cut)
  <2>1. Q \in SUBSET (0..(n - cut))
    OBVIOUS
  <2> HIDE DEF Q
  <2> QED BY <1>9, <1>10, <1>11, <2>1, Upward
<1>13. f[n] = f[cut] \o SubSeq(path, cut + 1, n)
  <2>1. n - cut \in Q
    <3>1. n - cut \in 0..(n - cut)
      BY <1>9
    <3> QED BY <1>12, <3>1
  <2>2. cut + (n - cut) = n
    BY <1>2, <1>9
  <2> QED BY <2>1, <2>2
<1>14. RealPath(SubSeq(path, 1, cut)) = f[cut]
  BY <1>1, <1>6, PrefixFollowed DEF n
<1> QED BY <1>1, <1>7, <1>13, <1>14

LEMMA PathsFit ==
    ASSUME NEW q \in PathQuestion, askedPath = q
    PROVE  PathsStayInside
<1> DEFINE pre == preResolved(q)
           root == resolvedRoot(q.root)
           ok == validatePathInWorktree(q) = "ok"
           inside == q.path # <<>> /\ IsPrefix(root, pre) /\ IsPrefix(root, RealPath(pre))
<1>1. q.path \in Seq(Names) /\ q.root \in Seq(Names)
  BY GatesBounds, FileSystem DEF PathQuestion
<1>2. pre \in Seq(Names)
  <2>1. root \in Seq(Names)
    <3>1. PICK f : Followed(f, q.root) /\ RealPath(q.root) = f[Len(q.root)]
      BY <1>1, RealPathFollowed
    <3>2. RealPath(q.root) \in Seq(Names)
      BY <1>1, <3>1 DEF Followed
    <3>4. <<>> \in Seq(Names)
      OBVIOUS
    <3>3. Resolve(<<>>, q.root) \in Seq(Names)
      BY <1>1, <3>4, ResolveUnfolded
    <3> QED BY <3>2, <3>3 DEF resolvedRoot
  <2> HIDE DEF root
  <2>2. pre = Resolve(IF q.absolute THEN <<>> ELSE root, q.path)
    BY DEF preResolved, root
  <2>3. <<>> \in Seq(Names)
    OBVIOUS
  <2> QED BY <1>1, <2>1, <2>2, <2>3, ResolveUnfolded
<1>3. ~Dangles(pre) => realpathOfDeepestExistingAncestor(pre) = RealPath(pre)
  <2> HIDE DEF pre
  <2> QED BY <1>2, DeepestIsReal
<1>4. validatePathInWorktree(q) =
        CASE q.path = <<>> -> "not_under_worktree"
          [] q.path # <<>> /\ ~IsPrefix(root, pre) ->
               IF q.absolute THEN "absolute_outside_worktree" ELSE "parent_traversal_escapes_worktree"
          [] OTHER -> IF IsPrefix(root, realpathOfDeepestExistingAncestor(pre)) THEN "ok"
                      ELSE "symlink_escapes_worktree"
  BY DEF validatePathInWorktree, isUnder
<1> HIDE DEF pre, root
<1>5. ok <=> /\ q.path # <<>> /\ IsPrefix(root, pre)
             /\ IsPrefix(root, realpathOfDeepestExistingAncestor(pre))
  BY <1>4
<1>6. inside \in BOOLEAN /\ ok \in BOOLEAN
  OBVIOUS
<1>7. /\ ~Dangles(pre) => ok = inside
      /\ ok => q.path # <<>> /\ IsPrefix(root, pre)
  <2>1. ~Dangles(pre) => (ok <=> inside)
    BY <1>3, <1>5
  <2> HIDE DEF inside, ok
  <2> QED BY <1>5, <1>6, <2>1 DEF ok
<1> QED BY <1>7 DEF PathsStayInside, pre, root

-----------------------------------------------------------------------------
Accumulators ==
    [segments : Seq(Seq(Seq(CommandTokens))), segment : Seq(Seq(CommandTokens)), stage : Seq(CommandTokens)]

\* The stage is one of a segment that is complete; behind a pipe, not the first of it.
KeptIn(segments, stage, piped) ==
    \E s \in DOMAIN segments : \E m \in DOMAIN segments[s] : segments[s][m] = stage /\ (piped => m > 1)

\* Or one of the segment that is being read.
HeldIn(acc, stage, piped) ==
    \/ KeptIn(acc.segments, stage, piped)
    \/ \E m \in DOMAIN acc.segment : acc.segment[m] = stage /\ (piped => m > 1)

LEMMA PushedStage ==
    ASSUME NEW acc \in Accumulators
    PROVE  /\ PushStage(acc) \in Accumulators
           /\ PushStage(acc).stage = <<>>
           /\ PushStage(acc).segments = acc.segments
           /\ acc.stage # <<>> => PushStage(acc).segment = Append(acc.segment, acc.stage)
           /\ acc.stage = <<>> => PushStage(acc) = acc
<1>1. /\ acc.segments \in Seq(Seq(Seq(CommandTokens))) /\ acc.segment \in Seq(Seq(CommandTokens))
      /\ acc.stage \in Seq(CommandTokens)
  BY DEF Accumulators
<1>2. CASE acc.stage = <<>>
  BY <1>2 DEF PushStage
<1>3. CASE acc.stage # <<>>
  <2>1. PushStage(acc) = [acc EXCEPT !.segment = Append(@, acc.stage), !.stage = <<>>]
    BY <1>3 DEF PushStage
  <2>2. Append(acc.segment, acc.stage) \in Seq(Seq(CommandTokens)) /\ <<>> \in Seq(CommandTokens)
    BY <1>1
  <2> QED BY <1>1, <1>3, <2>1, <2>2 DEF Accumulators
<1> QED BY <1>2, <1>3

LEMMA PushedSegment ==
    ASSUME NEW acc \in Accumulators
    PROVE  LET pushed == PushStage(acc)
           IN /\ PushSegment(acc) \in Accumulators
              /\ PushSegment(acc).stage = <<>> /\ PushSegment(acc).segment = <<>>
              /\ pushed.segment = <<>> => PushSegment(acc).segments = pushed.segments
              /\ pushed.segment # <<>> => PushSegment(acc).segments = Append(pushed.segments, pushed.segment)
<1> DEFINE pushed == PushStage(acc)
<1>1. pushed \in Accumulators /\ pushed.stage = <<>>
  BY PushedStage
<1>2. PushSegment(acc) = IF pushed.segment = <<>> THEN pushed
                         ELSE [pushed EXCEPT !.segments = Append(@, pushed.segment), !.segment = <<>>]
  BY DEF PushSegment
<1> HIDE DEF pushed
<1>3. /\ pushed.segments \in Seq(Seq(Seq(CommandTokens))) /\ pushed.segment \in Seq(Seq(CommandTokens))
  BY <1>1 DEF Accumulators
<1>4. Append(pushed.segments, pushed.segment) \in Seq(Seq(Seq(CommandTokens))) /\ <<>> \in Seq(Seq(CommandTokens))
  BY <1>3
<1>5. CASE pushed.segment = <<>>
  BY <1>1, <1>2, <1>5 DEF pushed
<1>6. CASE pushed.segment # <<>>
  <2>1. PushSegment(acc) = [pushed EXCEPT !.segments = Append(@, pushed.segment), !.segment = <<>>]
    BY <1>2, <1>6
  <2>2. /\ PushSegment(acc) \in Accumulators
        /\ PushSegment(acc).stage = <<>> /\ PushSegment(acc).segment = <<>>
        /\ PushSegment(acc).segments = Append(pushed.segments, pushed.segment)
    BY <1>1, <1>4, <2>1 DEF Accumulators
  <2> QED BY <1>6, <2>2 DEF pushed
<1> QED BY <1>5, <1>6

LEMMA StageStaysHeld ==
    ASSUME NEW acc \in Accumulators, NEW stage, NEW piped \in BOOLEAN, HeldIn(acc, stage, piped)
    PROVE  HeldIn(PushStage(acc), stage, piped)
<1>1. CASE acc.stage = <<>>
  BY <1>1, PushedStage
<1>2. CASE acc.stage # <<>>
  <2>1. PushStage(acc).segments = acc.segments /\ PushStage(acc).segment = Append(acc.segment, acc.stage)
    BY <1>2, PushedStage
  <2>2. acc.segment \in Seq(Seq(CommandTokens)) /\ acc.stage \in Seq(CommandTokens)
    BY DEF Accumulators
  <2>3. \A m \in DOMAIN acc.segment : m \in DOMAIN Append(acc.segment, acc.stage)
                                      /\ Append(acc.segment, acc.stage)[m] = acc.segment[m]
    BY <2>2
  <2> QED BY <2>1, <2>3 DEF HeldIn
<1> QED BY <1>1, <1>2

LEMMA StageBecomesHeld ==
    ASSUME NEW acc \in Accumulators, NEW piped \in BOOLEAN, acc.stage # <<>>, piped => acc.segment # <<>>
    PROVE  HeldIn(PushStage(acc), acc.stage, piped)
<1>1. PushStage(acc).segment = Append(acc.segment, acc.stage)
  BY PushedStage
<1>2. acc.segment \in Seq(Seq(CommandTokens)) /\ acc.stage \in Seq(CommandTokens)
  BY DEF Accumulators
<1> DEFINE m == Len(acc.segment) + 1
<1>3. m \in DOMAIN Append(acc.segment, acc.stage) /\ Append(acc.segment, acc.stage)[m] = acc.stage
  BY <1>2
<1>4. piped => m > 1
  BY <1>2
<1> HIDE DEF m
<1> QED BY <1>1, <1>3, <1>4 DEF HeldIn

LEMMA SegmentKeepsHeld ==
    ASSUME NEW acc \in Accumulators, NEW stage, NEW piped \in BOOLEAN, HeldIn(PushStage(acc), stage, piped)
    PROVE  KeptIn(PushSegment(acc).segments, stage, piped)
<1> DEFINE pushed == PushStage(acc)
           all == Append(pushed.segments, pushed.segment)
<1>1. pushed \in Accumulators
  BY PushedStage
<1>2. /\ pushed.segment = <<>> => PushSegment(acc).segments = pushed.segments
      /\ pushed.segment # <<>> => PushSegment(acc).segments = all
  BY PushedSegment
<1>3. HeldIn(pushed, stage, piped)
  OBVIOUS
<1> HIDE DEF pushed
<1>4. pushed.segments \in Seq(Seq(Seq(CommandTokens))) /\ pushed.segment \in Seq(Seq(CommandTokens))
  BY <1>1 DEF Accumulators
<1>5. CASE KeptIn(pushed.segments, stage, piped)
  <2>1. \A s \in DOMAIN pushed.segments : s \in DOMAIN all /\ all[s] = pushed.segments[s]
    BY <1>4
  <2> HIDE DEF all
  <2>2. KeptIn(all, stage, piped)
    BY <1>5, <2>1 DEF KeptIn
  <2> QED BY <1>2, <1>5, <2>2
<1>6. CASE \E m \in DOMAIN pushed.segment : pushed.segment[m] = stage /\ (piped => m > 1)
  <2>1. pushed.segment # <<>>
    BY <1>6
  <2>2. Len(pushed.segments) + 1 \in DOMAIN all /\ all[Len(pushed.segments) + 1] = pushed.segment
    BY <1>4
  <2> HIDE DEF all
  <2>3. KeptIn(all, stage, piped)
    BY <1>6, <2>2 DEF KeptIn
  <2> QED BY <1>2, <2>1, <2>3
<1> QED BY <1>3, <1>5, <1>6 DEF HeldIn

LEMMA TokenKeepsHeld ==
    ASSUME NEW acc \in Accumulators, NEW token \in CommandTokens
    PROVE  /\ TakeToken(acc, token) \in Accumulators
           /\ token \in Breaks => TakeToken(acc, token).stage = <<>>
           /\ token \notin Breaks => /\ TakeToken(acc, token).stage = Append(acc.stage, token)
                                     /\ TakeToken(acc, token).segment = acc.segment
           /\ token = "|" => TakeToken(acc, token) = PushStage(acc)
           /\ \A stage : \A piped \in BOOLEAN :
                /\ HeldIn(acc, stage, piped) => HeldIn(TakeToken(acc, token), stage, piped)
                /\ token \in Breaks /\ HeldIn(PushStage(acc), stage, piped) =>
                     HeldIn(TakeToken(acc, token), stage, piped)
<1>1. CASE token \in Separators
  <2>1. TakeToken(acc, token) = PushSegment(acc) /\ token \in Breaks /\ token # "|"
    BY <1>1 DEF TakeToken, Breaks, Separators
  <2>2. \A stage : \A piped \in BOOLEAN :
          HeldIn(PushStage(acc), stage, piped) => HeldIn(PushSegment(acc), stage, piped)
    BY SegmentKeepsHeld DEF HeldIn
  <2> QED BY <2>1, <2>2, PushedSegment, StageStaysHeld
<1>2. CASE token = "|"
  <2>1. TakeToken(acc, token) = PushStage(acc) /\ token \in Breaks
    BY <1>2 DEF TakeToken, Breaks, Separators
  <2> QED BY <2>1, PushedStage, StageStaysHeld
<1>3. CASE token \notin Breaks
  <2>1. TakeToken(acc, token) = [acc EXCEPT !.stage = Append(@, token)] /\ token # "|"
    BY <1>3 DEF TakeToken, Breaks
  <2>2. acc.stage \in Seq(CommandTokens)
    BY DEF Accumulators
  <2>3. Append(acc.stage, token) \in Seq(CommandTokens)
    BY <2>2
  <2>4. /\ TakeToken(acc, token) \in Accumulators
        /\ TakeToken(acc, token).stage = Append(acc.stage, token)
        /\ TakeToken(acc, token).segment = acc.segment
        /\ TakeToken(acc, token).segments = acc.segments
    BY <2>1, <2>3 DEF Accumulators
  <2> QED BY <1>3, <2>1, <2>4 DEF HeldIn
<1> QED BY <1>1, <1>2, <1>3 DEF Breaks

Taken(f, tokens) ==
    /\ f \in [0..Len(tokens) -> Accumulators]
    /\ f[0] = NothingTaken
    /\ \A k \in 1..Len(tokens) : f[k] = TakeToken(f[k - 1], tokens[k])

\* The accumulator of splitSegments after each token.
LEMMA SegmentsTaken ==
    ASSUME NEW tokens \in Seq(CommandTokens)
    PROVE  \E f : Taken(f, tokens) /\ splitSegments(tokens) = PushSegment(f[Len(tokens)]).segments
<1> DEFINE n == Len(tokens)
           A == Accumulators
           step == [x \in A \X (1..n) |-> TakeToken(x[1], tokens[x[2]])]
           upTo[k \in 0..n] == IF k = 0 THEN NothingTaken ELSE TakeToken(upTo[k - 1], tokens[k])
<1>1. n \in Nat /\ \A k \in 1..n : tokens[k] \in CommandTokens
  OBVIOUS
<1>2. \A acc \in A, token \in CommandTokens : TakeToken(acc, token) \in A
  BY TokenKeepsHeld
<1>3. step \in [A \X (1..n) -> A]
  BY <1>1, <1>2
<1>13. NothingTaken \in A
  BY DEF NothingTaken, Accumulators
<1> HIDE DEF A
<1>4. PICK f \in [0..n -> A] : f[0] = NothingTaken /\ \A k \in 1..n : f[k] = step[<<f[k - 1], k>>]
  <2>1. n \in Nat
    BY <1>1
  <2> HIDE DEF n, step
  <2>2. FoldsTo(A, NothingTaken, n, step)
    BY <1>3, <1>13, <2>1, FoldValues
  <2> QED BY <2>2 DEF FoldsTo
<1>5. \A k \in 1..n : f[k] = TakeToken(f[k - 1], tokens[k])
  <2> SUFFICES ASSUME NEW k \in 1..n PROVE f[k] = TakeToken(f[k - 1], tokens[k])
    OBVIOUS
  <2>1. <<f[k - 1], k>> \in A \X (1..n)
    BY <1>1
  <2> QED BY <1>4, <2>1
<1>6. f = [k \in 0..n |-> IF k = 0 THEN NothingTaken ELSE TakeToken(f[k - 1], tokens[k])]
  BY <1>1, <1>4, <1>5
<1>7. upTo = [k \in 0..n |-> IF k = 0 THEN NothingTaken ELSE TakeToken(upTo[k - 1], tokens[k])]
  BY <1>6
<1>8. splitSegments(tokens) = PushSegment(upTo[n]).segments
  BY DEF splitSegments, Folded
<1> HIDE DEF upTo
<1>9. upTo[0] = NothingTaken /\ \A k \in 1..n : upTo[k] = TakeToken(upTo[k - 1], tokens[k])
  BY <1>1, <1>7
<1> DEFINE P == {k \in 0..n : upTo[k] \in A}
<1>10. 0 \in P /\ \A k \in 1..n : k - 1 \in P => k \in P
  <2> HIDE DEF n
  <2>2. ASSUME NEW k \in 1..n, k - 1 \in P PROVE k \in P
    <3>1. upTo[k - 1] \in A /\ tokens[k] \in CommandTokens
      BY <1>1, <2>2
    <3>2. upTo[k] \in A
      BY <1>2, <1>9, <3>1
    <3> QED BY <1>1, <3>2
  <2> QED BY <1>1, <1>9, <1>13, <2>2
<1>11. P = 0..n
  <2> HIDE DEF P, n
  <2>1. P \in SUBSET (0..n)
    BY DEF P
  <2> QED BY <1>1, <1>10, <2>1, Upward
<1>12. upTo \in [0..n -> A]
  <2>1. \A k \in 0..n : upTo[k] \in A
    BY <1>11
  <2>2. upTo = [k \in 0..n |-> upTo[k]]
    BY <1>7
  <2> HIDE DEF n, P
  <2> QED BY <2>1, <2>2
<1> QED BY <1>8, <1>9, <1>12 DEF Taken, A

-----------------------------------------------------------------------------
LEMMA AppendedSome ==
    \A S : \A s \in Seq(S) : \A x \in S : Append(s, x) # <<>>
<1> SUFFICES ASSUME NEW S, NEW s \in Seq(S), NEW x \in S PROVE Append(s, x) # <<>>
  OBVIOUS
<1>1. Len(Append(s, x)) = Len(s) + 1 /\ Len(s) \in Nat
  OBVIOUS
<1> QED BY <1>1

LEMMA TokenTaken ==
    ASSUME NEW acc \in Accumulators, NEW token \in CommandTokens
    PROVE  /\ token \in Breaks => TakeToken(acc, token).stage = <<>>
           /\ token \notin Breaks => TakeToken(acc, token).stage = Append(acc.stage, token)
           /\ token \notin Breaks => TakeToken(acc, token).segment = acc.segment
           /\ token = "|" => TakeToken(acc, token) = PushStage(acc)
BY TokenKeepsHeld

\* The stage that starts at i and ends before e is a stage of the command, behind a
\* pipe one that is not the first of its segment.
LEMMA StageHeld ==
    ASSUME NEW tokens \in Seq(CommandTokens), NEW f, Taken(f, tokens),
           NEW i \in 1..Len(tokens), NEW e \in (i + 1)..(Len(tokens) + 1), NEW piped \in BOOLEAN,
           i = 1 \/ tokens[i - 1] \in Breaks,
           \A j \in i..(e - 1) : tokens[j] \notin Breaks,
           e <= Len(tokens) => tokens[e] \in Breaks,
           piped => i > 2 /\ tokens[i - 1] = "|" /\ tokens[i - 2] \notin Breaks
    PROVE  KeptIn(PushSegment(f[Len(tokens)]).segments, SubSeq(tokens, i, e - 1), piped)
<1> DEFINE n == Len(tokens)
           stage == SubSeq(tokens, i, e - 1)
           Reading(k) == f[k].stage = SubSeq(tokens, i, k) /\ (piped => f[k].segment # <<>>)
           P == {k \in 0..n : k >= i - 1 => IF k < e THEN Reading(k) ELSE HeldIn(f[k], stage, piped)}
<1>1. /\ n \in Nat /\ i \in Nat /\ e \in Nat /\ 1 <= i /\ i < e /\ e <= n + 1
      /\ f[0] = NothingTaken
      /\ \A k \in 0..n : f[k] \in Accumulators
      /\ \A k \in 1..n : f[k] = TakeToken(f[k - 1], tokens[k]) /\ tokens[k] \in CommandTokens
  BY DEF Taken
<1>2. stage \in Seq(CommandTokens) /\ stage # <<>>
  <2>1. Len(stage) = e - i /\ stage \in Seq(CommandTokens)
    BY <1>1
  <2>2. e - i # 0
    BY <1>1
  <2> HIDE DEF stage
  <2> QED BY <2>1, <2>2
<1>3. Reading(i - 1)
  <2>1. SubSeq(tokens, i, i - 1) = <<>>
    BY <1>1
  <2>2. CASE i = 1
    <3>1. f[i - 1].stage = <<>> /\ ~piped
      BY <1>1, <2>2 DEF NothingTaken
    <3> QED BY <2>1, <3>1
  <2>3. CASE i # 1
    <3>1. i - 1 \in 1..n /\ i - 2 \in 0..n /\ (i - 1) - 1 = i - 2
      BY <1>1, <2>3
    <3>2. f[i - 1] = TakeToken(f[i - 2], tokens[i - 1]) /\ f[i - 2] \in Accumulators /\ tokens[i - 1] \in Breaks
          /\ tokens[i - 1] \in CommandTokens
      BY <1>1, <2>3, <3>1
    <3>3. f[i - 1].stage = <<>>
      BY <3>2, TokenTaken
    <3>4. ASSUME piped PROVE f[i - 1].segment # <<>>
      <4>1. i - 2 \in 1..n /\ i - 3 \in 0..n /\ (i - 2) - 1 = i - 3
        BY <1>1, <3>4
      <4>2. f[i - 2] = TakeToken(f[i - 3], tokens[i - 2]) /\ f[i - 3] \in Accumulators /\ tokens[i - 2] \notin Breaks
            /\ tokens[i - 2] \in CommandTokens
        BY <1>1, <3>4, <4>1
      <4>3. f[i - 2].stage = Append(f[i - 3].stage, tokens[i - 2])
        BY <4>2, TokenTaken
      <4>4. f[i - 2].stage # <<>>
        <5>1. f[i - 3].stage \in Seq(CommandTokens)
          BY <4>2 DEF Accumulators
        <5>2. Append(f[i - 3].stage, tokens[i - 2]) # <<>>
          BY <4>2, <5>1, AppendedSome
        <5> QED BY <4>3, <5>2
      <4>5. f[i - 1] = PushStage(f[i - 2])
        BY <3>2, <3>4, TokenTaken
      <4>6. f[i - 1].segment = Append(f[i - 2].segment, f[i - 2].stage)
        BY <3>2, <4>4, <4>5, PushedStage
      <4>7. f[i - 2].segment \in Seq(Seq(CommandTokens)) /\ f[i - 2].stage \in Seq(CommandTokens)
        BY <3>2 DEF Accumulators
      <4>8. Append(f[i - 2].segment, f[i - 2].stage) # <<>>
        BY <4>7, AppendedSome
      <4> QED BY <4>6, <4>8
    <3> QED BY <2>1, <3>3, <3>4
  <2> QED BY <2>2, <2>3
<1>4. 0 \in P
  <2>1. i - 1 = 0 => Reading(0)
    BY <1>3
  <2> HIDE DEF Reading, stage, n
  <2> QED BY <1>1, <2>1
<1>5. ASSUME NEW k \in 1..n, k - 1 \in P PROVE k \in P
  <2>1. k \in 0..n /\ k - 1 \in 0..n /\ f[k] = TakeToken(f[k - 1], tokens[k]) /\ f[k - 1] \in Accumulators
        /\ tokens[k] \in CommandTokens /\ k \in Nat
    BY <1>1
  <2>2. CASE k < i - 1
    <3> HIDE DEF Reading, stage, n
    <3> QED BY <1>1, <2>1, <2>2
  <2>3. CASE k = i - 1
    <3>1. Reading(k) /\ k < e
      BY <1>1, <1>3, <2>3
    <3> HIDE DEF Reading, stage, n
    <3> QED BY <1>1, <2>1, <3>1
  <2>4. CASE i <= k /\ k < e
    <3>1. Reading(k - 1)
      <4>1. k - 1 >= i - 1 /\ k - 1 < e
        BY <1>1, <2>1, <2>4
      <4> HIDE DEF Reading, stage, n
      <4> QED BY <1>5, <4>1
    <3>2. tokens[k] \notin Breaks
      BY <1>1, <2>1, <2>4
    <3>3. f[k].stage = Append(f[k - 1].stage, tokens[k]) /\ f[k].segment = f[k - 1].segment
      <4>1. PICK acc \in Accumulators : acc = f[k - 1]
        BY <2>1
      <4>2. PICK token \in CommandTokens : token = tokens[k]
        BY <2>1
      <4>3. token \notin Breaks
        BY <3>2, <4>2
      <4> HIDE DEF Reading, stage, n, P
      <4>4. TakeToken(acc, token).stage = Append(acc.stage, token) /\ TakeToken(acc, token).segment = acc.segment
        BY <4>3, TokenTaken
      <4>5. f[k] = TakeToken(acc, token)
        BY <2>1, <4>1, <4>2
      <4> QED BY <4>1, <4>2, <4>4, <4>5
    <3>4. SubSeq(tokens, i, k) = Append(SubSeq(tokens, i, k - 1), tokens[k])
      BY <1>1, <2>1, <2>4
    <3>5. Reading(k)
      BY <3>1, <3>3, <3>4
    <3> HIDE DEF Reading, stage, n
    <3> QED BY <2>1, <2>4, <3>5
  <2>5. CASE k = e
    <3>1. Reading(k - 1)
      <4>1. k - 1 >= i - 1 /\ k - 1 < e
        BY <1>1, <2>1, <2>5
      <4> HIDE DEF Reading, stage, n
      <4> QED BY <1>5, <4>1
    <3>2. f[k - 1].stage = stage /\ (piped => f[k - 1].segment # <<>>) /\ tokens[k] \in Breaks
      BY <1>1, <2>1, <2>5, <3>1
    <3> HIDE DEF stage
    <3>3. HeldIn(PushStage(f[k - 1]), stage, piped)
      BY <1>2, <2>1, <3>2, StageBecomesHeld
    <3>4. HeldIn(f[k], stage, piped)
      BY <2>1, <3>2, <3>3, TokenKeepsHeld
    <3>5. ~(k < e)
      BY <1>1, <2>5
    <3> HIDE DEF Reading, n
    <3> QED BY <2>1, <3>4, <3>5
  <2>6. CASE k > e
    <3>1. HeldIn(f[k - 1], stage, piped)
      <4>1. k - 1 >= i - 1 /\ ~(k - 1 < e)
        BY <1>1, <2>1, <2>6
      <4> HIDE DEF Reading, stage, n
      <4> QED BY <1>5, <4>1
    <3> HIDE DEF stage
    <3>2. HeldIn(f[k], stage, piped)
      BY <2>1, <3>1, TokenKeepsHeld
    <3>3. ~(k < e)
      BY <1>1, <2>6
    <3> HIDE DEF Reading, n
    <3> QED BY <2>1, <3>2, <3>3
  <2> QED BY <1>1, <2>1, <2>2, <2>3, <2>4, <2>5, <2>6
<1>6. P = 0..n
  <2>1. P \in SUBSET (0..n)
    OBVIOUS
  <2> HIDE DEF P, n
  <2> QED BY <1>1, <1>4, <1>5, <2>1, Upward
<1>7. n \in P /\ f[n] \in Accumulators /\ n >= i - 1
  <2> HIDE DEF P, n
  <2> QED BY <1>1, <1>6
<1>8. HeldIn(PushStage(f[n]), stage, piped)
  <2>1. CASE e <= n
    <3>1. HeldIn(f[n], stage, piped)
      <4>1. ~(n < e)
        BY <1>1, <2>1
      <4> HIDE DEF Reading, stage, n
      <4> QED BY <1>7, <4>1
    <3> HIDE DEF stage
    <3> QED BY <1>7, <3>1, StageStaysHeld
  <2>2. CASE e = n + 1
    <3>1. Reading(n)
      <4>1. n < e
        BY <1>1, <2>2
      <4> HIDE DEF Reading, stage, n
      <4> QED BY <1>7, <4>1
    <3>2. f[n].stage = stage /\ (piped => f[n].segment # <<>>)
      BY <1>1, <2>2, <3>1
    <3> HIDE DEF stage, n, P, Reading
    <3>3. f[n].stage # <<>> /\ f[n] \in Accumulators
      BY <1>2, <1>7, <3>2
    <3>4. HeldIn(PushStage(f[n]), f[n].stage, piped)
      BY <3>2, <3>3, StageBecomesHeld
    <3> QED BY <3>2, <3>4
  <2>3. e <= n \/ e = n + 1
    <3>1. n \in Nat /\ e \in Nat /\ e <= n + 1
      BY <1>1
    <3> HIDE DEF n
    <3> QED BY <3>1
  <2> QED BY <2>1, <2>2, <2>3
<1> HIDE DEF P, n, stage
<1>9. KeptIn(PushSegment(f[n]).segments, stage, piped)
  BY <1>7, <1>8, SegmentKeepsHeld
<1> QED BY <1>9 DEF n, stage

\* Where the stage ends that starts with a word, and that the gate takes this word for
\* its head.
LEMMA WordPlaced ==
    ASSUME NEW tokens \in Seq(CommandTokens), NEW i \in 1..Len(tokens), tokens[i] \in Words
    PROVE  \E e \in (i + 1)..(Len(tokens) + 1) :
             /\ \A j \in i..(e - 1) : tokens[j] \notin Breaks
             /\ e <= Len(tokens) => tokens[e] \in Breaks
             /\ headOfStage(SubSeq(tokens, i, e - 1)) = tokens[i]
<1> DEFINE n == Len(tokens)
           Stops == {j \in i..(n + 1) : j <= n => tokens[j] \in Breaks}
<1>1. n \in Nat /\ i \in Nat /\ 1 <= i /\ i <= n
  OBVIOUS
<1>2. PICK e \in Stops : \A j \in Stops : e <= j
  <2>1. n + 1 \in Stops
    BY <1>1
  <2>2. Stops \in SUBSET Nat
    BY <1>1
  <2> HIDE DEF Stops
  <2> QED BY <2>1, <2>2, LeastPlace
<1>3. e \in i..(n + 1) /\ (e <= n => tokens[e] \in Breaks)
  BY <1>2
<1>4. tokens[i] \notin Breaks
  BY DEF Words, Breaks, Separators
<1>5. e \in (i + 1)..(n + 1)
  BY <1>1, <1>3, <1>4
<1>6. ASSUME NEW j \in i..(e - 1) PROVE tokens[j] \notin Breaks
  <2>1. j \in i..(n + 1) /\ ~(e <= j) /\ j <= n
    BY <1>1, <1>5
  <2>2. j \notin Stops
    <3> HIDE DEF Stops
    <3> QED BY <1>2, <2>1
  <2> QED BY <2>1, <2>2
<1> DEFINE stage == SubSeq(tokens, i, e - 1)
           Heads == {j \in 1..Len(stage) : stage[j] \in Words}
           h == SelectInSeq(stage, LAMBDA t : t \in Words)
<1>7. h = IF Heads # {} THEN Min(Heads) ELSE 0
  BY DEF SelectInSeq
<1>8. headOfStage(stage) = IF h = 0 THEN "none" ELSE stage[h]
  BY DEF headOfStage
<1>9. Len(stage) = e - i /\ stage[1] = tokens[i] /\ 1 \in 1..Len(stage)
  BY <1>1, <1>5
<1> HIDE DEF h, stage, Stops
<1>10. 1 \in Heads /\ \A j \in Heads : j \in Nat /\ 1 <= j
  BY <1>9
<1>11. h = 1
  <2>1. Heads \in SUBSET Nat
    BY <1>10
  <2> HIDE DEF Heads
  <2>2. Min(Heads) \in Heads /\ \A j \in Heads : Min(Heads) <= j
    BY <1>10, <2>1, LeastPlace
  <2>3. Min(Heads) <= 1 /\ 1 <= Min(Heads) /\ Min(Heads) \in Nat
    BY <1>10, <2>2
  <2> QED BY <1>7, <1>10, <2>3
<1>12. headOfStage(stage) = tokens[i]
  BY <1>8, <1>9, <1>11
<1> QED BY <1>3, <1>5, <1>6, <1>12 DEF stage

LEMMA CommandsFit ==
    ASSUME NEW q, NEW policy \in Policies, NEW tokens \in CommandQuestion,
           q = [tokens |-> tokens, policy |-> policy], askedCommand = q
    PROVE  CommandsPermitted
<1>1. tokens \in Seq(CommandTokens) /\ q.tokens = tokens /\ q.policy = policy
  BY GatesBounds DEF CommandQuestion
<1> DEFINE Piped(i) == i > 2 /\ tokens[i - 1] = "|" /\ tokens[i - 2] \notin Breaks
           Dashed(i) == i < Len(tokens) /\ tokens[i + 1] = "-c"
           Permitted(i) == /\ tokens[i] \notin policy.deny
                           /\ policy.allow = {} \/ tokens[i] \in policy.allow
                           /\ tokens[i] = "eval" => policy.pipeToShell
                           /\ tokens[i] = "sh" /\ Piped(i) => policy.pipeToShell
                           /\ tokens[i] = "sh" /\ Dashed(i) => policy.pipeToShell
<1>2. ASSUME validateShellCommand(tokens, policy), NEW i \in DOMAIN tokens,
             tokens[i] \in Words, i = 1 \/ tokens[i - 1] \in Breaks
      PROVE  Permitted(i)
  <2>1. i \in 1..Len(tokens)
    BY <1>1
  <2>2. PICK e \in (i + 1)..(Len(tokens) + 1) :
          /\ \A j \in i..(e - 1) : tokens[j] \notin Breaks
          /\ e <= Len(tokens) => tokens[e] \in Breaks
          /\ headOfStage(SubSeq(tokens, i, e - 1)) = tokens[i]
    BY <1>1, <1>2, <2>1, WordPlaced
  <2>3. PICK piped \in BOOLEAN : piped <=> Piped(i)
    OBVIOUS
  <2>4. PICK f : Taken(f, tokens) /\ splitSegments(tokens) = PushSegment(f[Len(tokens)]).segments
    BY <1>1, SegmentsTaken
  <2>5. PICK stage : stage = SubSeq(tokens, i, e - 1)
    OBVIOUS
  <2>6. KeptIn(splitSegments(tokens), stage, piped)
    BY <1>1, <1>2, <2>1, <2>2, <2>3, <2>4, <2>5, StageHeld
  <2>7. PICK s \in DOMAIN splitSegments(tokens) : \E m \in DOMAIN splitSegments(tokens)[s] :
          splitSegments(tokens)[s][m] = stage /\ (piped => m > 1)
    BY <2>6 DEF KeptIn
  <2>8. PICK m \in DOMAIN splitSegments(tokens)[s] : splitSegments(tokens)[s][m] = stage /\ (piped => m > 1)
    BY <2>7
  <2>9. ~RefusesStage(stage, m, policy)
    BY <1>2, <2>7, <2>8 DEF validateShellCommand, checkPolicy
  <2>10. headOfStage(stage) = tokens[i]
    BY <2>2, <2>5
  <2>11. Dashed(i) => \E k \in DOMAIN stage : stage[k] = "-c"
    <3> SUFFICES ASSUME Dashed(i) PROVE \E k \in DOMAIN stage : stage[k] = "-c"
      OBVIOUS
    <3>4. "-c" \notin Breaks
      BY DEF Breaks, Separators
    <3>5. i + 1 <= Len(tokens) /\ tokens[i + 1] \notin Breaks
      BY <1>1, <2>1, <3>4
    <3>1. e # i + 1
      BY <2>2, <3>5
    <3>2. i \in Nat /\ e \in Nat /\ i + 1 <= e - 1 /\ e - 1 <= Len(tokens) /\ Len(tokens) \in Nat
      BY <1>1, <2>1, <2>2, <3>1
    <3>3. 2 \in DOMAIN stage /\ stage[2] = tokens[i + 1]
      BY <1>1, <2>1, <2>5, <3>2
    <3> QED BY <3>3
  <2>12. tokens[i] \in policy.deny => FALSE
    BY <2>9, <2>10 DEF RefusesStage
  <2>13. policy.allow = {} \/ tokens[i] \in policy.allow
    BY <2>9, <2>10 DEF RefusesStage
  <2>14. tokens[i] = "eval" => policy.pipeToShell
    BY <2>9, <2>10 DEF RefusesStage
  <2>15. tokens[i] = "sh" /\ piped => policy.pipeToShell
    BY <2>8, <2>9, <2>10 DEF RefusesStage, ShellBinaries
  <2>16. tokens[i] = "sh" /\ Dashed(i) => policy.pipeToShell
    BY <2>9, <2>10, <2>11 DEF RefusesStage, ShellBinaries
  <2> HIDE DEF Dashed, Piped
  <2> QED BY <2>3, <2>12, <2>13, <2>14, <2>15, <2>16
<1>3. validateShellCommand(tokens, policy) =>
        \A i \in DOMAIN tokens : tokens[i] \in Words /\ (i = 1 \/ tokens[i - 1] \in Breaks) => Permitted(i)
  <2> HIDE DEF Permitted
  <2> QED BY <1>2
<1> QED BY <1>1, <1>3 DEF CommandsPermitted

-----------------------------------------------------------------------------

\* What each of the five denies, by the gate its dictionary puts the name to.
LEMMA ToolsDenied ==
    ASSUME NEW q \in ToolQuestion, NEW v \in DOMAIN PATH_TOOL_NAMES, NEW otherwise \in {"unknown", "null"}
    PROVE  Decide(q, v, otherwise) = "denied" <=>
             LET name == toLowerCase(q.name)
             IN \/ name \in SHELL_TOOL_NAMES[v] /\ Command(q) # "accepted"
                \/ /\ name \notin SHELL_TOOL_NAMES[v] /\ name \in PATH_TOOL_NAMES[v]
                   /\ \/ q.file_path = "outside" \/ q.path = "outside" \/ q.files = "outside"
                      \/ v \notin {"amp", "opencode"} /\ q.abs_path = "outside"
<1> DEFINE name == toLowerCase(q.name)
<1>1. PathKeys[v] = {"file_path", "path", "files"} \cup IF v \in {"amp", "opencode"} THEN {} ELSE {"abs_path"}
  BY DEF PathKeys
<1>2. ByPath(q, PathKeys[v]) = "denied" <=>
        \/ q.file_path = "outside" \/ q.path = "outside" \/ q.files = "outside"
        \/ v \notin {"amp", "opencode"} /\ q.abs_path = "outside"
  BY <1>1 DEF ByPath
<1>3. ByShell(Command(q)) = "denied" <=> Command(q) # "accepted"
  BY DEF ByShell
<1>4. Decide(q, v, otherwise) = CASE name \in SHELL_TOOL_NAMES[v] -> ByShell(Command(q))
                                  [] name \in PATH_TOOL_NAMES[v] -> ByPath(q, PathKeys[v])
                                  [] OTHER -> otherwise
  BY DEF Decide
<1>5. name \in SHELL_TOOL_NAMES[v] => name \notin PATH_TOOL_NAMES[v]
  BY DEF SHELL_TOOL_NAMES, PATH_TOOL_NAMES, SharedShell, SharedPath
<1> HIDE DEF name
<1> QED BY <1>2, <1>3, <1>4, <1>5 DEF name

LEMMA AnswersOfDenied ==
    ASSUME NEW offered \in SUBSET Options
    PROVE  PickDecision("deny", offered) \notin {"allow_once", "allow_always"}
<1> DEFINE order == <<"reject_once", "reject_always">>
           I == {i \in 1..Len(order) : order[i] \in offered}
           k == SelectInSeq(order, LAMBDA o : o \in offered)
<1>1. PickDecision("deny", offered) = IF k = 0 THEN "cancelled" ELSE order[k]
  BY DEF PickDecision
<1>2. k = IF I # {} THEN Min(I) ELSE 0
  BY DEF SelectInSeq
<1>3. I \in SUBSET Nat /\ \A i \in I : i = 1 \/ i = 2
  OBVIOUS
<1> HIDE DEF I, k
<1>4. I # {} => Min(I) \in I
  BY <1>3, LeastPlace
<1>5. k = 0 \/ k = 1 \/ k = 2
  BY <1>2, <1>3, <1>4
<1>6. order[1] = "reject_once" /\ order[2] = "reject_always"
  OBVIOUS
<1> HIDE DEF order
<1> QED BY <1>1, <1>5, <1>6

LEMMA ToolsFit ==
    ASSUME NEW q \in ToolQuestion, askedTool = q
    PROVE  GatesNested
<1> DEFINE name == toLowerCase(q.name)
           gemini == decideGeminiPermission(q) = "denied"
           cursor == decideCursorPermission(q) = "denied"
           pi == decidePiPermission(q) = "denied"
           amp == decideAmpPermission(q) = "denied"
           opencode == decideOpencodePermission(q) = "denied"
           claude == createPermissionHandler(q) = "denied"
           codex == decideCodexPermission(q) = "denied"
           command == Command(q) # "accepted"
           shared == q.file_path = "outside" \/ q.path = "outside" \/ q.files = "outside"
           outside == shared \/ q.abs_path = "outside"
<1>1. name \in {"bash", "sh", "terminal", "run_shell_command", "write", "read", "rename", "write_file", "edit_file",
                "create_file", "replace_in_file", "writefile", "notebookedit", "grep", "command_execution",
                "file_change"}
  BY DEF ToolQuestion, ToolNames, toLowerCase
<1>2. /\ \A v \in {"gemini", "cursor", "pi", "amp", "opencode"} : v \in DOMAIN PATH_TOOL_NAMES
      /\ {"unknown", "null"} # {}
  BY DEF PATH_TOOL_NAMES
<1> HIDE DEF name
<1>3. gemini <=> \/ name \in SHELL_TOOL_NAMES["gemini"] /\ command
                 \/ name \notin SHELL_TOOL_NAMES["gemini"] /\ name \in PATH_TOOL_NAMES["gemini"] /\ outside
  BY <1>2, ToolsDenied DEF decideGeminiPermission, name
<1>4. cursor <=> \/ name \in SHELL_TOOL_NAMES["cursor"] /\ command
                 \/ name \notin SHELL_TOOL_NAMES["cursor"] /\ name \in PATH_TOOL_NAMES["cursor"] /\ outside
  BY <1>2, ToolsDenied DEF decideCursorPermission, name
<1>5. pi <=> \/ name \in SHELL_TOOL_NAMES["pi"] /\ command
             \/ name \notin SHELL_TOOL_NAMES["pi"] /\ name \in PATH_TOOL_NAMES["pi"] /\ outside
  BY <1>2, ToolsDenied DEF decidePiPermission, name
<1>6. amp <=> \/ name \in SHELL_TOOL_NAMES["amp"] /\ command
              \/ name \notin SHELL_TOOL_NAMES["amp"] /\ name \in PATH_TOOL_NAMES["amp"] /\ shared
  BY <1>2, ToolsDenied DEF decideAmpPermission, name
<1>7. opencode <=> \/ name \in SHELL_TOOL_NAMES["opencode"] /\ command
                   \/ name \notin SHELL_TOOL_NAMES["opencode"] /\ name \in PATH_TOOL_NAMES["opencode"] /\ shared
  BY <1>2, ToolsDenied DEF decideOpencodePermission, name
<1> HIDE DEF gemini, cursor, pi, amp, opencode, command, shared
<1>8. /\ opencode => amp /\ cursor
      /\ cursor <=> pi
      /\ cursor => gemini
      /\ amp /\ ~gemini => name = "create_file"
      /\ gemini /\ ~opencode => name \notin SharedShell \cup SharedPath \/ q.abs_path = "outside"
  BY <1>1, <1>3, <1>4, <1>5, <1>6, <1>7 DEF SHELL_TOOL_NAMES, PATH_TOOL_NAMES, SharedShell, SharedPath
<1>9. q.name = "Bash" /\ q.cmd = "absent" => (claude <=> opencode)
  <2> SUFFICES ASSUME q.name = "Bash", q.cmd = "absent" PROVE claude <=> opencode
    OBVIOUS
  <2>1. opencode <=> command
    BY <1>7 DEF SHELL_TOOL_NAMES, SharedShell, name, toLowerCase
  <2>2. command <=> q.command # "accepted"
    BY DEF command, Command
  <2> QED BY <2>1, <2>2 DEF createPermissionHandler, ByShell
<1>10. q.name \in {"Read", "Write"} /\ q.path = "absent" /\ q.files = "absent" => (claude <=> opencode)
  <2> SUFFICES ASSUME q.name \in {"Read", "Write"}, q.path = "absent", q.files = "absent" PROVE claude <=> opencode
    OBVIOUS
  <2>1. name \in {"read", "write"}
    BY DEF name, toLowerCase
  <2>2. opencode <=> q.file_path = "outside"
    BY <1>7, <2>1 DEF SHELL_TOOL_NAMES, PATH_TOOL_NAMES, SharedShell, SharedPath, shared
  <2>3. PathFieldsFor(q.name) = {"file_path"}
    BY DEF PathFieldsFor
  <2> QED BY <2>2, <2>3 DEF createPermissionHandler, ByPath
<1>11. q.name = "command_execution" =>
         (codex <=> decideOpencodePermission([q EXCEPT !.name = "Bash", !.cmd = "absent"]) = "denied")
  <2> SUFFICES ASSUME q.name = "command_execution"
               PROVE  codex <=> decideOpencodePermission([q EXCEPT !.name = "Bash", !.cmd = "absent"]) = "denied"
    OBVIOUS
  <2>1. PICK r : r = [q EXCEPT !.name = "Bash", !.cmd = "absent"]
    OBVIOUS
  <2>2. r \in ToolQuestion /\ r.name = "Bash" /\ r.cmd = "absent" /\ r.command = q.command
    BY <2>1 DEF ToolQuestion, ToolNames, OfCommand
  <2>3. decideOpencodePermission(r) = "denied" <=> Command(r) # "accepted"
    BY <1>2, <2>2, ToolsDenied DEF decideOpencodePermission, SHELL_TOOL_NAMES, SharedShell, toLowerCase
  <2>4. codex <=> q.command # "accepted"
    BY DEF decideCodexPermission, ByShell
  <2> QED BY <2>1, <2>2, <2>3, <2>4 DEF Command
<1>12. q.name = "file_change" =>
         (codex <=> decideOpencodePermission([q EXCEPT !.name = "Write", !.file_path = "absent", !.path = "absent"])
                      = "denied")
  <2> SUFFICES ASSUME q.name = "file_change"
               PROVE  codex <=> decideOpencodePermission(
                                  [q EXCEPT !.name = "Write", !.file_path = "absent", !.path = "absent"]) = "denied"
    OBVIOUS
  <2>1. PICK r : r = [q EXCEPT !.name = "Write", !.file_path = "absent", !.path = "absent"]
    OBVIOUS
  <2>2. /\ r \in ToolQuestion /\ r.name = "Write" /\ r.file_path = "absent" /\ r.path = "absent"
        /\ r.files = q.files
    BY <2>1 DEF ToolQuestion, ToolNames, OfPath
  <2>3. toLowerCase(r.name) = "write"
    BY <2>2 DEF toLowerCase
  <2>4. "write" \notin SHELL_TOOL_NAMES["opencode"] /\ "write" \in PATH_TOOL_NAMES["opencode"]
    BY DEF SHELL_TOOL_NAMES, PATH_TOOL_NAMES, SharedShell, SharedPath
  <2>5. decideOpencodePermission(r) = "denied" <=> q.files = "outside"
    BY <1>2, <2>2, <2>3, <2>4, ToolsDenied DEF decideOpencodePermission
  <2>6. codex <=> q.files = "outside"
    BY DEF decideCodexPermission, ByPath
  <2> QED BY <2>1, <2>5, <2>6
<1>13. \A offered \in SUBSET Options :
         /\ gemini => GeminiAnswer(q, offered) \notin {"allow_once", "allow_always"}
         /\ cursor => CursorAnswer(q, offered) \notin {"allow_once", "allow_always"}
  BY AnswersOfDenied DEF GeminiAnswer, CursorAnswer, gemini, cursor
<1>14. /\ cursor \in BOOLEAN /\ pi \in BOOLEAN /\ opencode \in BOOLEAN
       /\ claude \in BOOLEAN /\ codex \in BOOLEAN
  BY DEF cursor, pi, opencode
<1>15. \A x, y \in BOOLEAN : (x <=> y) => x = y
  OBVIOUS
<1>16. /\ cursor = pi
       /\ q.name = "Bash" /\ q.cmd = "absent" => claude = opencode
       /\ q.name \in {"Read", "Write"} /\ q.path = "absent" /\ q.files = "absent" => claude = opencode
  <2> HIDE DEF claude
  <2> QED BY <1>8, <1>9, <1>10, <1>14, <1>15
<1>17. q.name = "command_execution" =>
         codex = (decideOpencodePermission([q EXCEPT !.name = "Bash", !.cmd = "absent"]) = "denied")
  BY <1>11, <1>14, <1>15
<1>18. q.name = "file_change" =>
         codex = (decideOpencodePermission([q EXCEPT !.name = "Write", !.file_path = "absent", !.path = "absent"])
                    = "denied")
  BY <1>12, <1>14, <1>15
<1> HIDE DEF claude, codex
<1> QED BY <1>8, <1>13, <1>16, <1>17, <1>18
      DEF GatesNested, name, gemini, cursor, pi, amp, opencode, claude, codex

\* The calls that are asked about are questions.
GatesAsked ==
    /\ askedPath # <<>> => askedPath \in PathQuestion
    /\ askedCommand # <<>> =>
         \E tokens \in CommandQuestion, policy \in Policies : askedCommand = [tokens |-> tokens, policy |-> policy]
    /\ askedTool # <<>> => askedTool \in ToolQuestion

LEMMA GatesAskedSound ==
    ASSUME GatesAsked
    PROVE  GatesSound
<1>1. PathsStayInside
  BY PathsFit DEF GatesAsked, PathsStayInside
<1>2. CommandsPermitted
  <2>1. CASE askedCommand = <<>>
    BY <2>1 DEF CommandsPermitted
  <2>2. CASE askedCommand # <<>>
    BY <2>2, CommandsFit DEF GatesAsked
  <2> QED BY <2>1, <2>2
<1>3. GatesNested
  BY ToolsFit DEF GatesAsked, GatesNested
<1> QED BY <1>1, <1>2, <1>3 DEF GatesSound

\* In any file system and for any root, validatePathInWorktree accepts of the paths that
\* meet no dangling link exactly those that stay in the real worktree with every link
\* followed, however long; validateShellCommand accepts only lines, of any length, in
\* which every command that stands directly at the start of a stage is permitted; and
\* the vendors' dictionaries are nested.
THEOREM GatesLetThrough == GateSpec => []GatesSound
<1>1. GateInit => GatesAsked
  BY DEF GateInit, GatesAsked
<1>2. GatesAsked /\ [GateNext]_gateVars => GatesAsked'
  <2> SUFFICES ASSUME GatesAsked, [GateNext]_gateVars PROVE GatesAsked'
    OBVIOUS
  <2>1. CASE UNCHANGED gateVars
    BY <2>1 DEF GatesAsked, gateVars
  <2>2. CASE GateNext
    BY <2>2 DEF GateNext, GateInit, AskPath, AskCommand, AskTool, GatesAsked
  <2> QED BY <2>1, <2>2
<1> QED BY <1>1, <1>2, GatesAskedSound, PTL DEF GateSpec
=============================================================================
