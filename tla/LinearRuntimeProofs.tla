------------------------ MODULE LinearRuntimeProofs ------------------------
(***************************************************************************)
(* Proofs about LinearRuntime, for any number of pickups and issues: the   *)
(* daemon uses the rate limiter as its specification says, and RuntimeSound *)
(* holds.                                                                  *)
(*                                                                         *)
(* No handler writes down that it holds a token, that its issue is bound   *)
(* or that the label call it awaits is its own; each follows from the place *)
(* the handler has reached.  The inductive invariant says what each place  *)
(* implies for the limiter, the registry, the drain and the label machine. *)
(***************************************************************************)
EXTENDS LinearRuntime, TLAPS

\* The variables the properties read keep their shape.
Typed ==
    /\ status \in [Runs -> Limiter!Status]
    /\ handler \in [Runs -> HandlerState]
    /\ byRun \in [Runs -> Issues \cup {NoIssue}]
    /\ broker \subseteq Runs
    /\ Labels!LabelsTyped

\* What the limiter owes a pickup, by the place its handler has reached.
TokenFits ==
    \A r \in Runs :
        /\ handler[r] = "none" => status[r] = "idle"
        /\ handler[r] = "parked" => status[r] \in {"waiting", "held"}
        /\ handler[r] \in Live => status[r] = "held"
        /\ handler[r] \in {"overflowing", "over", "dropped"} => status[r] \notin {"waiting", "held"}

\* A pickup that is not settled is in the registry until close empties it, and
\* a broker listens only between the start of a flow and the cleanup.
BindingFits ==
    \A r \in Runs :
        /\ handler[r] \in {"parked", "overflowing"} \cup Live /\ drain # "closed" => byRun[r] = IssueOf[r]
        /\ r \in broker => handler[r] \in {"flow", "finish"}

\* drainAndStop pauses intake first, and knows every run that is left.
DrainFits ==
    /\ drain # "no" => paused
    /\ drain = "cancelling" => inFlightRuns \subseteq awaited
    /\ drain \in {"closing", "closed"} => inFlightRuns = {}

\* A handler or a sink task only ever waits for a flip of its own issue, and
\* the flips that follow a flow leave in-progress.
CallFits ==
    \A r \in Runs :
        /\ call[OfRun(r)] # NoCall =>
              /\ call[OfRun(r)].issue = IssueOf[r]
              /\ handler[r] \in {"overflowing", "start", "finish"}
              /\ handler[r] # "start" => call[OfRun(r)].to # "in-progress"
        /\ call[OfSink(r)] # NoCall =>
              /\ call[OfSink(r)].issue = IssueOf[r]
              /\ call[OfSink(r)].to = "blocked"

\* No other pickup is of r's issue.
OnlyPickup(r) == \A s \in Runs \ {r} : IssueOf[s] # IssueOf[r]

\* The final flip of such a pickup has in-progress on its list for as long as
\* the issue carries it.
PlanClears ==
    \A r \in Runs :
        OnlyPickup(r) /\ handler[r] = "finish" /\ call[OfRun(r)] # NoCall
        /\ "in-progress" \in labels[IssueOf[r]] =>
            /\ call[OfRun(r)].pc \in {"add", "remove"} => "in-progress" \in call[OfRun(r)].todo
            /\ call[OfRun(r)].pc # "ok"

IInv == Typed /\ TokenFits /\ BindingFits /\ DrainFits /\ CallFits /\ PlanClears

-----------------------------------------------------------------------------

\* The callers of the label machine are told apart.
LEMMA CallersApart ==
    ASSUME NEW r \in Runs, NEW s \in Runs
    PROVE  /\ OfRun(r) \in Callers /\ OfSink(r) \in Callers
           /\ OfRun(r) # OfSink(s)
           /\ r # s => OfRun(r) # OfRun(s) /\ OfSink(r) # OfSink(s)
  BY DEF OfRun, OfSink, Callers

\* A caller is a run's handler or its sink task.
LEMMA CallerOf ==
    ASSUME NEW k \in Callers
    PROVE  \E r \in Runs : k = OfRun(r) \/ k = OfSink(r)
  BY DEF Callers

\* What a call in flight looks like.
LEMMA CallTyped ==
    ASSUME Labels!LabelsTyped, NEW k \in Callers, call[k] # NoCall
    PROVE  /\ call[k] \in Labels!TransitionCall
           /\ call[k].issue \in Issues
           /\ call[k].to \in Labels!Targets
           /\ call[k].todo \subseteq Labels!ShamuLabels
           /\ call[k].to \notin call[k].todo
           /\ labels[call[k].issue] \subseteq Labels!ShamuLabels
  BY DEF Labels!LabelsTyped, Labels!TransitionCall

\* transition() is called: the caller's call is fresh, the others' go on.
LEMMA TransitionEffect ==
    ASSUME Labels!LabelsTyped, NEW k \in Callers, NEW issue \in Issues, NEW to \in Labels!Targets,
           Labels!Transition(k, issue, to)
    PROVE  /\ Labels!LabelsTyped'
           /\ labels' = labels
           /\ call'[k].issue = issue /\ call'[k].to = to /\ call'[k].pc = "read"
           /\ \A j \in Callers \ {k} :
                 /\ call'[j] # NoCall => call[j] # NoCall
                 /\ call'[j].issue = call[j].issue
                 /\ call'[j].to = call[j].to
                 /\ call'[j].pc = call[j].pc
                 /\ call'[j].todo = call[j].todo
  <1> DEFINE fresh == [issue |-> issue, to |-> to, pc |-> "read", todo |-> {},
                       alone |-> ~Labels!Busy(issue)]
  <1>1. /\ labels' = labels
        /\ call' = [j \in Callers |->
              IF j = k THEN fresh
              ELSE IF Labels!InFlight(j) /\ call[j].issue = issue
                     THEN [call[j] EXCEPT !.alone = FALSE] ELSE call[j]]
    BY DEF Labels!Transition, Labels!Called
  <1>2. fresh \in Labels!TransitionCall
    BY DEF Labels!TransitionCall, Labels!Busy
  <1>3. \A j \in Callers : Labels!InFlight(j) =>
           /\ call[j] # NoCall
           /\ call[j] \in Labels!TransitionCall
           /\ [call[j] EXCEPT !.alone = FALSE] \in Labels!TransitionCall
    BY CallTyped DEF Labels!InFlight, Labels!TransitionCall
  <1>4. \A j \in Callers \ {k} :
           /\ call'[j] # NoCall => call[j] # NoCall
           /\ call'[j].issue = call[j].issue
           /\ call'[j].to = call[j].to
           /\ call'[j].pc = call[j].pc
           /\ call'[j].todo = call[j].todo
    <2> SUFFICES ASSUME NEW j \in Callers \ {k}
                 PROVE  /\ call'[j] # NoCall => call[j] # NoCall
                        /\ call'[j].issue = call[j].issue
                        /\ call'[j].to = call[j].to
                        /\ call'[j].pc = call[j].pc
                        /\ call'[j].todo = call[j].todo
      OBVIOUS
    <2>1. CASE Labels!InFlight(j) /\ call[j].issue = issue
      BY <1>1, <1>3, <2>1 DEF Labels!TransitionCall
    <2>2. CASE ~(Labels!InFlight(j) /\ call[j].issue = issue)
      BY <1>1, <2>2
    <2> QED
      BY <2>1, <2>2
  <1>5. call' \in [Callers -> Labels!TransitionCall \cup {NoCall}]
    BY <1>1, <1>2, <1>3 DEF Labels!LabelsTyped
  <1>6. \A j \in Callers : call'[j] # NoCall => call'[j].to \notin call'[j].todo
    BY <1>1, <1>4 DEF Labels!LabelsTyped
  <1> QED
    BY <1>1, <1>4, <1>5, <1>6 DEF Labels!LabelsTyped

\* A call settles in its caller.
LEMMA ResumeEffect ==
    ASSUME Labels!LabelsTyped, NEW k \in Callers, Resume(k)
    PROVE  /\ Labels!LabelsTyped'
           /\ labels' = labels
           /\ call'[k] = NoCall
           /\ \A j \in Callers \ {k} : call'[j] = call[j]
  BY DEF Resume, Labels!LabelsTyped

\* The calls to Linear keep the shape of the labels and of the calls.
LEMMA AnswerTyped ==
    ASSUME Labels!LabelsTyped, NEW k \in Callers, Labels!Step(k)
    PROVE  /\ Labels!LabelsTyped'
           /\ call[k] # NoCall
           /\ call'[k].issue = call[k].issue /\ call'[k].to = call[k].to
           /\ \A j \in Callers \ {k} : call'[j] = call[j]
  <1> DEFINE c == call[k]
             now == labels[c.issue]
  <1>1. Labels!InFlight(k) /\ c # NoCall
    BY DEF Labels!Step, Labels!Answered, Labels!ReadIssue, Labels!AddLabel, Labels!RemoveLabel,
           Labels!ClientFails, Labels!InFlight
  <1>2. /\ c \in Labels!TransitionCall /\ c.issue \in Issues /\ c.to \in Labels!ShamuLabels
        /\ c.todo \subseteq Labels!ShamuLabels /\ c.to \notin c.todo
        /\ now \subseteq Labels!ShamuLabels
    BY <1>1, CallTyped DEF Labels!Targets
  <1>3. \E c2 \in Labels!TransitionCall :
           /\ call' = [call EXCEPT ![k] = c2]
           /\ c2.issue = c.issue /\ c2.to = c.to /\ c2.to \notin c2.todo
    <2>1. CASE Labels!ReadIssue(k)
      <3> DEFINE others == now \ {c.to}
                 c2 == [c EXCEPT !.todo = others,
                                 !.pc = IF c.to \notin now THEN "add"
                                        ELSE IF others = {} THEN "ok" ELSE "remove"]
      <3>1. c2 \in Labels!TransitionCall /\ c2.issue = c.issue /\ c2.to = c.to /\ c2.todo = others
        BY <1>2 DEF Labels!TransitionCall
      <3>2. call' = [call EXCEPT ![k] = c2]
        BY <2>1 DEF Labels!ReadIssue, Labels!LabelsTyped
      <3> QED
        BY <3>1, <3>2
    <2>2. CASE Labels!AddLabel(k)
      <3> DEFINE c2 == [c EXCEPT !.pc = IF c.todo = {} THEN "ok" ELSE "remove"]
      <3>1. c2 \in Labels!TransitionCall /\ c2.issue = c.issue /\ c2.to = c.to /\ c2.todo = c.todo
        BY <1>2 DEF Labels!TransitionCall
      <3>2. call' = [call EXCEPT ![k] = c2]
        BY <2>2 DEF Labels!AddLabel, Labels!LabelsTyped
      <3> QED
        BY <1>2, <3>1, <3>2
    <2>3. CASE Labels!RemoveLabel(k)
      <3>1. PICK name \in c.todo :
               call' = [call EXCEPT ![k].todo = @ \ {name},
                                    ![k].pc = IF c.todo = {name} THEN "ok" ELSE "remove"]
        BY <2>3 DEF Labels!RemoveLabel
      <3> DEFINE c2 == [c EXCEPT !.todo = c.todo \ {name},
                                 !.pc = IF c.todo = {name} THEN "ok" ELSE "remove"]
      <3>2. c2 \in Labels!TransitionCall /\ c2.issue = c.issue /\ c2.to = c.to
            /\ c2.todo = c.todo \ {name}
        BY <1>2 DEF Labels!TransitionCall
      <3>3. call' = [call EXCEPT ![k] = c2]
        BY <3>1 DEF Labels!LabelsTyped
      <3> QED
        BY <1>2, <3>2, <3>3
    <2>4. CASE Labels!ClientFails(k)
      <3> DEFINE c2 == [c EXCEPT !.pc = "failed"]
      <3>1. c2 \in Labels!TransitionCall /\ c2.issue = c.issue /\ c2.to = c.to /\ c2.todo = c.todo
        BY <1>2 DEF Labels!TransitionCall
      <3>2. call' = [call EXCEPT ![k] = c2]
        BY <2>4 DEF Labels!ClientFails, Labels!LabelsTyped
      <3> QED
        BY <1>2, <3>1, <3>2
    <2> QED
      BY <2>1, <2>2, <2>3, <2>4 DEF Labels!Step, Labels!Answered
  <1>4. labels' \in [Issues -> SUBSET Labels!ShamuLabels]
    <2>1. \/ labels' = labels
          \/ labels' = [labels EXCEPT ![c.issue] = now \cup {c.to}]
          \/ \E name \in c.todo : labels' = [labels EXCEPT ![c.issue] = now \ {name}]
      BY DEF Labels!Step, Labels!Answered, Labels!ReadIssue, Labels!AddLabel, Labels!RemoveLabel,
             Labels!ClientFails
    <2> QED
      BY <1>2, <2>1 DEF Labels!LabelsTyped
  <1> QED
    BY <1>1, <1>3, <1>4 DEF Labels!LabelsTyped

\* Only the call's target can come to an issue, and only to the call's issue;
\* a call that leaves in-progress has it on its list or sees it gone.
LEMMA AnswerEffect ==
    ASSUME Labels!LabelsTyped, NEW k \in Callers, Labels!Step(k), NEW i \in Issues,
           "in-progress" \in labels'[i]
    PROVE  /\ "in-progress" \in labels[i] \/ (i = call[k].issue /\ call[k].to = "in-progress")
           /\ i = call[k].issue /\ call[k].to # "in-progress" =>
                 /\ call[k].pc \in {"add", "remove"} /\ call'[k].pc \in {"add", "remove", "ok"}
                       /\ "in-progress" \in call[k].todo =>
                          call'[k].pc # "ok" /\ "in-progress" \in call'[k].todo
                 /\ call[k].pc = "read" =>
                       /\ call'[k].pc # "ok"
                       /\ call'[k].pc \in {"add", "remove"} => "in-progress" \in call'[k].todo
                 /\ call[k].pc \in {"read", "add", "remove"}
  <1> DEFINE c == call[k]
  <1>1. Labels!InFlight(k) /\ c # NoCall /\ c.pc \in {"read", "add", "remove"}
    BY DEF Labels!Step, Labels!Answered, Labels!ReadIssue, Labels!AddLabel, Labels!RemoveLabel,
           Labels!ClientFails, Labels!InFlight
  <1>2. /\ c \in Labels!TransitionCall /\ c.issue \in Issues
        /\ labels \in [Issues -> SUBSET Labels!ShamuLabels]
        /\ call \in [Callers -> Labels!TransitionCall \cup {NoCall}]
    BY <1>1, CallTyped DEF Labels!LabelsTyped
  <1>3. CASE Labels!ReadIssue(k)
    <2>1. /\ labels' = labels
          /\ call'[k].todo = labels[c.issue] \ {c.to}
          /\ call'[k].pc = IF c.to \notin labels[c.issue] THEN "add"
                           ELSE IF labels[c.issue] \ {c.to} = {} THEN "ok" ELSE "remove"
          /\ c.pc = "read"
      BY <1>2, <1>3 DEF Labels!ReadIssue, Labels!TransitionCall
    <2> QED
      BY <1>1, <2>1
  <1>4. CASE Labels!AddLabel(k)
    <2>1. /\ labels' = [labels EXCEPT ![c.issue] = @ \cup {c.to}]
          /\ call'[k].todo = c.todo
          /\ call'[k].pc = IF c.todo = {} THEN "ok" ELSE "remove"
          /\ c.pc = "add"
      BY <1>2, <1>4 DEF Labels!AddLabel, Labels!TransitionCall
    <2> QED
      BY <1>1, <1>2, <2>1
  <1>5. CASE Labels!RemoveLabel(k)
    <2>1. PICK name \in c.todo :
             /\ labels' = [labels EXCEPT ![c.issue] = @ \ {name}]
             /\ call' = [call EXCEPT ![k].todo = @ \ {name},
                                     ![k].pc = IF c.todo = {name} THEN "ok" ELSE "remove"]
      BY <1>5 DEF Labels!RemoveLabel
    <2>2. call'[k].todo = c.todo \ {name} /\ c.pc = "remove"
          /\ call'[k].pc = IF c.todo = {name} THEN "ok" ELSE "remove"
      BY <1>2, <1>5, <2>1 DEF Labels!RemoveLabel, Labels!TransitionCall
    <2> QED
      BY <1>1, <1>2, <2>1, <2>2
  <1>6. CASE Labels!ClientFails(k)
    <2>1. labels' = labels /\ call'[k].pc = "failed"
      BY <1>2, <1>6 DEF Labels!ClientFails, Labels!TransitionCall
    <2> QED
      BY <1>1, <2>1
  <1> QED
    BY <1>3, <1>4, <1>5, <1>6 DEF Labels!Step, Labels!Answered

-----------------------------------------------------------------------------

\* A release frees one token and hands it on to parked callers only.
LEMMA ReleaseEffect ==
    ASSUME status \in [Runs -> Limiter!Status], NEW r \in Runs, Limiter!ReleaseFirst(r)
    PROVE  /\ status' \in [Runs -> Limiter!Status]
           /\ status[r] = "held" /\ status'[r] = "released"
           /\ \A v \in Runs \ {r} :
                 status'[v] = status[v] \/ (status[v] = "waiting" /\ status'[v] = "held")
  <1>1. status[r] = "held" /\ r \notin Limiter!pending
    BY DEF Limiter!ReleaseFirst, Limiter!pending
  <1>2. PICK W \in SUBSET Limiter!pending :
           status' = [v \in Runs |->
              IF v \in W THEN "held" ELSE IF v = r THEN "released" ELSE status[v]]
    BY DEF Limiter!ReleaseFirst
  <1> QED
    BY <1>1, <1>2 DEF Limiter!Status, Limiter!pending

\* The three ways a pickup asks the limiter.
LEMMA AskEffect ==
    ASSUME status \in [Runs -> Limiter!Status], NEW r \in Runs
    PROVE  /\ Limiter!TryAcquire(r) => status' = [status EXCEPT ![r] = "held"]
           /\ Limiter!AcquirePark(r) => status' = [status EXCEPT ![r] = "waiting"]
           /\ Limiter!AcquireOverflow(r) => status' = [status EXCEPT ![r] = "overflowed"]
  BY DEF Limiter!TryAcquire, Limiter!MintLease, Limiter!AcquirePark, Limiter!AcquireOverflow

-----------------------------------------------------------------------------

\* The initial states: no pickup yet.
LEMMA InitIInv == Init => IInv
  <1> SUFFICES ASSUME Init PROVE IInv
    OBVIOUS
  <1>1. Typed
    BY DEF Init, Typed, Limiter!Init, Limiter!Status, HandlerState, Labels!LabelInit,
           Labels!LabelsTyped, Labels!ShamuLabels
  <1>2. TokenFits
    BY DEF Init, TokenFits, Limiter!Init, Live
  <1>3. BindingFits
    BY DEF Init, BindingFits, Live
  <1>4. DrainFits
    BY DEF Init, DrainFits
  <1>5. CallFits /\ PlanClears
    BY CallersApart DEF Init, CallFits, PlanClears, Labels!LabelInit
  <1> QED
    BY <1>1, <1>2, <1>3, <1>4, <1>5 DEF IInv

\* Tokens: every path of onPickup and handlePickup takes one, keeps it while the
\* handler is live, and gives it back exactly once.
LEMMA TokensKept ==
    ASSUME IInv, Next
    PROVE  /\ status' \in [Runs -> Limiter!Status]
           /\ handler' \in [Runs -> HandlerState]
           /\ TokenFits'
  <1> DEFINE Goal == /\ status' \in [Runs -> Limiter!Status]
                     /\ handler' \in [Runs -> HandlerState]
                     /\ TokenFits'
  <1>0. /\ status \in [Runs -> Limiter!Status]
        /\ handler \in [Runs -> HandlerState]
        /\ TokenFits
    BY DEF IInv, Typed
  <1>1. ASSUME NEW r \in Runs, Pickup(r) PROVE Goal
    <2>1. handler[r] = "none" /\ status[r] = "idle"
      BY <1>0, <1>1 DEF Pickup, PickupPaused, PickupNow, PickupParked, PickupOverflow, TokenFits
    <2>2. CASE PickupPaused(r)
      BY <1>0, <2>1, <2>2 DEF PickupPaused, limiterVars, TokenFits, HandlerState, Live
    <2>3. CASE PickupNow(r)
      BY <1>0, <2>1, <2>3, AskEffect DEF PickupNow, Spawn, TokenFits, HandlerState, Live, Limiter!Status
    <2>4. CASE PickupParked(r)
      BY <1>0, <2>1, <2>4, AskEffect DEF PickupParked, TokenFits, HandlerState, Live, Limiter!Status
    <2>5. CASE PickupOverflow(r)
      BY <1>0, <2>1, <2>5, AskEffect DEF PickupOverflow, TokenFits, HandlerState, Live, Limiter!Status
    <2> QED
      BY <1>1, <2>2, <2>3, <2>4, <2>5 DEF Pickup
  <1>2. ASSUME NEW r \in Runs, OverflowFlipped(r) PROVE Goal
    BY <1>0, <1>2 DEF OverflowFlipped, limiterVars, TokenFits, HandlerState, Live
  <1>3. ASSUME NEW r \in Runs, Granted(r) PROVE Goal
    <2>1. CASE Limiter!ReleaseFirst(r) /\ handler' = [handler EXCEPT ![r] = "dropped"]
      BY <1>0, <2>1, ReleaseEffect DEF TokenFits, HandlerState, Live
    <2>2. CASE UNCHANGED limiterVars /\ Spawn(r)
      BY <1>0, <1>3, <2>2 DEF Granted, limiterVars, Spawn, TokenFits, HandlerState, Live
    <2> QED
      BY <1>3, <2>1, <2>2 DEF Granted
  <1>4. ASSUME NEW r \in Runs,
               BeginFlow(r) \/ FlowPauses(r) \/ HandlerThrows(r)
                 \/ \E to \in {"review", "blocked"} : FlowEnds(r, to)
        PROVE  Goal
    BY <1>0, <1>4 DEF BeginFlow, FlowPauses, HandlerThrows, FlowEnds, limiterVars, TokenFits,
                      HandlerState, Live
  <1>5. ASSUME NEW r \in Runs, Cleanup(r) PROVE Goal
    BY <1>0, <1>5, ReleaseEffect DEF Cleanup, TokenFits, HandlerState, Live
  <1>6. ASSUME UNCHANGED limiterVars, UNCHANGED handler PROVE Goal
    BY <1>0, <1>6 DEF limiterVars, TokenFits
  <1>7. ASSUME NEW r \in Runs, Escalate(r) \/ SinkStep(r) PROVE Goal
    BY <1>6, <1>7 DEF Escalate, SinkStep, SinkCommented, SinkFlipped
  <1>8. ASSUME NEW k \in Callers, LabelStep(k) PROVE Goal
    BY <1>6, <1>8 DEF LabelStep
  <1>9. ASSUME Pause \/ DrainAndStop \/ DrainStep PROVE Goal
    BY <1>6, <1>9 DEF Pause, DrainAndStop, DrainStep, DriverStopped, RaceSettles, CancelledSettle, Close
  <1> QED
    BY <1>1, <1>2, <1>3, <1>4, <1>5, <1>7, <1>8, <1>9 DEF Next, HandlerStep

\* Bindings: a run's row stays until its own handler releases it, and the broker
\* goes before the row.
LEMMA BindingsKept ==
    ASSUME IInv, Next, LinearRuntimeAssumption
    PROVE  byRun' \in [Runs -> Issues \cup {NoIssue}] /\ broker' \subseteq Runs /\ BindingFits'
  <1> DEFINE Goal == byRun' \in [Runs -> Issues \cup {NoIssue}] /\ broker' \subseteq Runs /\ BindingFits'
  <1>0. /\ byRun \in [Runs -> Issues \cup {NoIssue}]
        /\ handler \in [Runs -> HandlerState]
        /\ broker \subseteq Runs
        /\ BindingFits /\ DrainFits
        /\ IssueOf \in [Runs -> Issues]
    BY DEF IInv, Typed, LinearRuntimeAssumption
  <1>1. ASSUME NEW r \in Runs, Pickup(r) PROVE Goal
    <2>1. handler[r] = "none" /\ r \notin broker /\ broker' = broker /\ drain' = drain
      BY <1>0, <1>1 DEF Pickup, PickupPaused, PickupNow, PickupParked, PickupOverflow, BindingFits,
                        drainVars
    <2>2. CASE PickupPaused(r)
      BY <1>0, <2>1, <2>2 DEF PickupPaused, BindAndRelease, BindingFits, Live
    <2>3. CASE PickupNow(r)
      BY <1>0, <2>1, <2>3 DEF PickupNow, Spawn, Bind, BindingFits, Live
    <2>4. CASE PickupParked(r)
      BY <1>0, <2>1, <2>4 DEF PickupParked, Bind, BindingFits, Live
    <2>5. CASE PickupOverflow(r)
      BY <1>0, <2>1, <2>5 DEF PickupOverflow, Bind, BindingFits, Live
    <2> QED
      BY <1>1, <2>2, <2>3, <2>4, <2>5 DEF Pickup
  <1>2. ASSUME NEW r \in Runs, ReleaseBinding(r), r \notin broker', broker' \subseteq broker, drain' = drain,
               handler' = [handler EXCEPT ![r] = "dropped"] \/ handler' = [handler EXCEPT ![r] = "over"]
        PROVE  Goal
    <2>1. /\ byRun' \in [Runs -> Issues \cup {NoIssue}]
          /\ \A s \in Runs \ {r} : byRun'[s] = byRun[s]
      BY <1>0, <1>2 DEF ReleaseBinding, registryVars
    <2> QED
      BY <1>0, <1>2, <2>1 DEF BindingFits, Live
  <1>3. ASSUME NEW r \in Runs, OverflowFlipped(r) PROVE Goal
    BY <1>0, <1>2, <1>3 DEF OverflowFlipped, drainVars, BindingFits
  <1>4. ASSUME NEW r \in Runs, Granted(r) PROVE Goal
    <2>1. CASE ReleaseBinding(r) /\ handler' = [handler EXCEPT ![r] = "dropped"]
      BY <1>0, <1>2, <1>4, <2>1 DEF Granted, drainVars, BindingFits
    <2>2. CASE UNCHANGED registryVars /\ Spawn(r)
      BY <1>0, <1>4, <2>2 DEF Granted, drainVars, registryVars, Spawn, BindingFits, Live
    <2> QED
      BY <1>4, <2>1, <2>2 DEF Granted
  <1>5. ASSUME NEW r \in Runs, BeginFlow(r) PROVE Goal
    BY <1>0, <1>5 DEF BeginFlow, registryVars, drainVars, BindingFits, Live
  <1>6. ASSUME NEW r \in Runs,
               FlowPauses(r) \/ HandlerThrows(r) \/ \E to \in {"review", "blocked"} : FlowEnds(r, to)
        PROVE  Goal
    BY <1>0, <1>6 DEF FlowPauses, HandlerThrows, FlowEnds, registryVars, drainVars, BindingFits, Live
  <1>7. ASSUME NEW r \in Runs, Cleanup(r) PROVE Goal
    BY <1>0, <1>2, <1>7 DEF Cleanup, drainVars
  <1>8. ASSUME UNCHANGED registryVars, UNCHANGED <<handler, broker>>, drain = "closed" => drain' = "closed"
        PROVE  Goal
    <2>1. byRun' = byRun /\ handler' = handler /\ broker' = broker
      BY <1>8 DEF registryVars
    <2> QED
      BY <1>0, <1>8, <2>1 DEF BindingFits
  <1>9. ASSUME NEW r \in Runs, Escalate(r) \/ SinkStep(r) PROVE Goal
    BY <1>8, <1>9 DEF Escalate, SinkStep, SinkCommented, SinkFlipped, drainVars
  <1>10. ASSUME NEW k \in Callers, LabelStep(k) PROVE Goal
    BY <1>8, <1>10 DEF LabelStep, drainVars
  <1>11. ASSUME Pause \/ DrainAndStop \/ DriverStopped \/ RaceSettles \/ CancelledSettle PROVE Goal
    BY <1>8, <1>11 DEF Pause, DrainAndStop, DriverStopped, RaceSettles, CancelledSettle
  <1>12. ASSUME Close PROVE Goal
    <2>1. byRun' = [r \in Runs |-> NoIssue] /\ drain' = "closed" /\ handler' = handler /\ broker' = broker
      BY <1>12 DEF Close
    <2> QED
      BY <1>0, <2>1 DEF BindingFits
  <1> QED
    BY <1>1, <1>3, <1>4, <1>5, <1>6, <1>7, <1>9, <1>10, <1>11, <1>12 DEF Next, HandlerStep, DrainStep

\* The drain: a pause comes before it, so no run joins those it waits for.
LEMMA DrainKept == ASSUME IInv, Next PROVE DrainFits'
  <1>0. handler \in [Runs -> HandlerState] /\ DrainFits
    BY DEF IInv, Typed
  <1>1. ASSUME UNCHANGED <<paused, drain, awaited>>, inFlightRuns' \subseteq inFlightRuns PROVE DrainFits'
    BY <1>0, <1>1 DEF DrainFits
  <1>2. ASSUME ~paused, UNCHANGED drainVars PROVE DrainFits'
    BY <1>0, <1>2 DEF DrainFits, drainVars
  <1>3. ASSUME NEW r \in Runs, Pickup(r) PROVE DrainFits'
    <2>1. CASE PickupPaused(r)
      BY <1>0, <1>1, <2>1 DEF PickupPaused, drainVars, inFlightRuns, Live
    <2> QED
      BY <1>2, <1>3, <2>1 DEF Pickup, PickupNow, PickupParked, PickupOverflow
  <1>4. ASSUME NEW r \in Runs, Granted(r) PROVE DrainFits'
    <2>1. CASE paused
      BY <1>0, <1>1, <1>4, <2>1 DEF Granted, drainVars, inFlightRuns, Live
    <2> QED
      BY <1>2, <1>4, <2>1 DEF Granted
  <1>5. ASSUME NEW r \in Runs,
               \/ OverflowFlipped(r) \/ BeginFlow(r) \/ FlowPauses(r) \/ HandlerThrows(r) \/ Cleanup(r)
               \/ \E to \in {"review", "blocked"} : FlowEnds(r, to)
        PROVE  DrainFits'
    BY <1>0, <1>1, <1>5 DEF OverflowFlipped, BeginFlow, FlowPauses, HandlerThrows, Cleanup, FlowEnds,
                            drainVars, inFlightRuns, Live
  <1>6. ASSUME NEW r \in Runs, Escalate(r) \/ SinkStep(r) PROVE DrainFits'
    BY <1>1, <1>6 DEF Escalate, SinkStep, SinkCommented, SinkFlipped, drainVars, inFlightRuns
  <1>7. ASSUME NEW k \in Callers, LabelStep(k) PROVE DrainFits'
    BY <1>1, <1>7 DEF LabelStep, drainVars, inFlightRuns
  <1>8. CASE Pause
    BY <1>0, <1>8 DEF Pause, DrainFits, inFlightRuns
  <1>9. CASE DrainAndStop
    BY <1>0, <1>9 DEF DrainAndStop, DrainFits, inFlightRuns
  <1>10. CASE DriverStopped
    BY <1>0, <1>10 DEF DriverStopped, DrainFits, inFlightRuns
  <1>11. CASE RaceSettles
    BY <1>0, <1>11 DEF RaceSettles, DrainFits, inFlightRuns
  <1>12. CASE CancelledSettle
    <2>1. inFlightRuns' = {}
      BY <1>0, <1>12 DEF CancelledSettle, DrainFits, inFlightRuns, Live
    <2> QED
      BY <1>0, <1>12, <2>1 DEF CancelledSettle, DrainFits
  <1>13. CASE Close
    BY <1>0, <1>13 DEF Close, DrainFits, inFlightRuns
  <1> QED
    BY <1>3, <1>4, <1>5, <1>6, <1>7, <1>8, <1>9, <1>10, <1>11, <1>12, <1>13
       DEF Next, HandlerStep, DrainStep

\* A handler calls transition() for its own issue, and it is the only one at work.
LEMMA HandlerCalls ==
    ASSUME IInv, LinearRuntimeAssumption, NEW r \in Runs, NEW to \in Labels!Targets,
           Labels!Transition(OfRun(r), IssueOf[r], to),
           NEW at \in {"overflowing", "start", "finish"}, at # "start" => to # "in-progress",
           handler' = [handler EXCEPT ![r] = at]
    PROVE  Labels!LabelsTyped' /\ CallFits' /\ PlanClears'
  <1>0. /\ Labels!LabelsTyped /\ CallFits /\ PlanClears
        /\ handler \in [Runs -> HandlerState]
        /\ OfRun(r) \in Callers /\ IssueOf[r] \in Issues
    BY CallersApart DEF IInv, Typed, LinearRuntimeAssumption
  <1>1. /\ Labels!LabelsTyped'
        /\ labels' = labels
        /\ call'[OfRun(r)].issue = IssueOf[r] /\ call'[OfRun(r)].to = to
        /\ call'[OfRun(r)].pc = "read"
        /\ \A j \in Callers \ {OfRun(r)} :
              /\ call'[j] # NoCall => call[j] # NoCall
              /\ call'[j].issue = call[j].issue
              /\ call'[j].to = call[j].to
              /\ call'[j].pc = call[j].pc
              /\ call'[j].todo = call[j].todo
    BY <1>0, TransitionEffect
  <1>2. /\ \A s \in Runs \ {r} :
              /\ handler'[s] = handler[s]
              /\ OfRun(s) \in Callers \ {OfRun(r)}
        /\ \A s \in Runs : OfSink(s) \in Callers \ {OfRun(r)}
        /\ handler'[r] \in {"overflowing", "start", "finish"}
        /\ handler'[r] # "start" => to # "in-progress"
    BY <1>0, CallersApart
  <1>3. CallFits'
    BY <1>0, <1>1, <1>2 DEF CallFits
  <1>4. PlanClears'
    BY <1>0, <1>1, <1>2 DEF PlanClears, OnlyPickup
  <1> QED
    BY <1>1, <1>3, <1>4

\* The sink's task calls transition() for the issue of its run.
LEMMA SinkCalls ==
    ASSUME IInv, LinearRuntimeAssumption, NEW r \in Runs,
           Labels!Transition(OfSink(r), IssueOf[r], "blocked"), handler' = handler
    PROVE  Labels!LabelsTyped' /\ CallFits' /\ PlanClears'
  <1>0. /\ Labels!LabelsTyped /\ CallFits /\ PlanClears
        /\ OfSink(r) \in Callers /\ IssueOf[r] \in Issues
        /\ "blocked" \in Labels!Targets
    BY CallersApart DEF IInv, Typed, LinearRuntimeAssumption, Labels!Targets, Labels!ShamuLabels
  <1>1. /\ Labels!LabelsTyped'
        /\ labels' = labels
        /\ call'[OfSink(r)].issue = IssueOf[r] /\ call'[OfSink(r)].to = "blocked"
        /\ call'[OfSink(r)].pc = "read"
        /\ \A j \in Callers \ {OfSink(r)} :
              /\ call'[j] # NoCall => call[j] # NoCall
              /\ call'[j].issue = call[j].issue
              /\ call'[j].to = call[j].to
              /\ call'[j].pc = call[j].pc
              /\ call'[j].todo = call[j].todo
    BY <1>0, TransitionEffect
  <1>2. /\ \A s \in Runs \ {r} : OfSink(s) \in Callers \ {OfSink(r)}
        /\ \A s \in Runs : OfRun(s) \in Callers \ {OfSink(r)}
    BY CallersApart
  <1>3. CallFits'
    BY <1>0, <1>1, <1>2 DEF CallFits
  <1>4. PlanClears'
    BY <1>0, <1>1, <1>2 DEF PlanClears, OnlyPickup
  <1> QED
    BY <1>1, <1>3, <1>4

\* A handler goes on after its transition.
LEMMA HandlerResumes ==
    ASSUME IInv, NEW r \in Runs, Resume(OfRun(r)), NEW at \in HandlerState,
           handler' = [handler EXCEPT ![r] = at]
    PROVE  Labels!LabelsTyped' /\ CallFits' /\ PlanClears'
  <1>0. /\ Labels!LabelsTyped /\ CallFits /\ PlanClears
        /\ handler \in [Runs -> HandlerState]
    BY DEF IInv, Typed
  <1>1. /\ Labels!LabelsTyped' /\ labels' = labels
        /\ call'[OfRun(r)] = NoCall
        /\ \A j \in Callers \ {OfRun(r)} : call'[j] = call[j]
    BY <1>0, ResumeEffect, CallersApart
  <1>2. /\ \A s \in Runs \ {r} :
              handler'[s] = handler[s] /\ OfRun(s) \in Callers \ {OfRun(r)}
        /\ \A s \in Runs : OfSink(s) \in Callers \ {OfRun(r)}
    BY <1>0, CallersApart
  <1> QED
    BY <1>0, <1>1, <1>2 DEF CallFits, PlanClears, OnlyPickup

\* A sink task goes on after its transition.
LEMMA SinkResumes ==
    ASSUME IInv, NEW r \in Runs, Resume(OfSink(r)), handler' = handler
    PROVE  Labels!LabelsTyped' /\ CallFits' /\ PlanClears'
  <1>0. Labels!LabelsTyped /\ CallFits /\ PlanClears
    BY DEF IInv, Typed
  <1>1. /\ Labels!LabelsTyped' /\ labels' = labels
        /\ call'[OfSink(r)] = NoCall
        /\ \A j \in Callers \ {OfSink(r)} : call'[j] = call[j]
    BY <1>0, ResumeEffect, CallersApart
  <1>2. /\ \A s \in Runs \ {r} : OfSink(s) \in Callers \ {OfSink(r)}
        /\ \A s \in Runs : OfRun(s) \in Callers \ {OfSink(r)}
    BY CallersApart
  <1> QED
    BY <1>0, <1>1, <1>2 DEF CallFits, PlanClears, OnlyPickup

\* Linear answers a call: nobody else's labels come back in-progress, so the
\* final flip of a pickup that has its issue to itself clears it.
LEMMA LinearAnswers ==
    ASSUME IInv, NEW k \in Callers, LabelStep(k)
    PROVE  Labels!LabelsTyped' /\ CallFits' /\ PlanClears'
  <1>0. /\ Labels!LabelsTyped /\ CallFits /\ PlanClears
        /\ Labels!Step(k) /\ handler' = handler
    BY DEF IInv, Typed, LabelStep, Labels!Step
  <1>1. /\ Labels!LabelsTyped'
        /\ call[k] # NoCall
        /\ call'[k].issue = call[k].issue /\ call'[k].to = call[k].to
        /\ \A j \in Callers \ {k} : call'[j] = call[j]
    BY <1>0, AnswerTyped
  <1>2. CallFits'
    <2> SUFFICES ASSUME NEW r \in Runs
                 PROVE  /\ call'[OfRun(r)] # NoCall =>
                              /\ call'[OfRun(r)].issue = IssueOf[r]
                              /\ handler[r] \in {"overflowing", "start", "finish"}
                              /\ handler[r] # "start" => call'[OfRun(r)].to # "in-progress"
                        /\ call'[OfSink(r)] # NoCall =>
                              call'[OfSink(r)].issue = IssueOf[r] /\ call'[OfSink(r)].to = "blocked"
      BY <1>0 DEF CallFits
    <2>1. OfRun(r) \in Callers /\ OfSink(r) \in Callers
      BY CallersApart
    <2> QED
      BY <1>0, <1>1, <2>1 DEF CallFits
  <1>3. PlanClears'
    <2> SUFFICES ASSUME NEW r \in Runs, OnlyPickup(r), handler[r] = "finish", call'[OfRun(r)] # NoCall,
                        "in-progress" \in labels'[IssueOf[r]]
                 PROVE  /\ call'[OfRun(r)].pc \in {"add", "remove"} =>
                              "in-progress" \in call'[OfRun(r)].todo
                        /\ call'[OfRun(r)].pc # "ok"
      BY <1>0 DEF PlanClears, OnlyPickup
    <2> DEFINE c == call[OfRun(r)]
    <2>1. OfRun(r) \in Callers /\ c # NoCall
      BY <1>1, CallersApart
    <2>2. /\ c.issue = IssueOf[r] /\ c.to # "in-progress" /\ c.pc \in {"read", "add", "remove", "ok", "failed"}
          /\ IssueOf[r] \in Issues
      BY <1>0, <2>1, CallTyped DEF CallFits, Labels!TransitionCall
    <2>3. "in-progress" \in labels[IssueOf[r]]
      <3>1. PICK s \in Runs : k = OfRun(s) \/ k = OfSink(s)
        BY CallerOf
      <3>2. call[k].issue = IssueOf[r] /\ call[k].to = "in-progress" => k = OfRun(s) /\ s = r
        BY <1>0, <1>1, <3>1 DEF CallFits, OnlyPickup
      <3> QED
        BY <1>0, <2>2, <3>2, AnswerEffect
    <2>4. /\ c.pc \in {"add", "remove"} => "in-progress" \in c.todo
          /\ c.pc # "ok"
      BY <1>0, <2>1, <2>3 DEF PlanClears
    <2>5. CASE k = OfRun(r)
      BY <1>0, <2>2, <2>4, <2>5, AnswerEffect
    <2>6. CASE k # OfRun(r)
      BY <1>1, <2>1, <2>4, <2>6
    <2> QED
      BY <2>5, <2>6
  <1> QED
    BY <1>1, <1>2, <1>3

\* Calls: who is waiting for which flip, and what the final flip still has to do.
LEMMA CallsKept ==
    ASSUME IInv, Next, LinearRuntimeAssumption
    PROVE  Labels!LabelsTyped' /\ CallFits' /\ PlanClears'
  <1> DEFINE Goal == Labels!LabelsTyped' /\ CallFits' /\ PlanClears'
  <1>0. /\ Labels!LabelsTyped /\ CallFits /\ PlanClears
        /\ handler \in [Runs -> HandlerState]
        /\ "in-progress" \in Labels!Targets /\ "review" \in Labels!Targets /\ "blocked" \in Labels!Targets
    BY DEF IInv, Typed, Labels!Targets, Labels!ShamuLabels
  <1>1. ASSUME UNCHANGED labelVars,
               handler' = handler
               \/ \E r \in Runs, at \in HandlerState :
                     /\ handler' = [handler EXCEPT ![r] = at]
                     /\ handler[r] \notin {"overflowing", "start", "finish"}
        PROVE  Goal
    <2>1. call' = call /\ labels' = labels
      BY <1>1 DEF labelVars
    <2>2. Labels!LabelsTyped'
      BY <1>0, <2>1 DEF Labels!LabelsTyped
    <2> QED
      BY <1>0, <1>1, <2>1, <2>2 DEF CallFits, PlanClears, OnlyPickup
  <1>2. ASSUME NEW r \in Runs, Pickup(r) PROVE Goal
    <2>1. CASE PickupPaused(r) \/ PickupParked(r)
      BY <1>1, <2>1 DEF PickupPaused, PickupParked, HandlerState
    <2>2. CASE PickupNow(r)
      BY <1>0, <2>2, HandlerCalls DEF PickupNow, Spawn
    <2>3. CASE PickupOverflow(r)
      BY <1>0, <2>3, HandlerCalls DEF PickupOverflow
    <2> QED
      BY <1>2, <2>1, <2>2, <2>3 DEF Pickup
  <1>3. ASSUME NEW r \in Runs, OverflowFlipped(r) \/ BeginFlow(r) \/ Cleanup(r) PROVE Goal
    <2>1. PICK at \in HandlerState : Resume(OfRun(r)) /\ handler' = [handler EXCEPT ![r] = at]
      BY <1>3 DEF OverflowFlipped, BeginFlow, Cleanup, HandlerState
    <2> QED
      BY <2>1, HandlerResumes
  <1>4. ASSUME NEW r \in Runs, Granted(r) PROVE Goal
    <2>1. CASE UNCHANGED labelVars /\ handler' = [handler EXCEPT ![r] = "dropped"]
      BY <1>1, <1>4, <2>1 DEF Granted, HandlerState
    <2>2. CASE Spawn(r)
      BY <1>0, <2>2, HandlerCalls DEF Spawn
    <2> QED
      BY <1>4, <2>1, <2>2 DEF Granted
  <1>5. ASSUME NEW r \in Runs, FlowPauses(r) PROVE Goal
    BY <1>1, <1>5 DEF FlowPauses, HandlerState
  <1>6. ASSUME NEW r \in Runs, HandlerThrows(r) \/ \E to \in {"review", "blocked"} : FlowEnds(r, to)
        PROVE  Goal
    <2>1. \E to \in {"review", "blocked"} :
             /\ Labels!Transition(OfRun(r), IssueOf[r], to)
             /\ handler' = [handler EXCEPT ![r] = "finish"]
      BY <1>6 DEF HandlerThrows, FlowEnds
    <2> QED
      BY <1>0, <2>1, HandlerCalls
  <1>7. ASSUME NEW r \in Runs, Escalate(r) PROVE Goal
    BY <1>1, <1>7 DEF Escalate
  <1>8. ASSUME NEW r \in Runs, SinkStep(r) PROVE Goal
    <2>1. CASE SinkCommented(r)
      BY <1>1, <2>1, SinkCalls DEF SinkCommented
    <2>2. CASE SinkFlipped(r)
      BY <2>2, SinkResumes DEF SinkFlipped
    <2> QED
      BY <1>8, <2>1, <2>2 DEF SinkStep
  <1>9. ASSUME NEW k \in Callers, LabelStep(k) PROVE Goal
    BY <1>9, LinearAnswers
  <1>10. ASSUME Pause \/ DrainAndStop \/ DrainStep PROVE Goal
    BY <1>1, <1>10 DEF Pause, DrainAndStop, DrainStep, DriverStopped, RaceSettles, CancelledSettle, Close
  <1> QED
    BY <1>2, <1>3, <1>4, <1>5, <1>6, <1>7, <1>8, <1>9, <1>10 DEF Next, HandlerStep

\* The daemon's inductive invariant, for any pickups, issues and caps.
THEOREM Invariance == Spec => []IInv
  <1>1. IInv /\ [Next]_vars => IInv'
    <2> SUFFICES ASSUME IInv, [Next]_vars PROVE IInv'
      OBVIOUS
    <2>1. CASE Next
      BY <2>1, TokensKept, BindingsKept, DrainKept, CallsKept, LinearRuntimeAssumption DEF IInv, Typed
    <2>2. CASE UNCHANGED vars
      <3>1. /\ status' = status /\ handler' = handler /\ byRun' = byRun /\ broker' = broker
            /\ paused' = paused /\ drain' = drain /\ awaited' = awaited
            /\ labels' = labels /\ call' = call
        BY <2>2 DEF vars, limiterVars, labelVars, registryVars, drainVars
      <3>2. Typed'
        BY <3>1 DEF IInv, Typed, Labels!LabelsTyped
      <3>3. TokenFits' /\ BindingFits' /\ DrainFits'
        BY <3>1 DEF IInv, TokenFits, BindingFits, DrainFits, inFlightRuns
      <3>4. CallFits' /\ PlanClears'
        BY <3>1 DEF IInv, CallFits, PlanClears, OnlyPickup
      <3> QED
        BY <3>2, <3>3, <3>4 DEF IInv
    <2> QED
      BY <2>1, <2>2
  <1> QED
    BY <1>1, InitIInv, PTL DEF Spec

\* onPickup, handlePickup and drainAndStop keep their promises together: a run in
\* flight holds exactly one token, an escalation finds the issue of its run, close
\* leaves no run behind, the final flip takes in-progress away, and a pause stops a
\* pickup that was waiting for its token.
THEOREM RuntimeCorrect == Spec => RuntimeSound
  <1>1. IInv => TokenPerRun /\ EscalationRouted /\ Drained
    <2> SUFFICES ASSUME IInv PROVE TokenPerRun /\ EscalationRouted /\ Drained
      OBVIOUS
    <2>1. TokenPerRun
      BY DEF IInv, Typed, TokenFits, TokenPerRun, Limiter!Held, inFlightRuns, Live, HandlerState
    <2>2. EscalationRouted
      <3> SUFFICES ASSUME NEW r \in broker PROVE byRun[r] = IssueOf[r]
        BY DEF EscalationRouted
      <3>1. r \in inFlightRuns
        BY DEF IInv, Typed, BindingFits, inFlightRuns, Live
      <3>2. drain # "closed"
        BY <3>1 DEF IInv, DrainFits
      <3> QED
        BY <3>1, <3>2 DEF IInv, BindingFits, inFlightRuns
    <2>3. Drained
      BY DEF IInv, DrainFits, Drained
    <2> QED
      BY <2>1, <2>2, <2>3
  <1>2. IInv /\ [Next]_vars =>
           [\A r \in Runs :
               /\ handler[r] = "finish" /\ handler'[r] = "over"
               /\ call[OfRun(r)] # NoCall /\ call[OfRun(r)].pc = "ok"
               /\ \A s \in Runs \ {r} : IssueOf[s] # IssueOf[r]
               => "in-progress" \notin labels[IssueOf[r]]]_vars
    BY DEF IInv, PlanClears, OnlyPickup
  <1>3. IInv /\ [Next]_vars => [paused => inFlightRuns' \subseteq inFlightRuns]_vars
    <2> SUFFICES ASSUME IInv, Next, paused PROVE inFlightRuns' \subseteq inFlightRuns
      OBVIOUS
    <2>0. handler \in [Runs -> HandlerState]
      BY DEF IInv, Typed
    <2>1. ASSUME NEW r \in Runs, Pickup(r) PROVE inFlightRuns' \subseteq inFlightRuns
      BY <2>0, <2>1 DEF Pickup, PickupPaused, PickupNow, PickupParked, PickupOverflow, inFlightRuns, Live
    <2>2. ASSUME NEW r \in Runs, Granted(r) PROVE inFlightRuns' \subseteq inFlightRuns
      BY <2>0, <2>2 DEF Granted, inFlightRuns, Live
    <2>3. ASSUME NEW r \in Runs,
                 \/ OverflowFlipped(r) \/ BeginFlow(r) \/ FlowPauses(r) \/ HandlerThrows(r) \/ Cleanup(r)
                 \/ \E to \in {"review", "blocked"} : FlowEnds(r, to)
          PROVE  inFlightRuns' \subseteq inFlightRuns
      BY <2>0, <2>3 DEF OverflowFlipped, BeginFlow, FlowPauses, HandlerThrows, Cleanup, FlowEnds,
                        inFlightRuns, Live
    <2>4. ASSUME handler' = handler PROVE inFlightRuns' \subseteq inFlightRuns
      BY <2>4 DEF inFlightRuns
    <2>5. ASSUME NEW r \in Runs, Escalate(r) \/ SinkStep(r) PROVE inFlightRuns' \subseteq inFlightRuns
      BY <2>4, <2>5 DEF Escalate, SinkStep, SinkCommented, SinkFlipped
    <2>6. ASSUME NEW k \in Callers, LabelStep(k) PROVE inFlightRuns' \subseteq inFlightRuns
      BY <2>4, <2>6 DEF LabelStep
    <2>7. CASE Pause \/ DrainAndStop \/ DrainStep
      BY <2>4, <2>7 DEF Pause, DrainAndStop, DrainStep, DriverStopped, RaceSettles, CancelledSettle, Close
    <2> QED
      BY <2>1, <2>2, <2>3, <2>5, <2>6, <2>7 DEF Next, HandlerStep
  <1> QED
    BY <1>1, <1>2, <1>3, Invariance, PTL DEF RuntimeSound, InProgressCleared, NoSpawnAfterPause, Spec

\* The daemon uses the rate limiter as its specification allows: every step of the
\* daemon is a call of tryAcquire, acquire or release, or does not touch it.
THEOREM UsesLimiter == Spec => Limiter!Spec
  <1>1. Init => Limiter!Init
    BY DEF Init
  <1>2. [Next]_vars => [Limiter!Next]_(Limiter!limiterVars)
    <2> SUFFICES ASSUME Next PROVE Limiter!Next \/ UNCHANGED Limiter!limiterVars
      BY DEF vars, limiterVars, Limiter!limiterVars
    <2>1. ASSUME NEW r \in Runs, Limiter!TryAcquire(r) \/ Limiter!AcquirePark(r)
                                 \/ Limiter!AcquireOverflow(r) \/ Limiter!ReleaseFirst(r)
          PROVE  Limiter!Next
      BY <2>1 DEF Limiter!Next, Limiter!Acquire, Limiter!Release
    <2>2. ASSUME UNCHANGED limiterVars PROVE UNCHANGED Limiter!limiterVars
      BY <2>2 DEF limiterVars, Limiter!limiterVars
    <2>3. ASSUME NEW r \in Runs, Pickup(r) PROVE Limiter!Next \/ UNCHANGED Limiter!limiterVars
      BY <2>1, <2>2, <2>3 DEF Pickup, PickupPaused, PickupNow, PickupParked, PickupOverflow
    <2>4. ASSUME NEW r \in Runs, HandlerStep(r) PROVE Limiter!Next \/ UNCHANGED Limiter!limiterVars
      BY <2>1, <2>2, <2>4 DEF HandlerStep, OverflowFlipped, Granted, BeginFlow, FlowEnds, FlowPauses,
                              HandlerThrows, Cleanup
    <2>5. ASSUME NEW r \in Runs, Escalate(r) \/ SinkStep(r) PROVE UNCHANGED Limiter!limiterVars
      BY <2>2, <2>5 DEF Escalate, SinkStep, SinkCommented, SinkFlipped
    <2>6. ASSUME NEW k \in Callers, LabelStep(k) PROVE UNCHANGED Limiter!limiterVars
      BY <2>2, <2>6 DEF LabelStep
    <2>7. CASE Pause \/ DrainAndStop \/ DrainStep
      BY <2>2, <2>7 DEF Pause, DrainAndStop, DrainStep, DriverStopped, RaceSettles, CancelledSettle, Close
    <2> QED
      BY <2>3, <2>4, <2>5, <2>6, <2>7 DEF Next
  <1> QED
    BY <1>1, <1>2, PTL DEF Spec, Limiter!Spec
=============================================================================
