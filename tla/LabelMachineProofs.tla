------------------------- MODULE LabelMachineProofs -------------------------
(***************************************************************************)
(* Proofs about the label machine, for any number of issues and callers,   *)
(* and, in the second part, about the client it calls and the rolling      *)
(* comment, for any number of calls, labels and edits; in the third part,  *)
(* about the receiver of the webhooks.                                     *)
(*                                                                         *)
(* Both properties of LabelMachine speak of a transition that no other one overlaps.  What *)
(* makes them inductive: while such a transition is in flight, its plan    *)
(* (the target and the labels left to remove) and the issue's labels in    *)
(* Linear determine each other, and nobody else is at work on the issue.   *)
(***************************************************************************)
EXTENDS LabelMachine, LinearClient, Webhook, FiniteSetTheorems, SequenceTheorems,
        WellFoundedInduction, TLAPS

\* Two transitions in flight for one issue know of each other.
OverlapKnown ==
    \A k, j \in Callers :
        InFlight(k) /\ InFlight(j) /\ k # j /\ call[k].issue = call[j].issue => ~call[k].alone

\* The plan of a transition that runs alone fits the issue's labels.
PlanFits ==
    \A k \in Callers :
        InFlight(k) /\ call[k].alone =>
            LET now == labels[call[k].issue] IN
            /\ call[k].pc = "add" => call[k].todo = now \ {call[k].to}
            /\ call[k].pc = "remove" => now = {call[k].to} \cup call[k].todo

LInv == LabelsTyped /\ OverlapKnown /\ PlanFits

\* A caller in flight is in a well-formed transition.
LEMMA InFlightTyped ==
    ASSUME LabelsTyped, NEW k \in Callers, InFlight(k)
    PROVE  /\ call[k] \in TransitionCall
           /\ call[k].issue \in Issues
           /\ call[k].to \in ShamuLabels
           /\ call[k].todo \subseteq ShamuLabels
           /\ call[k].alone \in BOOLEAN
           /\ call[k].to \notin call[k].todo
  BY DEF LabelsTyped, InFlight, TransitionCall, Targets

\* The initial states: no transition is in flight.
LEMMA InitLInv == LabelInit => LInv
  <1> SUFFICES ASSUME LabelInit PROVE LInv
    OBVIOUS
  <1>1. LabelsTyped
    BY DEF LabelInit, LabelsTyped, ShamuLabels
  <1>2. \A k \in Callers : ~InFlight(k)
    BY DEF LabelInit, InFlight
  <1> QED
    BY <1>1, <1>2 DEF LInv, OverlapKnown, PlanFits

\* transition() is called: the caller and every other one of the issue learn of it.
LEMMA TransitionKeeps ==
    ASSUME LInv, NEW k \in Callers, NEW issue \in Issues, NEW to \in Targets,
           Transition(k, issue, to)
    PROVE  LInv'
  <1> DEFINE fresh == [issue |-> issue, to |-> to, pc |-> "read", todo |-> {}, alone |-> ~Busy(issue)]
  <1>1. /\ labels' = labels
        /\ call' \in [Callers -> TransitionCall \cup {NoCall}]
        /\ call'[k] = fresh
        /\ \A j \in Callers \ {k} :
              call'[j] = IF InFlight(j) /\ call[j].issue = issue
                           THEN [call[j] EXCEPT !.alone = FALSE] ELSE call[j]
    <2>1. fresh \in TransitionCall
      BY DEF TransitionCall, Busy
    <2>2. \A j \in Callers : InFlight(j) => [call[j] EXCEPT !.alone = FALSE] \in TransitionCall
      BY InFlightTyped DEF LInv, TransitionCall
    <2> QED
      BY <2>1, <2>2 DEF Transition, Called, LInv, LabelsTyped
  <1>2. \A j \in Callers \ {k} :
           InFlight(j)' => /\ InFlight(j)
                           /\ call[j] \in TransitionCall
                           /\ call'[j].issue = call[j].issue
                           /\ call'[j].to = call[j].to
                           /\ call'[j].pc = call[j].pc
                           /\ call'[j].todo = call[j].todo
                           /\ call'[j].alone => call[j].alone
                           /\ call[j].issue = issue => ~call'[j].alone
    <2> SUFFICES ASSUME NEW j \in Callers \ {k}, InFlight(j)'
                 PROVE  /\ InFlight(j)
                        /\ call[j] \in TransitionCall
                        /\ call'[j].issue = call[j].issue
                        /\ call'[j].to = call[j].to
                        /\ call'[j].pc = call[j].pc
                        /\ call'[j].todo = call[j].todo
                        /\ call'[j].alone => call[j].alone
                        /\ call[j].issue = issue => ~call'[j].alone
      OBVIOUS
    <2>1. CASE InFlight(j) /\ call[j].issue = issue
      BY <1>1, <2>1, InFlightTyped DEF LInv, TransitionCall
    <2>2. CASE ~(InFlight(j) /\ call[j].issue = issue)
      BY <1>1, <2>2, InFlightTyped DEF LInv, InFlight
    <2> QED
      BY <2>1, <2>2
  <1>3. LabelsTyped'
    <2>1. \A j \in Callers : call'[j] # NoCall => call'[j].to \notin call'[j].todo
      <3> SUFFICES ASSUME NEW j \in Callers, call'[j] # NoCall
                   PROVE  call'[j].to \notin call'[j].todo
        OBVIOUS
      <3>1. CASE j = k
        BY <1>1, <3>1
      <3>2. CASE j # k /\ InFlight(j) /\ call[j].issue = issue
        BY <1>1, <3>2, InFlightTyped DEF LInv, TransitionCall
      <3>3. CASE j # k /\ ~(InFlight(j) /\ call[j].issue = issue)
        BY <1>1, <3>3 DEF LInv, LabelsTyped
      <3> QED
        BY <3>1, <3>2, <3>3
    <2> QED
      BY <1>1, <2>1 DEF LInv, LabelsTyped
  <1>4. OverlapKnown'
    <2> SUFFICES ASSUME NEW a \in Callers, NEW b \in Callers, InFlight(a)', InFlight(b)', a # b,
                        call'[a].issue = call'[b].issue
                 PROVE  ~call'[a].alone
      BY DEF OverlapKnown
    <2>1. CASE a = k
      <3>1. call'[a].issue = issue /\ call'[a].alone = ~Busy(issue)
        BY <1>1, <2>1
      <3>2. InFlight(b) /\ call[b].issue = issue
        BY <1>2, <2>1, <3>1
      <3>3. Busy(issue)
        BY <3>2 DEF Busy
      <3> QED
        BY <3>1, <3>3
    <2>2. CASE b = k
      BY <1>1, <1>2, <2>2
    <2>3. CASE a # k /\ b # k
      BY <1>2, <2>3 DEF LInv, OverlapKnown
    <2> QED
      BY <2>1, <2>2, <2>3
  <1>5. PlanFits'
    <2> SUFFICES ASSUME NEW j \in Callers, InFlight(j)', call'[j].alone
                 PROVE  /\ call'[j].pc = "add" => call'[j].todo = labels'[call'[j].issue] \ {call'[j].to}
                        /\ call'[j].pc = "remove" =>
                              labels'[call'[j].issue] = {call'[j].to} \cup call'[j].todo
      BY DEF PlanFits
    <2>1. CASE j = k
      BY <1>1, <2>1
    <2>2. CASE j # k
      BY <1>1, <1>2, <2>2 DEF LInv, PlanFits
    <2> QED
      BY <2>1, <2>2
  <1> QED
    BY <1>3, <1>4, <1>5 DEF LInv

\* A step of one caller that is in flight: its call moves on within one issue
\* and every other call stays as it is.
Moves(k) ==
    /\ InFlight(k)
    /\ call' = [call EXCEPT ![k] = call'[k]]
    /\ call'[k] \in TransitionCall
    /\ call'[k].issue = call[k].issue
    /\ call'[k].to = call[k].to
    /\ call'[k].alone = call[k].alone
    /\ call'[k].todo \subseteq ShamuLabels \ {call[k].to}

\* A step of k changes no other issue's labels, and on its own issue it is the
\* only one to be alone: it is enough to look at k's own plan.
LEMMA MovesKeeps ==
    ASSUME LInv, NEW k \in Callers, Moves(k),
           labels' \in [Issues -> SUBSET ShamuLabels],
           \A i \in Issues : i # call[k].issue => labels'[i] = labels[i],
           InFlight(k)' /\ call[k].alone =>
               /\ call'[k].pc = "add" => call'[k].todo = labels'[call[k].issue] \ {call[k].to}
               /\ call'[k].pc = "remove" => labels'[call[k].issue] = {call[k].to} \cup call'[k].todo
    PROVE  LInv'
  <1>1. /\ call'[k] \in TransitionCall
        /\ call' \in [Callers -> TransitionCall \cup {NoCall}]
        /\ \A j \in Callers \ {k} : call'[j] = call[j]
    BY DEF LInv, LabelsTyped, Moves
  <1>2. LabelsTyped'
    BY <1>1 DEF LInv, LabelsTyped, Moves
  <1>3. OverlapKnown'
    <2> SUFFICES ASSUME NEW a \in Callers, NEW b \in Callers, InFlight(a)', InFlight(b)', a # b,
                        call'[a].issue = call'[b].issue
                 PROVE  ~call'[a].alone
      BY DEF OverlapKnown
    <2>1. InFlight(a) /\ InFlight(b)
      BY <1>1 DEF InFlight, Moves
    <2>2. call[a].issue = call[b].issue /\ call'[a].alone = call[a].alone
      BY <1>1 DEF Moves
    <2> QED
      BY <2>1, <2>2 DEF LInv, OverlapKnown
  <1>4. PlanFits'
    <2> SUFFICES ASSUME NEW j \in Callers, InFlight(j)', call'[j].alone
                 PROVE  /\ call'[j].pc = "add" => call'[j].todo = labels'[call'[j].issue] \ {call'[j].to}
                        /\ call'[j].pc = "remove" =>
                              labels'[call'[j].issue] = {call'[j].to} \cup call'[j].todo
      BY DEF PlanFits
    <2>1. CASE j = k
      BY <2>1 DEF Moves
    <2>2. CASE j # k
      <3>1. call'[j] = call[j] /\ InFlight(j)
        BY <1>1, <2>2 DEF InFlight
      <3>2. call[j].issue # call[k].issue
        BY <2>2, <3>1 DEF LInv, OverlapKnown, Moves
      <3>3. labels'[call[j].issue] = labels[call[j].issue]
        BY <3>1, <3>2, InFlightTyped DEF LInv
      <3> QED
        BY <3>1, <3>3 DEF LInv, PlanFits
    <2> QED
      BY <2>1, <2>2
  <1> QED
    BY <1>2, <1>3, <1>4 DEF LInv

\* getIssue resolves: the plan is made from the labels of that moment.
LEMMA ReadIssueKeeps ==
    ASSUME LInv, NEW k \in Callers, ReadIssue(k)
    PROVE  LInv'
  <1> DEFINE others == labels[call[k].issue] \ {call[k].to}
             next == IF call[k].to \notin labels[call[k].issue] THEN "add"
                     ELSE IF others = {} THEN "ok" ELSE "remove"
  <1>1. /\ InFlight(k) /\ LabelsTyped
        /\ labels' = labels
        /\ call' = [call EXCEPT ![k] = [[call[k] EXCEPT !.todo = others] EXCEPT !.pc = next]]
    BY DEF ReadIssue, LInv
  <1>2. /\ call[k] \in TransitionCall
        /\ labels[call[k].issue] \subseteq ShamuLabels
    BY <1>1, InFlightTyped DEF LabelsTyped
  <1>3. /\ call'[k].issue = call[k].issue
        /\ call'[k].to = call[k].to
        /\ call'[k].alone = call[k].alone
        /\ call'[k].todo = others
        /\ call'[k].pc = next
        /\ call'[k] \in TransitionCall
    BY <1>1, <1>2 DEF TransitionCall, LabelsTyped
  <1>4. Moves(k)
    BY <1>1, <1>2, <1>3 DEF Moves, LabelsTyped
  <1> QED
    BY <1>1, <1>3, <1>4, MovesKeeps DEF LabelsTyped

\* addLabel resolves: the target joins the labels that are left to remove.
LEMMA AddLabelKeeps ==
    ASSUME LInv, NEW k \in Callers, AddLabel(k)
    PROVE  LInv'
  <1> DEFINE next == IF call[k].todo = {} THEN "ok" ELSE "remove"
  <1>1. /\ InFlight(k) /\ LabelsTyped /\ call[k].pc = "add"
        /\ labels' = [labels EXCEPT ![call[k].issue] = @ \cup {call[k].to}]
        /\ call' = [call EXCEPT ![k] = [call[k] EXCEPT !.pc = next]]
    BY DEF AddLabel, LInv
  <1>2. /\ call[k] \in TransitionCall
        /\ call[k].issue \in Issues
        /\ call[k].to \in ShamuLabels
        /\ call[k].todo \subseteq ShamuLabels \ {call[k].to}
    BY <1>1, InFlightTyped
  <1>3. /\ call'[k].issue = call[k].issue
        /\ call'[k].to = call[k].to
        /\ call'[k].alone = call[k].alone
        /\ call'[k].todo = call[k].todo
        /\ call'[k].pc = next
        /\ call'[k] \in TransitionCall
    BY <1>1, <1>2 DEF TransitionCall, LabelsTyped
  <1>4. Moves(k)
    BY <1>1, <1>2, <1>3 DEF Moves, LabelsTyped
  <1>5. /\ labels' \in [Issues -> SUBSET ShamuLabels]
        /\ \A i \in Issues : i # call[k].issue => labels'[i] = labels[i]
        /\ labels'[call[k].issue] = labels[call[k].issue] \cup {call[k].to}
    BY <1>1, <1>2 DEF LabelsTyped
  <1>6. call[k].alone => labels'[call[k].issue] = {call[k].to} \cup call'[k].todo
    BY <1>1, <1>3, <1>5 DEF LInv, PlanFits
  <1> QED
    BY <1>3, <1>4, <1>5, <1>6, MovesKeeps

\* removeLabel resolves: one label less in Linear and in the plan.
LEMMA RemoveLabelKeeps ==
    ASSUME LInv, NEW k \in Callers, RemoveLabel(k)
    PROVE  LInv'
  <1>1. PICK name \in call[k].todo :
          /\ labels' = [labels EXCEPT ![call[k].issue] = @ \ {name}]
          /\ call' = [call EXCEPT ![k].todo = @ \ {name},
                                  ![k].pc = IF call[k].todo = {name} THEN "ok" ELSE "remove"]
    BY DEF RemoveLabel
  <1> DEFINE next == IF call[k].todo = {name} THEN "ok" ELSE "remove"
  <1>2. /\ InFlight(k) /\ LabelsTyped /\ call[k].pc = "remove"
        /\ call' = [call EXCEPT ![k] = [[call[k] EXCEPT !.todo = @ \ {name}] EXCEPT !.pc = next]]
    BY <1>1 DEF RemoveLabel, LInv
  <1>3. /\ call[k] \in TransitionCall
        /\ call[k].issue \in Issues
        /\ call[k].todo \subseteq ShamuLabels \ {call[k].to}
    BY <1>2, InFlightTyped
  <1>4. /\ call'[k].issue = call[k].issue
        /\ call'[k].to = call[k].to
        /\ call'[k].alone = call[k].alone
        /\ call'[k].todo = call[k].todo \ {name}
        /\ call'[k].pc = next
        /\ call'[k] \in TransitionCall
    BY <1>2, <1>3 DEF TransitionCall, LabelsTyped
  <1>5. Moves(k)
    BY <1>2, <1>3, <1>4 DEF Moves, LabelsTyped
  <1>6. /\ labels' \in [Issues -> SUBSET ShamuLabels]
        /\ \A i \in Issues : i # call[k].issue => labels'[i] = labels[i]
        /\ labels'[call[k].issue] = labels[call[k].issue] \ {name}
    BY <1>1, <1>2, <1>3 DEF LabelsTyped
  <1>7. call[k].alone => labels'[call[k].issue] = {call[k].to} \cup call'[k].todo
    <2> SUFFICES ASSUME call[k].alone PROVE labels'[call[k].issue] = {call[k].to} \cup call'[k].todo
      OBVIOUS
    <2>1. labels[call[k].issue] = {call[k].to} \cup call[k].todo
      BY <1>2 DEF LInv, PlanFits
    <2>2. name # call[k].to
      BY <1>3
    <2> QED
      BY <2>1, <2>2, <1>4, <1>6
  <1> QED
    BY <1>4, <1>5, <1>6, <1>7, MovesKeeps

\* A client call fails: the transition is over and nothing is rolled back.
LEMMA ClientFailsKeeps ==
    ASSUME LInv, NEW k \in Callers, ClientFails(k)
    PROVE  LInv'
  <1>1. /\ InFlight(k) /\ LabelsTyped
        /\ labels' = labels
        /\ call' = [call EXCEPT ![k] = [call[k] EXCEPT !.pc = "failed"]]
    BY DEF ClientFails, LInv
  <1>2. /\ call[k] \in TransitionCall
        /\ call[k].todo \subseteq ShamuLabels \ {call[k].to}
    BY <1>1, InFlightTyped
  <1>3. /\ call'[k].issue = call[k].issue
        /\ call'[k].to = call[k].to
        /\ call'[k].alone = call[k].alone
        /\ call'[k].todo = call[k].todo
        /\ call'[k].pc = "failed"
        /\ call'[k] \in TransitionCall
    BY <1>1, <1>2 DEF TransitionCall, LabelsTyped
  <1>4. Moves(k)
    BY <1>1, <1>2, <1>3 DEF Moves, LabelsTyped
  <1> QED
    BY <1>1, <1>3, <1>4, MovesKeeps DEF LabelsTyped

\* A person labels an issue that no transition is at work on.
LEMMA HumanAddsKeeps ==
    ASSUME LInv, NEW issue \in Issues, HumanAdds(issue)
    PROVE  LInv'
  <1>1. /\ call' = call
        /\ labels' \in [Issues -> SUBSET ShamuLabels]
        /\ \A i \in Issues : i # issue => labels'[i] = labels[i]
    BY DEF HumanAdds, LInv, LabelsTyped
  <1>2. LabelsTyped' /\ OverlapKnown'
    BY <1>1 DEF LInv, LabelsTyped, OverlapKnown, InFlight
  <1>3. PlanFits'
    <2> SUFFICES ASSUME NEW k \in Callers, InFlight(k), call[k].alone
                 PROVE  /\ call[k].pc = "add" => call[k].todo = labels'[call[k].issue] \ {call[k].to}
                        /\ call[k].pc = "remove" => labels'[call[k].issue] = {call[k].to} \cup call[k].todo
      BY <1>1 DEF PlanFits, InFlight
    <2>1. call[k].issue # issue
      BY DEF HumanAdds, Busy
    <2>2. labels'[call[k].issue] = labels[call[k].issue]
      BY <1>1, <2>1, InFlightTyped DEF LInv
    <2> QED
      BY <2>2 DEF LInv, PlanFits
  <1> QED
    BY <1>2, <1>3 DEF LInv

\* Every step keeps the invariant.
LEMMA NextKeeps == LInv /\ [LabelNext]_labelVars => LInv'
  <1> SUFFICES ASSUME LInv, [LabelNext]_labelVars PROVE LInv'
    OBVIOUS
  <1>1. CASE \E k \in Callers, issue \in Issues, to \in Targets : Transition(k, issue, to)
    BY <1>1, TransitionKeeps
  <1>2. CASE \E k \in Callers : Step(k)
    BY <1>2, ReadIssueKeeps, AddLabelKeeps, RemoveLabelKeeps, ClientFailsKeeps DEF Step, Answered
  <1>3. CASE \E issue \in Issues : HumanAdds(issue)
    BY <1>3, HumanAddsKeeps
  <1>4. CASE UNCHANGED labelVars
    BY <1>4 DEF labelVars, LInv, LabelsTyped, OverlapKnown, PlanFits, InFlight
  <1> QED
    BY <1>1, <1>2, <1>3, <1>4 DEF LabelNext

\* The plan of a transition that runs alone fits Linear's labels at all times.
THEOREM Invariance == LabelSpec => []LInv
  BY InitLInv, NextKeeps, PTL DEF LabelSpec

\* A transition's next step by another caller, or a person, does not end it.
LEMMA OnlyOwnStepEnds ==
    ASSUME LInv, [LabelNext]_labelVars, NEW k \in Callers, InFlight(k), call'[k].pc = "ok"
    PROVE  Answered(k)
  <1>1. call[k].pc # "ok" /\ call[k] \in TransitionCall
    BY InFlightTyped DEF InFlight, LInv
  <1>2. ASSUME NEW j \in Callers, NEW issue \in Issues, NEW to \in Targets, Transition(j, issue, to)
        PROVE  FALSE
    <2>1. j # k /\ call'[k] \in {call[k], [call[k] EXCEPT !.alone = FALSE]}
      BY <1>2 DEF Transition, Called
    <2> QED
      BY <1>1, <2>1 DEF TransitionCall
  <1>3. ASSUME NEW j \in Callers, Step(j), j # k
        PROVE  FALSE
    <2>1. call'[k] = call[k]
      BY <1>3 DEF Step, Answered, ReadIssue, AddLabel, RemoveLabel, ClientFails, LInv, LabelsTyped
    <2> QED
      BY <1>1, <2>1
  <1>4. ASSUME ClientFails(k)
        PROVE  FALSE
    <2>1. call'[k] = [call[k] EXCEPT !.pc = "failed"]
      BY <1>4 DEF ClientFails, LInv, LabelsTyped
    <2> QED
      BY <1>1, <2>1 DEF TransitionCall
  <1>5. CASE UNCHANGED labelVars
    BY <1>1, <1>5 DEF labelVars
  <1>6. ASSUME NEW issue \in Issues, HumanAdds(issue)
        PROVE  FALSE
    BY <1>1, <1>6 DEF HumanAdds
  <1> QED
    BY <1>2, <1>3, <1>4, <1>5, <1>6 DEF LabelNext, Step

\* labels.ts: a transition that succeeds with nobody beside it leaves exactly its
\* target on the issue, whatever earlier failures left there.
THEOREM AloneConverges == LabelSpec => ConvergesAlone
  <1> DEFINE Conv == \A k \in Callers :
                 InFlight(k) /\ call[k].alone /\ call'[k].pc = "ok"
                     => labels'[call[k].issue] = {call[k].to}
  <1>1. LInv /\ [LabelNext]_labelVars => Conv
    <2> SUFFICES ASSUME LInv, [LabelNext]_labelVars, NEW k \in Callers, InFlight(k), call[k].alone,
                        call'[k].pc = "ok"
                 PROVE  labels'[call[k].issue] = {call[k].to}
      OBVIOUS
    <2>1. /\ call[k] \in TransitionCall /\ call[k].issue \in Issues
          /\ call[k].to \notin call[k].todo
          /\ labels \in [Issues -> SUBSET ShamuLabels]
          /\ call \in [Callers -> TransitionCall \cup {NoCall}]
      BY InFlightTyped DEF LInv, LabelsTyped
    <2>2. CASE ReadIssue(k)
      <3>1. call'[k].pc = IF call[k].to \notin labels[call[k].issue] THEN "add"
                          ELSE IF labels[call[k].issue] \ {call[k].to} = {} THEN "ok" ELSE "remove"
        BY <2>1, <2>2 DEF ReadIssue, TransitionCall
      <3> QED
        BY <2>2, <3>1 DEF ReadIssue
    <2>3. CASE AddLabel(k)
      <3>1. call'[k].pc = IF call[k].todo = {} THEN "ok" ELSE "remove"
        BY <2>1, <2>3 DEF AddLabel, TransitionCall
      <3>2. labels[call[k].issue] \ {call[k].to} = {}
        BY <2>3, <3>1 DEF AddLabel, LInv, PlanFits
      <3>3. labels'[call[k].issue] = labels[call[k].issue] \cup {call[k].to}
        BY <2>1, <2>3 DEF AddLabel
      <3> QED
        BY <3>2, <3>3
    <2>4. CASE RemoveLabel(k)
      <3>1. PICK name \in call[k].todo :
              /\ labels'[call[k].issue] = labels[call[k].issue] \ {name}
              /\ call'[k].pc = IF call[k].todo = {name} THEN "ok" ELSE "remove"
        BY <2>1, <2>4 DEF RemoveLabel, TransitionCall
      <3>2. labels[call[k].issue] = {call[k].to} \cup {name} /\ name # call[k].to
        BY <2>1, <2>4, <3>1 DEF RemoveLabel, LInv, PlanFits
      <3> QED
        BY <3>1, <3>2
    <2> QED
      BY <2>2, <2>3, <2>4, OnlyOwnStepEnds DEF Answered
  <1> QED
    BY <1>1, Invariance, PTL DEF LabelSpec, ConvergesAlone

\* labels.ts adds before it removes: only a transition that overlaps another
\* one can take the last shamu label of an issue away.
THEOREM AloneNeverBare == LabelSpec => BareOnlyByOverlap
  <1> DEFINE Bare == \A issue \in Issues :
                 labels[issue] # {} /\ labels'[issue] = {} =>
                     \E k \in Callers : InFlight(k) /\ call[k].issue = issue /\ ~call[k].alone
  <1>1. LInv /\ [LabelNext]_labelVars => Bare
    <2> SUFFICES ASSUME LInv, [LabelNext]_labelVars, NEW issue \in Issues,
                        labels[issue] # {}, labels'[issue] = {}
                 PROVE  \E k \in Callers : InFlight(k) /\ call[k].issue = issue /\ ~call[k].alone
      OBVIOUS
    <2>1. PICK k \in Callers : RemoveLabel(k)
      <3>1. \A j \in Callers : ~AddLabel(j)
        <4> SUFFICES ASSUME NEW j \in Callers, AddLabel(j) PROVE FALSE
          OBVIOUS
        <4> QED
          BY InFlightTyped DEF AddLabel, LInv, LabelsTyped
      <3>2. \A i \in Issues : ~HumanAdds(i)
        BY DEF HumanAdds, LInv, LabelsTyped
      <3> QED
        BY <3>1, <3>2 DEF LabelNext, Step, Answered, Transition, ReadIssue, ClientFails, labelVars
    <2>2. PICK name \in call[k].todo : labels' = [labels EXCEPT ![call[k].issue] = @ \ {name}]
      BY <2>1 DEF RemoveLabel
    <2>3. InFlight(k) /\ call[k].pc = "remove" /\ call[k].to # name /\ call[k].issue = issue
      BY <2>1, <2>2, InFlightTyped DEF RemoveLabel, LInv, LabelsTyped
    <2>4. call[k].to \notin labels[issue]
      BY <2>2, <2>3 DEF LInv, LabelsTyped
    <2>5. ~call[k].alone
      BY <2>3, <2>4 DEF LInv, PlanFits
    <2> QED
      BY <2>3, <2>5
  <1> QED
    BY <1>1, Invariance, PTL DEF LabelSpec, BareOnlyByOverlap

-----------------------------------------------------------------------------
(***************************************************************************)
(* The client's calls.  A table, wherever it is held, is one that Linear   *)
(* had at some time, so what is read from it bore the name once; and a     *)
(* call that goes on with nothing has lost the cache on its way.           *)
(***************************************************************************)
Tables == [LabelNames -> Nat]
Held == {<<>>} \cup {<<t>> : t \in Tables}
CallPcs == {"idle", "issue", "list", "listed", "cached", "lookup", "mutate", "mutated",
            "ok", "error", "not_found"}

ApiTyped ==
    /\ ids \in Nat
    /\ table \in Tables
    /\ cache \in Held
    /\ calls \in [Calls -> [pc : CallPcs, name : LabelNames \cup {CHOOSE n \in LabelNames : TRUE},
                            id : Nat, got : Held, wrote : Nat]]
    /\ missed \in [Calls -> SUBSET LabelNames]

\* Each id in the table bore its name.
Borne(t) == \A n \in LabelNames : t[n] # 0 => <<n, t[n]>> \in borne

TablesBorne ==
    /\ Borne(table)
    /\ cache # <<>> => Borne(cache[1])
    /\ \A c \in Calls : calls[c].got # <<>> => Borne(calls[c].got[1])

\* What a call has found, and what it may miss.
LookupFits ==
    \A c \in Calls :
        /\ calls[c].pc # "idle" => calls[c].name \in LabelNames
        /\ calls[c].pc = "listed" => calls[c].got # <<>>
        /\ calls[c].pc = "cached" /\ cache = <<>> => missed[c] # {}
        /\ calls[c].pc = "lookup" /\ calls[c].got = <<>> => missed[c] # {}
        /\ calls[c].pc \in {"mutated", "ok"} => calls[c].wrote = calls[c].id

ApiInv == ApiTyped /\ TablesBorne /\ LookupFits /\ LookupSound

LEMMA InitApiInv == ApiInit => ApiInv
  <1> SUFFICES ASSUME ApiInit PROVE ApiInv
    OBVIOUS
  <1> DEFINE first == CHOOSE n \in LabelNames : TRUE
  <1>1. /\ ids = 1
        /\ table = [n \in LabelNames |-> IF n = first THEN 1 ELSE 0]
        /\ borne = {<<first, 1>>}
        /\ cache = <<>>
        /\ calls = [c \in Calls |-> Call("idle", first)]
        /\ missed = [c \in Calls |-> {}]
    BY DEF ApiInit
  <1> HIDE DEF first
  <1>2. ApiTyped
    BY <1>1 DEF ApiTyped, Tables, Held, CallPcs, Call, first
  <1>3. TablesBorne
    BY <1>1 DEF TablesBorne, Borne, Call
  <1> QED
    BY <1>1, <1>2, <1>3 DEF ApiInv, LookupFits, LookupSound, Call

\* A table that is held is one: what cache[1] and got[1] mean.
LEMMA HeldTable ==
    ASSUME NEW h \in Held, h # <<>>
    PROVE  h[1] \in Tables /\ h = <<h[1]>>
  BY DEF Held

\* A step of one call that leaves Linear's table, the cache and what was missed alone.
LEMMA StepKeeps ==
    ASSUME ApiInv, NEW c \in Calls,
           NEW place \in [pc : CallPcs, name : LabelNames, id : Nat, got : Held, wrote : Nat],
           UNCHANGED <<table, cache, ids, borne, missed>>,
           calls' = [calls EXCEPT ![c] = place],
           place.got # <<>> => Borne(place.got[1]),
           place.pc = "listed" => place.got # <<>>,
           place.pc = "cached" /\ cache = <<>> => missed[c] # {},
           place.pc = "lookup" /\ place.got = <<>> => missed[c] # {},
           place.pc \in {"mutated", "ok"} => place.wrote = place.id,
           place.pc \in {"ok", "mutate", "mutated"} => <<place.name, place.id>> \in borne,
           place.pc = "not_found" /\ place.got # <<>> => place.got[1][place.name] = 0,
           place.pc = "not_found" /\ place.got = <<>> => missed[c] # {}
    PROVE  ApiInv'
  <1>1. /\ calls'[c] = place
        /\ \A d \in Calls \ {c} : calls'[d] = calls[d]
    BY DEF ApiInv, ApiTyped
  <1>2. ApiTyped'
    BY DEF ApiInv, ApiTyped
  <1>3. TablesBorne'
    BY <1>1 DEF ApiInv, TablesBorne, Borne
  <1>4. LookupFits'
    BY <1>1 DEF ApiInv, LookupFits
  <1>5. LookupSound'
    BY <1>1 DEF ApiInv, LookupSound
  <1> QED
    BY <1>2, <1>3, <1>4, <1>5 DEF ApiInv

LEMMA ApiInvNext == ApiInv /\ [ApiNext]_linearVars => ApiInv'
  <1> SUFFICES ASSUME ApiInv, [ApiNext]_linearVars PROVE ApiInv'
    OBVIOUS
  <1> USE DEF CallPcs
  <1>c. ASSUME NEW c \in Calls
        PROVE  /\ calls[c] \in [pc : CallPcs, name : LabelNames \cup {CHOOSE n \in LabelNames : TRUE},
                                id : Nat, got : Held, wrote : Nat]
               /\ calls[c].pc # "idle" => calls[c].name \in LabelNames
    BY DEF ApiInv, ApiTyped, LookupFits
  <1>1. ASSUME NEW c \in Calls, NEW name \in LabelNames, addLabel(c, name) PROVE ApiInv'
    <2>1. /\ calls'[c] = Call("issue", name)
          /\ \A d \in Calls \ {c} : calls'[d] = calls[d] /\ missed'[d] = missed[d]
          /\ UNCHANGED <<table, cache, ids, borne>>
      BY <1>1 DEF ApiInv, ApiTyped, addLabel
    <2>2. ApiTyped'
      BY <1>1 DEF ApiInv, ApiTyped, addLabel, Call, Held
    <2>3. TablesBorne'
      BY <2>1 DEF ApiInv, TablesBorne, Borne, Call
    <2>4. LookupFits'
      BY <2>1 DEF ApiInv, LookupFits, Call
    <2>5. LookupSound'
      BY <2>1 DEF ApiInv, LookupSound, Call
    <2> QED
      BY <2>2, <2>3, <2>4, <2>5 DEF ApiInv
  <1>2. ASSUME NEW c \in Calls, getIssue(c) PROVE ApiInv'
    <2> DEFINE new == [calls[c] EXCEPT !.pc = IF cache = <<>> THEN "list" ELSE "lookup",
                                       !.got = IF cache = <<>> THEN <<>> ELSE <<cache[1]>>]
    <2>1. calls' = [calls EXCEPT ![c] = new]
      BY <1>2 DEF getIssue, ApiInv, ApiTyped
    <2>2. cache # <<>> => <<cache[1]>> = cache
      BY HeldTable DEF ApiInv, ApiTyped
    <2>3. new \in [pc : CallPcs, name : LabelNames, id : Nat, got : Held, wrote : Nat]
      BY <1>2, <1>c, <2>2 DEF getIssue, ApiInv, ApiTyped, Held
    <2>4. /\ new.pc = "lookup" => new.got = cache /\ cache # <<>>
          /\ new.pc = "list" => new.got = <<>>
          /\ new.pc \in {"lookup", "list"}
      BY <1>c, <2>2
    <2>5. new.got # <<>> => Borne(new.got[1])
      BY <2>4 DEF ApiInv, TablesBorne
    <2> HIDE DEF new
    <2> QED
      BY <1>2, <2>1, <2>3, <2>4, <2>5, StepKeeps DEF getIssue
  <1>3. ASSUME NEW c \in Calls, ServeList(c) PROVE ApiInv'
    <2> DEFINE new == [calls[c] EXCEPT !.pc = "listed", !.got = <<table>>]
    <2>1. calls' = [calls EXCEPT ![c] = new]
      BY <1>3 DEF ServeList, ApiInv, ApiTyped
    <2>3. new \in [pc : CallPcs, name : LabelNames, id : Nat, got : Held, wrote : Nat]
      BY <1>3, <1>c DEF ServeList, ApiInv, ApiTyped, Held
    <2>4. new.pc = "listed" /\ new.got = <<table>>
      BY <1>c
    <2>5. new.got # <<>> /\ Borne(new.got[1])
      BY <2>4 DEF ApiInv, TablesBorne
    <2> HIDE DEF new
    <2> QED
      BY <1>3, <2>1, <2>3, <2>4, <2>5, StepKeeps DEF ServeList
  <1>4. ASSUME NEW c \in Calls, listLabels(c) PROVE ApiInv'
    <2>1. /\ calls'[c] = [calls[c] EXCEPT !.pc = "cached"]
          /\ \A d \in Calls \ {c} : calls'[d] = calls[d]
          /\ cache' = calls[c].got /\ cache' # <<>>
          /\ UNCHANGED <<table, ids, borne, missed>>
      BY <1>4 DEF ApiInv, ApiTyped, listLabels, LookupFits
    <2>2. ApiTyped'
      BY <1>4, <1>c DEF ApiInv, ApiTyped, listLabels
    <2>3. TablesBorne'
      BY <2>1, <1>c DEF ApiInv, TablesBorne, Borne
    <2>4. calls'[c].pc = "cached" /\ calls'[c].name \in LabelNames
      BY <1>4, <2>1, <1>c DEF listLabels
    <2>5. LookupFits'
      BY <2>1, <2>4 DEF ApiInv, LookupFits
    <2>6. LookupSound'
      BY <2>1, <2>4 DEF ApiInv, LookupSound
    <2> QED
      BY <2>2, <2>3, <2>5, <2>6 DEF ApiInv
  <1>5. ASSUME NEW c \in Calls, Reread(c) PROVE ApiInv'
    <2> DEFINE new == [calls[c] EXCEPT !.pc = "lookup", !.got = cache]
    <2>1. calls' = [calls EXCEPT ![c] = new]
      BY <1>5 DEF Reread, ApiInv, ApiTyped
    <2>3. new \in [pc : CallPcs, name : LabelNames, id : Nat, got : Held, wrote : Nat]
      BY <1>5, <1>c DEF Reread, ApiInv, ApiTyped
    <2>4. new.pc = "lookup" /\ new.got = cache
      BY <1>c
    <2>5. /\ new.got # <<>> => Borne(new.got[1])
          /\ new.got = <<>> => missed[c] # {}
      BY <2>4, <1>5 DEF ApiInv, TablesBorne, LookupFits, Reread
    <2> HIDE DEF new
    <2> QED
      BY <1>5, <2>1, <2>3, <2>4, <2>5, StepKeeps DEF Reread
  <1>6. ASSUME NEW c \in Calls, resolveLabelId(c) PROVE ApiInv'
    <2> DEFINE id == IF calls[c].got = <<>> THEN 0 ELSE calls[c].got[1][calls[c].name]
               new == [calls[c] EXCEPT !.pc = IF id = 0 THEN "not_found" ELSE "mutate", !.id = id]
    <2>1. calls' = [calls EXCEPT ![c] = new]
      BY <1>6 DEF resolveLabelId, ApiInv, ApiTyped
    <2>2. calls[c].name \in LabelNames /\ id \in Nat
      BY <1>6, <1>c, HeldTable DEF resolveLabelId, Tables
    <2>3. new \in [pc : CallPcs, name : LabelNames, id : Nat, got : Held, wrote : Nat]
      BY <1>c, <2>2
    <2>4. /\ new.name = calls[c].name /\ new.got = calls[c].got /\ new.id = id
          /\ new.pc = IF id = 0 THEN "not_found" ELSE "mutate"
      BY <1>c
    <2>5. new.got # <<>> => Borne(new.got[1])
      BY <2>4 DEF ApiInv, TablesBorne
    <2>6. new.pc = "mutate" => <<new.name, new.id>> \in borne
      BY <2>2, <2>4, <2>5 DEF Borne
    <2>7. /\ new.pc = "not_found" /\ new.got # <<>> => new.got[1][new.name] = 0
          /\ new.pc = "not_found" /\ new.got = <<>> => missed[c] # {}
      BY <2>4, <1>6 DEF resolveLabelId, ApiInv, LookupFits
    <2>8. new.pc \in {"not_found", "mutate"}
      BY <2>4
    <2> HIDE DEF new
    <2> QED
      BY <1>6, <2>1, <2>3, <2>5, <2>6, <2>7, <2>8, StepKeeps DEF resolveLabelId
  <1>7. ASSUME NEW c \in Calls, ServeMutation(c) PROVE ApiInv'
    <2> DEFINE new == [calls[c] EXCEPT !.pc = "mutated", !.wrote = calls[c].id]
    <2>1. calls' = [calls EXCEPT ![c] = new]
      BY <1>7 DEF ServeMutation, ApiInv, ApiTyped
    <2>3. new \in [pc : CallPcs, name : LabelNames, id : Nat, got : Held, wrote : Nat]
      BY <1>7, <1>c DEF ServeMutation
    <2>4. /\ new.name = calls[c].name /\ new.got = calls[c].got /\ new.id = calls[c].id
          /\ new.pc = "mutated" /\ new.wrote = new.id
      BY <1>c
    <2>5. new.got # <<>> => Borne(new.got[1])
      BY <2>4 DEF ApiInv, TablesBorne
    <2>6. <<new.name, new.id>> \in borne
      BY <2>4, <1>7 DEF ApiInv, LookupSound, ServeMutation
    <2> HIDE DEF new
    <2> QED
      BY <1>7, <2>1, <2>3, <2>4, <2>5, <2>6, StepKeeps DEF ServeMutation
  <1>8. ASSUME NEW c \in Calls, NEW pc \in {"ok", "error"},
               pc = "ok" => calls[c].pc = "mutated", calls[c].pc # "idle", Finish(c, pc),
               UNCHANGED <<table, cache, ids, borne, missed>>
        PROVE  ApiInv'
    <2> DEFINE new == [calls[c] EXCEPT !.pc = pc]
    <2>1. calls' = [calls EXCEPT ![c] = new]
      BY <1>8 DEF Finish, ApiInv, ApiTyped
    <2>3. new \in [pc : CallPcs, name : LabelNames, id : Nat, got : Held, wrote : Nat]
      BY <1>8, <1>c
    <2>4. /\ new.name = calls[c].name /\ new.got = calls[c].got /\ new.id = calls[c].id
          /\ new.wrote = calls[c].wrote /\ new.pc = pc
      BY <1>c
    <2>5. new.got # <<>> => Borne(new.got[1])
      BY <2>4 DEF ApiInv, TablesBorne
    <2>6. pc = "ok" => <<new.name, new.id>> \in borne /\ new.wrote = new.id
      BY <2>4, <1>8 DEF ApiInv, LookupSound, LookupFits
    <2> HIDE DEF new
    <2> QED
      BY <1>8, <2>1, <2>3, <2>4, <2>5, <2>6, StepKeeps
  <1>9. CASE invalidateTeamCache
    <2>1. /\ cache' = <<>>
          /\ UNCHANGED <<table, calls, ids, borne>>
          /\ \A c \in Calls :
                /\ missed'[c] \in SUBSET LabelNames
                /\ missed[c] \subseteq missed'[c]
                /\ calls[c].pc = "cached" => LabelNames \subseteq missed'[c]
      BY <1>9 DEF ApiInv, ApiTyped, invalidateTeamCache
    <2>2. ApiTyped'
      BY <2>1, <1>9 DEF ApiInv, ApiTyped, Held, invalidateTeamCache
    <2>3. TablesBorne'
      BY <2>1 DEF ApiInv, TablesBorne, Borne
    <2>4. LookupFits'
      BY <2>1, <1>c DEF ApiInv, LookupFits
    <2>5. LookupSound'
      BY <2>1 DEF ApiInv, LookupSound
    <2> QED
      BY <2>2, <2>3, <2>4, <2>5 DEF ApiInv
  <1>10. ASSUME NEW name \in LabelNames, Change(name) PROVE ApiInv'
    <2>1. /\ UNCHANGED <<cache, calls>>
          /\ borne \subseteq borne'
          /\ \A c \in Calls : missed[c] \subseteq missed'[c]
          /\ \A n \in LabelNames \ {name} : table'[n] = table[n]
          /\ table'[name] # 0 => <<name, table'[name]>> \in borne'
      BY <1>10 DEF ApiInv, ApiTyped, Tables, Change
    <2>2. ApiTyped'
      BY <1>10 DEF ApiInv, ApiTyped, Tables, Change
    <2>3. TablesBorne'
      BY <2>1 DEF ApiInv, TablesBorne, Borne
    <2>4. LookupFits'
      BY <2>1 DEF ApiInv, LookupFits
    <2>5. LookupSound'
      BY <2>1 DEF ApiInv, LookupSound
    <2> QED
      BY <2>2, <2>3, <2>4, <2>5 DEF ApiInv
  <1>11. CASE UNCHANGED linearVars
    BY <1>11 DEF linearVars, apiVars, ApiInv, ApiTyped, TablesBorne, Borne, LookupFits, LookupSound
  <1>12. ASSUME NEW c \in Calls, Mutated(c) PROVE ApiInv'
    BY <1>12, <1>8 DEF Mutated
  <1>13. ASSUME NEW c \in Calls, Fails(c) PROVE ApiInv'
    BY <1>13, <1>8 DEF Fails
  <1> QED
    BY <1>1, <1>2, <1>3, <1>4, <1>5, <1>6, <1>7, <1>9, <1>10, <1>11, <1>12, <1>13 DEF ApiNext

-----------------------------------------------------------------------------
(***************************************************************************)
(* The rolling comment.  Without an overlap, Linear's body is the handle's *)
(* or one edit ahead of it: an edit may have been applied and its answer   *)
(* lost.  A summary is written once, since a finalize that begins before   *)
(* another has been answered starts from a body without one.               *)
(***************************************************************************)
EditPcs == {"idle", "noop", "sent", "applied", "ok", "error"}

CommentTyped ==
    /\ comment \in [theirs : Seq(Edits), mine : Seq(Edits), finalized : BOOLEAN,
                    overlapped : BOOLEAN]
    /\ edits \in [Edits -> [pc : EditPcs, body : Seq(Edits)]]

Sending(e) == edits[e].pc \in {"sent", "applied"}

\* At most one summary, and none.
OneFinal(s) == \A j, k \in DOMAIN s : Finalizes(s[j]) /\ Finalizes(s[k]) => j = k
NoFinal(s) == \A j \in DOMAIN s : ~Finalizes(s[j])

SummariesFit ==
    /\ OneFinal(comment.theirs)
    /\ OneFinal(comment.mine)
    /\ \A e \in Edits : Sending(e) => OneFinal(edits[e].body)
    /\ ~comment.finalized =>
          /\ NoFinal(comment.mine)
          /\ \A e \in Edits : Sending(e) /\ ~Finalizes(e) => NoFinal(edits[e].body)

\* The second body is the first one or has one more edit.
Ahead(s, t) == t = s \/ \E e \in Edits : t = Append(s, e)

BodiesFit ==
    ~comment.overlapped =>
        /\ Ahead(comment.mine, comment.theirs)
        /\ \A e \in Edits : edits[e].pc = "ok" => e \in Range(comment.mine)
        /\ \A e, f \in Edits : Sending(e) /\ Sending(f) => e = f
        /\ \A e \in Edits :
              /\ Sending(e) => edits[e].body = Append(comment.mine, e)
              /\ edits[e].pc = "applied" => comment.theirs = edits[e].body

CommentInv == CommentTyped /\ SummariesFit /\ BodiesFit

LEMMA AppendFacts ==
    ASSUME NEW s \in Seq(Edits), NEW e \in Edits
    PROVE  /\ Append(s, e) \in Seq(Edits)
           /\ DOMAIN s = 1..Len(s) /\ DOMAIN Append(s, e) = 1..(Len(s) + 1)
           /\ Len(s) \in Nat /\ Len(Append(s, e)) = Len(s) + 1
           /\ \A k \in 1..Len(s) : Append(s, e)[k] = s[k]
           /\ Append(s, e)[Len(s) + 1] = e
  OBVIOUS

\* An edit appended to a body: its summaries, its edits, and the body it came from.
LEMMA AppendFinals ==
    ASSUME NEW s \in Seq(Edits), NEW e \in Edits
    PROVE  /\ OneFinal(s) /\ ~Finalizes(e) => OneFinal(Append(s, e))
           /\ NoFinal(s) /\ ~Finalizes(e) => NoFinal(Append(s, e))
           /\ NoFinal(s) => OneFinal(Append(s, e))
           /\ Range(s) \subseteq Range(Append(s, e))
           /\ e \in Range(Append(s, e))
           /\ s = SubSeq(Append(s, e), 1, Len(Append(s, e)) - 1)
  <1> DEFINE t == Append(s, e)
  <1>1. /\ t \in Seq(Edits)
        /\ DOMAIN s = 1..Len(s) /\ DOMAIN t = 1..(Len(s) + 1)
        /\ Len(s) \in Nat /\ Len(t) = Len(s) + 1
        /\ \A k \in 1..Len(s) : t[k] = s[k]
        /\ t[Len(s) + 1] = e
    BY AppendFacts
  <1> HIDE DEF t
  <1>2. \A k \in 1..(Len(s) + 1) : k \in 1..Len(s) \/ k = Len(s) + 1
    BY <1>1
  <1>3. OneFinal(s) /\ ~Finalizes(e) => OneFinal(t)
    BY <1>1, <1>2 DEF OneFinal
  <1>4. NoFinal(s) /\ ~Finalizes(e) => NoFinal(t)
    BY <1>1, <1>2 DEF NoFinal
  <1>5. NoFinal(s) => OneFinal(t)
    BY <1>1, <1>2 DEF NoFinal, OneFinal
  <1>6. Range(s) \subseteq Range(t) /\ e \in Range(t)
    BY <1>1 DEF Range
  <1>7. s = SubSeq(t, 1, Len(t) - 1)
    <2>1. \A k \in 1..Len(s) : t[k] \in Edits
      BY <1>1
    <2>2. /\ SubSeq(t, 1, Len(s)) \in Seq(Edits)
          /\ Len(SubSeq(t, 1, Len(s))) = IF 1 <= Len(s) THEN Len(s) - 1 + 1 ELSE 0
          /\ \A k \in 1..(Len(s) - 1 + 1) : SubSeq(t, 1, Len(s))[k] = t[1 + k - 1]
      BY <1>1, <2>1, SubSeqProperties
    <2>3. /\ Len(SubSeq(t, 1, Len(s))) = Len(s)
          /\ \A k \in 1..Len(s) : SubSeq(t, 1, Len(s))[k] = s[k]
      BY <1>1, <2>2
    <2>4. SubSeq(t, 1, Len(s)) = s
      BY <2>2, <2>3, SeqEqual
    <2> QED
      BY <1>1, <2>4
  <1> QED
    BY <1>3, <1>4, <1>5, <1>6, <1>7 DEF t

LEMMA InitCommentInv == CommentInit => CommentInv
  BY DEF CommentInit, CommentInv, CommentTyped, EditPcs, Sending, SummariesFit, BodiesFit,
         OneFinal, NoFinal, Ahead

\* An edit begins: a body with it is sent, unless it is a finalize that has been done.
LEMMA StartKeeps ==
    ASSUME CommentInv, NEW e \in Edits, StartEdit(e)
    PROVE  CommentInv'
  <1> DEFINE body == Append(comment.mine, e)
  <1>1. /\ comment.mine \in Seq(Edits) /\ comment'.mine = comment.mine
        /\ comment'.theirs = comment.theirs /\ comment'.finalized = comment.finalized
        /\ comment'.overlapped = (comment.overlapped \/ \E other \in Edits : Sending(other))
        /\ comment' \in [theirs : Seq(Edits), mine : Seq(Edits), finalized : BOOLEAN,
                         overlapped : BOOLEAN]
    <2>1. comment' = [comment EXCEPT !.overlapped =
                        @ \/ \E other \in Edits : edits[other].pc \in {"sent", "applied"}]
      BY DEF StartEdit
    <2>2. comment.overlapped \/ (\E other \in Edits : Sending(other)) \in BOOLEAN
      BY Zenon DEF CommentInv, CommentTyped
    <2> QED
      BY <2>1 DEF CommentInv, CommentTyped, Sending
  <1>2. CASE Finalizes(e) /\ comment.finalized
    <2>0. edits' = [edits EXCEPT ![e].pc = "noop"] /\ edits[e].pc = "idle"
      BY <1>2, Zenon DEF StartEdit
    <2>1. /\ edits' \in [Edits -> [pc : EditPcs, body : Seq(Edits)]]
          /\ edits'[e].pc = "noop" /\ edits[e].pc = "idle"
          /\ \A f \in Edits \ {e} : edits'[f] = edits[f]
      BY <2>0 DEF CommentInv, CommentTyped, EditPcs
    <2>2. /\ \A f \in Edits : Sending(f)' <=> Sending(f) 
          /\ \A f \in Edits : Sending(f)' => edits'[f] = edits[f]
          /\ \A f \in Edits : edits'[f].pc \in {"ok", "applied"} => edits'[f] = edits[f]
      BY <2>1 DEF Sending
    <2>3. SummariesFit'
      BY <1>1, <2>2 DEF CommentInv, SummariesFit
    <2>4. BodiesFit'
      BY <1>1, <2>2 DEF CommentInv, BodiesFit
    <2> QED
      BY <1>1, <2>1, <2>3, <2>4 DEF CommentInv, CommentTyped
  <1>3. CASE ~(Finalizes(e) /\ comment.finalized)
    <2>1. body \in Seq(Edits)
      BY <1>1, AppendFacts
    <2>0. edits' = [edits EXCEPT ![e] = [pc |-> "sent", body |-> body]]
      BY <1>3, Zenon DEF StartEdit
    <2> HIDE DEF body
    <2>2. /\ edits' \in [Edits -> [pc : EditPcs, body : Seq(Edits)]]
          /\ edits'[e] = [pc |-> "sent", body |-> body]
          /\ \A f \in Edits \ {e} : edits'[f] = edits[f]
      BY <2>0, <2>1 DEF CommentInv, CommentTyped, EditPcs
    <2> USE DEF body
    <2>3. OneFinal(body)
      BY <1>1, <1>3, AppendFinals DEF CommentInv, SummariesFit
    <2>4. ~comment.finalized /\ ~Finalizes(e) => NoFinal(body)
      BY <1>1, <1>3, AppendFinals DEF CommentInv, SummariesFit
    <2> HIDE DEF body
    <2>5. SummariesFit'
      <3>1. \A f \in Edits \ {e} : Sending(f)' => Sending(f) /\ edits'[f].body = edits[f].body
        BY <2>2 DEF Sending
      <3>2. edits'[e].body = body
        BY <2>2
      <3>3. OneFinal(comment'.theirs) /\ OneFinal(comment'.mine)
        BY <1>1 DEF CommentInv, SummariesFit
      <3>4. \A f \in Edits : Sending(f)' => OneFinal(edits'[f].body)
        BY <2>3, <3>1, <3>2 DEF CommentInv, SummariesFit
      <3>5. ~comment'.finalized => NoFinal(comment'.mine)
        BY <1>1 DEF CommentInv, SummariesFit
      <3>6. ~comment'.finalized =>
               \A f \in Edits : Sending(f)' /\ ~Finalizes(f) => NoFinal(edits'[f].body)
        BY <1>1, <2>4, <3>1, <3>2 DEF CommentInv, SummariesFit
      <3> QED
        BY <3>3, <3>4, <3>5, <3>6, Zenon DEF SummariesFit, OneFinal, NoFinal
    <2>6. BodiesFit'
      <3> SUFFICES ASSUME ~comment'.overlapped PROVE BodiesFit'
        BY DEF BodiesFit
      <3>1. ~comment.overlapped /\ \A f \in Edits : ~Sending(f)
        BY <1>1
      <3>2. \A f \in Edits \ {e} : ~Sending(f)'
        BY <2>2, <3>1 DEF Sending
      <3>3. edits'[e].pc = "sent" /\ edits'[e].body = Append(comment'.mine, e)
        BY <1>1, <2>2 DEF body
      <3>4. \A f \in Edits : edits'[f].pc = "ok" => edits[f].pc = "ok"
        BY <2>2
      <3>5. \A f \in Edits : edits'[f].pc = "applied" => Sending(f)' /\ f # e
        BY <3>3 DEF Sending
      <3>6. /\ Ahead(comment'.mine, comment'.theirs)
            /\ \A f \in Edits : edits[f].pc = "ok" => f \in Range(comment'.mine)
        BY <1>1, <3>1 DEF CommentInv, BodiesFit
      <3> QED
        BY <3>2, <3>3, <3>4, <3>5, <3>6 DEF BodiesFit, Ahead
    <2> QED
      BY <1>1, <2>2, <2>5, <2>6 DEF CommentInv, CommentTyped
  <1> QED
    BY <1>2, <1>3

\* Linear takes the body that was sent.
LEMMA ServeKeeps ==
    ASSUME CommentInv, NEW e \in Edits, ServeUpdate(e)
    PROVE  CommentInv'
  <1>1. /\ edits[e].body \in Seq(Edits) /\ edits[e].pc = "sent"
        /\ comment' = [comment EXCEPT !.theirs = edits[e].body]
        /\ edits' \in [Edits -> [pc : EditPcs, body : Seq(Edits)]]
        /\ edits'[e].pc = "applied" /\ edits'[e].body = edits[e].body
        /\ \A f \in Edits \ {e} : edits'[f] = edits[f]
    BY DEF ServeUpdate, CommentInv, CommentTyped, EditPcs
  <1>2. /\ comment'.theirs = edits[e].body /\ comment'.mine = comment.mine
        /\ comment'.finalized = comment.finalized /\ comment'.overlapped = comment.overlapped
        /\ comment' \in [theirs : Seq(Edits), mine : Seq(Edits), finalized : BOOLEAN,
                         overlapped : BOOLEAN]
    BY <1>1 DEF CommentInv, CommentTyped
  <1>3. SummariesFit'
    BY <1>1, <1>2 DEF CommentInv, SummariesFit, Sending
  <1>4. BodiesFit'
    <2> SUFFICES ASSUME ~comment.overlapped PROVE BodiesFit'
      BY <1>2 DEF BodiesFit
    <2>1. /\ edits[e].body = Append(comment.mine, e)
          /\ \A f, g \in Edits : Sending(f) /\ Sending(g) => f = g
          /\ \A f \in Edits : edits[f].pc = "ok" => f \in Range(comment.mine)
          /\ Sending(e)
      BY <1>1 DEF CommentInv, BodiesFit, Sending
    <2>2. \A f \in Edits : Sending(f)' => f = e
      BY <1>1, <2>1 DEF Sending
    <2>3. \A f \in Edits : edits'[f].pc = "ok" => edits[f].pc = "ok"
      BY <1>1
    <2>4. \A f \in Edits : edits'[f].pc = "applied" => f = e
      BY <2>2 DEF Sending
    <2>5. Ahead(comment'.mine, comment'.theirs)
      BY <1>2, <2>1 DEF Ahead
    <2> QED
      BY <1>1, <1>2, <2>1, <2>2, <2>3, <2>4, <2>5 DEF BodiesFit, Ahead
  <1> QED
    BY <1>1, <1>2, <1>3, <1>4 DEF CommentInv, CommentTyped

\* The answer: the handle follows.
LEMMA UpdatedKeeps ==
    ASSUME CommentInv, NEW e \in Edits, Updated(e)
    PROVE  CommentInv'
  <1>1. /\ edits[e].body \in Seq(Edits) /\ edits[e].pc = "applied"
        /\ comment' = [comment EXCEPT !.mine = edits[e].body, !.finalized = @ \/ Finalizes(e)]
        /\ edits' \in [Edits -> [pc : EditPcs, body : Seq(Edits)]]
        /\ edits'[e].pc = "ok"
        /\ \A f \in Edits \ {e} : edits'[f] = edits[f]
    BY DEF Updated, CommentInv, CommentTyped, EditPcs
  <1>2. (comment.finalized \/ Finalizes(e)) \in BOOLEAN
    BY Zenon
  <1>3. /\ comment'.theirs = comment.theirs /\ comment'.mine = edits[e].body
        /\ comment'.finalized = (comment.finalized \/ Finalizes(e))
        /\ comment'.overlapped = comment.overlapped
        /\ comment' \in [theirs : Seq(Edits), mine : Seq(Edits), finalized : BOOLEAN,
                         overlapped : BOOLEAN]
    BY <1>1, <1>2 DEF CommentInv, CommentTyped
  <1>4. SummariesFit'
    BY <1>1, <1>3 DEF CommentInv, SummariesFit, Sending
  <1>5. BodiesFit'
    <2> SUFFICES ASSUME ~comment.overlapped PROVE BodiesFit'
      BY <1>3 DEF BodiesFit
    <2>1. /\ edits[e].body = Append(comment.mine, e) /\ comment.theirs = edits[e].body
          /\ \A f \in Edits : Sending(f) => f = e
          /\ \A f \in Edits : edits[f].pc = "ok" => f \in Range(comment.mine)
      BY <1>1 DEF CommentInv, BodiesFit, Sending
    <2>2. comment.mine \in Seq(Edits)
      BY DEF CommentInv, CommentTyped
    <2>3. \A f \in Edits : edits'[f].pc = "ok" => f \in Range(edits[e].body)
      BY <1>1, <2>1, <2>2, AppendFinals
    <2>4. \A f \in Edits : ~Sending(f)'
      BY <1>1, <2>1 DEF Sending
    <2> QED
      BY <1>3, <2>1, <2>3, <2>4 DEF BodiesFit, Ahead, Sending
  <1> QED
    BY <1>1, <1>3, <1>4, <1>5 DEF CommentInv, CommentTyped

LEMMA FailsKeeps ==
    ASSUME CommentInv, NEW e \in Edits, UpdateFails(e)
    PROVE  CommentInv'
  <1>1. /\ edits' \in [Edits -> [pc : EditPcs, body : Seq(Edits)]]
        /\ edits'[e].pc = "error"
        /\ \A f \in Edits \ {e} : edits'[f] = edits[f]
        /\ comment' = comment
    BY DEF UpdateFails, CommentInv, CommentTyped, EditPcs
  <1>2. SummariesFit'
    BY <1>1 DEF CommentInv, SummariesFit, Sending
  <1>3. BodiesFit'
    BY <1>1 DEF CommentInv, BodiesFit, Sending, Ahead
  <1> QED
    BY <1>1, <1>2, <1>3 DEF CommentInv, CommentTyped

LEMMA CommentInvNext == CommentInv /\ [CommentNext]_linearVars => CommentInv'
  <1> SUFFICES ASSUME CommentInv, [CommentNext]_linearVars PROVE CommentInv'
    OBVIOUS
  <1>1. CASE UNCHANGED linearVars
    BY <1>1 DEF linearVars, commentVars, CommentInv, CommentTyped, SummariesFit, BodiesFit,
                Sending, Ahead
  <1> QED
    BY <1>1, StartKeeps, ServeKeeps, UpdatedKeeps, FailsKeeps DEF CommentNext

LEMMA CommentInvSound == CommentInv => CommentSound
  <1> SUFFICES ASSUME CommentInv PROVE CommentSound
    OBVIOUS
  <1> DEFINE mine == comment.mine
             theirs == comment.theirs
             finals == {k \in DOMAIN theirs : Finalizes(theirs[k])}
  <1>1. mine \in Seq(Edits) /\ theirs \in Seq(Edits)
    BY DEF CommentInv, CommentTyped
  <1>2. Cardinality(finals) <= 1
    <2>1. finals = {} \/ \E k \in finals : finals = {k}
      BY DEF CommentInv, SummariesFit, OneFinal
    <2> HIDE DEF finals
    <2>2. CASE finals = {}
      BY <2>2, FS_EmptySet
    <2>3. CASE \E k \in finals : finals = {k}
      <3> PICK k \in finals : finals = {k}
        BY <2>3
      <3>1. Cardinality({k}) = 1
        BY FS_Singleton
      <3> QED
        BY <3>1
    <2> QED
      BY <2>1, <2>2, <2>3
  <1>3. ASSUME ~comment.overlapped
        PROVE  /\ Range(mine) \subseteq Range(theirs)
               /\ \E k \in 0..1 : mine = SubSeq(theirs, 1, Len(theirs) - k)
    <2>1. CASE theirs = mine
      <3>1. SubSeq(theirs, 1, Len(theirs)) = mine
        BY <1>1, <2>1, SubSeqFull
      <3>2. Len(theirs) - 0 = Len(theirs)
        BY <1>1, LenProperties
      <3> QED
        BY <2>1, <3>1, <3>2
    <2>2. CASE \E e \in Edits : theirs = Append(mine, e)
      <3> PICK e \in Edits : theirs = Append(mine, e)
        BY <2>2
      <3> QED
        BY <1>1, AppendFinals
    <2> QED
      BY <1>3, <2>1, <2>2 DEF CommentInv, BodiesFit, Ahead
  <1> QED
    BY <1>2, <1>3 DEF CommentSound, CommentInv, BodiesFit

\* Pure parts.
LEMMA RateLimitsSeen == RateLimitSeen
  <1> SUFFICES ASSUME NEW r \in Responses
               PROVE  (execute(r) = "rate_limited") <=>
                        /\ r.fetched
                        /\ r.status = 429 \/ (r.json /\ \E k \in DOMAIN r.errors : r.errors[k] = "RATELIMITED")
    BY DEF RateLimitSeen
  <1>1. r.errors = <<>> => ~\E k \in DOMAIN r.errors : r.errors[k] = "RATELIMITED"
    OBVIOUS
  <1>2. (toGraphqlError(r.errors) = "rate_limited") <=> \E k \in DOMAIN r.errors : r.errors[k] = "RATELIMITED"
    BY DEF toGraphqlError
  <1>3. r.fetched \in BOOLEAN /\ r.json \in BOOLEAN /\ r.status \in {200, 401, 403, 404, 429, 500}
    BY DEF Responses
  <1> QED
    BY <1>1, <1>2, <1>3 DEF execute, classifyHttpError

LEMMA KeysResolved == KeyResolved
  BY DEF KeyResolved, resolveLinearApiKey, AuthError, Resolved, Stores

-----------------------------------------------------------------------------
(* The client and the comment share no state: a step of one leaves the other *)
(* alone.                                                                    *)

LEMMA CommentAlone == ApiNext => UNCHANGED commentVars
  BY DEF ApiNext, addLabel, getIssue, ServeList, listLabels, Reread, resolveLabelId,
         ServeMutation, Mutated, Fails, invalidateTeamCache, Change

LEMMA ApiAlone == CommentNext => UNCHANGED apiVars
  BY DEF CommentNext, StartEdit, ServeUpdate, Updated, UpdateFails

\* Both inductive invariants, of the client and of the rolling comment: what a held table
\* says bore its name once, and Linear's body is at most one edit ahead of the handle's
\* unless edits overlapped (client.ts, comments.ts).
THEOREM LinearInvariant == LinearSpec => [](ApiInv /\ CommentInv)
  <1>1. LinearInit => ApiInv /\ CommentInv
    BY InitApiInv, InitCommentInv DEF LinearInit
  <1>2. ApiInv /\ CommentInv /\ [LinearNext]_linearVars => ApiInv' /\ CommentInv'
    <2> SUFFICES ASSUME ApiInv, CommentInv, [LinearNext]_linearVars PROVE ApiInv' /\ CommentInv'
      OBVIOUS
    <2>1. CASE ApiNext
      <3>1. CommentInv'
        BY <2>1, CommentAlone DEF commentVars, CommentInv, CommentTyped, SummariesFit,
                                  BodiesFit, Sending, Ahead
      <3> QED
        BY <2>1, <3>1, ApiInvNext
    <2>2. CASE CommentNext
      <3>1. ApiInv'
        BY <2>2, ApiAlone DEF apiVars, ApiInv, ApiTyped, TablesBorne, Borne, LookupFits, LookupSound
      <3> QED
        BY <2>2, <3>1, CommentInvNext
    <2>3. CASE UNCHANGED linearVars
      BY <2>3, ApiInvNext, CommentInvNext
    <2> QED
      BY <2>1, <2>2, <2>3 DEF LinearNext
  <1> QED
    BY <1>1, <1>2, PTL DEF LinearSpec

\* What the daemon relies on in the client and in the rolling comment: a label is looked up
\* in a table its team really had, nothing reported as written is lost without an overlap,
\* there is one summary, a rate limit is recognised, the environment's key wins (client.ts,
\* graphql.ts, comments.ts, auth.ts).
THEOREM LinearCorrect == LinearSpec => []LinearSound
  <1>1. ApiInv /\ CommentInv => LinearSound
    BY CommentInvSound, RateLimitsSeen, KeysResolved DEF ApiInv, LinearSound
  <1> QED
    BY <1>1, LinearInvariant, PTL

-----------------------------------------------------------------------------
(* The receiver of the webhooks. *)

\* Bounded naturals have a last one.
LEMMA LastPlace ==
    ASSUME NEW places \in SUBSET Nat, places # {}, NEW bound \in Nat, \A m \in places : m <= bound
    PROVE  Max(places) \in places /\ \A m \in places : m <= Max(places)
<1> DEFINE Upper == {n \in Nat : \A m \in places : m <= n}
<1>1. bound \in Upper /\ Upper \in SUBSET Nat
  OBVIOUS
<1>2. PICK n \in Upper : \A m \in Upper : ~(m < n)
  <2> HIDE DEF Upper
  <2>1. PICK n \in Upper : \A m \in Upper : ~(<<m, n>> \in OpToRel(<, Nat))
    BY <1>1, WFMin, NatLessThanWellFounded
  <2> QED BY <1>1, <2>1 DEF OpToRel
<1>3. ASSUME n \notin places PROVE FALSE
  <2>1. \A m \in places : m <= n - 1
    BY <1>2, <1>3
  <2>2. PICK m \in places : m <= n - 1
    BY <2>1
  <2> QED BY <1>2, <2>1, <2>2
<1>4. \E k \in places : \A m \in places : k >= m
  BY <1>2, <1>3
<1> QED BY <1>4 DEF Max

\* A store of the cache: what was remembered lies in the past, and the places are bounded.
StoreTyped(store) ==
    /\ store = [x \in DOMAIN store |-> store[x]]
    /\ \A x \in DOMAIN store : store[x].at \in Nat /\ store[x].at <= hookClock /\ store[x].place \in Nat
    /\ \E bound \in Nat : \A x \in DOMAIN store : store[x].place <= bound

\* An id that is remembered, for long enough, with nothing but the others behind it.
Holds(store, id, stamp, others) ==
    id \in DOMAIN store /\ stamp <= store[id].at + SkewMs /\ Behind(store, id) \subseteq others

LEMMA RestrictFits ==
    ASSUME NEW store, StoreTyped(store), NEW stay \in SUBSET (DOMAIN store)
    PROVE  /\ StoreTyped(Restrict(store, stay))
           /\ \A x \in stay : \A stamp, others : Holds(store, x, stamp, others) => Holds(Restrict(store, stay), x, stamp, others)
<1> DEFINE kept == Restrict(store, stay)
<1>1. kept = [x \in stay |-> store[x]] /\ DOMAIN kept = stay /\ \A x \in stay : kept[x] = store[x]
  BY DEF Restrict
<1> HIDE DEF kept
<1>2. StoreTyped(kept)
  BY <1>1 DEF StoreTyped
<1>3. \A x \in stay : \A stamp, others : Holds(store, x, stamp, others) => Holds(kept, x, stamp, others)
  BY <1>1 DEF Holds, Behind
<1> QED BY <1>2, <1>3 DEF kept

\* What comes last has nothing behind it, and is behind everything else.
PutLast(kept, store, id, at) ==
    /\ StoreTyped(kept) /\ DOMAIN kept = DOMAIN store \cup {id}
    /\ kept[id].at = at /\ Behind(kept, id) = {}
    /\ \A x \in DOMAIN store \ {id} : \A stamp, others :
          Holds(store, x, stamp, others) => Holds(kept, x, stamp, others \cup {id})

LEMMA SetLastFits ==
    ASSUME NEW store, StoreTyped(store), hookClock \in Nat, NEW id, NEW at \in Nat, at <= hookClock
    PROVE  PutLast(SetLast(store, id, at), store, id, at)
<1> DEFINE places == {store[x].place : x \in DOMAIN store}
           last == Max(places \cup {0}) + 1
           kept == SetLast(store, id, at)
<1>1. PICK bound \in Nat : \A x \in DOMAIN store : store[x].place \in Nat /\ store[x].place <= bound
  BY DEF StoreTyped
<1>2. last \in Nat /\ \A x \in DOMAIN store : store[x].place < last
  <2>1. places \cup {0} \in SUBSET Nat /\ places \cup {0} # {} /\ \A m \in places \cup {0} : m <= bound
    BY <1>1
  <2>2. \A x \in DOMAIN store : store[x].place \in places
    OBVIOUS
  <2> HIDE DEF places
  <2>3. Max(places \cup {0}) \in places \cup {0} /\ \A m \in places \cup {0} : m <= Max(places \cup {0})
    BY <2>1, LastPlace
  <2>4. Max(places \cup {0}) \in Nat
    BY <2>1, <2>3
  <2>5. ASSUME NEW x \in DOMAIN store PROVE store[x].place < last
    <3>1. store[x].place <= Max(places \cup {0})
      BY <2>2, <2>3
    <3> QED BY <1>1, <2>4, <3>1
  <2> QED BY <2>4, <2>5 DEF places
<1>3. /\ kept = [x \in DOMAIN store \cup {id} |-> IF x = id THEN [at |-> at, place |-> last] ELSE store[x]]
      /\ DOMAIN kept = DOMAIN store \cup {id}
      /\ kept[id] = [at |-> at, place |-> last] /\ \A x \in DOMAIN store \ {id} : kept[x] = store[x]
  BY DEF SetLast
<1> HIDE DEF kept, last
<1>4. kept[id].at = at /\ kept[id].place = last
  BY <1>3
<1>5. StoreTyped(kept)
  <2>1. \A x \in DOMAIN kept : kept[x].at \in Nat /\ kept[x].at <= hookClock /\ kept[x].place \in Nat /\ kept[x].place <= last
    BY <1>2, <1>3, <1>4 DEF StoreTyped
  <2>3. kept = [x \in DOMAIN kept |-> kept[x]]
    BY <1>3
  <2> QED BY <1>2, <2>1, <2>3 DEF StoreTyped
<1>6. Behind(kept, id) = {}
  <2>1. \A x \in DOMAIN kept : kept[x].place \in Nat /\ kept[x].place <= last
    BY <1>1, <1>2, <1>3, <1>4
  <2> QED BY <1>2, <1>4, <2>1 DEF Behind
<1>7. \A x \in DOMAIN store \ {id} : \A stamp, others :
         Holds(store, x, stamp, others) => Holds(kept, x, stamp, others \cup {id})
  BY <1>3 DEF Holds, Behind
<1>8. PutLast(kept, store, id, at)
  BY <1>3, <1>4, <1>5, <1>6, <1>7 DEF PutLast
<1> QED BY <1>8 DEF kept

LEMMA EvictFits ==
    ASSUME NEW store, StoreTyped(store), hookClock \in Nat
    PROVE  /\ StoreTyped(evictExpired(store))
           /\ \A x \in DOMAIN store : \A others : \A stamp \in Nat :
                 Holds(store, x, stamp, others) /\ hookClock <= stamp + SkewMs
                    => Holds(evictExpired(store), x, stamp, others)
<1> DEFINE stay == {id \in DOMAIN store :
                     \E x \in DOMAIN store \ Behind(store, id) : store[x].at >= hookClock - WindowMs}
<1>0. SkewMs \in Nat /\ WindowMs \in Nat /\ WindowMs >= 2 * SkewMs
  BY HookAssumption
<1>1. evictExpired(store) = Restrict(store, stay) /\ stay \in SUBSET (DOMAIN store)
  BY DEF evictExpired
<1>2. ASSUME NEW x \in DOMAIN store, NEW others, NEW stamp \in Nat,
             Holds(store, x, stamp, others), hookClock <= stamp + SkewMs
      PROVE  x \in stay
  <2>1. store[x].at \in Nat /\ store[x].place \in Nat
    BY DEF StoreTyped
  <2>2. stamp <= store[x].at + SkewMs
    BY <1>2 DEF Holds
  <2>3. store[x].at >= hookClock - WindowMs
    BY <1>0, <1>2, <2>1, <2>2
  <2>4. x \in DOMAIN store \ Behind(store, x)
    BY <2>1 DEF Behind
  <2> QED BY <2>3, <2>4
<1> HIDE DEF stay
<1> QED BY <1>1, <1>2, RestrictFits

LEMMA TouchFits ==
    ASSUME NEW store, StoreTyped(store), hookClock \in Nat, NEW id
    PROVE  /\ StoreTyped(touch(store, id))
           /\ \A x \in DOMAIN store : \A others : \A stamp \in Nat :
                 Holds(store, x, stamp, others) /\ hookClock <= stamp + SkewMs
                    => Holds(touch(store, id), x, stamp, others \cup {id})
<1>0. SkewMs \in Nat /\ WindowMs \in Nat /\ WindowMs >= 2 * SkewMs
  BY HookAssumption
<1>1. CASE id \notin DOMAIN store
  <2>1. touch(store, id) = store
    BY <1>1 DEF touch
  <2>2. \A x \in DOMAIN store : \A others : \A stamp \in Nat : Holds(store, x, stamp, others) => Holds(store, x, stamp, others \cup {id})
    BY DEF Holds
  <2> QED BY <2>1, <2>2
<1>2. CASE seen(store, id)
  <2> DEFINE kept == SetLast(store, id, store[id].at)
  <2>1. id \in DOMAIN store /\ store[id].at \in Nat /\ store[id].at <= hookClock
    BY <1>2 DEF seen, StoreTyped
  <2>2. touch(store, id) = kept
    BY <1>2, <2>1 DEF touch
  <2>0. PutLast(kept, store, id, store[id].at)
    BY <2>1, SetLastFits
  <2> HIDE DEF kept
  <2>3. /\ StoreTyped(kept) /\ DOMAIN kept = DOMAIN store \cup {id} /\ kept[id].at = store[id].at /\ Behind(kept, id) = {}
        /\ \A x \in DOMAIN store \ {id} : \A stamp, others :
               Holds(store, x, stamp, others) => Holds(kept, x, stamp, others \cup {id})
    BY <2>0 DEF PutLast
  <2>4. \A stamp, others : Holds(store, id, stamp, others) => Holds(kept, id, stamp, others \cup {id})
    BY <2>3 DEF Holds
  <2> QED BY <2>2, <2>3, <2>4
<1>3. CASE id \in DOMAIN store /\ ~seen(store, id)
  <2> DEFINE stay == DOMAIN store \ {id}
  <2>1. touch(store, id) = Restrict(store, stay) /\ stay \in SUBSET (DOMAIN store)
    BY <1>3 DEF touch
  <2>2. ASSUME NEW others, NEW stamp \in Nat, Holds(store, id, stamp, others), hookClock <= stamp + SkewMs PROVE FALSE
    <3>1. store[id].at \in Nat /\ stamp <= store[id].at + SkewMs /\ hookClock - store[id].at > WindowMs
      BY <1>0, <1>3, <2>2 DEF Holds, StoreTyped, seen
    <3> QED BY <1>0, <2>2, <3>1
  <2>3. \A x \in stay : \A stamp, others : Holds(store, x, stamp, others) => Holds(Restrict(store, stay), x, stamp, others \cup {id})
    <3> HIDE DEF stay
    <3>1. \A x \in stay : \A stamp, others : Holds(store, x, stamp, others) => Holds(Restrict(store, stay), x, stamp, others)
      BY <2>1, RestrictFits
    <3> QED BY <3>1 DEF Holds
  <2>4. StoreTyped(Restrict(store, stay))
    <3> HIDE DEF stay
    <3> QED BY <2>1, RestrictFits
  <2> QED BY <2>1, <2>2, <2>3, <2>4
<1> QED BY <1>1, <1>2, <1>3 DEF seen

\* The size limit forgets an id only behind MaxEntries others, which were posted since.
LEMMA RememberFits ==
    ASSUME NEW store, StoreTyped(store), hookClock \in Nat, NEW id
    PROVE  /\ StoreTyped(remember(store, id))
           /\ \A stamp \in Nat : stamp <= hookClock + SkewMs => Holds(remember(store, id), id, stamp, {})
           /\ \A x \in DOMAIN store \ {id} : \A others : \A stamp \in Nat :
                 Holds(store, x, stamp, others) /\ hookClock <= stamp + SkewMs /\ IsFiniteSet(others)
                    => \/ Holds(remember(store, id), x, stamp, others \cup {id})
                       \/ Cardinality((others \cup {id}) \ {x}) >= MaxEntries
<1> DEFINE live == evictExpired(store)
           kept == SetLast(live, id, hookClock)
           stay == {x \in DOMAIN kept : Cardinality(Behind(kept, x)) < MaxEntries}
           done == remember(store, id)
<1>0. MaxEntries \in Nat \ {0}
  BY HookAssumption
<1>1. /\ StoreTyped(live)
      /\ \A x \in DOMAIN store : \A others : \A stamp \in Nat :
            Holds(store, x, stamp, others) /\ hookClock <= stamp + SkewMs => Holds(live, x, stamp, others)
  BY EvictFits
<1>2. /\ StoreTyped(kept) /\ DOMAIN kept = DOMAIN live \cup {id}
      /\ kept[id].at = hookClock /\ Behind(kept, id) = {}
      /\ \A x \in DOMAIN live \ {id} : \A stamp, others :
            Holds(live, x, stamp, others) => Holds(kept, x, stamp, others \cup {id})
  <2> HIDE DEF live
  <2>1. PutLast(kept, live, id, hookClock)
    BY <1>1, SetLastFits
  <2> HIDE DEF kept
  <2> QED BY <2>1 DEF PutLast
<1>3. done = kept \/ done = Restrict(kept, stay)
  BY DEF remember
<1> HIDE DEF live, kept, done
<1>4. id \in stay /\ stay \in SUBSET (DOMAIN kept)
  BY <1>0, <1>2, FS_EmptySet
<1>5. StoreTyped(done)
  <2> HIDE DEF stay
  <2> QED BY <1>2, <1>3, <1>4, RestrictFits
<1>6. \A x \in stay : \A stamp, others : Holds(kept, x, stamp, others) => Holds(done, x, stamp, others)
  <2> HIDE DEF stay
  <2> QED BY <1>2, <1>3, <1>4, RestrictFits
<1>7. \A stamp \in Nat : stamp <= hookClock + SkewMs => Holds(done, id, stamp, {})
  <2>1. \A stamp \in Nat : stamp <= hookClock + SkewMs => Holds(kept, id, stamp, {})
    BY <1>2 DEF Holds
  <2> HIDE DEF stay
  <2> QED BY <1>4, <1>6, <2>1
<1>8. ASSUME NEW x \in DOMAIN store \ {id}, NEW others, NEW stamp \in Nat,
             Holds(store, x, stamp, others), hookClock <= stamp + SkewMs, IsFiniteSet(others),
             ~Holds(done, x, stamp, others \cup {id})
      PROVE  Cardinality((others \cup {id}) \ {x}) >= MaxEntries
  <2>1. Holds(live, x, stamp, others) /\ x \in DOMAIN live \ {id}
    BY <1>1, <1>8 DEF Holds
  <2>2. Holds(kept, x, stamp, others \cup {id})
    BY <1>2, <2>1
  <2>3. x \notin stay
    <3> HIDE DEF stay
    <3> QED BY <1>6, <1>8, <2>2
  <2>4. Behind(kept, x) \subseteq (others \cup {id}) \ {x} /\ x \in DOMAIN kept
    <3>1. x \notin Behind(kept, x) /\ x \in DOMAIN kept
      BY <2>2, <1>2 DEF Behind, Holds, StoreTyped
    <3> QED BY <2>2, <3>1 DEF Holds
  <2>5. ~(Cardinality(Behind(kept, x)) < MaxEntries)
    BY <2>3, <2>4
  <2>6. IsFiniteSet((others \cup {id}) \ {x})
    <3>1. IsFiniteSet(others \cup {id})
      BY <1>8, FS_AddElement
    <3> QED BY <3>1, FS_Subset
  <2>7. /\ Cardinality(Behind(kept, x)) <= Cardinality((others \cup {id}) \ {x})
        /\ Cardinality(Behind(kept, x)) \in Nat /\ Cardinality((others \cup {id}) \ {x}) \in Nat
    BY <2>4, <2>6, FS_Subset, FS_CardinalityType
  <2> QED BY <1>0, <2>5, <2>7
<1> QED BY <1>5, <1>7, <1>8 DEF done

-----------------------------------------------------------------------------

Later(j) == {posts[i].id : i \in (j + 1)..Len(posts)}

\* What an accepted delivery leaves: its id in the cache, with nothing but deliveries posted
\* since behind it; or so many of these that the limit may have pushed it out; or its
\* timestamp is too old by now.
Remembered(j) ==
    LET id == posts[j].id IN
    \/ Holds(nonces, id, stamped[id], Later(j) \ {id})
    \/ Cardinality(Later(j) \ {id}) >= MaxEntries
    \/ hookClock > stamped[id] + SkewMs

HookTyped ==
    /\ hookClock \in Nat /\ stamped \in Seq(Nat) /\ StoreTyped(nonces)
    /\ posts \in Seq([id : Nat, pushed : BOOLEAN, status : Nat])
    /\ \A k \in DOMAIN posts : posts[k].id \in DOMAIN stamped
    /\ yielded \in Seq(Nat) /\ buffer \in Seq(Nat) /\ reading \in Nat /\ sinkClosed \in BOOLEAN
    /\ envelope = <<>> \/ envelope \in Envelopes

AllRemembered == \A j \in DOMAIN posts : IsAccepted(posts[j]) => Remembered(j)

HookInv == HookTyped /\ AllRemembered /\ NoReplay /\ InOrder

\* The ids posted since, when one more is posted.
LEMMA LaterGrows ==
    ASSUME HookTyped, NEW post, posts' = Append(posts, post), NEW j \in DOMAIN posts
    PROVE  /\ Later(j)' = Later(j) \cup {post.id} /\ IsFiniteSet(Later(j)) /\ posts'[j] = posts[j]
           /\ Later(j) = {posts'[i].id : i \in (j + 1)..Len(posts)}
<1>1. /\ Len(posts) \in Nat /\ DOMAIN posts = 1..Len(posts) /\ Len(posts') = Len(posts) + 1
      /\ posts'[Len(posts) + 1] = post /\ \A i \in 1..Len(posts) : posts'[i] = posts[i]
  BY DEF HookTyped
<1>2. Later(j)' = Later(j) \cup {post.id} /\ Later(j) = {posts'[i].id : i \in (j + 1)..Len(posts)}
  BY <1>1 DEF Later
<1>3. IsFiniteSet(Later(j))
  <2>1. \A i \in (j + 1)..Len(posts) : i \in DOMAIN posts
    BY <1>1
  <2>2. Later(j) \subseteq DOMAIN stamped
    BY <2>1 DEF Later, HookTyped
  <2>3. DOMAIN stamped = 1..Len(stamped) /\ Len(stamped) \in Nat
    BY DEF HookTyped
  <2>4. IsFiniteSet(1..Len(stamped))
    BY <2>3, FS_Interval
  <2> QED BY <2>2, <2>3, <2>4, FS_Subset
<1> QED BY <1>1, <1>2, <1>3

LEMMA StampsAreTimes ==
    ASSUME HookTyped
    PROVE  \A k \in DOMAIN stamped : stamped[k] \in Nat
<1>1. stamped \in Seq(Nat)
  BY DEF HookTyped
<1> QED BY <1>1

\* A delivery that is posted: its timestamp is known, and old ones stay.
LEMMA SentFits ==
    ASSUME HookTyped, NEW id \in 1..MaxHooks, NEW at \in 0..(MaxTime + SkewMs), id <= Len(stamped) + 1, Sent(id, at)
    PROVE  /\ stamped' \in Seq(Nat) /\ DOMAIN stamped \subseteq DOMAIN stamped' /\ id \in DOMAIN stamped'
           /\ \A k \in DOMAIN stamped : stamped'[k] = stamped[k]
           /\ stamped'[id] = at /\ at \in Nat
<1>1. stamped \in Seq(Nat) /\ at \in Nat /\ id \in Nat \ {0}
  BY DEF HookTyped
<1>2. CASE id \in DOMAIN stamped
  BY <1>1, <1>2 DEF Sent
<1>3. CASE id \notin DOMAIN stamped
  <2>1. id = Len(stamped) + 1 /\ stamped' = Append(stamped, at)
    BY <1>1, <1>3 DEF Sent
  <2> QED BY <1>1, <2>1
<1> QED BY <1>2, <1>3

\* What the handlers of a delivery change besides the cache.
LEMMA PostFits ==
    ASSUME HookInv, NEW id \in 1..MaxHooks, NEW at \in 0..(MaxTime + SkewMs), id <= Len(stamped) + 1, Sent(id, at),
           NEW reason, NEW pushed \in BOOLEAN, Posted(id, reason, pushed),
           reason \in {"ok", "stale_timestamp", "duplicate_nonce"},
           UNCHANGED <<hookClock, envelope>>, StoreTyped(nonces'),
           yielded' \in Seq(Nat), buffer' \in Seq(Nat), reading' \in Nat, sinkClosed' \in BOOLEAN
    PROVE  /\ HookTyped'
           /\ \E post : /\ posts' = Append(posts, post) /\ post.id = id /\ post.pushed = pushed
                        /\ IsAccepted(post) <=> reason = "ok"
<1> DEFINE post == [id |-> id, pushed |-> pushed, status |->
              response(Delivery(id, 0), reason, IF id \in Unread THEN "unsupported_event" ELSE "status-changed")]
<1>1. posts' = Append(posts, post)
  BY DEF Posted
<1>2. /\ post.id = id /\ post.pushed = pushed /\ post.status \in {200, 202, 400, 401}
      /\ reason = "ok" => post.status \in {200, 202}
      /\ reason # "ok" => post.status \in {400, 401}
  BY DEF response, Delivery, rejectStatus, Surfaced
<1>3. IsAccepted(post) <=> reason = "ok"
  BY <1>2 DEF IsAccepted
<1>4. /\ stamped' \in Seq(Nat) /\ DOMAIN stamped \subseteq DOMAIN stamped' /\ id \in DOMAIN stamped'
      /\ \A k \in DOMAIN stamped : stamped'[k] = stamped[k]
  BY SentFits DEF HookInv
<1>5. post \in [id : Nat, pushed : BOOLEAN, status : Nat]
  <2>1. id \in Nat /\ post.status \in Nat
    BY <1>2
  <2> HIDE DEF post
  <2>2. post = [id |-> post.id, pushed |-> post.pushed, status |-> post.status]
    BY DEF post
  <2> QED BY <1>2, <2>1, <2>2
<1> HIDE DEF post
<1>6. posts' \in Seq([id : Nat, pushed : BOOLEAN, status : Nat]) /\ \A k \in DOMAIN posts' : posts'[k].id \in DOMAIN stamped'
  <2>1. posts \in Seq([id : Nat, pushed : BOOLEAN, status : Nat]) /\ \A k \in DOMAIN posts : posts[k].id \in DOMAIN stamped
    BY DEF HookInv, HookTyped
  <2>2. /\ posts' \in Seq([id : Nat, pushed : BOOLEAN, status : Nat]) /\ DOMAIN posts' = 1..(Len(posts) + 1)
        /\ DOMAIN posts = 1..Len(posts) /\ Len(posts) \in Nat
        /\ posts'[Len(posts) + 1] = post /\ \A k \in DOMAIN posts : posts'[k] = posts[k]
    BY <1>1, <1>5, <2>1
  <2>3. ASSUME NEW k \in DOMAIN posts' PROVE posts'[k].id \in DOMAIN stamped'
    <3>1. CASE k \in DOMAIN posts
      BY <1>4, <2>1, <2>2, <3>1
    <3>2. CASE k = Len(posts) + 1
      BY <1>2, <1>4, <2>2, <3>2
    <3>3. k \in 1..(Len(posts) + 1)
      <4>1. Len(posts') = Len(posts) + 1 /\ DOMAIN posts' = 1..Len(posts')
        BY <1>1, <2>1, <2>2
      <4> QED BY <4>1
    <3> QED BY <2>2, <3>1, <3>2, <3>3
  <2> QED BY <2>2, <2>3
<1>7. HookTyped'
  BY <1>4, <1>6 DEF HookInv, HookTyped, StoreTyped
<1> QED BY <1>1, <1>2, <1>3, <1>7

\* A delivery that was remembered still is, if the cache holds it or the limit was reached.
LEMMA RememberedStays ==
    ASSUME HookInv, HookTyped', NEW post, posts' = Append(posts, post), UNCHANGED hookClock,
           \A k \in DOMAIN stamped : stamped'[k] = stamped[k],
           NEW j \in DOMAIN posts, Remembered(j),
           LET id == posts[j].id IN
           hookClock <= stamped[id] + SkewMs /\ Holds(nonces, id, stamped[id], Later(j) \ {id})
             => \/ Holds(nonces', id, stamped[id], (Later(j) \ {id}) \cup {post.id})
                \/ Holds(nonces', id, stamped[id], {})
                \/ Cardinality(((Later(j) \ {id}) \cup {post.id}) \ {id}) >= MaxEntries
    PROVE  Remembered(j)'
<1> DEFINE id == posts[j].id
           more == (Later(j) \ {id}) \cup {post.id}
<1>1. Later(j)' = Later(j) \cup {post.id} /\ IsFiniteSet(Later(j)) /\ posts'[j] = posts[j] /\ stamped'[id] = stamped[id]
  BY LaterGrows DEF HookInv, HookTyped
<1>2. more \ {id} = Later(j)' \ {id}
  BY <1>1
<1>3. CASE Cardinality(Later(j) \ {id}) >= MaxEntries
  <2>1. IsFiniteSet(Later(j)' \ {id}) /\ Later(j) \ {id} \subseteq Later(j)' \ {id}
    <3>1. IsFiniteSet(Later(j) \cup {post.id})
      BY <1>1, FS_AddElement
    <3> QED BY <1>1, <3>1, FS_Subset
  <2>2. /\ Cardinality(Later(j) \ {id}) <= Cardinality(Later(j)' \ {id})
        /\ Cardinality(Later(j) \ {id}) \in Nat /\ Cardinality(Later(j)' \ {id}) \in Nat
    BY <2>1, FS_Subset, FS_CardinalityType
  <2>3. Cardinality(Later(j)' \ {id}) >= MaxEntries
    BY <1>3, <2>2, HookAssumption
  <2> QED BY <1>1, <2>3 DEF Remembered
<1>4. CASE hookClock > stamped[id] + SkewMs
  BY <1>1, <1>4 DEF Remembered
<1>5. CASE hookClock <= stamped[id] + SkewMs /\ Holds(nonces, id, stamped[id], Later(j) \ {id})
  <2>1. CASE Holds(nonces', id, stamped[id], more)
    <3>1. id \notin Behind(nonces', id)
      BY <2>1 DEF Behind, Holds, HookTyped, StoreTyped
    <3>2. Holds(nonces', id, stamped[id], Later(j)' \ {id})
      BY <1>2, <2>1, <3>1 DEF Holds
    <3> QED BY <1>1, <3>2 DEF Remembered
  <2>2. CASE Holds(nonces', id, stamped[id], {})
    <3>1. Holds(nonces', id, stamped[id], Later(j)' \ {id})
      BY <2>2 DEF Holds
    <3> QED BY <1>1, <3>1 DEF Remembered
  <2>3. CASE Cardinality(more \ {id}) >= MaxEntries
    BY <1>1, <1>2, <2>3 DEF Remembered
  <2> QED BY <1>5, <2>1, <2>2, <2>3
<1>6. stamped[id] \in Nat /\ hookClock \in Nat /\ SkewMs \in Nat
  <2>1. id \in DOMAIN stamped
    BY DEF HookInv, HookTyped
  <2>2. stamped \in Seq(Nat) /\ hookClock \in Nat
    BY DEF HookTyped, HookInv
  <2> HIDE DEF id
  <2>3. stamped[id] \in Nat
    BY <2>1, <2>2
  <2> QED BY <2>2, <2>3, HookAssumption
<1>7. \/ Holds(nonces, id, stamped[id], Later(j) \ {id}) \/ Cardinality(Later(j) \ {id}) >= MaxEntries
      \/ hookClock > stamped[id] + SkewMs
  BY DEF Remembered
<1> HIDE DEF id
<1>8. hookClock <= stamped[id] + SkewMs \/ hookClock > stamped[id] + SkewMs
  BY <1>6
<1> QED BY <1>3, <1>4, <1>5, <1>7, <1>8

\* What push does to the events given or waiting.
LEMMA PushGives ==
    ASSUME HookInv, NEW id \in Nat, push(id)
    PROVE  /\ yielded' \in Seq(Nat) /\ buffer' \in Seq(Nat) /\ reading' \in Nat /\ sinkClosed' = sinkClosed
           /\ Given' = IF sinkClosed THEN Given ELSE Append(Given, id)
           /\ reading' > 0 => buffer' = <<>>
<1>1. yielded \in Seq(Nat) /\ buffer \in Seq(Nat) /\ reading \in Nat /\ (reading > 0 => buffer = <<>>)
  BY DEF HookInv, HookTyped, InOrder
<1>2. CASE sinkClosed
  BY <1>1, <1>2 DEF push, streamVars, Given
<1>3. CASE ~sinkClosed /\ reading > 0
  BY <1>1, <1>3 DEF push, streamVars, Given
<1>4. CASE ~sinkClosed /\ ~(reading > 0)
  <2>1. buffer' = Append(buffer, id) /\ UNCHANGED <<reading, sinkClosed, yielded>>
    BY <1>4 DEF push
  <2>2. yielded \o Append(buffer, id) = Append(yielded \o buffer, id)
    <3>1. Append(buffer, id) = buffer \o <<id>> /\ Append(yielded \o buffer, id) = (yielded \o buffer) \o <<id>>
      <4>1. yielded \o buffer \in Seq(Nat)
        BY <1>1
      <4> QED BY <1>1, <4>1, AppendIsConcat
    <3> QED BY <1>1, <3>1, ConcatAssociative
  <2> QED BY <1>1, <1>4, <2>1, <2>2 DEF Given
<1> QED BY <1>2, <1>3, <1>4

\* A delivery that is posted extends the events in order, or leaves them alone.
LEMMA OrderStays ==
    ASSUME HookInv, NEW post, posts' = Append(posts, post), post.pushed \in BOOLEAN, post.id \in Nat,
           Given' = IF post.pushed THEN Append(Given, post.id) ELSE Given,
           reading' > 0 => buffer' = <<>>
    PROVE  InOrder'
<1> DEFINE n == Len(posts)
<1>1. /\ n \in Nat /\ DOMAIN posts = 1..n /\ DOMAIN posts' = 1..(n + 1)
      /\ posts'[n + 1] = post /\ \A k \in 1..n : posts'[k] = posts[k]
  BY DEF HookInv, HookTyped
<1>2. Given \in Seq(Nat)
  BY DEF HookInv, HookTyped, Given
<1>3. PICK from \in [DOMAIN Given -> Pushed] :
         /\ \A i \in DOMAIN Given : from[i] \in Pushed
         /\ \A i, j \in DOMAIN Given : i < j => from[i] < from[j]
         /\ \A k \in Pushed : \E i \in DOMAIN Given : from[i] = k
         /\ \A i \in DOMAIN Given : Given[i] = posts[from[i]].id
  BY DEF HookInv, InOrder
<1>4. Pushed' = IF post.pushed THEN Pushed \cup {n + 1} ELSE Pushed
  BY <1>1 DEF Pushed
<1>5. Pushed \subseteq 1..n
  BY <1>1 DEF Pushed
<1> HIDE DEF n
<1>6. CASE ~post.pushed
  <2>1. Given' = Given /\ Pushed' = Pushed
    BY <1>4, <1>6
  <2>2. \A i \in DOMAIN Given : Given[i] = posts'[from[i]].id
    BY <1>1, <1>3, <1>5
  <2>3. /\ \A i, j \in DOMAIN Given' : i < j => from[i] < from[j]
        /\ \A k \in Pushed' : \E i \in DOMAIN Given' : from[i] = k
        /\ \A i \in DOMAIN Given' : Given'[i] = posts'[from[i]].id
        /\ from \in [DOMAIN Given' -> Pushed']
    BY <1>3, <2>1, <2>2
  <2> QED BY <2>3 DEF InOrder
<1>7. CASE post.pushed
  <2> DEFINE g == Len(Given)
             longer == [i \in 1..(g + 1) |-> IF i = g + 1 THEN n + 1 ELSE from[i]]
  <2>1. /\ g \in Nat /\ DOMAIN Given = 1..g /\ DOMAIN Given' = 1..(g + 1)
        /\ Given'[g + 1] = post.id /\ \A i \in 1..g : Given'[i] = Given[i]
    BY <1>2, <1>7
  <2> HIDE DEF g
  <2>2. Pushed' = Pushed \cup {n + 1}
    BY <1>4, <1>7
  <2>3. \A i \in 1..g : from[i] \in Pushed /\ from[i] \in 1..n /\ longer[i] = from[i]
    <3>1. \A i \in 1..g : from[i] \in Pushed
      BY <1>3, <2>1
    <3>2. \A i \in 1..g : longer[i] = from[i]
      BY <2>1
    <3> QED BY <1>5, <3>1, <3>2
  <2>4. longer[g + 1] = n + 1
    BY <2>1
  <2>5. longer \in [DOMAIN Given' -> Pushed']
    BY <2>1, <2>2, <2>3
  <2> HIDE DEF longer
  <2>6. \A i, j \in DOMAIN Given' : i < j => longer[i] < longer[j]
    BY <1>1, <1>3, <2>1, <2>3, <2>4
  <2>7. \A k \in Pushed' : \E i \in DOMAIN Given' : longer[i] = k
    <3>1. ASSUME NEW k \in Pushed PROVE \E i \in DOMAIN Given' : longer[i] = k
      <4>1. PICK i \in 1..g : from[i] = k
        BY <1>3, <2>1
      <4>2. i \in DOMAIN Given' /\ longer[i] = k
        BY <2>1, <2>3, <4>1
      <4> QED BY <4>2
    <3> QED BY <2>1, <2>2, <2>4, <3>1
  <2>8. \A i \in DOMAIN Given' : Given'[i] = posts'[longer[i]].id
    <3>1. ASSUME NEW i \in 1..g PROVE Given'[i] = posts'[longer[i]].id
      <4>1. Given[i] = posts[from[i]].id
        BY <1>3, <2>1
      <4>2. Given'[i] = Given[i] /\ longer[i] = from[i] /\ posts'[from[i]] = posts[from[i]]
        BY <1>1, <2>1, <2>3
      <4> QED BY <4>1, <4>2
    <3>2. Given'[g + 1] = posts'[longer[g + 1]].id
      BY <1>1, <2>1, <2>4
    <3>3. \A i \in 1..(g + 1) : i \in 1..g \/ i = g + 1
      BY <2>1
    <3> QED BY <2>1, <3>1, <3>2, <3>3
  <2> QED BY <2>5, <2>6, <2>7, <2>8 DEF InOrder
<1> QED BY <1>6, <1>7

\* One more post, of which an earlier acceptance is so old that the limit may have forgotten it.
LEMMA ReplayStays ==
    ASSUME HookInv, NEW post, posts' = Append(posts, post),
           \A j \in DOMAIN posts : IsAccepted(post) /\ posts[j].id = post.id /\ IsAccepted(posts[j])
              => Cardinality(Later(j) \ {post.id}) >= MaxEntries
    PROVE  NoReplay'
<1> DEFINE n == Len(posts)
<1>1. /\ n \in Nat /\ DOMAIN posts = 1..n /\ DOMAIN posts' = 1..(n + 1)
      /\ posts'[n + 1] = post /\ \A k \in 1..n : posts'[k] = posts[k]
  BY DEF HookInv, HookTyped
<1> HIDE DEF n
<1> SUFFICES ASSUME NEW j \in DOMAIN posts', NEW k \in DOMAIN posts', j < k, posts'[j].id = posts'[k].id,
                    IsAccepted(posts'[j]), IsAccepted(posts'[k])
             PROVE  Cardinality({posts'[i].id : i \in (j + 1)..(k - 1)} \ {posts'[j].id}) >= MaxEntries
  BY DEF NoReplay, IsAccepted
<1>2. j \in 1..n /\ posts'[j] = posts[j] /\ (k \in 1..n \/ k = n + 1)
  BY <1>1
<1>3. CASE k \in 1..n
  <2>1. {posts'[i].id : i \in (j + 1)..(k - 1)} = {posts[i].id : i \in (j + 1)..(k - 1)}
    BY <1>1, <1>2, <1>3
  <2>2. posts'[k] = posts[k]
    BY <1>1, <1>3
  <2>3. Cardinality({posts[i].id : i \in (j + 1)..(k - 1)} \ {posts[j].id}) >= MaxEntries
    BY <1>1, <1>2, <1>3, <2>2 DEF HookInv, NoReplay
  <2> QED BY <1>2, <2>1, <2>3
<1>4. CASE k = n + 1
  <2>1. Later(j) = {posts'[i].id : i \in (j + 1)..(k - 1)}
    <3>1. Later(j) = {posts'[i].id : i \in (j + 1)..Len(posts)}
      BY <1>1, <1>2, LaterGrows DEF HookInv
    <3>2. k - 1 = Len(posts)
      BY <1>1, <1>4 DEF n
    <3> QED BY <3>1, <3>2
  <2>2. Cardinality(Later(j) \ {post.id}) >= MaxEntries /\ posts'[j].id = post.id
    BY <1>1, <1>2, <1>4
  <2> QED BY <2>1, <2>2
<1> QED BY <1>2, <1>3, <1>4

\* What was remembered of the posts, when one more is posted.
LEMMA AllStay ==
    ASSUME HookInv, NEW post, posts' = Append(posts, post),
           NEW n, n = Len(posts) + 1, IsAccepted(post) => Remembered(n)',
           \A j \in DOMAIN posts : IsAccepted(posts[j]) => Remembered(j)'
    PROVE  AllRemembered'
<1>1. /\ Len(posts) \in Nat /\ DOMAIN posts = 1..Len(posts) /\ DOMAIN posts' = 1..(Len(posts) + 1)
      /\ posts'[Len(posts) + 1] = post /\ \A k \in 1..Len(posts) : posts'[k] = posts[k]
  BY DEF HookInv, HookTyped
<1> SUFFICES ASSUME NEW j \in DOMAIN posts', IsAccepted(posts'[j]) PROVE Remembered(j)'
  BY DEF AllRemembered, IsAccepted
<1>2. CASE j \in DOMAIN posts
  BY <1>1, <1>2
<1>3. CASE j = n
  BY <1>1, <1>3
<1> QED BY <1>1, <1>2, <1>3

\* A delivery that is posted, whatever comes of it.
LEMMA VerifyReasons ==
    ASSUME NEW id, NEW at \in Nat, hookClock \in Nat
    PROVE  LET reason == verifyLinearRequest(Delivery(id, at)) IN
           /\ reason \in {"ok", "stale_timestamp", "duplicate_nonce"}
           /\ reason = "ok" <=> Distance(hookClock, at) <= SkewMs /\ ~seen(nonces, id)
<1>1. /\ Delivery(id, at).signature = "good" /\ Delivery(id, at).meta = "ok"
      /\ Delivery(id, at).id = id /\ Delivery(id, at).timestamp = at
  BY DEF Delivery
<1>2. Distance(hookClock, at) \in Int /\ SkewMs \in Int
  BY HookAssumption DEF Distance
<1> HIDE DEF Distance
<1> QED BY <1>1, <1>2 DEF verifyLinearRequest

LEMMA RejectedStep ==
    ASSUME HookInv, NEW id \in 1..MaxHooks, NEW at \in 0..(MaxTime + SkewMs), id <= Len(stamped) + 1, Rejected(id, at)
    PROVE  HookInv'
<1> DEFINE reason == verifyLinearRequest(Delivery(id, at))
<1>1. /\ Sent(id, at) /\ reason # "ok" /\ Posted(id, reason, FALSE)
      /\ nonces' = touch(nonces, id) \/ nonces' = nonces
      /\ UNCHANGED <<hookClock, envelope, buffer, reading, sinkClosed, yielded>>
  BY DEF Rejected, streamVars
<1>2. HookTyped /\ hookClock \in Nat /\ StoreTyped(nonces) /\ at \in Nat /\ id \in Nat
  BY SentFits, <1>1 DEF HookInv, HookTyped
<1>3. reason \in {"stale_timestamp", "duplicate_nonce"}
  BY <1>1, <1>2, VerifyReasons
<1> HIDE DEF reason
<1>4. /\ StoreTyped(nonces')
      /\ \A x \in DOMAIN nonces : \A others : \A stamp \in Nat :
            Holds(nonces, x, stamp, others) /\ hookClock <= stamp + SkewMs
               => Holds(nonces', x, stamp, others \cup {id})
  <2>1. CASE nonces' = touch(nonces, id)
    BY <1>2, <2>1, TouchFits
  <2>2. CASE nonces' = nonces
    BY <1>2, <2>2 DEF Holds
  <2> QED BY <1>1, <2>1, <2>2
<1>5. /\ yielded' \in Seq(Nat) /\ buffer' \in Seq(Nat) /\ reading' \in Nat /\ sinkClosed' \in BOOLEAN
      /\ (reading' > 0 => buffer' = <<>>) /\ Given' = Given
  BY <1>1 DEF HookInv, HookTyped, InOrder, Given
<1>6. /\ HookTyped'
      /\ \E post : posts' = Append(posts, post) /\ post.id = id /\ post.pushed = FALSE /\ ~IsAccepted(post)
  BY <1>1, <1>3, <1>4, <1>5, PostFits
<1>7. PICK post : posts' = Append(posts, post) /\ post.id = id /\ post.pushed = FALSE /\ ~IsAccepted(post)
  BY <1>6
<1>8. InOrder'
  BY <1>2, <1>5, <1>7, OrderStays
<1>9. NoReplay'
  BY <1>7, ReplayStays
<1>10. AllRemembered'
  <2>1. ASSUME NEW j \in DOMAIN posts, IsAccepted(posts[j]) PROVE Remembered(j)'
    <3>1. Remembered(j) /\ posts[j].id \in DOMAIN stamped
      BY <2>1 DEF HookInv, AllRemembered, HookTyped
    <3>2. stamped[posts[j].id] \in Nat /\ \A k \in DOMAIN stamped : stamped'[k] = stamped[k]
      <4>1. \A k \in DOMAIN stamped : stamped[k] \in Nat
        BY <1>2, StampsAreTimes
      <4> QED BY <1>1, <1>2, <3>1, <4>1, SentFits
    <3>3. ASSUME hookClock <= stamped[posts[j].id] + SkewMs,
                 Holds(nonces, posts[j].id, stamped[posts[j].id], Later(j) \ {posts[j].id})
          PROVE  Holds(nonces', posts[j].id, stamped[posts[j].id], (Later(j) \ {posts[j].id}) \cup {post.id})
      <4>1. posts[j].id \in DOMAIN nonces
        BY <3>3 DEF Holds
      <4> QED BY <1>4, <1>7, <3>2, <3>3, <4>1
    <3> QED BY <1>1, <1>6, <1>7, <3>1, <3>2, <3>3, RememberedStays
  <2>2. PICK n : n = Len(posts) + 1
    OBVIOUS
  <2> QED BY <1>7, <2>1, <2>2, AllStay
<1> QED BY <1>6, <1>8, <1>9, <1>10 DEF HookInv

LEMMA AcceptedStep ==
    ASSUME HookInv, NEW id \in 1..MaxHooks, NEW at \in 0..(MaxTime + SkewMs), id <= Len(stamped) + 1, Accepted(id, at)
    PROVE  HookInv'
<1> DEFINE store == touch(nonces, id)
<1>0. SkewMs \in Nat /\ WindowMs \in Nat /\ WindowMs >= 2 * SkewMs /\ MaxEntries \in Nat \ {0}
  BY HookAssumption
<1>1. /\ Sent(id, at) /\ verifyLinearRequest(Delivery(id, at)) = "ok"
      /\ nonces' = remember(store, id) /\ Posted(id, "ok", id \notin Unread /\ ~sinkClosed)
      /\ (id \notin Unread /\ push(id)) \/ (id \in Unread /\ UNCHANGED streamVars)
      /\ UNCHANGED <<hookClock, envelope>>
  BY DEF Accepted
<1>2. /\ HookTyped /\ hookClock \in Nat /\ StoreTyped(nonces) /\ at \in Nat /\ id \in Nat /\ sinkClosed \in BOOLEAN
      /\ \A k \in DOMAIN stamped : stamped[k] \in Nat
      /\ \A k \in DOMAIN stamped : stamped'[k] = stamped[k]
      /\ id \in DOMAIN stamped' /\ stamped'[id] = at
      /\ \A k \in DOMAIN posts : posts[k].id \in DOMAIN stamped
  <2>1. HookTyped /\ hookClock \in Nat /\ StoreTyped(nonces) /\ sinkClosed \in BOOLEAN
    BY DEF HookInv, HookTyped
  <2>2. \A k \in DOMAIN posts : posts[k].id \in DOMAIN stamped
    BY DEF HookInv, HookTyped
  <2>3. \A k \in DOMAIN stamped : stamped[k] \in Nat
    BY <2>1, StampsAreTimes
  <2>4. at \in Nat /\ (\A k \in DOMAIN stamped : stamped'[k] = stamped[k]) /\ id \in DOMAIN stamped' /\ stamped'[id] = at
    BY SentFits, <1>1, <2>1
  <2> QED BY <2>1, <2>2, <2>3, <2>4
<1>3. at <= hookClock + SkewMs /\ hookClock <= at + SkewMs /\ ~seen(nonces, id)
  <2>1. Distance(hookClock, at) <= SkewMs /\ ~seen(nonces, id)
    BY <1>1, <1>2, VerifyReasons
  <2> QED BY <1>0, <1>2, <2>1 DEF Distance
<1>4. /\ StoreTyped(store)
      /\ \A x \in DOMAIN nonces : \A others : \A stamp \in Nat :
            Holds(nonces, x, stamp, others) /\ hookClock <= stamp + SkewMs
               => Holds(store, x, stamp, others \cup {id})
  BY <1>2, TouchFits
<1> HIDE DEF store
<1>5. /\ StoreTyped(nonces')
      /\ \A stamp \in Nat : stamp <= hookClock + SkewMs => Holds(nonces', id, stamp, {})
      /\ \A x \in DOMAIN store \ {id} : \A others : \A stamp \in Nat :
            Holds(store, x, stamp, others) /\ hookClock <= stamp + SkewMs /\ IsFiniteSet(others)
               => \/ Holds(nonces', x, stamp, others \cup {id})
                  \/ Cardinality((others \cup {id}) \ {x}) >= MaxEntries
  BY <1>1, <1>2, <1>4, RememberFits
<1>6. /\ yielded' \in Seq(Nat) /\ buffer' \in Seq(Nat) /\ reading' \in Nat /\ sinkClosed' \in BOOLEAN
      /\ (reading' > 0 => buffer' = <<>>)
      /\ Given' = IF id \notin Unread /\ ~sinkClosed THEN Append(Given, id) ELSE Given
  <2>1. CASE id \notin Unread /\ push(id)
    BY <1>2, <2>1, PushGives
  <2>2. CASE id \in Unread /\ UNCHANGED streamVars
    BY <2>2 DEF HookInv, HookTyped, InOrder, Given, streamVars
  <2> QED BY <1>1, <2>1, <2>2
<1>7. /\ HookTyped'
      /\ \E post : /\ posts' = Append(posts, post) /\ post.id = id /\ post.pushed = (id \notin Unread /\ ~sinkClosed)
                   /\ IsAccepted(post)
  <2> DEFINE pushed == id \notin Unread /\ ~sinkClosed
             reason == "ok"
  <2>1. pushed \in BOOLEAN /\ reason = "ok" /\ Posted(id, reason, pushed)
    BY <1>1
  <2> HIDE DEF pushed, reason
  <2>2. /\ HookTyped'
        /\ \E post : posts' = Append(posts, post) /\ post.id = id /\ post.pushed = pushed /\ (IsAccepted(post) <=> reason = "ok")
    BY <1>1, <1>5, <1>6, <2>1, PostFits
  <2> QED BY <2>1, <2>2 DEF pushed
<1>8. PICK post : posts' = Append(posts, post) /\ post.id = id /\ post.pushed = (id \notin Unread /\ ~sinkClosed)
  BY <1>7
<1>9. InOrder'
  <2>1. post.pushed \in BOOLEAN /\ Given' = IF post.pushed THEN Append(Given, post.id) ELSE Given
    BY <1>6, <1>8
  <2> QED BY <1>2, <1>6, <1>8, <2>1, OrderStays
<1>10. NoReplay'
  <2>1. ASSUME NEW j \in DOMAIN posts, posts[j].id = id, IsAccepted(posts[j])
        PROVE  Cardinality(Later(j) \ {id}) >= MaxEntries
    <3>1. Remembered(j) /\ id \in DOMAIN stamped /\ stamped[id] = at
      BY <1>2, <2>1 DEF HookInv, AllRemembered
    <3>2. ASSUME Holds(nonces, id, at, Later(j) \ {id}) PROVE FALSE
      <4>1. id \in DOMAIN nonces /\ at <= nonces[id].at + SkewMs
        BY <3>2 DEF Holds
      <4>2. nonces[id].at \in Nat /\ ~(hookClock - nonces[id].at <= WindowMs)
        BY <1>2, <1>3, <4>1 DEF seen, StoreTyped
      <4> QED BY <1>0, <1>2, <1>3, <4>1, <4>2
    <3>3. ~(hookClock > at + SkewMs)
      BY <1>0, <1>2, <1>3
    <3> QED BY <2>1, <3>1, <3>2, <3>3 DEF Remembered
  <2> QED BY <1>8, <2>1, ReplayStays
<1>11. AllRemembered'
  <2>1. ASSUME NEW j \in DOMAIN posts, IsAccepted(posts[j]) PROVE Remembered(j)'
    <3> DEFINE other == posts[j].id
               others == Later(j) \ {other}
    <3>1. Remembered(j) /\ other \in DOMAIN stamped /\ stamped[other] \in Nat
      BY <1>2, <2>1 DEF HookInv, AllRemembered
    <3>2. IsFiniteSet(others \cup {id})
      <4>1. IsFiniteSet(Later(j))
        BY <1>2, <1>8, LaterGrows
      <4>2. IsFiniteSet(others)
        BY <4>1, FS_Subset
      <4> QED BY <4>2, FS_AddElement
    <3> HIDE DEF others
    <3>3. ASSUME hookClock <= stamped[other] + SkewMs, Holds(nonces, other, stamped[other], others)
          PROVE  \/ Holds(nonces', other, stamped[other], others \cup {post.id})
                 \/ Holds(nonces', other, stamped[other], {})
                 \/ Cardinality((others \cup {post.id}) \ {other}) >= MaxEntries
      <4>1. Holds(store, other, stamped[other], others \cup {id})
        <5>1. other \in DOMAIN nonces
          BY <3>3 DEF Holds
        <5> HIDE DEF other
        <5> QED BY <1>4, <3>1, <3>3, <5>1
      <4>2. CASE other = id
        <5>1. stamped[other] = at
          BY <1>2, <3>1, <4>2
        <5> QED BY <1>2, <1>3, <1>5, <4>2, <5>1
      <4>3. CASE other # id
        <5>1. other \in DOMAIN store \ {id}
          BY <4>1, <4>3 DEF Holds
        <5>2. (others \cup {id}) \cup {id} = others \cup {id}
          OBVIOUS
        <5> HIDE DEF other
        <5>3. \/ Holds(nonces', other, stamped[other], (others \cup {id}) \cup {id})
              \/ Cardinality(((others \cup {id}) \cup {id}) \ {other}) >= MaxEntries
          BY <1>5, <3>1, <3>2, <3>3, <4>1, <5>1
        <5> QED BY <1>8, <5>2, <5>3
      <4> QED BY <4>2, <4>3
    <3> QED BY <1>1, <1>2, <1>7, <1>8, <3>1, <3>3, RememberedStays DEF others
  <2>2. PICK n : n = Len(posts) + 1
    OBVIOUS
  <2>3. Remembered(n)'
    <3>1. posts'[n] = post /\ Len(posts') = n /\ n \in Nat
      BY <1>2, <1>8, <2>2 DEF HookTyped
    <3>2. Later(n)' = {}
      BY <3>1 DEF Later
    <3>3. Holds(nonces', id, at, {}) /\ hookClock' = hookClock
      BY <1>1, <1>2, <1>3, <1>5
    <3>4. Holds(nonces, id, at, {})'
      BY <3>3 DEF Holds, Behind
    <3> QED BY <1>2, <1>8, <3>1, <3>2, <3>3, <3>4 DEF Remembered
  <2> QED BY <1>8, <2>1, <2>2, <2>3, AllStay
<1> QED BY <1>7, <1>9, <1>10, <1>11 DEF HookInv

\* A step that posts nothing, and neither gives nor loses an event.
LEMMA QuietStep ==
    ASSUME HookInv, HookTyped', posts' = posts, stamped' = stamped, nonces' = nonces,
           hookClock' >= hookClock, Given' = Given, reading' > 0 => buffer' = <<>>
    PROVE  HookInv'
<1>1. NoReplay'
  BY DEF HookInv, NoReplay, IsAccepted
<1>2. InOrder'
  BY DEF HookInv, InOrder, Pushed
<1>3. AllRemembered'
  <2> SUFFICES ASSUME NEW j \in DOMAIN posts, IsAccepted(posts[j]) PROVE Remembered(j)'
    BY DEF AllRemembered, IsAccepted
  <2>1. Remembered(j) /\ posts[j].id \in DOMAIN stamped /\ HookTyped
    BY DEF HookInv, AllRemembered, HookTyped
  <2> DEFINE id == posts[j].id
             stamp == stamped[id]
  <2>2. stamp \in Nat /\ hookClock \in Nat /\ hookClock' \in Nat /\ SkewMs \in Nat
    <3>1. stamp \in Nat
      BY <2>1, StampsAreTimes
    <3> QED BY <2>1, <3>1, HookAssumption DEF HookTyped
  <2>3. Later(j)' = Later(j) /\ posts'[j].id = id /\ stamped'[id] = stamp
    BY DEF Later
  <2>4. \/ Holds(nonces, id, stamp, Later(j) \ {id}) \/ Cardinality(Later(j) \ {id}) >= MaxEntries
        \/ hookClock > stamp + SkewMs
    BY <2>1 DEF Remembered
  <2>5. \/ Holds(nonces', id, stamp, Later(j)' \ {id}) \/ Cardinality(Later(j)' \ {id}) >= MaxEntries
        \/ hookClock' > stamp + SkewMs
    BY <2>2, <2>3, <2>4
  <2> QED BY <2>3, <2>5 DEF Remembered
<1> QED BY <1>1, <1>2, <1>3 DEF HookInv

LEMMA NextEventStep ==
    ASSUME HookInv, NextEvent
    PROVE  HookInv'
<1>1. yielded \in Seq(Nat) /\ buffer \in Seq(Nat) /\ reading \in Nat /\ hookClock \in Nat
  BY DEF HookInv, HookTyped
<1>2. CASE buffer # <<>>
  <2>1. yielded' = Append(yielded, Head(buffer)) /\ buffer' = Tail(buffer) /\ reading' = reading /\ reading < 1
    BY <1>2 DEF NextEvent
  <2>2. /\ yielded' \in Seq(Nat) /\ buffer' \in Seq(Nat) /\ ~(reading' > 0)
        /\ yielded' \o buffer' = yielded \o buffer
    <3> DEFINE first == Head(buffer)
               rest == Tail(buffer)
    <3>1. first \in Nat /\ rest \in Seq(Nat) /\ buffer = <<first>> \o rest /\ yielded' = Append(yielded, first) /\ buffer' = rest
      BY <1>1, <1>2, <2>1
    <3> HIDE DEF first, rest
    <3>2. <<first>> \in Seq(Nat)
      BY <3>1
    <3>3. yielded' = yielded \o <<first>>
      BY <1>1, <3>1, AppendIsConcat
    <3>4. (yielded \o <<first>>) \o rest = yielded \o (<<first>> \o rest)
      BY <1>1, <3>1, <3>2, ConcatAssociative
    <3>5. yielded' \o buffer' = yielded \o buffer
      BY <3>1, <3>3, <3>4
    <3>6. yielded' \in Seq(Nat)
      BY <1>1, <3>1
    <3> QED BY <1>1, <2>1, <3>1, <3>5, <3>6
  <2>3. HookTyped'
    BY <1>1, <2>1, <2>2 DEF NextEvent, HookInv, HookTyped, StoreTyped
  <2> QED BY <1>1, <2>2, <2>3, QuietStep DEF Given, NextEvent
<1>3. CASE buffer = <<>>
  <2>1. HookTyped'
    BY <1>1, <1>3 DEF NextEvent, HookInv, HookTyped, StoreTyped
  <2> QED BY <1>1, <1>3, <2>1, QuietStep DEF Given, NextEvent
<1> QED BY <1>2, <1>3

LEMMA OtherStep ==
    ASSUME HookInv, CloseSink \/ HookTick \/ Ask \/ UNCHANGED hookVars
    PROVE  HookInv'
<1>1. hookClock \in Nat /\ reading \in Nat /\ (reading > 0 => buffer = <<>>)
  BY DEF HookInv, HookTyped, InOrder
<1>2. CASE CloseSink
  <2>1. HookTyped'
    BY <1>2 DEF CloseSink, HookInv, HookTyped, StoreTyped
  <2> QED BY <1>1, <1>2, <2>1, QuietStep DEF CloseSink, Given
<1>3. CASE HookTick
  <2>1. StoreTyped(nonces)'
    <3>1. StoreTyped(nonces) /\ hookClock' = hookClock + 1 /\ nonces' = nonces
      BY <1>3 DEF HookTick, HookInv, HookTyped
    <3> QED BY <1>1, <3>1 DEF StoreTyped
  <2>2. HookTyped'
    BY <1>1, <1>3, <2>1 DEF HookTick, HookInv, HookTyped, streamVars
  <2> QED BY <1>1, <1>3, <2>2, QuietStep DEF HookTick, streamVars, Given
<1>4. CASE Ask \/ UNCHANGED hookVars
  <2>1. HookTyped'
    BY <1>4 DEF Ask, hookVars, streamVars, HookInv, HookTyped, StoreTyped
  <2> QED BY <1>1, <1>4, <2>1, QuietStep DEF Ask, hookVars, streamVars, Given
<1> QED BY <1>2, <1>3, <1>4

LEMMA HookStarts ==
    ASSUME HookInit
    PROVE  HookInv
<1>1. StoreTyped(nonces)
  BY DEF HookInit, StoreTyped
<1>2. HookTyped
  <2>1. posts = <<>> /\ posts \in Seq([id : Nat, pushed : BOOLEAN, status : Nat]) /\ stamped \in Seq(Nat)
    BY DEF HookInit
  <2>2. \A k \in DOMAIN posts : posts[k].id \in DOMAIN stamped
    BY <2>1
  <2>3. hookClock \in Nat /\ yielded \in Seq(Nat) /\ buffer \in Seq(Nat) /\ reading \in Nat
    BY DEF HookInit
  <2>4. sinkClosed \in BOOLEAN /\ envelope = <<>>
    BY Zenon DEF HookInit
  <2> QED BY <1>1, <2>1, <2>2, <2>3, <2>4 DEF HookTyped
<1>3. AllRemembered /\ NoReplay
  BY DEF HookInit, AllRemembered, NoReplay
<1>4. InOrder
  <2>1. DOMAIN Given = {} /\ Pushed = {}
    BY DEF HookInit, Given, Pushed
  <2>2. [i \in {} |-> 0] \in [DOMAIN Given -> Pushed]
    BY <2>1
  <2> QED BY <2>1, <2>2 DEF InOrder, HookInit
<1> QED BY <1>2, <1>3, <1>4 DEF HookInv

LEMMA LabelsHold ==
    ASSUME NEW env \in Envelopes
    PROVE  LabelsSurfaced(env)
<1>1. /\ env.shape \in BOOLEAN /\ env.kind \in {"create/Comment", "update/Issue", "other"} /\ env.id \in {"gone", "bad", "ok"}
      /\ env.body \in {"gone", "ok"} /\ env.issueId \in {"bad", "ok"} /\ env.issue \in {"bad", "ok"}
      /\ env.fromState \in {"gone", "bad", "ok"} /\ env.toState \in {"bad", "ok"}
      /\ env.fromLabels \in {"gone", "bad", "ok"} /\ env.toLabels \in {"bad", "ok"}
  BY DEF Envelopes, Field
<1>2. parseLinearEvent(env).kind \in Surfaced => env.shape /\ env.id = "ok"
  BY <1>1 DEF parseLinearEvent, classifyEnvelope, parseCommentCreated, parseStatusChanged, parseIssueLabelAdded,
              missing, unsupported, Surfaced
<1>3. ASSUME env.shape, env.kind = "update/Issue", env.id = "ok", env.fromState # "ok",
             env.fromLabels = "ok", env.toLabels = "ok", \E l \in {1, 2} : l \in env.after /\ l \notin env.before
      PROVE  parseLinearEvent(env) = [kind |-> "issue-label-added", added |-> env.after \ env.before]
  <2>1. parseStatusChanged(env).kind \notin Surfaced
    BY <1>1, <1>3 DEF parseStatusChanged, missing, unsupported, Surfaced
  <2>2. parseIssueLabelAdded(env) = [kind |-> "issue-label-added", added |-> env.after \ env.before]
    BY <1>1, <1>3 DEF parseIssueLabelAdded
  <2>3. parseIssueLabelAdded(env).kind \in Surfaced
    BY <2>2 DEF Surfaced
  <2> QED BY <1>3, <2>1, <2>2, <2>3 DEF parseLinearEvent, classifyEnvelope
<1> QED BY <1>2, <1>3 DEF LabelsSurfaced

\* Linear's deliveries are accepted once, unless the nonce was pushed out; the consumer gets
\* the events in order; labels that were added are surfaced.
THEOREM HookCorrect == HookSpec => []HookSound
<1>1. HookInit => HookInv
  BY HookStarts
<1>2. HookInv /\ [HookNext]_hookVars => HookInv'
  <2> SUFFICES ASSUME HookInv, [HookNext]_hookVars PROVE HookInv'
    OBVIOUS
  <2>1. CASE \E id \in 1..MaxHooks, at \in 0..(MaxTime + SkewMs) :
               id <= Len(stamped) + 1 /\ (Rejected(id, at) \/ Accepted(id, at))
    BY <2>1, RejectedStep, AcceptedStep
  <2>2. CASE NextEvent
    BY <2>2, NextEventStep
  <2>3. CASE CloseSink \/ HookTick \/ Ask \/ UNCHANGED hookVars
    BY <2>3, OtherStep
  <2> QED BY <2>1, <2>2, <2>3 DEF HookNext, ServerNext
<1>3. HookInv => HookSound
  BY LabelsHold DEF HookInv, HookTyped, HookSound
<1> QED BY <1>1, <1>2, <1>3, PTL DEF HookSpec
=============================================================================
