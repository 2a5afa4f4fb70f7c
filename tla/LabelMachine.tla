---------------------------- MODULE LabelMachine ----------------------------
(***************************************************************************)
(* The label state machine of packages/linear/integration/src/labels.ts.   *)
(*                                                                         *)
(* transition({issueId, to}) is a sequence of awaited calls to Linear:     *)
(* getIssue, at most one addLabel, then one removeLabel for every other    *)
(* shamu label of the snapshot.  Each may fail, which ends the call.       *)
(* Several transitions may be in flight for one issue (the pickup handler, *)
(* the escalation sink, the overflow path).  Linear's labels are the only  *)
(* shared state; labels that are not shamu labels are never touched and    *)
(* not modelled.                                                           *)
(***************************************************************************)
EXTENDS Integers, FiniteSets

CONSTANTS
    Issues,
    Callers, \* each may have one transition in flight
    NoCall

VARIABLES
    labels, \* the shamu labels of every issue, in Linear
    call    \* the transition each caller is in, or NoCall

labelVars == <<labels, call>>

ShamuLabels == {"ready", "in-progress", "review", "blocked"}

\* The targets the callers of transition use (linear-runtime.ts and
\* escalation-sink.ts); only humans put "ready" on an issue.
Targets == ShamuLabels \ {"ready"}

\* alone: no other transition of the issue was in flight at any time so far.
TransitionCall ==
    [issue : Issues,
     to : Targets,
     pc : {"read", "add", "remove", "ok", "failed"},
     todo : SUBSET ShamuLabels,
     alone : BOOLEAN]

InFlight(k) == call[k] # NoCall /\ call[k].pc \in {"read", "add", "remove"}

Busy(issue) == \E k \in Callers : InFlight(k) /\ call[k].issue = issue

\* Linear: an issue a human has labelled ready, the state before a pickup.
LabelInit ==
    /\ labels = [i \in Issues |-> {"ready"}]
    /\ call = [k \in Callers |-> NoCall]

\* The value of `call' once k calls transition(issue, to).
Called(k, issue, to) ==
    [j \in Callers |->
        IF j = k
          THEN [issue |-> issue, to |-> to, pc |-> "read", todo |-> {}, alone |-> ~Busy(issue)]
          ELSE IF InFlight(j) /\ call[j].issue = issue
                 THEN [call[j] EXCEPT !.alone = FALSE]
                 ELSE call[j]]

Transition(k, issue, to) ==
    /\ ~InFlight(k)
    /\ call' = Called(k, issue, to)
    /\ UNCHANGED labels

\* Mutant: the labels are removed before the target is added.
ReadIssueRemoveFirst(k) ==
    /\ InFlight(k)
    /\ call[k].pc = "read"
    /\ LET others == labels[call[k].issue] \ {call[k].to}
       IN  call' = [call EXCEPT ![k].todo = others,
                                ![k].pc = IF others = {} THEN "add" ELSE "remove"]
    /\ UNCHANGED labels

\* getIssue resolves: the snapshot decides what is left to do.
ReadIssue(k) ==
    /\ InFlight(k)
    /\ call[k].pc = "read"
    /\ LET current == labels[call[k].issue]
           others == current \ {call[k].to}
       IN  call' = [call EXCEPT ![k].todo = others,
                                ![k].pc = IF call[k].to \notin current THEN "add"
                                          ELSE IF others = {} THEN "ok" ELSE "remove"]
    /\ UNCHANGED labels

\* addLabel resolves.
AddLabel(k) ==
    /\ InFlight(k)
    /\ call[k].pc = "add"
    /\ labels' = [labels EXCEPT ![call[k].issue] = @ \cup {call[k].to}]
    /\ call' = [call EXCEPT ![k].pc = IF call[k].todo = {} THEN "ok" ELSE "remove"]

\* Mutant: only one other label is removed.
RemoveLabelOnce(k) ==
    /\ InFlight(k)
    /\ call[k].pc = "remove"
    /\ \E name \in call[k].todo :
          labels' = [labels EXCEPT ![call[k].issue] = @ \ {name}]
    /\ call' = [call EXCEPT ![k].todo = {}, ![k].pc = "ok"]

\* removeLabel of one of the other labels of the snapshot resolves.
RemoveLabel(k) ==
    /\ InFlight(k)
    /\ call[k].pc = "remove"
    /\ \E name \in call[k].todo :
          /\ labels' = [labels EXCEPT ![call[k].issue] = @ \ {name}]
          /\ call' = [call EXCEPT ![k].todo = @ \ {name},
                                  ![k].pc = IF call[k].todo = {name} THEN "ok" ELSE "remove"]

\* One of the three client calls fails: the error is returned, nothing is
\* rolled back.
ClientFails(k) ==
    /\ InFlight(k)
    /\ call' = [call EXCEPT ![k].pc = "failed"]
    /\ UNCHANGED labels

Answered(k) == ReadIssue(k) \/ AddLabel(k) \/ RemoveLabel(k)

Step(k) == Answered(k) \/ ClientFails(k)

\* A human puts a label on the issue while no transition runs.
HumanAdds(issue) ==
    /\ ~Busy(issue)
    /\ \E name \in ShamuLabels :
          labels' = [labels EXCEPT ![issue] = @ \cup {name}]
    /\ UNCHANGED call

LabelNext ==
    \/ \E k \in Callers, issue \in Issues, to \in Targets : Transition(k, issue, to)
    \/ \E k \in Callers : Step(k)
    \/ \E issue \in Issues : HumanAdds(issue)

LabelSpec == LabelInit /\ [][LabelNext]_labelVars

-----------------------------------------------------------------------------

\* Every variable keeps its shape; the labels a transition is going to remove
\* never include its target.
LabelsTyped ==
    /\ labels \in [Issues -> SUBSET ShamuLabels]
    /\ call \in [Callers -> TransitionCall \cup {NoCall}]
    /\ \A k \in Callers : call[k] # NoCall => call[k].to \notin call[k].todo

\* What the add-before-remove of labels.ts gives: an issue loses its last shamu label only to
\* a transition that overlapped another one of the same issue, never to one that
\* ran alone, whatever failed before or during it.
BareOnlyByOverlap ==
    [][\A issue \in Issues :
          labels[issue] # {} /\ labels'[issue] = {} =>
              \E k \in Callers : InFlight(k) /\ call[k].issue = issue /\ ~call[k].alone]_labelVars

\* The header of labels.ts, item 5: a transition that succeeds without another
\* one running beside it leaves exactly its target, from whatever partial state
\* earlier failed or overlapping transitions left.
ConvergesAlone ==
    [][\A k \in Callers :
          InFlight(k) /\ call[k].alone /\ call'[k].pc = "ok"
              => labels'[call[k].issue] = {call[k].to}]_labelVars

=============================================================================
