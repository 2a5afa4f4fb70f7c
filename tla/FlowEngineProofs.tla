-------------------------- MODULE FlowEngineProofs --------------------------
(***************************************************************************)
(* Proofs about FlowEngine: what the topological order guarantees, and     *)
(* that every pass over an accepted flow keeps the promises of FlowSound.  *)
(***************************************************************************)
EXTENDS FlowEngine, FiniteSetTheorems, FunctionTheorems, SequenceTheorems, WellFoundedInduction, TLAPS

-----------------------------------------------------------------------------
(* Natural numbers and minima.                                             *)

\* A non-empty set of naturals has a least member.
LEMMA LeastNat ==
    ASSUME NEW S \in SUBSET Nat, S # {}
    PROVE  \E x \in S : \A y \in S : x <= y
<1>1. PICK x \in S : \A y \in S : ~ (<<y, x>> \in OpToRel(<, Nat))
  BY WFMin, NatLessThanWellFounded
<1>2. \A y \in S : ~(y < x)
  BY <1>1 DEF OpToRel
<1> QED BY <1>2

\* Min picks it.
LEMMA MinLeast ==
    ASSUME NEW S \in SUBSET Nat, S # {}
    PROVE  Min(S) \in S /\ \A y \in S : Min(S) <= y
<1>1. \E x \in S : \A y \in S : x <= y
  BY LeastNat
<1> QED BY <1>1, Zenon DEF Min

\* What holds of 0 and passes from each number to the next holds up to N.
LEMMA UpTo ==
    ASSUME NEW N \in Nat, NEW S, 0 \in S, \A k \in 0..N : k < N /\ k \in S => k + 1 \in S
    PROVE  0..N \subseteq S
<1> DEFINE T == {k \in 0..N : k \notin S}
<1> SUFFICES ASSUME T # {} PROVE FALSE
  OBVIOUS
<1>0. T \in SUBSET Nat
  OBVIOUS
<1>1. PICK x \in T : \A y \in T : x <= y
  BY <1>0, LeastNat
<1>2. x # 0 /\ x - 1 \in 0..N /\ x - 1 < N
  OBVIOUS
<1>3. x - 1 \in S
  BY <1>1, <1>2
<1>4. (x - 1) + 1 \in S
  BY <1>2, <1>3
<1> QED BY <1>4

-----------------------------------------------------------------------------
(* topologicalOrder.                                                       *)

\* The ids emitted after k turns of Kahn's algorithm, as topologicalOrder computes them.
Ready(d, done) == {n \in d.nodes \ done : d.dependsOn[n] \subseteq done}
NextEmitted(d, s) == Append(s, Min(Ready(d, Range(s))))
Turn(d, f, k) == IF k = 0 THEN <<>> ELSE NextEmitted(d, f[k - 1])
EmittedOf(d) == CHOOSE f : f = [k \in 0..Cardinality(d.nodes) |-> Turn(d, f, k)]

LEMMA OrderIsEmitted ==
    ASSUME NEW d
    PROVE  topologicalOrder(d) = EmittedOf(d)[Cardinality(d.nodes)]
BY DEF topologicalOrder, EmittedOf, Turn, NextEmitted, Ready

\* The recursive function in it exists.
LEMMA EmittedExists ==
    ASSUME NEW d, NEW N \in Nat, Cardinality(d.nodes) = N
    PROVE  EmittedOf(d) = [k \in 0..N |-> Turn(d, EmittedOf(d), k)]
<1> DEFINE Computes(f, k) == \A j \in 0..k : f[j] = Turn(d, f, j)
           S == {k \in 0..N : \E f : Computes(f, k)}
<1>1. 0 \in S
  <2> DEFINE f == [j \in 0..0 |-> <<>>]
  <2>1. Computes(f, 0)
    BY DEF Turn
  <2> QED BY <2>1
<1>2. ASSUME NEW k \in 0..N, k < N, k \in S PROVE k + 1 \in S
  <2>1. PICK f : Computes(f, k)
    BY <1>2
  <2> DEFINE g == [j \in 0..(k + 1) |-> IF j = k + 1 THEN NextEmitted(d, f[k]) ELSE f[j]]
  <2>2. ASSUME NEW j \in 0..(k + 1) PROVE g[j] = Turn(d, g, j)
    <3>1. CASE j = k + 1
      <4>1. g[k] = f[k] /\ (k + 1) - 1 = k /\ k + 1 # 0
        OBVIOUS
      <4> QED BY <3>1, <4>1 DEF Turn
    <3>2. CASE j = 0
      BY <2>1, <3>2 DEF Turn
    <3>3. CASE j # 0 /\ j # k + 1
      <4>1. j \in 0..k /\ j - 1 \in 0..(k + 1) /\ j - 1 # k + 1
        BY <3>3
      <4>2. g[j] = f[j] /\ g[j - 1] = f[j - 1]
        BY <3>3, <4>1
      <4> QED BY <2>1, <3>3, <4>1, <4>2 DEF Turn
    <3> QED BY <3>1, <3>2, <3>3
  <2>3. Computes(g, k + 1)
    BY <2>2
  <2>4. \E e : Computes(e, k + 1)
    <3> HIDE DEF g, Computes
    <3> QED BY <2>3
  <2> QED BY <2>4, <1>2
<1> HIDE DEF S
<1>3. N \in S
  BY <1>1, <1>2, UpTo
<1>4. PICK f : Computes(f, N)
  BY <1>3 DEF S
<1> DEFINE h == [k \in 0..N |-> f[k]]
<1>5. ASSUME NEW k \in 0..N PROVE f[k] = Turn(d, h, k)
  <2>1. CASE k = 0
    BY <1>4, <2>1 DEF Turn
  <2>2. CASE k # 0
    <3>1. k - 1 \in 0..N
      BY <2>2
    <3> QED BY <1>4, <2>2, <3>1 DEF Turn
  <2> QED BY <2>1, <2>2
<1>6. h = [k \in 0..N |-> Turn(d, h, k)]
  BY <1>5
<1> HIDE DEF h
<1> QED BY <1>6 DEF EmittedOf

\* One turn of Kahn's algorithm appends a node that was not there, behind its dependencies.
OrderedSeq(d, s) ==
    /\ s \in Seq(d.nodes)
    /\ \A i, j \in 1..Len(s) : s[i] = s[j] => i = j
    /\ \A i \in 1..Len(s) : \A n \in d.dependsOn[s[i]] : \E j \in 1..(i - 1) : s[j] = n

LEMMA TurnOrders ==
    ASSUME NEW d \in Definitions, NEW s, OrderedSeq(d, s), Len(s) < Cardinality(d.nodes)
    PROVE  /\ OrderedSeq(d, NextEmitted(d, s))
           /\ Len(NextEmitted(d, s)) = Len(s) + 1
<1> DEFINE done == Range(s)
           m == Min(Ready(d, done))
<1>1. /\ d.nodes \subseteq Nat /\ IsFiniteSet(d.nodes)
      /\ d.dependsOn \in [d.nodes -> SUBSET d.nodes]
      /\ \A S \in SUBSET d.nodes : S # {} => \E n \in S : d.dependsOn[n] \cap S = {}
  BY DefinitionAssumption
<1>2. s \in Seq(d.nodes) /\ Len(s) \in Nat /\ DOMAIN s = 1..Len(s)
  BY DEF OrderedSeq
<1>3. done \subseteq d.nodes /\ done = {s[i] : i \in 1..Len(s)}
  BY <1>2 DEF Range
<1>4. d.nodes \ done # {}
  <2> SUFFICES ASSUME d.nodes \subseteq done PROVE FALSE
    OBVIOUS
  <2>1. s \in [1..Len(s) -> d.nodes]
    BY <1>2
  <2>2. s \in Surjection(1..Len(s), d.nodes)
    BY <2>1, <1>3 DEF Surjection
  <2>3. ExistsSurjection(1..Len(s), d.nodes)
    BY <2>2 DEF ExistsSurjection
  <2>4. Cardinality(d.nodes) <= Len(s)
    BY <2>3, <1>2, FS_SurjCardinalityBound
  <2>5. Cardinality(d.nodes) \in Nat
    BY <1>1, FS_CardinalityType
  <2> QED BY <2>4, <2>5, <1>2
<1>5. PICK n \in d.nodes \ done : d.dependsOn[n] \cap (d.nodes \ done) = {}
  BY <1>1, <1>4
<1>6. n \in Ready(d, done)
  BY <1>1, <1>5 DEF Ready
<1>7. Ready(d, done) \in SUBSET Nat
  BY <1>1 DEF Ready
<1>8. m \in d.nodes /\ m \notin done /\ d.dependsOn[m] \subseteq done
  <2>1. m \in Ready(d, done)
    BY <1>6, <1>7, MinLeast
  <2> QED BY <2>1 DEF Ready
<1>9. NextEmitted(d, s) = Append(s, m)
  BY DEF NextEmitted
<1> HIDE DEF m, done
<1> DEFINE t == Append(s, m)
<1>10. /\ t \in Seq(d.nodes) /\ Len(t) = Len(s) + 1 /\ t[Len(s) + 1] = m
       /\ \A i \in 1..Len(s) : t[i] = s[i]
  BY <1>2, <1>8
<1> HIDE DEF t
<1>11. \A i \in 1..Len(s) : s[i] # m
  BY <1>3, <1>8
<1>12. ASSUME NEW i \in 1..Len(t), NEW j \in 1..Len(t), t[i] = t[j] PROVE i = j
  BY <1>2, <1>10, <1>11, <1>12 DEF OrderedSeq
<1>13. ASSUME NEW i \in 1..Len(t), NEW k \in d.dependsOn[t[i]]
       PROVE  \E j \in 1..(i - 1) : t[j] = k
  <2>1. CASE i = Len(s) + 1
    <3>1. k \in done
      BY <1>8, <1>10, <1>13, <2>1
    <3>2. PICK j \in 1..Len(s) : s[j] = k
      BY <1>3, <3>1
    <3>3. j \in 1..(i - 1) /\ t[j] = k
      BY <1>2, <1>10, <2>1, <3>2
    <3> QED BY <3>3
  <2>2. CASE i # Len(s) + 1
    <3>1. i \in 1..Len(s) /\ t[i] = s[i]
      BY <1>2, <1>10, <2>2
    <3>2. PICK j \in 1..(i - 1) : s[j] = k
      BY <1>13, <3>1 DEF OrderedSeq
    <3>3. t[j] = k
      BY <1>2, <1>10, <3>1, <3>2
    <3> QED BY <3>3
  <2> QED BY <2>1, <2>2
<1>14. OrderedSeq(d, t)
  BY <1>10, <1>12, <1>13 DEF OrderedSeq
<1> QED BY <1>9, <1>10, <1>14 DEF t

\* topologicalOrder lists every node once, behind all it depends on.
LEMMA OrderFacts ==
    ASSUME NEW d \in Definitions
    PROVE  /\ OrderedSeq(d, topologicalOrder(d))
           /\ \A n \in d.nodes : \E i \in 1..Len(topologicalOrder(d)) : topologicalOrder(d)[i] = n
<1> DEFINE N == Cardinality(d.nodes)
           E == EmittedOf(d)
           S == {k \in 0..N : OrderedSeq(d, E[k]) /\ Len(E[k]) = k}
<1>1. IsFiniteSet(d.nodes) /\ N \in Nat
  BY DefinitionAssumption, FS_CardinalityType
<1>2. \A k \in 0..N : E[k] = Turn(d, E, k)
  BY <1>1, EmittedExists
<1> HIDE DEF N, E
<1>3. 0 \in S
  <2>1. E[0] = <<>>
    BY <1>1, <1>2 DEF Turn
  <2>2. OrderedSeq(d, <<>>)
    BY DEF OrderedSeq
  <2> QED BY <1>1, <2>1, <2>2
<1>4. ASSUME NEW k \in 0..N, k < N, k \in S PROVE k + 1 \in S
  <2>1. k + 1 \in 0..N /\ k + 1 # 0 /\ (k + 1) - 1 = k
    BY <1>1, <1>4
  <2>2. E[k + 1] = NextEmitted(d, E[k])
    BY <1>2, <2>1 DEF Turn
  <2>3. OrderedSeq(d, E[k]) /\ Len(E[k]) = k /\ Len(E[k]) < Cardinality(d.nodes)
    BY <1>4 DEF N
  <2>4. OrderedSeq(d, E[k + 1]) /\ Len(E[k + 1]) = k + 1
    BY <2>2, <2>3, TurnOrders
  <2> QED BY <2>1, <2>4
<1> HIDE DEF S
<1>5. N \in S
  BY <1>1, <1>3, <1>4, UpTo
<1>6. OrderedSeq(d, E[N]) /\ Len(E[N]) = N
  BY <1>5 DEF S
<1> DEFINE s == E[N]
<1>7. topologicalOrder(d) = s
  BY OrderIsEmitted DEF N, E
<1>8. s \in Injection(1..N, d.nodes)
  <2>1. s \in [1..N -> d.nodes]
    BY <1>6 DEF OrderedSeq
  <2> QED BY <1>6, <2>1 DEF OrderedSeq, Injection, IsInjective
<1>9. s \in Surjection(1..N, d.nodes)
  <2>1. Cardinality(1..N) = N
    BY <1>1, FS_Interval
  <2> QED BY <1>1, <1>8, <2>1, FS_Injection DEF N
<1>10. \A n \in d.nodes : \E i \in 1..N : s[i] = n
  BY <1>9 DEF Surjection
<1> QED BY <1>6, <1>7, <1>10

-----------------------------------------------------------------------------
(* States and the operators on them.                                       *)

Statuses == {"none", "pending", "running", "succeeded", "failed", "paused"}

States(d) ==
    [nodeStatus : [d.nodes -> Statuses], keys : Seq(d.nodes),
     nodeOutputs : [d.nodes -> Outputs(d) \cup {NoOutput}],
     pendingGate : d.nodes \cup {NoNode}, samples : Nat]

\* A state whose keys are the nodes that have a status.
StateFits(d, s) ==
    /\ s \in States(d)
    /\ \A n \in d.nodes : (\E k \in 1..Len(s.keys) : s.keys[k] = n) <=> s.nodeStatus[n] # "none"

LEMMA SetStatusFits ==
    ASSUME NEW d, NEW s, StateFits(d, s), NEW n \in d.nodes, NEW status \in Statuses \ {"none"}
    PROVE  LET t == SetStatus(s, n, status) IN
           /\ StateFits(d, t)
           /\ t.nodeStatus = [s.nodeStatus EXCEPT ![n] = status]
           /\ t.nodeOutputs = s.nodeOutputs
           /\ t.pendingGate = s.pendingGate
           /\ t.samples = s.samples
<1> DEFINE t == SetStatus(s, n, status)
<1>1. s \in States(d) /\ s.keys \in Seq(d.nodes) /\ s.nodeStatus \in [d.nodes -> Statuses]
  BY DEF StateFits, States
<1>2. /\ t.nodeStatus = [s.nodeStatus EXCEPT ![n] = status]
      /\ t.nodeOutputs = s.nodeOutputs
      /\ t.pendingGate = s.pendingGate
      /\ t.samples = s.samples
      /\ t.keys = IF s.nodeStatus[n] = "none" THEN Append(s.keys, n) ELSE s.keys
  BY <1>1 DEF SetStatus, States
<1>3. t \in States(d)
  <2>1. t.keys \in Seq(d.nodes)
    <3>1. Append(s.keys, n) \in Seq(d.nodes)
      BY <1>1, AppendProperties, Zenon
    <3> QED BY <1>1, <1>2, <3>1
  <2> QED BY <1>1, <2>1 DEF SetStatus, States
<1>4. ASSUME NEW m \in d.nodes
      PROVE  (\E k \in 1..Len(t.keys) : t.keys[k] = m) <=> t.nodeStatus[m] # "none"
  <2>1. (\E k \in 1..Len(s.keys) : s.keys[k] = m) <=> s.nodeStatus[m] # "none"
    BY DEF StateFits
  <2>2. CASE s.nodeStatus[n] # "none"
    BY <1>1, <1>2, <2>1, <2>2
  <2>3. CASE s.nodeStatus[n] = "none"
    <3>1. /\ t.keys = Append(s.keys, n) /\ Len(t.keys) = Len(s.keys) + 1 /\ Len(s.keys) \in Nat
          /\ t.keys[Len(s.keys) + 1] = n
          /\ \A k \in 1..Len(s.keys) : t.keys[k] = s.keys[k]
      BY <1>1, <1>2, <2>3
    <3>2. CASE m = n
      BY <1>1, <1>2, <3>1, <3>2
    <3>3. CASE m # n
      <4>1. t.nodeStatus[m] = s.nodeStatus[m]
        BY <1>1, <1>2, <3>3
      <4>2. (\E k \in 1..Len(t.keys) : t.keys[k] = m) <=> (\E k \in 1..Len(s.keys) : s.keys[k] = m)
        <5> HIDE DEF t
        <5> QED BY <3>1, <3>3
      <4> QED BY <2>1, <4>1, <4>2
    <3> QED BY <3>2, <3>3
  <2> QED BY <2>2, <2>3
<1> HIDE DEF t
<1>5. StateFits(d, t)
  BY <1>3, <1>4 DEF StateFits
<1> QED BY <1>2, <1>5 DEF t

LEMMA SetOutputFits ==
    ASSUME NEW d, NEW s, StateFits(d, s), NEW n \in d.nodes,
           NEW hash, NEW ok, NEW value, [hash |-> hash, ok |-> ok, value |-> value] \in Outputs(d)
    PROVE  LET t == SetOutput(s, n, hash, ok, value) IN
           /\ StateFits(d, t)
           /\ t.nodeStatus = s.nodeStatus
           /\ t.nodeOutputs = [s.nodeOutputs EXCEPT ![n] = [hash |-> hash, ok |-> ok, value |-> value]]
           /\ t.pendingGate = s.pendingGate
           /\ t.samples = s.samples
BY DEF SetOutput, StateFits, States

LEMMA SampleFits ==
    ASSUME NEW d, NEW s, StateFits(d, s)
    PROVE  LET t == recordCostSample(s) IN
           /\ StateFits(d, t)
           /\ t.nodeStatus = s.nodeStatus
           /\ t.nodeOutputs = s.nodeOutputs
           /\ t.pendingGate = s.pendingGate
           /\ t.samples = s.samples + 1
BY DEF recordCostSample, StateFits, States

\* The gate of a paused flow.
LEMMA PendingFits ==
    ASSUME NEW d, NEW s, StateFits(d, s), NEW g \in d.nodes \cup {NoNode}
    PROVE  LET t == [s EXCEPT !.pendingGate = g] IN
           /\ StateFits(d, t)
           /\ t.nodeStatus = s.nodeStatus
           /\ t.nodeOutputs = s.nodeOutputs
           /\ t.pendingGate = g
           /\ t.samples = s.samples
BY DEF StateFits, States

LEMMA EmptyFits ==
    /\ StateFits(def, emptyState)
    /\ emptyState.nodeStatus = [n \in Nodes |-> "none"]
    /\ emptyState.nodeOutputs = [n \in Nodes |-> NoOutput]
    /\ emptyState.pendingGate = NoNode
    /\ emptyState.samples = 0
BY DEF StateFits, States, emptyState, Nodes, Statuses

-----------------------------------------------------------------------------
(* deriveTerminalStatus.                                                   *)

LEMMA DeriveKind ==
    ASSUME NEW s
    PROVE  /\ deriveTerminalStatus(s) \in {"paused", "succeeded", "failed"}
           /\ s.pendingGate # NoNode => deriveTerminalStatus(s) = "paused"
BY DEF deriveTerminalStatus

\* Only nodes that have succeeded, and nodes without a status.
LEMMA DeriveSucceeded ==
    ASSUME NEW d, NEW s, StateFits(d, s), s.pendingGate = NoNode,
           \A n \in d.nodes : s.nodeStatus[n] \in {"none", "succeeded"}
    PROVE  deriveTerminalStatus(s) = "succeeded"
<1>1. s.keys \in Seq(d.nodes)
  BY DEF StateFits, States
<1>2. ASSUME NEW k \in 1..Len(s.keys) PROVE s.nodeStatus[s.keys[k]] = "succeeded"
  BY <1>1 DEF StateFits
<1>3. {k \in DOMAIN s.keys : s.nodeStatus[s.keys[k]] # "succeeded"} = {}
  BY <1>1, <1>2
<1> QED BY <1>3 DEF deriveTerminalStatus

\* A node with another status is seen.
LEMMA DeriveNotSucceeded ==
    ASSUME NEW d, NEW s, StateFits(d, s), NEW m \in d.nodes,
           s.nodeStatus[m] \notin {"none", "succeeded"}
    PROVE  deriveTerminalStatus(s) # "succeeded"
<1>1. s.keys \in Seq(d.nodes)
  BY DEF StateFits, States
<1>2. PICK k \in 1..Len(s.keys) : s.keys[k] = m
  BY DEF StateFits
<1>3. k \in {j \in DOMAIN s.keys : s.nodeStatus[s.keys[j]] # "succeeded"}
  BY <1>1, <1>2
<1> QED BY <1>3 DEF deriveTerminalStatus

\* If it is the only one, it decides.
LEMMA DeriveFailed ==
    ASSUME NEW d, NEW s, StateFits(d, s), s.pendingGate = NoNode, NEW m \in d.nodes,
           s.nodeStatus[m] \in {"failed", "pending"},
           \A n \in d.nodes : n # m => s.nodeStatus[n] \in {"none", "succeeded"}
    PROVE  deriveTerminalStatus(s) = "failed"
<1> DEFINE open == {k \in DOMAIN s.keys : s.nodeStatus[s.keys[k]] # "succeeded"}
<1>1. s.keys \in Seq(d.nodes)
  BY DEF StateFits, States
<1>2. PICK k \in 1..Len(s.keys) : s.keys[k] = m
  BY DEF StateFits
<1>3. k \in open
  BY <1>1, <1>2
<1>4. open \in SUBSET Nat /\ open # {}
  BY <1>1, <1>3
<1>5. Min(open) \in open
  BY <1>4, MinLeast
<1>6. ASSUME NEW j \in open PROVE s.keys[j] = m
  <2>1. s.keys[j] \in d.nodes /\ j \in 1..Len(s.keys)
    BY <1>1
  <2>2. s.nodeStatus[s.keys[j]] # "none"
    BY <2>1 DEF StateFits
  <2> QED BY <2>1, <2>2
<1>7. s.nodeStatus[s.keys[Min(open)]] # "paused"
  BY <1>5, <1>6
<1> QED BY <1>4, <1>7 DEF deriveTerminalStatus

-----------------------------------------------------------------------------
(* The inductive invariant.                                                *)

\* The shape of the variables, and what they are between two passes.
EngineTyped ==
    /\ def \in Definitions
    /\ pc \in {"idle", "walk", "call"}
    /\ input \in Inputs
    /\ aborted \in BOOLEAN /\ resumed \in BOOLEAN
    /\ pc = "idle" => pos = 0 /\ skipped = {} /\ state = emptyState
    /\ pc = "walk" => pos \in 1..(Len(Order) + 1)
    /\ pc = "call" => pos \in 1..Len(Order) /\ Kind # "human_gate" /\ attempt \in 1..Budget(Current)
    /\ pc # "call" => attempt = 0
    /\ StateFits(def, state)
    /\ row # NoRow =>
          row.status \in {"running", "succeeded", "failed", "paused"} /\ StateFits(def, row.state)
    /\ outcome # NoOutcome => outcome.published \in {"succeeded", "failed", "paused"}
    /\ lost \subseteq {"death", "write"}
    /\ last \in [Nodes -> Bundles(def) \cup {NoOutput}]
    /\ \A n \in Nodes : last[n] # NoOutput => def.kind[n] \in {"agent_step", "conditional"}
    /\ calls \in Nat

\* A node that this pass ran or replayed.
Succeeded(n) ==
    /\ state.nodeStatus[n] = "succeeded"
    /\ state.nodeOutputs[n] # NoOutput
    /\ state.nodeOutputs[n].ok

\* Every node behind the walk was skipped or has succeeded, whatever a resume brought along.
WalkFits ==
    pc # "idle" =>
        /\ state.pendingGate = NoNode
        /\ \A i \in 1..(pos - 1) : Order[i] \in skipped \/ Succeeded(Order[i])
        /\ pc = "call" => ~Skips /\ state.nodeStatus[Current] = "running"

\* In a fresh pass nothing before the walk has a status, and nothing behind it has failed.
FreshFits ==
    pc # "idle" /\ ~resumed =>
        \A i \in 1..Len(Order) :
            /\ i < pos => state.nodeStatus[Order[i]] \in {"none", "succeeded"}
            /\ i > pos \/ (i = pos /\ pc = "walk") => state.nodeStatus[Order[i]] = "none"

\* A call under way is not paid for yet.
CostFits ==
    /\ state.samples + (IF pc = "call" THEN 1 ELSE 0) <= calls
    /\ row # NoRow => row.state.samples <= calls

\* Where each node last settled is what the state still holds, or, between passes, the row.
Holds(outputs) ==
    \A n \in Nodes : last[n] # NoOutput => outputs[n] # NoOutput /\ outputs[n].hash = last[n]

ReuseFits ==
    lost = {} =>
        /\ pc # "idle" => Holds(state.nodeOutputs)
        /\ pc = "idle" /\ row # NoRow => Holds(row.state.nodeOutputs)

EngineInv == EngineTyped /\ WalkFits /\ FreshFits /\ CostFits /\ ReuseFits /\ ReportAgrees

-----------------------------------------------------------------------------
(* The node the walk is at.                                                *)

LEMMA NodeFacts ==
    ASSUME EngineTyped
    PROVE  /\ Order \in Seq(Nodes) /\ Len(Order) \in Nat
           /\ \A i \in 1..Len(Order) : Order[i] \in Nodes
           /\ \A i, j \in 1..Len(Order) : Order[i] = Order[j] => i = j
           /\ \A i \in 1..Len(Order) : \A n \in def.dependsOn[Order[i]] : \E j \in 1..(i - 1) : Order[j] = n
           /\ \A n \in Nodes : \E i \in 1..Len(Order) : Order[i] = n
<1>1. def \in Definitions
  BY DEF EngineTyped
<1>2. Order = topologicalOrder(def)
  BY <1>1 DEF Order, OrderOf
<1>3. /\ OrderedSeq(def, Order)
      /\ \A n \in Nodes : \E i \in 1..Len(Order) : Order[i] = n
  BY <1>1, <1>2, OrderFacts DEF Nodes
<1>4. Order \in Seq(Nodes)
  BY <1>3 DEF OrderedSeq, Nodes
<1>5. Len(Order) \in Nat /\ \A i \in 1..Len(Order) : Order[i] \in Nodes
  BY <1>4
<1> QED BY <1>3, <1>4, <1>5 DEF OrderedSeq

LEMMA CurrentFacts ==
    ASSUME EngineTyped, pos \in 1..Len(Order)
    PROVE  /\ Current \in Nodes
           /\ \A i \in 1..Len(Order) : i # pos => Order[i] # Current
           /\ \A n \in def.dependsOn[Current] : n \in Nodes /\ n # Current /\ \E j \in 1..(pos - 1) : Order[j] = n
           /\ Kind \in {"agent_step", "conditional", "loop", "human_gate"}
<1>1. def \in Definitions
  BY DEF EngineTyped
<1>2. Current \in Nodes /\ \A i \in 1..Len(Order) : i # pos => Order[i] # Current
  BY NodeFacts DEF Current
<1>3. ASSUME NEW n \in def.dependsOn[Current]
      PROVE  n \in Nodes /\ n # Current /\ \E j \in 1..(pos - 1) : Order[j] = n
  <2>1. PICK j \in 1..(pos - 1) : Order[j] = n
    BY <1>3, NodeFacts DEF Current
  <2>2. j \in 1..Len(Order) /\ j # pos
    BY <2>1, NodeFacts
  <2> QED BY <1>2, <2>1, <2>2, NodeFacts
<1>4. Kind \in {"agent_step", "conditional", "loop", "human_gate"}
  BY <1>1, <1>2, DefinitionAssumption DEF Kind, Nodes
<1> QED BY <1>2, <1>3, <1>4

LEMMA BundleTyped ==
    ASSUME EngineTyped, NEW n \in Nodes
    PROVE  resolveInputs(n) \in Bundles(def)
<1> DEFINE D == {d \in def.dependsOn[n] : state.nodeOutputs[d] # NoOutput}
           deps == [d \in D |-> state.nodeOutputs[d].value]
<1>1. D \in SUBSET def.nodes
  BY DefinitionAssumption DEF EngineTyped, Nodes
<1>2. ASSUME NEW d \in D PROVE state.nodeOutputs[d].value \in BOOLEAN
  <2>1. state.nodeOutputs[d] \in Outputs(def)
    BY <1>1 DEF EngineTyped, StateFits, States
  <2> QED BY <2>1 DEF Outputs
<1>3. deps \in [D -> BOOLEAN]
  BY <1>2
<1>4. deps \in UNION {[S -> BOOLEAN] : S \in SUBSET def.nodes}
  BY <1>1, <1>3
<1>5. resolveInputs(n) = [initial |-> input, deps |-> deps]
  BY DEF resolveInputs
<1> HIDE DEF deps
<1> QED BY <1>4, <1>5 DEF Bundles, EngineTyped

\* What Store and SetOutput put in.
LEMMA OutputTyped ==
    ASSUME EngineTyped, NEW n \in Nodes, NEW ok \in BOOLEAN, NEW value \in BOOLEAN
    PROVE  [hash |-> resolveInputs(n), ok |-> ok, value |-> value] \in Outputs(def)
BY BundleTyped DEF Outputs

LEMMA StoreFits ==
    ASSUME EngineTyped, pos \in 1..Len(Order), NEW ok \in BOOLEAN, NEW value \in BOOLEAN
    PROVE  LET t == Store(ok, value)
               o == [hash |-> resolveInputs(Current), ok |-> ok, value |-> value]
           IN /\ StateFits(def, t)
              /\ t.nodeStatus = [state.nodeStatus EXCEPT ![Current] = IF ok THEN "succeeded" ELSE "failed"]
              /\ t.nodeOutputs = [state.nodeOutputs EXCEPT ![Current] = o]
              /\ t.pendingGate = state.pendingGate
              /\ t.samples = state.samples + 1
              /\ o \in Outputs(def)
<1> DEFINE status == IF ok THEN "succeeded" ELSE "failed"
           o == [hash |-> resolveInputs(Current), ok |-> ok, value |-> value]
           s1 == SetStatus(state, Current, status)
           s2 == SetOutput(s1, Current, resolveInputs(Current), ok, value)
           s3 == recordCostSample(s2)
<1>1. Current \in Nodes /\ o \in Outputs(def) /\ status \in Statuses \ {"none"}
  BY CurrentFacts, OutputTyped DEF Statuses
<1>2. StateFits(def, state)
  BY DEF EngineTyped
<1>3. /\ StateFits(def, s1)
      /\ s1.nodeStatus = [state.nodeStatus EXCEPT ![Current] = status]
      /\ s1.nodeOutputs = state.nodeOutputs
      /\ s1.pendingGate = state.pendingGate
      /\ s1.samples = state.samples
  <2> HIDE DEF status
  <2> QED BY <1>1, <1>2, SetStatusFits DEF Nodes
<1> HIDE DEF s1
<1>4. /\ StateFits(def, s2)
      /\ s2.nodeStatus = s1.nodeStatus
      /\ s2.nodeOutputs = [s1.nodeOutputs EXCEPT ![Current] = o]
      /\ s2.pendingGate = s1.pendingGate
      /\ s2.samples = s1.samples
  BY <1>1, <1>3, SetOutputFits DEF Nodes
<1> HIDE DEF s2
<1>5. /\ StateFits(def, s3)
      /\ s3.nodeStatus = s2.nodeStatus
      /\ s3.nodeOutputs = s2.nodeOutputs
      /\ s3.pendingGate = s2.pendingGate
      /\ s3.samples = s2.samples + 1
  BY <1>4, SampleFits
<1>6. Store(ok, value) = s3
  BY DEF Store, s1, s2
<1> HIDE DEF s3, o, status
<1>7. QED
  BY <1>1, <1>3, <1>4, <1>5, <1>6 DEF o, status

-----------------------------------------------------------------------------
(* The four kinds of step inside a pass, with what all of a kind have in   *)
(* common.  Paid: at most the runner call under way.                       *)

Paid(s) == s.samples <= state.samples + (IF pc = "call" THEN 1 ELSE 0)

\* The walk passes a node because it is skipped, or because it has succeeded with output o.
AdvanceFits(s, skips) ==
    /\ pc # "idle" /\ pos \in 1..Len(Order)
    /\ Advance(s, skips)
    /\ StateFits(def, s) /\ s.pendingGate = state.pendingGate /\ Paid(s)
    /\ \/ s = state /\ skips = {Current} /\ Skips /\ UNCHANGED last
       \/ /\ ~Skips
          /\ \E o \in Outputs(def) :
                /\ o.ok
                /\ s.nodeStatus = [state.nodeStatus EXCEPT ![Current] = "succeeded"]
                /\ s.nodeOutputs = [state.nodeOutputs EXCEPT ![Current] = o]
                /\ skips = IF Kind = "conditional" THEN {Unpicked(Current, o.value)} ELSE {}
                /\ \/ UNCHANGED last /\ (o = state.nodeOutputs[Current] \/ last[Current] = NoOutput)
                   \/ /\ last' = [last EXCEPT ![Current] = o.hash]
                      /\ Kind \in {"agent_step", "conditional"}

CallFits(s, k) ==
    /\ pc # "idle" /\ pos \in 1..Len(Order) /\ ~Skips
    /\ Call(s, k)
    /\ StateFits(def, s) /\ s.pendingGate = state.pendingGate /\ Paid(s)
    /\ s.nodeStatus = [state.nodeStatus EXCEPT ![Current] = "running"]
    /\ s.nodeOutputs = state.nodeOutputs
    /\ Kind # "human_gate" /\ k \in 1..Budget(Current)

\* The status published and the one that runFlowInProcess derives.
ReportFits(status, s) ==
    /\ status \in {"succeeded", "failed", "paused"}
    /\ ~resumed => deriveTerminalStatus(s) = status
    /\ status = "paused" => deriveTerminalStatus(s) = "paused"
    /\ deriveTerminalStatus(s) = "succeeded" => status = "succeeded" \/ aborted

FinishFits(status, s) ==
    /\ pc # "idle"
    /\ Finish(status, s)
    /\ StateFits(def, s) /\ Paid(s)
    /\ ReportFits(status, s)
    /\ \/ UNCHANGED last /\ s.nodeOutputs = state.nodeOutputs
       \/ /\ pos \in 1..Len(Order) /\ Kind \in {"agent_step", "conditional"}
          /\ \E o \in Outputs(def) :
                /\ s.nodeOutputs = [state.nodeOutputs EXCEPT ![Current] = o]
                /\ last' = [last EXCEPT ![Current] = o.hash]

\* SetStatus of the current node.
LEMMA MarkFits ==
    ASSUME EngineTyped, pos \in 1..Len(Order), NEW status \in Statuses \ {"none"}
    PROVE  LET t == SetStatus(state, Current, status) IN
           /\ StateFits(def, t)
           /\ t.nodeStatus = [state.nodeStatus EXCEPT ![Current] = status]
           /\ t.nodeOutputs = state.nodeOutputs
           /\ t.pendingGate = state.pendingGate
           /\ t.samples = state.samples
           /\ state.samples \in Nat
           /\ Paid(t)
<1>1. StateFits(def, state) /\ Current \in def.nodes /\ state.samples \in Nat
  BY CurrentFacts DEF EngineTyped, Nodes, StateFits, States
<1>2. LET t == SetStatus(state, Current, status) IN
           /\ StateFits(def, t)
           /\ t.nodeStatus = [state.nodeStatus EXCEPT ![Current] = status]
           /\ t.nodeOutputs = state.nodeOutputs
           /\ t.pendingGate = state.pendingGate
           /\ t.samples = state.samples
  BY <1>1, SetStatusFits
<1> QED BY <1>1, <1>2 DEF Paid

\* A failure of the current node is what the report shows.
LEMMA FailureReported ==
    ASSUME EngineInv, pc # "idle", pos \in 1..Len(Order),
           NEW t, StateFits(def, t), t.pendingGate = state.pendingGate,
           NEW status \in {"failed", "pending"},
           t.nodeStatus = [state.nodeStatus EXCEPT ![Current] = status]
    PROVE  ReportFits("failed", t)
<1>1. EngineTyped /\ state.pendingGate = NoNode
  BY DEF EngineInv, WalkFits
<1>2. Current \in def.nodes /\ state.nodeStatus \in [def.nodes -> Statuses]
  BY <1>1, CurrentFacts DEF EngineTyped, Nodes, StateFits, States
<1>3. t.nodeStatus[Current] = status
  BY <1>2
<1>4. deriveTerminalStatus(t) # "succeeded"
  BY <1>2, <1>3, DeriveNotSucceeded
<1>5. ASSUME ~resumed, NEW n \in def.nodes, n # Current
      PROVE  t.nodeStatus[n] \in {"none", "succeeded"}
  <2>1. PICK i \in 1..Len(Order) : Order[i] = n
    BY <1>1, NodeFacts DEF Nodes
  <2>2. i # pos
    BY <1>5, <2>1 DEF Current
  <2>3. i < pos \/ i > pos
    BY <1>1, <2>2, NodeFacts
  <2>4. /\ i < pos => state.nodeStatus[Order[i]] \in {"none", "succeeded"}
        /\ i > pos => state.nodeStatus[Order[i]] = "none"
    BY <1>5, <2>1, Zenon DEF EngineInv, FreshFits
  <2>5. state.nodeStatus[n] \in {"none", "succeeded"}
    BY <2>1, <2>3, <2>4
  <2> QED BY <1>2, <1>5, <2>5
<1>6. ~resumed => deriveTerminalStatus(t) = "failed"
  BY <1>1, <1>2, <1>3, <1>5, DeriveFailed
<1> QED BY <1>4, <1>6 DEF ReportFits

LEMMA FailNode ==
    ASSUME EngineInv, pc # "idle", pos \in 1..Len(Order),
           Finish("failed", SetStatus(state, Current, "failed")), UNCHANGED last
    PROVE  FinishFits("failed", SetStatus(state, Current, "failed"))
<1> DEFINE t == SetStatus(state, Current, "failed")
<1>1. EngineTyped
  BY DEF EngineInv
<1>2. /\ StateFits(def, t)
      /\ t.nodeStatus = [state.nodeStatus EXCEPT ![Current] = "failed"]
      /\ t.nodeOutputs = state.nodeOutputs
      /\ t.pendingGate = state.pendingGate
      /\ Paid(t)
  BY <1>1, MarkFits DEF Statuses
<1> HIDE DEF t
<1>3. ReportFits("failed", t)
  BY <1>2, FailureReported
<1>4. Finish("failed", t)
  BY DEF t
<1>5. FinishFits("failed", t)
  BY <1>2, <1>3, <1>4 DEF FinishFits
<1> QED BY <1>5 DEF t

-----------------------------------------------------------------------------
(* Each action is of one of the kinds.                                     *)

LEMMA AtNodeFacts ==
    ASSUME EngineInv, AtNode
    PROVE  EngineTyped /\ pc # "idle" /\ pc = "walk" /\ pos \in 1..Len(Order) /\ Current \in Nodes
<1>1. EngineTyped
  BY DEF EngineInv
<1>2. pos \in 1..Len(Order)
  BY <1>1, NodeFacts DEF AtNode, EngineTyped
<1> QED BY <1>1, <1>2, CurrentFacts DEF AtNode

LEMMA WalkAbortedFits ==
    ASSUME EngineInv, WalkAborted
    PROVE  \E s : FinishFits("failed", s)
<1> DEFINE status == IF state.nodeStatus[Current] = "none" THEN "pending" ELSE state.nodeStatus[Current]
           t == SetStatus(state, Current, status)
<1>1. EngineTyped /\ pc # "idle" /\ pc = "walk" /\ pos \in 1..Len(Order) /\ Current \in Nodes
  BY AtNodeFacts DEF WalkAborted
<1>2. status \in Statuses \ {"none"}
  BY <1>1 DEF EngineTyped, StateFits, States, Statuses, Nodes
<1>3. ~resumed => status = "pending"
  BY <1>1 DEF EngineInv, FreshFits, Current
<1> HIDE DEF status
<1>4. /\ StateFits(def, t)
      /\ t.nodeStatus = [state.nodeStatus EXCEPT ![Current] = status]
      /\ t.nodeOutputs = state.nodeOutputs
      /\ t.pendingGate = state.pendingGate
      /\ Paid(t)
  BY <1>1, <1>2, MarkFits
<1>5. Finish("failed", t) /\ UNCHANGED last /\ aborted
  BY DEF WalkAborted, t, status
<1> HIDE DEF t
<1>6. ~resumed => deriveTerminalStatus(t) = "failed"
  <2>1. CASE status = "pending"
    <3>1. ReportFits("failed", t)
      BY <1>1, <1>4, <2>1, FailureReported
    <3> QED BY <3>1 DEF ReportFits
  <2>2. CASE status # "pending"
    BY <1>3, <2>2
  <2> QED BY <2>1, <2>2
<1>7. ReportFits("failed", t)
  BY <1>5, <1>6 DEF ReportFits
<1>8. FinishFits("failed", t)
  BY <1>1, <1>4, <1>5, <1>7 DEF FinishFits
<1> QED BY <1>8

LEMMA SkipNodeFits ==
    ASSUME EngineInv, SkipNode
    PROVE  AdvanceFits(state, {Current})
<1>1. EngineTyped /\ pc # "idle" /\ pc = "walk" /\ pos \in 1..Len(Order) /\ Current \in Nodes
  BY AtNodeFacts DEF SkipNode
<1>2. StateFits(def, state) /\ state.samples \in Nat
  BY <1>1 DEF EngineTyped, StateFits, States
<1>3. Paid(state)
  BY <1>1, <1>2 DEF Paid
<1> QED BY <1>1, <1>2, <1>3 DEF AdvanceFits, SkipNode

LEMMA RunnerMissingFits ==
    ASSUME EngineInv, RunnerMissing
    PROVE  \E s : FinishFits("failed", s)
<1>1. EngineTyped /\ pc # "idle" /\ pc = "walk" /\ pos \in 1..Len(Order) /\ Current \in Nodes
  BY AtNodeFacts DEF RunnerMissing, Enters
<1>2. Finish("failed", SetStatus(state, Current, "failed")) /\ UNCHANGED last
  BY DEF RunnerMissing
<1> QED BY <1>1, <1>2, FailNode

LEMMA ReplayFailureFits ==
    ASSUME EngineInv, ReplayFailure
    PROVE  \E s : FinishFits("failed", s)
<1>1. EngineTyped /\ pc # "idle" /\ pc = "walk" /\ pos \in 1..Len(Order) /\ Current \in Nodes
  BY AtNodeFacts DEF ReplayFailure, Enters
<1>2. Finish("failed", SetStatus(state, Current, "failed")) /\ UNCHANGED last
  BY DEF ReplayFailure
<1> QED BY <1>1, <1>2, FailNode

\* The output that is replayed is the one the state holds.
LEMMA ReplayOkFits ==
    ASSUME EngineInv, ReplayOk
    PROVE  \E s, skips : AdvanceFits(s, skips)
<1> DEFINE t == SetStatus(state, Current, "succeeded")
           o == state.nodeOutputs[Current]
           skips == IF Kind = "conditional" THEN {Unpicked(Current, o.value)} ELSE {}
<1>1. EngineTyped /\ pc # "idle" /\ pc = "walk" /\ pos \in 1..Len(Order) /\ Current \in Nodes
  BY AtNodeFacts DEF ReplayOk, Enters
<1>2. /\ StateFits(def, t)
      /\ t.nodeStatus = [state.nodeStatus EXCEPT ![Current] = "succeeded"]
      /\ t.nodeOutputs = state.nodeOutputs
      /\ t.pendingGate = state.pendingGate
      /\ Paid(t)
  BY <1>1, MarkFits DEF Statuses
<1>3. o # NoOutput /\ o.ok /\ ~Skips /\ Advance(t, skips) /\ UNCHANGED last
  BY DEF ReplayOk, CacheHit, Enters
<1>4. state.nodeOutputs \in [Nodes -> Outputs(def) \cup {NoOutput}]
  BY <1>1 DEF EngineTyped, StateFits, States, Nodes
<1>5. o \in Outputs(def)
  BY <1>1, <1>3, <1>4
<1>6. t.nodeOutputs = [state.nodeOutputs EXCEPT ![Current] = o]
  BY <1>1, <1>2, <1>4
<1> HIDE DEF t
<1>7. AdvanceFits(t, skips)
  BY <1>1, <1>2, <1>3, <1>5, <1>6 DEF AdvanceFits
<1> QED BY <1>7

LEMMA CallRunnerFits ==
    ASSUME EngineInv, CallRunner
    PROVE  CallFits(SetStatus(state, Current, "running"), 1)
<1> DEFINE t == SetStatus(state, Current, "running")
<1>1. EngineTyped /\ pc # "idle" /\ pc = "walk" /\ pos \in 1..Len(Order) /\ Current \in Nodes
  BY AtNodeFacts DEF CallRunner, Enters
<1>2. /\ StateFits(def, t)
      /\ t.nodeStatus = [state.nodeStatus EXCEPT ![Current] = "running"]
      /\ t.nodeOutputs = state.nodeOutputs
      /\ t.pendingGate = state.pendingGate
      /\ Paid(t)
  BY <1>1, MarkFits DEF Statuses
<1>3. Kind # "human_gate" /\ ~Skips /\ Call(t, 1)
  BY DEF CallRunner, Enters
<1>4. 1 \in 1..Budget(Current)
  BY <1>1, DefinitionAssumption DEF EngineTyped, Budget, Nodes
<1> HIDE DEF t
<1>5. CallFits(t, 1)
  BY <1>1, <1>2, <1>3, <1>4 DEF CallFits
<1> QED BY <1>5 DEF t

\* An answered gate leaves an output like any node; a gate never settles in `last'.
LEMMA GateSatisfiedFits ==
    ASSUME EngineInv, GateSatisfied
    PROVE  \E s, skips : AdvanceFits(s, skips)
<1> DEFINE s1 == SetStatus(state, Current, "succeeded")
           o == [hash |-> resolveInputs(Current), ok |-> TRUE, value |-> TRUE]
           t == SetOutput(s1, Current, resolveInputs(Current), TRUE, TRUE)
<1>1. EngineTyped /\ pc # "idle" /\ pc = "walk" /\ pos \in 1..Len(Order) /\ Current \in Nodes
  BY AtNodeFacts DEF GateSatisfied, Enters
<1>2. /\ StateFits(def, s1)
      /\ s1.nodeStatus = [state.nodeStatus EXCEPT ![Current] = "succeeded"]
      /\ s1.nodeOutputs = state.nodeOutputs
      /\ s1.pendingGate = state.pendingGate
      /\ Paid(s1)
  BY <1>1, MarkFits DEF Statuses
<1>3. Kind = "human_gate" /\ ~Skips /\ Advance(t, {}) /\ UNCHANGED last
  BY DEF GateSatisfied, Enters
<1>4. o \in Outputs(def)
  BY <1>1, OutputTyped
<1> HIDE DEF s1
<1>5. /\ StateFits(def, t)
      /\ t.nodeStatus = s1.nodeStatus
      /\ t.nodeOutputs = [s1.nodeOutputs EXCEPT ![Current] = o]
      /\ t.pendingGate = s1.pendingGate
      /\ t.samples = s1.samples
  BY <1>1, <1>2, <1>4 DEF SetOutput, StateFits, States, Nodes
<1>6. Paid(t)
  BY <1>2, <1>5 DEF Paid
<1>7. last[Current] = NoOutput
  BY <1>1, <1>3 DEF EngineTyped, Kind
<1>8. o.ok
  OBVIOUS
<1> HIDE DEF t, o
<1>9. AdvanceFits(t, {})
  BY <1>1, <1>2, <1>3, <1>4, <1>5, <1>6, <1>7, <1>8 DEF AdvanceFits
<1> QED BY <1>9

LEMMA GatePausesFits ==
    ASSUME EngineInv, GatePauses
    PROVE  \E s : FinishFits("paused", s)
<1> DEFINE s1 == SetStatus(state, Current, "paused")
           t == [s1 EXCEPT !.pendingGate = Current]
<1>1. EngineTyped /\ pc # "idle" /\ pc = "walk" /\ pos \in 1..Len(Order) /\ Current \in Nodes
  BY AtNodeFacts DEF GatePauses, Enters
<1>2. StateFits(def, s1) /\ s1.nodeOutputs = state.nodeOutputs /\ Paid(s1)
  BY <1>1, MarkFits DEF Statuses
<1>3. Finish("paused", t) /\ UNCHANGED last
  BY DEF GatePauses
<1> HIDE DEF s1
<1>4. StateFits(def, t) /\ t.nodeOutputs = s1.nodeOutputs /\ t.pendingGate = Current /\ t.samples = s1.samples
  BY <1>1, <1>2, PendingFits DEF Nodes
<1> HIDE DEF t
<1>5. Paid(t)
  BY <1>2, <1>4 DEF Paid
<1>6. deriveTerminalStatus(t) = "paused"
  <2>1. Current # NoNode
    BY <1>1, DefinitionAssumption DEF EngineTyped, Nodes
  <2> QED BY <1>4, <2>1, DeriveKind
<1>7. ReportFits("paused", t)
  BY <1>6 DEF ReportFits
<1>8. FinishFits("paused", t)
  BY <1>1, <1>2, <1>3, <1>4, <1>5, <1>7 DEF FinishFits
<1> QED BY <1>8

LEMMA WalkEndsFits ==
    ASSUME EngineInv, WalkEnds
    PROVE  FinishFits("succeeded", state)
<1>1. EngineTyped /\ pc = "walk" /\ pos > Len(Order) /\ Finish("succeeded", state) /\ UNCHANGED last
  BY DEF WalkEnds, EngineInv
<1>2. StateFits(def, state) /\ state.samples \in Nat /\ state.pendingGate = NoNode
  BY <1>1 DEF EngineTyped, StateFits, States, EngineInv, WalkFits
<1>3. ASSUME ~resumed PROVE deriveTerminalStatus(state) = "succeeded"
  <2>1. ASSUME NEW n \in def.nodes PROVE state.nodeStatus[n] \in {"none", "succeeded"}
    <3>1. PICK i \in 1..Len(Order) : Order[i] = n
      BY <1>1, NodeFacts DEF Nodes
    <3>2. i < pos
      BY <1>1, NodeFacts DEF EngineTyped
    <3> QED BY <1>1, <1>3, <3>1, <3>2 DEF EngineInv, FreshFits
  <2> QED BY <1>2, <2>1, DeriveSucceeded
<1>4. ReportFits("succeeded", state)
  BY <1>3 DEF ReportFits
<1>5. Paid(state)
  BY <1>1, <1>2 DEF Paid
<1> QED BY <1>1, <1>2, <1>4, <1>5 DEF FinishFits

LEMMA CallFacts ==
    ASSUME EngineInv, pc = "call"
    PROVE  /\ EngineTyped /\ pc # "idle" /\ pos \in 1..Len(Order) /\ Current \in Nodes
           /\ ~Skips /\ state.nodeStatus[Current] = "running"
           /\ StateFits(def, state) /\ state.samples \in Nat
           /\ Kind # "human_gate" /\ attempt \in 1..Budget(Current)
<1>1. EngineTyped /\ pos \in 1..Len(Order) /\ Kind # "human_gate" /\ attempt \in 1..Budget(Current)
  BY DEF EngineInv, EngineTyped
<1>2. Current \in Nodes
  BY <1>1, CurrentFacts
<1>3. ~Skips /\ state.nodeStatus[Current] = "running"
  BY DEF EngineInv, WalkFits
<1>4. StateFits(def, state) /\ state.samples \in Nat
  BY <1>1 DEF EngineTyped, StateFits, States
<1> QED BY <1>1, <1>2, <1>3, <1>4

\* A stored answer, of a node that settles in `last' or of one that never does.
LEMMA StoreAdvances ==
    ASSUME EngineInv, pc = "call", NEW value \in BOOLEAN,
           NEW skips, Advance(Store(TRUE, value), skips),
           skips = IF Kind = "conditional" THEN {Unpicked(Current, value)} ELSE {},
           \/ UNCHANGED last /\ last[Current] = NoOutput
           \/ last' = [last EXCEPT ![Current] = resolveInputs(Current)] /\ Kind \in {"agent_step", "conditional"}
    PROVE  AdvanceFits(Store(TRUE, value), skips)
<1> DEFINE o == [hash |-> resolveInputs(Current), ok |-> TRUE, value |-> value]
           t == Store(TRUE, value)
<1>1. /\ EngineTyped /\ pc # "idle" /\ pos \in 1..Len(Order) /\ ~Skips
      /\ StateFits(def, state) /\ state.samples \in Nat
  BY CallFacts
<1>2. /\ StateFits(def, t)
      /\ t.nodeStatus = [state.nodeStatus EXCEPT ![Current] = "succeeded"]
      /\ t.nodeOutputs = [state.nodeOutputs EXCEPT ![Current] = o]
      /\ t.pendingGate = state.pendingGate
      /\ t.samples = state.samples + 1
      /\ o \in Outputs(def)
  <2>1. \A ok \in BOOLEAN :
           LET u == Store(ok, value)
               p == [hash |-> resolveInputs(Current), ok |-> ok, value |-> value]
           IN ok => /\ StateFits(def, u)
                    /\ u.nodeStatus = [state.nodeStatus EXCEPT ![Current] = "succeeded"]
                    /\ u.nodeOutputs = [state.nodeOutputs EXCEPT ![Current] = p]
                    /\ u.pendingGate = state.pendingGate
                    /\ u.samples = state.samples + 1
                    /\ p \in Outputs(def)
    BY <1>1, StoreFits
  <2> QED BY <2>1
<1>3. Paid(t)
  <2> HIDE DEF t, o
  <2> QED BY <1>1, <1>2 DEF Paid
<1>4. o.ok /\ o.value = value /\ o.hash = resolveInputs(Current)
  OBVIOUS
<1>5. Advance(t, skips)
  OBVIOUS
<1> HIDE DEF o, t
<1>6. AdvanceFits(t, skips)
  BY <1>1, <1>2, <1>3, <1>4, <1>5 DEF AdvanceFits
<1> QED BY <1>6 DEF t

LEMMA StepOkFits ==
    ASSUME EngineInv, NEW value \in BOOLEAN, StepOk(value)
    PROVE  \E s, skips : AdvanceFits(s, skips)
<1> DEFINE skips == IF Kind = "conditional" THEN {Unpicked(Current, value)} ELSE {}
<1>1. /\ pc = "call" /\ Advance(Store(TRUE, value), skips)
      /\ last' = [last EXCEPT ![Current] = resolveInputs(Current)]
      /\ Kind \in {"agent_step", "conditional"}
  BY DEF StepOk, Settled
<1>2. AdvanceFits(Store(TRUE, value), skips)
  BY <1>1, StoreAdvances
<1> QED BY <1>2

LEMMA LoopEndsFits ==
    ASSUME EngineInv, NEW value \in BOOLEAN, LoopEnds(value)
    PROVE  AdvanceFits(Store(TRUE, value), {})
<1>1. pc = "call" /\ Kind = "loop" /\ Advance(Store(TRUE, value), {}) /\ UNCHANGED last
  BY DEF LoopEnds
<1>2. last[Current] = NoOutput
  BY <1>1, CallFacts DEF EngineTyped, Kind
<1> QED BY <1>1, <1>2, StoreAdvances

LEMMA StepRetriesFits ==
    ASSUME EngineInv, StepRetries
    PROVE  \E s, k : CallFits(s, k)
<1>1. pc = "call" /\ Kind = "agent_step" /\ attempt <= def.maxRetries[Current] /\ Call(state, attempt + 1)
  BY DEF StepRetries
<1>2. /\ EngineTyped /\ pc # "idle" /\ pos \in 1..Len(Order) /\ Current \in Nodes /\ ~Skips
      /\ StateFits(def, state) /\ state.samples \in Nat /\ attempt \in 1..Budget(Current)
      /\ state.nodeStatus[Current] = "running"
  BY <1>1, CallFacts
<1>3. attempt + 1 \in 1..Budget(Current)
  BY <1>1, <1>2, DefinitionAssumption DEF EngineTyped, Budget, Nodes, Kind
<1>4. state.nodeStatus = [state.nodeStatus EXCEPT ![Current] = "running"]
  <2>1. state.nodeStatus \in [def.nodes -> Statuses]
    BY <1>2 DEF StateFits, States
  <2> QED BY <1>2, <2>1
<1>5. Paid(state)
  BY <1>1, <1>2 DEF Paid
<1>6. CallFits(state, attempt + 1)
  BY <1>1, <1>2, <1>3, <1>4, <1>5 DEF CallFits
<1> QED BY <1>6

LEMMA LoopAgainFits ==
    ASSUME EngineInv, LoopAgain
    PROVE  \E s, k : CallFits(s, k)
<1> DEFINE t == recordCostSample(state)
<1>1. pc = "call" /\ Kind = "loop" /\ attempt < def.maxIterations[Current] /\ Call(t, attempt + 1)
  BY DEF LoopAgain
<1>2. /\ EngineTyped /\ pc # "idle" /\ pos \in 1..Len(Order) /\ Current \in Nodes /\ ~Skips
      /\ StateFits(def, state) /\ state.samples \in Nat /\ attempt \in 1..Budget(Current)
      /\ state.nodeStatus[Current] = "running"
  BY <1>1, CallFacts
<1>3. attempt + 1 \in 1..Budget(Current)
  BY <1>1, <1>2, DefinitionAssumption DEF EngineTyped, Budget, Nodes, Kind
<1>4. /\ StateFits(def, t)
      /\ t.nodeStatus = state.nodeStatus
      /\ t.nodeOutputs = state.nodeOutputs
      /\ t.pendingGate = state.pendingGate
      /\ t.samples = state.samples + 1
  BY <1>2, SampleFits
<1>5. t.nodeStatus = [state.nodeStatus EXCEPT ![Current] = "running"]
  <2>1. state.nodeStatus \in [def.nodes -> Statuses]
    BY <1>2 DEF StateFits, States
  <2> QED BY <1>2, <1>4, <2>1
<1>6. Paid(t)
  BY <1>1, <1>2, <1>4 DEF Paid
<1> HIDE DEF t
<1>7. CallFits(t, attempt + 1)
  BY <1>1, <1>2, <1>3, <1>4, <1>5, <1>6 DEF CallFits
<1> QED BY <1>7

LEMMA StepFailsFits ==
    ASSUME EngineInv, StepFails
    PROVE  \E s : FinishFits("failed", s)
<1> DEFINE o == [hash |-> resolveInputs(Current), ok |-> FALSE, value |-> FALSE]
           t == Store(FALSE, FALSE)
<1>1. /\ pc = "call" /\ Finish("failed", t) /\ Kind \in {"agent_step", "conditional"}
      /\ last' = [last EXCEPT ![Current] = resolveInputs(Current)]
  BY DEF StepFails, Settled
<1>2. /\ EngineTyped /\ pc # "idle" /\ pos \in 1..Len(Order) /\ ~Skips
      /\ StateFits(def, state) /\ state.samples \in Nat
  BY <1>1, CallFacts
<1>3. /\ StateFits(def, t)
      /\ t.nodeStatus = [state.nodeStatus EXCEPT ![Current] = "failed"]
      /\ t.nodeOutputs = [state.nodeOutputs EXCEPT ![Current] = o]
      /\ t.pendingGate = state.pendingGate
      /\ t.samples = state.samples + 1
      /\ o \in Outputs(def)
  <2>1. \A ok, value \in BOOLEAN :
           LET u == Store(ok, value)
               p == [hash |-> resolveInputs(Current), ok |-> ok, value |-> value]
           IN ~ok => /\ StateFits(def, u)
                     /\ u.nodeStatus = [state.nodeStatus EXCEPT ![Current] = "failed"]
                     /\ u.nodeOutputs = [state.nodeOutputs EXCEPT ![Current] = p]
                     /\ u.pendingGate = state.pendingGate
                     /\ u.samples = state.samples + 1
                     /\ p \in Outputs(def)
    BY <1>2, StoreFits
  <2> QED BY <2>1
<1>4. Paid(t)
  <2> HIDE DEF t, o
  <2> QED BY <1>1, <1>2, <1>3 DEF Paid
<1>5. o.hash = resolveInputs(Current)
  OBVIOUS
<1> HIDE DEF t, o
<1>6. ReportFits("failed", t)
  BY <1>2, <1>3, FailureReported
<1>7. FinishFits("failed", t)
  BY <1>1, <1>2, <1>3, <1>4, <1>5, <1>6 DEF FinishFits
<1> QED BY <1>7

LEMMA LoopFailsFits ==
    ASSUME EngineInv, LoopFails
    PROVE  \E s : FinishFits("failed", s)
<1> DEFINE s1 == SetStatus(state, Current, "failed")
           t == recordCostSample(s1)
<1>1. pc = "call" /\ Finish("failed", t) /\ UNCHANGED last
  BY DEF LoopFails
<1>2. /\ EngineTyped /\ pc # "idle" /\ pos \in 1..Len(Order)
      /\ StateFits(def, state) /\ state.samples \in Nat
  BY <1>1, CallFacts
<1>3. /\ StateFits(def, s1)
      /\ s1.nodeStatus = [state.nodeStatus EXCEPT ![Current] = "failed"]
      /\ s1.nodeOutputs = state.nodeOutputs
      /\ s1.pendingGate = state.pendingGate
      /\ s1.samples = state.samples
  BY <1>2, MarkFits DEF Statuses
<1> HIDE DEF s1
<1>4. /\ StateFits(def, t)
      /\ t.nodeStatus = s1.nodeStatus
      /\ t.nodeOutputs = s1.nodeOutputs
      /\ t.pendingGate = s1.pendingGate
      /\ t.samples = s1.samples + 1
  BY <1>3, SampleFits
<1> HIDE DEF t
<1>5. Paid(t)
  BY <1>1, <1>2, <1>3, <1>4 DEF Paid
<1>6. ReportFits("failed", t)
  BY <1>2, <1>3, <1>4, FailureReported
<1>7. FinishFits("failed", t)
  BY <1>1, <1>2, <1>3, <1>4, <1>5, <1>6 DEF FinishFits
<1> QED BY <1>7

LEMMA RunnerThrowsFits ==
    ASSUME EngineInv, RunnerThrows
    PROVE  \E s : FinishFits("failed", s)
<1>1. pc = "call" /\ Finish("failed", SetStatus(state, Current, "failed")) /\ UNCHANGED last
  BY DEF RunnerThrows
<1> QED BY <1>1, CallFacts, FailNode

-----------------------------------------------------------------------------
(* Each kind of step keeps the invariant.                                  *)

LEMMA OrderFixed ==
    ASSUME def' = def
    PROVE  Order' = Order /\ Nodes' = Nodes /\ emptyState' = emptyState
BY DEF Order, Nodes, emptyState

LEMMA AdvanceKeeps ==
    ASSUME EngineInv, NEW s, NEW skips, AdvanceFits(s, skips)
    PROVE  EngineInv'
<1>1. /\ EngineTyped /\ pc # "idle" /\ pos \in 1..Len(Order) /\ Len(Order) \in Nat
      /\ StateFits(def, s) /\ Paid(s)
  BY NodeFacts DEF AdvanceFits, EngineInv
<1>2. /\ pc' = "walk" /\ pos' = pos + 1 /\ attempt' = 0 /\ skipped' = skipped \cup skips /\ state' = s
      /\ UNCHANGED <<def, input, aborted, row, outcome, resumed, lost, calls>>
  BY DEF AdvanceFits, Advance
<1>3. Order' = Order /\ Nodes' = Nodes
  BY <1>2, OrderFixed
<1>4. Current \in Nodes /\ \A i \in 1..Len(Order) : i # pos => Order[i] # Current
  BY <1>1, CurrentFacts
<1>5. /\ state.nodeStatus \in [Nodes -> Statuses]
      /\ state.nodeOutputs \in [Nodes -> Outputs(def) \cup {NoOutput}]
      /\ state.samples \in Nat /\ s.samples \in Nat
      /\ def \in Definitions
  BY <1>1 DEF EngineTyped, StateFits, States, Nodes
<1>6. CASE s = state /\ skips = {Current} /\ Skips /\ UNCHANGED last
  <2>1. pc = "walk"
    BY <1>1, <1>6 DEF EngineInv, WalkFits, EngineTyped
  <2>2. EngineTyped'
    BY <1>1, <1>2, <1>3, <1>6 DEF EngineTyped
  <2>3. WalkFits'
    <3>1. ASSUME NEW i \in 1..(pos' - 1) PROVE Order'[i] \in skipped' \/ Succeeded(Order[i])'
      <4>1. CASE i = pos
        BY <1>2, <1>3, <1>6, <4>1 DEF Current
      <4>2. CASE i # pos
        <5>1. i \in 1..(pos - 1)
          BY <1>1, <1>2, <4>2
        <5>2. Order[i] \in skipped \/ Succeeded(Order[i])
          BY <1>1, <5>1 DEF EngineInv, WalkFits
        <5> QED BY <1>2, <1>3, <1>6, <5>2 DEF Succeeded
      <4> QED BY <4>1, <4>2
    <3>2. state'.pendingGate = NoNode
      BY <1>1, <1>2, <1>6 DEF EngineInv, WalkFits
    <3> QED BY <1>2, <3>1, <3>2 DEF WalkFits
  <2>4. FreshFits'
    <3> SUFFICES ASSUME ~resumed, NEW i \in 1..Len(Order)
                 PROVE  /\ i < pos + 1 => state.nodeStatus[Order[i]] \in {"none", "succeeded"}
                        /\ i > pos + 1 \/ i = pos + 1 => state.nodeStatus[Order[i]] = "none"
      BY <1>2, <1>3, <1>6 DEF FreshFits
    <3>1. /\ i < pos => state.nodeStatus[Order[i]] \in {"none", "succeeded"}
          /\ i > pos \/ i = pos => state.nodeStatus[Order[i]] = "none"
      BY <1>1, <2>1, Zenon DEF EngineInv, FreshFits
    <3> QED BY <1>1, <3>1
  <2>5. CostFits'
    BY <1>1, <1>2, <1>5, <1>6, <2>1 DEF EngineInv, CostFits
  <2>6. ReuseFits'
    BY <1>1, <1>2, <1>3, <1>6 DEF EngineInv, ReuseFits, Holds
  <2>7. ReportAgrees'
    BY <1>2 DEF EngineInv, ReportAgrees
  <2> QED BY <2>2, <2>3, <2>4, <2>5, <2>6, <2>7 DEF EngineInv
<1>7. CASE ~Skips /\ ~(s = state /\ skips = {Current} /\ Skips /\ UNCHANGED last)
  <2>1. PICK o \in Outputs(def) :
          /\ o.ok
          /\ s.nodeStatus = [state.nodeStatus EXCEPT ![Current] = "succeeded"]
          /\ s.nodeOutputs = [state.nodeOutputs EXCEPT ![Current] = o]
          /\ skips = IF Kind = "conditional" THEN {Unpicked(Current, o.value)} ELSE {}
          /\ \/ UNCHANGED last /\ (o = state.nodeOutputs[Current] \/ last[Current] = NoOutput)
             \/ /\ last' = [last EXCEPT ![Current] = o.hash]
                /\ Kind \in {"agent_step", "conditional"}
    BY <1>7 DEF AdvanceFits
  <2>2. o # NoOutput /\ o.hash \in Bundles(def)
    BY <1>5, NoOutputAssumption DEF Outputs
  <2>3. /\ s.nodeStatus[Current] = "succeeded" /\ s.nodeOutputs[Current] = o
        /\ \A n \in Nodes : n # Current =>
              s.nodeStatus[n] = state.nodeStatus[n] /\ s.nodeOutputs[n] = state.nodeOutputs[n]
    BY <1>4, <1>5, <2>1
  <2>4. /\ last \in [Nodes -> Bundles(def) \cup {NoOutput}]
        /\ last' \in [Nodes -> Bundles(def) \cup {NoOutput}]
        /\ \A n \in Nodes : n # Current => last'[n] = last[n]
        /\ \/ last' = last /\ (o = state.nodeOutputs[Current] \/ last[Current] = NoOutput)
           \/ last'[Current] = o.hash /\ Kind \in {"agent_step", "conditional"}
    BY <1>1, <1>4, <2>1, <2>2 DEF EngineTyped
  <2>5. EngineTyped'
    <3>1. \A n \in Nodes : last'[n] # NoOutput => def.kind[n] \in {"agent_step", "conditional"}
      BY <1>1, <2>4 DEF EngineTyped, Kind
    <3> QED BY <1>1, <1>2, <1>3, <2>4, <3>1 DEF EngineTyped
  <2>6. WalkFits'
    <3>1. ASSUME NEW i \in 1..(pos' - 1) PROVE Order'[i] \in skipped' \/ Succeeded(Order[i])'
      <4>1. CASE i = pos
        BY <1>2, <1>3, <2>1, <2>2, <2>3, <4>1 DEF Current, Succeeded
      <4>2. CASE i # pos
        <5>1. i \in 1..(pos - 1) /\ i \in 1..Len(Order)
          BY <1>1, <1>2, <4>2
        <5>2. Order[i] \in skipped \/ Succeeded(Order[i])
          BY <1>1, <5>1 DEF EngineInv, WalkFits
        <5>3. Order[i] \in Nodes /\ Order[i] # Current
          BY <1>1, <1>4, <4>2, <5>1, NodeFacts
        <5> QED BY <1>2, <1>3, <2>3, <5>2, <5>3 DEF Succeeded
      <4> QED BY <4>1, <4>2
    <3>2. state'.pendingGate = NoNode
      BY <1>1, <1>2 DEF AdvanceFits, EngineInv, WalkFits
    <3> QED BY <1>2, <3>1, <3>2 DEF WalkFits
  <2>7. FreshFits'
    <3> SUFFICES ASSUME ~resumed, NEW i \in 1..Len(Order)
                 PROVE  /\ i < pos + 1 => s.nodeStatus[Order[i]] \in {"none", "succeeded"}
                        /\ i > pos + 1 \/ i = pos + 1 => s.nodeStatus[Order[i]] = "none"
      BY <1>2, <1>3 DEF FreshFits
    <3>1. CASE i = pos
      BY <1>1, <2>3, <3>1 DEF Current
    <3>2. CASE i # pos
      <4>1. Order[i] \in Nodes /\ Order[i] # Current
        BY <1>1, <1>4, <3>2, NodeFacts
      <4>2. /\ i < pos => state.nodeStatus[Order[i]] \in {"none", "succeeded"}
            /\ i > pos => state.nodeStatus[Order[i]] = "none"
        BY <1>1, Zenon DEF EngineInv, FreshFits
      <4> QED BY <1>1, <2>3, <3>2, <4>1, <4>2
    <3> QED BY <3>1, <3>2
  <2>8. CostFits'
    BY <1>1, <1>2, <1>5 DEF EngineInv, CostFits, Paid, EngineTyped
  <2>9. ReuseFits'
    <3> SUFFICES ASSUME lost = {}, NEW n \in Nodes, last'[n] # NoOutput
                 PROVE  s.nodeOutputs[n] # NoOutput /\ s.nodeOutputs[n].hash = last'[n]
      BY <1>2, <1>3 DEF ReuseFits, Holds
    <3>1. last[n] # NoOutput => state.nodeOutputs[n] # NoOutput /\ state.nodeOutputs[n].hash = last[n]
      BY <1>1 DEF EngineInv, ReuseFits, Holds
    <3>2. CASE n # Current
      BY <2>3, <2>4, <3>1, <3>2
    <3>3. CASE n = Current
      BY <2>2, <2>3, <2>4, <3>1, <3>3
    <3> QED BY <3>2, <3>3
  <2>10. ReportAgrees'
    BY <1>2 DEF EngineInv, ReportAgrees
  <2> QED BY <2>5, <2>6, <2>7, <2>8, <2>9, <2>10 DEF EngineInv
<1> QED BY <1>6, <1>7 DEF AdvanceFits

\* The status of the node alone changes.
LEMMA CallKeeps ==
    ASSUME EngineInv, NEW s, NEW k, CallFits(s, k)
    PROVE  EngineInv'
<1>1. /\ EngineTyped /\ pc # "idle" /\ pos \in 1..Len(Order) /\ Len(Order) \in Nat
      /\ StateFits(def, s) /\ Paid(s) /\ ~Skips
  BY NodeFacts DEF CallFits, EngineInv
<1>2. /\ pc' = "call" /\ attempt' = k /\ calls' = calls + 1 /\ state' = s
      /\ UNCHANGED <<def, input, aborted, pos, skipped, row, outcome, resumed, lost, last>>
  BY DEF CallFits, Call
<1>3. Order' = Order /\ Nodes' = Nodes /\ Current' = Current /\ Kind' = Kind
  BY <1>2, OrderFixed DEF Current, Kind
<1>4. /\ Current \in Nodes /\ \A i \in 1..Len(Order) : i # pos => Order[i] # Current
      /\ \A n \in def.dependsOn[Current] : n \in Nodes /\ n # Current
  BY <1>1, CurrentFacts
<1>5. /\ state.nodeStatus \in [Nodes -> Statuses]
      /\ state.samples \in Nat /\ s.samples \in Nat
  BY <1>1 DEF EngineTyped, StateFits, States, Nodes
<1>6. /\ s.nodeStatus[Current] = "running" /\ s.nodeOutputs = state.nodeOutputs
      /\ \A n \in Nodes : n # Current => s.nodeStatus[n] = state.nodeStatus[n]
  BY <1>4, <1>5 DEF CallFits
<1>7. EngineTyped'
  <2>1. Budget(Current)' = Budget(Current)
    BY <1>2, <1>3 DEF Budget
  <2>2. Kind # "human_gate" /\ k \in 1..Budget(Current)
    BY DEF CallFits
  <2> QED BY <1>1, <1>2, <1>3, <2>1, <2>2 DEF EngineTyped
<1>8. WalkFits'
  <2>1. ASSUME NEW i \in 1..(pos - 1) PROVE Order'[i] \in skipped' \/ Succeeded(Order[i])'
    <3>1. i \in 1..Len(Order) /\ i # pos
      BY <1>1
    <3>2. Order[i] \in Nodes /\ Order[i] # Current
      BY <1>1, <1>4, <3>1, NodeFacts
    <3>3. Order[i] \in skipped \/ Succeeded(Order[i])
      BY <1>1 DEF EngineInv, WalkFits
    <3> QED BY <1>2, <1>3, <1>6, <3>2, <3>3 DEF Succeeded
  <2>2. state'.pendingGate = NoNode
    BY <1>1, <1>2 DEF CallFits, EngineInv, WalkFits
  <2>3. ~Skips'
    BY <1>1, <1>2, <1>3, <1>4, <1>6 DEF Skips
  <2> QED BY <1>2, <1>3, <1>6, <2>1, <2>2, <2>3 DEF WalkFits
<1>9. FreshFits'
  <2> SUFFICES ASSUME ~resumed, NEW i \in 1..Len(Order)
               PROVE  /\ i < pos => s.nodeStatus[Order[i]] \in {"none", "succeeded"}
                      /\ i > pos => s.nodeStatus[Order[i]] = "none"
    BY <1>2, <1>3 DEF FreshFits
  <2>1. /\ i < pos => state.nodeStatus[Order[i]] \in {"none", "succeeded"}
        /\ i > pos => state.nodeStatus[Order[i]] = "none"
    BY <1>1, Zenon DEF EngineInv, FreshFits
  <2>2. i # pos => Order[i] \in Nodes /\ Order[i] # Current
    BY <1>1, <1>4, NodeFacts
  <2> QED BY <1>1, <1>6, <2>1, <2>2
<1>10. CostFits'
  <2>1. calls \in Nat /\ (row # NoRow => row.state.samples \in Nat)
    BY <1>1 DEF EngineTyped, StateFits, States
  <2> QED BY <1>1, <1>2, <1>5, <2>1 DEF EngineInv, CostFits, Paid
<1>11. ReuseFits'
  BY <1>1, <1>2, <1>3, <1>6 DEF EngineInv, ReuseFits, Holds
<1>12. ReportAgrees'
  BY <1>2 DEF EngineInv, ReportAgrees
<1> QED BY <1>7, <1>8, <1>9, <1>10, <1>11, <1>12 DEF EngineInv

\* A pass ends; the row follows, or it does not and that is on record.
LEMMA FinishKeeps ==
    ASSUME EngineInv, NEW status, NEW s, FinishFits(status, s)
    PROVE  EngineInv'
<1>1. EngineTyped /\ pc # "idle" /\ StateFits(def, s) /\ Paid(s) /\ ReportFits(status, s) /\ def \in Definitions
  BY DEF FinishFits, EngineInv, EngineTyped
<1>2. /\ pc' = "idle" /\ pos' = 0 /\ attempt' = 0 /\ skipped' = {} /\ aborted' = FALSE /\ resumed' = FALSE
      /\ state' = emptyState
      /\ outcome' = [published |-> status, report |-> deriveTerminalStatus(s),
                     resumed |-> resumed, aborted |-> aborted]
      /\ \/ row' = [status |-> deriveTerminalStatus(s), state |-> s] /\ lost' = lost
         \/ lost' = lost \cup {"write"} /\ row' = row
      /\ UNCHANGED <<def, input, calls>>
  BY DEF FinishFits, Finish, Leave
<1>3. Order' = Order /\ Nodes' = Nodes /\ emptyState' = emptyState
  BY <1>2, OrderFixed
<1>4. /\ state.nodeOutputs \in [Nodes -> Outputs(def) \cup {NoOutput}]
      /\ state.samples \in Nat /\ s.samples \in Nat
  BY <1>1 DEF EngineTyped, StateFits, States, Nodes
<1>5. /\ last' \in [Nodes -> Bundles(def) \cup {NoOutput}]
      /\ \A n \in Nodes : last'[n] # NoOutput => def.kind[n] \in {"agent_step", "conditional"}
      /\ lost = {} => \A n \in Nodes : last'[n] # NoOutput =>
                          s.nodeOutputs[n] # NoOutput /\ s.nodeOutputs[n].hash = last'[n]
  <2>1. /\ last \in [Nodes -> Bundles(def) \cup {NoOutput}]
        /\ \A n \in Nodes : last[n] # NoOutput => def.kind[n] \in {"agent_step", "conditional"}
    BY <1>1 DEF EngineTyped
  <2>2. ASSUME lost = {}, NEW n \in Nodes, last[n] # NoOutput
        PROVE  state.nodeOutputs[n] # NoOutput /\ state.nodeOutputs[n].hash = last[n]
    BY <1>1, <2>2 DEF EngineInv, ReuseFits, Holds
  <2>3. CASE UNCHANGED last /\ s.nodeOutputs = state.nodeOutputs
    BY <2>1, <2>2, <2>3
  <2>4. CASE ~(UNCHANGED last /\ s.nodeOutputs = state.nodeOutputs)
    <3>1. pos \in 1..Len(Order) /\ Kind \in {"agent_step", "conditional"}
      BY <2>4 DEF FinishFits
    <3>2. PICK o \in Outputs(def) :
             /\ s.nodeOutputs = [state.nodeOutputs EXCEPT ![Current] = o]
             /\ last' = [last EXCEPT ![Current] = o.hash]
      BY <2>4 DEF FinishFits
    <3>3. o # NoOutput /\ o.hash \in Bundles(def)
      BY <1>1, NoOutputAssumption DEF Outputs
    <3>4. Current \in Nodes /\ def.kind[Current] \in {"agent_step", "conditional"}
      BY <1>1, <3>1, CurrentFacts DEF Kind
    <3>5. /\ s.nodeOutputs[Current] = o /\ last'[Current] = o.hash
          /\ last' \in [Nodes -> Bundles(def) \cup {NoOutput}]
          /\ \A n \in Nodes : n # Current => s.nodeOutputs[n] = state.nodeOutputs[n] /\ last'[n] = last[n]
      BY <1>4, <2>1, <3>2, <3>3, <3>4
    <3> QED BY <2>1, <2>2, <3>3, <3>4, <3>5
  <2> QED BY <2>3, <2>4
<1>6. deriveTerminalStatus(s) \in {"succeeded", "failed", "paused"}
  BY DeriveKind
<1>7. EngineTyped'
  <2>1. row' # NoRow =>
          row'.status \in {"running", "succeeded", "failed", "paused"} /\ StateFits(def, row'.state)
    BY <1>1, <1>2, <1>6 DEF EngineTyped
  <2>2. outcome' # NoOutcome => outcome'.published \in {"succeeded", "failed", "paused"}
    BY <1>1, <1>2 DEF ReportFits
  <2>3. StateFits(def, emptyState)
    BY EmptyFits
  <2>4. lost' \subseteq {"death", "write"}
    BY <1>1, <1>2 DEF EngineTyped
  <2> QED BY <1>1, <1>2, <1>3, <1>5, <2>1, <2>2, <2>3, <2>4 DEF EngineTyped
<1>8. WalkFits' /\ FreshFits'
  BY <1>2 DEF WalkFits, FreshFits
<1>9. CostFits'
  <2>1. s.samples <= calls
    BY <1>1, <1>4 DEF EngineInv, CostFits, Paid, EngineTyped
  <2>2. row' # NoRow => row'.state.samples <= calls
    BY <1>2, <2>1 DEF EngineInv, CostFits
  <2>3. emptyState.samples = 0 /\ calls \in Nat
    BY <1>1, EmptyFits DEF EngineTyped
  <2> QED BY <1>2, <2>2, <2>3 DEF CostFits
<1>10. ReuseFits'
  <2> SUFFICES ASSUME lost' = {}, row' # NoRow
               PROVE  \A n \in Nodes : last'[n] # NoOutput =>
                         /\ row'.state.nodeOutputs[n] # NoOutput
                         /\ row'.state.nodeOutputs[n].hash = last'[n]
    BY <1>2, <1>3 DEF ReuseFits, Holds
  <2>1. lost = {} /\ row'.state = s
    BY <1>2
  <2> QED BY <1>5, <2>1
<1>11. ReportAgrees'
  BY <1>1, <1>2 DEF ReportFits, ReportAgrees
<1> QED BY <1>7, <1>8, <1>9, <1>10, <1>11 DEF EngineInv

LEMMA BeginFreshKeeps ==
    ASSUME EngineInv, NEW i \in Inputs, BeginFresh(i)
    PROVE  EngineInv'
<1>1. EngineTyped /\ pc = "idle" /\ def \in Definitions /\ calls \in Nat
  BY DEF EngineInv, EngineTyped, BeginFresh, Enter
<1>2. /\ pc' = "walk" /\ input' = i /\ pos' = 1 /\ state' = emptyState /\ outcome' = NoOutcome
      /\ resumed' = FALSE /\ last' = [n \in Nodes |-> NoOutput]
      /\ row' = [status |-> "running", state |-> emptyState] \/ (row' = row /\ row = NoRow)
      /\ lost' \in {{}, {"write"}}
      /\ UNCHANGED <<def, aborted, attempt, skipped, calls>>
  BY DEF BeginFresh, Enter
<1>3. Order' = Order /\ Nodes' = Nodes /\ Len(Order) \in Nat
  BY <1>1, <1>2, OrderFixed, NodeFacts
<1>4. /\ StateFits(def, emptyState)
      /\ emptyState.nodeStatus = [n \in Nodes |-> "none"]
      /\ emptyState.pendingGate = NoNode
      /\ emptyState.samples = 0
  BY EmptyFits
<1>5. EngineTyped'
  <2>1. row' # NoRow =>
          row'.status \in {"running", "succeeded", "failed", "paused"} /\ StateFits(def, row'.state)
    BY <1>2, <1>4
  <2>2. last' \in [Nodes -> Bundles(def) \cup {NoOutput}] /\ \A n \in Nodes : last'[n] = NoOutput
    BY <1>2
  <2>3. pos' \in 1..(Len(Order) + 1)
    BY <1>2, <1>3
  <2> HIDE DEF emptyState
  <2> QED BY <1>1, <1>2, <1>3, <1>4, <2>1, <2>2, <2>3 DEF EngineTyped
<1>6. WalkFits'
  BY <1>2, <1>4 DEF WalkFits
<1>7. FreshFits'
  <2>1. \A k \in 1..Len(Order) : Order[k] \in Nodes
    BY <1>1, NodeFacts
  <2> QED BY <1>2, <1>3, <1>4, <2>1 DEF FreshFits
<1>8. CostFits'
  BY <1>1, <1>2, <1>4 DEF CostFits
<1>9. ReuseFits'
  BY <1>2, <1>3 DEF ReuseFits, Holds
<1>10. ReportAgrees'
  BY <1>2 DEF ReportAgrees
<1> QED BY <1>5, <1>6, <1>7, <1>8, <1>9, <1>10 DEF EngineInv

\* The stored state, its pending gate cleared.
LEMMA BeginResumeKeeps ==
    ASSUME EngineInv, NEW i \in Inputs, BeginResume(i)
    PROVE  EngineInv'
<1> DEFINE s == [row.state EXCEPT !.pendingGate = NoNode]
<1>1. EngineTyped /\ pc = "idle" /\ row # NoRow /\ def \in Definitions /\ calls \in Nat
  BY DEF EngineInv, EngineTyped, BeginResume, Enter
<1>2. /\ pc' = "walk" /\ input' = i /\ pos' = 1 /\ state' = s /\ outcome' = NoOutcome /\ resumed' = TRUE
      /\ UNCHANGED <<def, aborted, attempt, skipped, calls, row, lost, last>>
  BY DEF BeginResume, Enter
<1>3. Order' = Order /\ Nodes' = Nodes /\ Len(Order) \in Nat
  BY <1>1, <1>2, OrderFixed, NodeFacts
<1>4. StateFits(def, row.state) /\ row.state.samples \in Nat
  BY <1>1 DEF EngineTyped, StateFits, States
<1>5. /\ StateFits(def, s)
      /\ s.nodeOutputs = row.state.nodeOutputs
      /\ s.pendingGate = NoNode
      /\ s.samples = row.state.samples
  BY <1>4, PendingFits
<1> HIDE DEF s
<1>6. EngineTyped'
  <2>1. pos' \in 1..(Len(Order) + 1)
    BY <1>2, <1>3
  <2> QED BY <1>1, <1>2, <1>3, <1>5, <2>1 DEF EngineTyped
<1>7. WalkFits' /\ FreshFits'
  BY <1>2, <1>5 DEF WalkFits, FreshFits
<1>8. CostFits'
  BY <1>1, <1>2, <1>4, <1>5 DEF EngineInv, CostFits
<1>9. ReuseFits'
  BY <1>1, <1>2, <1>3, <1>5 DEF EngineInv, ReuseFits, Holds
<1>10. ReportAgrees'
  BY <1>2 DEF ReportAgrees
<1> QED BY <1>6, <1>7, <1>8, <1>9, <1>10 DEF EngineInv

LEMMA AbortKeeps ==
    ASSUME EngineInv, Abort
    PROVE  EngineInv'
<1>1. /\ aborted' = TRUE
      /\ UNCHANGED <<def, pc, input, pos, attempt, skipped, state, row, outcome, resumed, lost, last, calls>>
  BY DEF Abort
<1>2. Order' = Order /\ Nodes' = Nodes /\ emptyState' = emptyState /\ Current' = Current /\ Kind' = Kind
  BY <1>1, OrderFixed DEF Current, Kind
<1>3. EngineTyped'
  BY <1>1, <1>2 DEF EngineInv, EngineTyped, Budget
<1>4. WalkFits' /\ FreshFits' /\ CostFits' /\ ReuseFits' /\ ReportAgrees'
  BY <1>1, <1>2
     DEF EngineInv, WalkFits, Succeeded, Skips, FreshFits, CostFits, ReuseFits, Holds, ReportAgrees
<1> QED BY <1>3, <1>4 DEF EngineInv

\* The death of the process is on record.
LEMMA DieKeeps ==
    ASSUME EngineInv, Die
    PROVE  EngineInv'
<1>1. /\ pc' = "idle" /\ pos' = 0 /\ attempt' = 0 /\ skipped' = {} /\ aborted' = FALSE /\ resumed' = FALSE
      /\ state' = emptyState /\ outcome' = NoOutcome /\ lost' = lost \cup {"death"}
      /\ UNCHANGED <<def, input, row, last, calls>>
  BY DEF Die, Leave
<1>2. Order' = Order /\ Nodes' = Nodes /\ emptyState' = emptyState
  BY <1>1, OrderFixed
<1>3. StateFits(def, emptyState) /\ emptyState.samples = 0
  BY EmptyFits
<1>4. EngineTyped'
  BY <1>1, <1>2, <1>3 DEF EngineInv, EngineTyped
<1>5. WalkFits' /\ FreshFits' /\ ReuseFits' /\ ReportAgrees'
  BY <1>1 DEF WalkFits, FreshFits, ReuseFits, ReportAgrees
<1>6. CostFits'
  BY <1>1, <1>3 DEF EngineInv, EngineTyped, CostFits
<1> QED BY <1>4, <1>5, <1>6 DEF EngineInv

LEMMA StutterKeeps ==
    ASSUME EngineInv, UNCHANGED flowVars
    PROVE  EngineInv'
<1>1. UNCHANGED <<def, pc, input, aborted, pos, attempt, skipped, state, row, outcome, resumed, lost, last, calls>>
  BY DEF flowVars
<1>2. Order' = Order /\ Nodes' = Nodes /\ emptyState' = emptyState /\ Current' = Current /\ Kind' = Kind
  BY <1>1, OrderFixed DEF Current, Kind
<1>3. EngineTyped'
  BY <1>1, <1>2 DEF EngineInv, EngineTyped, Budget
<1>4. WalkFits' /\ FreshFits' /\ CostFits' /\ ReuseFits' /\ ReportAgrees'
  BY <1>1, <1>2
     DEF EngineInv, WalkFits, Succeeded, Skips, FreshFits, CostFits, ReuseFits, Holds, ReportAgrees
<1> QED BY <1>3, <1>4 DEF EngineInv

-----------------------------------------------------------------------------
(* Every behaviour keeps the invariant.                                    *)

LEMMA InitHolds ==
    ASSUME Init
    PROVE  EngineInv
<1>1. def \in Definitions /\ state = emptyState /\ pc = "idle" /\ row = NoRow /\ outcome = NoOutcome
  BY DEF Init
<1>2. StateFits(def, emptyState) /\ emptyState.samples = 0
  BY EmptyFits
<1>3. EngineTyped
  BY <1>1, <1>2 DEF Init, EngineTyped
<1>4. WalkFits /\ FreshFits /\ ReuseFits /\ ReportAgrees
  BY <1>1 DEF WalkFits, FreshFits, ReuseFits, ReportAgrees
<1>5. CostFits
  BY <1>1, <1>2 DEF Init, CostFits
<1> QED BY <1>3, <1>4, <1>5 DEF EngineInv

\* A step inside a pass is of one of three kinds.
StepKinds ==
    \/ \E s, skips : AdvanceFits(s, skips)
    \/ \E s, k : CallFits(s, k)
    \/ \E status, s : FinishFits(status, s)

LEMMA WalkKinds ==
    ASSUME EngineInv, Walk
    PROVE  StepKinds
<1>1. CASE WalkAborted
  BY <1>1, WalkAbortedFits DEF StepKinds
<1>2. CASE SkipNode
  BY <1>2, SkipNodeFits DEF StepKinds
<1>3. CASE RunnerMissing
  BY <1>3, RunnerMissingFits DEF StepKinds
<1>4. CASE ReplayOk
  BY <1>4, ReplayOkFits DEF StepKinds
<1>5. CASE ReplayFailure
  BY <1>5, ReplayFailureFits DEF StepKinds
<1>6. CASE CallRunner
  BY <1>6, CallRunnerFits DEF StepKinds
<1>7. CASE GateSatisfied
  BY <1>7, GateSatisfiedFits DEF StepKinds
<1>8. CASE GatePauses
  BY <1>8, GatePausesFits DEF StepKinds
<1>9. CASE WalkEnds
  BY <1>9, WalkEndsFits DEF StepKinds
<1> QED BY <1>1, <1>2, <1>3, <1>4, <1>5, <1>6, <1>7, <1>8, <1>9 DEF Walk

LEMMA SettleKinds ==
    ASSUME EngineInv, Settle
    PROVE  StepKinds
<1>1. ASSUME NEW value \in BOOLEAN, StepOk(value) PROVE StepKinds
  BY <1>1, StepOkFits DEF StepKinds
<1>2. ASSUME NEW value \in BOOLEAN, LoopEnds(value) PROVE StepKinds
  BY <1>2, LoopEndsFits DEF StepKinds
<1>3. CASE StepRetries
  BY <1>3, StepRetriesFits DEF StepKinds
<1>4. CASE StepFails
  BY <1>4, StepFailsFits DEF StepKinds
<1>5. CASE LoopAgain
  BY <1>5, LoopAgainFits DEF StepKinds
<1>6. CASE LoopFails
  BY <1>6, LoopFailsFits DEF StepKinds
<1>7. CASE RunnerThrows
  BY <1>7, RunnerThrowsFits DEF StepKinds
<1> QED BY <1>1, <1>2, <1>3, <1>4, <1>5, <1>6, <1>7 DEF Settle

LEMMA StepKeeps ==
    ASSUME EngineInv, [Next]_flowVars
    PROVE  EngineInv'
<1>1. ASSUME NEW i \in Inputs, BeginFresh(i) PROVE EngineInv'
  BY <1>1, BeginFreshKeeps
<1>2. ASSUME NEW i \in Inputs, BeginResume(i) PROVE EngineInv'
  BY <1>2, BeginResumeKeeps
<1>3. CASE StepKinds
  BY <1>3, AdvanceKeeps, CallKeeps, FinishKeeps DEF StepKinds
<1>4. CASE Walk
  BY <1>3, <1>4, WalkKinds
<1>5. CASE Settle
  BY <1>3, <1>5, SettleKinds
<1>6. CASE Abort
  BY <1>6, AbortKeeps
<1>7. CASE Die
  BY <1>7, DieKeeps
<1>8. CASE UNCHANGED flowVars
  BY <1>8, StutterKeeps
<1> QED BY <1>1, <1>2, <1>4, <1>5, <1>6, <1>7, <1>8 DEF Next

\* Over any number of passes, deaths and failed writes, for every accepted flow and every
\* input: what run() and runFlowInProcess keep of a walk fits what the walk has done.
THEOREM EngineInvariant == Spec => []EngineInv
<1>1. Init => EngineInv
  BY InitHolds
<1>2. EngineInv /\ [Next]_flowVars => EngineInv'
  BY StepKeeps
<1> QED BY <1>1, <1>2, PTL DEF Spec

-----------------------------------------------------------------------------
(* What follows from it, for every accepted flow.                          *)

LEMMA InvDependencies ==
    ASSUME EngineInv
    PROVE  DependenciesFirst
<1> SUFFICES ASSUME pc = "call", NEW d \in def.dependsOn[Current] PROVE Succeeded(d)
  BY DEF DependenciesFirst, Succeeded
<1>1. EngineTyped /\ pos \in 1..Len(Order) /\ ~Skips
  BY CallFacts
<1>2. PICK j \in 1..(pos - 1) : Order[j] = d
  BY <1>1, CurrentFacts
<1>3. d \notin skipped
  BY <1>1 DEF Skips
<1>4. Order[j] \in skipped \/ Succeeded(Order[j])
  BY DEF EngineInv, WalkFits
<1> QED BY <1>2, <1>3, <1>4

LEMMA InvCosts ==
    ASSUME EngineInv
    PROVE  CostNotInflated
<1>1. state.samples \in Nat /\ calls \in Nat
  BY DEF EngineInv, EngineTyped, StateFits, States
<1> QED BY <1>1 DEF EngineInv, CostFits, CostNotInflated

\* Of all steps of a walk only CallRunner calls a runner.
LEMMA OnlyCallRunner ==
    ASSUME [Next]_flowVars, pc = "walk", pc' = "call"
    PROVE  CallRunner
<1>1. ASSUME NEW i \in Inputs, BeginFresh(i) \/ BeginResume(i) PROVE FALSE
  BY <1>1 DEF BeginFresh, BeginResume, Enter
<1>2. ~Settle
  BY DEF Settle, StepOk, LoopEnds, StepRetries, StepFails, LoopAgain, LoopFails, RunnerThrows
<1>3. ~Abort /\ ~Die /\ ~UNCHANGED flowVars
  BY DEF Abort, Die, Leave, flowVars
<1>4. ~WalkAborted /\ ~RunnerMissing /\ ~ReplayFailure /\ ~GatePauses /\ ~WalkEnds
  BY DEF WalkAborted, RunnerMissing, ReplayFailure, GatePauses, WalkEnds, Finish, Leave
<1>5. ~SkipNode /\ ~ReplayOk /\ ~GateSatisfied
  BY DEF SkipNode, ReplayOk, GateSatisfied, Advance
<1> QED BY <1>1, <1>2, <1>3, <1>4, <1>5 DEF Next, Walk

\* With nothing lost, a bundle that has settled before is found in the cache.
LEMMA StepReuses ==
    ASSUME EngineInv, [Next]_flowVars, RepeatsWork
    PROVE  lost # {}
<1> SUFFICES ASSUME lost = {} PROVE FALSE
  OBVIOUS
<1>1. pc = "walk" /\ Kind # "loop" /\ last[Current] = resolveInputs(Current)
  BY DEF RepeatsWork
<1>2. CallRunner
  BY <1>1, OnlyCallRunner DEF RepeatsWork
<1>3. EngineTyped /\ pc # "idle" /\ pos \in 1..Len(Order) /\ Current \in Nodes
  BY <1>2, AtNodeFacts DEF CallRunner, Enters
<1>4. Kind \in {"agent_step", "conditional"} /\ ~CacheHit
  BY <1>1, <1>2, <1>3, CurrentFacts DEF CallRunner
<1>5. last[Current] # NoOutput
  <2>1. resolveInputs(Current) \in Bundles(def)
    BY <1>3, BundleTyped
  <2> QED BY <1>1, <1>3, <2>1, NoOutputAssumption DEF EngineTyped
<1>6. state.nodeOutputs[Current] # NoOutput /\ state.nodeOutputs[Current].hash = last[Current]
  BY <1>3, <1>5 DEF EngineInv, ReuseFits, Holds
<1> QED BY <1>1, <1>4, <1>6 DEF CacheHit

\* A runner is never called before all its node depends on has succeeded, not even when a
\* resume brings statuses of another walk along.
THEOREM PredecessorsFirst == Spec => []DependenciesFirst
BY EngineInvariant, InvDependencies, PTL

\* Replays are free: cost samples never outnumber runner calls.
THEOREM CostsHonest == Spec => []CostNotInflated
BY EngineInvariant, InvCosts, PTL

\* The derived status never contradicts the one that was published.
THEOREM ReportsTrue == Spec => []ReportAgrees
<1>1. EngineInv => ReportAgrees
  BY DEF EngineInv
<1> QED BY EngineInvariant, <1>1, PTL

\* A resume repeats no call that has settled, unless a death or a failed write lost it.
THEOREM ResumesReuse == Spec => ResumeReuses
<1>1. EngineInv /\ [Next]_flowVars => [RepeatsWork => lost # {}]_flowVars
  BY StepReuses
<1> QED BY EngineInvariant, <1>1, PTL DEF Spec, ResumeReuses

-----------------------------------------------------------------------------
(* Branches.  BranchAssumption enters here and nowhere above.              *)

\* The skipped nodes are those the conditionals that were walked decided against and the
\* nodes behind these, as far as the walk has come.
BranchFits ==
    pc # "idle" =>
        /\ skipped \subseteq Nodes
        /\ \A i \in 1..(pos - 1) :
              /\ (\E n \in def.dependsOn[Order[i]] : n \in skipped) => Order[i] \in skipped
              /\ def.kind[Order[i]] = "conditional" /\ Order[i] \notin skipped =>
                    Unpicked(Order[i], state.nodeOutputs[Order[i]].value) \in skipped
        /\ \A n \in skipped :
              \/ \E m \in def.dependsOn[n] : m \in skipped
              \/ \E i \in 1..(pos - 1) :
                    /\ Order[i] \notin skipped
                    /\ def.kind[Order[i]] = "conditional"
                    /\ n \in {def.trueBranch[Order[i]], def.falseBranch[Order[i]]}
                    /\ n = Unpicked(Order[i], state.nodeOutputs[Order[i]].value)

LEMMA DepsBefore ==
    ASSUME EngineTyped, NEW i \in 1..Len(Order), NEW n \in def.dependsOn[Order[i]]
    PROVE  /\ n \in Nodes
           /\ \E j \in 1..(i - 1) : Order[j] = n
           /\ \A k \in i..Len(Order) : Order[k] # n
<1>1. PICK j \in 1..(i - 1) : Order[j] = n
  BY NodeFacts
<1>2. j \in 1..Len(Order) /\ Len(Order) \in Nat
  BY NodeFacts
<1>3. ASSUME NEW k \in i..Len(Order) PROVE Order[k] # n
  <2>1. k \in 1..Len(Order) /\ k # j
    BY <1>2
  <2> QED BY <1>1, <1>2, <2>1, NodeFacts
<1>4. n \in Nodes
  BY <1>1, <1>2, NodeFacts
<1> QED BY <1>1, <1>3, <1>4

\* The branches of a conditional lie behind it.
LEMMA BranchBehind ==
    ASSUME EngineTyped, NEW i \in 1..Len(Order), def.kind[Order[i]] = "conditional",
           NEW n \in {def.trueBranch[Order[i]], def.falseBranch[Order[i]]}
    PROVE  /\ n \in Nodes /\ Order[i] \in def.dependsOn[n]
           /\ \A k \in 1..i : Order[k] # n
<1>1. Order[i] \in Nodes /\ Len(Order) \in Nat
  BY NodeFacts
<1>2. n \in Nodes /\ Order[i] \in def.dependsOn[n]
  BY <1>1, BranchAssumption DEF EngineTyped, Nodes
<1>3. ASSUME NEW k \in 1..i, Order[k] = n PROVE FALSE
  <2>1. k \in 1..Len(Order) /\ i \in k..Len(Order)
    BY <1>1
  <2>2. Order[i] \in def.dependsOn[Order[k]]
    BY <1>2, <1>3
  <2> QED BY <2>1, <2>2, DepsBefore
<1> QED BY <1>2, <1>3

LEMMA UnpickedIsBranch ==
    ASSUME NEW c, NEW value
    PROVE  Unpicked(c, value) \in {def.trueBranch[c], def.falseBranch[c]}
BY DEF Unpicked

LEMMA SkipKeepsBranches ==
    ASSUME EngineInv, BranchFits, pc # "idle", pos \in 1..Len(Order), Skips,
           UNCHANGED <<def, state>>, pos' = pos + 1, skipped' = skipped \cup {Current}
    PROVE  BranchFits'
<1>1. EngineTyped /\ Current \in Nodes /\ Len(Order) \in Nat
  BY NodeFacts, CurrentFacts DEF EngineInv
<1>2. Order' = Order /\ Nodes' = Nodes
  BY OrderFixed
<1>3. skipped' \subseteq Nodes'
  BY <1>1, <1>2 DEF BranchFits
<1>4. ASSUME NEW i \in 1..(pos' - 1)
      PROVE  /\ (\E n \in def.dependsOn[Order[i]] : n \in skipped') => Order[i] \in skipped'
             /\ def.kind[Order[i]] = "conditional" /\ Order[i] \notin skipped' =>
                   Unpicked(Order[i], state.nodeOutputs[Order[i]].value) \in skipped'
  <2>1. CASE i = pos
    BY <2>1 DEF Current
  <2>2. CASE i # pos
    <3>1. i \in 1..(pos - 1) /\ i \in 1..Len(Order) /\ pos \in i..Len(Order)
      BY <1>1, <2>2
    <3>2. \A n \in def.dependsOn[Order[i]] : n # Current
      BY <1>1, <3>1, DepsBefore DEF Current
    <3> QED BY <3>1, <3>2 DEF BranchFits
  <2> QED BY <2>1, <2>2
<1>5. ASSUME NEW n \in skipped'
      PROVE  \/ \E m \in def.dependsOn[n] : m \in skipped'
             \/ \E i \in 1..(pos' - 1) :
                   /\ Order[i] \notin skipped'
                   /\ def.kind[Order[i]] = "conditional"
                   /\ n \in {def.trueBranch[Order[i]], def.falseBranch[Order[i]]}
                   /\ n = Unpicked(Order[i], state.nodeOutputs[Order[i]].value)
  <2>1. CASE n \in skipped
    <3>1. CASE \E m \in def.dependsOn[n] : m \in skipped
      BY <3>1
    <3>2. CASE \E i \in 1..(pos - 1) :
                   /\ Order[i] \notin skipped
                   /\ def.kind[Order[i]] = "conditional"
                   /\ n \in {def.trueBranch[Order[i]], def.falseBranch[Order[i]]}
                   /\ n = Unpicked(Order[i], state.nodeOutputs[Order[i]].value)
      <4>1. PICK i \in 1..(pos - 1) :
                   /\ Order[i] \notin skipped
                   /\ def.kind[Order[i]] = "conditional"
                   /\ n \in {def.trueBranch[Order[i]], def.falseBranch[Order[i]]}
                   /\ n = Unpicked(Order[i], state.nodeOutputs[Order[i]].value)
        BY <3>2
      <4>2. i \in 1..(pos' - 1) /\ i \in 1..Len(Order) /\ i # pos
        BY <1>1
      <4>3. Order[i] \notin skipped'
        BY <1>1, <4>1, <4>2, CurrentFacts
      <4> QED BY <4>1, <4>2, <4>3
    <3> QED BY <2>1, <3>1, <3>2 DEF BranchFits
  <2>2. CASE n = Current /\ n \notin skipped
    <3>1. PICK d \in def.dependsOn[Current] : d \in skipped \/ state.nodeStatus[d] = "failed"
      BY <2>2 DEF Skips
    <3>2. PICK j \in 1..(pos - 1) : Order[j] = d
      BY <1>1, CurrentFacts
    <3>3. Order[j] \in skipped \/ Succeeded(Order[j])
      BY DEF EngineInv, WalkFits
    <3>4. d \in skipped
      BY <3>1, <3>2, <3>3 DEF Succeeded
    <3> QED BY <2>2, <3>4
  <2> QED BY <2>1, <2>2
<1> QED BY <1>2, <1>3, <1>4, <1>5 DEF BranchFits, Unpicked

LEMMA SuccessKeepsBranches ==
    ASSUME EngineInv, BranchFits, pc # "idle", pos \in 1..Len(Order), ~Skips,
           NEW o, NEW s, NEW skips,
           skips = IF Kind = "conditional" THEN {Unpicked(Current, o.value)} ELSE {},
           s.nodeOutputs = [state.nodeOutputs EXCEPT ![Current] = o],
           UNCHANGED def, state' = s, pos' = pos + 1, skipped' = skipped \cup skips
    PROVE  BranchFits'
<1>1. EngineTyped /\ Current \in Nodes /\ Len(Order) \in Nat
  BY NodeFacts, CurrentFacts DEF EngineInv
<1>2. Order' = Order /\ Nodes' = Nodes
  BY OrderFixed
<1>3. state.nodeOutputs \in [Nodes -> Outputs(def) \cup {NoOutput}]
  BY <1>1 DEF EngineTyped, StateFits, States, Nodes
<1>4. /\ s.nodeOutputs[Current] = o
      /\ \A i \in 1..(pos - 1) : Order[i] # Current /\ s.nodeOutputs[Order[i]] = state.nodeOutputs[Order[i]]
  <2>1. \A i \in 1..(pos - 1) : Order[i] \in Nodes /\ Order[i] # Current
    <3>1. \A i \in 1..(pos - 1) : i \in 1..Len(Order) /\ i # pos
      BY <1>1
    <3> QED BY <1>1, <3>1, NodeFacts, CurrentFacts
  <2> QED BY <1>1, <1>3, <2>1
\* What is skipped now lies behind the current node.
<1>5. ASSUME NEW u \in skips
      PROVE  /\ u \in Nodes
             /\ u \in {def.trueBranch[Current], def.falseBranch[Current]}
             /\ u = Unpicked(Current, o.value) /\ Kind = "conditional"
             /\ \A k \in 1..pos : Order[k] # u
  <2>1. Kind = "conditional" /\ u = Unpicked(Current, o.value)
    BY <1>5
  <2>2. u \in {def.trueBranch[Order[pos]], def.falseBranch[Order[pos]]} /\ def.kind[Order[pos]] = "conditional"
    BY <2>1, UnpickedIsBranch DEF Current, Kind
  <2>3. u \in Nodes /\ \A k \in 1..pos : Order[k] # u
    BY <1>1, <2>2, BranchBehind
  <2> QED BY <2>1, <2>2, <2>3 DEF Current
<1>6. skipped' \subseteq Nodes'
  BY <1>2, <1>5 DEF BranchFits
<1>7. ASSUME NEW i \in 1..(pos' - 1)
      PROVE  /\ (\E n \in def.dependsOn[Order[i]] : n \in skipped') => Order[i] \in skipped'
             /\ def.kind[Order[i]] = "conditional" /\ Order[i] \notin skipped' =>
                   Unpicked(Order[i], s.nodeOutputs[Order[i]].value) \in skipped'
  <2>1. i \in 1..Len(Order) /\ i \in 1..pos
    BY <1>1
  <2>2. ASSUME NEW n \in def.dependsOn[Order[i]] PROVE n \notin skips
    <3>1. PICK j \in 1..(i - 1) : Order[j] = n
      BY <1>1, <2>1, DepsBefore
    <3>2. j \in 1..pos
      BY <1>1, <2>1
    <3> QED BY <1>5, <3>1, <3>2
  <2>3. CASE i = pos
    <3>1. \A n \in def.dependsOn[Order[i]] : n \notin skipped'
      BY <2>2, <2>3 DEF Skips, Current
    <3>2. def.kind[Order[i]] = "conditional" => Unpicked(Order[i], s.nodeOutputs[Order[i]].value) \in skips
      BY <1>4, <2>3 DEF Current, Kind
    <3> QED BY <3>1, <3>2
  <2>4. CASE i # pos
    <3>1. i \in 1..(pos - 1)
      BY <2>1, <2>4
    <3> QED BY <1>4, <2>2, <3>1 DEF BranchFits
  <2> QED BY <2>3, <2>4
<1>8. ASSUME NEW n \in skipped'
      PROVE  \/ \E m \in def.dependsOn[n] : m \in skipped'
             \/ \E i \in 1..(pos' - 1) :
                   /\ Order[i] \notin skipped'
                   /\ def.kind[Order[i]] = "conditional"
                   /\ n \in {def.trueBranch[Order[i]], def.falseBranch[Order[i]]}
                   /\ n = Unpicked(Order[i], s.nodeOutputs[Order[i]].value)
  <2>1. CASE n \in skipped
    <3>1. CASE \E m \in def.dependsOn[n] : m \in skipped
      BY <3>1
    <3>2. CASE \E i \in 1..(pos - 1) :
                   /\ Order[i] \notin skipped
                   /\ def.kind[Order[i]] = "conditional"
                   /\ n \in {def.trueBranch[Order[i]], def.falseBranch[Order[i]]}
                   /\ n = Unpicked(Order[i], state.nodeOutputs[Order[i]].value)
      <4>1. PICK i \in 1..(pos - 1) :
                   /\ Order[i] \notin skipped
                   /\ def.kind[Order[i]] = "conditional"
                   /\ n \in {def.trueBranch[Order[i]], def.falseBranch[Order[i]]}
                   /\ n = Unpicked(Order[i], state.nodeOutputs[Order[i]].value)
        BY <3>2
      <4>2. i \in 1..(pos' - 1) /\ i \in 1..pos
        BY <1>1
      <4>3. Order[i] \notin skipped'
        BY <1>5, <4>1, <4>2
      <4>4. s.nodeOutputs[Order[i]] = state.nodeOutputs[Order[i]]
        BY <1>4
      <4> QED BY <4>1, <4>2, <4>3, <4>4
    <3> QED BY <2>1, <3>1, <3>2 DEF BranchFits
  <2>2. CASE n \in skips
    <3>1. pos \in 1..(pos' - 1) /\ pos \in 1..pos
      BY <1>1
    <3>2. Order[pos] \notin skipped'
      <4>1. Order[pos] \notin skipped
        BY DEF Skips, Current
      <4> QED BY <1>5, <3>1, <4>1
    <3>3. /\ def.kind[Order[pos]] = "conditional"
          /\ n \in {def.trueBranch[Order[pos]], def.falseBranch[Order[pos]]}
          /\ n = Unpicked(Order[pos], s.nodeOutputs[Order[pos]].value)
      BY <1>4, <1>5, <2>2 DEF Current, Kind
    <3> QED BY <3>1, <3>2, <3>3
  <2> QED BY <2>1, <2>2
<1>9. \A i \in 1..(pos' - 1) :
          /\ (\E n \in def'.dependsOn[Order'[i]] : n \in skipped') => Order'[i] \in skipped'
          /\ def'.kind[Order'[i]] = "conditional" /\ Order'[i] \notin skipped' =>
                Unpicked(Order[i], state.nodeOutputs[Order[i]].value)' \in skipped'
  BY <1>2, <1>7 DEF Unpicked
<1>10. \A n \in skipped' :
          \/ \E m \in def'.dependsOn[n] : m \in skipped'
          \/ \E i \in 1..(pos' - 1) :
                /\ Order'[i] \notin skipped'
                /\ def'.kind[Order'[i]] = "conditional"
                /\ n \in {def'.trueBranch[Order'[i]], def'.falseBranch[Order'[i]]}
                /\ n = Unpicked(Order[i], state.nodeOutputs[Order[i]].value)'
  <2> SUFFICES ASSUME NEW n \in skipped', ~ \E m \in def'.dependsOn[n] : m \in skipped'
               PROVE  \E i \in 1..(pos' - 1) :
                /\ Order'[i] \notin skipped'
                /\ def'.kind[Order'[i]] = "conditional"
                /\ n \in {def'.trueBranch[Order'[i]], def'.falseBranch[Order'[i]]}
                /\ n = Unpicked(Order[i], state.nodeOutputs[Order[i]].value)'
    OBVIOUS
  <2>1. PICK i \in 1..(pos' - 1) :
                   /\ Order[i] \notin skipped'
                   /\ def.kind[Order[i]] = "conditional"
                   /\ n \in {def.trueBranch[Order[i]], def.falseBranch[Order[i]]}
                   /\ n = Unpicked(Order[i], s.nodeOutputs[Order[i]].value)
    BY <1>8
  <2>2. n = Unpicked(Order[i], state.nodeOutputs[Order[i]].value)'
    BY <1>2, <2>1 DEF Unpicked
  <2> QED BY <1>2, <2>1, <2>2
<1> QED BY <1>6, <1>9, <1>10 DEF BranchFits

LEMMA AdvanceKeepsBranches ==
    ASSUME EngineInv, BranchFits, NEW s, NEW skips, AdvanceFits(s, skips)
    PROVE  BranchFits'
<1>1. /\ pc # "idle" /\ pos \in 1..Len(Order)
      /\ pos' = pos + 1 /\ skipped' = skipped \cup skips /\ state' = s /\ UNCHANGED def
  BY DEF AdvanceFits, Advance
<1>2. CASE s = state /\ skips = {Current} /\ Skips
  BY <1>1, <1>2, SkipKeepsBranches
<1>3. CASE ~(s = state /\ skips = {Current} /\ Skips)
  <2>1. PICK o \in Outputs(def) :
           /\ s.nodeOutputs = [state.nodeOutputs EXCEPT ![Current] = o]
           /\ skips = IF Kind = "conditional" THEN {Unpicked(Current, o.value)} ELSE {}
    BY <1>3 DEF AdvanceFits
  <2>2. ~Skips
    BY <1>3 DEF AdvanceFits
  <2> QED BY <1>1, <2>1, <2>2, SuccessKeepsBranches
<1> QED BY <1>2, <1>3

LEMMA CallKeepsBranches ==
    ASSUME EngineInv, BranchFits, NEW s, NEW k, CallFits(s, k)
    PROVE  BranchFits'
<1>1. pc # "idle" /\ UNCHANGED <<def, pos, skipped>> /\ state'.nodeOutputs = state.nodeOutputs
  BY DEF CallFits, Call
<1>2. Order' = Order /\ Nodes' = Nodes
  BY <1>1, OrderFixed
<1> QED BY <1>1, <1>2 DEF BranchFits, Unpicked

LEMMA BeginKeepsBranches ==
    ASSUME EngineInv, NEW i, NEW s, Enter(i, s)
    PROVE  BranchFits'
<1>1. skipped' = {} /\ pos' = 1
  BY DEF EngineInv, EngineTyped, Enter
<1> QED BY <1>1 DEF BranchFits

LEMMA StepKeepsBranches ==
    ASSUME EngineInv, BranchFits, [Next]_flowVars
    PROVE  BranchFits'
<1>1. ASSUME NEW i \in Inputs, BeginFresh(i) \/ BeginResume(i) PROVE BranchFits'
  BY <1>1, BeginKeepsBranches DEF BeginFresh, BeginResume
<1>2. ASSUME NEW status, NEW s, FinishFits(status, s) PROVE BranchFits'
  BY <1>2 DEF FinishFits, Finish, Leave, BranchFits
<1>3. CASE StepKinds
  BY <1>2, <1>3, AdvanceKeepsBranches, CallKeepsBranches DEF StepKinds
<1>4. CASE Walk \/ Settle
  BY <1>3, <1>4, WalkKinds, SettleKinds
<1>5. CASE Die
  BY <1>5 DEF Die, Leave, BranchFits
<1>6. CASE Abort \/ UNCHANGED flowVars
  <2>1. UNCHANGED <<def, pc, pos, skipped, state>>
    BY <1>6 DEF Abort, flowVars
  <2>2. Order' = Order /\ Nodes' = Nodes
    BY <2>1, OrderFixed
  <2> QED BY <2>1, <2>2 DEF BranchFits, Unpicked
<1> QED BY <1>1, <1>4, <1>5, <1>6 DEF Next

\* In a flow whose branches lie behind their conditionals, what is skipped is what the
\* decisions of this pass exclude, in replays and resumes as well.
THEOREM BranchInvariant == Spec => []BranchFits
<1>1. Init => BranchFits
  BY DEF Init, BranchFits
<1>2. EngineInv /\ BranchFits /\ [Next]_flowVars => BranchFits'
  BY StepKeepsBranches
<1> QED BY <1>1, <1>2, EngineInvariant, PTL DEF Spec

\* A conditional that ran or was replayed has its other branch skipped.
LEMMA InvUnpicked ==
    ASSUME EngineInv, BranchFits
    PROVE  UnpickedNotRun
<1> SUFFICES ASSUME pc = "call", NEW c \in Nodes, def.kind[c] = "conditional",
                    Current \in {def.trueBranch[c], def.falseBranch[c]}
             PROVE  Unpicked(c, state.nodeOutputs[c].value) # Current
  BY DEF UnpickedNotRun
<1>1. EngineTyped /\ pc # "idle" /\ pos \in 1..Len(Order) /\ ~Skips
  BY CallFacts
<1>2. c \in def.dependsOn[Current]
  BY <1>1, BranchAssumption DEF EngineTyped, Nodes
<1>3. PICK j \in 1..(pos - 1) : Order[j] = c
  BY <1>1, <1>2, CurrentFacts
<1>4. c \notin skipped /\ Current \notin skipped
  BY <1>1, <1>2 DEF Skips
<1>5. Unpicked(c, state.nodeOutputs[c].value) \in skipped
  BY <1>1, <1>3, <1>4 DEF BranchFits
<1> QED BY <1>4, <1>5

\* Excluded as the choice that its recursive definition stands for.
Excludes(before, n) ==
    \/ \E d \in def.dependsOn[n] : d \in before
    \/ \E c \in Nodes \ before :
          /\ def.kind[c] = "conditional"
          /\ n \in {def.trueBranch[c], def.falseBranch[c]}
          /\ Unpicked(c, state.nodeOutputs[c].value) = n

ExcludeTurn(f, k) ==
    IF k = 0 THEN {} ELSE f[k - 1] \cup (IF Excludes(f[k - 1], Order[k]) THEN {Order[k]} ELSE {})

LEMMA ExcludedIsChosen ==
    Excluded = (CHOOSE f : f = [k \in 0..Len(Order) |-> ExcludeTurn(f, k)])[Len(Order)]
BY DEF Excluded, ExcludeTurn, Excludes

\* At the end of a walk the excluded nodes are the skipped ones.
LEMMA ExcludedIsSkipped ==
    ASSUME EngineInv, BranchFits, pc = "walk", pos > Len(Order)
    PROVE  Excluded = skipped
<1> DEFINE N == Len(Order)
           Prefix(k) == {Order[i] : i \in 1..k}
           g == [k \in 0..N |-> skipped \cap Prefix(k)]
           f == CHOOSE h : h = [k \in 0..N |-> ExcludeTurn(h, k)]
           S == {k \in 0..N : f[k] = g[k]}
<1>1. /\ EngineTyped /\ N \in Nat /\ pos = N + 1 /\ def \in Definitions
      /\ \A i \in 1..N : Order[i] \in Nodes
      /\ \A n \in Nodes : \E i \in 1..N : Order[i] = n
  BY NodeFacts DEF EngineInv, EngineTyped
<1>2. /\ skipped \subseteq Nodes
      /\ \A i \in 1..N :
            /\ (\E n \in def.dependsOn[Order[i]] : n \in skipped) => Order[i] \in skipped
            /\ def.kind[Order[i]] = "conditional" /\ Order[i] \notin skipped =>
                  Unpicked(Order[i], state.nodeOutputs[Order[i]].value) \in skipped
      /\ \A n \in skipped :
            \/ \E m \in def.dependsOn[n] : m \in skipped
            \/ \E i \in 1..N :
                  /\ Order[i] \notin skipped
                  /\ def.kind[Order[i]] = "conditional"
                  /\ n \in {def.trueBranch[Order[i]], def.falseBranch[Order[i]]}
                  /\ n = Unpicked(Order[i], state.nodeOutputs[Order[i]].value)
  <2>1. pos - 1 = N /\ pc # "idle"
    BY <1>1
  <2> HIDE DEF N
  <2> QED BY <2>1 DEF BranchFits
<1> HIDE DEF N
<1>3. ASSUME NEW k \in 1..N PROVE Order[k] \in skipped <=> Excludes(g[k - 1], Order[k])
  <2>1. k - 1 \in 0..N /\ k \in 1..Len(Order)
    BY <1>1 DEF N
  <2>2. g[k - 1] = skipped \cap Prefix(k - 1)
    BY <2>1
  <2>3. ASSUME NEW d \in def.dependsOn[Order[k]], d \in skipped PROVE d \in g[k - 1]
    <3>1. PICK j \in 1..(k - 1) : Order[j] = d
      BY <1>1, <2>1, DepsBefore
    <3> QED BY <2>2, <2>3, <3>1
  <2>4. ASSUME Order[k] \in skipped PROVE Excludes(g[k - 1], Order[k])
    <3>1. CASE \E m \in def.dependsOn[Order[k]] : m \in skipped
      BY <2>3, <3>1 DEF Excludes
    <3>2. CASE ~ \E m \in def.dependsOn[Order[k]] : m \in skipped
      <4>1. PICK i \in 1..N :
                  /\ Order[i] \notin skipped
                  /\ def.kind[Order[i]] = "conditional"
                  /\ Order[k] \in {def.trueBranch[Order[i]], def.falseBranch[Order[i]]}
                  /\ Order[k] = Unpicked(Order[i], state.nodeOutputs[Order[i]].value)
        BY <1>2, <2>4, <3>2
      <4>2. Order[i] \in Nodes \ g[k - 1]
        BY <1>1, <2>2, <4>1
      <4> HIDE DEF g
      <4> QED BY <4>1, <4>2 DEF Excludes
    <3> QED BY <3>1, <3>2
  <2>5. ASSUME Excludes(g[k - 1], Order[k]) PROVE Order[k] \in skipped
    <3>1. CASE \E d \in def.dependsOn[Order[k]] : d \in g[k - 1]
      BY <1>2, <2>2, <3>1
    <3>2. CASE ~ \E d \in def.dependsOn[Order[k]] : d \in g[k - 1]
      <4>1. PICK c \in Nodes \ g[k - 1] :
               /\ def.kind[c] = "conditional"
               /\ Order[k] \in {def.trueBranch[c], def.falseBranch[c]}
               /\ Unpicked(c, state.nodeOutputs[c].value) = Order[k]
        <5> HIDE DEF g
        <5> QED BY <2>5, <3>2 DEF Excludes
      <4>2. c \in def.dependsOn[Order[k]]
        BY <1>1, <4>1, BranchAssumption DEF Nodes
      <4>3. PICK j \in 1..(k - 1) : Order[j] = c
        BY <1>1, <2>1, <4>2, DepsBefore
      <4>4. c \notin skipped /\ j \in 1..N
        BY <1>1, <2>2, <4>1, <4>3
      <4> QED BY <1>2, <4>1, <4>3, <4>4
    <3> QED BY <3>1, <3>2
  <2> QED BY <2>4, <2>5
<1>4. ASSUME NEW k \in 0..N PROVE g[k] = ExcludeTurn(g, k)
  <2>1. CASE k = 0
    BY <1>1, <2>1 DEF ExcludeTurn
  <2>2. CASE k # 0
    <3>1. k \in 1..N /\ k - 1 \in 0..N
      BY <1>1, <2>2
    <3>2. Prefix(k) = Prefix(k - 1) \cup {Order[k]}
      <4>1. 1..k = (1..(k - 1)) \cup {k}
        BY <1>1, <3>1
      <4> QED BY <4>1
    <3>3. g[k] = g[k - 1] \cup (skipped \cap {Order[k]})
      <4> HIDE DEF Prefix
      <4> QED BY <3>1, <3>2
    <3>4. Order[k] \in skipped <=> Excludes(g[k - 1], Order[k])
      BY <1>3, <3>1
    <3> HIDE DEF g
    <3> QED BY <2>2, <3>3, <3>4 DEF ExcludeTurn
  <2> QED BY <2>1, <2>2
<1>5. g = [k \in 0..N |-> ExcludeTurn(g, k)]
  <2>1. g = [k \in 0..N |-> g[k]]
    OBVIOUS
  <2> HIDE DEF g
  <2> QED BY <1>4, <2>1
<1>6. \A k \in 0..N : f[k] = ExcludeTurn(f, k)
  <2>1. f = [k \in 0..N |-> ExcludeTurn(f, k)]
    <3> HIDE DEF g
    <3> QED BY <1>5
  <2> HIDE DEF f
  <2> QED BY <2>1
<1> HIDE DEF f, g
<1>7. 0 \in S
  <2>1. 0 \in 0..N
    BY <1>1
  <2>2. f[0] = {} /\ g[0] = {}
    BY <1>4, <1>6, <2>1 DEF ExcludeTurn
  <2> QED BY <2>1, <2>2
<1>8. ASSUME NEW k \in 0..N, k < N, k \in S PROVE k + 1 \in S
  <2>1. k + 1 \in 0..N /\ k + 1 # 0 /\ (k + 1) - 1 = k /\ f[k] = g[k]
    BY <1>1, <1>8
  <2>2. f[k + 1] = ExcludeTurn(f, k + 1) /\ g[k + 1] = ExcludeTurn(g, k + 1)
    BY <1>4, <1>6, <2>1
  <2>3. ExcludeTurn(f, k + 1) = ExcludeTurn(g, k + 1)
    BY <2>1 DEF ExcludeTurn
  <2> QED BY <2>1, <2>2, <2>3
<1>9. N \in S
  <2>1. N \in Nat
    BY <1>1
  <2>2. \A k \in 0..N : k < N /\ k \in S => k + 1 \in S
    BY <1>8
  <2> HIDE DEF S
  <2>3. 0..N \subseteq S
    BY <1>7, <2>1, <2>2, UpTo
  <2> QED BY <2>1, <2>3
<1>10. Excluded = f[N]
  BY ExcludedIsChosen DEF f, N
<1>11. g[N] = skipped
  <2>1. Prefix(N) = Nodes
    BY <1>1
  <2>2. g[N] = skipped \cap Prefix(N)
    BY <1>1 DEF g
  <2> QED BY <1>2, <2>1, <2>2
<1> QED BY <1>9, <1>10, <1>11

LEMMA InvSuccess ==
    ASSUME EngineInv, BranchFits
    PROVE  SuccessComplete
<1> SUFFICES ASSUME pc = "walk", pos > Len(Order), NEW n \in Nodes \ Excluded
             PROVE  state.nodeStatus[n] = "succeeded"
  BY DEF SuccessComplete
<1>1. EngineTyped /\ Len(Order) \in Nat /\ pos = Len(Order) + 1
  BY NodeFacts DEF EngineInv, EngineTyped
<1>2. n \notin skipped
  BY ExcludedIsSkipped
<1>3. PICK i \in 1..Len(Order) : Order[i] = n
  BY <1>1, NodeFacts
<1>4. Order[i] \in skipped \/ Succeeded(Order[i])
  BY <1>1 DEF EngineInv, WalkFits
<1> QED BY <1>2, <1>3, <1>4 DEF Succeeded

LEMMA FitsIsOK ==
    ASSUME NEW s, StateFits(def, s), def \in Definitions
    PROVE  StateOK(s)
<1>1. /\ s.nodeStatus \in [Nodes -> Statuses]
      /\ s.keys \in Seq(Nodes)
      /\ s.nodeOutputs \in [Nodes -> Outputs(def) \cup {NoOutput}]
      /\ s.pendingGate \in Nodes \cup {NoNode}
      /\ s.samples \in Nat
  BY DEF StateFits, States, Nodes
<1>2. ASSUME NEW o \in Outputs(def) PROVE OutputOK(o)
  <2>1. o.hash \in Bundles(def) /\ o.ok \in BOOLEAN /\ o.value \in BOOLEAN
    BY DEF Outputs
  <2>2. PICK T \in SUBSET def.nodes : o.hash.deps \in [T -> BOOLEAN]
    BY <2>1 DEF Bundles
  <2>3. DOMAIN o.hash.deps \subseteq Nodes
    BY <2>2 DEF Nodes
  <2> QED BY <2>1, <2>3 DEF OutputOK, Bundles
<1> QED BY <1>1, <1>2 DEF StateOK, Statuses

LEMMA InvTyped ==
    ASSUME EngineInv, BranchFits
    PROVE  TypeOK
<1>1. EngineTyped /\ def \in Definitions
  BY DEF EngineInv, EngineTyped
<1>2. Len(Order) \in Nat
  BY <1>1, NodeFacts
<1>3. pos \in 0..(Len(Order) + 1)
  BY <1>1, <1>2 DEF EngineTyped
<1>4. attempt \in 0..(IF pc = "call" THEN Budget(Current) ELSE 0)
  <2>1. CASE pc = "call"
    <3>1. attempt \in 1..Budget(Current)
      BY <1>1, <2>1 DEF EngineTyped
    <3> QED BY <2>1, <3>1
  <2>2. CASE pc # "call"
    BY <1>1, <2>2 DEF EngineTyped
  <2> QED BY <2>1, <2>2
<1>5. skipped \subseteq Nodes
  BY <1>1 DEF EngineTyped, BranchFits
<1>6. StateOK(state) /\ (row # NoRow =>
          row.status \in {"running", "succeeded", "failed", "paused"} /\ StateOK(row.state))
  BY <1>1, FitsIsOK DEF EngineTyped
<1> QED BY <1>1, <1>3, <1>4, <1>5, <1>6 DEF TypeOK, EngineTyped

-----------------------------------------------------------------------------

\* types.ts, Conditional: the branch that was not selected is not executed.
THEOREM BranchesExclusive == Spec => []UnpickedNotRun
BY EngineInvariant, BranchInvariant, InvUnpicked, PTL

\* A pass that is published as succeeded has dropped nothing but unselected branches and
\* what lies behind them.
THEOREM NothingDropped == Spec => []SuccessComplete
BY EngineInvariant, BranchInvariant, InvSuccess, PTL

\* All that FlowSound promises of run() and runFlowInProcess, for every flow whose branches
\* lie behind their conditionals, every input, and any number of passes and faults.
THEOREM FlowCorrect == Spec => FlowSound
<1>1. EngineInv /\ BranchFits =>
         TypeOK /\ DependenciesFirst /\ UnpickedNotRun /\ SuccessComplete /\ ReportAgrees /\ CostNotInflated
  BY InvTyped, InvDependencies, InvUnpicked, InvSuccess, InvCosts DEF EngineInv
<1> QED BY <1>1, EngineInvariant, BranchInvariant, ResumesReuse, PTL DEF FlowSound
=============================================================================
