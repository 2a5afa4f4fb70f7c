------------------------- MODULE RateLimiterProofs --------------------------
(***************************************************************************)
(* Proofs about RateLimiter, for any finite set of callers and any caps.   *)
(* The inductive invariant joins the type invariant, the accounting of     *)
(* tokens and NoIdleWaiter: the caps survive a release only because at     *)
(* most one parked request lacks exactly the token that comes back.        *)
(***************************************************************************)
EXTENDS RateLimiter, FiniteSetTheorems, TLAPS

IInv == TypeOK /\ TokensAccounted /\ CapsRespected /\ QueueBounded /\ NoIdleWaiter

\* Sets of requests are finite and have a natural number of elements; the
\* others are the facts of FiniteSetTheorems the proofs below rest on.
LEMMA RequestSets ==
    \A S : S \subseteq Requests => IsFiniteSet(S) /\ Cardinality(S) \in Nat
  BY RateLimiterAssumption, FS_Subset, FS_CardinalityType

\* A larger set of requests has no smaller cardinality.
LEMMA Monotone ==
    \A S, T : S \subseteq T /\ T \subseteq Requests => Cardinality(S) <= Cardinality(T)
  BY RequestSets, FS_Subset

\* A set of requests with an element has a positive cardinality.
LEMMA NonEmpty ==
    \A S, x : S \subseteq Requests /\ x \in S => Cardinality(S) >= 1
  BY RequestSets, FS_EmptySet

\* Adding a new request to a set of requests adds one to its cardinality.
LEMMA AddOne ==
    \A S, x : S \subseteq Requests /\ x \in Requests \ S
        => Cardinality(S \cup {x}) = Cardinality(S) + 1
  BY RequestSets, FS_AddElement

\* Removing an element subtracts one.
LEMMA RemoveOne ==
    \A S, x : S \subseteq Requests /\ x \in S
        => Cardinality(S \ {x}) = Cardinality(S) - 1
  BY RequestSets, FS_RemoveElement

\* The caps are positive numbers for every role.
LEMMA RoleCapType == \A role \in Roles : RoleCap(role) \in Nat \ {0}
  BY RateLimiterAssumption DEF RoleCap

\* A lease that is out is counted, so release takes exactly one token back:
\* the clamp at zero (roleCounts.delete) never hides a missing token.
LEMMA HolderIsCounted ==
    ASSUME TypeOK, TokensAccounted, NEW r \in Requests, status[r] = "held"
    PROVE  /\ RoleOf[r] \in Roles
           /\ inFlight >= 1
           /\ roleCounts[RoleOf[r]] >= 1
           /\ Decremented(RoleOf[r]) = [roleCounts EXCEPT ![RoleOf[r]] = @ - 1]
  <1>1. RoleOf[r] \in Roles
    BY RateLimiterAssumption
  <1>2. r \in Held /\ r \in HeldBy(RoleOf[r])
    BY DEF Held, HeldBy
  <1>3. Held \subseteq Requests /\ HeldBy(RoleOf[r]) \subseteq Requests
    BY DEF Held, HeldBy
  <1>4. inFlight >= 1 /\ roleCounts[RoleOf[r]] >= 1
    BY <1>1, <1>2, <1>3, NonEmpty DEF TokensAccounted
  <1>5. roleCounts[RoleOf[r]] \in Nat
    BY <1>1 DEF TypeOK
  <1>6. (IF roleCounts[RoleOf[r]] > 1 THEN roleCounts[RoleOf[r]] - 1 ELSE 0)
          = roleCounts[RoleOf[r]] - 1
    BY <1>4, <1>5
  <1>7. QED
    BY <1>1, <1>4, <1>6 DEF Decremented

\* The heart of the argument: what drainWaiters wakes in one release is at
\* most one request, and that one fits under both caps.
LEMMA WakesAtMostOne ==
    ASSUME TypeOK, TokensAccounted, NoIdleWaiter,
           NEW r \in Requests, status[r] = "held",
           NEW W \in SUBSET pending,
           DrainWakes(W, inFlight - 1, Decremented(RoleOf[r]))
    PROVE  \/ W = {}
           \/ \E w \in pending : W = {w}
  <1> DEFINE rc == Decremented(RoleOf[r])
  <1>1. /\ RoleOf[r] \in Roles
        /\ inFlight \in Nat
        /\ roleCounts \in [Roles -> Nat]
        /\ rc = [roleCounts EXCEPT ![RoleOf[r]] = @ - 1]
    BY HolderIsCounted DEF TypeOK
  <1>2. pending \subseteq Requests
    BY DEF pending
  <1>3. SUFFICES ASSUME NEW u \in W, NEW v \in W, u \in ahead[v]
                 PROVE  FALSE
    <2>1. \A u, v \in W : u = v
      BY <1>2, <1>3 DEF TypeOK
    <2>2. QED
      BY <2>1
  <1>4. RoleOf[u] \in Roles /\ RoleOf[v] \in Roles /\ u \in Requests /\ v \in Requests
    BY <1>2, RateLimiterAssumption
  <1>5. GlobalCap \in Nat /\ RoleCap(RoleOf[u]) \in Nat /\ RoleCap(RoleOf[v]) \in Nat
    BY <1>4, RoleCapType, RateLimiterAssumption
  <1> DEFINE before == ahead[v] \cap W
             same == {x \in before : RoleOf[x] = RoleOf[v]}
  <1>6. Cardinality(before) >= 1 /\ Cardinality(before) \in Nat
    BY <1>2, <1>3, RequestSets, NonEmpty
  <1>7. inFlight < GlobalCap
    <2>1. inFlight - 1 + Cardinality(before) < GlobalCap
      BY DEF DrainWakes
    <2>2. QED
      BY <1>1, <1>5, <1>6, <2>1
  <1>8. /\ roleCounts[RoleOf[u]] >= RoleCap(RoleOf[u])
        /\ roleCounts[RoleOf[v]] >= RoleCap(RoleOf[v])
    BY <1>1, <1>4, <1>5, <1>7 DEF NoIdleWaiter, HasHeadroom
  <1>9. /\ Cardinality(ahead[u] \cap W) \in Nat
        /\ Cardinality({x \in ahead[u] \cap W : RoleOf[x] = RoleOf[u]}) \in Nat
        /\ Cardinality(same) \in Nat
    BY <1>2, RequestSets
  <1>10. /\ rc[RoleOf[u]] < RoleCap(RoleOf[u])
         /\ rc[RoleOf[v]] + Cardinality(same) < RoleCap(RoleOf[v])
    <2>1. rc[RoleOf[u]] \in Int
      BY <1>1, <1>4
    <2>2. rc[RoleOf[u]] + Cardinality({x \in ahead[u] \cap W : RoleOf[x] = RoleOf[u]})
            < RoleCap(RoleOf[u])
      BY DEF DrainWakes
    <2>3. rc[RoleOf[v]] + Cardinality(same) < RoleCap(RoleOf[v])
      BY DEF DrainWakes
    <2>4. QED
      BY <1>5, <1>9, <2>1, <2>2, <2>3
  <1>11. rc[RoleOf[v]] < RoleCap(RoleOf[v])
    BY <1>1, <1>4, <1>5, <1>9, <1>10
  <1>12. RoleOf[u] = RoleOf[r] /\ RoleOf[v] = RoleOf[r]
    BY <1>1, <1>4, <1>5, <1>8, <1>10, <1>11
  <1>13. Cardinality(same) >= 1
    BY <1>2, <1>3, <1>12, NonEmpty
  <1>14. QED
    BY <1>1, <1>4, <1>5, <1>8, <1>9, <1>10, <1>12, <1>13
-----------------------------------------------------------------------------

\* Taking a lease for a request that has headroom keeps the invariant
\* (tryAcquire and the fast path of acquire).
LEMMA MintPreserves ==
    ASSUME IInv, NEW r \in Requests, status[r] = "idle",
           HasHeadroom(RoleOf[r]), MintLease(r), UNCHANGED <<ahead, aborted>>
    PROVE  IInv'
  <1> USE DEF IInv
  <1>1. RoleOf[r] \in Roles /\ RoleOf \in [Requests -> Roles]
    BY RateLimiterAssumption
  <1>2. pending' = pending /\ r \notin pending /\ r \notin Held
    BY DEF pending, Held, MintLease, TypeOK
  <1>3. Held' = Held \cup {r}
    BY DEF Held, MintLease, TypeOK
  <1>4. \A role \in Roles :
          HeldBy(role)' = IF role = RoleOf[r] THEN HeldBy(role) \cup {r} ELSE HeldBy(role)
    BY <1>3 DEF HeldBy
  <1>5. \A role \in Roles : HeldBy(role) \subseteq Requests /\ r \notin HeldBy(role)
    BY <1>2 DEF HeldBy, Held
  <1>6. Held \subseteq Requests
    BY DEF Held
  <1>7. TypeOK'
    BY <1>1, <1>2 DEF TypeOK, MintLease, Status
  <1>8. TokensAccounted'
    <2>1. Cardinality(Held') = Cardinality(Held) + 1
      BY <1>2, <1>3, <1>6, AddOne
    <2>2. \A role \in Roles : Cardinality(HeldBy(role)') =
            IF role = RoleOf[r] THEN Cardinality(HeldBy(role)) + 1 ELSE Cardinality(HeldBy(role))
      BY <1>4, <1>5, AddOne
    <2>3. QED
      BY <1>1, <2>1, <2>2 DEF TokensAccounted, MintLease, TypeOK
  <1>9. CapsRespected'
    <2>1. inFlight' <= GlobalCap
      BY RateLimiterAssumption DEF HasHeadroom, MintLease, TypeOK
    <2>2. \A role \in Roles : roleCounts'[role] <= RoleCap(role)
      BY <1>1, RoleCapType DEF HasHeadroom, MintLease, TypeOK, CapsRespected, TokensAccounted
    <2>3. QED
      BY <1>8, <2>1, <2>2 DEF CapsRespected, TokensAccounted
  <1>10. QueueBounded'
    BY <1>2 DEF QueueBounded
  <1>11. NoIdleWaiter'
    <2>1. SUFFICES ASSUME NEW v \in pending
                   PROVE  ~HasHeadroom(RoleOf[v])'
      BY <1>2 DEF NoIdleWaiter
    <2>2. RoleOf[v] \in Roles
      BY <1>1 DEF pending
    <2>3. inFlight' >= inFlight /\ roleCounts'[RoleOf[v]] >= roleCounts[RoleOf[v]]
      BY <1>1, <2>2 DEF MintLease, TypeOK
    <2>4. ~HasHeadroom(RoleOf[v])
      BY DEF NoIdleWaiter
    <2>5. GlobalCap \in Nat /\ RoleCap(RoleOf[v]) \in Nat
      BY <2>2, RoleCapType, RateLimiterAssumption
    <2>6. /\ inFlight \in Nat /\ inFlight' \in Nat
          /\ roleCounts[RoleOf[v]] \in Nat /\ roleCounts'[RoleOf[v]] \in Nat
      BY <1>7, <2>2 DEF TypeOK
    <2>7. QED
      BY <2>3, <2>4, <2>5, <2>6 DEF HasHeadroom
  <1>12. QED
    BY <1>7, <1>8, <1>9, <1>10, <1>11
\* A step that moves a request between states that neither hold nor wait
\* keeps the invariant (rejections, and a fresh call).
LEMMA BystanderPreserves ==
    ASSUME IInv, NEW r \in Requests, NEW s \in Status \ {"held", "waiting"},
           status[r] \notin {"held", "waiting"},
           status' = [status EXCEPT ![r] = s],
           aborted' \in SUBSET Requests,
           UNCHANGED <<inFlight, roleCounts, ahead>>
    PROVE  IInv'
  <1> USE DEF IInv
  <1>1. pending' = pending /\ Held' = Held
    BY DEF pending, Held, TypeOK
  <1>2. \A role \in Roles : HeldBy(role)' = HeldBy(role)
    BY <1>1 DEF HeldBy
  <1>3. TypeOK'
    BY <1>1 DEF TypeOK
  <1>4. TokensAccounted' /\ CapsRespected'
    BY <1>1, <1>2 DEF TokensAccounted, CapsRespected
  <1>5. QueueBounded' /\ NoIdleWaiter'
    BY <1>1 DEF QueueBounded, NoIdleWaiter, HasHeadroom
  <1>6. QED
    BY <1>3, <1>4, <1>5

\* Parking a request that has no headroom keeps the invariant.
LEMMA ParkPreserves ==
    ASSUME IInv, NEW r \in Requests, AcquirePark(r)
    PROVE  IInv'
  <1> USE DEF IInv
  <1>1. pending' = pending \cup {r} /\ r \notin pending /\ Held' = Held
    BY DEF pending, Held, TypeOK, AcquirePark
  <1>2. \A role \in Roles : HeldBy(role)' = HeldBy(role)
    BY <1>1 DEF HeldBy
  <1>3. pending \subseteq Requests
    BY DEF pending
  <1>4. TypeOK'
    BY <1>1, <1>3 DEF TypeOK, AcquirePark, Status
  <1>5. TokensAccounted' /\ CapsRespected'
    BY <1>1, <1>2 DEF TokensAccounted, CapsRespected, AcquirePark
  <1>6. QueueBounded'
    <2>1. Cardinality(pending') = Cardinality(pending) + 1
      BY <1>1, <1>3, AddOne
    <2>2. QED
      BY <1>3, <2>1, RequestSets, RateLimiterAssumption DEF QueueBounded, AcquirePark
  <1>7. NoIdleWaiter'
    BY <1>1 DEF NoIdleWaiter, HasHeadroom, AcquirePark
  <1>8. QED
    BY <1>4, <1>5, <1>6, <1>7

\* Splicing a set of requests out of the queue leaves an ordered queue of the
\* others: the part of TypeOK that speaks of `ahead'.
LEMMA SpliceOrder ==
    ASSUME TypeOK, NEW S \in SUBSET pending
    PROVE  LET rest == pending \ S
           IN  /\ Splice(S) \in [Requests -> SUBSET Requests]
               /\ \A r \in Requests : Splice(S)[r] \subseteq rest \ {r}
               /\ \A r \in Requests \ rest : Splice(S)[r] = {}
               /\ \A r, v \in rest : r # v => (r \in Splice(S)[v] <=> v \notin Splice(S)[r])
  <1>1. pending \subseteq Requests
    BY DEF pending
  <1>2. Splice(S) \in [Requests -> SUBSET Requests]
    BY DEF TypeOK, Splice
  <1>3. \A r \in Requests : Splice(S)[r] \subseteq (pending \ S) \ {r}
    BY DEF TypeOK, Splice
  <1>4. \A r \in Requests \ (pending \ S) : Splice(S)[r] = {}
    BY DEF TypeOK, Splice
  <1>5. ASSUME NEW r \in pending \ S, NEW v \in pending \ S, r # v
        PROVE  r \in Splice(S)[v] <=> v \notin Splice(S)[r]
    <2>1. Splice(S)[v] = ahead[v] \ S /\ Splice(S)[r] = ahead[r] \ S
      BY <1>1, <1>5 DEF Splice
    <2>2. r \in ahead[v] <=> v \notin ahead[r]
      BY <1>5 DEF TypeOK
    <2>3. QED
      BY <2>1, <2>2, <1>5
  <1>6. QED
    BY <1>2, <1>3, <1>4, <1>5

\* An abort keeps the invariant: it takes a request out of the queue and
\* frees no token, so nobody else gains headroom.
LEMMA AbortPreserves ==
    ASSUME IInv, NEW r \in Requests, Abort(r)
    PROVE  IInv'
  <1> USE DEF IInv
  <1>1. pending' = pending \ {r} /\ Held' = Held
    BY DEF pending, Held, TypeOK, Abort
  <1>2. \A role \in Roles : HeldBy(role)' = HeldBy(role)
    BY <1>1 DEF HeldBy
  <1>3. TypeOK'
    <2>1. CASE r \in pending
      <3>1. ahead' = Splice({r})
        BY <2>1 DEF Abort
      <3>2. status' \in [Requests -> Status] /\ aborted' \in SUBSET Requests
        BY <2>1 DEF TypeOK, Abort, Status
      <3>3. QED
        BY <1>1, <2>1, <3>1, <3>2, SpliceOrder DEF TypeOK, Abort
    <2>2. CASE r \notin pending
      BY <1>1, <2>2 DEF TypeOK, Abort
    <2>3. QED
      BY <2>1, <2>2
  <1>4. TokensAccounted' /\ CapsRespected'
    BY <1>1, <1>2 DEF TokensAccounted, CapsRespected, Abort
  <1>5. QueueBounded'
    <2>1. pending \subseteq Requests /\ pending' \subseteq pending
      BY <1>1 DEF pending
    <2>2. Cardinality(pending') <= Cardinality(pending)
      BY <2>1, Monotone
    <2>3. QED
      BY <2>1, <2>2, RequestSets, RateLimiterAssumption DEF QueueBounded
  <1>6. NoIdleWaiter'
    BY <1>1 DEF NoIdleWaiter, HasHeadroom, Abort
  <1>7. QED
    BY <1>3, <1>4, <1>5, <1>6
\* The first release of a lease keeps the invariant.  W is what drainWaiters
\* woke; by WakesAtMostOne it is empty or a single request.
LEMMA ReleasePreserves ==
    ASSUME IInv, NEW r \in Requests, ReleaseFirst(r)
    PROVE  IInv'
  <1> USE DEF IInv
  <1>1. PICK W \in SUBSET pending :
          /\ DrainWakes(W, inFlight - 1, Decremented(RoleOf[r]))
          /\ inFlight' = inFlight - 1 + Cardinality(W)
          /\ roleCounts' = [role \in Roles |->
                 Decremented(RoleOf[r])[role] + Cardinality({v \in W : RoleOf[v] = role})]
          /\ ahead' = Splice(W)
          /\ status' = [v \in Requests |->
                 IF v \in W THEN "held" ELSE IF v = r THEN "released" ELSE status[v]]
    BY DEF ReleaseFirst
  <1>2. status[r] = "held" /\ aborted' = aborted
    BY DEF ReleaseFirst
  <1>3. /\ RoleOf[r] \in Roles /\ inFlight >= 1 /\ roleCounts[RoleOf[r]] >= 1
        /\ Decremented(RoleOf[r]) = [roleCounts EXCEPT ![RoleOf[r]] = @ - 1]
        /\ inFlight \in Nat /\ roleCounts \in [Roles -> Nat]
    BY <1>2, HolderIsCounted DEF TypeOK
  <1>4. W = {} \/ \E w \in pending : W = {w}
    BY <1>1, <1>2, WakesAtMostOne
  <1>5. pending \subseteq Requests /\ W \subseteq Requests /\ Held \subseteq Requests
    BY DEF pending, Held
  <1>6. r \in Held /\ r \notin W /\ W \cap Held = {}
    BY <1>2 DEF pending, Held
  <1>7. pending' = pending \ W
    BY <1>1, <1>2, <1>6 DEF pending
  <1>8. Held' = (Held \ {r}) \cup W
    BY <1>1, <1>5, <1>6 DEF Held
  <1>9. TypeOK'
    <2>1. inFlight' \in Nat
      BY <1>1, <1>3, <1>5, RequestSets
    <2>2. roleCounts' \in [Roles -> Nat]
      <3>1. ASSUME NEW role \in Roles
            PROVE  roleCounts'[role] \in Nat
        <4>1. Cardinality({v \in W : RoleOf[v] = role}) \in Nat
          BY <1>5, RequestSets
        <4>2. Decremented(RoleOf[r])[role] \in Nat
          BY <1>3
        <4>3. QED
          BY <1>1, <4>1, <4>2
      <3>2. QED
        BY <1>1, <3>1
    <2>3. status' \in [Requests -> Status]
      BY <1>1 DEF TypeOK, Status
    <2>4. QED
      BY <1>1, <1>2, <1>7, <2>1, <2>2, <2>3, SpliceOrder DEF TypeOK
  <1>10. TokensAccounted'
    <2>1. Cardinality(Held') = Cardinality(Held) - 1 + Cardinality(W)
      <3>1. Cardinality(Held \ {r}) = Cardinality(Held) - 1
        BY <1>5, <1>6, RemoveOne
      <3>2. CASE W = {}
        BY <1>8, <3>1, <3>2, <1>5, RequestSets, FS_EmptySet
      <3>3. ASSUME NEW w \in pending, W = {w}
            PROVE  Cardinality(Held') = Cardinality(Held) - 1 + Cardinality(W)
        <4>1. Cardinality((Held \ {r}) \cup {w}) = Cardinality(Held \ {r}) + 1
          BY <1>5, <1>6, <3>3, AddOne
        <4>2. Cardinality(W) = 1
          BY <3>3, FS_Singleton
        <4>3. QED
          BY <1>8, <3>1, <3>3, <4>1, <4>2
      <3>4. QED
        BY <1>4, <3>2, <3>3
    <2>2. ASSUME NEW role \in Roles
          PROVE  roleCounts'[role] = Cardinality(HeldBy(role)')
      <3> DEFINE WR == {v \in W : RoleOf[v] = role}
                 HR == HeldBy(role)
      <3>1. HeldBy(role)' = (HR \ {r}) \cup WR
        BY <1>8 DEF HeldBy
      <3>2. HR \subseteq Requests /\ WR \subseteq Requests /\ WR \cap HR = {}
        BY <1>5, <1>6 DEF HeldBy
      <3>3. r \in HR <=> role = RoleOf[r]
        BY <1>6 DEF HeldBy
      <3>4. Cardinality(HR \ {r}) = IF role = RoleOf[r] THEN Cardinality(HR) - 1
                                                       ELSE Cardinality(HR)
        BY <3>2, <3>3, RequestSets, FS_RemoveElement
      <3>5. Cardinality(HR \ {r}) = Decremented(RoleOf[r])[role]
        BY <1>3, <3>4 DEF TokensAccounted
      <3>6. Cardinality((HR \ {r}) \cup WR) = Cardinality(HR \ {r}) + Cardinality(WR)
        <4>0. HR \ {r} \subseteq Requests
          BY <3>2
        <4>1. CASE WR = {}
          <5>1. (HR \ {r}) \cup WR = HR \ {r}
            BY <4>1
          <5>2. Cardinality(WR) = 0
            BY <4>1, FS_EmptySet, Zenon
          <5>3. Cardinality(HR \ {r}) \in Nat
            BY <4>0, RequestSets
          <5>4. QED
            BY <5>1, <5>2, <5>3
        <4>2. ASSUME NEW w \in pending, WR = {w}
              PROVE  Cardinality((HR \ {r}) \cup WR) = Cardinality(HR \ {r}) + Cardinality(WR)
          <5>1. w \in Requests \ (HR \ {r})
            BY <3>2, <4>2
          <5>2. Cardinality((HR \ {r}) \cup {w}) = Cardinality(HR \ {r}) + 1
            BY <4>0, <5>1, AddOne
          <5>3. Cardinality(WR) = 1
            BY <4>2, FS_Singleton
          <5>4. QED
            BY <4>2, <5>2, <5>3
        <4>3. WR = {} \/ \E w \in pending : w \in W /\ WR = {w} /\ RoleOf[w] = role
          <5>1. CASE W = {}
            BY <5>1
          <5>2. ASSUME NEW w \in pending, W = {w}
                PROVE  WR = {} \/ (w \in W /\ WR = {w} /\ RoleOf[w] = role)
            <6>1. CASE RoleOf[w] = role
              BY <5>2, <6>1
            <6>2. CASE RoleOf[w] # role
              BY <5>2, <6>2
            <6>3. QED
              BY <6>1, <6>2
          <5>3. QED
            BY <1>4, <5>1, <5>2
        <4>4. QED
          BY <4>1, <4>2, <4>3
      <3>7. QED
        BY <1>1, <3>1, <3>5, <3>6
    <2>3. QED
      BY <1>1, <2>1, <2>2 DEF TokensAccounted  <1>11. CapsRespected'
    <2>1. inFlight' <= GlobalCap
      <3>1. inFlight <= GlobalCap
        BY DEF CapsRespected, TokensAccounted
      <3>2. Cardinality(W) <= 1 /\ Cardinality(W) \in Nat
        BY <1>4, FS_Singleton, FS_EmptySet
      <3>3. QED
        BY <1>1, <1>3, <3>1, <3>2, RateLimiterAssumption
    <2>2. ASSUME NEW role \in Roles
          PROVE  roleCounts'[role] <= RoleCap(role)
      <3> DEFINE WR == {v \in W : RoleOf[v] = role}
                 dec == Decremented(RoleOf[r])[role]
      <3>1. roleCounts'[role] = dec + Cardinality(WR)
        BY <1>1
      <3>2. dec \in Nat /\ dec <= roleCounts[role] /\ roleCounts[role] <= RoleCap(role)
        BY <1>3 DEF CapsRespected, TokensAccounted
      <3>3. RoleCap(role) \in Nat /\ roleCounts[role] \in Nat
        BY <1>3, RoleCapType
      <3>4. CASE WR = {}
        <4>1. Cardinality(WR) = 0
          BY <3>4, FS_EmptySet, Zenon
        <4>2. QED
          BY <3>1, <3>2, <3>3, <4>1
      <3>5. ASSUME NEW w \in W, WR = {w}, RoleOf[w] = role
            PROVE  roleCounts'[role] <= RoleCap(role)
        <4> DEFINE same == {x \in ahead[w] \cap W : RoleOf[x] = RoleOf[w]}
        <4>1. dec + Cardinality(same) < RoleCap(role)
          BY <1>1, <3>5 DEF DrainWakes
        <4>2. Cardinality(same) \in Nat
          BY <1>5, RequestSets
        <4>3. Cardinality(WR) = 1
          BY <3>5, FS_Singleton
        <4>4. QED
          BY <3>1, <3>2, <3>3, <4>1, <4>2, <4>3
      <3>6. WR = {} \/ \E w \in pending : w \in W /\ WR = {w} /\ RoleOf[w] = role
        <4>1. CASE W = {}
          BY <4>1
        <4>2. ASSUME NEW w \in pending, W = {w}
              PROVE  WR = {} \/ (w \in W /\ WR = {w} /\ RoleOf[w] = role)
          <5>1. CASE RoleOf[w] = role
            BY <4>2, <5>1
          <5>2. CASE RoleOf[w] # role
            BY <4>2, <5>2
          <5>3. QED
            BY <5>1, <5>2
        <4>3. QED
          BY <1>4, <4>1, <4>2
      <3>7. QED
        BY <3>4, <3>5, <3>6
    <2>3. QED
      BY <1>10, <2>1, <2>2 DEF CapsRespected, TokensAccounted
  <1>12. QueueBounded'
    <2>1. Cardinality(pending') <= Cardinality(pending)
      BY <1>5, <1>7, Monotone
    <2>2. Cardinality(pending) \in Nat /\ Cardinality(pending') \in Nat
      BY <1>5, <1>7, RequestSets
    <2>3. QED
      BY <2>1, <2>2, RateLimiterAssumption DEF QueueBounded
  <1>13. NoIdleWaiter'
    <2>1. SUFFICES ASSUME NEW v \in pending \ W
                   PROVE  ~HasHeadroom(RoleOf[v])'
      BY <1>7 DEF NoIdleWaiter
    <2> DEFINE role == RoleOf[v]
               before == ahead[v] \cap W
               same == {x \in before : RoleOf[x] = role}
               WR == {x \in W : RoleOf[x] = role}
               dec == Decremented(RoleOf[r])[role]
    <2>2. ~(/\ inFlight - 1 + Cardinality(before) < GlobalCap
            /\ dec + Cardinality(same) < RoleCap(role))
      BY <1>1, <2>1 DEF DrainWakes
    <2>3. Cardinality(before) <= Cardinality(W) /\ Cardinality(same) <= Cardinality(WR)
      <3>1. before \subseteq W /\ same \subseteq WR /\ WR \subseteq Requests
        BY <1>5
      <3>2. QED
        BY <1>5, <3>1, Monotone
    <2>4. role \in Roles
      BY <1>5, <2>1, RateLimiterAssumption
    <2>5. roleCounts'[role] = dec + Cardinality(WR)
      BY <1>1, <2>4
    <2>6. /\ GlobalCap \in Nat /\ RoleCap(role) \in Nat /\ dec \in Nat
          /\ Cardinality(before) \in Nat /\ Cardinality(W) \in Nat
          /\ Cardinality(same) \in Nat /\ Cardinality(WR) \in Nat
      <3>1. dec \in Nat
        BY <1>3, <2>4
      <3>2. before \subseteq Requests /\ same \subseteq Requests /\ WR \subseteq Requests
        BY <1>5
      <3>3. QED
        BY <1>5, <2>4, <3>1, <3>2, RequestSets, RoleCapType, RateLimiterAssumption
    <2>7. ~(inFlight' < GlobalCap /\ roleCounts'[role] < RoleCap(role))
      BY <1>1, <1>3, <2>2, <2>3, <2>5, <2>6
    <2>8. QED
      BY <2>7 DEF HasHeadroom
  <1>14. QED
    BY <1>9, <1>10, <1>11, <1>12, <1>13

\* The initial state satisfies the invariant: nothing is out, nobody waits.
LEMMA InitIInv == Init => IInv
  <1> SUFFICES ASSUME Init PROVE IInv
    OBVIOUS
  <1>1. pending = {} /\ Held = {}
    BY DEF Init, pending, Held
  <1>2. \A role \in Roles : HeldBy(role) = {}
    BY <1>1 DEF HeldBy
  <1>3. TypeOK
    BY <1>1 DEF Init, TypeOK, Status
  <1>4. TokensAccounted
    BY <1>1, <1>2, FS_EmptySet DEF TokensAccounted, Init
  <1>5. CapsRespected
    BY <1>1, <1>2, FS_EmptySet, RoleCapType, RateLimiterAssumption DEF CapsRespected
  <1>6. QueueBounded /\ NoIdleWaiter
    BY <1>1, FS_EmptySet, RateLimiterAssumption DEF QueueBounded, NoIdleWaiter
  <1>7. QED
    BY <1>3, <1>4, <1>5, <1>6 DEF IInv

\* Every step of the limiter keeps the invariant.
LEMMA NextIInv == IInv /\ [Next]_limiterVars => IInv'
  <1> SUFFICES ASSUME IInv, [Next]_limiterVars PROVE IInv'
    OBVIOUS
  <1>1. ASSUME UNCHANGED limiterVars PROVE IInv'
    BY <1>1 DEF IInv, limiterVars, TypeOK, TokensAccounted, CapsRespected, QueueBounded,
                NoIdleWaiter, HasHeadroom, pending, Held, HeldBy
  <1>2. ASSUME NEW r \in Requests, TryAcquire(r) PROVE IInv'
    BY <1>2, MintPreserves DEF TryAcquire
  <1>3. ASSUME NEW r \in Requests, Acquire(r) PROVE IInv'
    <2>1. CASE AcquireAborted(r)
      BY <2>1, BystanderPreserves DEF AcquireAborted, Status, IInv, TypeOK
    <2>2. CASE AcquireNow(r)
      BY <2>2, MintPreserves DEF AcquireNow
    <2>3. CASE AcquireOverflow(r)
      BY <2>3, BystanderPreserves DEF AcquireOverflow, Status, IInv, TypeOK
    <2>4. CASE AcquirePark(r)
      BY <2>4, ParkPreserves
    <2>5. QED
      BY <1>3, <2>1, <2>2, <2>3, <2>4 DEF Acquire
  <1>4. ASSUME NEW r \in Requests, Release(r) PROVE IInv'
    BY <1>1, <1>4, ReleasePreserves DEF Release, ReleaseAgain
  <1>5. ASSUME NEW r \in Requests, Abort(r) PROVE IInv'
    BY <1>5, AbortPreserves
  <1>6. ASSUME NEW r \in Requests, CallAgain(r) PROVE IInv'
    BY <1>6, BystanderPreserves DEF CallAgain, Status, IInv, TypeOK
  <1>7. QED
    BY <1>1, <1>2, <1>3, <1>4, <1>5, <1>6 DEF Next

\* The inductive invariant holds throughout every behaviour.
THEOREM Invariance == Spec => []IInv
  BY InitIInv, NextIInv, PTL DEF Spec

\* Type correctness, and that `ahead' is always a total order: the array
\* `pending' is never corrupted by splices and aborts.
THEOREM TypeCorrect == Spec => []TypeOK
  <1>1. IInv => TypeOK
    BY DEF IInv
  <1>2. QED
    BY <1>1, Invariance, PTL

\* The caps and the queue limit are never exceeded and the counters never drift,
\* for every number of callers, roles and tokens.
THEOREM LimitsCorrect == Spec => [](LimitsRespected /\ TokensAccounted)
  <1>1. IInv => LimitsRespected /\ TokensAccounted
    BY DEF IInv, LimitsRespected
  <1>2. QED
    BY <1>1, Invariance, PTL

\* The limiter is work-conserving: no wake-up is ever lost.
THEOREM NoLostWakeup == Spec => []NoIdleWaiter
  <1>1. IInv => NoIdleWaiter
    BY DEF IInv
  <1>2. QED
    BY <1>1, Invariance, PTL

\* drainWaiters never wakes two callers in one release.
THEOREM SingleWake == Spec => AtMostOneWake
  <1> DEFINE One == \A r, v \in pending : status'[r] = "held" /\ status'[v] = "held" => r = v
  <1>1. IInv /\ [Next]_limiterVars => [One]_limiterVars
    <2> SUFFICES ASSUME IInv, Next, NEW u \in pending, NEW v \in pending,
                        status'[u] = "held", status'[v] = "held"
                 PROVE  u = v
      BY DEF One
    <2>0. /\ u \in Requests /\ v \in Requests
          /\ status[u] = "waiting" /\ status[v] = "waiting"
          /\ status \in [Requests -> Status]
      BY DEF pending, IInv, TypeOK
    <2>1. PICK r \in Requests :
            TryAcquire(r) \/ Acquire(r) \/ Release(r) \/ Abort(r) \/ CallAgain(r)
      BY DEF Next
    <2>2. CASE ReleaseFirst(r)
      <3>1. PICK W \in SUBSET pending :
              /\ DrainWakes(W, inFlight - 1, Decremented(RoleOf[r]))
              /\ status' = [x \in Requests |->
                     IF x \in W THEN "held" ELSE IF x = r THEN "released" ELSE status[x]]
        BY <2>2 DEF ReleaseFirst
      <3>2. W = {} \/ \E w \in pending : W = {w}
        BY <2>2, <3>1, WakesAtMostOne DEF ReleaseFirst, IInv
      <3>3. u \in W /\ v \in W
        BY <2>0, <3>1
      <3>4. QED
        BY <3>2, <3>3
    <2>3. CASE TryAcquire(r)
      BY <2>0, <2>3 DEF TryAcquire, MintLease
    <2>4. CASE Acquire(r)
      BY <2>0, <2>4 DEF Acquire, AcquireAborted, AcquireNow, AcquireOverflow, AcquirePark, MintLease
    <2>5. CASE ReleaseAgain(r) \/ Abort(r) \/ CallAgain(r)
      BY <2>0, <2>5 DEF ReleaseAgain, limiterVars, Abort, CallAgain
    <2>6. QED
      BY <2>1, <2>2, <2>3, <2>4, <2>5 DEF Release
  <1>2. QED
    BY <1>1, Invariance, PTL DEF Spec, AtMostOneWake

\* drainWaiters scans `pending' from its head: of two waiters of one role it does not
\* wake the later one and leave the earlier one parked.
LEMMA EarlierIsWoken ==
    ASSUME IInv, NEW r \in Requests, status[r] = "held",
           NEW W \in SUBSET pending,
           DrainWakes(W, inFlight - 1, Decremented(RoleOf[r])),
           NEW v \in W, NEW u \in pending, RoleOf[v] = RoleOf[u], u # v, v \notin ahead[u]
    PROVE  u \in W
  <1> DEFINE total == inFlight - 1
             counts == Decremented(RoleOf[r])[RoleOf[u]]
             same(x) == {y \in ahead[x] \cap W : RoleOf[y] = RoleOf[x]}
  <1>1. W = {v}
    BY WakesAtMostOne DEF IInv
  <1>2. u \notin ahead[u] /\ v \notin ahead[v]
    BY DEF IInv, TypeOK, pending
  <1>3. ahead[u] \cap W = {} /\ ahead[v] \cap W = {}
    BY <1>1, <1>2
  <1>4. Cardinality(ahead[u] \cap W) = 0 /\ Cardinality(ahead[v] \cap W) = 0
    BY <1>3, FS_EmptySet
  <1>5. Cardinality(same(u)) = 0 /\ Cardinality(same(v)) = 0
    <2>1. same(u) = {} /\ same(v) = {}
      BY <1>3
    <2>2. QED
      BY <2>1, FS_EmptySet
  <1>6. total + 0 < GlobalCap /\ counts + 0 < RoleCap(RoleOf[u])
    BY <1>4, <1>5 DEF DrainWakes
  <1>7. QED
    BY <1>4, <1>5, <1>6 DEF DrainWakes

\* acquire, tryAcquire and drainWaiters: no caller gets a lease before a caller of its role
\* that was parked before it, or that is parked at all when it is not.
THEOREM FirstComeFirstServed == Spec => FifoPerRole
  <1> DEFINE Fifo == \A r, v \in Requests :
               /\ r \in pending
               /\ RoleOf[v] = RoleOf[r]
               /\ v \notin Held
               /\ v \notin ahead[r]
               /\ r # v
               /\ status'[v] = "held"
               => status'[r] # "waiting"
  <1>1. IInv /\ [Next]_limiterVars => [Fifo]_limiterVars
    <2> SUFFICES ASSUME IInv, Next, NEW u \in Requests, NEW v \in Requests, u \in pending,
                        RoleOf[v] = RoleOf[u], v \notin Held, v \notin ahead[u], u # v,
                        status'[v] = "held"
                 PROVE  status'[u] # "waiting"
      BY DEF Fifo
    <2>0. status \in [Requests -> Status] /\ status[v] # "held"
      BY DEF IInv, TypeOK, Held
    <2>1. ~HasHeadroom(RoleOf[v])
      BY DEF IInv, NoIdleWaiter
    <2>2. PICK r \in Requests :
            TryAcquire(r) \/ Acquire(r) \/ Release(r) \/ Abort(r) \/ CallAgain(r)
      BY DEF Next
    <2>3. CASE ReleaseFirst(r)
      <3>1. PICK W \in SUBSET pending :
              /\ DrainWakes(W, inFlight - 1, Decremented(RoleOf[r]))
              /\ status' = [x \in Requests |->
                     IF x \in W THEN "held" ELSE IF x = r THEN "released" ELSE status[x]]
        BY <2>3 DEF ReleaseFirst
      <3>2. v \in W
        BY <2>0, <3>1
      <3>3. u \in W
        BY <2>3, <3>1, <3>2, EarlierIsWoken DEF ReleaseFirst
      <3>4. QED
        BY <3>1, <3>3
    <2>4. CASE TryAcquire(r)
      BY <2>0, <2>1, <2>4 DEF TryAcquire, MintLease
    <2>5. CASE Acquire(r)
      BY <2>0, <2>1, <2>5 DEF Acquire, AcquireAborted, AcquireNow, AcquireOverflow, AcquirePark, MintLease
    <2>6. CASE ReleaseAgain(r) \/ Abort(r) \/ CallAgain(r)
      BY <2>0, <2>6 DEF ReleaseAgain, limiterVars, Abort, CallAgain
    <2>7. QED
      BY <2>2, <2>3, <2>4, <2>5, <2>6 DEF Release
  <1>2. QED
    BY <1>1, Invariance, PTL DEF Spec, FifoPerRole
=============================================================================
