---------------------------- MODULE RateLimiter ----------------------------
(***************************************************************************)
(* The pickup rate limiter of packages/linear/integration/src/             *)
(* rate-limiter.ts: a counting semaphore with a global cap, one cap per    *)
(* role and a bounded FIFO of parked callers.                              *)
(*                                                                         *)
(* A request is one caller of tryAcquire / acquire; "who" it is and when   *)
(* the lease was minted are not modelled.  The limiter is synchronous      *)
(* JavaScript, so every call is one atomic step.  The array `pending' is   *)
(* represented by the set of parked requests together with, for each of    *)
(* them, the set of requests in front of it in the array.                  *)
(***************************************************************************)
EXTENDS Integers, FiniteSets

CONSTANTS
    Requests,     \* callers of the limiter
    Roles,        \* role names a caller may ask for
    RoleOf,       \* the role each request asks for
    GlobalCap,    \* opts.globalCap
    PerRoleCap,   \* opts.perRoleCap: a function on some of the roles
    QueueCapacity \* opts.queueCapacity

\* The eager validation of createRateLimiter: anything else throws TypeError.
ASSUME RateLimiterAssumption ==
    /\ IsFiniteSet(Requests)
    /\ RoleOf \in [Requests -> Roles]
    /\ GlobalCap \in Nat \ {0}
    /\ DOMAIN PerRoleCap \subseteq Roles
    /\ \A role \in DOMAIN PerRoleCap : PerRoleCap[role] \in Nat \ {0}
    /\ QueueCapacity \in Nat

VARIABLES
    inFlight,   \* tokens checked out over all roles
    roleCounts, \* tokens checked out per role (an absent Map entry is 0)
    ahead,      \* for a parked request, those before it in `pending'
    status,     \* where the call of each request stands
    aborted     \* requests whose AbortSignal has fired

limiterVars == <<inFlight, roleCounts, ahead, status, aborted>>

Status ==
    {"idle",       \* not called
     "waiting",    \* parked in `pending'
     "held",       \* owns a lease that was not released
     "released",   \* owns a lease whose `released' flag is set
     "overflowed", \* rejected with RateLimiterOverflowError
     "rejected"}   \* rejected with the signal's reason

pending == {r \in Requests : status[r] = "waiting"}

Held == {r \in Requests : status[r] = "held"}

HeldBy(role) == {r \in Held : RoleOf[r] = role}

RoleCap(role) == IF role \in DOMAIN PerRoleCap THEN PerRoleCap[role] ELSE GlobalCap

\* Mutant: the per-role cap is tested with <= instead of <.
HasHeadroomOffByOne(role) == inFlight < GlobalCap /\ roleCounts[role] <= RoleCap(role)

HasHeadroom(role) == inFlight < GlobalCap /\ roleCounts[role] < RoleCap(role)

Init ==
    /\ inFlight = 0
    /\ roleCounts = [role \in Roles |-> 0]
    /\ ahead = [r \in Requests |-> {}]
    /\ status = [r \in Requests |-> "idle"]
    /\ aborted = {}

MintLease(r) ==
    /\ inFlight' = inFlight + 1
    /\ roleCounts' = [roleCounts EXCEPT ![RoleOf[r]] = @ + 1]
    /\ status' = [status EXCEPT ![r] = "held"]

\* tryAcquire; the `return null' outcome changes nothing.
TryAcquire(r) ==
    /\ status[r] = "idle"
    /\ HasHeadroom(RoleOf[r])
    /\ MintLease(r)
    /\ UNCHANGED <<ahead, aborted>>

\* The four outcomes of acquire, in the order the code tests for them.
AcquireAborted(r) ==
    /\ status[r] = "idle"
    /\ r \in aborted
    /\ status' = [status EXCEPT ![r] = "rejected"]
    /\ UNCHANGED <<inFlight, roleCounts, ahead, aborted>>

AcquireNow(r) ==
    /\ status[r] = "idle"
    /\ r \notin aborted
    /\ HasHeadroom(RoleOf[r])
    /\ MintLease(r)
    /\ UNCHANGED <<ahead, aborted>>

AcquireOverflow(r) ==
    /\ status[r] = "idle"
    /\ r \notin aborted
    /\ ~HasHeadroom(RoleOf[r])
    /\ Cardinality(pending) >= QueueCapacity
    /\ status' = [status EXCEPT ![r] = "overflowed"]
    /\ UNCHANGED <<inFlight, roleCounts, ahead, aborted>>

AcquirePark(r) ==
    /\ status[r] = "idle"
    /\ r \notin aborted
    /\ ~HasHeadroom(RoleOf[r])
    /\ Cardinality(pending) < QueueCapacity
    /\ status' = [status EXCEPT ![r] = "waiting"]
    /\ ahead' = [ahead EXCEPT ![r] = pending]
    /\ UNCHANGED <<inFlight, roleCounts, aborted>>

Acquire(r) ==
    \/ AcquireAborted(r)
    \/ AcquireNow(r)
    \/ AcquireOverflow(r)
    \/ AcquirePark(r)

\* `pending' once the requests of S have been spliced out of it.
Splice(S) == [r \in Requests |-> IF r \in S THEN {} ELSE ahead[r] \ S]

\* Mutant: the queue is scanned before the global token is given back.
DrainWakesEarly(W, total, counts) ==
    \A r \in pending :
        r \in W <=>
            /\ total + 1 + Cardinality(ahead[r] \cap W) < GlobalCap
            /\ counts[RoleOf[r]]
                   + Cardinality({v \in ahead[r] \cap W : RoleOf[v] = RoleOf[r]})
                 < RoleCap(RoleOf[r])

\* Mutant: the headroom is not tested again after each wake-up.
DrainWakesAll(W, total, counts) ==
    \A r \in pending :
        r \in W <=> total < GlobalCap /\ counts[RoleOf[r]] < RoleCap(RoleOf[r])

\* Mutant: the queue is served from its tail.
DrainWakesNewest(W, total, counts) ==
    \A r \in pending :
        LET behind == {v \in pending : r \in ahead[v]} IN
        r \in W <=>
            /\ total + Cardinality(behind \cap W) < GlobalCap
            /\ counts[RoleOf[r]]
                   + Cardinality({v \in behind \cap W : RoleOf[v] = RoleOf[r]})
                 < RoleCap(RoleOf[r])

(***************************************************************************)
(* drainWaiters, started with total tokens out and counts per role.  The   *)
(* loop takes the first parked request whose role has headroom, mints, and *)
(* starts over from the head.  Minting never creates headroom, so W is     *)
(* what the loop wakes exactly when each parked request is in W iff both   *)
(* caps leave room for it after the requests of W in front of it.          *)
(***************************************************************************)
DrainWakes(W, total, counts) ==
    \A r \in pending :
        r \in W <=>
            /\ total + Cardinality(ahead[r] \cap W) < GlobalCap
            /\ counts[RoleOf[r]]
                   + Cardinality({v \in ahead[r] \cap W : RoleOf[v] = RoleOf[r]})
                 < RoleCap(RoleOf[r])

\* Tokens of a role after release; an entry that would be <= 0 is deleted.
Decremented(role) ==
    [roleCounts EXCEPT ![role] = IF roleCounts[role] > 1 THEN roleCounts[role] - 1 ELSE 0]

\* lease.release() with `released' still false, drainWaiters included.
ReleaseFirst(r) ==
    /\ status[r] = "held"
    /\ \E W \in SUBSET pending :
          /\ DrainWakes(W, inFlight - 1, Decremented(RoleOf[r]))
          /\ inFlight' = inFlight - 1 + Cardinality(W)
          /\ roleCounts' = [role \in Roles |->
                 Decremented(RoleOf[r])[role] + Cardinality({v \in W : RoleOf[v] = role})]
          /\ ahead' = Splice(W)
          /\ status' = [v \in Requests |->
                 IF v \in W THEN "held" ELSE IF v = r THEN "released" ELSE status[v]]
    /\ UNCHANGED aborted

\* A second release() of the same lease returns at the `released' test.
ReleaseAgain(r) ==
    /\ status[r] = "released"
    /\ UNCHANGED limiterVars

Release(r) == ReleaseFirst(r) \/ ReleaseAgain(r)

\* The caller's AbortSignal fires: onAbort if the request is parked.
Abort(r) ==
    /\ r \notin aborted
    /\ aborted' = aborted \cup {r}
    /\ IF r \in pending
         THEN /\ status' = [status EXCEPT ![r] = "rejected"]
              /\ ahead' = Splice({r})
         ELSE UNCHANGED <<status, ahead>>
    /\ UNCHANGED <<inFlight, roleCounts>>

\* Environment: the call is over and the caller makes a fresh one, with a
\* fresh signal.
CallAgain(r) ==
    /\ status[r] \in {"released", "overflowed", "rejected"}
    /\ status' = [status EXCEPT ![r] = "idle"]
    /\ aborted' = aborted \ {r}
    /\ UNCHANGED <<inFlight, roleCounts, ahead>>

Next ==
    \E r \in Requests :
        \/ TryAcquire(r)
        \/ Acquire(r)
        \/ Release(r)
        \/ Abort(r)
        \/ CallAgain(r)

Spec == Init /\ [][Next]_limiterVars

\* Every lease is eventually released: handlePickup does so in a `finally'.
Fairness == \A r \in Requests : WF_limiterVars(ReleaseFirst(r))

FairSpec == Spec /\ Fairness
-----------------------------------------------------------------------------

\* Every variable keeps its shape, and `ahead' is a strict total order of the
\* parked requests, empty for everybody else: the array `pending'.
TypeOK ==
    /\ inFlight \in Nat
    /\ roleCounts \in [Roles -> Nat]
    /\ status \in [Requests -> Status]
    /\ aborted \in SUBSET Requests
    /\ ahead \in [Requests -> SUBSET Requests]
    /\ \A r \in Requests : ahead[r] \subseteq pending \ {r}
    /\ \A r \in Requests \ pending : ahead[r] = {}
    /\ \A r, v \in pending : r # v => (r \in ahead[v] <=> v \notin ahead[r])

\* The counters of the limiter count exactly the leases that are out: no
\* token is lost or returned twice, whatever releases, repeated releases and
\* aborts happened (inFlight and roleCounts in mintLease and release).
TokensAccounted ==
    /\ inFlight = Cardinality(Held)
    /\ \A role \in Roles : roleCounts[role] = Cardinality(HeldBy(role))

\* Neither cap is ever exceeded by the leases that are really out, including
\* those minted by drainWaiters inside a release.
CapsRespected ==
    /\ Cardinality(Held) <= GlobalCap
    /\ \A role \in Roles : Cardinality(HeldBy(role)) <= RoleCap(role)

\* acquire's documented bound: never more than queueCapacity parked callers.
QueueBounded == Cardinality(pending) <= QueueCapacity

\* Every configured limit of rate-limiter.ts at once, which no interleaving of
\* acquire, release and abort may exceed.
LimitsRespected == CapsRespected /\ QueueBounded

\* No lost wake-up: a request is parked only while one of its two caps is
\* saturated.  release relies on it, because it is the only caller of
\* drainWaiters: an abort or a new acquire never scans the queue.
NoIdleWaiter == \A r \in pending : ~HasHeadroom(RoleOf[r])

\* Requests of one role get their leases in the order in which they were
\* parked, and no later call (tryAcquire and acquire look at the caps, never
\* at `pending') overtakes a parked one of its role.
FifoPerRole ==
    [][\A r, v \in Requests :
          /\ r \in pending
          /\ RoleOf[v] = RoleOf[r]
          /\ v \notin Held
          /\ v \notin ahead[r]
          /\ r # v
          /\ status'[v] = "held"
          => status'[r] # "waiting"]_limiterVars

\* A release wakes at most one parked request, although drainWaiters loops
\* and its comment expects several: each parked request lacks one token.
AtMostOneWake ==
    [][\A r, v \in pending :
          status'[r] = "held" /\ status'[v] = "held" => r = v]_limiterVars

\* A parked request does not wait for ever when leases are released.
WaiterServed == \A r \in Requests : status[r] = "waiting" ~> status[r] # "waiting"

\* acquire and drain serve their callers: a token is held for exactly the
\* callers that have one, a wake never overtakes an earlier waiter of its role
\* (waiters is scanned from its head), and a parked caller whose tokens come
\* back does not wait for ever.
LimiterServes == []TokensAccounted /\ FifoPerRole /\ WaiterServed
=============================================================================
