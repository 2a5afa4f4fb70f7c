------------------------------- MODULE Leases -------------------------------
(***************************************************************************)
(* Advisory file leases: packages/mailbox/src/leases.ts and pre-commit.ts  *)
(* over the table of packages/persistence/src/queries/leases.ts.           *)
(*                                                                         *)
(* LeaseRuns are processes of their own on one SQLite database.  Date.now() is  *)
(* read before the transaction (acquire) or before a git child process     *)
(* (reclaim, pre-commit), so each of these is two or three steps and works *)
(* with the time it read first.  Of a glob the table knows the paths it    *)
(* covers and the globs it overlaps; Globs models how the two are          *)
(* computed, and shows that they need not agree.  Row ids are never used   *)
(* again.                                                                  *)
(***************************************************************************)
EXTENDS Integers, FiniteSets

CONSTANTS
    LeaseRuns,
    Agents,
    AgentOf,  \* the agent a run acts for; several runs may act for one
    Paths,
    Globs,    \* the globs runs ask for
    Covers,   \* globMatchesPath: the paths a glob covers
    Overlap,  \* globsOverlap: the pairs of globs it refuses
    LeaseIds, \* bound: leases acquired in one behaviour
    TTL,      \* ttlMs
    MaxClock, \* bound on Date.now()
    NoRow, Idle

ASSUME LeasesAssumption ==
    /\ AgentOf \in [LeaseRuns -> Agents]
    /\ Covers \in [Globs -> SUBSET Paths]
    /\ \A g, h \in Globs : <<g, h>> \in Overlap => <<h, g>> \in Overlap
    /\ TTL \in Nat \ {0}
    /\ MaxClock \in Nat
    /\ NoRow \notin [run : LeaseRuns, glob : Globs, expires : Nat]

VARIABLES
    clock,    \* Date.now()
    rows,     \* the leases table
    used,     \* ids newLeaseId has returned
    op,       \* the lease operation each run is in the middle of
    dirty,    \* uncommitted changes in the worktree of each run
    worktrees,\* runs whose worktree exists
    givenUp   \* changed paths whose lease the run itself has released

leaseVars == <<clock, rows, used, op, dirty, worktrees, givenUp>>

Row == [run : LeaseRuns, glob : Globs, expires : Nat]

AcquireOp == [kind : {"acquire"}, now : Nat, glob : Globs]

\* row: the row as it was read.
ReclaimOp == [kind : {"status", "clean", "dirty"}, id : LeaseIds, row : Row]

GuardOp == [kind : {"diff"}, now : Nat]

Exists(id) == rows[id] # NoRow

\* The rows listActive returns for the time now.
Active(now) == {id \in LeaseIds : Exists(id) /\ rows[id].expires > now}

\* Symmetric: Globs checks it of the algorithm.
globsOverlap(g, h) == <<g, h>> \in Overlap

newLeaseId == CHOOSE id \in LeaseIds : id \notin used

LeaseInit ==
    /\ clock = 0
    /\ rows = [id \in LeaseIds |-> NoRow]
    /\ used = {}
    /\ op = [run \in LeaseRuns |-> Idle]
    /\ dirty = [run \in LeaseRuns |-> {}]
    /\ worktrees = LeaseRuns
    /\ givenUp = [run \in LeaseRuns |-> {}]

Begin(run, o) ==
    /\ op[run] = Idle
    /\ op' = [op EXCEPT ![run] = o]

End(run) == op' = [op EXCEPT ![run] = Idle]

\* acquireLease: the arguments are checked and the clock is read.
AcquireCall(run, glob) ==
    /\ run \in worktrees
    /\ Begin(run, [kind |-> "acquire", now |-> clock, glob |-> glob])
    /\ UNCHANGED <<clock, rows, used, dirty, worktrees, givenUp>>

\* LeaseConflictError.
AcquireConflict(run) ==
    /\ op[run] # Idle /\ op[run].kind = "acquire"
    /\ \E id \in Active(op[run].now) : globsOverlap(rows[id].glob, op[run].glob)
    /\ End(run)
    /\ UNCHANGED <<clock, rows, used, dirty, worktrees, givenUp>>

\* Mutant: only leases of other agents are compared.
AcquireCommitSameAgent(run) ==
    /\ op[run] # Idle /\ op[run].kind = "acquire"
    /\ \A id \in Active(op[run].now) :
          AgentOf[rows[id].run] # AgentOf[run] => ~globsOverlap(rows[id].glob, op[run].glob)
    /\ used # LeaseIds
    /\ used' = used \cup {newLeaseId}
    /\ rows' = [rows EXCEPT ![newLeaseId] =
           [run |-> run, glob |-> op[run].glob, expires |-> op[run].now + TTL]]
    /\ End(run)
    /\ UNCHANGED <<clock, dirty, worktrees, givenUp>>

\* Check and insert in one transaction.
AcquireCommit(run) ==
    /\ op[run] # Idle /\ op[run].kind = "acquire"
    /\ \A id \in Active(op[run].now) : ~globsOverlap(rows[id].glob, op[run].glob)
    /\ used # LeaseIds
    /\ used' = used \cup {newLeaseId}
    /\ rows' = [rows EXCEPT ![newLeaseId] =
           [run |-> run, glob |-> op[run].glob, expires |-> op[run].now + TTL]]
    /\ End(run)
    /\ UNCHANGED <<clock, dirty, worktrees, givenUp>>

\* releaseLease by the holder; for anybody else it throws LeaseOwnershipError.
releaseLease(run, id) ==
    /\ Exists(id) /\ rows[id].run = run
    /\ rows' = [rows EXCEPT ![id] = NoRow]
    /\ givenUp' = [givenUp EXCEPT ![run] = @ \cup (dirty[run] \cap Covers[rows[id].glob])]
    /\ UNCHANGED <<clock, used, op, dirty, worktrees>>

\* markStale.
MarkStale(id) ==
    /\ Exists(id)
    /\ rows' = [rows EXCEPT ![id].expires = clock]
    /\ UNCHANGED <<clock, used, op, dirty, worktrees, givenUp>>

\* Mutant: the expiry of the lease is not tested.
ReclaimCallUnchecked(run, id) ==
    /\ Exists(id)
    /\ rows[id].run \in worktrees
    /\ Begin(run, [kind |-> "status", id |-> id, row |-> rows[id]])
    /\ UNCHANGED <<clock, rows, used, dirty, worktrees, givenUp>>

\* reclaimIfStale up to the git child process.  A missing row, a live lease and
\* a missing worktree (escalated) end the call with nothing changed.
ReclaimCall(run, id) ==
    /\ Exists(id)
    /\ rows[id].expires <= clock
    /\ rows[id].run \in worktrees
    /\ Begin(run, [kind |-> "status", id |-> id, row |-> rows[id]])
    /\ UNCHANGED <<clock, rows, used, dirty, worktrees, givenUp>>

\* Mutant: git status is not run.
ReclaimStatusAssumed(run) ==
    /\ op[run] # Idle /\ op[run].kind = "status"
    /\ op' = [op EXCEPT ![run].kind = "clean"]
    /\ UNCHANGED <<clock, rows, used, dirty, worktrees, givenUp>>

\* git status --porcelain of the lease's glob in the holder's worktree, both
\* from the row as it was read before; it fails without a worktree.
ReclaimStatus(run) ==
    /\ op[run] # Idle /\ op[run].kind = "status"
    /\ LET row == op[run].row IN
       op' = IF row.run \notin worktrees
               THEN [op EXCEPT ![run] = Idle]
               ELSE [op EXCEPT ![run].kind =
                       IF dirty[row.run] \cap Covers[row.glob] = {} THEN "clean" ELSE "dirty"]
    /\ UNCHANGED <<clock, rows, used, dirty, worktrees, givenUp>>

\* The output is clean: the row is deleted by its id.
ReclaimDelete(run) ==
    /\ op[run] # Idle /\ op[run].kind = "clean"
    /\ rows' = [rows EXCEPT ![op[run].id] = NoRow]
    /\ End(run)
    /\ UNCHANGED <<clock, used, dirty, worktrees, givenUp>>

\* The output is not clean: escalated, the row stays.
ReclaimRefused(run) ==
    /\ op[run] # Idle /\ op[run].kind = "dirty"
    /\ End(run)
    /\ UNCHANGED <<clock, rows, used, dirty, worktrees, givenUp>>

\* runPreCommitGuard: the clock is read, then git diff --cached starts.
GuardCall(run) ==
    /\ run \in worktrees
    /\ dirty[run] # {}
    /\ Begin(run, [kind |-> "diff", now |-> clock])
    /\ UNCHANGED <<clock, rows, used, dirty, worktrees, givenUp>>

\* checkStagedPaths over the rows listed for the time read before git diff: the
\* staged paths no lease of the agent covers.
Blocked(run) ==
    {p \in dirty[run] : \A id \in Active(op[run].now) :
        AgentOf[rows[id].run] = AgentOf[run] => p \notin Covers[rows[id].glob]}

\* Everything is covered: the commit is made.
GuardAllows(run) ==
    /\ op[run] # Idle /\ op[run].kind = "diff"
    /\ Blocked(run) = {}
    /\ dirty' = [dirty EXCEPT ![run] = {}]
    /\ givenUp' = [givenUp EXCEPT ![run] = {}]
    /\ End(run)
    /\ UNCHANGED <<clock, rows, used, worktrees>>

\* Something is not covered, or git failed: exit code 1 or 2.
GuardBlocks(run) ==
    /\ op[run] # Idle /\ op[run].kind = "diff"
    /\ \/ Blocked(run) # {}
       \/ run \notin worktrees
    /\ End(run)
    /\ UNCHANGED <<clock, rows, used, dirty, worktrees, givenUp>>

(***************************************************************************)
(* Environment.  A worker changes only paths under a live lease it holds   *)
(* (PLAN.md, patch lifecycle, step 2) and not while its commit is being    *)
(* checked; a worktree may disappear with what is in it.                   *)
(***************************************************************************)
Edit(run, p) ==
    /\ run \in worktrees
    /\ op[run] = Idle
    /\ \E id \in Active(clock) : rows[id].run = run /\ p \in Covers[rows[id].glob]
    /\ dirty' = [dirty EXCEPT ![run] = @ \cup {p}]
    /\ givenUp' = [givenUp EXCEPT ![run] = @ \ {p}]
    /\ UNCHANGED <<clock, rows, used, op, worktrees>>

WorktreeRemoved(run) ==
    /\ run \in worktrees
    /\ worktrees' = worktrees \ {run}
    /\ dirty' = [dirty EXCEPT ![run] = {}]
    /\ givenUp' = [givenUp EXCEPT ![run] = {}]
    /\ UNCHANGED <<clock, rows, used, op>>

Tick ==
    /\ clock < MaxClock
    /\ clock' = clock + 1
    /\ UNCHANGED <<rows, used, op, dirty, worktrees, givenUp>>

LeaseNext ==
    \/ \E run \in LeaseRuns :
          \/ \E glob \in Globs : AcquireCall(run, glob)
          \/ AcquireConflict(run)
          \/ AcquireCommit(run)
          \/ \E id \in LeaseIds : releaseLease(run, id) \/ ReclaimCall(run, id)
          \/ ReclaimStatus(run)
          \/ ReclaimDelete(run)
          \/ ReclaimRefused(run)
          \/ GuardCall(run)
          \/ GuardAllows(run)
          \/ GuardBlocks(run)
          \/ \E p \in Paths : Edit(run, p)
          \/ WorktreeRemoved(run)
    \/ \E id \in LeaseIds : MarkStale(id)
    \/ Tick

LeaseSpec == LeaseInit /\ [][LeaseNext]_leaseVars

-----------------------------------------------------------------------------

\* Every variable keeps its shape.
LeaseTypeOK ==
    /\ clock \in 0..MaxClock
    /\ rows \in [LeaseIds -> Row \cup {NoRow}]
    /\ used \subseteq LeaseIds
    /\ op \in [LeaseRuns -> AcquireOp \cup ReclaimOp \cup GuardOp \cup {Idle}]
    /\ dirty \in [LeaseRuns -> SUBSET Paths]
    /\ worktrees \subseteq LeaseRuns
    /\ givenUp \in [LeaseRuns -> SUBSET Paths]

\* The overlap rule of acquireLease: leases live at the same time never overlap,
\* though each acquirer works with a time it read before its transaction.
LiveDisjoint ==
    \A i, j \in Active(clock) : i # j => ~globsOverlap(rows[i].glob, rows[j].glob)

\* reclaimIfStale tests the expiry before git status and deletes after it: what
\* it deletes is never a lease that is live by then.
NoLiveStolen ==
    [][\A run \in LeaseRuns :
          op[run] # Idle /\ op[run].kind = "clean" /\ op'[run] = Idle
              => op[run].id \notin Active(clock)]_leaseVars

\* Reclaim never orphans uncommitted work: a changed path of an existing worktree
\* keeps a row of its run, live or expired, unless the run released it itself.
WorkKeepsRow ==
    \A run \in LeaseRuns : \A p \in dirty[run] \ givenUp[run] :
        \E id \in LeaseIds : Exists(id) /\ rows[id].run = run /\ p \in Covers[rows[id].glob]
=============================================================================
