------------------------------ MODULE Worktree ------------------------------
(***************************************************************************)
(* The worktrees of runs, packages/worktree/src: createWorktree,           *)
(* installPreCommitHook, destroyWorktree and garbageCollect, each a chain  *)
(* of git child processes that may fail and between which the others, the  *)
(* agent in the worktree and the user's shell go on.  git is external.     *)
(***************************************************************************)
EXTENDS Integers, Sequences, FiniteSets

CONSTANTS
    TreeRuns,  \* runs, numbers
    MaxAge,    \* maxAgeHours
    TreeTime,  \* bound: clock
    MaxTasks   \* bound: operations begun on the worktree of a run

ASSUME WorktreeAssumption == TreeRuns \subseteq Nat \ {0} /\ IsFiniteSet(TreeRuns) /\ MaxAge \in Nat

VARIABLES
    treeClock,
    rows,    \* rows of the runs: status and updated_at
    wt,      \* git's side of a run: registered, directory, branch, hook script, core.hooksPath
    task,    \* the operation under way on a run's worktree and how the last one ended
    hooked,  \* runs whose worktree got its hook: installPreCommitHook resolved
    gc,      \* garbageCollect: the list, the position, options and report
    slipped  \* history: a commit passed without the hook in a worktree that has one

treeVars == <<treeClock, rows, wt, task, hooked, gc, slipped>>

Absent == [reg |-> FALSE, dir |-> "none", branch |-> FALSE, script |-> FALSE, path |-> FALSE]

-----------------------------------------------------------------------------
(* git, what the code relies on of it.                                       *)

CanAdd(w) == ~w.branch /\ ~w.reg /\ w.dir = "none"
Added == [Absent EXCEPT !.reg = TRUE, !.dir = "clean", !.branch = TRUE]
CanRemove(w, force) == w.reg /\ (w.dir = "dirty" => force)
Removed(w) == [Absent EXCEPT !.branch = w.branch]
Pruned(w) == IF w.dir = "none" THEN Removed(w) ELSE w
PruneAll == [r \in TreeRuns |-> Pruned(wt[r])]

-----------------------------------------------------------------------------
(* Operations on one worktree.  runGit: each git call is a step of its own,  *)
(* and any of them may fail.                                                 *)

Idle(r) == task[r].pc = "idle"

Begin(r, pc, opts) ==
    /\ Idle(r) /\ task[r].begun < MaxTasks
    /\ task' = [task EXCEPT ![r] = [pc |-> pc, opts |-> opts, result |-> "pending", begun |-> @.begun + 1]]
    /\ UNCHANGED <<treeClock, rows, wt, hooked, gc, slipped>>

End(r, result) == task' = [task EXCEPT ![r].pc = "idle", ![r].result = result]
Then(r, pc) == task' = [task EXCEPT ![r].pc = pc]

RunGitFails(r) ==
    /\ ~Idle(r)
    /\ End(r, "failed")
    /\ UNCHANGED <<treeClock, rows, wt, hooked, gc, slipped>>

createWorktree(r) ==
    /\ task[r].pc = "add" /\ CanAdd(wt[r])
    /\ wt' = [wt EXCEPT ![r] = Added]
    /\ End(r, "ok")
    /\ hooked' = hooked \ {r}
    /\ UNCHANGED <<treeClock, rows, gc, slipped>>

\* rev-parse --git-dir runs in the worktree; the script is written next to what it answers.
resolveGitDir(r) ==
    /\ task[r].pc = "gitdir" /\ wt[r].reg /\ wt[r].dir # "none"
    /\ wt' = [wt EXCEPT ![r].script = TRUE]
    /\ Then(r, "extension")
    /\ UNCHANGED <<treeClock, rows, hooked, gc, slipped>>

\* Mutant: the hook is reported as installed before core.hooksPath is set.
ConfigExtensionEnds(r) ==
    /\ task[r].pc = "extension" /\ wt[r].reg /\ wt[r].dir # "none"
    /\ End(r, "ok")
    /\ hooked' = hooked \cup {r}
    /\ UNCHANGED <<treeClock, rows, wt, gc, slipped>>

ConfigExtension(r) ==
    /\ task[r].pc = "extension" /\ wt[r].reg /\ wt[r].dir # "none"
    /\ Then(r, "hooksPath")
    /\ UNCHANGED <<treeClock, rows, wt, hooked, gc, slipped>>

installPreCommitHook(r) ==
    /\ task[r].pc = "hooksPath" /\ wt[r].reg /\ wt[r].dir # "none"
    /\ wt' = [wt EXCEPT ![r].path = TRUE]
    /\ End(r, "ok")
    /\ hooked' = hooked \cup {r}
    /\ UNCHANGED <<treeClock, rows, gc, slipped>>

\* A removal, by destroyWorktree or by the collector.
Take(r, force) ==
    /\ CanRemove(wt[r], force)
    /\ wt' = [wt EXCEPT ![r] = Removed(wt[r])]
    /\ hooked' = hooked \ {r}

AfterRemove(r) == IF task[r].opts.pruneBranch THEN Then(r, "branch") ELSE End(r, "ok")

destroyWorktree(r) ==
    /\ task[r].pc = "remove"
    /\ Take(r, task[r].opts.force)
    /\ AfterRemove(r)
    /\ UNCHANGED <<treeClock, rows, gc, slipped>>

\* Of the ways remove can fail only a path that is gone goes on, to prune.
isWorktreePathGoneError(r) ==
    /\ task[r].pc = "remove" /\ ~wt[r].reg
    /\ Then(r, "prune")
    /\ UNCHANGED <<treeClock, rows, wt, hooked, gc, slipped>>

DestroyPrunes(r) ==
    /\ task[r].pc = "prune"
    /\ wt' = PruneAll
    /\ hooked' = {q \in hooked : PruneAll[q].reg}
    /\ AfterRemove(r)
    /\ UNCHANGED <<treeClock, rows, gc, slipped>>

DestroyBranch(r) ==
    /\ task[r].pc = "branch" /\ wt[r].branch /\ ~wt[r].reg
    /\ wt' = [wt EXCEPT ![r].branch = FALSE]
    /\ End(r, "ok")
    /\ UNCHANGED <<treeClock, rows, hooked, gc, slipped>>

-----------------------------------------------------------------------------
(* garbageCollect.                                                           *)

GcStart(force) ==
    /\ gc.pc = "idle" /\ gc.begun = 0
    /\ gc' = [gc EXCEPT !.pc = "list", !.force = force, !.now = treeClock, !.begun = 1]
    /\ UNCHANGED <<treeClock, rows, wt, task, hooked, slipped>>

\* The main worktree comes first, no run's path; git lists the others by path.
parseWorktreeList ==
    LET registered == {r \in TreeRuns : wt[r].reg}
        sorted == {s \in [1..Cardinality(registered) -> registered] :
                      \A i, j \in DOMAIN s : i < j => s[i] < s[j]}
    IN {<<0>> \o s : s \in sorted}

GcList ==
    /\ gc.pc = "list"
    /\ \E list \in parseWorktreeList : gc' = [gc EXCEPT !.pc = "next", !.list = list]
    /\ UNCHANGED <<treeClock, rows, wt, task, hooked, slipped>>

\* runIdFromWorktreePath is null for the main worktree.  persistenceReadRun and the tests
\* on the row.
Collectable(r) ==
    /\ r \in TreeRuns
    /\ rows[r].status \in {"completed", "failed"}
    /\ gc.now - rows[r].updatedAt >= MaxAge

GcNext ==
    /\ gc.pc = "next" /\ gc.list # <<>>
    /\ gc' = IF Collectable(gc.list[1]) THEN [gc EXCEPT !.pc = "remove"]
             ELSE [gc EXCEPT !.list = Tail(@), !.skipped = @ \cup {gc.list[1]}]
    /\ UNCHANGED <<treeClock, rows, wt, task, hooked, slipped>>

\* Without force, git refuses a worktree with changes: the error is reported.
removeOne ==
    LET r == gc.list[1]
    IN /\ gc.pc = "remove"
       /\ Take(r, gc.force)
       /\ gc' = [gc EXCEPT !.pc = "next", !.list = Tail(@), !.removed = @ \cup {r}]
       /\ UNCHANGED <<treeClock, rows, task, slipped>>

RemoveFails ==
    /\ gc.pc = "remove"
    /\ gc' = [gc EXCEPT !.pc = "next", !.list = Tail(@), !.errors = @ \cup {gc.list[1]}]
    /\ UNCHANGED <<treeClock, rows, wt, task, hooked, slipped>>

\* prune, which may fail too: then the report names the repository, here 0.
garbageCollect ==
    /\ gc.pc = "next" /\ gc.list = <<>>
    /\ \/ /\ wt' = PruneAll
          /\ hooked' = {q \in hooked : PruneAll[q].reg}
          /\ gc' = [gc EXCEPT !.pc = "done"]
       \/ /\ gc' = [gc EXCEPT !.pc = "done", !.errors = @ \cup {0}]
          /\ UNCHANGED <<wt, hooked>>
    /\ UNCHANGED <<treeClock, rows, task, slipped>>

-----------------------------------------------------------------------------
(* The runs, the agents and the user's shell.                                *)

\* The row of a run: written as running, then once as completed or failed.
RowStep(r) ==
    /\ rows[r].status \in {"none", "running"}
    /\ rows' = [rows EXCEPT ![r] =
                  [status |-> IF @.status = "none" THEN "running" ELSE "completed", updatedAt |-> treeClock]]
    /\ UNCHANGED <<treeClock, wt, task, hooked, gc, slipped>>

TreeTick ==
    /\ treeClock < TreeTime
    /\ treeClock' = treeClock + 1
    /\ UNCHANGED <<rows, wt, task, hooked, gc, slipped>>

Work(r) ==
    /\ wt[r].dir = "clean"
    /\ wt' = [wt EXCEPT ![r].dir = "dirty"]
    /\ UNCHANGED <<treeClock, rows, task, hooked, gc, slipped>>

Commit(r) ==
    /\ wt[r].dir = "dirty" /\ wt[r].reg
    /\ wt' = [wt EXCEPT ![r].dir = "clean"]
    /\ slipped' = (slipped \/ (r \in hooked /\ ~(wt[r].script /\ wt[r].path)))
    /\ UNCHANGED <<treeClock, rows, task, hooked, gc>>

DirectoryDeleted(r) ==
    /\ wt[r].dir # "none"
    /\ wt' = [wt EXCEPT ![r].dir = "none"]
    /\ UNCHANGED <<treeClock, rows, task, hooked, gc, slipped>>

-----------------------------------------------------------------------------

TreeInit ==
    /\ treeClock = 0
    /\ rows = [r \in TreeRuns |-> [status |-> "none", updatedAt |-> 0]]
    /\ wt = [r \in TreeRuns |-> Absent]
    /\ task = [r \in TreeRuns |-> [pc |-> "idle", opts |-> <<>>, result |-> "none", begun |-> 0]]
    /\ hooked = {} /\ slipped = FALSE
    /\ gc = [pc |-> "idle", list |-> <<>>, force |-> FALSE, now |-> 0, begun |-> 0,
             removed |-> {}, skipped |-> {}, errors |-> {}]

TreeNext ==
    \/ \E r \in TreeRuns :
        \/ Begin(r, "add", <<>>) \/ Begin(r, "gitdir", <<>>)
        \/ \E force, prune \in BOOLEAN : Begin(r, "remove", [force |-> force, pruneBranch |-> prune])
        \/ createWorktree(r) \/ resolveGitDir(r) \/ ConfigExtension(r) \/ installPreCommitHook(r)
        \/ destroyWorktree(r) \/ isWorktreePathGoneError(r) \/ DestroyPrunes(r) \/ DestroyBranch(r)
        \/ RunGitFails(r) \/ RowStep(r) \/ Work(r) \/ Commit(r) \/ DirectoryDeleted(r)
    \/ \E force \in BOOLEAN : GcStart(force)
    \/ GcList \/ GcNext \/ removeOne \/ RemoveFails \/ garbageCollect \/ TreeTick

TreeSpec == TreeInit /\ [][TreeNext]_treeVars

-----------------------------------------------------------------------------

\* The collector removes only worktrees of runs that have ended, for at least the age it was
\* given at its start, however rows and worktrees change while it walks its list; and each
\* entry of the list ends up in exactly one part of its report.
CollectsEnded ==
    /\ \A r \in gc.removed : rows[r].status = "completed" /\ gc.now - rows[r].updatedAt >= MaxAge
    /\ gc.removed \cap gc.skipped = {} /\ gc.removed \cap (gc.errors \ {0}) = {}

\* Once installPreCommitHook has resolved, no commit in that worktree gets past the hook.
HookHolds == ~slipped

\* A destroyWorktree that resolved has left no worktree, and no branch when it was to be
\* pruned, whatever the collector and the shell did meanwhile.
DestroyedIsGone ==
    \A r \in TreeRuns :
        task[r].result = "ok" /\ DOMAIN task[r].opts # {}
            => ~wt[r].reg /\ (task[r].opts.pruneBranch => ~wt[r].branch)

\* What runs may rely on of their worktrees.
WorktreeSound == CollectsEnded /\ HookHolds /\ DestroyedIsGone
=============================================================================
