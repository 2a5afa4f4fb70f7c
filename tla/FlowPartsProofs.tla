--------------------------- MODULE FlowPartsProofs ---------------------------
(***************************************************************************)
(* Proofs about what a flow runs with: the worktrees of its runs           *)
(* (Worktree), the CI gate (CiGate), its egress broker (EgressBroker), the *)
(* container of that broker (EgressContainer) and the flow itself          *)
(* (PlanExecuteReview), for any number of runs, gates, connections, calls, *)
(* faults, passes and iterations, and for targets of any length.           *)
(***************************************************************************)
EXTENDS Worktree, CiGate, EgressContainer, PlanExecuteReview, EgressBroker,
        FiniteSetTheorems, SequenceTheorems, WellFoundedInduction, TLAPS

-----------------------------------------------------------------------------
(* The worktrees. *)

CreateAt == {"add"}
HookAt == {"gitdir", "extension", "hooksPath"}
DestroyAt == {"remove", "prune", "branch"}
DestroyOpts == [force : BOOLEAN, pruneBranch : BOOLEAN]

WtTyped ==
    /\ wt \in [TreeRuns -> [reg : BOOLEAN, dir : {"none", "clean", "dirty"}, branch : BOOLEAN,
                            script : BOOLEAN, path : BOOLEAN]]
    /\ rows \in [TreeRuns -> [status : {"none", "running", "completed"}, updatedAt : Nat]]
    /\ treeClock \in Nat
    /\ hooked \subseteq TreeRuns

\* An operation, and the options it was begun with.
TaskTyped ==
    /\ task \in [TreeRuns -> [pc : {"idle"} \cup CreateAt \cup HookAt \cup DestroyAt,
                              opts : {<<>>} \cup DestroyOpts,
                              result : {"none", "pending", "ok", "failed"}, begun : Int]]
    /\ \A r \in TreeRuns :
        /\ task[r].pc \in CreateAt \cup HookAt => task[r].opts = <<>>
        /\ task[r].pc \in DestroyAt => task[r].opts \in DestroyOpts
        /\ task[r].pc # "idle" => task[r].result = "pending"

\* The collector: what is still to be looked at is not in the report yet, and no run is listed
\* twice; what it is about to remove, or has removed, was collectable and stays so.
GcState ==
    [pc : {"idle", "list", "next", "remove", "done"}, list : Seq(TreeRuns \cup {0}),
     force : BOOLEAN, now : Nat, begun : {0, 1}, removed : SUBSET TreeRuns,
     skipped : SUBSET (TreeRuns \cup {0}), errors : SUBSET (TreeRuns \cup {0})]

GcFits ==
    /\ gc \in GcState
    /\ gc.pc \in {"idle", "list"} =>
          gc.list = <<>> /\ gc.removed = {} /\ gc.skipped = {} /\ gc.errors = {}
    /\ gc.pc = "remove" => gc.list # <<>> /\ Collectable(gc.list[1])
    /\ \A i, j \in DOMAIN gc.list : i # j => gc.list[i] # gc.list[j]
    /\ \A i \in DOMAIN gc.list : gc.list[i] \notin gc.removed \cup gc.skipped \cup gc.errors
    /\ \A r \in gc.removed : Collectable(r)
    /\ gc.removed \cap gc.skipped = {} /\ gc.removed \cap gc.errors = {}

\* While a hook is being installed its script is in place as long as the worktree is, and a
\* worktree that has its hook keeps both parts of it.
HookFits ==
    /\ \A r \in TreeRuns : task[r].pc \in {"extension", "hooksPath"} /\ wt[r].reg => wt[r].script
    /\ \A r \in hooked : wt[r].reg /\ wt[r].script /\ wt[r].path
    /\ ~slipped

\* From the removal on the worktree is gone; nothing but createWorktree brings one back.
DestroyFits ==
    \A r \in TreeRuns :
        /\ task[r].pc \in {"prune", "branch"} => ~wt[r].reg
        /\ task[r].result = "ok" /\ task[r].opts \in DestroyOpts
             => ~wt[r].reg /\ (task[r].opts.pruneBranch => ~wt[r].branch)

TreeInv == WtTyped /\ TaskTyped /\ GcFits /\ HookFits /\ DestroyFits

\* Options tell a destroyWorktree from the other operations.
LEMMA OptsApart ==
    /\ DOMAIN <<>> = {}
    /\ \A o \in DestroyOpts : DOMAIN o # {} /\ o # <<>>
  <1>1. DOMAIN <<>> = {}
    OBVIOUS
  <1>2. ASSUME NEW o \in DestroyOpts PROVE "force" \in DOMAIN o
    BY DEF DestroyOpts
  <1> QED
    BY <1>1, <1>2

LEMMA TreeInitInv == TreeInit => TreeInv
  <1> SUFFICES ASSUME TreeInit PROVE TreeInv
    OBVIOUS
  <1>1. WtTyped
    BY DEF TreeInit, WtTyped, Absent
  <1>2. TaskTyped
    BY DEF TreeInit, TaskTyped, CreateAt, HookAt, DestroyAt
  <1>3. GcFits
    BY DEF TreeInit, GcFits, GcState
  <1>4. HookFits
    BY DEF TreeInit, HookFits
  <1>5. DestroyFits
    BY DEF TreeInit, DestroyFits
  <1> QED
    BY <1>1, <1>2, <1>3, <1>4, <1>5 DEF TreeInv

\* The list of the collector: every registered worktree once, after the main one.
LEMMA ListOnce ==
    ASSUME NEW list \in parseWorktreeList
    PROVE  /\ list \in Seq(TreeRuns \cup {0})
           /\ \A i, j \in DOMAIN list : i # j => list[i] # list[j]
  <1> DEFINE registered == {r \in TreeRuns : wt[r].reg}
             n == Cardinality(registered)
  <1>1. PICK s \in [1..n -> registered] :
            /\ \A i, j \in DOMAIN s : i < j => s[i] < s[j]
            /\ list = <<0>> \o s
    BY DEF parseWorktreeList
  <1>2. n \in Nat
    BY FS_Subset, FS_CardinalityType, WorktreeAssumption
  <1> HIDE DEF n
  <1>3. s \in Seq(TreeRuns) /\ Len(s) = n
    BY <1>2
  <1>4. list \in Seq(TreeRuns \cup {0}) /\ Len(list) = n + 1 /\ list[1] = 0
    BY <1>1, <1>3
  <1>5. ASSUME NEW i \in 2..(n + 1) PROVE list[i] = s[i - 1] /\ i - 1 \in 1..n
    BY <1>1, <1>2, <1>3
  <1>6. \A i \in 1..n : s[i] \in TreeRuns /\ s[i] \in Nat /\ s[i] # 0
    BY WorktreeAssumption
  <1>7. ASSUME NEW i \in 1..(n + 1), NEW j \in 1..(n + 1), i < j PROVE list[i] # list[j]
    <2>1. CASE i = 1
      BY <1>2, <1>4, <1>5, <1>6, <1>7, <2>1
    <2>2. CASE i # 1
      <3>1. s[i - 1] < s[j - 1]
        BY <1>1, <1>2, <1>5, <1>7, <2>2
      <3> QED
        BY <1>2, <1>5, <1>6, <1>7, <2>2, <3>1
    <2> QED
      BY <2>1, <2>2
  <1>8. DOMAIN list = 1..(n + 1)
    BY <1>4
  <1> QED
    BY <1>2, <1>4, <1>7, <1>8

\* What the tail of a list of different runs holds.
LEMMA TailOnce ==
    ASSUME NEW S, NEW list \in Seq(S), list # <<>>,
           \A i, j \in DOMAIN list : i # j => list[i] # list[j]
    PROVE  /\ Tail(list) \in Seq(S) /\ list[1] \in S
           /\ \A i, j \in DOMAIN Tail(list) : i # j => Tail(list)[i] # Tail(list)[j]
           /\ \A i \in DOMAIN Tail(list) :
                Tail(list)[i] # list[1] /\ \E k \in DOMAIN list : Tail(list)[i] = list[k]
  <1>1. /\ Tail(list) \in Seq(S) /\ Len(Tail(list)) = Len(list) - 1 /\ Len(list) \in Nat \ {0}
        /\ 1 \in DOMAIN list
        /\ \A i \in DOMAIN Tail(list) : Tail(list)[i] = list[i + 1] /\ i + 1 \in DOMAIN list /\ i + 1 # 1
    OBVIOUS
  <1>2. \A i, j \in DOMAIN Tail(list) : i # j => i + 1 # j + 1
    BY <1>1
  <1> QED
    BY <1>1, <1>2

\* The collector's list, what it may remove, and its report.
LEMMA GcKept == TreeInv /\ [TreeNext]_treeVars => GcFits'
  <1> SUFFICES ASSUME TreeInv, [TreeNext]_treeVars PROVE GcFits'
    OBVIOUS
  <1>0. GcFits /\ WtTyped
    BY DEF TreeInv
  <1>1. ASSUME UNCHANGED <<rows, gc>> PROVE GcFits'
    BY <1>0, <1>1 DEF GcFits, Collectable
  <1>2. ASSUME NEW r \in TreeRuns, RowStep(r) PROVE GcFits'
    <2>1. gc' = gc /\ rows[r].status \in {"none", "running"} /\ \A q \in TreeRuns \ {r} : rows'[q] = rows[q]
      BY <1>0, <1>2 DEF RowStep, WtTyped
    <2>2. \A q : Collectable(q) => Collectable(q)'
      BY <2>1 DEF Collectable
    <2> QED
      BY <1>0, <2>1, <2>2 DEF GcFits
  <1>3. ASSUME NEW force \in BOOLEAN, GcStart(force) PROVE GcFits'
    <2>1. gc' = [gc EXCEPT !.pc = "list", !.force = force, !.now = treeClock, !.begun = 1] /\ gc.pc = "idle"
      BY <1>3 DEF GcStart
    <2>2. gc \in GcState /\ treeClock \in Nat
      BY <1>0 DEF GcFits, WtTyped
    <2>3. gc' \in GcState
      BY <2>1, <2>2 DEF GcState
    <2>4. /\ gc'.pc = "list" /\ gc'.list = gc.list /\ gc'.removed = gc.removed
          /\ gc'.skipped = gc.skipped /\ gc'.errors = gc.errors
      BY <2>1, <2>2 DEF GcState
    <2>5. gc.list = <<>> /\ gc.removed = {} /\ gc.skipped = {} /\ gc.errors = {}
      BY <1>0, <2>1 DEF GcFits
    <2> QED
      BY <2>3, <2>4, <2>5 DEF GcFits
  <1>4. CASE GcList
    <2>1. PICK list \in parseWorktreeList : gc' = [gc EXCEPT !.pc = "next", !.list = list]
      BY <1>4 DEF GcList
    <2>2. gc.pc = "list"
      BY <1>4 DEF GcList
    <2> QED
      BY <1>0, <2>1, <2>2, ListOnce DEF GcFits, GcState
  <1>5. ASSUME gc.list # <<>>, rows' = rows,
               \/ gc' = [gc EXCEPT !.pc = "next", !.list = Tail(@), !.skipped = @ \cup {gc.list[1]}]
               \/ gc' = [gc EXCEPT !.pc = "next", !.list = Tail(@), !.errors = @ \cup {gc.list[1]}]
               \/ /\ gc' = [gc EXCEPT !.pc = "next", !.list = Tail(@), !.removed = @ \cup {gc.list[1]}]
                  /\ Collectable(gc.list[1]),
               gc.pc \in {"next", "remove"}
        PROVE  GcFits'
    <2> DEFINE list == gc.list
    <2>0. gc \in GcState
      BY <1>0 DEF GcFits
    <2>1. /\ Tail(list) \in Seq(TreeRuns \cup {0}) /\ list[1] \in TreeRuns \cup {0}
          /\ \A i, j \in DOMAIN Tail(list) : i # j => Tail(list)[i] # Tail(list)[j]
          /\ \A i \in DOMAIN Tail(list) :
               Tail(list)[i] # list[1] /\ \E k \in DOMAIN list : Tail(list)[i] = list[k]
      BY <1>0, <1>5, <2>0, TailOnce DEF GcFits, GcState
    <2>2. list[1] \notin gc.removed \cup gc.skipped \cup gc.errors
      <3>1. 1 \in DOMAIN gc.list
        BY <1>5, <2>0 DEF GcState
      <3> QED
        BY <1>0, <3>1 DEF GcFits
    <2>3. gc'.list = Tail(list) /\ gc'.now = gc.now /\ gc'.pc = "next"
      BY <1>5, <2>0 DEF GcState
    <2>4. \A q : Collectable(q)' <=> Collectable(q)
      BY <1>5, <2>3 DEF Collectable
    <2> HIDE DEF list
    <2>5. CASE gc' = [gc EXCEPT !.pc = "next", !.list = Tail(list), !.skipped = @ \cup {list[1]}]
      <3>1. gc' \in GcState
        BY <2>0, <2>1, <2>5 DEF GcState
      <3>2. gc'.skipped = gc.skipped \cup {list[1]} /\ gc'.errors = gc.errors /\ gc'.removed = gc.removed
        BY <2>0, <2>5 DEF GcState
      <3> QED
        BY <1>0, <2>1, <2>2, <2>3, <2>4, <3>1, <3>2 DEF GcFits, list
    <2>6. CASE gc' = [gc EXCEPT !.pc = "next", !.list = Tail(list), !.errors = @ \cup {list[1]}]
      <3>1. gc' \in GcState
        BY <2>0, <2>1, <2>6 DEF GcState
      <3>2. gc'.errors = gc.errors \cup {list[1]} /\ gc'.skipped = gc.skipped /\ gc'.removed = gc.removed
        BY <2>0, <2>6 DEF GcState
      <3> QED
        BY <1>0, <2>1, <2>2, <2>3, <2>4, <3>1, <3>2 DEF GcFits, list
    <2>7. CASE /\ gc' = [gc EXCEPT !.pc = "next", !.list = Tail(list), !.removed = @ \cup {list[1]}]
               /\ Collectable(list[1])
      <3>1. list[1] \in TreeRuns
        BY <2>7 DEF Collectable
      <3>2. gc' \in GcState
        BY <2>0, <2>1, <2>7, <3>1 DEF GcState
      <3>3. gc'.removed = gc.removed \cup {list[1]} /\ gc'.errors = gc.errors /\ gc'.skipped = gc.skipped
        BY <2>0, <2>7 DEF GcState
      <3> QED
        BY <1>0, <2>1, <2>2, <2>3, <2>4, <2>7, <3>1, <3>2, <3>3 DEF GcFits, list
    <2> QED
      BY <1>5, <2>5, <2>6, <2>7 DEF list
  <1>6. CASE GcNext
    <2>1. CASE Collectable(gc.list[1])
      <3>1. gc' = [gc EXCEPT !.pc = "remove"] /\ rows' = rows /\ gc.list # <<>> /\ gc.pc = "next"
        BY <1>6, <2>1 DEF GcNext
      <3>2. \A q : Collectable(q)' <=> Collectable(q)
        BY <1>0, <3>1 DEF Collectable, GcFits, GcState
      <3> QED
        BY <1>0, <2>1, <3>1, <3>2 DEF GcFits, GcState
    <2>2. CASE ~Collectable(gc.list[1])
      <3>1. gc.pc = "next"
        BY <1>6 DEF GcNext
      <3>2. gc' = [gc EXCEPT !.pc = "next", !.list = Tail(@), !.skipped = @ \cup {gc.list[1]}]
        BY <1>0, <1>6, <2>2, <3>1 DEF GcNext, GcFits, GcState
      <3> QED
        BY <1>5, <1>6, <3>1, <3>2 DEF GcNext
    <2> QED
      BY <2>1, <2>2
  <1>7. CASE removeOne
    BY <1>0, <1>5, <1>7 DEF removeOne, GcFits
  <1>8. CASE RemoveFails
    BY <1>0, <1>5, <1>8 DEF RemoveFails, GcFits
  <1>9. CASE garbageCollect
    <2>1. rows' = rows /\ gc.pc = "next" /\ gc.list = <<>>
          /\ (gc' = [gc EXCEPT !.pc = "done"] \/ gc' = [gc EXCEPT !.pc = "done", !.errors = @ \cup {0}])
      BY <1>9 DEF garbageCollect
    <2>2. gc'.now = gc.now /\ gc'.removed = gc.removed /\ gc'.skipped = gc.skipped /\ gc'.list = gc.list
          /\ gc'.pc = "done" /\ gc' \in GcState /\ gc'.errors \in {gc.errors, gc.errors \cup {0}}
      BY <1>0, <2>1 DEF GcFits, GcState
    <2>3. \A q : Collectable(q)' <=> Collectable(q)
      BY <2>1, <2>2 DEF Collectable
    <2>4. 0 \notin gc.removed
      BY <1>0, WorktreeAssumption DEF GcFits, GcState
    <2>5. DOMAIN gc.list = {}
      BY <2>1
    <2>6. gc.removed \cap gc.skipped = {} /\ gc.removed \cap gc.errors = {}
          /\ \A r \in gc.removed : Collectable(r)
      BY <1>0 DEF GcFits
    <2> QED
      BY <2>1, <2>2, <2>3, <2>4, <2>5, <2>6 DEF GcFits
  <1>10. ASSUME NEW r \in TreeRuns,
                \/ Begin(r, "add", <<>>) \/ Begin(r, "gitdir", <<>>)
                \/ \E force, prune \in BOOLEAN : Begin(r, "remove", [force |-> force, pruneBranch |-> prune])
                \/ createWorktree(r) \/ resolveGitDir(r) \/ ConfigExtension(r) \/ installPreCommitHook(r)
                \/ destroyWorktree(r) \/ isWorktreePathGoneError(r) \/ DestroyPrunes(r) \/ DestroyBranch(r)
                \/ RunGitFails(r) \/ Work(r) \/ Commit(r) \/ DirectoryDeleted(r)
         PROVE  GcFits'
    BY <1>1, <1>10 DEF Begin, createWorktree, resolveGitDir, ConfigExtension, installPreCommitHook,
       destroyWorktree, isWorktreePathGoneError, DestroyPrunes, DestroyBranch, RunGitFails, Work, Commit,
       DirectoryDeleted
  <1>11. CASE TreeTick \/ UNCHANGED treeVars
    BY <1>1, <1>11 DEF TreeTick, treeVars
  <1> QED
    BY <1>2, <1>3, <1>4, <1>6, <1>7, <1>8, <1>9, <1>10, <1>11 DEF TreeNext

\* Only createWorktree registers a worktree; a removal or a prune leaves the others as they are.
LEMMA GitTakesAway ==
    ASSUME WtTyped
    PROVE  /\ PruneAll \in [TreeRuns -> [reg : BOOLEAN, dir : {"none", "clean", "dirty"}, branch : BOOLEAN,
                                         script : BOOLEAN, path : BOOLEAN]]
           /\ \A r \in TreeRuns : /\ PruneAll[r].reg => PruneAll[r] = wt[r]
                                  /\ PruneAll[r].branch = wt[r].branch
           /\ \A r \in TreeRuns : /\ Removed(wt[r]) \in [reg : BOOLEAN, dir : {"none", "clean", "dirty"}, branch : BOOLEAN,
                                                         script : BOOLEAN, path : BOOLEAN]
                                  /\ ~Removed(wt[r]).reg /\ Removed(wt[r]).branch = wt[r].branch
  <1>1. \A r \in TreeRuns : /\ Removed(wt[r]) \in [reg : BOOLEAN, dir : {"none", "clean", "dirty"}, branch : BOOLEAN,
                                                   script : BOOLEAN, path : BOOLEAN]
                            /\ ~Removed(wt[r]).reg /\ Removed(wt[r]).branch = wt[r].branch
    BY DEF WtTyped, Removed, Absent
  <1>2. \A r \in TreeRuns : /\ Pruned(wt[r]) \in [reg : BOOLEAN, dir : {"none", "clean", "dirty"}, branch : BOOLEAN,
                                                  script : BOOLEAN, path : BOOLEAN]
                            /\ Pruned(wt[r]).reg => Pruned(wt[r]) = wt[r]
                            /\ Pruned(wt[r]).branch = wt[r].branch
    BY <1>1 DEF WtTyped, Pruned
  <1> QED
    BY <1>1, <1>2 DEF PruneAll

\* An operation as it stands.
LEMMA TaskState ==
    ASSUME TaskTyped, NEW r \in TreeRuns
    PROVE  task[r] \in [pc : {"idle"} \cup CreateAt \cup HookAt \cup DestroyAt, opts : {<<>>} \cup DestroyOpts,
                        result : {"none", "pending", "ok", "failed"}, begun : Int]
  BY DEF TaskTyped

\* An operation that ends keeps its options.
LEMMA TaskEnds ==
    ASSUME TaskTyped, NEW r \in TreeRuns, NEW result \in {"ok", "failed"}, End(r, result)
    PROVE  /\ TaskTyped'
           /\ task'[r].pc = "idle" /\ task'[r].result = result /\ task'[r].opts = task[r].opts
           /\ \A q \in TreeRuns \ {r} : task'[q] = task[q]
  <1>1. task' = [task EXCEPT ![r] = [task[r] EXCEPT !.pc = "idle", !.result = result]]
    BY TaskState DEF End, TaskTyped
  <1> QED
    BY TaskState, <1>1 DEF TaskTyped, CreateAt, HookAt, DestroyAt

\* An operation that goes on stays of its kind.
LEMMA TaskGoesOn ==
    ASSUME TaskTyped, NEW r \in TreeRuns, NEW pc, Then(r, pc),
           \/ pc \in HookAt /\ task[r].pc \in HookAt
           \/ pc \in DestroyAt /\ task[r].pc \in DestroyAt
    PROVE  /\ TaskTyped'
           /\ task'[r].pc = pc /\ task'[r].result = "pending" /\ task'[r].opts = task[r].opts
           /\ \A q \in TreeRuns \ {r} : task'[q] = task[q]
  <1>1. task' = [task EXCEPT ![r] = [task[r] EXCEPT !.pc = pc]]
    BY TaskState DEF Then, TaskTyped
  <1>2. task[r].result = "pending"
    BY DEF TaskTyped, HookAt, DestroyAt
  <1> QED
    BY TaskState, <1>1, <1>2 DEF TaskTyped, CreateAt, HookAt, DestroyAt

\* What relates the worktrees to the operations on them.
TreeFits == WtTyped /\ TaskTyped /\ HookFits /\ DestroyFits

\* A run's worktree, of git's or of the shell's making.
WtState ==
    [reg : BOOLEAN, dir : {"none", "clean", "dirty"}, branch : BOOLEAN, script : BOOLEAN, path : BOOLEAN]

\* A worktree that lost its registration lost its hook with it: whoever removes or prunes,
\* operations under way and those that have ended are not contradicted.
LEMMA TakenAway ==
    ASSUME TreeFits, wt' \in [TreeRuns -> WtState],
           \A q \in TreeRuns : wt'[q].reg => wt'[q] = wt[q],
           \A q \in TreeRuns : wt'[q].branch => wt[q].branch,
           hooked' \subseteq hooked, \A q \in hooked' : wt'[q].reg,
           UNCHANGED <<rows, treeClock, slipped>>
    PROVE  /\ WtTyped'
           /\ \A q \in TreeRuns : task'[q] = task[q] => (task'[q].pc \in {"extension", "hooksPath"} /\ wt'[q].reg => wt'[q].script)
           /\ \A q \in hooked' : wt'[q].reg /\ wt'[q].script /\ wt'[q].path
           /\ ~slipped'
           /\ \A q \in TreeRuns : task'[q] = task[q] =>
                /\ task'[q].pc \in {"prune", "branch"} => ~wt'[q].reg
                /\ task'[q].result = "ok" /\ task'[q].opts \in DestroyOpts
                     => ~wt'[q].reg /\ (task'[q].opts.pruneBranch => ~wt'[q].branch)
  BY DEF TreeFits, WtTyped, HookFits, DestroyFits, WtState

\* The steps of the operations, of the collector that touch a worktree, and of the agents.
LEMMA TreeFitsKept == TreeFits /\ GcFits /\ [TreeNext]_treeVars => TreeFits'
  <1> SUFFICES ASSUME TreeFits, GcFits, [TreeNext]_treeVars PROVE TreeFits'
    OBVIOUS
  <1>0. WtTyped /\ TaskTyped /\ HookFits /\ DestroyFits
    BY DEF TreeFits
  <1>1. ASSUME UNCHANGED <<treeClock, rows, wt, task, hooked, slipped>> PROVE TreeFits'
    BY <1>0, <1>1 DEF TreeFits, WtTyped, TaskTyped, HookFits, DestroyFits
  <1>2. ASSUME NEW r \in TreeRuns, NEW pc \in {"add", "gitdir", "remove"}, NEW opts, Begin(r, pc, opts),
               pc = "remove" => opts \in DestroyOpts, pc # "remove" => opts = <<>>
        PROVE  TreeFits'
    <2>1. /\ task' = [task EXCEPT ![r] = [pc |-> pc, opts |-> opts, result |-> "pending", begun |-> task[r].begun + 1]]
          /\ UNCHANGED <<treeClock, rows, wt, hooked, slipped>>
      BY <1>2 DEF Begin
    <2>2. TaskTyped'
      BY <1>0, <1>2, <2>1 DEF TaskTyped, CreateAt, HookAt, DestroyAt
    <2>3. /\ task'[r].pc = pc /\ task'[r].result = "pending"
          /\ \A q \in TreeRuns \ {r} : task'[q] = task[q]
      BY <1>0, <2>1 DEF TaskTyped
    <2> QED
      BY <1>0, <1>2, <2>1, <2>2, <2>3 DEF TreeFits, WtTyped, HookFits, DestroyFits
  <1>3. ASSUME NEW r \in TreeRuns, RunGitFails(r) PROVE TreeFits'
    <2>1. /\ TaskTyped' /\ task'[r].pc = "idle" /\ task'[r].result = "failed"
          /\ \A q \in TreeRuns \ {r} : task'[q] = task[q]
      BY <1>0, <1>3, TaskEnds DEF RunGitFails
    <2> QED
      BY <1>0, <1>3, <2>1 DEF RunGitFails, TreeFits, WtTyped, HookFits, DestroyFits
  <1>4. ASSUME NEW r \in TreeRuns, createWorktree(r) PROVE TreeFits'
    <2>1. task[r].pc = "add" /\ End(r, "ok") /\ wt' = [wt EXCEPT ![r] = Added] /\ hooked' = hooked \ {r}
          /\ UNCHANGED <<treeClock, rows, slipped>>
      BY <1>4 DEF createWorktree
    <2>2. /\ TaskTyped' /\ task'[r].pc = "idle" /\ task'[r].opts = <<>>
          /\ \A q \in TreeRuns \ {r} : task'[q] = task[q]
      BY <1>0, <2>1, TaskEnds DEF TaskTyped, CreateAt
    <2>3. Added \in WtState
      BY DEF Added, Absent, WtState
    <2> QED
      BY <1>0, <2>1, <2>2, <2>3, OptsApart DEF TreeFits, WtTyped, WtState, HookFits, DestroyFits
  <1>5. ASSUME NEW r \in TreeRuns, resolveGitDir(r) PROVE TreeFits'
    <2>1. task[r].pc = "gitdir" /\ Then(r, "extension") /\ wt' = [wt EXCEPT ![r].script = TRUE]
          /\ UNCHANGED <<treeClock, rows, hooked, slipped>>
      BY <1>5 DEF resolveGitDir
    <2>2. /\ TaskTyped' /\ task'[r].pc = "extension" /\ task'[r].result = "pending"
          /\ \A q \in TreeRuns \ {r} : task'[q] = task[q]
      BY <1>0, <2>1, TaskGoesOn DEF HookAt
    <2>3. /\ wt'[r] = [wt[r] EXCEPT !.script = TRUE] /\ \A q \in TreeRuns \ {r} : wt'[q] = wt[q]
      BY <1>0, <2>1 DEF WtTyped
    <2>4. /\ wt'[r] \in WtState /\ wt'[r].script
          /\ wt'[r].reg = wt[r].reg /\ wt'[r].path = wt[r].path /\ wt'[r].branch = wt[r].branch
      <3>1. wt[r] \in WtState
        BY <1>0 DEF WtTyped, WtState
      <3> QED
        BY <2>3, <3>1 DEF WtState
    <2>5. wt' \in [TreeRuns -> WtState]
      BY <1>0, <2>1, <2>3, <2>4 DEF WtTyped, WtState
    <2> QED
      BY <1>0, <2>1, <2>2, <2>3, <2>4, <2>5 DEF TreeFits, WtTyped, WtState, HookFits, DestroyFits
  <1>6. ASSUME NEW r \in TreeRuns, ConfigExtension(r) PROVE TreeFits'
    <2>1. task[r].pc = "extension" /\ Then(r, "hooksPath") /\ UNCHANGED <<treeClock, rows, wt, hooked, slipped>>
      BY <1>6 DEF ConfigExtension
    <2>2. /\ TaskTyped' /\ task'[r].pc = "hooksPath" /\ task'[r].result = "pending"
          /\ \A q \in TreeRuns \ {r} : task'[q] = task[q]
      BY <1>0, <2>1, TaskGoesOn DEF HookAt
    <2> QED
      BY <1>0, <2>1, <2>2 DEF TreeFits, WtTyped, HookFits, DestroyFits
  <1>7. ASSUME NEW r \in TreeRuns, installPreCommitHook(r) PROVE TreeFits'
    <2>1. /\ task[r].pc = "hooksPath" /\ wt[r].reg /\ End(r, "ok") /\ wt' = [wt EXCEPT ![r].path = TRUE]
          /\ hooked' = hooked \cup {r} /\ UNCHANGED <<treeClock, rows, slipped>>
      BY <1>7 DEF installPreCommitHook
    <2>2. /\ TaskTyped' /\ task'[r].pc = "idle" /\ task'[r].opts = <<>>
          /\ \A q \in TreeRuns \ {r} : task'[q] = task[q]
      BY <1>0, <2>1, TaskEnds DEF TaskTyped, HookAt
    <2>3. wt'[r] = [wt[r] EXCEPT !.path = TRUE] /\ \A q \in TreeRuns \ {r} : wt'[q] = wt[q]
      BY <1>0, <2>1 DEF WtTyped
    <2>4. wt'[r] \in WtState /\ wt'[r].script /\ wt'[r].reg /\ wt'[r].path
      <3>1. wt[r] \in WtState /\ wt[r].script /\ wt[r].reg
        BY <1>0, <2>1 DEF WtTyped, WtState, HookFits
      <3> QED
        BY <2>3, <3>1 DEF WtState
    <2>5. wt' \in [TreeRuns -> WtState]
      BY <1>0, <2>1, <2>3, <2>4 DEF WtTyped, WtState
    <2> QED
      BY <1>0, <2>1, <2>2, <2>3, <2>4, <2>5, OptsApart DEF TreeFits, WtTyped, WtState, HookFits, DestroyFits
  <1>8. ASSUME NEW r \in TreeRuns, NEW force, Take(r, force), UNCHANGED <<treeClock, rows, slipped>>
        PROVE  /\ wt' \in [TreeRuns -> WtState] /\ ~wt'[r].reg /\ wt'[r].branch = wt[r].branch
               /\ \A q \in TreeRuns : wt'[q].reg => wt'[q] = wt[q]
               /\ \A q \in TreeRuns : wt'[q].branch => wt[q].branch
               /\ hooked' \subseteq hooked /\ \A q \in hooked' : wt'[q].reg
    BY <1>0, <1>8, GitTakesAway DEF Take, WtTyped, WtState, HookFits
  <1>9. ASSUME NEW r \in TreeRuns, destroyWorktree(r) PROVE TreeFits'
    <2>1. /\ task[r].pc = "remove" /\ Take(r, task[r].opts.force) /\ AfterRemove(r)
          /\ UNCHANGED <<treeClock, rows, slipped>>
      BY <1>9 DEF destroyWorktree
    <2>2. /\ TaskTyped' /\ task'[r].opts = task[r].opts /\ \A q \in TreeRuns \ {r} : task'[q] = task[q]
          /\ \/ task'[r].pc = "branch" /\ task'[r].result = "pending"
             \/ task'[r].pc = "idle" /\ ~task[r].opts.pruneBranch
      BY <1>0, <2>1, TaskEnds, TaskGoesOn DEF AfterRemove, DestroyAt
    <2> QED
      BY <1>0, <1>8, <2>1, <2>2, TakenAway DEF TreeFits, HookFits, DestroyFits
  <1>10. ASSUME NEW r \in TreeRuns, isWorktreePathGoneError(r) PROVE TreeFits'
    <2>1. /\ task[r].pc = "remove" /\ ~wt[r].reg /\ Then(r, "prune")
          /\ UNCHANGED <<treeClock, rows, wt, hooked, slipped>>
      BY <1>10 DEF isWorktreePathGoneError
    <2>2. /\ TaskTyped' /\ task'[r].pc = "prune" /\ task'[r].result = "pending"
          /\ \A q \in TreeRuns \ {r} : task'[q] = task[q]
      BY <1>0, <2>1, TaskGoesOn DEF DestroyAt
    <2> QED
      BY <1>0, <2>1, <2>2 DEF TreeFits, WtTyped, HookFits, DestroyFits
  <1>11. ASSUME wt' = PruneAll, hooked' = {q \in hooked : PruneAll[q].reg}, UNCHANGED <<treeClock, rows, slipped>>
         PROVE  /\ wt' \in [TreeRuns -> WtState]
                /\ \A q \in TreeRuns : wt'[q].reg => wt'[q] = wt[q]
                /\ \A q \in TreeRuns : wt'[q].branch => wt[q].branch
                /\ hooked' \subseteq hooked /\ \A q \in hooked' : wt'[q].reg
    BY <1>0, <1>11, GitTakesAway DEF WtState
  <1>12. ASSUME NEW r \in TreeRuns, DestroyPrunes(r) PROVE TreeFits'
    <2>1. /\ task[r].pc = "prune" /\ AfterRemove(r)
          /\ wt' = PruneAll /\ hooked' = {q \in hooked : PruneAll[q].reg}
          /\ UNCHANGED <<treeClock, rows, slipped>>
      BY <1>12 DEF DestroyPrunes
    <2>2. /\ TaskTyped' /\ task'[r].opts = task[r].opts /\ \A q \in TreeRuns \ {r} : task'[q] = task[q]
          /\ \/ task'[r].pc = "branch" /\ task'[r].result = "pending"
             \/ task'[r].pc = "idle" /\ ~task[r].opts.pruneBranch
      BY <1>0, <2>1, TaskEnds, TaskGoesOn DEF AfterRemove, DestroyAt
    <2>3. ~wt[r].reg
      BY <1>0, <2>1 DEF DestroyFits
    <2>4. ~wt'[r].reg
      BY <1>11, <2>1, <2>3
    <2> QED
      BY <1>0, <1>11, <2>1, <2>2, <2>4, TakenAway DEF TreeFits, HookFits, DestroyFits
  <1>13. ASSUME NEW r \in TreeRuns, DestroyBranch(r) PROVE TreeFits'
    <2>1. /\ task[r].pc = "branch" /\ ~wt[r].reg /\ wt' = [wt EXCEPT ![r].branch = FALSE] /\ End(r, "ok")
          /\ UNCHANGED <<treeClock, rows, hooked, slipped>>
      BY <1>13 DEF DestroyBranch
    <2>2. /\ TaskTyped' /\ task'[r].pc = "idle" /\ \A q \in TreeRuns \ {r} : task'[q] = task[q]
      BY <1>0, <2>1, TaskEnds
    <2>3. /\ wt'[r] = [wt[r] EXCEPT !.branch = FALSE] /\ \A q \in TreeRuns \ {r} : wt'[q] = wt[q]
      BY <1>0, <2>1 DEF WtTyped
    <2>4. /\ wt' \in [TreeRuns -> WtState] /\ ~wt'[r].reg /\ ~wt'[r].branch
      BY <1>0, <2>1, <2>3 DEF WtTyped, WtState
    <2>5. r \notin hooked
      BY <1>0, <2>1 DEF HookFits
    <2> QED
      BY <1>0, <2>1, <2>2, <2>3, <2>4, <2>5 DEF TreeFits, WtTyped, WtState, HookFits, DestroyFits
  <1>14. CASE removeOne
    <2>1. gc.pc = "remove" /\ Take(gc.list[1], gc.force) /\ UNCHANGED <<treeClock, rows, task, slipped>>
      BY <1>14 DEF removeOne
    <2>2. gc.list[1] \in TreeRuns
      BY <2>1 DEF GcFits, Collectable
    <2> QED
      BY <1>0, <1>8, <2>1, <2>2, TakenAway DEF TreeFits, TaskTyped, HookFits, DestroyFits
  <1>15. CASE garbageCollect
    <2>1. CASE wt' = PruneAll /\ hooked' = {q \in hooked : PruneAll[q].reg}
      BY <1>0, <1>11, <1>15, <2>1, TakenAway DEF garbageCollect, TreeFits, TaskTyped, HookFits, DestroyFits
    <2>2. CASE UNCHANGED <<wt, hooked>>
      BY <1>1, <1>15, <2>2 DEF garbageCollect
    <2> QED
      BY <1>15, <2>1, <2>2 DEF garbageCollect
  <1>16. ASSUME NEW r \in TreeRuns, RowStep(r) PROVE TreeFits'
    BY <1>0, <1>16 DEF RowStep, TreeFits, WtTyped, TaskTyped, HookFits, DestroyFits
  <1>17. ASSUME NEW r \in TreeRuns, NEW d \in {"none", "clean", "dirty"}, wt' = [wt EXCEPT ![r].dir = d],
                UNCHANGED <<treeClock, rows, task, hooked>>, ~slipped'
         PROVE  TreeFits'
    <2>1. /\ wt'[r] = [wt[r] EXCEPT !.dir = d] /\ \A q \in TreeRuns \ {r} : wt'[q] = wt[q]
      BY <1>0, <1>17 DEF WtTyped
    <2>2. /\ wt' \in [TreeRuns -> WtState]
          /\ wt'[r].reg = wt[r].reg /\ wt'[r].branch = wt[r].branch
          /\ wt'[r].script = wt[r].script /\ wt'[r].path = wt[r].path
      BY <1>0, <1>17, <2>1 DEF WtTyped, WtState
    <2> QED
      BY <1>0, <1>17, <2>1, <2>2 DEF TreeFits, WtTyped, WtState, TaskTyped, HookFits, DestroyFits
  <1>18. ASSUME NEW r \in TreeRuns, Work(r) \/ Commit(r) \/ DirectoryDeleted(r) PROVE TreeFits'
    <2>1. \E d \in {"none", "clean", "dirty"} : wt' = [wt EXCEPT ![r].dir = d]
      BY <1>18 DEF Work, Commit, DirectoryDeleted
    <2>2. UNCHANGED <<treeClock, rows, task, hooked>> /\ ~slipped'
      <3>1. CASE Work(r) \/ DirectoryDeleted(r)
        BY <1>0, <3>1 DEF Work, DirectoryDeleted, HookFits
      <3>2. CASE Commit(r)
        <4>1. slipped' = (slipped \/ (r \in hooked /\ ~(wt[r].script /\ wt[r].path)))
          BY <3>2 DEF Commit
        <4>2. ~slipped /\ (r \in hooked => wt[r].script /\ wt[r].path)
          BY <1>0 DEF HookFits
        <4>3. ~slipped'
          BY <4>1, <4>2, Zenon
        <4> QED
          BY <3>2, <4>3 DEF Commit
      <3> QED
        BY <1>18, <3>1, <3>2
    <2> QED
      BY <1>17, <2>1, <2>2
  <1>19. CASE TreeTick
    BY <1>0, <1>19 DEF TreeTick, TreeFits, WtTyped, TaskTyped, HookFits, DestroyFits
  <1>20. CASE (\E force \in BOOLEAN : GcStart(force)) \/ GcList \/ GcNext \/ RemoveFails \/ UNCHANGED treeVars
    BY <1>1, <1>20 DEF GcStart, GcList, GcNext, RemoveFails, treeVars
  <1>21. ASSUME NEW r \in TreeRuns,
                \/ Begin(r, "add", <<>>) \/ Begin(r, "gitdir", <<>>)
                \/ \E force, prune \in BOOLEAN : Begin(r, "remove", [force |-> force, pruneBranch |-> prune])
         PROVE  TreeFits'
    BY <1>2, <1>21 DEF DestroyOpts
  <1> QED
    BY <1>3, <1>4, <1>5, <1>6, <1>7, <1>9, <1>10, <1>12, <1>13, <1>14, <1>15, <1>16, <1>18, <1>19, <1>20, <1>21
       DEF TreeNext

LEMMA TreeInvKept == TreeInv /\ [TreeNext]_treeVars => TreeInv'
  BY GcKept, TreeFitsKept DEF TreeInv, TreeFits

\* The inductive invariant of the worktrees, for any number of runs and operations on them and
\* whatever the collector, the agents and the user's shell do in between.
THEOREM TreeInvariant == TreeSpec => []TreeInv
  BY TreeInitInv, TreeInvKept, PTL DEF TreeSpec

\* garbageCollect, installPreCommitHook and destroyWorktree keep their promises: the collector
\* removes only worktrees of runs that have ended long enough ago and says so once, no commit
\* gets past an installed hook, and a destroyed worktree is gone with its branch.
THEOREM WorktreesCorrect == TreeSpec => []WorktreeSound
  <1>1. TreeInv => WorktreeSound
    <2> SUFFICES ASSUME TreeInv PROVE WorktreeSound
      OBVIOUS
    <2>1. \A r \in gc.removed : rows[r].status = "completed" /\ gc.now - rows[r].updatedAt >= MaxAge
      BY DEF TreeInv, GcFits, WtTyped, Collectable
    <2>2. gc.removed \cap gc.skipped = {} /\ gc.removed \cap gc.errors = {}
      BY DEF TreeInv, GcFits
    <2>3. CollectsEnded
      BY <2>1, <2>2 DEF CollectsEnded
    <2>4. HookHolds
      BY DEF TreeInv, HookFits, HookHolds
    <2>5. DestroyedIsGone
      BY OptsApart DEF TreeInv, TaskTyped, DestroyFits, DestroyedIsGone
    <2> QED
      BY <2>3, <2>4, <2>5 DEF WorktreeSound
  <1> QED
    BY <1>1, TreeInvariant, PTL

-----------------------------------------------------------------------------
(* The broker's container. *)

Machine == [network : BOOLEAN, container : BOOLEAN, files : Int]
Holdings == [containerId : BOOLEAN, boundPort : BOOLEAN, createdNetwork : BOOLEAN, policyCleanup : BOOLEAN,
             stream : BOOLEAN, shutdownComplete : BOOLEAN]

ContainerTyped ==
    /\ box \in Machine /\ held \in Holdings
    /\ startPc \in {"idle", "version", "network", "write", "run", "port", "soft", "hard", "rm", "clean"}
    /\ stopPc \in {"idle", "soft", "hard", "hard after failure", "rm", "rm failing", "clean", "clean failing"}

\* Calls that do not overlap, of one handle that is not used again and whose process lives.
Plain == ~Excused({})

\* What there is on the machine, at each step of a start and of a shutdown.
MachineFits ==
    Plain =>
        /\ startPc = "idle" \/ stopPc = "idle"
        /\ box.container => held.containerId \/ "kill" \in excuse \/ startPc \in {"soft", "hard"}
        /\ box.container /\ (startPc \in {"rm", "clean"} \/ stopPc \notin {"idle", "soft", "hard", "hard after failure"})
              => "kill" \in excuse
        /\ box.network => held.createdNetwork \/ "create" \in excuse
        /\ box.network /\ stopPc = "clean" => "kill" \in excuse \/ "create" \in excuse
        /\ box.files > (IF held.policyCleanup THEN 1 ELSE 0) => "write" \in excuse \/ "unlink" \in excuse
        /\ startPc = "idle" /\ held.policyCleanup => held.containerId /\ held.boundPort
        /\ startPc \in {"version", "network", "write"} => ~held.policyCleanup
        /\ held.stream => held.containerId /\ held.boundPort /\ Quiet
        /\ startPc = "port" => held.containerId
        /\ held.shutdownComplete =>
              /\ Quiet /\ ~held.stream
              /\ box.files > 0 => "write" \in excuse \/ "unlink" \in excuse
              /\ box.container => "kill" \in excuse
              /\ box.network => "kill" \in excuse \/ "create" \in excuse

\* Behind a dead process nothing is started any more, so what the preflight saw stays so.
AfterDeath ==
    /\ "died" \in excuse => Quiet /\ containerCalls = MaxContainerCalls
    /\ preflight = "ok" => ~box.container /\ "died" \in excuse

ContainerInv == ContainerTyped /\ MachineFits /\ AfterDeath

LEMMA ContainerInitInv == ContainerInit => ContainerInv
  BY DEF ContainerInit, ContainerInv, ContainerTyped, Machine, Holdings, MachineFits, AfterDeath, Quiet, Plain, Excused

\* A policy file more or less.
LEMMA FilesChanged ==
    ASSUME box \in Machine, NEW n \in Int
    PROVE  /\ [box EXCEPT !.files = n] \in Machine /\ [box EXCEPT !.files = n].files = n
           /\ [box EXCEPT !.files = n].network = box.network
           /\ [box EXCEPT !.files = n].container = box.container
  BY DEF Machine

\* The writing of a policy file: it is there afterwards, with its cleanup unless the write failed.
LEMMA PolicyWritten ==
    ASSUME ContainerTyped, defaultWritePolicyFile
    PROVE  /\ box' \in Machine /\ box'.network = box.network /\ box'.container = box.container
           /\ held' = [held EXCEPT !.policyCleanup = held'.policyCleanup]
           /\ held' \in Holdings /\ excuse \subseteq excuse'
           /\ \/ box'.files = box.files + 1 /\ held'.policyCleanup /\ startPc' = "run"
              \/ box' = box /\ held' = held /\ startPc' = "idle"
              \/ held' = held /\ startPc' = "idle" /\ "write" \in excuse'
  <1>0. box \in Machine /\ box.files \in Int /\ held \in Holdings
    BY DEF ContainerTyped, Machine
  <1>1. CASE box' = [box EXCEPT !.files = @ + 1]
    <2>1. box' \in Machine /\ box'.files = box.files + 1 /\ box'.network = box.network /\ box'.container = box.container
      BY <1>0, <1>1, FilesChanged
    <2> QED
      BY <1>0, <2>1 DEF defaultWritePolicyFile, Works, Fault, StartThrows, Holdings
  <1>2. CASE UNCHANGED <<box, held>> /\ StartThrows /\ Fault({})
    BY <1>0, <1>2 DEF Fault, StartThrows, Holdings
  <1> QED
    BY <1>1, <1>2 DEF defaultWritePolicyFile

\* Its cleaning: the file is gone, or its removal has failed.
LEMMA PolicyUnlinked ==
    ASSUME ContainerTyped, PolicyCleaned
    PROVE  /\ box' \in Machine /\ box'.network = box.network /\ box'.container = box.container
           /\ excuse \subseteq excuse'
           /\ \/ box'.files = IF held.policyCleanup THEN box.files - 1 ELSE box.files
              \/ held.policyCleanup /\ box'.files = box.files /\ "unlink" \in excuse'
  <1>0. box \in Machine /\ box.files \in Int
    BY DEF ContainerTyped, Machine
  <1>1. (IF held.policyCleanup THEN box.files - 1 ELSE box.files) \in Int
    BY <1>0
  <1> DEFINE n == IF held.policyCleanup THEN box.files - 1 ELSE box.files
  <1>2. CASE box' = [box EXCEPT !.files = n] /\ excuse' = excuse
    <2> HIDE DEF n
    <2>1. box' \in Machine /\ box'.files = n /\ box'.network = box.network /\ box'.container = box.container
      BY <1>0, <1>1, <1>2, FilesChanged DEF n
    <2> QED
      BY <1>2, <2>1 DEF n
  <1>3. CASE held.policyCleanup /\ box' = box /\ excuse' = excuse \cup {"unlink"}
    BY <1>0, <1>3
  <1> QED
    BY <1>2, <1>3 DEF PolicyCleaned, Works, Fault

LEMMA ContainerTypeKept == ContainerTyped /\ [ContainerNext]_containerVars => ContainerTyped'
  <1> SUFFICES ASSUME ContainerTyped, [ContainerNext]_containerVars PROVE ContainerTyped'
    OBVIOUS
  <1> USE DEF ContainerTyped
  <1>1. CASE startContainer
    BY <1>1 DEF startContainer
  <1>2. CASE assertDockerReachable
    BY <1>2 DEF assertDockerReachable, StartThrows
  <1>3. CASE ensureNetwork
    BY <1>3 DEF ensureNetwork, Machine, Holdings, StartThrows
  <1>4. CASE defaultWritePolicyFile
    BY <1>4, PolicyWritten DEF defaultWritePolicyFile
  <1>5. CASE runContainer
    BY <1>5 DEF runContainer, Machine, Holdings
  <1>6. CASE resolveHostPort
    BY <1>6 DEF resolveHostPort, Machine, Holdings
  <1>7. CASE StartCleans /\ UNCHANGED <<stopPc, containerCalls, preflight>>
    <2>1. CASE PolicyCleaned
      BY <1>7, <2>1, PolicyUnlinked DEF StartCleans, Holdings, StartThrows
    <2>2. CASE ~PolicyCleaned
      BY <1>7, <2>2 DEF StartCleans, Machine, SoftKill, HardKill, RemoveNetwork
    <2> QED
      BY <2>1, <2>2
  <1>8. CASE shutdownContainer
    BY <1>8 DEF shutdownContainer, Machine, Holdings
  <1>9. CASE StopStep
    <2>1. CASE StopCleans
      BY <1>9, <2>1, PolicyUnlinked DEF StopStep, StopCleans, Holdings
    <2>2. CASE StopKills \/ reapNetwork
      BY <1>9, <2>2 DEF StopStep, Machine, Holdings, StopKills, SoftKill, HardKill, reapNetwork, RemoveNetwork
    <2> QED
      BY <1>9, <2>1, <2>2 DEF StopStep
  <1>10. CASE ContainerExits
    BY <1>10 DEF ContainerExits, Machine
  <1>11. CASE Dies
    BY <1>11 DEF Dies, Holdings
  <1>12. CASE containerEgressPreflight
    BY <1>12 DEF containerEgressPreflight
  <1>13. CASE UNCHANGED containerVars
    BY <1>13 DEF containerVars
  <1> QED
    BY <1>1, <1>2, <1>3, <1>4, <1>5, <1>6, <1>7, <1>8, <1>9, <1>10, <1>11, <1>12, <1>13 DEF ContainerNext, StartStep

\* A step of start.
LEMMA StartKept ==
    ASSUME ContainerInv, StartStep
    PROVE  MachineFits'
  <1>0. ContainerTyped /\ ContainerTyped' /\ MachineFits
    BY ContainerTypeKept DEF ContainerInv, ContainerNext
  <1>1. /\ excuse \subseteq excuse' /\ stopPc' = stopPc /\ startPc # "idle"
        /\ held'.shutdownComplete = held.shutdownComplete
    BY <1>0 DEF StartStep, assertDockerReachable, ensureNetwork, defaultWritePolicyFile, runContainer, resolveHostPort,
       StartCleans, SoftKill, HardKill, RemoveNetwork, PolicyCleaned, StartThrows, Works, Fault, ContainerTyped, Holdings
  <1> SUFFICES ASSUME Plain' PROVE MachineFits'
    BY DEF MachineFits
  <1>2. Plain
    BY <1>1 DEF Plain, Excused
  <1>3. /\ stopPc = "idle" /\ stopPc' = "idle" /\ ~held.shutdownComplete /\ ~held'.shutdownComplete /\ ~held.stream
    BY <1>0, <1>1, <1>2 DEF MachineFits, Quiet
  <1> DEFINE Left == /\ box.container => held.containerId \/ "kill" \in excuse \/ startPc \in {"soft", "hard"}
                     /\ box.container /\ startPc \in {"rm", "clean"} => "kill" \in excuse
                     /\ box.network => held.createdNetwork \/ "create" \in excuse
                     /\ box.files > (IF held.policyCleanup THEN 1 ELSE 0) => "write" \in excuse \/ "unlink" \in excuse
                     /\ startPc = "idle" /\ held.policyCleanup => held.containerId /\ held.boundPort
                     /\ startPc \in {"version", "network", "write"} => ~held.policyCleanup
                     /\ startPc = "port" => held.containerId
                     /\ held.stream => held.containerId /\ held.boundPort /\ startPc = "idle"
  <1>4. Left
    BY <1>0, <1>2, <1>3 DEF MachineFits
  <1>5. Left' => MachineFits'
    BY <1>3 DEF MachineFits, Quiet
  <1>6. CASE assertDockerReachable
    BY <1>1, <1>3, <1>4, <1>5, <1>6 DEF assertDockerReachable, StartThrows
  <1>7. CASE ensureNetwork
    BY <1>0, <1>1, <1>3, <1>4, <1>5, <1>7 DEF ensureNetwork, StartThrows, Fault, ContainerTyped, Machine, Holdings
  <1>8. CASE defaultWritePolicyFile
    <2>1. box.files \in Int /\ held \in Holdings /\ startPc = "write"
      BY <1>0, <1>8 DEF ContainerTyped, Machine, defaultWritePolicyFile
    <2>2. /\ held'.containerId = held.containerId /\ held'.boundPort = held.boundPort
          /\ held'.createdNetwork = held.createdNetwork /\ held'.stream = held.stream
      BY <1>0, <1>8, <2>1, PolicyWritten DEF Holdings
    <2> QED
      BY <1>0, <1>3, <1>4, <1>5, <1>8, <2>1, <2>2, PolicyWritten
  <1>9. CASE runContainer
    BY <1>0, <1>1, <1>3, <1>4, <1>5, <1>9 DEF runContainer, ContainerTyped, Machine, Holdings
  <1>10. CASE resolveHostPort
    BY <1>0, <1>1, <1>3, <1>4, <1>5, <1>10 DEF resolveHostPort, ContainerTyped, Machine, Holdings
  <1>11. CASE StartCleans
    <2>1. CASE startPc = "clean"
      <3>1. /\ PolicyCleaned /\ startPc' = "idle"
            /\ held' = [held EXCEPT !.policyCleanup = FALSE, !.containerId = FALSE, !.boundPort = FALSE]
        BY <1>11, <2>1 DEF StartCleans, StartThrows
      <3>2. held \in Holdings /\ box.files \in Int
        BY <1>0 DEF ContainerTyped, Machine
      <3>3. /\ held'.createdNetwork = held.createdNetwork /\ held'.stream = held.stream /\ ~held'.policyCleanup
        BY <3>1, <3>2 DEF Holdings
      <3> QED
        BY <1>0, <1>3, <1>4, <1>5, <2>1, <3>1, <3>2, <3>3, PolicyUnlinked
    <2>2. CASE startPc # "clean"
      BY <1>0, <1>1, <1>3, <1>4, <1>5, <1>11, <2>2
         DEF StartCleans, SoftKill, HardKill, RemoveNetwork, Fault, ContainerTyped, Machine, Holdings
    <2> QED
      BY <2>1, <2>2
  <1> QED
    BY <1>6, <1>7, <1>8, <1>9, <1>10, <1>11 DEF StartStep

\* A step of shutdown.
LEMMA StopKept ==
    ASSUME ContainerInv, StopStep
    PROVE  MachineFits'
  <1>0. ContainerTyped /\ ContainerTyped' /\ MachineFits
    BY ContainerTypeKept DEF ContainerInv, ContainerNext
  <1>1. excuse \subseteq excuse' /\ startPc' = startPc /\ stopPc # "idle"
    BY <1>0 DEF StopStep, StopKills, reapNetwork, StopCleans, PolicyCleaned, SoftKill, HardKill, Works, Fault
  <1> SUFFICES ASSUME Plain' PROVE MachineFits'
    BY DEF MachineFits
  <1>2. Plain
    BY <1>1 DEF Plain, Excused
  <1>3. startPc = "idle" /\ startPc' = "idle" /\ ~held.shutdownComplete /\ ~held.stream
    BY <1>0, <1>1, <1>2 DEF MachineFits, Quiet
  <1> DEFINE Left == /\ box.container => held.containerId \/ "kill" \in excuse
                     /\ box.container /\ stopPc \notin {"idle", "soft", "hard", "hard after failure"} => "kill" \in excuse
                     /\ box.network => held.createdNetwork \/ "create" \in excuse
                     /\ box.network /\ stopPc = "clean" => "kill" \in excuse \/ "create" \in excuse
                     /\ box.files > (IF held.policyCleanup THEN 1 ELSE 0) => "write" \in excuse \/ "unlink" \in excuse
                     /\ held.policyCleanup => held.containerId /\ held.boundPort
                     /\ ~held.stream
                     /\ held.shutdownComplete =>
                           /\ stopPc = "idle"
                           /\ box.files > 0 => "write" \in excuse \/ "unlink" \in excuse
                           /\ box.container => "kill" \in excuse
                           /\ box.network => "kill" \in excuse \/ "create" \in excuse
  <1>4. Left
    BY <1>0, <1>2, <1>3 DEF MachineFits
  <1>5. Left' => MachineFits'
    BY <1>3 DEF MachineFits, Quiet
  <1>6. CASE StopKills
    BY <1>0, <1>1, <1>3, <1>4, <1>5, <1>6 DEF StopKills, SoftKill, HardKill, Fault, ContainerTyped, Machine, Holdings
  <1>7. CASE reapNetwork
    BY <1>0, <1>1, <1>3, <1>4, <1>5, <1>7 DEF reapNetwork, RemoveNetwork, ContainerTyped, Machine, Holdings
  <1>8. CASE StopCleans
    <2>1. held \in Holdings /\ box.files \in Int
      BY <1>0 DEF ContainerTyped, Machine
    <2>2. /\ held'.createdNetwork = held.createdNetwork /\ held'.stream = held.stream /\ ~held'.policyCleanup
          /\ held'.shutdownComplete = (stopPc = "clean") /\ stopPc' = "idle"
      BY <1>8, <2>1 DEF StopCleans, Holdings
    <2>3. stopPc \in {"clean", "clean failing"} /\ PolicyCleaned
      BY <1>8 DEF StopCleans
    <2>4. /\ box'.container => "kill" \in excuse'
          /\ box'.network => held'.createdNetwork \/ "create" \in excuse'
          /\ box'.network /\ stopPc = "clean" => "kill" \in excuse' \/ "create" \in excuse'
      BY <1>0, <1>4, <2>2, <2>3, PolicyUnlinked
    <2>5. box'.files > 0 => "write" \in excuse' \/ "unlink" \in excuse'
      <3>1. box.files > (IF held.policyCleanup THEN 1 ELSE 0) => "write" \in excuse \/ "unlink" \in excuse
        BY <1>4
      <3>2. /\ excuse \subseteq excuse'
            /\ \/ box'.files = IF held.policyCleanup THEN box.files - 1 ELSE box.files
               \/ held.policyCleanup /\ box'.files = box.files /\ "unlink" \in excuse'
        BY <1>0, <2>3, PolicyUnlinked
      <3>3. box'.files > 0 => "unlink" \in excuse' \/ box.files > (IF held.policyCleanup THEN 1 ELSE 0)
        BY <2>1, <3>2
      <3> QED
        BY <3>1, <3>2, <3>3
    <2>6. ~held'.stream
      BY <1>3, <2>2
    <2> QED
      BY <1>5, <2>2, <2>4, <2>5, <2>6
  <1> QED
    BY <1>6, <1>7, <1>8 DEF StopStep

\* The first moments of a start and of a shutdown, and what happens around them.
LEMMA ContainerInvKept == ContainerInv /\ [ContainerNext]_containerVars => ContainerInv'
  <1> SUFFICES ASSUME ContainerInv, [ContainerNext]_containerVars PROVE ContainerInv'
    OBVIOUS
  <1>0. ContainerTyped /\ ContainerTyped' /\ MachineFits /\ AfterDeath
    BY ContainerTypeKept DEF ContainerInv
  <1>1. MachineFits'
    <2>1. CASE startContainer
      <3>1. /\ UNCHANGED <<box, held, stopPc>> /\ startPc' = "version" /\ ~(held.containerId /\ held.boundPort)
            /\ excuse \subseteq excuse'
            /\ stopPc # "idle" => "overlap" \in excuse'
            /\ held.shutdownComplete => "restart" \in excuse'
        BY <2>1 DEF startContainer
      <3>2. Plain' => Plain /\ stopPc = "idle" /\ ~held.shutdownComplete
        BY <3>1 DEF Plain, Excused
      <3>3. Plain' => ~held.stream
        BY <1>0, <3>1, <3>2 DEF MachineFits
      <3>4. stopPc' = stopPc /\ startPc' = "version" /\ held' = held /\ box' = box
        BY <3>1
      <3>5. startPc = "idle"
        BY <2>1 DEF startContainer
      <3> QED
        BY <1>0, <3>1, <3>2, <3>3, <3>4, <3>5 DEF MachineFits, Quiet
    <2>2. CASE StartStep
      BY <2>2, StartKept
    <2>3. CASE shutdownContainer
      <3>1. /\ UNCHANGED <<box, startPc>> /\ stopPc = "idle" /\ ~held.shutdownComplete
            /\ excuse \subseteq excuse' /\ (startPc # "idle" => "overlap" \in excuse')
        BY <2>3 DEF shutdownContainer
      <3>2. Plain' => Plain /\ startPc = "idle"
        BY <3>1 DEF Plain, Excused
      <3>3. CASE NothingHeld
        BY <1>0, <2>3, <3>1, <3>2, <3>3 DEF shutdownContainer, NothingHeld, MachineFits, ContainerTyped, Holdings, Quiet
      <3>4. CASE ~NothingHeld
        <4>1. held' = [held EXCEPT !.stream = FALSE] /\ stopPc' = IF held.containerId THEN "soft" ELSE "rm"
          BY <2>3, <3>4 DEF shutdownContainer
        <4> QED
          BY <1>0, <3>1, <3>2, <4>1 DEF MachineFits, ContainerTyped, Holdings, Quiet
      <3> QED
        BY <3>3, <3>4
    <2>4. CASE StopStep
      BY <2>4, StopKept
    <2>5. CASE ContainerExits
      BY <1>0, <2>5 DEF ContainerExits, MachineFits, Plain, Excused, ContainerTyped, Machine, Quiet
    <2>6. CASE Dies
      BY <2>6 DEF Dies, MachineFits, Plain, Excused
    <2>7. CASE containerEgressPreflight
      BY <1>0, <2>7 DEF containerEgressPreflight, Works, Fault, MachineFits, Plain, Excused, Quiet
    <2>8. CASE UNCHANGED containerVars
      BY <1>0, <2>8 DEF containerVars, MachineFits, Plain, Excused, Quiet
    <2> QED
      BY <2>1, <2>2, <2>3, <2>4, <2>5, <2>6, <2>7, <2>8 DEF ContainerNext
  <1>2. AfterDeath'
    <2>1. CASE startContainer \/ shutdownContainer
      <3>1. containerCalls < MaxContainerCalls /\ UNCHANGED <<box, preflight>>
            /\ ("died" \in excuse' => "died" \in excuse)
        BY <2>1 DEF startContainer, shutdownContainer
      <3> QED
        BY <1>0, <3>1, ContainerAssumption DEF AfterDeath
    <2>2. CASE StartStep \/ StopStep
      <3>1. ("died" \in excuse' => "died" \in excuse) /\ preflight' = preflight /\ ~Quiet
        BY <2>2 DEF StartStep, assertDockerReachable, ensureNetwork, defaultWritePolicyFile, runContainer,
           resolveHostPort, StartCleans, PolicyCleaned, SoftKill, HardKill, StopStep, StopKills, reapNetwork, StopCleans,
           StartThrows, Works, Fault, Quiet
      <3> QED
        BY <1>0, <3>1 DEF AfterDeath
    <2>3. CASE ContainerExits
      BY <1>0, <2>3 DEF ContainerExits, AfterDeath, Quiet, ContainerTyped, Machine
    <2>4. CASE Dies
      BY <1>0, <2>4 DEF Dies, AfterDeath, Quiet
    <2>5. CASE containerEgressPreflight
      BY <1>0, <2>5 DEF containerEgressPreflight, Works, Fault, AfterDeath, Quiet
    <2>6. CASE UNCHANGED containerVars
      BY <1>0, <2>6 DEF containerVars, AfterDeath, Quiet
    <2> QED
      BY <2>1, <2>2, <2>3, <2>4, <2>5, <2>6 DEF ContainerNext
  <1> QED
    BY <1>0, <1>1, <1>2 DEF ContainerInv

\* The inductive invariant of the container, for any number of calls and of docker commands
\* that fail, or fail having done what they should.
THEOREM ContainerInvariant == ContainerSpec => []ContainerInv
  BY ContainerInitInv, ContainerInvKept, PTL DEF ContainerSpec

\* What start and shutdown leave on the machine is what the handle holds, a shutdown that has
\* resolved leaves nothing, and the preflight passes over no container of a dead process.
THEOREM ContainersCorrect == ContainerSpec => []ContainerSound
  <1>1. ContainerInv => ContainerSound
    <2> SUFFICES ASSUME ContainerInv PROVE ContainerSound
      OBVIOUS
    <2>1. LeftIsHeld
      <3>1. CASE Plain
        BY <3>1 DEF ContainerInv, MachineFits, LeftIsHeld, Quiet, Excused
      <3>2. CASE ~Plain
        BY <3>2 DEF LeftIsHeld, Plain, Excused
      <3> QED
        BY <3>1, <3>2
    <2>2. ShutdownLeavesNothing
      <3>1. CASE Plain
        BY <3>1 DEF ContainerInv, MachineFits, ShutdownLeavesNothing, Excused
      <3>2. CASE ~Plain
        BY <3>2 DEF ShutdownLeavesNothing, Plain, Excused
      <3> QED
        BY <3>1, <3>2
    <2>3. PreflightHonest
      BY DEF ContainerInv, AfterDeath, PreflightHonest
    <2> QED
      BY <2>1, <2>2, <2>3 DEF ContainerSound
  <1> QED
    BY <1>1, ContainerInvariant, PTL

-----------------------------------------------------------------------------
(* The CI gate. *)

\* The status of a run of one workflow is that of the workflow.
LEMMA OneWorkflow ==
    ASSUME NEW flow
    PROVE  parseRunState(<<flow>>) = mapToTriStatus(flow.status, flow.jobs)
  <1> DEFINE all == [w \in DOMAIN <<flow>> |-> summarizeWorkflow(<<flow>>[w])]
  <1>1. all # <<>> /\ DOMAIN all = {1} /\ all[1].status = mapToTriStatus(flow.status, flow.jobs)
    <2>1. DOMAIN <<flow>> = {1} /\ <<flow>>[1] = flow /\ DOMAIN <<>> = {}
      OBVIOUS
    <2> QED
      BY <2>1 DEF summarizeWorkflow
  <1>2. mapToTriStatus(flow.status, flow.jobs) \in {"green", "red", "unknown"}
    BY DEF mapToTriStatus
  <1> HIDE DEF all
  <1>3. deriveRunStatus(all) = all[1].status
    BY <1>1, <1>2 DEF deriveRunStatus
  <1> QED
    BY <1>1, <1>3 DEF parseRunState, all

\* A run is green only if each of its workflows is.
LEMMA TwoWorkflows ==
    ASSUME NEW flow, NEW other, parseRunState(<<flow, other>>) = "green"
    PROVE  /\ mapToTriStatus(flow.status, flow.jobs) = "green"
           /\ mapToTriStatus(other.status, other.jobs) = "green"
  <1> DEFINE all == [w \in DOMAIN <<flow, other>> |-> summarizeWorkflow(<<flow, other>>[w])]
  <1>1. /\ DOMAIN all = {1, 2}
        /\ all[1].status = mapToTriStatus(flow.status, flow.jobs)
        /\ all[2].status = mapToTriStatus(other.status, other.jobs)
    <2>1. DOMAIN <<flow, other>> = {1, 2} /\ <<flow, other>>[1] = flow /\ <<flow, other>>[2] = other
      OBVIOUS
    <2> QED
      BY <2>1 DEF summarizeWorkflow
  <1> HIDE DEF all
  <1>2. deriveRunStatus(all) = "green"
    BY DEF parseRunState, all
  <1> QED
    BY <1>1, <1>2 DEF deriveRunStatus

\* An early red stays red whatever follows, and green is not said over a failed job, for any
\* number of jobs.
LEMMA StatusProjection == EarlyRedStays
  <1>1. ASSUME NEW flow \in Flows, NEW later \in Flows, flow.status = "running",
               later.status \in {"running", "failed"}, Settles(flow.jobs, later.jobs),
               parseRunState(<<flow>>) = "red"
        PROVE  parseRunState(<<later>>) = "red"
    <2>1. PICK j \in DOMAIN flow.jobs : flow.jobs[j] \in {"failed", "paused"}
      BY <1>1, OneWorkflow DEF mapToTriStatus
    <2>2. j \in DOMAIN later.jobs /\ later.jobs[j] \in {"failed", "paused"}
      BY <1>1, <2>1 DEF Settles
    <2> QED
      BY <1>1, <2>2, OneWorkflow DEF mapToTriStatus
  <1>2. ASSUME NEW flow \in Flows, NEW other \in Flows, parseRunState(<<flow, other>>) = "green",
               NEW wf \in {flow, other}
        PROVE  wf.status = "completed" \/ \A j \in DOMAIN wf.jobs : jobStatus(wf.jobs[j]) = "green"
    <2>1. mapToTriStatus(wf.status, wf.jobs) = "green"
      BY <1>2, TwoWorkflows
    <2> QED
      BY <2>1 DEF mapToTriStatus, jobStatus
  <1> QED
    BY <1>1, <1>2 DEF EarlyRedStays

\* What CHOOSE takes for the newest of any directories.
RunDirs == Nat \cup {diffRunDirs(before, after) : before \in SUBSET Nat, after \in SUBSET Nat}

GateState ==
    [pc : {"idle", "waiting", "settled"}, before : SUBSET Nat, reject : BOOLEAN, aborted : BOOLEAN,
     reaper : BOOLEAN, names : SUBSET Gates, runDir : RunDirs,
     status : {"none", "thrown", "green", "red", "unknown"}, event : {"none", "CIRed", "PatchReady"}]
AgentState ==
    [state : {"none", "up", "gone"}, dir : Nat, container : BOOLEAN, reaped : BOOLEAN,
     job : {"queued", "running", "completed", "failed"}, flow : {"running", "completed", "failed"}, code : Int]

GateTyped ==
    /\ gates \in [Gates -> GateState]
    /\ agent \in [Gates -> AgentState]

\* Run directories are numbered without gaps and belong to one process each.
DirsApart ==
    /\ Directories = 1..Cardinality(Directories)
    /\ \A g, h \in Gates : agent[g].dir = agent[h].dir /\ agent[g].dir # 0 => g = h

\* While a gate waits that no other gate's directory has crossed, the only new directory is its
\* own process's; once it has settled, that process is gone and its answer is about it.
OwnRun ==
    \A g \in Gates :
        /\ gates[g].pc = "idle" => agent[g].state = "none" /\ gates[g].runDir = 0 /\ gates[g].event = "none"
        /\ agent[g].state = "none" => agent[g].dir = 0
        /\ agent[g].flow # "running" => agent[g].state = "gone" /\ agent[g].flow = agent[g].job
        /\ gates[g].pc = "waiting" =>
              /\ gates[g].before \subseteq Directories /\ agent[g].dir \notin gates[g].before
              /\ g \notin mixed => Directories \subseteq gates[g].before \cup {agent[g].dir}
        /\ gates[g].pc = "settled" => agent[g].state # "up"
        /\ gates[g].pc = "settled" /\ g \notin mixed =>
              /\ gates[g].runDir \in {0, agent[g].dir}
              /\ gates[g].status = "green" => agent[g].job = "completed"
              /\ gates[g].status = "red" => agent[g].job = "failed"
              /\ gates[g].event = "CIRed" <=> gates[g].status = "red"

\* A reaper is a consequence of an abort.
ReapersFit ==
    \A g \in Gates :
        /\ gates[g].reaper \/ gates[g].names # {} => gates[g].aborted
        /\ agent[g].reaped => \E h \in Gates : gates[h].aborted

GateInv == GateTyped /\ DirsApart /\ OwnRun /\ ReapersFit

LEMMA GateInitInv == GateInit => GateInv
  <1> SUFFICES ASSUME GateInit PROVE GateInv
    OBVIOUS
  <1>1. GateTyped
    BY DEF GateInit, GateTyped, GateState, AgentState, RunDirs
  <1>2. Directories = {} /\ \A g \in Gates : agent[g].dir = 0
    BY DEF GateInit, Directories
  <1>3. DirsApart
    BY <1>2, FS_EmptySet DEF DirsApart
  <1>4. OwnRun /\ ReapersFit
    BY <1>2 DEF GateInit, OwnRun, ReapersFit
  <1> QED
    BY <1>1, <1>3, <1>4 DEF GateInv

\* There are as many directories as there are processes that made one.
LEMMA DirsFinite ==
    ASSUME GateTyped
    PROVE  IsFiniteSet(Directories) /\ Cardinality(Directories) \in Nat
  <1> DEFINE f == [h \in Gates |-> agent[h].dir]
             T == {agent[h].dir : h \in Gates}
  <1>1. f \in Surjection(Gates, T)
    BY DEF Surjection
  <1>2. IsFiniteSet(T)
    BY <1>1, GateAssumption, FS_Surjection
  <1>3. IsFiniteSet(Directories)
    BY <1>2, FS_Subset DEF Directories
  <1> QED
    BY <1>3, FS_CardinalityType

\* The next directory is new, and keeps the numbering without gaps.
LEMMA NextDirNew ==
    ASSUME GateTyped, DirsApart
    PROVE  /\ NextDir \in Nat \ {0} /\ NextDir \notin Directories
           /\ Directories \cup {NextDir} = 1..Cardinality(Directories \cup {NextDir})
  <1> DEFINE n == Cardinality(Directories)
  <1>1. n \in Nat /\ Directories = 1..n /\ NextDir = n + 1
    BY DirsFinite DEF DirsApart, NextDir
  <1>2. NextDir \notin Directories
    BY <1>1
  <1>3. Cardinality(Directories \cup {NextDir}) = n + 1
    BY <1>2, DirsFinite, FS_AddElement DEF NextDir
  <1>4. 1..(n + 1) = 1..n \cup {n + 1}
    BY <1>1
  <1> QED
    BY <1>1, <1>2, <1>3, <1>4

\* The newest of one directory, of none.
LEMMA OneNewDir ==
    ASSUME NEW before, NEW after, NEW d \in Nat, after \subseteq before \cup {d}, d \notin before
    PROVE  diffRunDirs(before, after) = IF d \in after THEN d ELSE 0
  <1>1. CASE d \in after
    <2>1. after \ before = {d}
      BY <1>1
    <2>2. (CHOOSE x \in {d} : \A y \in {d} : y <= x) = d
      OBVIOUS
    <2> QED
      BY <1>1, <2>1, <2>2 DEF diffRunDirs
  <1>2. CASE d \notin after
    BY <1>2 DEF diffRunDirs
  <1> QED
    BY <1>1, <1>2

\* What the run of a process says of its job: an agent-ci that has exited may not have flushed.
LEMMA StatusOfRun ==
    ASSUME NEW flow, NEW job
    PROVE  LET status == parseRunState(<<[status |-> flow, jobs |-> <<job>>]>>)
           IN /\ status \in {"green", "red", "unknown"}
              /\ status = "green" => flow = "completed" \/ job = "completed"
              /\ status = "red" => flow = "failed" \/ job \in {"failed", "paused"}
  <1> DEFINE run == [status |-> flow, jobs |-> <<job>>]
  <1>1. parseRunState(<<run>>) = mapToTriStatus(flow, <<job>>)
    BY OneWorkflow
  <1>2. DOMAIN <<job>> = {1} /\ <<job>>[1] = job
    OBVIOUS
  <1> QED
    BY <1>1, <1>2 DEF mapToTriStatus

\* The gates and their processes keep their types.
LEMMA GateTypeKept == GateTyped /\ DirsApart /\ [GateNext]_gateVars => GateTyped'
  <1> SUFFICES ASSUME GateTyped, DirsApart, [GateNext]_gateVars PROVE GateTyped'
    OBVIOUS
  <1>0. /\ gates \in [Gates -> GateState] /\ agent \in [Gates -> AgentState]
        /\ \A g \in Gates : gates[g] \in GateState /\ agent[g] \in AgentState
    BY DEF GateTyped
  <1>a. Directories \in SUBSET Nat
    BY <1>0 DEF Directories, AgentState
  <1>b. 0 \in RunDirs /\ \A before \in SUBSET Nat : diffRunDirs(before, Directories) \in RunDirs
    BY <1>a DEF RunDirs
  <1>c. ASSUME NEW g \in Gates, NEW x \in GateState, gates' = [gates EXCEPT ![g] = x], agent' = agent
        PROVE  GateTyped'
    BY <1>0, <1>c DEF GateTyped
  <1>d. ASSUME NEW g \in Gates, NEW x \in AgentState, agent' = [agent EXCEPT ![g] = x], gates' = gates
        PROVE  GateTyped'
    BY <1>0, <1>d DEF GateTyped
  <1>1. ASSUME NEW g \in Gates, GateBootError(g) PROVE GateTyped'
    <2>1. [gates[g] EXCEPT !.pc = "settled", !.status = "thrown"] \in GateState
      BY <1>0 DEF GateState
    <2> QED
      BY <1>1, <1>c, <2>1 DEF GateBootError
  <1>2. ASSUME NEW g \in Gates, NEW reject \in BOOLEAN, StartGate(g, reject) PROVE GateTyped'
    <2>1. [gates[g] EXCEPT !.pc = "waiting", !.reaper = gates[g].aborted,
                           !.before = Directories, !.reject = reject] \in GateState
      BY <1>0, <1>a DEF GateState
    <2>2. [agent[g] EXCEPT !.state = "up"] \in AgentState
      BY <1>0 DEF AgentState
    <2> QED
      BY <1>0, <1>2, <2>1, <2>2 DEF StartGate, GateTyped
  <1>3. ASSUME NEW g \in Gates, AbortGate(g) PROVE GateTyped'
    <2>1. [gates[g] EXCEPT !.aborted = TRUE, !.reaper = gates[g].pc = "waiting"] \in GateState
      BY <1>0 DEF GateState
    <2>2. /\ gates' = [gates EXCEPT ![g] = [gates[g] EXCEPT !.aborted = TRUE, !.reaper = gates[g].pc = "waiting"]]
          /\ agent' = agent
      BY <1>0, <1>3 DEF AbortGate
    <2> QED
      BY <1>c, <2>1, <2>2
  <1>4. ASSUME NEW g \in Gates, ReaperLists(g) PROVE GateTyped'
    <2>1. [gates[g] EXCEPT !.reaper = FALSE, !.names = {h \in Gates : agent[h].container}] \in GateState
      BY <1>0 DEF GateState
    <2> QED
      BY <1>4, <1>c, <2>1 DEF ReaperLists
  <1>5. ASSUME NEW g \in Gates, defaultDockerReaper(g) PROVE GateTyped'
    <2>1. [gates[g] EXCEPT !.names = {}] \in GateState
      BY <1>0 DEF GateState
    <2>2. \A h \in Gates : [agent[h] EXCEPT !.container = FALSE, !.reaped = TRUE] \in AgentState
      BY <1>0 DEF AgentState
    <2> QED
      BY <1>0, <1>5, <2>1, <2>2 DEF defaultDockerReaper, GateTyped
  <1>6. ASSUME NEW g \in Gates, runGate(g) PROVE GateTyped'
    <2> DEFINE d == diffRunDirs(gates[g].before, Directories)
               verdict(readable) ==
                         IF gates[g].reject /\ agent[g].code # 0 THEN "thrown"
                         ELSE IF ~readable THEN "none"
                         ELSE parseRunState(<<[status |-> RunIn(d).flow, jobs |-> <<RunIn(d).job>>]>>)
    <2>1. d \in RunDirs
      BY <1>0, <1>b DEF GateState
    <2>p. PICK readable \in Readable(d) :
            gates' = [gates EXCEPT ![g].pc = "settled", ![g].status = verdict(readable),
                         ![g].runDir = IF verdict(readable) = "thrown" THEN 0 ELSE d,
                         ![g].event = IF verdict(readable) \in {"thrown", "none"} THEN "none" ELSE toDomainEvent(verdict(readable))]
      BY <1>6 DEF runGate
    <2> DEFINE status == verdict(readable)
    <2>2. status \in {"none", "thrown", "green", "red", "unknown"}
      BY StatusOfRun
    <2>3. gates' = [gates EXCEPT ![g].pc = "settled", ![g].status = status,
                                 ![g].runDir = IF status = "thrown" THEN 0 ELSE d,
                                 ![g].event = IF status \in {"thrown", "none"} THEN "none" ELSE toDomainEvent(status)]
          /\ agent' = agent
      BY <1>6, <2>p DEF runGate
    <2> DEFINE dir == IF status = "thrown" THEN 0 ELSE d
               event == IF status \in {"thrown", "none"} THEN "none" ELSE toDomainEvent(status)
    <2>4. event \in {"none", "CIRed", "PatchReady"}
      BY DEF toDomainEvent
    <2> HIDE DEF d, status
    <2>5. dir \in RunDirs
      BY <1>b, <2>1
    <2>6. gates' = [gates EXCEPT ![g] = [gates[g] EXCEPT !.pc = "settled", !.status = status, !.runDir = dir, !.event = event]]
      BY <1>0, <2>3
    <2> HIDE DEF dir, event
    <2>7. [gates[g] EXCEPT !.pc = "settled", !.status = status, !.runDir = dir, !.event = event] \in GateState
      BY <1>0, <2>2, <2>4, <2>5 DEF GateState
    <2> QED
      BY <1>c, <2>3, <2>6, <2>7
  <1>7. ASSUME NEW g \in Gates, AgentBoots(g) PROVE GateTyped'
    <2>1. [agent[g] EXCEPT !.dir = NextDir, !.container = TRUE, !.job = "running"] \in AgentState
      BY <1>0, NextDirNew DEF AgentState
    <2>2. /\ agent' = [agent EXCEPT ![g] = [agent[g] EXCEPT !.dir = NextDir, !.container = TRUE, !.job = "running"]]
          /\ gates' = gates
      BY <1>0, <1>7 DEF AgentBoots
    <2> QED
      BY <1>d, <2>1, <2>2
  <1>8. ASSUME NEW g \in Gates, AgentJob(g) PROVE GateTyped'
    <2>1. \A job \in {"completed", "failed"} : [agent[g] EXCEPT !.job = job, !.container = FALSE] \in AgentState
      BY <1>0 DEF AgentState
    <2>2. \E job \in {"completed", "failed"} :
             agent' = [agent EXCEPT ![g] = [agent[g] EXCEPT !.job = job, !.container = FALSE]] /\ gates' = gates
      BY <1>0, <1>8 DEF AgentJob
    <2> QED
      BY <1>d, <2>1, <2>2
  <1>9. ASSUME NEW g \in Gates, AgentExits(g) PROVE GateTyped'
    <2>1. PICK code \in {0, 1}, flow \in {agent[g].flow, agent[g].job} :
             /\ agent' = [agent EXCEPT ![g] = [agent[g] EXCEPT !.state = "gone", !.code = code, !.flow = flow]]
             /\ flow = agent[g].flow \/ agent[g].job \in {"completed", "failed"}
             /\ gates' = gates
      BY <1>9 DEF AgentExits
    <2>2. flow \in {"running", "completed", "failed"} /\ code \in Int
      BY <1>0, <2>1 DEF AgentState
    <2>3. [agent[g] EXCEPT !.state = "gone", !.code = code, !.flow = flow] \in AgentState
      BY <1>0, <2>2 DEF AgentState
    <2> QED
      BY <1>d, <2>1, <2>3
  <1>10. CASE UNCHANGED gateVars
    BY <1>10 DEF gateVars, GateTyped
  <1> QED
    BY <1>1, <1>2, <1>3, <1>4, <1>5, <1>6, <1>7, <1>8, <1>9, <1>10 DEF GateNext

\* Only a process that starts work makes a directory.
LEMMA DirsKept ==
    ASSUME GateTyped, DirsApart, \A h \in Gates : agent'[h].dir = agent[h].dir
    PROVE  Directories' = Directories /\ DirsApart'
  <1>1. Directories' = Directories
    BY DEF Directories
  <1> QED
    BY <1>1 DEF DirsApart

\* A process boots: its directory is new to every gate that waits, and of the others each is
\* noted down as mixed.
LEMMA BootKept ==
    ASSUME GateInv, GateTyped', NEW g \in Gates, AgentBoots(g)
    PROVE  DirsApart' /\ OwnRun'
  <1>0. GateTyped /\ DirsApart /\ OwnRun
    BY DEF GateInv
  <1>1. /\ agent[g].state = "up" /\ agent[g].dir = 0 /\ gates' = gates
        /\ mixed' = mixed \cup {h \in Gates \ {g} : gates[h].pc = "waiting"}
        /\ agent'[g].dir = NextDir /\ agent'[g].state = "up" /\ agent'[g].job = "running"
        /\ agent'[g].flow = agent[g].flow
        /\ \A h \in Gates \ {g} : agent'[h] = agent[h]
    BY <1>0 DEF AgentBoots, Up, GateTyped, AgentState
  <1>2. NextDir \in Nat \ {0} /\ NextDir \notin Directories
    BY <1>0, NextDirNew
  <1>3. Directories' = Directories \cup {NextDir}
    BY <1>1, <1>2 DEF Directories
  <1>4. Directories' = 1..Cardinality(Directories')
    BY <1>0, <1>3, NextDirNew
  <1>5. DirsApart'
    BY <1>0, <1>1, <1>2, <1>4 DEF DirsApart, Directories
  <1>6. ASSUME NEW h \in Gates PROVE OwnRun!(h)'
    <2>1. CASE h = g
      <3>1. 0 \notin Directories
        BY DEF Directories
      <3> QED
        BY <1>0, <1>1, <1>2, <1>3, <2>1, <3>1 DEF OwnRun
    <2>2. CASE h # g
      BY <1>0, <1>1, <1>2, <1>3, <2>2 DEF OwnRun
    <2> QED
      BY <2>1, <2>2
  <1> QED
    BY <1>5, <1>6 DEF OwnRun

\* A gate that has seen its process exit answers for that process.
LEMMA AnswerKept ==
    ASSUME GateInv, GateTyped', NEW g \in Gates, runGate(g)
    PROVE  OwnRun'
  <1> DEFINE d == diffRunDirs(gates[g].before, Directories)
             verdict(readable) ==
                       IF gates[g].reject /\ agent[g].code # 0 THEN "thrown"
                       ELSE IF ~readable THEN "none"
                       ELSE parseRunState(<<[status |-> RunIn(d).flow, jobs |-> <<RunIn(d).job>>]>>)
  <1>0. GateTyped /\ DirsApart /\ OwnRun
    BY DEF GateInv
  <1>p. PICK readable \in Readable(d) :
          gates' = [gates EXCEPT ![g].pc = "settled", ![g].status = verdict(readable),
                       ![g].runDir = IF verdict(readable) = "thrown" THEN 0 ELSE d,
                       ![g].event = IF verdict(readable) \in {"thrown", "none"} THEN "none" ELSE toDomainEvent(verdict(readable))]
    BY DEF runGate
  <1> DEFINE status == verdict(readable)
  <1>r. d = 0 => ~readable
    BY <1>p DEF Readable
  <1>1. /\ gates[g].pc = "waiting" /\ agent[g].state = "gone" /\ UNCHANGED <<agent, mixed>>
        /\ gates' = [gates EXCEPT ![g].pc = "settled", ![g].status = status,
                                  ![g].runDir = IF status = "thrown" THEN 0 ELSE d,
                                  ![g].event = IF status \in {"thrown", "none"} THEN "none" ELSE toDomainEvent(status)]
    BY <1>p DEF runGate
  <1>2. ASSUME g \notin mixed
        PROVE  /\ d \in {0, agent[g].dir}
               /\ status = "green" => agent[g].job = "completed"
               /\ status = "red" => agent[g].job = "failed"
    <2>1. /\ Directories \subseteq gates[g].before \cup {agent[g].dir}
          /\ agent[g].dir \notin gates[g].before /\ agent[g].dir \in Nat
      BY <1>0, <1>1, <1>2 DEF OwnRun, GateTyped, AgentState
    <2>2. d \in {0, agent[g].dir}
      BY <2>1, OneNewDir
    <2>3. CASE d # 0
      <3>1. d = agent[g].dir
        BY <2>2, <2>3
      <3>2. (CHOOSE h \in Gates : agent[h].dir = d) = g
        BY <1>0, <2>3, <3>1 DEF DirsApart
      <3>3. RunIn(d) = agent[g]
        BY <3>2 DEF RunIn
      <3>4. agent[g].flow # "running" => agent[g].flow = agent[g].job
        BY <1>0 DEF OwnRun
      <3>5. agent[g] \in AgentState
        BY <1>0 DEF GateTyped
      <3>6. /\ status = "green" => agent[g].flow = "completed" \/ agent[g].job = "completed"
            /\ status = "red" => agent[g].flow = "failed" \/ agent[g].job \in {"failed", "paused"}
        BY <2>3, <3>3, StatusOfRun
      <3> QED
        BY <2>2, <3>4, <3>5, <3>6 DEF AgentState
    <2>4. CASE d = 0
      BY <1>r, <2>2, <2>4
    <2> QED
      BY <2>3, <2>4
  <1> HIDE DEF d, status
  <1>3. /\ gates'[g].pc = "settled" /\ gates'[g].status = status
        /\ gates'[g].runDir = IF status = "thrown" THEN 0 ELSE d
        /\ gates'[g].event = IF status \in {"thrown", "none"} THEN "none" ELSE toDomainEvent(status)
        /\ \A h \in Gates \ {g} : gates'[h] = gates[h]
    BY <1>0, <1>1 DEF GateTyped, GateState
  <1>4. gates'[g].event = "CIRed" <=> gates'[g].status = "red"
    BY <1>3 DEF toDomainEvent
  <1>5. Directories' = Directories /\ agent' = agent /\ mixed' = mixed
    BY <1>1 DEF Directories
  <1>6. ASSUME NEW h \in Gates PROVE OwnRun!(h)'
    <2>1. CASE h = g
      BY <1>0, <1>1, <1>2, <1>3, <1>4, <1>5, <2>1 DEF OwnRun
    <2>2. CASE h # g
      BY <1>0, <1>3, <1>5, <2>2 DEF OwnRun
    <2> QED
      BY <2>1, <2>2
  <1> QED
    BY <1>6 DEF OwnRun

\* A reaper only runs for a gate that was aborted, and an abort is not taken back.
LEMMA ReapersKept ==
    ASSUME GateInv, GateTyped', [GateNext]_gateVars
    PROVE  ReapersFit'
  <1>0. /\ GateTyped /\ ReapersFit
        /\ \A g \in Gates : gates[g] \in GateState /\ agent[g] \in AgentState
    BY DEF GateInv, GateTyped
  <1>1. ASSUME \A h \in Gates : gates[h].aborted => gates'[h].aborted,
               \A h \in Gates : gates'[h].reaper \/ gates'[h].names # {} => gates'[h].aborted,
               \A h \in Gates : agent'[h].reaped => agent[h].reaped \/ \E q \in Gates : gates[q].aborted
        PROVE  ReapersFit'
    BY <1>0, <1>1 DEF ReapersFit
  <1>2. ASSUME NEW g \in Gates, GateBootError(g) \/ runGate(g) PROVE ReapersFit'
    <2>1. /\ agent' = agent /\ gates[g] \in GateState
          /\ \A h \in Gates \ {g} : gates'[h] = gates[h]
          /\ gates'[g].reaper = gates[g].reaper /\ gates'[g].names = gates[g].names /\ gates'[g].aborted = gates[g].aborted
      <3>1. CASE GateBootError(g)
        BY <1>0, <3>1 DEF GateBootError, GateTyped, GateState
      <3>2. CASE runGate(g)
        <4>1. /\ agent' = agent
              /\ \E status, dir, event : gates' = [gates EXCEPT ![g].pc = "settled", ![g].status = status,
                                                  ![g].runDir = dir, ![g].event = event]
          <5> DEFINE d == diffRunDirs(gates[g].before, Directories)
                     status(readable) ==
                       IF gates[g].reject /\ agent[g].code # 0 THEN "thrown"
                       ELSE IF ~readable THEN "none"
                       ELSE parseRunState(<<[status |-> RunIn(d).flow, jobs |-> <<RunIn(d).job>>]>>)
                     dir(readable) == IF status(readable) = "thrown" THEN 0 ELSE d
                     event(readable) == IF status(readable) \in {"thrown", "none"} THEN "none" ELSE toDomainEvent(status(readable))
          <5>1. /\ agent' = agent
                /\ \E readable \in Readable(d) :
                     gates' = [gates EXCEPT ![g].pc = "settled", ![g].status = status(readable),
                                            ![g].runDir = dir(readable), ![g].event = event(readable)]
            BY <3>2 DEF runGate
          <5> HIDE DEF d, status, dir, event
          <5> QED
            BY <5>1
        <4> QED
          BY <1>0, <4>1 DEF GateTyped, GateState
      <3> QED
        BY <1>2, <3>1, <3>2
    <2> QED
      BY <1>0, <2>1 DEF ReapersFit
  <1>3. ASSUME NEW g \in Gates, NEW reject \in BOOLEAN, StartGate(g, reject) PROVE ReapersFit'
    BY <1>0, <1>1, <1>3 DEF StartGate, GateTyped, GateState, AgentState, ReapersFit
  <1>4. ASSUME NEW g \in Gates, AbortGate(g) \/ ReaperLists(g) PROVE ReapersFit'
    BY <1>0, <1>1, <1>4 DEF AbortGate, ReaperLists, GateTyped, GateState, ReapersFit
  <1>5. ASSUME NEW g \in Gates, defaultDockerReaper(g) PROVE ReapersFit'
    <2>1. gates[g].aborted
      BY <1>0, <1>5 DEF defaultDockerReaper, ReapersFit
    <2>2. /\ gates'[g] = [gates[g] EXCEPT !.names = {}]
          /\ \A h \in Gates \ {g} : gates'[h] = gates[h]
      BY <1>0, <1>5 DEF defaultDockerReaper, GateTyped
    <2>3. \A h \in Gates : gates'[h].aborted = gates[h].aborted /\ gates'[h].reaper = gates[h].reaper
                          /\ (gates'[h].names # {} => gates[h].names # {})
      BY <1>0, <2>2 DEF GateState
    <2> QED
      BY <1>0, <1>1, <2>1, <2>3 DEF ReapersFit
  <1>6. ASSUME NEW g \in Gates, AgentBoots(g) \/ AgentJob(g) \/ AgentExits(g) PROVE ReapersFit'
    <2>1. gates' = gates /\ \A h \in Gates \ {g} : agent'[h] = agent[h]
      BY <1>0, <1>6 DEF AgentBoots, AgentJob, AgentExits, GateTyped
    <2>2. agent'[g].reaped = agent[g].reaped
      <3>1. CASE AgentBoots(g)
        BY <1>0, <3>1 DEF AgentBoots, GateTyped, AgentState
      <3>2. CASE AgentJob(g)
        BY <1>0, <3>2 DEF AgentJob, GateTyped, AgentState
      <3>3. CASE AgentExits(g)
        BY <1>0, <3>3 DEF AgentExits, GateTyped, AgentState
      <3> QED
        BY <1>6, <3>1, <3>2, <3>3
    <2> QED
      BY <1>0, <1>1, <2>1, <2>2 DEF ReapersFit
  <1>7. CASE UNCHANGED gateVars
    BY <1>0, <1>1, <1>7 DEF gateVars, ReapersFit
  <1> QED
    BY <1>2, <1>3, <1>4, <1>5, <1>6, <1>7 DEF GateNext

\* The other steps leave the directories as they are.
LEMMA GateInvKept == GateInv /\ [GateNext]_gateVars => GateInv'
  <1> SUFFICES ASSUME GateInv, [GateNext]_gateVars PROVE GateInv'
    OBVIOUS
  <1>0. /\ GateTyped /\ DirsApart /\ OwnRun /\ GateTyped'
        /\ \A g \in Gates : gates[g] \in GateState /\ agent[g] \in AgentState
    BY GateTypeKept DEF GateInv, GateTyped
  <1>1. ReapersFit'
    BY <1>0, ReapersKept
  <1> DEFINE Same(h) == /\ gates'[h].pc = gates[h].pc /\ gates'[h].before = gates[h].before
                        /\ gates'[h].runDir = gates[h].runDir /\ gates'[h].status = gates[h].status
                        /\ gates'[h].event = gates[h].event
                        /\ agent'[h].state = agent[h].state /\ agent'[h].dir = agent[h].dir
                        /\ agent'[h].flow = agent[h].flow /\ agent'[h].job = agent[h].job
  <1>2. ASSUME \A h \in Gates : agent'[h].dir = agent[h].dir, mixed' = mixed,
               \A h \in Gates : Same(h) \/ (Directories' = Directories => OwnRun!(h)')
        PROVE  GateInv'
    <2>1. Directories' = Directories /\ DirsApart'
      BY <1>0, <1>2, DirsKept
    <2>2. ASSUME NEW h \in Gates, Same(h) PROVE OwnRun!(h)'
      BY <1>0, <1>2, <2>1, <2>2 DEF OwnRun
    <2>3. OwnRun'
      BY <1>2, <2>1, <2>2 DEF OwnRun
    <2> QED
      BY <1>0, <1>1, <2>1, <2>3 DEF GateInv
  <1>3. ASSUME NEW g \in Gates, GateBootError(g) PROVE GateInv'
    <2>1. /\ gates[g].pc = "idle" /\ UNCHANGED <<agent, mixed>>
          /\ gates'[g] = [gates[g] EXCEPT !.pc = "settled", !.status = "thrown"]
          /\ \A h \in Gates \ {g} : gates'[h] = gates[h]
      BY <1>0, <1>3 DEF GateBootError, GateTyped
    <2>2. /\ gates'[g].pc = "settled" /\ gates'[g].status = "thrown"
          /\ gates'[g].runDir = gates[g].runDir /\ gates'[g].event = gates[g].event
      BY <1>0, <2>1 DEF GateState
    <2>3. ASSUME Directories' = Directories PROVE OwnRun!(g)'
      BY <1>0, <2>1, <2>2, <2>3 DEF OwnRun
    <2>4. agent' = agent /\ mixed' = mixed /\ \A h \in Gates \ {g} : Same(h)
      BY <2>1
    <2> HIDE DEF Same
    <2> QED
      BY <1>2, <2>3, <2>4
  <1>4. ASSUME NEW g \in Gates, NEW reject \in BOOLEAN, StartGate(g, reject) PROVE GateInv'
    <2>1. /\ gates[g].pc = "idle" /\ mixed' = mixed
          /\ gates'[g] = [gates[g] EXCEPT !.pc = "waiting", !.reaper = gates[g].aborted,
                                          !.before = Directories, !.reject = reject]
          /\ agent'[g] = [agent[g] EXCEPT !.state = "up"]
          /\ \A h \in Gates \ {g} : gates'[h] = gates[h] /\ agent'[h] = agent[h]
      BY <1>0, <1>4 DEF StartGate, GateTyped
    <2>2. /\ gates'[g].pc = "waiting" /\ gates'[g].before = Directories
          /\ agent'[g].state = "up" /\ agent'[g].dir = agent[g].dir /\ agent'[g].flow = agent[g].flow
      BY <1>0, <2>1 DEF GateState, AgentState
    <2>3. agent[g].dir = 0 /\ agent[g].flow = "running" /\ 0 \notin Directories
      BY <1>0, <2>1 DEF OwnRun, Directories
    <2>4. ASSUME Directories' = Directories PROVE OwnRun!(g)'
      BY <1>0, <2>1, <2>2, <2>3, <2>4 DEF OwnRun
    <2> QED
      BY <1>2, <2>1, <2>2, <2>4
  <1>5. ASSUME NEW g \in Gates, AbortGate(g) \/ ReaperLists(g) PROVE GateInv'
    <2>1. /\ UNCHANGED <<agent, mixed>> /\ \A h \in Gates \ {g} : gates'[h] = gates[h]
          /\ \/ gates'[g] = [gates[g] EXCEPT !.aborted = TRUE, !.reaper = gates[g].pc = "waiting"]
             \/ gates'[g] = [gates[g] EXCEPT !.reaper = FALSE, !.names = {h \in Gates : agent[h].container}]
      BY <1>0, <1>5 DEF AbortGate, ReaperLists, GateTyped
    <2>2. /\ gates'[g].pc = gates[g].pc /\ gates'[g].before = gates[g].before /\ gates'[g].runDir = gates[g].runDir
          /\ gates'[g].status = gates[g].status /\ gates'[g].event = gates[g].event
      BY <1>0, <2>1 DEF GateState
    <2> QED
      BY <1>2, <2>1, <2>2
  <1>6. ASSUME NEW g \in Gates, defaultDockerReaper(g) PROVE GateInv'
    <2>1. /\ mixed' = mixed /\ gates'[g] = [gates[g] EXCEPT !.names = {}]
          /\ \A h \in Gates \ {g} : gates'[h] = gates[h]
          /\ \A h \in Gates : agent'[h] = agent[h] \/ agent'[h] = [agent[h] EXCEPT !.container = FALSE, !.reaped = TRUE]
      BY <1>0, <1>6 DEF defaultDockerReaper, GateTyped
    <2>2. /\ gates'[g].pc = gates[g].pc /\ gates'[g].before = gates[g].before /\ gates'[g].runDir = gates[g].runDir
          /\ gates'[g].status = gates[g].status /\ gates'[g].event = gates[g].event
      BY <1>0, <2>1 DEF GateState
    <2>3. ASSUME NEW h \in Gates
          PROVE  /\ agent'[h].state = agent[h].state /\ agent'[h].dir = agent[h].dir
                 /\ agent'[h].flow = agent[h].flow /\ agent'[h].job = agent[h].job
      <3>1. agent[h] \in AgentState
        BY <1>0
      <3>2. CASE agent'[h] = agent[h]
        BY <3>2
      <3>3. CASE agent'[h] = [agent[h] EXCEPT !.container = FALSE, !.reaped = TRUE]
        BY <3>1, <3>3 DEF AgentState
      <3> QED
        BY <2>1, <3>2, <3>3
    <2>4. mixed' = mixed /\ \A h \in Gates : agent'[h].dir = agent[h].dir
      BY <2>1, <2>3
    <2>5. \A h \in Gates : Same(h)
      BY <2>1, <2>2, <2>3
    <2> HIDE DEF Same
    <2> QED
      BY <1>2, <2>4, <2>5
  <1>7. ASSUME NEW g \in Gates, runGate(g) PROVE GateInv'
    <2>1. agent' = agent
      BY <1>7 DEF runGate
    <2> QED
      BY <1>0, <1>1, <1>7, <2>1, AnswerKept, DirsKept DEF GateInv
  <1>8. ASSUME NEW g \in Gates, AgentBoots(g) PROVE GateInv'
    BY <1>0, <1>1, <1>8, BootKept DEF GateInv
  <1>9. ASSUME NEW g \in Gates, AgentJob(g) PROVE GateInv'
    <2>1. /\ agent[g].state = "up" /\ UNCHANGED <<gates, mixed>>
          /\ \E job \in {"completed", "failed"} : agent'[g] = [agent[g] EXCEPT !.job = job, !.container = FALSE]
          /\ \A h \in Gates \ {g} : agent'[h] = agent[h]
      BY <1>0, <1>9 DEF AgentJob, Up, GateTyped
    <2>2. agent'[g].state = "up" /\ agent'[g].dir = agent[g].dir /\ agent'[g].flow = agent[g].flow
      BY <1>0, <2>1 DEF AgentState
    <2>3. ASSUME Directories' = Directories PROVE OwnRun!(g)'
      BY <1>0, <2>1, <2>2, <2>3 DEF OwnRun
    <2>4. mixed' = mixed /\ \A h \in Gates : agent'[h].dir = agent[h].dir
      BY <2>1, <2>2
    <2>5. \A h \in Gates \ {g} : Same(h)
      BY <2>1
    <2> HIDE DEF Same
    <2> QED
      BY <1>2, <2>3, <2>4, <2>5
  <1>10. ASSUME NEW g \in Gates, AgentExits(g) PROVE GateInv'
    <2>1. /\ agent[g].state = "up" /\ UNCHANGED <<gates, mixed>>
          /\ \E code \in {0, 1}, flow \in {agent[g].flow, agent[g].job} :
                agent'[g] = [agent[g] EXCEPT !.state = "gone", !.code = code, !.flow = flow]
          /\ \A h \in Gates \ {g} : agent'[h] = agent[h]
      BY <1>0, <1>10 DEF AgentExits, Up, GateTyped
    <2>2. /\ agent'[g].state = "gone" /\ agent'[g].dir = agent[g].dir /\ agent'[g].job = agent[g].job
          /\ agent'[g].flow \in {agent[g].flow, agent[g].job}
      BY <1>0, <2>1 DEF AgentState
    <2>3. ASSUME Directories' = Directories PROVE OwnRun!(g)'
      BY <1>0, <2>1, <2>2, <2>3 DEF OwnRun
    <2>4. mixed' = mixed /\ \A h \in Gates : agent'[h].dir = agent[h].dir
      BY <2>1, <2>2
    <2>5. \A h \in Gates \ {g} : Same(h)
      BY <2>1
    <2> HIDE DEF Same
    <2> QED
      BY <1>2, <2>3, <2>4, <2>5
  <1>11. CASE UNCHANGED gateVars
    BY <1>2, <1>11 DEF gateVars
  <1> QED
    BY <1>3, <1>4, <1>5, <1>6, <1>7, <1>8, <1>9, <1>10, <1>11 DEF GateNext

\* The inductive invariant of the gates, for any number of calls of runGate at a time.
THEOREM GateInvariant == GateSpec => []GateInv
  BY GateInitInv, GateInvKept, PTL DEF GateSpec

\* Gates that run at the same time in one working directory do not answer for each other: a
\* verdict is about the gate's own run, unless another's directory appeared while it waited,
\* and what is seen red before agent-ci has flushed stays red.
THEOREM GatesCorrect == GateSpec => []GateSound
  <1>1. GateInv => VerdictIsOwn
    BY DEF GateInv, OwnRun, ReapersFit, VerdictIsOwn
  <1>2. GateInv => GateSound
    BY <1>1, StatusProjection DEF GateSound
  <1> QED
    BY <1>2, GateInvariant, PTL

-----------------------------------------------------------------------------
(* The flow plan-execute-review. *)

\* The nodes in their order.
LEMMA NodesInOrder ==
    /\ Position("plan") = 1 /\ Position("execute") = 2 /\ Position("ci") = 3
    /\ Position("review") = 4 /\ Position("loop") = 5
    /\ Before("execute") = "plan" /\ Before("ci") = "execute" /\ Before("review") = "ci" /\ Before("loop") = "review"
  <1>1. DOMAIN NodeOrder = 1..5
    BY DEF NodeOrder
  <1>2. /\ NodeOrder[1] = "plan" /\ NodeOrder[2] = "execute" /\ NodeOrder[3] = "ci"
        /\ NodeOrder[4] = "review" /\ NodeOrder[5] = "loop"
    BY DEF NodeOrder
  <1>3. \A k \in 1..5 : k \in {1, 2, 3, 4, 5}
    OBVIOUS
  <1>4. Position("plan") = 1 /\ Position("execute") = 2 /\ Position("ci") = 3
    BY <1>1, <1>2, <1>3 DEF Position
  <1>5. Position("review") = 4 /\ Position("loop") = 5
    BY <1>1, <1>2, <1>3 DEF Position
  <1> QED
    BY <1>2, <1>4, <1>5 DEF Before

\* Where a pass is after a node.
LEMMA GoesOn ==
    ASSUME NEW n \in NodeNames, GoOn(n)
    PROVE  step' = [node |-> CASE n = "plan" -> "execute" [] n = "execute" -> "ci" [] n = "ci" -> "review"
                               [] n = "review" -> "loop" [] n = "loop" -> "idle",
                    at |-> IF n = "loop" THEN "flush" ELSE "node"]
  <1>1. /\ NodeOrder[2] = "execute" /\ NodeOrder[3] = "ci"
        /\ NodeOrder[4] = "review" /\ NodeOrder[5] = "loop"
    BY DEF NodeOrder
  <1> QED
    BY <1>1, NodesInOrder DEF GoOn, NodeNames

\* What an agent's last message comes to.
LEMMA AnswersAre ==
    ASSUME NEW blocks \in Messages
    PROVE  parseLastJsonBlock(blocks) \in Verdicts \cup {"none"}
  BY DEF Messages, parseLastJsonBlock, Last, Verdicts

\* What was told of, with one more.
LEMMA RangeAppend ==
    ASSUME NEW S, NEW s \in Seq(S), NEW x \in S
    PROVE  /\ Append(s, x) \in Seq(S) /\ Len(Append(s, x)) = Len(s) + 1 /\ Len(s) \in Nat
           /\ Range(Append(s, x)) = Range(s) \cup {x}
  <1>1. /\ Append(s, x) \in Seq(S) /\ Len(Append(s, x)) = Len(s) + 1 /\ Len(s) \in Nat
        /\ DOMAIN s = 1..Len(s) /\ DOMAIN Append(s, x) = 1..(Len(s) + 1)
        /\ \A k \in 1..Len(s) : Append(s, x)[k] = s[k]
        /\ Append(s, x)[Len(s) + 1] = x
    OBVIOUS
  <1>2. \A k \in 1..(Len(s) + 1) : k \in 1..Len(s) \/ k = Len(s) + 1
    BY <1>1
  <1> QED
    BY <1>1, <1>2 DEF Range

CiState == [status : CiStatuses \cup {"none"}, of : Nat]
Outputs(n) ==
    CASE n = "plan" -> [ok : {TRUE}, value : [plan : {1}]]
      [] n = "execute" -> [ok : {TRUE}, value : [cost : {"exact", "estimate", "unknown"}]]
      [] n = "ci" -> [ok : {TRUE}, value : [status : CiStatuses, of : Nat], run : Nat]
                       \cup [ok : {FALSE}, value : {NoCi}, run : {0}]
      [] n = "review" -> [ok : {TRUE}, value : [verdict : Verdicts, used : 0..MaxIterations]]
      [] n = "loop" -> [ok : {TRUE}, value : [until : {TRUE}]]
TurnStates == {"none", "spawning", "sending", "streaming", "closing", "over", "thrown"}
Turns == {[node |-> "plan", at |-> "turn"], [node |-> "execute", at |-> "turn"],
          [node |-> "review", at |-> "verdict"], [node |-> "review", at |-> "reexecute"]}
Gatings == {[node |-> "ci", at |-> "gate"], [node |-> "review", at |-> "gate"]}
Pauses == [node : NodeNames, at : {"node", "failed"}] \cup [node : {"idle"}, at : {"node", "flush"}]

StepTyped == step \in Turns \cup Gatings \cup Pauses
OutputsTyped ==
    /\ DOMAIN outputs = NodeNames
    /\ \A n \in NodeNames : outputs[n] = <<>> \/ outputs[n] \in Outputs(n)
TurnTyped ==
    turn \in [state : TurnStates, blocks : Messages, costs : SUBSET {"exact", "estimate", "unknown"}, got : Nat]
ReviewTyped ==
    review \in [iteration : 0..MaxIterations, ci : CiState, verdict : Verdicts \cup {"none"}, fresh : BOOLEAN]
ToldTyped ==
    told \in [tripwire : Seq([status : CiStatuses, run : Nat, walk : Nat]), gate : Seq(CiStatuses)]
RowTyped ==
    /\ DOMAIN stateJson = NodeNames
    /\ \A n \in NodeNames : stateJson[n] = <<>> \/ stateJson[n] \in Outputs(n)
PerTyped ==
    /\ StepTyped /\ OutputsTyped /\ TurnTyped /\ ReviewTyped /\ ToldTyped /\ RowTyped
    /\ workspace \in Nat /\ walks \in Nat /\ signal \in BOOLEAN

\* An agent runs where a runner waits for its turn.
TurnFits == step \in Turns <=> turn.state # "none"

\* Nothing is done before what it depends on, and the reviewer works where there is no review yet.
Reviewing == step.node = "review" /\ step.at \notin {"node", "failed"}
DoneFits ==
    /\ outputs["ci"] # <<>> => Succeeded("execute")
    /\ outputs["review"] # <<>> => Succeeded("ci")
    /\ Reviewing => Succeeded("ci") /\ outputs["review"] = <<>>
    /\ step = [node |-> "ci", at |-> "gate"] => Succeeded("execute") /\ outputs["ci"] = <<>>
    /\ step = [node |-> "plan", at |-> "turn"] => outputs["plan"] = <<>>
    /\ step = [node |-> "execute", at |-> "turn"] => outputs["execute"] = <<>>

\* A pass goes on from the row and only adds to it, and the row has nothing before what that
\* depends on.
RowFits ==
    /\ \A n \in NodeNames : stateJson[n] # <<>> => outputs[n] = stateJson[n]
    /\ stateJson["ci"] # <<>> => stateJson["execute"] # <<>>
    /\ stateJson["review"] # <<>> => stateJson["ci"] # <<>> /\ stateJson["ci"].ok

\* What the reviewer decides on: a CI result called fresh is one of the workspace as it stands.
TestedFits ==
    step = [node |-> "review", at |-> "verdict"] =>
        (review.ci.status # "none" /\ review.fresh => review.ci.of = workspace)

\* Times an executor may still work in this pass.
Budget ==
    IF step.node = "plan" \/ step = [node |-> "execute", at |-> "node"] THEN MaxIterations
    ELSE IF step.node \in {"execute", "ci"} \/ step = [node |-> "review", at |-> "node"] THEN MaxIterations - 1
    ELSE IF Reviewing THEN MaxIterations - review.iteration
    ELSE 0
WorkFits ==
    /\ workspace + Budget <= walks * MaxIterations
    /\ step.node # "idle" => walks > 0

\* What the tripwire has heard when: nothing yet in a pass that has not left the CI node, and the
\* result in hand is that of the last run, before the CI node that of the row.
Early == {"plan", "execute", "ci"}
HeardWhen(node, walk) ==
    \A k \in DOMAIN told.tripwire :
        told.tripwire[k].walk <= walk /\ (node \in Early => told.tripwire[k].walk < walk)
LastRun(output) ==
    /\ Len(told.gate) \in DOMAIN told.gate
    /\ output.run = Len(told.gate) /\ output.value.status = told.gate[Len(told.gate)]
ToldFits ==
    /\ TripwireHears /\ HeardWhen(step.node, walks)
    /\ Succeeded("ci") => /\ LastRun(outputs["ci"])
                          /\ step.node \in Early => stateJson["ci"] = outputs["ci"]

PerInv ==
    /\ PerTyped /\ TurnFits /\ NoAgentLeft /\ DoneFits /\ RowFits /\ TestedFits /\ ApprovedIsTested
    /\ WorkFits /\ ToldFits

\* What is persisted is something.
LEMMA OutputsAreSome ==
    ASSUME NEW n \in NodeNames, NEW output \in Outputs(n)
    PROVE  output # <<>> /\ output.ok \in BOOLEAN
  <1>1. DOMAIN output \in {{"ok", "value"}, {"ok", "value", "run"}} /\ output.ok \in BOOLEAN
    BY DEF Outputs, NodeNames
  <1>2. <<>> \in Seq({}) /\ DOMAIN <<>> = {}
    OBVIOUS
  <1>3. "ok" \in DOMAIN output /\ "ok" \notin DOMAIN <<>>
    BY <1>1, <1>2
  <1> QED
    BY <1>1, <1>3

\* A node's output and nobody else's.
LEMMA OutputStored ==
    ASSUME NEW n \in NodeNames, NEW output \in Outputs(n), OutputsTyped, StoreOutput(n, output)
    PROVE  /\ OutputsTyped' /\ outputs'[n] = output /\ (Succeeded(n)' <=> output.ok)
           /\ \A m \in NodeNames \ {n} : outputs'[m] = outputs[m] /\ (Succeeded(m)' <=> Succeeded(m))
  <1>1. /\ DOMAIN outputs' = NodeNames /\ outputs'[n] = output
        /\ \A m \in NodeNames \ {n} : outputs'[m] = outputs[m]
    BY DEF OutputsTyped, StoreOutput
  <1>2. output # <<>>
    BY OutputsAreSome
  <1>3. OutputsTyped'
    BY <1>1 DEF OutputsTyped, Outputs
  <1>4. Succeeded(n)' <=> output.ok
    BY <1>1, <1>2 DEF Succeeded
  <1>5. \A m \in NodeNames \ {n} : Succeeded(m)' <=> Succeeded(m)
    BY <1>1 DEF Succeeded
  <1> QED
    BY <1>1, <1>3, <1>4, <1>5

\* A node that succeeded has an output to reuse.
LEMMA SucceededHas ==
    ASSUME OutputsTyped, NEW n \in NodeNames, Succeeded(n)
    PROVE  outputs[n] # <<>> /\ outputs[n] \in Outputs(n) /\ outputs[n].ok
  BY DEF OutputsTyped, Succeeded

\* The row stays as it is, and what is stored in a pass is new.
LEMMA RowKept ==
    ASSUME PerInv, stateJson' = stateJson, NEW n \in NodeNames, outputs[n] = <<>>,
           \A m \in NodeNames \ {n} : outputs'[m] = outputs[m]
    PROVE  RowTyped' /\ RowFits'
  BY DEF PerInv, PerTyped, RowTyped, RowFits, Outputs

LEMMA RowSame ==
    ASSUME PerInv, UNCHANGED <<outputs, stateJson>>
    PROVE  RowTyped' /\ RowFits'
  BY DEF PerInv, PerTyped, RowTyped, RowFits, Outputs

\* Nothing is told.
LEMMA NothingTold ==
    ASSUME PerInv, UNCHANGED <<told, walks, stateJson>>, outputs'["ci"] = outputs["ci"],
           step'.node \in Early => step.node \in Early
    PROVE  ToldTyped' /\ ToldFits'
  <1>1. told' = told /\ walks' = walks /\ stateJson' = stateJson
    OBVIOUS
  <1>2. ToldTyped' /\ TripwireHears'
    BY <1>1 DEF PerInv, PerTyped, ToldTyped, ToldFits, TripwireHears
  <1>3. HeardWhen(step.node, walks)' /\ (LastRun(outputs["ci"]) <=> LastRun(outputs["ci"])')
    BY <1>1 DEF PerInv, ToldFits, HeardWhen, LastRun
  <1>4. Succeeded("ci")' <=> Succeeded("ci")
    BY DEF Succeeded
  <1> QED
    BY <1>1, <1>2, <1>3, <1>4 DEF PerInv, ToldFits

\* One result more is told: that of a run just made, or of the last one, if the row holds it.
LEMMA OneMoreTold ==
    ASSUME ToldTyped, TripwireHears, walks \in Nat, UNCHANGED <<walks, stateJson>>,
           \A k \in DOMAIN told.tripwire : told.tripwire[k].walk < walks,
           NEW status \in CiStatuses, NEW run \in Nat, NEW gate \in Seq(CiStatuses),
           told' = [tripwire |-> Append(told.tripwire, HeardAs(status, run)), gate |-> gate],
           DOMAIN gate = DOMAIN told.gate \cup {run}, gate[run] = status,
           \A r \in DOMAIN told.gate : gate[r] = told.gate[r] /\ r <= run,
           run \in DOMAIN told.gate => stateJson["ci"] # <<>> /\ stateJson["ci"].run = run
    PROVE  ToldTyped' /\ TripwireHears' /\ \A k \in DOMAIN told'.tripwire : told'.tripwire[k].walk <= walks
  <1> DEFINE H == [status : CiStatuses, run : Nat, walk : Nat]
             s == told.tripwire
             e == HeardAs(status, run)
             n == Len(s)
  <1>1. s \in Seq(H) /\ e \in H /\ e.status = status /\ e.run = run /\ e.walk = walks
    BY DEF ToldTyped, HeardAs
  <1> HIDE DEF e
  <1>2. told'.tripwire = Append(s, e) /\ told'.gate = gate
    BY DEF e
  <1>3. /\ n \in Nat /\ DOMAIN s = 1..n /\ DOMAIN Append(s, e) = 1..(n + 1) /\ Append(s, e) \in Seq(H)
        /\ \A k \in 1..n : Append(s, e)[k] = s[k]
        /\ Append(s, e)[n + 1] = e
    BY <1>1
  <1>4. \A k \in 1..(n + 1) : k \in 1..n \/ k = n + 1
    BY <1>3
  <1>14. \A h \in H : h.run \in Nat /\ h.walk \in Nat
    OBVIOUS
  <1> HIDE DEF H
  <1>5. \A k \in 1..n : s[k] \in H /\ s[k].run \in Nat /\ s[k].walk \in Nat
    BY <1>1, <1>3, <1>14
  <1>6. ToldTyped'
    BY <1>2, <1>3 DEF ToldTyped, e, H
  <1>7. \A k \in 1..(n + 1) : told'.tripwire[k].walk <= walks
    <2>1. ASSUME NEW k \in 1..n PROVE told'.tripwire[k].walk <= walks
      <3>1. told'.tripwire[k] = s[k] /\ k \in DOMAIN s /\ s[k].walk \in Nat
        BY <1>2, <1>3, <1>5
      <3> QED
        BY <3>1
    <2>2. told'.tripwire[n + 1].walk <= walks
      BY <1>1, <1>2, <1>3
    <2> QED
      BY <1>4, <2>1, <2>2
  <1>8. \A k \in 1..n : s[k].run \in DOMAIN told.gate /\ s[k].status = told.gate[s[k].run] /\ s[k].run <= run
    BY <1>3 DEF TripwireHears
  <1> DEFINE t == told'.tripwire
  <1>9. /\ DOMAIN t = 1..(n + 1) /\ \A k \in 1..n : t[k] = s[k]
        /\ t[n + 1] = e
    BY <1>2, <1>3
  <1> HIDE DEF t
  <1>10. ASSUME NEW k \in DOMAIN t PROVE t[k].run \in DOMAIN gate /\ t[k].status = gate[t[k].run]
    <2>1. CASE k \in 1..n
      <3>1. t[k] = s[k]
        BY <1>9, <2>1
      <3> QED
        BY <1>8, <2>1, <3>1
    <2>2. CASE k = n + 1
      BY <1>1, <1>9, <2>2
    <2> QED
      BY <1>4, <1>9, <2>1, <2>2
  <1>11. ASSUME NEW r \in DOMAIN gate PROVE \E k \in DOMAIN t : t[k].run = r
    <2>1. CASE r = run
      <3>1. n + 1 \in DOMAIN t /\ t[n + 1].run = run
        BY <1>1, <1>3, <1>9
      <3> QED
        BY <2>1, <3>1
    <2>2. CASE r \in DOMAIN told.gate
      <3>1. PICK k \in 1..n : s[k].run = r
        BY <1>3, <2>2 DEF TripwireHears
      <3>2. k \in DOMAIN t /\ t[k].run = r
        BY <1>3, <1>9, <3>1
      <3> QED
        BY <3>2
    <2> QED
      BY <2>1, <2>2
  <1>12. ASSUME NEW j \in DOMAIN t, NEW k \in DOMAIN t, j < k
         PROVE  /\ t[j].walk < t[k].walk /\ t[j].run <= t[k].run
                /\ t[j].run = t[k].run => stateJson["ci"] # <<>> /\ stateJson["ci"].run = t[k].run
    <2>1. j \in 1..n
      BY <1>3, <1>4, <1>9, <1>12
    <2>2. CASE k \in 1..n
      <3>1. t[j] = s[j] /\ t[k] = s[k] /\ j \in DOMAIN s /\ k \in DOMAIN s
        BY <1>3, <1>9, <2>1, <2>2
      <3> QED
        BY <1>12, <3>1 DEF TripwireHears
    <2>3. CASE k = n + 1
      <3>1. t[k] = e /\ t[j] = s[j] /\ j \in DOMAIN s
        BY <1>3, <1>9, <2>1, <2>3
      <3>2. t[j].walk < walks /\ t[j].run <= run /\ t[j].run \in DOMAIN told.gate
        BY <1>8, <2>1, <3>1
      <3> QED
        BY <1>1, <3>1, <3>2
    <2> QED
      BY <1>4, <1>9, <2>2, <2>3
  <1>15. told'.tripwire = t /\ told'.gate = gate /\ stateJson' = stateJson
    BY <1>2 DEF t
  <1>13. TripwireHears'
    <2>1. \A k \in DOMAIN told'.tripwire :
             told'.tripwire[k].run \in DOMAIN told'.gate /\ told'.tripwire[k].status = told'.gate[told'.tripwire[k].run]
      BY <1>10, <1>15
    <2>2. \A r \in DOMAIN told'.gate : \E k \in DOMAIN told'.tripwire : told'.tripwire[k].run = r
      BY <1>11, <1>15
    <2>3. \A j, k \in DOMAIN told'.tripwire : j < k =>
             /\ told'.tripwire[j].walk < told'.tripwire[k].walk
             /\ told'.tripwire[j].run <= told'.tripwire[k].run
             /\ told'.tripwire[j].run = told'.tripwire[k].run
                  => stateJson'["ci"] # <<>> /\ stateJson'["ci"].run = told'.tripwire[k].run
      BY <1>12, <1>15
    <2> QED
      BY <2>1, <2>2, <2>3 DEF TripwireHears
  <1> QED
    BY <1>6, <1>7, <1>9, <1>13, <1>15

\* Nothing else than its own words changes while an agent speaks.
LEMMA TalkKeeps ==
    ASSUME PerInv, UNCHANGED <<step, outputs, review, workspace, signal, walks, told, stateJson>>,
           TurnTyped', turn.state # "none", turn'.state # "none", NoAgentLeft'
    PROVE  PerInv'
  <1>0. RowTyped' /\ RowFits' /\ ToldTyped' /\ ToldFits'
    BY RowSame, NothingTold
  <1>1. PerTyped'
    BY <1>0 DEF PerInv, PerTyped, StepTyped, OutputsTyped, ReviewTyped, Outputs
  <1>2. TurnFits'
    BY DEF PerInv, TurnFits, Turns
  <1>3. DoneFits' /\ TestedFits' /\ ApprovedIsTested' /\ WorkFits'
    BY DEF PerInv, DoneFits, TestedFits, ApprovedIsTested, WorkFits, Succeeded, Reviewing, Budget
  <1> QED
    BY <1>0, <1>1, <1>2, <1>3 DEF PerInv

\* An agent's turn, from its spawn to its shutdown.
LEMMA TurnsKeep ==
    ASSUME PerInv, spawn \/ send \/ TurnEvent \/ TurnFails \/ ShutdownTurn
    PROVE  PerInv'
  <1> USE DEF PerInv, PerTyped
  <1>1. <<"nonsense">> \in Messages
    BY DEF Messages
  <1>2. TurnTyped'
    <2>1. CASE spawn
      BY <2>1 DEF spawn, TurnTyped, TurnStates
    <2>2. CASE send
      BY <2>2 DEF send, TurnTyped, TurnStates
    <2>3. CASE TurnEvent
      <3>1. PICK text \in Messages, c \in {"exact", "estimate", "unknown"} :
                 \/ turn' = [turn EXCEPT !.state = "closing"]
                 \/ turn' = [turn EXCEPT !.blocks = text, !.got = @ + 1]
                 \/ turn' = [turn EXCEPT !.costs = @ \cup {c}, !.got = @ + 1]
        BY <2>3, <1>1 DEF TurnEvent
      <3>2. /\ turn.costs \cup {c} \in SUBSET {"exact", "estimate", "unknown"} /\ turn.got + 1 \in Nat
            /\ turn.state \in TurnStates /\ turn.blocks \in Messages
        BY DEF TurnTyped
      <3>3. CASE turn' = [turn EXCEPT !.state = "closing"]
        BY <3>3 DEF TurnTyped, TurnStates
      <3>4. CASE turn' = [turn EXCEPT !.blocks = text, !.got = @ + 1]
        BY <3>2, <3>4 DEF TurnTyped
      <3>5. CASE turn' = [turn EXCEPT !.costs = @ \cup {c}, !.got = @ + 1]
        <4> DEFINE costs == turn.costs \cup {c}
        <4>1. turn' = [turn EXCEPT !.costs = costs, !.got = @ + 1]
          BY <3>5
        <4> HIDE DEF costs
        <4> QED
          BY <3>2, <4>1 DEF TurnTyped, costs
      <3> QED
        BY <3>1, <3>3, <3>4, <3>5
    <2>4. CASE TurnFails
      BY <2>4, <1>1 DEF TurnFails, TurnTyped, TurnStates
    <2>5. CASE ShutdownTurn
      BY <2>5 DEF ShutdownTurn, TurnTyped, TurnStates
    <2> QED
      BY <2>1, <2>2, <2>3, <2>4, <2>5
  <1>3. turn.state # "none" /\ turn'.state # "none" /\ NoAgentLeft'
    <2> USE DEF TurnTyped, TurnStates, NoAgentLeft
    <2>1. CASE spawn
      BY <2>1 DEF spawn
    <2>2. CASE send
      BY <2>2 DEF send
    <2>3. CASE TurnEvent
      BY <2>3 DEF TurnEvent
    <2>4. CASE TurnFails
      BY <2>4 DEF TurnFails
    <2>5. CASE ShutdownTurn
      BY <2>5 DEF ShutdownTurn
    <2> QED
      BY <2>1, <2>2, <2>3, <2>4, <2>5
  <1>4. UNCHANGED <<step, outputs, review, workspace, signal, walks, told, stateJson>>
    BY DEF spawn, send, TurnEvent, TurnFails, ShutdownTurn
  <1> QED
    BY <1>2, <1>3, <1>4, TalkKeeps

\* Between nodes no agent runs.
LEMMA PausesAreQuiet ==
    /\ \A n \in NodeNames \cup {"idle"} :
          /\ [node |-> n, at |-> "node"] \notin Turns /\ [node |-> n, at |-> "failed"] \notin Turns
    /\ \A n \in NodeNames : [node |-> n, at |-> "node"] \in Pauses /\ [node |-> n, at |-> "failed"] \in Pauses
    /\ [node |-> "idle", at |-> "node"] \in Pauses /\ [node |-> "idle", at |-> "flush"] \in Pauses
    /\ [node |-> "idle", at |-> "flush"] \notin Turns
  BY DEF Turns, Pauses

\* Where a pass stands says nothing of what is persisted, told or spoken.
LEMMA StepMoves ==
    ASSUME PerInv, UNCHANGED <<outputs, review, told, stateJson>>, step' \in Turns \cup Gatings \cup Pauses,
           TurnTyped', workspace' \in Nat, walks' \in Nat, signal' \in BOOLEAN
    PROVE  /\ PerTyped' /\ RowFits'
           /\ \A n \in NodeNames : outputs'[n] = outputs[n] /\ (Succeeded(n)' <=> Succeeded(n))
  <1>1. RowTyped' /\ RowFits'
    BY RowSame
  <1> QED
    BY <1>1 DEF PerInv, PerTyped, StepTyped, OutputsTyped, ReviewTyped, ToldTyped, Outputs, Succeeded

\* The engine's state is that of the row again.
LEMMA BackToRow ==
    ASSUME PerInv, outputs' = stateJson, UNCHANGED <<stateJson, review, workspace>>,
           step' = [node |-> "plan", at |-> "node"] \/ step' = BetweenPasses
    PROVE  /\ OutputsTyped' /\ RowTyped' /\ RowFits' /\ DoneFits' /\ TestedFits' /\ ApprovedIsTested'
           /\ Succeeded("ci")' => Succeeded("ci") /\ outputs'["ci"] = outputs["ci"]
  <1>1. {"plan", "execute", "ci", "review"} \subseteq NodeNames /\ RowTyped /\ RowFits /\ ApprovedIsTested
    BY DEF PerInv, PerTyped, NodeNames
  <1>2. OutputsTyped' /\ RowTyped' /\ RowFits'
    BY <1>1 DEF OutputsTyped, RowTyped, RowFits, Outputs
  <1>3. stateJson["execute"] # <<>> => stateJson["execute"].ok
    BY <1>1 DEF RowTyped, Outputs
  <1>4. step'.at = "node" /\ step'.node \in {"plan", "idle"}
    BY DEF BetweenPasses
  <1>5. DoneFits' /\ TestedFits'
    BY <1>1, <1>3, <1>4 DEF DoneFits, TestedFits, RowFits, Succeeded, Reviewing
  <1>6. ApprovedIsTested'
    <2>1. CASE stateJson["review"] = <<>>
      BY <2>1 DEF ApprovedIsTested
    <2>2. CASE stateJson["review"] # <<>>
      <3>1. outputs'["review"] = outputs["review"]
        BY <1>1, <2>2 DEF RowFits
      <3> QED
        BY <1>1, <3>1 DEF ApprovedIsTested
    <2> QED
      BY <2>1, <2>2
  <1>7. Succeeded("ci")' => Succeeded("ci") /\ outputs'["ci"] = outputs["ci"]
    BY <1>1 DEF RowFits, Succeeded
  <1> QED
    BY <1>2, <1>5, <1>6, <1>7

\* A pass begins, ends, is aborted or dies with its process.
LEMMA WalksKeep ==
    ASSUME PerInv, BeginWalk \/ EndOfWalk \/ AbortWalk \/ Crash \/ FlushRow
    PROVE  PerInv'
  <1> USE FlowAssumption
  <1>1. CASE AbortWalk
    <2>1. UNCHANGED <<step, outputs, turn, review, workspace, walks, told, left, stateJson>> /\ signal' = TRUE
      BY <1>1 DEF AbortWalk
    <2>2. /\ PerTyped' /\ RowFits'
          /\ \A n \in NodeNames : Succeeded(n)' <=> Succeeded(n)
      BY <2>1, StepMoves DEF PerInv, PerTyped, StepTyped, TurnTyped
    <2>3. TurnFits' /\ NoAgentLeft'
      BY <2>1 DEF PerInv, TurnFits, NoAgentLeft, Turns
    <2>4. DoneFits' /\ TestedFits' /\ ApprovedIsTested'
      BY <2>1, <2>2 DEF PerInv, DoneFits, TestedFits, ApprovedIsTested, Reviewing, NodeNames
    <2>5. WorkFits'
      BY <2>1 DEF PerInv, WorkFits, Budget, Reviewing
    <2>6. ToldFits'
      BY <2>1, NothingTold
    <2> QED
      BY <2>2, <2>3, <2>4, <2>5, <2>6 DEF PerInv
  <1>2. CASE BeginWalk
    <2>1. /\ UNCHANGED <<turn, review, workspace, told, left, stateJson>> /\ outputs' = stateJson
          /\ step = BetweenPasses /\ step' = [node |-> "plan", at |-> "node"] /\ walks' = walks + 1 /\ signal' = FALSE
      BY <1>2 DEF BeginWalk
    <2>2. step = [node |-> "idle", at |-> "node"]
      BY <2>1 DEF BetweenPasses
    <2>3. step' \in Pauses /\ step' \notin Turns /\ step \notin Turns /\ step'.node = "plan" /\ step'.at = "node"
      BY <2>1, <2>2, PausesAreQuiet DEF NodeNames
    <2>4. /\ OutputsTyped' /\ RowTyped' /\ RowFits' /\ DoneFits' /\ TestedFits' /\ ApprovedIsTested'
          /\ Succeeded("ci")' => Succeeded("ci") /\ outputs'["ci"] = outputs["ci"]
      BY <2>1, BackToRow
    <2>5. PerTyped'
      <3>3. walks \in Nat /\ workspace \in Nat
        BY DEF PerInv, PerTyped
      <3>4. signal' \in BOOLEAN
        BY <2>1
      <3>1. walks' \in Nat /\ workspace' \in Nat /\ signal' \in BOOLEAN
        BY <2>1, <3>3, <3>4
      <3>2. TurnTyped' /\ ReviewTyped' /\ ToldTyped' /\ StepTyped'
        BY <2>1, <2>3 DEF PerInv, PerTyped, TurnTyped, ReviewTyped, ToldTyped, StepTyped
      <3> QED
        BY <2>4, <3>1, <3>2 DEF PerTyped
    <2>6. TurnFits' /\ NoAgentLeft'
      BY <2>1, <2>3 DEF PerInv, TurnFits, NoAgentLeft
    <2>7. WorkFits'
      <3>1. Budget = 0 /\ Budget' = MaxIterations
        BY <2>1, <2>2, <2>3 DEF Budget, Reviewing
      <3>2. walks' * MaxIterations = walks * MaxIterations + MaxIterations
        BY <2>1 DEF PerInv, PerTyped
      <3>3. walks * MaxIterations \in Int /\ workspace \in Nat /\ walks \in Nat
        BY DEF PerInv, PerTyped
      <3> QED
        BY <2>1, <3>1, <3>2, <3>3 DEF PerInv, WorkFits
    <2>8. ToldFits'
      <3>1. ToldFits /\ ToldTyped /\ walks \in Nat
        BY DEF PerInv, PerTyped
      <3>2. TripwireHears'
        BY <2>1, <3>1 DEF ToldFits, TripwireHears
      <3>3. \A k \in DOMAIN told.tripwire : told.tripwire[k].walk \in Nat
        <4> DEFINE H == [status : CiStatuses, run : Nat, walk : Nat]
        <4>1. told.tripwire \in Seq(H) /\ \A h \in H : h.walk \in Nat
          BY <3>1 DEF ToldTyped
        <4> HIDE DEF H
        <4> QED
          BY <4>1
      <3>4. HeardWhen(step.node, walks)'
        BY <2>1, <3>1, <3>3 DEF ToldFits, HeardWhen
      <3>5. Succeeded("ci")' => LastRun(outputs["ci"])'
        BY <2>1, <2>4, <3>1 DEF ToldFits, LastRun
      <3> QED
        BY <2>1, <3>2, <3>4, <3>5 DEF ToldFits
    <2> QED
      BY <2>4, <2>5, <2>6, <2>7, <2>8 DEF PerInv
  <1>3. CASE EndOfWalk \/ Crash
    <2>1. /\ UNCHANGED <<review, workspace, signal, walks, told, stateJson>>
          /\ \/ step' = [node |-> "idle", at |-> "flush"] /\ outputs' = outputs
             \/ step' = BetweenPasses /\ outputs' = stateJson
      BY <1>3 DEF EndOfWalk, Crash
    <2>2. step' \in Pauses /\ step' \notin Turns /\ step'.node = "idle" /\ step'.at \in {"node", "flush"}
      <3>1. CASE step' = [node |-> "idle", at |-> "flush"]
        BY <3>1, PausesAreQuiet
      <3>2. CASE step' = [node |-> "idle", at |-> "node"]
        BY <3>2, PausesAreQuiet
      <3> QED
        BY <2>1, <3>1, <3>2 DEF BetweenPasses
    <2>3. TurnTyped' /\ turn'.state = "none" /\ left' = 0
      <3>1. CASE EndOfWalk
        <4>1. step \notin Turns
          BY <3>1 DEF EndOfWalk, Turns
        <4> QED
          BY <3>1, <4>1 DEF EndOfWalk, PerInv, PerTyped, TurnTyped, TurnFits, NoAgentLeft
      <3>2. CASE Crash
        BY <3>2 DEF Crash, NoTurn, TurnTyped, TurnStates, Messages
      <3> QED
        BY <1>3, <3>1, <3>2
    <2>4. /\ OutputsTyped' /\ RowTyped' /\ RowFits' /\ DoneFits' /\ TestedFits' /\ ApprovedIsTested'
          /\ Succeeded("ci")' => Succeeded("ci") /\ outputs'["ci"] = outputs["ci"]
      <3>1. CASE outputs' = stateJson /\ step' = BetweenPasses
        BY <2>1, <3>1, BackToRow
      <3>2. CASE outputs' = outputs /\ step' = [node |-> "idle", at |-> "flush"]
        <4>1. PerTyped' /\ RowFits' /\ \A n \in NodeNames : outputs'[n] = outputs[n] /\ (Succeeded(n)' <=> Succeeded(n))
          BY <2>1, <2>2, <2>3, <3>2, StepMoves DEF PerInv, PerTyped
        <4> QED
          BY <2>1, <2>2, <4>1 DEF PerInv, PerTyped, DoneFits, TestedFits, ApprovedIsTested, Reviewing, NodeNames
      <3> QED
        BY <2>1, <3>1, <3>2
    <2>5. TurnFits' /\ NoAgentLeft'
      BY <2>2, <2>3 DEF TurnFits, NoAgentLeft
    <2>6. PerTyped'
      BY <2>1, <2>2, <2>3, <2>4 DEF PerInv, PerTyped, StepTyped, ReviewTyped, ToldTyped
    <2>7. WorkFits'
      <3>1. Budget \in Nat /\ Budget' = 0
        BY <2>2 DEF PerInv, PerTyped, ReviewTyped, Budget, Reviewing
      <3>2. walks * MaxIterations \in Int /\ workspace \in Nat /\ walks \in Nat
        BY DEF PerInv, PerTyped
      <3> QED
        BY <2>1, <2>2, <3>1, <3>2 DEF PerInv, WorkFits
    <2>8. ToldFits'
      <3>1. ToldFits /\ ToldTyped /\ walks \in Nat /\ "idle" \notin Early
        BY DEF PerInv, PerTyped, Early
      <3>2. TripwireHears' /\ HeardWhen(step.node, walks)'
        BY <2>1, <2>2, <3>1 DEF ToldFits, TripwireHears, HeardWhen
      <3>3. Succeeded("ci")' => LastRun(outputs["ci"])'
        BY <2>1, <2>4, <3>1 DEF ToldFits, LastRun
      <3> QED
        BY <2>2, <3>1, <3>2, <3>3 DEF ToldFits
    <2> QED
      BY <2>4, <2>5, <2>6, <2>7, <2>8 DEF PerInv
  <1>4. CASE FlushRow
    <2>1. /\ UNCHANGED <<outputs, turn, review, workspace, signal, walks, told, left>>
          /\ step = [node |-> "idle", at |-> "flush"] /\ step' = BetweenPasses /\ stateJson' \in {stateJson, outputs}
      BY <1>4 DEF FlushRow
    <2>2. step' \in Pauses /\ step' \notin Turns /\ step \notin Turns /\ step'.node = "idle" /\ step'.at = "node"
      BY <2>1, PausesAreQuiet DEF BetweenPasses
    <2>3. RowTyped' /\ RowFits'
      <3>1. OutputsTyped /\ RowTyped /\ RowFits /\ DoneFits /\ {"execute", "ci", "review"} \subseteq NodeNames
        BY DEF PerInv, PerTyped, NodeNames
      <3>2. CASE stateJson' = stateJson
        BY <2>1, <3>2, RowSame
      <3>3. CASE stateJson' = outputs
        <4>1. RowTyped'
          BY <3>1, <3>3 DEF OutputsTyped, RowTyped, Outputs
        <4>2. RowFits'
          BY <2>1, <3>1, <3>3 DEF DoneFits, RowFits, Succeeded
        <4> QED
          BY <4>1, <4>2
      <3> QED
        BY <2>1, <3>2, <3>3
    <2>4. PerTyped'
      BY <2>1, <2>2, <2>3 DEF PerInv, PerTyped, StepTyped, OutputsTyped, TurnTyped, ReviewTyped, ToldTyped, Outputs
    <2>5. TurnFits' /\ NoAgentLeft'
      BY <2>1, <2>2 DEF PerInv, TurnFits, NoAgentLeft
    <2>6. DoneFits' /\ TestedFits' /\ ApprovedIsTested'
      BY <2>1, <2>2 DEF PerInv, DoneFits, TestedFits, ApprovedIsTested, Succeeded, Reviewing
    <2>7. WorkFits'
      BY <2>1, <2>2 DEF PerInv, WorkFits, Budget, Reviewing
    <2>8. ToldFits'
      <3>1. ToldFits /\ RowFits /\ "idle" \notin Early /\ "ci" \in NodeNames
        BY DEF PerInv, Early, NodeNames
      <3>2. stateJson["ci"] # <<>> => stateJson'["ci"] = stateJson["ci"]
        BY <2>1, <3>1 DEF RowFits
      <3>3. TripwireHears'
        BY <2>1, <3>1, <3>2 DEF ToldFits, TripwireHears
      <3>4. HeardWhen(step.node, walks)' /\ (Succeeded("ci")' => LastRun(outputs["ci"])')
        BY <2>1, <2>2, <3>1 DEF ToldFits, HeardWhen, LastRun, Succeeded
      <3> QED
        BY <2>2, <3>1, <3>3, <3>4 DEF ToldFits
    <2> QED
      BY <2>3, <2>4, <2>5, <2>6, <2>7, <2>8 DEF PerInv
  <1> QED
    BY <1>1, <1>2, <1>3, <1>4

\* A pass that goes on from a node, or fails there, has no more work ahead of it than it had.
LEMMA WentOn ==
    ASSUME NEW n \in NodeNames, PerInv, step.node = n, GoOn(n) \/ step' = [node |-> n, at |-> "failed"]
    PROVE  /\ step' \in Pauses /\ step' \notin Turns /\ ~Reviewing' /\ step'.at \in {"node", "failed", "flush"}
           /\ Budget' <= Budget /\ Budget \in Nat /\ Budget' \in Nat
           /\ GoOn(n) => /\ step'.at \in {"node", "flush"}
                         /\ step'.node \in {"plan", "execute", "ci"} => n \in {"plan", "execute"}
  <1> USE FlowAssumption
  <1>1. CASE GoOn(n)
    <2>1. step' = [node |-> CASE n = "plan" -> "execute" [] n = "execute" -> "ci" [] n = "ci" -> "review"
                               [] n = "review" -> "loop" [] n = "loop" -> "idle",
                   at |-> IF n = "loop" THEN "flush" ELSE "node"]
      BY <1>1, GoesOn
    <2>2. step' \in Pauses /\ step' \notin Turns /\ ~Reviewing' /\ step'.at \in {"node", "flush"}
      BY <2>1, PausesAreQuiet DEF NodeNames, Reviewing
    <2>3. step'.node \in {"plan", "execute", "ci"} => n \in {"plan", "execute"}
      BY <2>1 DEF NodeNames
    <2>4. Budget' <= Budget /\ Budget \in Nat /\ Budget' \in Nat
      BY <2>1 DEF PerInv, PerTyped, ReviewTyped, NodeNames, Budget, Reviewing
    <2> QED
      BY <2>2, <2>3, <2>4
  <1>2. CASE ~GoOn(n)
    <2>1. step' = [node |-> n, at |-> "failed"]
      BY <1>2
    <2>2. step' \in Pauses /\ step' \notin Turns /\ ~Reviewing' /\ step'.at = "failed"
      BY <2>1, PausesAreQuiet DEF Reviewing
    <2>3. Budget' <= Budget /\ Budget \in Nat /\ Budget' \in Nat
      BY <2>1 DEF PerInv, PerTyped, StepTyped, Turns, Gatings, Pauses, ReviewTyped, NodeNames, Budget, Reviewing
    <2> QED
      BY <1>2, <2>2, <2>3
  <1> QED
    BY <1>1, <1>2

LEMMA WorkKept ==
    ASSUME PerInv, workspace' = workspace, walks' = walks, Budget \in Nat, Budget' \in Nat, Budget' <= Budget,
           step.node # "idle"
    PROVE  WorkFits'
  <1>1. walks * MaxIterations \in Int /\ workspace \in Nat /\ walks \in Nat
    BY FlowAssumption DEF PerInv, PerTyped
  <1> QED
    BY <1>1 DEF PerInv, WorkFits

\* A node whose output is reused.
LEMMA CachedKeeps ==
    ASSUME PerInv, NEW n \in NodeNames, Cached(n)
    PROVE  PerInv'
  <1>1. /\ step = [node |-> n, at |-> "node"] /\ outputs[n] # <<>> /\ observed(n, outputs[n])
        /\ IF outputs[n].ok THEN GoOn(n) ELSE step' = [node |-> n, at |-> "failed"]
        /\ UNCHANGED <<outputs, turn, review, workspace, signal, walks, left, stateJson>>
    BY DEF Cached, At
  <1>2. /\ step' \in Pauses /\ step' \notin Turns /\ ~Reviewing' /\ step'.at \in {"node", "failed", "flush"}
        /\ Budget' <= Budget /\ Budget \in Nat /\ Budget' \in Nat
        /\ GoOn(n) => (step'.node \in {"plan", "execute", "ci"} => n \in {"plan", "execute"})
    BY <1>1, WentOn
  <1>3. \A m \in NodeNames : outputs'[m] = outputs[m] /\ (Succeeded(m)' <=> Succeeded(m))
    BY <1>1 DEF Succeeded
  <1>4. ToldTyped' /\ ToldFits'
    <2>1. "ci" \in NodeNames /\ ToldFits /\ ToldTyped /\ OutputsTyped /\ RowFits /\ walks \in Nat /\ Early = {"plan", "execute", "ci"}
      BY DEF PerInv, PerTyped, NodeNames, Early
    <2>2. CASE ~(n = "ci" /\ outputs[n].ok)
      <3>1. told' = told
        BY <1>1, <2>2 DEF observed
      <3>2. step'.node \in Early => step.node \in Early
        BY <1>1, <1>2, <2>1
      <3> QED
        BY <1>1, <1>3, <2>1, <3>1, <3>2, NothingTold
    <2>3. CASE n = "ci" /\ outputs[n].ok
      <3> DEFINE status == outputs["ci"].value.status
                 run == outputs["ci"].run
      <3>1. Succeeded("ci")
        BY <1>1, <2>3 DEF Succeeded
      <3>2. status \in CiStatuses /\ run \in Nat
        BY <1>1, <2>1, <2>3 DEF OutputsTyped, Outputs
      <3>3. /\ Len(told.gate) \in DOMAIN told.gate /\ run = Len(told.gate) /\ status = told.gate[Len(told.gate)]
            /\ stateJson["ci"] = outputs["ci"]
        BY <1>1, <2>1, <2>3, <3>1 DEF ToldFits, LastRun
      <3>4. told' = [told EXCEPT !.tripwire = Append(@, HeardAs(status, run))]
        BY <1>1, <2>3 DEF observed
      <3>5. told' = [tripwire |-> Append(told.tripwire, HeardAs(status, run)), gate |-> told.gate]
        BY <2>1, <3>4 DEF ToldTyped
      <3>6. /\ told.gate \in Seq(CiStatuses) /\ DOMAIN told.gate = DOMAIN told.gate \cup {run}
            /\ \A r \in DOMAIN told.gate : r <= run
        BY <2>1, <3>3 DEF ToldTyped
      <3>7. \A k \in DOMAIN told.tripwire : told.tripwire[k].walk < walks
        BY <1>1, <2>1, <2>3 DEF ToldFits, HeardWhen
      <3>8. stateJson["ci"] # <<>> /\ stateJson["ci"].run = run /\ TripwireHears /\ UNCHANGED <<walks, stateJson>>
        BY <1>1, <2>1, <2>3, <3>3 DEF ToldFits
      <3> HIDE DEF status, run
      <3>9. ToldTyped' /\ TripwireHears' /\ \A k \in DOMAIN told'.tripwire : told'.tripwire[k].walk <= walks
        BY <2>1, <3>2, <3>3, <3>5, <3>6, <3>7, <3>8, OneMoreTold
      <3>10. step'.node \notin Early
        BY <1>1, <1>2, <2>1, <2>3
      <3>11. LastRun(outputs["ci"])'
        <4>1. told'.gate = told.gate /\ outputs' = outputs
          BY <1>1, <3>5
        <4> QED
          BY <3>3, <4>1 DEF LastRun, status, run
      <3> QED
        BY <1>1, <3>9, <3>10, <3>11 DEF ToldFits, HeardWhen
    <2> QED
      BY <2>2, <2>3
  <1>5. RowTyped' /\ RowFits'
    BY <1>1, RowSame
  <1>6. PerTyped'
    BY <1>1, <1>2, <1>4, <1>5 DEF PerInv, PerTyped, StepTyped, OutputsTyped, TurnTyped, ReviewTyped, Outputs
  <1>7. TurnFits' /\ NoAgentLeft'
    <2>1. step \notin Turns
      BY <1>1, PausesAreQuiet
    <2> QED
      BY <1>1, <1>2, <2>1 DEF PerInv, TurnFits, NoAgentLeft
  <1>8. DoneFits' /\ TestedFits' /\ ApprovedIsTested'
    <2>1. {"execute", "ci", "review"} \subseteq NodeNames
      BY DEF NodeNames
    <2> QED
      BY <1>1, <1>2, <1>3, <2>1 DEF PerInv, DoneFits, TestedFits, ApprovedIsTested
  <1>9. WorkFits'
    BY <1>1, <1>2, WorkKept DEF NodeNames
  <1> QED
    BY <1>4, <1>5, <1>6, <1>7, <1>8, <1>9 DEF PerInv

\* A runner hears its agent when nobody runs any more.
LEMMA AnsweredIsOver ==
    ASSUME PerInv, Answered
    PROVE  left = 0 /\ Answer \in Verdicts \cup {"none"} /\ step \in Turns
  <1>1. left = 0 /\ step \in Turns
    BY DEF PerInv, NoAgentLeft, TurnFits, Answered
  <1>2. Answer \in Verdicts \cup {"none"}
    BY AnswersAre DEF PerInv, PerTyped, TurnTyped, Answer
  <1> QED
    BY <1>1, <1>2

\* The turn of a runner that does not wait for one, and of one that begins to.
LEMMA TurnsTyped ==
    /\ turn' = NoTurn => TurnTyped' /\ turn'.state = "none"
    /\ turn' = [NoTurn EXCEPT !.state = "spawning"] => TurnTyped' /\ turn'.state = "spawning"
  BY DEF NoTurn, TurnTyped, TurnStates, Messages

\* A runner that throws leaves everything as it was.
LEMMA ThrowsKeeps ==
    ASSUME PerInv, NEW n \in NodeNames, step.node = n, Throws(n), Answered, turn' = NoTurn, UNCHANGED <<review, left>>
    PROVE  PerInv'
  <1>1. /\ left = 0 /\ step \in Turns /\ step' = [node |-> n, at |-> "failed"]
        /\ UNCHANGED <<outputs, told, workspace, signal, walks, stateJson>>
    BY AnsweredIsOver DEF Throws
  <1>2. step # [node |-> n, at |-> "node"] /\ step.node # "idle"
    BY <1>1, PausesAreQuiet DEF NodeNames
  <1>3. /\ step' \in Pauses /\ step' \notin Turns /\ ~Reviewing'
        /\ Budget' <= Budget /\ Budget \in Nat /\ Budget' \in Nat
    BY <1>1, <1>2, WentOn
  <1>4. TurnTyped' /\ turn'.state = "none"
    BY TurnsTyped
  <1>5. /\ PerTyped' /\ RowFits'
        /\ \A m \in NodeNames : Succeeded(m)' <=> Succeeded(m)
    BY <1>1, <1>3, <1>4, StepMoves DEF PerInv, PerTyped
  <1>6. TurnFits' /\ NoAgentLeft'
    BY <1>1, <1>3, <1>4 DEF TurnFits, NoAgentLeft
  <1>7. step'.at = "failed" /\ {"execute", "ci", "review"} \subseteq NodeNames /\ step'.node = step.node
    BY <1>1 DEF NodeNames
  <1>8. DoneFits' /\ TestedFits' /\ ApprovedIsTested'
    BY <1>1, <1>3, <1>5, <1>7 DEF PerInv, DoneFits, TestedFits, ApprovedIsTested
  <1>9. WorkFits'
    BY <1>1, <1>2, <1>3, WorkKept
  <1>10. ToldFits'
    BY <1>1, <1>7, NothingTold
  <1> QED
    BY <1>5, <1>6, <1>8, <1>9, <1>10 DEF PerInv

\* A node completes that is not the CI node.
LEMMA CompletesKeeps ==
    ASSUME PerInv, NEW n \in NodeNames \ {"ci"}, NEW output \in Outputs(n), step.node = n, Completes(n, output),
           outputs[n] = <<>>,
           ReviewTyped', review'.ci = review.ci, review'.fresh = review.fresh, left' = 0, TurnTyped', turn'.state = "none",
           n = "review" => /\ Reviewing
                           /\ output.value.verdict = "approve"
                                => /\ review.ci.status # "red"
                                   /\ review.ci.status # "none" /\ review.fresh => review.ci.of = workspace
    PROVE  PerInv'
  <1>1. /\ StoreOutput(n, output) /\ UNCHANGED <<told, workspace, signal, walks, stateJson>> /\ GoOn(n)
    BY DEF Completes, observed
  <1>2. step.node # "idle"
    BY DEF NodeNames
  <1>3. step'.at \in {"node", "flush"}
    BY <1>1, GoesOn
  <1>4. /\ step' \in Pauses /\ step' \notin Turns /\ ~Reviewing'
        /\ Budget' <= Budget /\ Budget \in Nat /\ Budget' \in Nat
        /\ step'.node \in {"plan", "execute", "ci"} => n \in {"plan", "execute"}
    BY <1>1, <1>3, WentOn
  <1>5. /\ OutputsTyped' /\ outputs'[n] = output /\ Succeeded(n)'
        /\ \A m \in NodeNames \ {n} : outputs'[m] = outputs[m] /\ (Succeeded(m)' <=> Succeeded(m))
    <2>1. output.ok
      BY DEF Outputs, NodeNames
    <2> QED
      BY <1>1, <2>1, OutputStored DEF PerInv, PerTyped
  <1>13. RowTyped' /\ RowFits'
    BY <1>1, <1>5, RowKept
  <1>6. PerTyped'
    BY <1>1, <1>4, <1>5, <1>13 DEF PerInv, PerTyped, StepTyped, ToldTyped
  <1>7. TurnFits' /\ NoAgentLeft'
    BY <1>4 DEF TurnFits, NoAgentLeft
  <1>8. /\ outputs'["ci"] = outputs["ci"] /\ (Succeeded("ci")' <=> Succeeded("ci"))
        /\ Succeeded("execute") => Succeeded("execute")'
        /\ n # "review" => outputs'["review"] = outputs["review"]
    BY <1>5 DEF NodeNames
  <1>9. DoneFits'
    BY <1>3, <1>4, <1>5, <1>8 DEF PerInv, DoneFits, Reviewing
  <1>10. TestedFits' /\ ApprovedIsTested'
    <2>1. TestedFits'
      BY <1>3 DEF TestedFits
    <2> DEFINE Tested(o) == o # <<>> /\ o.value.verdict = "approve"
                               => /\ review.ci.status # "red"
                                  /\ review.ci.status # "none" /\ review.fresh => review.ci.of = workspace
    <2>2. ASSUME NEW o, outputs'["review"] = o, Tested(o)
          PROVE  ApprovedIsTested'
      <3>1. review'.ci = review.ci /\ review'.fresh = review.fresh /\ workspace' = workspace
        BY <1>1
      <3> QED
        BY <2>2, <3>1, Zenon DEF ApprovedIsTested
    <2>3. CASE n = "review"
      <3>1. outputs'["review"] = output
        BY <1>5, <2>3
      <3>2. Tested(output)
        BY <2>3
      <3> QED
        BY <2>1, <2>2, <3>1, <3>2
    <2>4. CASE n # "review"
      <3>1. outputs'["review"] = outputs["review"]
        BY <1>8, <2>4
      <3>2. Tested(outputs["review"])
        BY Zenon DEF PerInv, ApprovedIsTested
      <3> QED
        BY <2>1, <2>2, <3>1, <3>2
    <2> QED
      BY <2>1, <2>3, <2>4
  <1>11. WorkFits'
    BY <1>1, <1>2, <1>4, WorkKept
  <1>12. ToldFits'
    BY <1>1, <1>4, <1>8, NothingTold DEF Early
  <1> QED
    BY <1>6, <1>7, <1>9, <1>10, <1>11, <1>12, <1>13 DEF PerInv

\* An agent is to be spawned: nothing is persisted by that.
LEMMA SpawningKeeps ==
    ASSUME PerInv, NEW next \in Turns, Spawning(next), step \notin Turns \/ Answered,
           UNCHANGED <<outputs, signal, walks, told, left, stateJson>>, ReviewTyped', workspace' \in Nat,
           DoneFits', TestedFits', ApprovedIsTested', WorkFits',
           next.node \in Early => step.node \in Early
    PROVE  PerInv'
  <1>1. turn' = [NoTurn EXCEPT !.state = "spawning"] /\ step' = next
    BY DEF Spawning
  <1>2. TurnTyped' /\ turn'.state = "spawning"
    BY <1>1, TurnsTyped
  <1>3. left = 0
    BY AnsweredIsOver DEF PerInv, TurnFits, NoAgentLeft
  <1>4. TurnFits' /\ NoAgentLeft'
    BY <1>1, <1>2, <1>3 DEF TurnFits, NoAgentLeft
  <1>5. PerTyped'
    BY <1>1, <1>2, RowSame DEF PerInv, PerTyped, StepTyped, OutputsTyped, ToldTyped, Outputs
  <1>6. ToldFits' /\ RowFits'
    BY <1>1, NothingTold, RowSame
  <1> QED
    BY <1>4, <1>5, <1>6 DEF PerInv

\* The planner.
LEMMA PlannerKeeps ==
    ASSUME PerInv, runPlanner
    PROVE  PerInv'
  <1> USE FlowAssumption
  <1>1. CASE At("plan")
    <2>1. /\ step = [node |-> "plan", at |-> "node"] /\ Spawning([node |-> "plan", at |-> "turn"])
          /\ outputs["plan"] = <<>> /\ UNCHANGED <<outputs, review, workspace, signal, walks, told, left, stateJson>>
      BY <1>1 DEF runPlanner, At
    <2>2. step' = [node |-> "plan", at |-> "turn"] /\ step' \in Turns /\ step \notin Turns
      BY <2>1, PausesAreQuiet DEF Spawning, Turns, NodeNames
    <2>3. DoneFits' /\ TestedFits' /\ ApprovedIsTested'
      BY <2>1, <2>2 DEF PerInv, DoneFits, TestedFits, ApprovedIsTested, Succeeded, Reviewing
    <2>4. Budget = MaxIterations /\ Budget' = MaxIterations
      BY <2>1, <2>2 DEF Budget
    <2>5. WorkFits'
      BY <2>1, <2>4, WorkKept
    <2>6. ReviewTyped' /\ workspace' \in Nat
      BY <2>1 DEF PerInv, PerTyped, ReviewTyped
    <2> QED
      BY <2>1, <2>2, <2>3, <2>5, <2>6, SpawningKeeps DEF Early
  <1>2. CASE ~At("plan")
    <2>1. /\ step = [node |-> "plan", at |-> "turn"] /\ Answered /\ turn' = NoTurn /\ UNCHANGED <<review, left>>
          /\ IF Answer = "none" THEN Throws("plan")
             ELSE Completes("plan", [ok |-> TRUE, value |-> [plan |-> 1]])
      BY <1>2 DEF runPlanner
    <2>2. CASE Answer = "none"
      BY <2>1, <2>2, ThrowsKeeps DEF NodeNames
    <2>3. CASE Answer # "none"
      <3>1. [ok |-> TRUE, value |-> [plan |-> 1]] \in Outputs("plan")
        BY DEF Outputs
      <3>2. ReviewTyped' /\ left' = 0 /\ TurnTyped' /\ turn'.state = "none"
        BY <2>1, TurnsTyped, AnsweredIsOver DEF PerInv, PerTyped, ReviewTyped
      <3> QED
        BY <2>1, <2>3, <3>1, <3>2, CompletesKeeps DEF NodeNames, PerInv, DoneFits
    <2> QED
      BY <2>2, <2>3
  <1> QED
    BY <1>1, <1>2

\* The executor, which works where there has been no CI and no review.
LEMMA ExecutorKeeps ==
    ASSUME PerInv, runExecutor
    PROVE  PerInv'
  <1> USE FlowAssumption
  <1>1. CASE At("execute")
    <2>1. /\ step = [node |-> "execute", at |-> "node"] /\ Spawning([node |-> "execute", at |-> "turn"])
          /\ outputs["execute"] = <<>> /\ workspace' = workspace + 1
          /\ UNCHANGED <<outputs, review, signal, walks, told, left, stateJson>>
      BY <1>1 DEF runExecutor, At
    <2>2. step' = [node |-> "execute", at |-> "turn"] /\ step' \in Turns /\ step \notin Turns
      BY <2>1, PausesAreQuiet DEF Spawning, Turns, NodeNames
    <2>3. outputs["review"] = <<>>
      BY <2>1 DEF PerInv, DoneFits, Succeeded
    <2>4. DoneFits' /\ TestedFits' /\ ApprovedIsTested'
      BY <2>1, <2>2, <2>3 DEF PerInv, DoneFits, TestedFits, ApprovedIsTested, Succeeded, Reviewing
    <2>5. Budget = MaxIterations /\ Budget' = MaxIterations - 1
      BY <2>1, <2>2 DEF Budget
    <2>6. WorkFits'
      <3>1. walks * MaxIterations \in Int /\ workspace \in Nat
        BY DEF PerInv, PerTyped
      <3> QED
        BY <2>1, <2>5, <3>1 DEF PerInv, WorkFits
    <2>7. ReviewTyped' /\ workspace' \in Nat
      BY <2>1 DEF PerInv, PerTyped, ReviewTyped
    <2> QED
      BY <2>1, <2>2, <2>4, <2>6, <2>7, SpawningKeeps DEF Early
  <1>2. CASE ~At("execute")
    <2>1. /\ step = [node |-> "execute", at |-> "turn"] /\ Answered /\ turn' = NoTurn /\ UNCHANGED <<review, left>>
          /\ IF Answer = "none" THEN Throws("execute")
             ELSE Completes("execute", [ok |-> TRUE, value |-> [cost |-> summarizeCost(turn.costs)]])
      BY <1>2 DEF runExecutor
    <2>2. CASE Answer = "none"
      BY <2>1, <2>2, ThrowsKeeps DEF NodeNames
    <2>3. CASE Answer # "none"
      <3>1. summarizeCost(turn.costs) \in {"exact", "estimate", "unknown"}
        BY DEF summarizeCost
      <3>2. [ok |-> TRUE, value |-> [cost |-> summarizeCost(turn.costs)]] \in Outputs("execute")
        BY <3>1 DEF Outputs
      <3>3. ReviewTyped' /\ left' = 0 /\ TurnTyped' /\ turn'.state = "none"
        BY <2>1, TurnsTyped, AnsweredIsOver DEF PerInv, PerTyped, ReviewTyped
      <3> QED
        BY <2>1, <2>3, <3>2, <3>3, CompletesKeeps DEF NodeNames, PerInv, DoneFits
    <2> QED
      BY <2>2, <2>3
  <1> QED
    BY <1>1, <1>2

\* The loop node ends with the review's verdict.
LEMMA LoopKeeps ==
    ASSUME PerInv, runLoopPredicate
    PROVE  PerInv'
  <1> DEFINE output == [ok |-> TRUE, value |-> [until |-> outputs["review"].value.verdict \in Verdicts]]
  <1>1. /\ step = [node |-> "loop", at |-> "node"] /\ Reached("loop") /\ Completes("loop", output)
        /\ outputs["loop"] = <<>> /\ UNCHANGED <<turn, review, left>>
    BY DEF runLoopPredicate, At
  <1>2. Succeeded("review")
    BY <1>1, NodesInOrder DEF Reached
  <1>3. outputs["review"].value.verdict \in Verdicts
    BY <1>2, SucceededHas DEF PerInv, PerTyped, Outputs, NodeNames
  <1>4. output \in Outputs("loop")
    BY <1>3 DEF Outputs
  <1>5. step \notin Turns
    BY <1>1, PausesAreQuiet DEF NodeNames
  <1>6. turn'.state = "none" /\ left' = 0
    BY <1>1, <1>5 DEF PerInv, TurnFits, NoAgentLeft
  <1>7. ReviewTyped' /\ TurnTyped'
    BY <1>1 DEF PerInv, PerTyped, ReviewTyped, TurnTyped
  <1> HIDE DEF output
  <1> QED
    BY <1>1, <1>4, <1>6, <1>7, CompletesKeeps DEF NodeNames

\* The CI node is reached and its gate is started.
LEMMA GateStarts ==
    ASSUME PerInv, At("ci"), runCi
    PROVE  PerInv'
  <1>1. /\ step = [node |-> "ci", at |-> "node"] /\ outputs["ci"] = <<>> /\ Succeeded("execute")
        /\ step' = [node |-> "ci", at |-> "gate"]
        /\ UNCHANGED <<outputs, turn, review, workspace, signal, walks, told, left, stateJson>>
    BY NodesInOrder DEF runCi, At, Reached
  <1>2. step' \in Gatings /\ step' \notin Turns /\ step \notin Turns /\ "execute" \in NodeNames /\ "ci" \in NodeNames
    BY <1>1 DEF Gatings, Turns, NodeNames
  <1>3. /\ PerTyped' /\ RowFits'
        /\ \A n \in NodeNames : Succeeded(n)' <=> Succeeded(n)
    <2>1. TurnTyped' /\ workspace' \in Nat /\ walks' \in Nat
      BY <1>1 DEF PerInv, PerTyped, TurnTyped
    <2>2. signal' \in BOOLEAN
      BY <1>1 DEF PerInv, PerTyped
    <2> QED
      BY <1>1, <1>2, <2>1, <2>2, StepMoves
  <1>4. TurnFits' /\ NoAgentLeft'
    BY <1>1, <1>2 DEF PerInv, TurnFits, NoAgentLeft
  <1>5. DoneFits' /\ TestedFits' /\ ApprovedIsTested'
    BY <1>1, <1>2, <1>3 DEF PerInv, DoneFits, TestedFits, ApprovedIsTested, Reviewing
  <1>6. Budget = MaxIterations - 1 /\ Budget' = MaxIterations - 1
    BY <1>1 DEF Budget
  <1>7. WorkFits'
    BY <1>1, <1>6, WorkKept, FlowAssumption
  <1>8. ToldFits'
    BY <1>1, NothingTold
  <1> QED
    BY <1>3, <1>4, <1>5, <1>7, <1>8 DEF PerInv

\* The gate of the CI node ends: a result that is persisted, and told where there is one.
LEMMA GateEnds ==
    ASSUME PerInv, step = [node |-> "ci", at |-> "gate"], runCi
    PROVE  PerInv'
  <1> DEFINE run == Len(told.gate) + 1
             green(status) == [ok |-> TRUE, value |-> [status |-> status, of |-> workspace], run |-> run]
             none == [ok |-> FALSE, value |-> NoCi, run |-> 0]
  <1>1. /\ UNCHANGED <<turn, review, workspace, signal, walks, left, stateJson>>
        /\ \/ /\ \E status \in CiStatuses :
                   /\ StoreOutput("ci", green(status))
                   /\ told' = [tripwire |-> Append(told.tripwire, HeardAs(status, run)), gate |-> Append(told.gate, status)]
              /\ GoOn("ci")
           \/ /\ StoreOutput("ci", none) /\ told' = told
              /\ step' = [node |-> "ci", at |-> "failed"]
    <2>1. \A status \in CiStatuses : invokeCiGate(status) = [status |-> status, of |-> workspace]
      BY DEF invokeCiGate
    <2>2. invokeCiGate("none") = NoCi
      BY DEF invokeCiGate, CiStatuses
    <2> QED
      BY <2>1, <2>2 DEF runCi, At
  <1>2. /\ outputs["ci"] = <<>> /\ Succeeded("execute") /\ outputs["review"] = <<>> /\ step \notin Turns
        /\ step.node = "ci" /\ step.node # "idle"
    BY DEF PerInv, DoneFits, Turns, Succeeded
  <1>3. {"execute", "ci", "review"} \subseteq NodeNames
    BY DEF NodeNames
  <1>4. GoOn("ci") \/ step' = [node |-> "ci", at |-> "failed"]
    BY <1>1
  <1>5. /\ step' \in Pauses /\ step' \notin Turns /\ ~Reviewing' /\ step'.at \in {"node", "failed", "flush"}
        /\ Budget' <= Budget /\ Budget \in Nat /\ Budget' \in Nat
        /\ GoOn("ci") => step'.node \notin {"plan", "execute", "ci"}
    BY <1>2, <1>3, <1>4, WentOn
  <1>8. /\ ToldTyped /\ ToldFits /\ walks \in Nat /\ workspace \in Nat /\ OutputsTyped /\ RowFits
        /\ told.gate \in Seq(CiStatuses) /\ run \in Nat /\ run > 0 /\ DOMAIN told.gate = 1..(run - 1)
    BY DEF PerInv, PerTyped, ToldTyped
  <1> HIDE DEF run
  <1>14. none \in Outputs("ci") /\ \A status \in CiStatuses : green(status) \in Outputs("ci") /\ green(status).ok
    BY <1>8 DEF Outputs
  <1> HIDE DEF green, none
  <1>6. \E output \in Outputs("ci") : StoreOutput("ci", output)
    BY <1>1, <1>14
  <1>7. /\ OutputsTyped' /\ outputs'["review"] = <<>> /\ Succeeded("execute")'
        /\ \A m \in NodeNames \ {"ci"} : outputs'[m] = outputs[m]
    BY <1>2, <1>3, <1>6, <1>8, OutputStored
  <1>9. ToldTyped' /\ ToldFits'
    <2>1. CASE step' = [node |-> "ci", at |-> "failed"] /\ told' = told /\ StoreOutput("ci", none)
      <3>1. ~Succeeded("ci")'
        BY <1>3, <1>8, <1>14, <2>1, OutputStored DEF none
      <3>2. /\ step'.node = step.node /\ UNCHANGED <<told, walks, stateJson>> /\ TripwireHears
            /\ HeardWhen(step.node, walks)
        BY <1>1, <1>2, <1>8, <2>1 DEF ToldFits
      <3>4. told' = told /\ walks' = walks /\ stateJson' = stateJson /\ step'.node = step.node
        BY <3>2
      <3>6. ToldTyped'
        BY <1>8, <3>4 DEF ToldTyped
      <3>7. TripwireHears
        BY <3>2
      <3>5. TripwireHears'
        BY <3>4, <3>7 DEF TripwireHears
      <3>3. ToldTyped' /\ TripwireHears' /\ HeardWhen(step.node, walks)'
        BY <3>2, <3>4, <3>5, <3>6 DEF HeardWhen
      <3> QED
        BY <3>1, <3>3 DEF ToldFits
    <2>2. CASE GoOn("ci") /\ \E status \in CiStatuses :
                   /\ StoreOutput("ci", green(status))
                   /\ told' = [tripwire |-> Append(told.tripwire, HeardAs(status, run)), gate |-> Append(told.gate, status)]
      <3>1. PICK status \in CiStatuses :
                   /\ StoreOutput("ci", green(status))
                   /\ told' = [tripwire |-> Append(told.tripwire, HeardAs(status, run)), gate |-> Append(told.gate, status)]
        BY <2>2
      <3>2. outputs'["ci"] = green(status)
        BY <1>3, <1>8, <1>14, <3>1, OutputStored
      <3> DEFINE gate == Append(told.gate, status)
      <3>3. /\ gate \in Seq(CiStatuses) /\ Len(gate) = run /\ gate[run] = status /\ DOMAIN gate = 1..run
            /\ \A r \in 1..(run - 1) : gate[r] = told.gate[r]
        BY <1>8 DEF run
      <3> HIDE DEF gate
      <3>4. /\ DOMAIN gate = DOMAIN told.gate \cup {run} /\ run \notin DOMAIN told.gate
            /\ \A r \in DOMAIN told.gate : gate[r] = told.gate[r] /\ r <= run
        BY <1>8, <3>3
      <3>5. \A k \in DOMAIN told.tripwire : told.tripwire[k].walk < walks
        BY <1>2, <1>8 DEF ToldFits, HeardWhen, Early
      <3>6. told' = [tripwire |-> Append(told.tripwire, HeardAs(status, run)), gate |-> gate]
        BY <3>1 DEF gate
      <3>7. TripwireHears /\ UNCHANGED <<walks, stateJson>>
        BY <1>1, <1>8 DEF ToldFits
      <3>8. ToldTyped' /\ TripwireHears' /\ \A k \in DOMAIN told'.tripwire : told'.tripwire[k].walk <= walks
        BY <1>8, <3>3, <3>4, <3>5, <3>6, <3>7, OneMoreTold
      <3>9. step'.node \notin Early
        BY <1>5, <2>2 DEF Early
      <3>10. LastRun(outputs["ci"])'
        <4>1. told'.gate = gate /\ outputs'["ci"].run = run /\ outputs'["ci"].value.status = status
          BY <3>2, <3>6 DEF green
        <4>2. run \in 1..run
          BY <1>8
        <4> QED
          BY <3>3, <4>1, <4>2 DEF LastRun
      <3> QED
        BY <1>1, <3>8, <3>9, <3>10 DEF ToldFits, HeardWhen
    <2> QED
      BY <1>1, <2>1, <2>2
  <1>15. RowTyped' /\ RowFits'
    BY <1>1, <1>2, <1>3, <1>7, RowKept
  <1>10. PerTyped'
    BY <1>1, <1>5, <1>7, <1>9, <1>15 DEF PerInv, PerTyped, StepTyped, TurnTyped, ReviewTyped
  <1>11. TurnFits' /\ NoAgentLeft'
    BY <1>1, <1>2, <1>5 DEF PerInv, TurnFits, NoAgentLeft
  <1>12. DoneFits' /\ TestedFits' /\ ApprovedIsTested'
    BY <1>5, <1>7 DEF DoneFits, TestedFits, ApprovedIsTested
  <1>13. WorkFits'
    BY <1>1, <1>2, <1>5, WorkKept
  <1> QED
    BY <1>9, <1>10, <1>11, <1>12, <1>13, <1>15 DEF PerInv

\* The reviewer begins, with the CI result it finds.
LEMMA ReviewStarts ==
    ASSUME PerInv, runReviewer
    PROVE  PerInv'
  <1> DEFINE ci == outputs["ci"].value
             next == [node |-> "review", at |-> "verdict"]
  <1>1. /\ step = [node |-> "review", at |-> "node"] /\ outputs["review"] = <<>> /\ Succeeded("ci")
        /\ Spawning(next) /\ UNCHANGED <<outputs, workspace, signal, walks, told, left, stateJson>>
    BY NodesInOrder DEF runReviewer, At, Reached
  <1>2. outputs["ci"].ok /\ ci \in CiState
    BY <1>1, SucceededHas DEF PerInv, PerTyped, Outputs, NodeNames, CiState
  <1>3. review' = [iteration |-> 1, ci |-> ci, verdict |-> "none", fresh |-> workspace = ci.of]
    BY <1>2 DEF runReviewer, extractPriorCiOutput
  <1> HIDE DEF ci
  <1>4. ReviewTyped'
    <2>1. (workspace = ci.of) \in BOOLEAN
      OBVIOUS
    <2>2. 1 \in 0..MaxIterations
      BY FlowAssumption
    <2> QED
      BY <1>2, <1>3, <2>1, <2>2 DEF ReviewTyped
  <1>5. next \in Turns /\ step \notin Turns /\ step' = next /\ next.node = "review"
    BY <1>1, PausesAreQuiet DEF Spawning, Turns, NodeNames
  <1>6. DoneFits' /\ ApprovedIsTested'
    BY <1>1, <1>5 DEF PerInv, DoneFits, ApprovedIsTested, Succeeded, Reviewing
  <1>7. TestedFits'
    <2>1. review'.fresh <=> workspace = ci.of
      BY <1>3
    <2>2. review'.ci = ci /\ workspace' = workspace
      BY <1>1, <1>3
    <2> QED
      BY <2>1, <2>2, Zenon DEF TestedFits
  <1>8. Budget = MaxIterations - 1 /\ Budget' = MaxIterations - 1
    <2>1. review'.iteration = 1
      BY <1>3
    <2> QED
      BY <1>1, <1>5, <2>1 DEF Budget, Reviewing
  <1>9. WorkFits'
    BY <1>1, <1>8, WorkKept, FlowAssumption
  <1>10. workspace' \in Nat
    BY <1>1 DEF PerInv, PerTyped
  <1> QED
    BY <1>1, <1>4, <1>5, <1>6, <1>7, <1>9, <1>10, SpawningKeeps DEF Early

\* The executor that the reviewer sent back to work is heard, or fails the review.
LEMMA ReworkEnds ==
    ASSUME PerInv, invokeExecutor
    PROVE  PerInv'
  <1>1. /\ step = [node |-> "review", at |-> "reexecute"] /\ Answered /\ turn' = NoTurn /\ UNCHANGED <<review, left>>
    BY DEF invokeExecutor
  <1>2. CASE Answer = "none"
    BY <1>1, <1>2, ThrowsKeeps DEF invokeExecutor, NodeNames
  <1>3. CASE Answer # "none"
    <2>1. step' = [node |-> "review", at |-> "gate"] /\ UNCHANGED <<outputs, workspace, signal, walks, told, stateJson>>
      BY <1>3 DEF invokeExecutor
    <2>2. step' \in Gatings /\ step' \notin Turns /\ {"execute", "ci", "review"} \subseteq NodeNames
      BY <2>1 DEF Gatings, Turns, NodeNames
    <2>3. left' = 0 /\ TurnTyped' /\ turn'.state = "none"
      BY <1>1, TurnsTyped, AnsweredIsOver
    <2>4. /\ PerTyped' /\ RowFits'
          /\ \A n \in NodeNames : Succeeded(n)' <=> Succeeded(n)
      BY <1>1, <2>1, <2>2, <2>3, StepMoves DEF PerInv, PerTyped
    <2>5. TurnFits' /\ NoAgentLeft'
      BY <2>2, <2>3 DEF TurnFits, NoAgentLeft
    <2>6. DoneFits' /\ TestedFits' /\ ApprovedIsTested'
      BY <1>1, <2>1, <2>2, <2>4 DEF PerInv, DoneFits, TestedFits, ApprovedIsTested, Reviewing
    <2>7. Budget = MaxIterations - review.iteration /\ Budget' = Budget
      BY <1>1, <2>1 DEF Budget, Reviewing
    <2>8. WorkFits'
      BY <1>1, <2>1, <2>7, WorkKept, FlowAssumption DEF PerInv, PerTyped, ReviewTyped
    <2>9. ToldFits'
      BY <1>1, <2>1, NothingTold DEF Early
    <2> QED
      BY <2>4, <2>5, <2>6, <2>8, <2>9 DEF PerInv
  <1> QED
    BY <1>2, <1>3

\* CI is run again for the next verdict, on the workspace as it stands.
LEMMA RerunKeeps ==
    ASSUME PerInv, rerunCiForIteration
    PROVE  PerInv'
  <1> DEFINE next == [node |-> "review", at |-> "verdict"]
  <1>1. PICK status \in CiStatuses \cup {"none"} : review' = [review EXCEPT !.ci = invokeCiGate(status), !.fresh = TRUE]
    BY DEF rerunCiForIteration
  <1>2. /\ step = [node |-> "review", at |-> "gate"] /\ Spawning(next)
        /\ UNCHANGED <<outputs, workspace, signal, walks, told, left, stateJson>>
    BY DEF rerunCiForIteration
  <1>3. /\ invokeCiGate(status) \in CiState
        /\ invokeCiGate(status).status # "none" => invokeCiGate(status).of = workspace
    BY DEF invokeCiGate, CiState, NoCi, PerInv, PerTyped
  <1>4. /\ ReviewTyped' /\ review'.ci = invokeCiGate(status) /\ review'.iteration = review.iteration
    BY <1>1, <1>3 DEF ReviewTyped, PerInv, PerTyped
  <1>5. next \in Turns /\ step \notin Turns /\ step' = next /\ next.node = "review"
    BY <1>2 DEF Spawning, Turns
  <1>6. DoneFits' /\ ApprovedIsTested'
    BY <1>2, <1>5 DEF PerInv, DoneFits, ApprovedIsTested, Succeeded, Reviewing
  <1>7. TestedFits'
    BY <1>2, <1>3, <1>4, Zenon DEF TestedFits
  <1>8. Budget = MaxIterations - review.iteration /\ Budget' = Budget
    BY <1>2, <1>4, <1>5 DEF Budget, Reviewing
  <1>9. WorkFits'
    BY <1>2, <1>8, WorkKept, FlowAssumption DEF PerInv, PerTyped, ReviewTyped
  <1>10. workspace' \in Nat
    BY <1>2 DEF PerInv, PerTyped
  <1> QED
    BY <1>2, <1>4, <1>5, <1>6, <1>7, <1>9, <1>10, SpawningKeeps DEF Early

\* A verdict: it ends the review, sends the executor back to work, or asks for CI alone.
LEMMA VerdictKeeps ==
    ASSUME PerInv, Verdict
    PROVE  PerInv'
  <1> DEFINE verdict == renderReviewerVerdict(Answer, review.ci)
             final == verdict = "approve" \/ review.iteration >= MaxIterations
  <1> USE FlowAssumption
  <1>1. /\ step = [node |-> "review", at |-> "verdict"] /\ Answered
        /\ left = 0 /\ Answer \in Verdicts \cup {"none"} /\ step \in Turns
    BY AnsweredIsOver DEF Verdict
  <1>2. /\ verdict = "approve" => Answer = "approve" /\ review.ci.status # "red"
        /\ Answer # "none" => verdict \in Verdicts
    BY <1>1 DEF renderReviewerVerdict, Verdicts
  <1>3. /\ ReviewTyped /\ Succeeded("ci") /\ outputs["review"] = <<>> /\ Reviewing
        /\ review.iteration \in 0..MaxIterations /\ workspace \in Nat
        /\ Budget = MaxIterations - review.iteration
    BY <1>1 DEF PerInv, PerTyped, ReviewTyped, DoneFits, Reviewing, Budget
  <1>4. CASE Answer = "none"
    <2>1. turn' = NoTurn /\ Throws("review") /\ UNCHANGED <<review, left>>
      BY <1>4 DEF Verdict
    <2> QED
      BY <1>1, <2>1, ThrowsKeeps DEF NodeNames
  <1>5. CASE Answer # "none" /\ final
    <2>1. /\ turn' = NoTurn /\ review' = [review EXCEPT !.verdict = verdict] /\ left' = left
          /\ Completes("review", [ok |-> TRUE, value |-> [verdict |-> verdict, used |-> review.iteration]])
      BY <1>5 DEF Verdict
    <2> DEFINE output == [ok |-> TRUE, value |-> [verdict |-> verdict, used |-> review.iteration]]
    <2> HIDE DEF verdict
    <2>2. output \in Outputs("review") /\ output.value.verdict = verdict
      BY <1>2, <1>3, <1>5 DEF Outputs
    <2>3. ReviewTyped' /\ review'.ci = review.ci /\ review'.fresh = review.fresh
      BY <1>2, <1>3, <1>5, <2>1 DEF ReviewTyped
    <2>4. turn'.state = "none" /\ TurnTyped' /\ left' = 0
      BY <1>1, <2>1, TurnsTyped
    <2>5. review.ci.status # "none" /\ review.fresh => review.ci.of = workspace
      BY <1>1, Zenon DEF PerInv, TestedFits
    <2>6. "review" \in NodeNames \ {"ci"} /\ step.node = "review"
      BY <1>1 DEF NodeNames
    <2> HIDE DEF output
    <2> QED
      BY <1>2, <1>3, <2>1, <2>2, <2>3, <2>4, <2>5, <2>6, CompletesKeeps DEF output
  <1>6. CASE Answer # "none" /\ ~final
    <2>1. review.iteration + 1 \in 0..MaxIterations
      BY <1>3, <1>6
    <2>2. /\ review' = [review EXCEPT !.iteration = @ + 1] /\ UNCHANGED <<outputs, signal, walks, told, left, stateJson>>
          /\ \/ Spawning([node |-> "review", at |-> "reexecute"]) /\ workspace' = workspace + 1
             \/ turn' = NoTurn /\ step' = [node |-> "review", at |-> "gate"] /\ workspace' = workspace
      BY <1>6 DEF Verdict
    <2>3. ReviewTyped' /\ review'.iteration = review.iteration + 1
      BY <1>3, <2>1, <2>2 DEF ReviewTyped
    <2>4. /\ step' \in {[node |-> "review", at |-> "reexecute"], [node |-> "review", at |-> "gate"]}
          /\ workspace' \in {workspace, workspace + 1} /\ workspace' \in Nat
      BY <1>3, <2>2 DEF Spawning
    <2>5. DoneFits' /\ TestedFits' /\ ApprovedIsTested'
      BY <1>3, <2>2, <2>4 DEF PerInv, DoneFits, TestedFits, ApprovedIsTested, Succeeded, Reviewing
    <2>6. WorkFits'
      <3>1. Budget' = MaxIterations - review.iteration - 1
        BY <1>3, <2>3, <2>4 DEF Budget, Reviewing
      <3>2. walks * MaxIterations \in Int
        BY DEF PerInv, PerTyped
      <3>3. step.node # "idle" /\ walks' = walks
        BY <1>1, <2>2
      <3> QED
        BY <1>3, <2>4, <3>1, <3>2, <3>3 DEF PerInv, WorkFits
    <2>7. CASE Spawning([node |-> "review", at |-> "reexecute"])
      <3>1. [node |-> "review", at |-> "reexecute"] \in Turns
        BY DEF Turns
      <3> QED
        BY <1>1, <2>2, <2>3, <2>4, <2>5, <2>6, <2>7, <3>1, SpawningKeeps DEF Early
    <2>8. CASE turn' = NoTurn /\ step' = [node |-> "review", at |-> "gate"]
      <3>1. TurnTyped' /\ turn'.state = "none" /\ left' = 0 /\ step' \in Gatings /\ step' \notin Turns
        BY <1>1, <2>2, <2>8, TurnsTyped DEF Gatings, Turns
      <3>2. PerTyped'
        BY <2>2, <2>3, <2>4, <3>1, RowSame DEF PerInv, PerTyped, StepTyped, OutputsTyped, ToldTyped, Outputs
      <3>3. TurnFits' /\ NoAgentLeft'
        BY <3>1 DEF TurnFits, NoAgentLeft
      <3>4. ToldFits' /\ RowFits'
        BY <2>2, <2>8, NothingTold, RowSame DEF Early
      <3> QED
        BY <2>5, <2>6, <3>2, <3>3, <3>4 DEF PerInv
    <2> QED
      BY <2>2, <2>7, <2>8
  <1> QED
    BY <1>4, <1>5, <1>6

\* The flow's invariant: an agent runs only where a runner waits for its turn, nothing is done before
\* what it depends on, a pass only adds to what the row holds, the reviewer decides on a CI result of the
\* workspace as it stands, each pass has a budget of executor runs, and the tripwire hears one result a pass.
THEOREM PerInvariant == PerSpec => []PerInv
  <1>1. PerInit => PerInv
    <2> SUFFICES ASSUME PerInit PROVE PerInv
      OBVIOUS
    <2>1. /\ step = [node |-> "idle", at |-> "node"] /\ outputs = [n \in NodeNames |-> <<>>] /\ turn = NoTurn
          /\ stateJson = outputs
          /\ review = [iteration |-> 0, ci |-> NoCi, verdict |-> "none", fresh |-> TRUE]
          /\ workspace = 0 /\ signal = FALSE /\ walks = 0 /\ told = [tripwire |-> <<>>, gate |-> <<>>] /\ left = 0
      BY DEF PerInit, BetweenPasses
    <2>2. StepTyped /\ step \notin Turns
      BY <2>1, PausesAreQuiet DEF StepTyped
    <2>3. /\ OutputsTyped /\ {"execute", "ci", "review"} \subseteq NodeNames /\ \A n \in NodeNames : outputs[n] = <<>>
          /\ RowTyped /\ RowFits
      BY <2>1 DEF OutputsTyped, RowTyped, RowFits, NodeNames
    <2>4. TurnTyped /\ turn.state = "none"
      BY <2>1 DEF NoTurn, TurnTyped, TurnStates, Messages
    <2>5. ReviewTyped
      BY <2>1, FlowAssumption DEF ReviewTyped, CiState, NoCi
    <2>6. ToldTyped /\ TripwireHears /\ HeardWhen(step.node, walks)
      <3>1. told.tripwire = <<>> /\ told.gate = <<>> /\ DOMAIN told.tripwire = {} /\ DOMAIN told.gate = {}
        BY <2>1
      <3> QED
        BY <2>1, <3>1 DEF ToldTyped, TripwireHears, HeardWhen
    <2>7. PerTyped
      BY <2>1, <2>2, <2>3, <2>4, <2>5, <2>6, Zenon DEF PerTyped
    <2>8. TurnFits /\ NoAgentLeft
      BY <2>1, <2>2, <2>4 DEF TurnFits, NoAgentLeft
    <2>9. ~Succeeded("ci")
      BY <2>3 DEF Succeeded
    <2>10. DoneFits /\ TestedFits /\ ApprovedIsTested
      BY <2>1, <2>3, <2>9 DEF DoneFits, TestedFits, ApprovedIsTested, Reviewing
    <2>11. WorkFits
      BY <2>1, FlowAssumption DEF WorkFits, Budget, Reviewing
    <2>12. ToldFits
      BY <2>6, <2>9 DEF ToldFits
    <2> QED
      BY <2>3, <2>7, <2>8, <2>10, <2>11, <2>12 DEF PerInv
  <1>2. PerInv /\ [PerNext]_perVars => PerInv'
    <2> SUFFICES ASSUME PerInv, [PerNext]_perVars PROVE PerInv'
      OBVIOUS
    <2>1. CASE BeginWalk \/ EndOfWalk \/ AbortWalk \/ Crash \/ FlushRow
      BY <2>1, WalksKeep
    <2>2. CASE \E n \in NodeNames : Cached(n)
      BY <2>2, CachedKeeps
    <2>3. CASE spawn \/ send \/ TurnEvent \/ TurnFails \/ ShutdownTurn
      BY <2>3, TurnsKeep
    <2>4. CASE runPlanner
      BY <2>4, PlannerKeeps
    <2>5. CASE runExecutor
      BY <2>5, ExecutorKeeps
    <2>6. CASE runCi
      <3>1. At("ci") \/ step = [node |-> "ci", at |-> "gate"]
        BY <2>6 DEF runCi
      <3> QED
        BY <2>6, <3>1, GateStarts, GateEnds
    <2>7. CASE runReviewer
      BY <2>7, ReviewStarts
    <2>8. CASE Verdict
      BY <2>8, VerdictKeeps
    <2>9. CASE invokeExecutor
      BY <2>9, ReworkEnds
    <2>10. CASE rerunCiForIteration
      BY <2>10, RerunKeeps
    <2>11. CASE runLoopPredicate
      BY <2>11, LoopKeeps
    <2>12. CASE UNCHANGED perVars
      <3>1. UNCHANGED <<step, outputs, turn, review, workspace, signal, walks, told, left, stateJson>>
        BY <2>12 DEF perVars
      <3>2. PerTyped' /\ TurnFits' /\ NoAgentLeft'
        BY <3>1, RowSame DEF PerInv, PerTyped, StepTyped, OutputsTyped, TurnTyped, ReviewTyped, ToldTyped, Outputs,
                    TurnFits, NoAgentLeft, Turns
      <3>3. DoneFits' /\ TestedFits' /\ ApprovedIsTested'
        BY <3>1 DEF PerInv, DoneFits, TestedFits, ApprovedIsTested, Succeeded, Reviewing
      <3>4. WorkFits' /\ ToldFits' /\ RowFits'
        BY <3>1, NothingTold, RowSame DEF PerInv, WorkFits, Budget, Reviewing
      <3> QED
        BY <3>2, <3>3, <3>4 DEF PerInv
    <2> QED
      BY <2>1, <2>2, <2>3, <2>4, <2>5, <2>6, <2>7, <2>8, <2>9, <2>10, <2>11, <2>12 DEF PerNext
  <1> QED
    BY <1>1, <1>2, PTL DEF PerSpec

\* No agent is left running between turns, what is approved was not red and was tested as it stood, the
\* review loop stays within its iterations in every pass, and the tripwire hears every result of the CI
\* node, in order and once a pass, and one again only where a resumed pass replays it from the row.
THEOREM ReviewsCorrect == PerSpec => []ReviewSound
  <1>1. PerInv => ReviewSound
    <2> SUFFICES ASSUME PerInv PROVE ReviewSound
      OBVIOUS
    <2>1. LoopBounded
      <3>1. review.iteration <= MaxIterations
        BY DEF PerInv, PerTyped, ReviewTyped
      <3>2. outputs["loop"] # <<>> => outputs["loop"].value.until
        BY DEF PerInv, PerTyped, OutputsTyped, Outputs, NodeNames
      <3>3. Budget \in Nat
        BY FlowAssumption DEF PerInv, PerTyped, ReviewTyped, Budget
      <3>4. workspace <= walks * MaxIterations
        <4>1. walks * MaxIterations \in Int /\ workspace \in Nat
          BY FlowAssumption DEF PerInv, PerTyped
        <4> QED
          BY <3>3, <4>1 DEF PerInv, WorkFits
      <3> QED
        BY <3>1, <3>2, <3>4 DEF LoopBounded
    <2>2. TripwireHears
      BY DEF PerInv, ToldFits
    <2> QED
      BY <2>1, <2>2 DEF PerInv, ReviewSound
  <1> QED
    BY <1>1, PerInvariant, PTL

-----------------------------------------------------------------------------
(* The policy of the egress broker. *)

LEMMA LowerCase ==
    ASSUME NEW S, NEW text \in Seq(S)
    PROVE  /\ toLowerCase(text) \in Seq(S \cup {"a"})
           /\ Len(toLowerCase(text)) = Len(text) /\ DOMAIN toLowerCase(text) = 1..Len(text)
           /\ \A k \in 1..Len(text) : toLowerCase(text)[k] = IF text[k] = "A" THEN "a" ELSE text[k]
<1>1. DOMAIN text = 1..Len(text) /\ Len(text) \in Nat
  OBVIOUS
<1>2. \A k \in 1..Len(text) : text[k] \in S
  OBVIOUS
<1>3. toLowerCase(text) = [k \in 1..Len(text) |-> IF text[k] = "A" THEN "a" ELSE text[k]]
  BY <1>1 DEF toLowerCase
<1> QED BY <1>1, <1>2, <1>3

LEMMA LowerCaseTwice ==
    ASSUME NEW S, NEW text \in Seq(S)
    PROVE  toLowerCase(toLowerCase(text)) = toLowerCase(text)
<1> DEFINE once == toLowerCase(text)
<1>1. once \in Seq(S \cup {"a"}) /\ DOMAIN once = 1..Len(once)
      /\ \A k \in 1..Len(once) : once[k] # "A"
  BY LowerCase
<1>2. once = [k \in 1..Len(once) |-> once[k]]
  BY <1>1
<1> HIDE DEF once
<1>3. toLowerCase(once) = once
  BY <1>1, <1>2 DEF toLowerCase
<1> QED BY <1>3 DEF once

\* Both ends of a text, taken off the way the two copies do.
LEMMA Ends ==
    ASSUME NEW S, NEW text \in Seq(S), Len(text) > 0
    PROVE  /\ Head(text) = text[1] /\ Last(text) = text[Len(text)]
           /\ Front(text) = SubSeq(text, 1, Len(text) - 1) /\ Front(text) \in Seq(S)
           /\ Tail(text) = From(text, 2)
           /\ Len(text) > 1 => Front(Tail(text)) = SubSeq(text, 2, Len(text) - 1)
<1>1. Len(text) \in Nat /\ Tail(text) \in Seq(S) /\ Len(Tail(text)) = Len(text) - 1
  OBVIOUS
<1>2. Front(text) = SubSeq(text, 1, Len(text) - 1) /\ Last(text) = text[Len(text)]
  BY DEF Front, Last
<1>3. Tail(text) = From(text, 2)
  BY DEF From
<1>4. ASSUME Len(text) > 1 PROVE Front(Tail(text)) = SubSeq(text, 2, Len(text) - 1)
  <2>1. Front(Tail(text)) = SubSeq(Tail(text), 1, Len(text) - 2)
    BY <1>1 DEF Front
  <2>2. /\ SubSeq(Tail(text), 1, Len(text) - 2) \in Seq(S) /\ SubSeq(text, 2, Len(text) - 1) \in Seq(S)
        /\ Len(SubSeq(Tail(text), 1, Len(text) - 2)) = Len(text) - 2
        /\ Len(SubSeq(text, 2, Len(text) - 1)) = Len(text) - 2
    BY <1>1, <1>4
  <2>3. \A k \in 1..(Len(text) - 2) :
           SubSeq(Tail(text), 1, Len(text) - 2)[k] = SubSeq(text, 2, Len(text) - 1)[k]
    BY <1>1, <1>4
  <2>4. SubSeq(Tail(text), 1, Len(text) - 2) = SubSeq(text, 2, Len(text) - 1)
    BY <2>2, <2>3, SeqEqual
  <2> QED BY <2>1, <2>4
<1> QED BY <1>1, <1>2, <1>3, <1>4

\* The character text ends with.
LEMMA EndsWithDot ==
    ASSUME NEW S, NEW text \in Seq(S)
    PROVE  endsWith(text, <<".">>) <=> text # <<>> /\ text[Len(text)] = "."
<1>1. CASE text = <<>>
  BY <1>1 DEF endsWith
<1>2. CASE text # <<>>
  <2>1. Len(text) > 0 /\ Len(<<".">>) = 1
    BY <1>2
  <2>2. SubSeq(text, Len(text), Len(text)) = <<text[Len(text)]>>
    <3> DEFINE end == SubSeq(text, Len(text), Len(text))
    <3>1. end \in Seq(S) /\ Len(end) = 1 /\ end[1] = text[Len(text)]
      BY <2>1
    <3>2. <<text[Len(text)]>> \in Seq(S) /\ Len(<<text[Len(text)]>>) = 1
      BY <2>1
    <3> HIDE DEF end
    <3>3. end = <<text[Len(text)]>>
      BY <3>1, <3>2, SeqEqual
    <3> QED BY <3>3 DEF end
  <2>3. Len(text) - Len(<<".">>) + 1 = Len(text)
    BY <2>1
  <2> QED BY <1>2, <2>1, <2>2, <2>3 DEF endsWith
<1> QED BY <1>1, <1>2

LEMMA NormalizedText ==
    ASSUME NEW S, NEW host \in Seq(S)
    PROVE  normalizeHost(host) \in Seq(S \cup {"a"}) /\ proxyNormalizeHost(host) = normalizeHost(host)
<1> DEFINE lower == toLowerCase(host)
           bare == IF Len(lower) >= 2 /\ Head(lower) = "[" /\ Last(lower) = "]"
                     THEN SubSeq(lower, 2, Len(lower) - 1) ELSE lower
           inner == IF Len(lower) > 1 /\ lower[1] = "[" /\ lower[Len(lower)] = "]"
                      THEN Front(Tail(lower)) ELSE lower
<1>1. lower \in Seq(S \cup {"a"}) /\ Len(lower) \in Nat
  BY LowerCase
<1>2. normalizeHost(host) = IF bare # <<>> /\ Last(bare) = "." THEN Front(bare) ELSE bare
  BY DEF normalizeHost
<1>3. proxyNormalizeHost(host) = IF endsWith(inner, <<".">>) THEN Front(inner) ELSE inner
  BY DEF proxyNormalizeHost
<1> HIDE DEF lower
<1>4. bare = inner /\ bare \in Seq(S \cup {"a"})
  <2>1. CASE Len(lower) > 1
    <3>0. Len(lower) > 0 /\ Len(lower) >= 2
      BY <1>1, <2>1
    <3>1. /\ Head(lower) = lower[1] /\ Last(lower) = lower[Len(lower)]
          /\ Front(Tail(lower)) = SubSeq(lower, 2, Len(lower) - 1)
      BY <1>1, <2>1, <3>0, Ends, Zenon
    <3>2. SubSeq(lower, 2, Len(lower) - 1) \in Seq(S \cup {"a"})
      BY <1>1, <2>1
    <3>3. bare = inner
      BY <2>1, <3>0, <3>1, Zenon
    <3> QED BY <1>1, <3>2, <3>3
  <2>2. CASE ~(Len(lower) > 1)
    BY <1>1, <2>2
  <2> QED BY <2>1, <2>2
<1> HIDE DEF bare, inner
<1>5. bare # <<>> => Last(bare) = bare[Len(bare)] /\ Front(bare) \in Seq(S \cup {"a"})
  BY <1>4, Ends
<1>6. endsWith(inner, <<".">>) <=> bare # <<>> /\ Last(bare) = "."
  BY <1>4, <1>5, EndsWithDot
<1> QED BY <1>2, <1>3, <1>4, <1>5, <1>6

\* Comparing the ends of two strings compares labels where the suffix starts with a dot.
LEMMA EndsBelow ==
    ASSUME NEW S, NEW host \in Seq(S), NEW T, NEW s \in Seq(T), s # <<>>, Head(s) = "."
    PROVE  endsWith(host, s) \/ host = Tail(s) <=> Below(Tail(s), host)
<1>1. /\ Len(s) \in Nat /\ Len(s) > 0 /\ s[1] = "." /\ Len(host) \in Nat
      /\ Tail(s) \in Seq(T) /\ Len(Tail(s)) = Len(s) - 1
      /\ \A j \in 1..(Len(s) - 1) : Tail(s)[j] = s[j + 1]
      /\ DOMAIN host = 1..Len(host)
  OBVIOUS
<1>2. ASSUME NEW k \in 1..Len(host)
      PROVE  /\ SubSeq(host, k, Len(host)) \in Seq(S) /\ Len(SubSeq(host, k, Len(host))) = Len(host) - k + 1
             /\ \A j \in 1..(Len(host) - k + 1) : SubSeq(host, k, Len(host))[j] = host[k + j - 1]
             /\ SubSeq(host, k + 1, Len(host)) \in Seq(S) /\ Len(SubSeq(host, k + 1, Len(host))) = Len(host) - k
             /\ \A j \in 1..(Len(host) - k) : SubSeq(host, k + 1, Len(host))[j] = host[k + j]
  <2>1. k \in Nat /\ k >= 1 /\ k <= Len(host) /\ k + 1 \in Nat /\ Len(host) \in Nat
    BY <1>1
  <2>2. /\ SubSeq(host, k, Len(host)) \in Seq(S) /\ Len(SubSeq(host, k, Len(host))) = Len(host) - k + 1
        /\ \A j \in 1..(Len(host) - k + 1) : SubSeq(host, k, Len(host))[j] = host[k + j - 1]
    BY <2>1
  <2>3. SubSeq(host, k + 1, Len(host)) \in Seq(S) /\ Len(SubSeq(host, k + 1, Len(host))) = Len(host) - k
    BY <2>1
  <2>4. ASSUME NEW j \in 1..(Len(host) - k) PROVE SubSeq(host, k + 1, Len(host))[j] = host[k + j]
    BY <2>1
  <2> QED BY <2>2, <2>3, <2>4
<1>3. ASSUME endsWith(host, s) PROVE Below(Tail(s), host)
  <2> DEFINE k == Len(host) - Len(s) + 1
             end == SubSeq(host, k, Len(host))
             rest == SubSeq(host, k + 1, Len(host))
  <2>1. k \in 1..Len(host) /\ end = s
    BY <1>1, <1>3 DEF endsWith
  <2>2. /\ \A j \in 1..(Len(host) - k + 1) : end[j] = host[k + j - 1]
        /\ rest \in Seq(S) /\ Len(rest) = Len(host) - k
        /\ \A j \in 1..(Len(host) - k) : rest[j] = host[k + j]
    BY <1>2, <2>1
  <2>3. Len(host) - k + 1 = Len(s) /\ Len(host) - k = Len(s) - 1 /\ k \in Int
    BY <1>1
  <2> HIDE DEF k, end, rest
  <2>4. host[k] = "."
    BY <1>1, <2>1, <2>2, <2>3
  <2>5. Len(rest) = Len(Tail(s)) /\ \A j \in 1..Len(rest) : rest[j] = Tail(s)[j]
    <3>1. ASSUME NEW j \in 1..(Len(s) - 1) PROVE rest[j] = Tail(s)[j]
      <4>1. rest[j] = host[k + j] /\ Tail(s)[j] = s[j + 1]
        BY <1>1, <2>2, <2>3
      <4>2. j + 1 \in 1..(Len(host) - k + 1) /\ k + (j + 1) - 1 = k + j
        BY <1>1, <2>3
      <4> QED BY <2>1, <2>2, <4>1, <4>2
    <3> QED BY <1>1, <2>2, <2>3, <3>1
  <2>6. rest = Tail(s)
    <3>1. rest \in Seq(S \cup T) /\ Tail(s) \in Seq(S \cup T)
      BY <1>1, <2>2
    <3> QED BY <2>5, <3>1, SeqEqual
  <2> QED BY <1>1, <2>1, <2>4, <2>6 DEF Below, From, rest
<1>4. ASSUME NEW k \in DOMAIN host, host[k] = ".", From(host, k + 1) = Tail(s)
      PROVE  endsWith(host, s)
  <2> DEFINE end == SubSeq(host, k, Len(host))
             rest == SubSeq(host, k + 1, Len(host))
  <2>1. /\ k \in 1..Len(host) /\ rest = Tail(s)
        /\ end \in Seq(S) /\ Len(end) = Len(host) - k + 1
        /\ \A j \in 1..(Len(host) - k + 1) : end[j] = host[k + j - 1]
        /\ Len(rest) = Len(host) - k
        /\ \A j \in 1..(Len(host) - k) : rest[j] = host[k + j]
    BY <1>1, <1>2, <1>4 DEF From
  <2> HIDE DEF rest, end
  <2>2. Len(end) = Len(s) /\ k = Len(host) - Len(s) + 1
    BY <1>1, <2>1
  <2>3. ASSUME NEW j \in 1..Len(s) PROVE end[j] = s[j]
    <3>1. CASE j = 1
      BY <1>1, <1>4, <2>1, <2>2, <3>1
    <3>2. CASE j # 1
      <4>0. j \in 1..(Len(host) - k + 1)
        BY <2>1, <2>2
      <4>1. j - 1 \in 1..(Len(s) - 1) /\ end[j] = host[k + j - 1]
        BY <1>1, <2>1, <3>2, <4>0
      <4>2. Tail(s)[j - 1] = s[(j - 1) + 1] /\ rest[j - 1] = host[k + (j - 1)]
        BY <1>1, <2>1, <2>2, <4>1
      <4>3. (j - 1) + 1 = j /\ k + (j - 1) = k + j - 1
        BY <1>1, <2>1
      <4> QED BY <2>1, <4>1, <4>2, <4>3
    <3> QED BY <3>1, <3>2
  <2>4. end = s
    <3>1. end \in Seq(S \cup T) /\ s \in Seq(S \cup T)
      BY <2>1
    <3> QED BY <2>2, <2>3, <3>1, SeqEqual
  <2> QED BY <1>1, <2>1, <2>2, <2>4 DEF endsWith, end
<1> QED BY <1>3, <1>4 DEF Below

-----------------------------------------------------------------------------
(* The policy. *)

LEMMA TextIsSeq == ASSUME NEW n, NEW text \in Text(n) PROVE text \in Seq(Alphabet)
<1>1. PICK k \in 0..n : text \in [1..k -> Alphabet]
  BY DEF Text
<1> QED BY <1>1

\* The characters the policies are written in.
PolicyChars == {"a", "A", "x", "."}

\* The policies that load are written in small letters and their suffixes are valid.
LEMMA LoadedPolicies ==
    ASSUME NEW p \in Policies
    PROVE  /\ p = [ok |-> TRUE, hosts |-> p.hosts, suffixes |-> p.suffixes]
           /\ \A h \in p.hosts : toLowerCase(h) = h /\ isValidHostname(h)
           /\ \A s \in p.suffixes : s \in Seq(PolicyChars) /\ toLowerCase(s) = s /\ isValidSuffix(s)
<1>1. PICK raw \in RawPolicies : p = loadEgressPolicy(raw) /\ p.ok
  BY DEF Policies
<1> DEFINE hosts == {toLowerCase(h) : h \in raw.hosts}
           suffixes == {toLowerCase(s) : s \in raw.suffixes}
<1>2. (\A h \in raw.hosts : h \in Seq(PolicyChars)) /\ (\A s \in raw.suffixes : s \in Seq(PolicyChars))
  <2>1. /\ <<"x">> \in Seq(PolicyChars) /\ <<".", "a">> \in Seq(PolicyChars) /\ <<"A">> \in Seq(PolicyChars)
        /\ <<".", "x", ".", "A">> \in Seq(PolicyChars) /\ <<"a", ".">> \in Seq(PolicyChars)
        /\ <<"a">> \in Seq(PolicyChars)
    BY DEF PolicyChars
  <2> DEFINE texts == {<<"x">>, <<".", "a">>, <<"A">>, <<".", "x", ".", "A">>, <<"a", ".">>, <<"a">>}
  <2>2. raw.hosts \subseteq texts /\ raw.suffixes \subseteq texts
    <3>1. raw.hosts \in {{<<"x">>}, {<<"A">>}, {}, {<<"a", ".">>}, {<<"a">>}}
      BY DEF RawPolicies
    <3>2. raw.suffixes \in {{<<".", "a">>}, {<<".", "x", ".", "A">>}, {}, {<<"a">>}}
      BY DEF RawPolicies
    <3> QED BY <3>1, <3>2, Zenon
  <2>3. \A t \in texts : t \in Seq(PolicyChars)
    BY <2>1
  <2> QED BY <2>2, <2>3
<1>3. /\ p = [ok |-> TRUE, hosts |-> hosts, suffixes |-> suffixes]
      /\ \A h \in hosts : isValidHostname(h)
      /\ \A s \in suffixes : isValidSuffix(s)
  BY <1>1 DEF loadEgressPolicy, NoPolicy
<1>4. \A t \in Seq(PolicyChars) : toLowerCase(t) \in Seq(PolicyChars) /\ toLowerCase(toLowerCase(t)) = toLowerCase(t)
  <2>1. PolicyChars \cup {"a"} = PolicyChars
    BY DEF PolicyChars
  <2> QED BY <2>1, LowerCase, LowerCaseTwice
<1> QED BY <1>2, <1>3, <1>4

\* A valid host is normalized already.
LEMMA ValidIsNormal ==
    ASSUME NEW S, NEW host \in Seq(S), isValidHostname(host)
    PROVE  host # <<>> /\ normalizeHost(host) = host
<1>1. /\ host # <<>> /\ Head(host) # "." /\ Last(host) # "."
      /\ \A k \in 1..Len(host) : host[k] \in {"a", "x", "1", "0", "."}
  BY DEF isValidHostname
<1>2. toLowerCase(host) = host
  <2>1. \A k \in 1..Len(host) : host[k] # "A"
    BY <1>1
  <2>2. host = [k \in 1..Len(host) |-> host[k]] /\ DOMAIN host = 1..Len(host)
    OBVIOUS
  <2> QED BY <2>1, <2>2 DEF toLowerCase
<1>3. Head(host) # "["
  BY <1>1
<1> QED BY <1>1, <1>2, <1>3 DEF normalizeHost

\* What a policy allows, for any text: the host as it is normalized is named or below a
\* suffix.
LEMMA MatchIsBelow ==
    ASSUME NEW S, NEW host \in Seq(S), NEW T, NEW policy,
           \A s \in policy.suffixes : s \in Seq(T) /\ s # <<>> /\ Head(s) = "."
    PROVE  matchHost(policy, host) <=> normalizeHost(host) # <<>> /\ AllowedBy(policy, normalizeHost(host))
<1> DEFINE target == normalizeHost(host)
<1>1. target \in Seq(S \cup {"a"})
  BY NormalizedText
<1>2. matchHost(policy, host) <=>
        /\ target # <<>>
        /\ target \in policy.hosts \/ \E s \in policy.suffixes : endsWith(target, s) \/ target = Tail(s)
  BY DEF matchHost
<1> HIDE DEF target
<1>3. \A s \in policy.suffixes : endsWith(target, s) \/ target = Tail(s) <=> Below(Tail(s), target)
  BY <1>1, EndsBelow
<1> QED BY <1>2, <1>3 DEF AllowedBy, target

LEMMA SuffixStarts == ASSUME NEW s, isValidSuffix(s) PROVE s # <<>> /\ Head(s) = "."
BY DEF isValidSuffix

\* matchHost of policy.ts, for texts of any length over any alphabet: a valid host is allowed
\* exactly when it is named or is, label by label, a suffix's domain or below it.
THEOREM HostsMatchByLabel == MatchesByLabel
<1> SUFFICES ASSUME NEW p \in Policies, NEW host \in Text(MaxText), isValidHostname(host)
             PROVE  matchHost(p, host) <=> AllowedBy(p, host)
  BY DEF MatchesByLabel
<1>1. host \in Seq(Alphabet)
  BY TextIsSeq
<1>2. host # <<>> /\ normalizeHost(host) = host
  BY <1>1, ValidIsNormal
<1>3. \A s \in p.suffixes : s \in Seq(PolicyChars) /\ s # <<>> /\ Head(s) = "."
  BY LoadedPolicies, SuffixStarts
<1> QED BY <1>1, <1>2, <1>3, MatchIsBelow

-----------------------------------------------------------------------------
(* The container's copy. *)

\* A non-empty set of naturals has a least member.
LEMMA LeastPlace ==
    ASSUME NEW S \in SUBSET Nat, S # {}
    PROVE  \E k \in S : \A j \in S : k <= j
<1>1. PICK k \in S : \A j \in S : ~(<<j, k>> \in OpToRel(<, Nat))
  BY WFMin, NatLessThanWellFounded
<1>2. \A j \in S : ~(j < k)
  BY <1>1 DEF OpToRel
<1> QED BY <1>2

\* The first place of a character is one, or 0.
LEMMA FirstAtNat ==
    ASSUME NEW S, NEW text \in Seq(S), NEW ch
    PROVE  FirstAt(text, ch) \in 0..Len(text)
<1> DEFINE at == {k \in DOMAIN text : text[k] = ch}
<1>1. CASE at = {}
  BY <1>1 DEF FirstAt
<1>2. CASE at # {}
  <2>1. at \in SUBSET Nat /\ at \subseteq 1..Len(text)
    OBVIOUS
  <2>2. \E k \in at : \A j \in at : k <= j
    BY <1>2, <2>1, LeastPlace
  <2>3. FirstAt(text, ch) = CHOOSE k \in at : \A j \in at : k <= j
    BY <1>2 DEF FirstAt
  <2> HIDE DEF at
  <2>4. FirstAt(text, ch) \in at
    BY <2>2, <2>3
  <2>5. 1..Len(text) \subseteq 0..Len(text)
    OBVIOUS
  <2> QED BY <2>1, <2>4, <2>5
<1> QED BY <1>1, <1>2

LEMMA TargetsReadAlike ==
    ASSUME NEW S, NEW raw \in Seq(S)
    PROVE  proxyParseConnectTarget(raw) = parseConnectTarget(raw)
<1> DEFINE close == FirstAt(raw, "]")
           colon == LastAt(raw, ":")
<1>1. close \in Int
  BY FirstAtNat
<1>2. CASE raw = <<>>
  <2>1. colon = 0
    BY <1>2 DEF LastAt
  <2> QED BY <1>2, <2>1 DEF proxyParseConnectTarget, parseConnectTarget
<1>3. CASE raw # <<>> /\ raw[1] = "["
  <2> DEFINE port == parseInt(From(raw, close + 2))
             valid == port > 0 /\ port <= MaxPort
             shaped == close > 0 /\ close < Len(raw) /\ raw[close + 1] = ":"
             read == [ok |-> TRUE, host |-> SubSeq(raw, 2, close - 1), port |-> port]
  <2>1. Head(raw) = "[" /\ (close + 1) + 1 = close + 2
    BY <1>1, <1>3
  <2>2. parseConnectTarget(raw) = IF shaped /\ valid THEN read ELSE NoTarget
    BY <1>3, <2>1 DEF parseConnectTarget
  <2>3. proxyParseConnectTarget(raw) = IF shaped /\ valid THEN read ELSE NoTarget
    BY <1>3 DEF proxyParseConnectTarget
  <2> QED BY <2>2, <2>3
<1>4. CASE raw # <<>> /\ raw[1] # "["
  <2> DEFINE port == parseInt(From(raw, colon + 1))
             valid == port > 0 /\ port <= MaxPort
             read == [ok |-> TRUE, host |-> SubSeq(raw, 1, colon - 1), port |-> port]
  <2>1. Head(raw) # "["
    BY <1>4
  <2>2. parseConnectTarget(raw) = IF colon > 1 /\ valid THEN read ELSE NoTarget
    BY <1>4, <2>1 DEF parseConnectTarget
  <2>3. proxyParseConnectTarget(raw) = IF colon > 1 /\ valid THEN read ELSE NoTarget
    BY <1>4 DEF proxyParseConnectTarget
  <2> QED BY <2>2, <2>3
<1> QED BY <1>2, <1>3, <1>4

LEMMA PolicyCarriedOver == ASSUME NEW p \in Policies PROVE loadPolicy(serializePolicy(p)) = p
<1> DEFINE hosts == {toLowerCase(h) : h \in p.hosts}
           suffixes == {toLowerCase(s) : s \in p.suffixes}
<1>1. hosts = p.hosts /\ suffixes = p.suffixes
  BY LoadedPolicies
<1>2. (\A h \in hosts : isValidHostname(h)) /\ \A s \in suffixes : isValidSuffix(s)
  BY <1>1, LoadedPolicies
<1> DEFINE valid == (\A h \in hosts : isValidHostname(h)) /\ (\A s \in suffixes : isValidSuffix(s))
<1>3. loadPolicy(serializePolicy(p)) = [ok |-> valid, hosts |-> hosts, suffixes |-> suffixes]
  BY DEF loadPolicy, serializePolicy
<1> QED BY <1>1, <1>2, <1>3, LoadedPolicies

LEMMA HostsJudgedAlike ==
    ASSUME NEW S, NEW host \in Seq(S), NEW T, NEW policy,
           \A s \in policy.suffixes : s \in Seq(T) /\ s # <<>>
    PROVE  proxyMatchHost(policy, host) <=> matchHost(policy, host)
<1>1. proxyNormalizeHost(host) = normalizeHost(host)
  BY NormalizedText
<1>2. ASSUME NEW s \in policy.suffixes PROVE Tail(s) = From(s, 2)
  <2>1. s \in Seq(T) /\ Len(s) > 0
    OBVIOUS
  <2> QED BY <2>1, Ends
<1> QED BY <1>1, <1>2 DEF proxyMatchHost, matchHost

\* docker/proxy.ts carries a copy of policy.ts and of parseConnectTarget: for texts of any
\* length over any alphabet the copy reads and judges as the broker does.
THEOREM CopyAgrees == CopiesAgree
<1>1. \A p \in Policies : loadPolicy(serializePolicy(p)) = p
  BY PolicyCarriedOver
<1>2. \A raw \in Text(MaxText) : proxyParseConnectTarget(raw) = parseConnectTarget(raw)
  BY TextIsSeq, TargetsReadAlike
<1>3. ASSUME NEW p \in Policies, NEW host \in Text(MaxText)
      PROVE  LET target == [ok |-> TRUE, host |-> host, port |-> 1]
             IN proxyJudge(p, target) = Judge(p, target)
  <2>1. host \in Seq(Alphabet) /\ \A s \in p.suffixes : s \in Seq(PolicyChars) /\ s # <<>>
    BY TextIsSeq, LoadedPolicies, SuffixStarts
  <2>2. proxyMatchHost(p, host) <=> matchHost(p, host)
    BY <2>1, HostsJudgedAlike
  <2> QED BY <2>2 DEF proxyJudge, Judge
<1> QED BY <1>1, <1>2, <1>3 DEF CopiesAgree

-----------------------------------------------------------------------------
(* Reading a target. *)

Bit(ch) == IF ch = "1" THEN 1 ELSE 0
Digits(text) == {k \in DOMAIN text : \A j \in 1..k : text[j] \in {"0", "1"}}

\* The value of the first n characters, as parseInt computes it, exists.
LEMMA PrefixValues ==
    ASSUME NEW S, NEW text \in Seq(S), NEW n \in 0..Len(text)
    PROVE  \E f : f = [k \in 0..n |-> IF k = 0 THEN 0 ELSE 10 * f[k - 1] + Bit(text[k])]
<1> DEFINE Valued(m) == \E f : f = [k \in 0..m |-> IF k = 0 THEN 0 ELSE 10 * f[k - 1] + Bit(text[k])]
           T == {m \in 0..Len(text) : ~Valued(m)}
<1>0. Len(text) \in Nat
  OBVIOUS
<1>1. SUFFICES ASSUME T # {} PROVE FALSE
  OBVIOUS
<1>2. PICK m \in T : \A i \in T : m <= i
  <2>1. T \in SUBSET Nat
    OBVIOUS
  <2> HIDE DEF T
  <2> QED BY <1>1, <2>1, LeastPlace
<1>3. CASE m = 0
  <2> DEFINE f == [k \in 0..0 |-> 0]
  <2>1. f = [k \in 0..0 |-> IF k = 0 THEN 0 ELSE 10 * f[k - 1] + Bit(text[k])]
    OBVIOUS
  <2> HIDE DEF f
  <2>2. Valued(0)
    BY <2>1
  <2> QED BY <1>3, <2>2
<1>4. CASE m # 0
  <2>1. m \in Nat /\ m - 1 \in 0..Len(text) /\ m - 1 \notin T
    <3>1. m \in Nat /\ m - 1 \in 0..Len(text) /\ m - 1 < m
      BY <1>4
    <3> HIDE DEF T
    <3> QED BY <1>2, <3>1
  <2>2. Valued(m - 1)
    BY <2>1
  <2>3. PICK f : f = [k \in 0..(m - 1) |-> IF k = 0 THEN 0 ELSE 10 * f[k - 1] + Bit(text[k])]
    BY <2>2
  <2> DEFINE g == [k \in 0..m |-> IF k < m THEN f[k] ELSE 10 * f[m - 1] + Bit(text[m])]
  <2>4. ASSUME NEW k \in 0..m PROVE g[k] = IF k = 0 THEN 0 ELSE 10 * g[k - 1] + Bit(text[k])
    <3>1. CASE k = 0
      <4>1. k < m /\ 0 \in 0..(m - 1)
        BY <1>4, <2>1, <3>1
      <4> QED BY <2>3, <3>1, <4>1
    <3>2. CASE k # 0 /\ k < m
      <4>1. k - 1 \in 0..m /\ k - 1 < m /\ k \in 0..(m - 1)
        BY <2>1, <3>2
      <4>2. g[k - 1] = f[k - 1] /\ g[k] = f[k]
        BY <3>2, <4>1
      <4>3. f[k] = 10 * f[k - 1] + Bit(text[k])
        BY <2>3, <3>2, <4>1
      <4> QED BY <3>2, <4>2, <4>3
    <3>3. CASE k = m
      <4>1. m - 1 \in 0..m /\ m - 1 < m /\ ~(m < m)
        BY <1>4, <2>1
      <4>2. g[m - 1] = f[m - 1] /\ g[m] = 10 * f[m - 1] + Bit(text[m])
        BY <3>3, <4>1
      <4> QED BY <1>4, <3>3, <4>2
    <3>4. k < m \/ k = m
      BY <2>1
    <3> QED BY <3>1, <3>2, <3>3, <3>4
  <2>5. g = [k \in 0..m |-> g[k]]
    OBVIOUS
  <2> HIDE DEF g
  <2>6. g = [k \in 0..m |-> IF k = 0 THEN 0 ELSE 10 * g[k - 1] + Bit(text[k])]
    BY <2>4, <2>5
  <2>7. Valued(m)
    BY <2>6
  <2> QED BY <2>7
<1> QED BY <1>3, <1>4

\* What parseInt returns, unfolded.
LEMMA ParsedInt ==
    ASSUME NEW S, NEW text \in Seq(S)
    PROVE  \E value \in [0..Len(text) -> Nat] :
              /\ value[0] = 0
              /\ \A k \in 1..Len(text) : value[k] = 10 * value[k - 1] + Bit(text[k])
              /\ Cardinality(Digits(text)) \in 0..Len(text)
              /\ parseInt(text) = value[Cardinality(Digits(text))]
<1> DEFINE N == Len(text)
           value[k \in 0..Len(text)] == IF k = 0 THEN 0 ELSE 10 * value[k - 1] + (IF text[k] = "1" THEN 1 ELSE 0)
<1>0. N \in Nat
  OBVIOUS
<1>1. \E f : f = [k \in 0..N |-> IF k = 0 THEN 0 ELSE 10 * f[k - 1] + (IF text[k] = "1" THEN 1 ELSE 0)]
  BY PrefixValues DEF Bit
<1>2. value = [k \in 0..N |-> IF k = 0 THEN 0 ELSE 10 * value[k - 1] + (IF text[k] = "1" THEN 1 ELSE 0)]
  BY <1>1
<1>3. parseInt(text) = value[Cardinality(Digits(text))]
  BY DEF parseInt, Digits
<1> HIDE DEF value
<1>4. value[0] = 0 /\ \A k \in 1..N : value[k] = 10 * value[k - 1] + Bit(text[k])
  BY <1>0, <1>2 DEF Bit
<1>5. \A k \in 0..N : value[k] \in Nat
  <2> DEFINE T == {k \in 0..N : value[k] \notin Nat}
  <2> SUFFICES ASSUME T # {} PROVE FALSE
    OBVIOUS
  <2>1. PICK m \in T : \A i \in T : m <= i
    <3>1. T \in SUBSET Nat
      OBVIOUS
    <3> HIDE DEF T
    <3> QED BY <3>1, LeastPlace
  <2>2. m # 0 /\ m \in 1..N /\ m - 1 \in 0..N /\ m - 1 < m
    BY <1>0, <1>4
  <2>3. m - 1 \notin T
    <3> HIDE DEF T
    <3> QED BY <2>1, <2>2
  <2>4. value[m - 1] \in Nat
    BY <2>2, <2>3
  <2>5. value[m] \in Nat
    BY <1>4, <2>2, <2>4 DEF Bit
  <2> QED BY <2>5
<1>6. value \in [0..N -> Nat]
  BY <1>2, <1>5
<1>7. Cardinality(Digits(text)) \in 0..N
  <2>1. IsFiniteSet(1..N) /\ Cardinality(1..N) = N
    BY <1>0, FS_Interval
  <2>2. Digits(text) \subseteq 1..N
    BY DEF Digits
  <2>3. Cardinality(Digits(text)) \in Nat /\ Cardinality(Digits(text)) <= N
    BY <2>1, <2>2, FS_Subset, FS_CardinalityType
  <2> QED BY <1>0, <2>3
<1> QED BY <1>3, <1>4, <1>6, <1>7

LEMMA OneAndTen == parseInt(<<"1">>) = 1 /\ parseInt(<<"1", "0">>) = 10
<1> DEFINE one == <<"1">>
           ten == <<"1", "0">>
           S == {"0", "1"}
<1>1. one \in Seq(S) /\ Len(one) = 1 /\ one[1] = "1" /\ DOMAIN one = {1}
  OBVIOUS
<1>2. ten \in Seq(S) /\ Len(ten) = 2 /\ ten[1] = "1" /\ ten[2] = "0" /\ DOMAIN ten = {1, 2}
  OBVIOUS
<1> HIDE DEF one, ten, S
<1>3. Digits(one) = {1} /\ Digits(ten) = {1, 2}
  BY <1>1, <1>2 DEF Digits
<1>4. Cardinality({1}) = 1 /\ Cardinality({1, 2}) = 2
  <2>2. IsFiniteSet({1}) /\ Cardinality({1}) = 1
    BY FS_Singleton
  <2>3. Cardinality({1} \cup {2}) = 1 + 1
    BY <2>2, FS_AddElement
  <2>4. {1} \cup {2} = {1, 2}
    OBVIOUS
  <2> QED BY <2>2, <2>3, <2>4
<1>5. parseInt(one) = 1
  <2>1. PICK value \in [0..Len(one) -> Nat] :
              /\ value[0] = 0
              /\ \A k \in 1..Len(one) : value[k] = 10 * value[k - 1] + Bit(one[k])
              /\ parseInt(one) = value[Cardinality(Digits(one))]
    BY <1>1, ParsedInt
  <2>2. value[1] = 10 * value[1 - 1] + Bit(one[1])
    BY <1>1, <2>1
  <2> QED BY <1>1, <1>3, <1>4, <2>1, <2>2 DEF Bit
<1>6. parseInt(ten) = 10
  <2>1. PICK value \in [0..Len(ten) -> Nat] :
              /\ value[0] = 0
              /\ \A k \in 1..Len(ten) : value[k] = 10 * value[k - 1] + Bit(ten[k])
              /\ parseInt(ten) = value[Cardinality(Digits(ten))]
    BY <1>2, ParsedInt
  <2>2. value[1] = 10 * value[1 - 1] + Bit(ten[1]) /\ value[2] = 10 * value[2 - 1] + Bit(ten[2])
    BY <1>2, <2>1
  <2> QED BY <1>2, <1>3, <1>4, <2>1, <2>2 DEF Bit
<1> QED BY <1>5, <1>6 DEF one, ten

\* A place where a character is, and none further on, is its last.
LEMMA LastIs ==
    ASSUME NEW text, NEW ch, NEW n \in Int, n \in DOMAIN text, DOMAIN text \subseteq Int, text[n] = ch,
           \A k \in DOMAIN text : text[k] = ch => k <= n
    PROVE  LastAt(text, ch) = n
<1> DEFINE at == {k \in DOMAIN text : text[k] = ch}
<1>1. n \in at /\ \A j \in at : j <= n
  OBVIOUS
<1>2. LastAt(text, ch) = CHOOSE k \in at : \A j \in at : j <= k
  BY <1>1 DEF LastAt
<1>3. at \subseteq Int
  OBVIOUS
<1> HIDE DEF at
<1>4. LastAt(text, ch) \in at /\ \A j \in at : j <= LastAt(text, ch)
  BY <1>1, <1>2
<1>5. LastAt(text, ch) \in Int /\ LastAt(text, ch) <= n /\ n <= LastAt(text, ch)
  BY <1>1, <1>3, <1>4, Zenon
<1> QED BY <1>5

LEMMA LastAtNat ==
    ASSUME NEW S, NEW text \in Seq(S), NEW ch
    PROVE  LastAt(text, ch) \in 0..Len(text)
<1> DEFINE at == {k \in DOMAIN text : text[k] = ch}
           mirror == {Len(text) - k : k \in at}
<1>1. CASE at = {}
  BY <1>1 DEF LastAt
<1>2. CASE at # {}
  <2>1. at \subseteq 1..Len(text) /\ Len(text) \in Nat
    OBVIOUS
  <2>2. LastAt(text, ch) = CHOOSE k \in at : \A j \in at : j <= k
    BY <1>2 DEF LastAt
  <2> HIDE DEF at
  <2>3. mirror \in SUBSET Nat /\ mirror # {}
    BY <1>2, <2>1
  <2>4. PICK m \in mirror : \A i \in mirror : m <= i
    <3> HIDE DEF mirror
    <3> QED BY <2>3, LeastPlace
  <2>5. PICK k \in at : m = Len(text) - k
    BY <2>4
  <2>6. \A j \in at : j <= k
    <3> SUFFICES ASSUME NEW j \in at PROVE j <= k
      OBVIOUS
    <3>1. m <= Len(text) - j
      BY <2>4
    <3> QED BY <2>1, <2>5, <3>1
  <2>7. LastAt(text, ch) \in at
    BY <2>2, <2>6
  <2>8. 1..Len(text) \subseteq 0..Len(text)
    OBVIOUS
  <2> QED BY <2>1, <2>7, <2>8
<1> QED BY <1>1, <1>2

LEMMA FirstIs ==
    ASSUME NEW text, NEW ch, NEW n \in Int, n \in DOMAIN text, DOMAIN text \subseteq Int, text[n] = ch,
           \A k \in DOMAIN text : text[k] = ch => n <= k
    PROVE  FirstAt(text, ch) = n
<1> DEFINE at == {k \in DOMAIN text : text[k] = ch}
<1>1. n \in at /\ \A j \in at : n <= j
  OBVIOUS
<1>2. FirstAt(text, ch) = CHOOSE k \in at : \A j \in at : k <= j
  BY <1>1 DEF FirstAt
<1>3. at \subseteq Int
  OBVIOUS
<1> HIDE DEF at
<1>4. FirstAt(text, ch) \in at /\ \A j \in at : FirstAt(text, ch) <= j
  BY <1>1, <1>2
<1>5. FirstAt(text, ch) \in Int /\ FirstAt(text, ch) <= n /\ n <= FirstAt(text, ch)
  BY <1>1, <1>3, <1>4, Zenon
<1> QED BY <1>5

\* A host that is named with a port.
LEMMA NamedReadsBack ==
    ASSUME NEW S, NEW host \in Seq(S), host # <<>>, Head(host) # "["
    PROVE  parseConnectTarget(host \o <<":", "1">>) = [ok |-> TRUE, host |-> host, port |-> 1]
<1> DEFINE raw == host \o <<":", "1">>
           n == Len(host)
           Chars == S \cup {":", "1"}
<1>1. n \in Nat /\ n > 0 /\ host \in Seq(Chars) /\ <<":", "1">> \in Seq(Chars) /\ Len(<<":", "1">>) = 2
  OBVIOUS
<1>2. raw \in Seq(Chars) /\ Len(raw) = n + 2
  BY <1>1
<1>3. raw[n + 1] = ":" /\ raw[n + 2] = "1" /\ \A k \in 1..n : raw[k] = host[k]
  <2>1. \A k \in 1..n : raw[k] = host[k]
    OBVIOUS
  <2>2. raw[n + 1] = <<":", "1">>[1] /\ raw[n + 2] = <<":", "1">>[2]
    BY <1>1
  <2> QED BY <2>1, <2>2
<1> HIDE DEF raw
<1>4. raw # <<>> /\ Head(raw) # "["
  BY <1>1, <1>2, <1>3
<1>5. LastAt(raw, ":") = n + 1
  <2>1. DOMAIN raw = 1..(n + 2) /\ n + 1 \in 1..(n + 2)
    BY <1>1, <1>2
  <2>2. \A k \in DOMAIN raw : raw[k] = ":" => k <= n + 1
    BY <1>1, <1>3, <2>1
  <2> QED BY <1>1, <1>3, <2>1, <2>2, LastIs
<1>6. From(raw, (n + 1) + 1) = <<"1">>
  <2> DEFINE rest == SubSeq(raw, n + 2, n + 2)
  <2>1. rest \in Seq(Chars) /\ Len(rest) = 1 /\ rest[1] = "1"
    BY <1>1, <1>2, <1>3
  <2>2. <<"1">> \in Seq(Chars) /\ Len(<<"1">>) = 1
    OBVIOUS
  <2>3. (n + 1) + 1 = n + 2
    BY <1>1
  <2>4. From(raw, (n + 1) + 1) = rest
    BY <1>2, <2>3 DEF From
  <2> HIDE DEF rest
  <2> QED BY <2>1, <2>2, <2>4, SeqEqual
<1>7. SubSeq(raw, 1, (n + 1) - 1) = host
  <2> DEFINE front == SubSeq(raw, 1, n)
  <2>1. front \in Seq(Chars) /\ Len(front) = n /\ \A k \in 1..n : front[k] = host[k]
    BY <1>1, <1>2, <1>3
  <2>2. (n + 1) - 1 = n
    BY <1>1
  <2> HIDE DEF front
  <2>3. front = host
    BY <1>1, <2>1, SeqEqual
  <2> QED BY <2>2, <2>3 DEF front
<1>8. n + 1 > 1 /\ 1 > 0 /\ 1 <= MaxPort
  BY <1>1, PortAssumption
<1>9. parseConnectTarget(raw) = [ok |-> TRUE, host |-> host, port |-> 1]
  BY <1>4, <1>5, <1>6, <1>7, <1>8, OneAndTen DEF parseConnectTarget
<1> QED BY <1>9 DEF raw

LEMMA Joined ==
    ASSUME NEW S, NEW a \in Seq(S), NEW b \in Seq(S)
    PROVE  /\ a \o b \in Seq(S) /\ Len(a \o b) = Len(a) + Len(b)
           /\ \A j \in 1..Len(a) : (a \o b)[j] = a[j]
OBVIOUS

LEMMA JoinedBehind ==
    ASSUME NEW S, NEW a \in Seq(S), NEW b \in Seq(S), NEW j \in 1..Len(b)
    PROVE  (a \o b)[Len(a) + j] = b[j]
OBVIOUS

\* A host in brackets.
LEMMA BracketedReadsBack ==
    ASSUME NEW S, NEW host \in Seq(S), FirstAt(host, "]") = 0
    PROVE  parseConnectTarget(<<"[">> \o host \o <<"]", ":", "1", "0">>) = [ok |-> TRUE, host |-> host, port |-> 10]
<1> DEFINE tail == <<"]", ":", "1", "0">>
           head == <<"[">> \o host
           raw == head \o tail
           n == Len(host)
           Chars == S \cup {"[", "]", ":", "1", "0"}
<1>1. /\ n \in Nat /\ host \in Seq(Chars) /\ <<"[">> \in Seq(Chars) /\ Len(<<"[">>) = 1
      /\ tail \in Seq(Chars) /\ Len(tail) = 4
      /\ tail[1] = "]" /\ tail[2] = ":" /\ tail[3] = "1" /\ tail[4] = "0"
  OBVIOUS
<1>2. \A k \in 1..n : host[k] # "]"
  <2> DEFINE at == {k \in DOMAIN host : host[k] = "]"}
  <2> SUFFICES ASSUME at # {} PROVE FALSE
    OBVIOUS
  <2>1. at \in SUBSET Nat /\ 0 \notin at
    OBVIOUS
  <2>2. FirstAt(host, "]") = CHOOSE k \in at : \A j \in at : k <= j
    BY DEF FirstAt
  <2> HIDE DEF at
  <2>3. FirstAt(host, "]") \in at
    BY <2>1, <2>2, LeastPlace
  <2> QED BY <2>1, <2>3
<1>3. head \in Seq(Chars) /\ Len(head) = n + 1 /\ head[1] = "[" /\ \A k \in 1..n : head[k + 1] = host[k]
  <2>1. head \in Seq(Chars) /\ Len(head) = n + 1 /\ head[1] = <<"[">>[1]
    BY <1>1
  <2>2. ASSUME NEW k \in 1..n PROVE head[k + 1] = host[k]
    BY <1>1
  <2> QED BY <2>1, <2>2
<1> HIDE DEF head, tail
<1>4. raw \in Seq(Chars) /\ Len(raw) = n + 5
  <2>1. raw \in Seq(Chars) /\ Len(raw) = Len(head) + Len(tail)
    <3>1. head \in Seq(Chars)
      BY <1>3
    <3>2. tail \in Seq(Chars)
      BY <1>1
    <3> HIDE DEF Chars
    <3>3. head \o tail \in Seq(Chars) /\ Len(head \o tail) = Len(head) + Len(tail)
      BY <3>1, <3>2, Joined
    <3> QED BY <3>3
  <2> HIDE DEF raw, Chars
  <2> QED BY <1>1, <1>3, <2>1
<1>5. /\ raw[1] = "[" /\ raw[n + 2] = "]" /\ raw[n + 3] = ":" /\ raw[n + 4] = "1" /\ raw[n + 5] = "0"
      /\ \A k \in 1..n : raw[k + 1] = host[k]
  <2>1. \A k \in 1..(n + 1) : raw[k] = head[k]
    BY <1>1, <1>3
  <2>2. /\ raw[n + 2] = tail[1] /\ raw[n + 3] = tail[2]
        /\ raw[n + 4] = tail[3] /\ raw[n + 5] = tail[4]
    <3>1. \A j \in 1..4 : raw[Len(head) + j] = tail[j]
      <4>1. head \in Seq(Chars)
        BY <1>3
      <4>2. tail \in Seq(Chars) /\ Len(tail) = 4
        BY <1>1
      <4> HIDE DEF Chars
      <4>3. ASSUME NEW j \in 1..Len(tail) PROVE (head \o tail)[Len(head) + j] = tail[j]
        <5>1. \E T : head \in Seq(T) /\ tail \in Seq(T)
          BY <4>1, <4>2
        <5>2. PICK T : head \in Seq(T) /\ tail \in Seq(T)
          BY <5>1
        <5> QED BY <5>2, JoinedBehind
      <4> QED BY <4>2, <4>3
    <3>2. /\ Len(head) + 1 = n + 2 /\ Len(head) + 2 = n + 3
          /\ Len(head) + 3 = n + 4 /\ Len(head) + 4 = n + 5
      BY <1>1, <1>3
    <3>3. 1 \in 1..4 /\ 2 \in 1..4 /\ 3 \in 1..4 /\ 4 \in 1..4
      OBVIOUS
    <3> HIDE DEF raw
    <3> QED BY <3>1, <3>2, <3>3, Zenon
  <2>3. 1 \in 1..(n + 1) /\ \A k \in 1..n : k + 1 \in 1..(n + 1)
    BY <1>1
  <2> HIDE DEF raw
  <2> QED BY <1>1, <1>3, <2>1, <2>2, <2>3
<1> HIDE DEF raw
<1>6. raw # <<>> /\ Head(raw) = "["
  BY <1>1, <1>4, <1>5
<1>7. FirstAt(raw, "]") = n + 2
  <2>1. DOMAIN raw = 1..(n + 5) /\ n + 2 \in 1..(n + 5)
    BY <1>1, <1>4
  <2>2. ASSUME NEW k \in 1..(n + 5), raw[k] = "]" PROVE n + 2 <= k
    <3>1. CASE k = 1
      BY <1>5, <2>2, <3>1
    <3>2. CASE k \in 2..(n + 1)
      <4>1. k - 1 \in 1..n /\ (k - 1) + 1 = k
        BY <1>1, <3>2
      <4> QED BY <1>2, <1>5, <2>2, <4>1
    <3>3. k = 1 \/ k \in 2..(n + 1) \/ n + 2 <= k
      BY <1>1
    <3> QED BY <3>1, <3>2, <3>3
  <2> QED BY <1>1, <1>5, <2>1, <2>2, FirstIs
<1>8. From(raw, ((n + 2) + 1) + 1) = <<"1", "0">>
  <2> DEFINE rest == SubSeq(raw, n + 4, n + 5)
  <2>1. rest \in Seq(Chars) /\ Len(rest) = 2 /\ rest[1] = "1" /\ rest[2] = "0"
    BY <1>1, <1>4, <1>5
  <2>2. /\ <<"1", "0">> \in Seq(Chars) /\ Len(<<"1", "0">>) = 2
        /\ <<"1", "0">>[1] = "1" /\ <<"1", "0">>[2] = "0"
    OBVIOUS
  <2>3. ((n + 2) + 1) + 1 = n + 4
    BY <1>1
  <2>4. From(raw, ((n + 2) + 1) + 1) = rest
    BY <1>4, <2>3 DEF From
  <2> HIDE DEF rest
  <2>5. \A k \in 1..2 : rest[k] = <<"1", "0">>[k]
    BY <2>1, <2>2
  <2>6. rest = <<"1", "0">>
    BY <2>1, <2>2, <2>5, SeqEqual
  <2> QED BY <2>4, <2>6
<1>9. SubSeq(raw, 2, (n + 2) - 1) = host
  <2> DEFINE inside == SubSeq(raw, 2, n + 1)
  <2>1. inside \in Seq(Chars) /\ Len(inside) = n /\ \A k \in 1..n : inside[k] = raw[k + 1]
    BY <1>1, <1>4
  <2>2. (n + 2) - 1 = n + 1
    BY <1>1
  <2> HIDE DEF inside
  <2>3. inside = host
    BY <1>1, <1>5, <2>1, SeqEqual
  <2> QED BY <2>2, <2>3 DEF inside
<1>10. n + 2 > 0 /\ n + 2 < Len(raw) /\ raw[(n + 2) + 1] = ":" /\ 10 > 0 /\ 10 <= MaxPort
  <2>1. (n + 2) + 1 = n + 3
    BY <1>1
  <2> QED BY <1>1, <1>4, <1>5, <2>1, PortAssumption
<1>11. parseConnectTarget(raw) = [ok |-> TRUE, host |-> host, port |-> 10]
  BY <1>6, <1>7, <1>8, <1>9, <1>10, OneAndTen DEF parseConnectTarget
<1> QED BY <1>11 DEF raw, head, tail

\* A port that was read is in range, whatever was read.
LEMMA PortInRange ==
    ASSUME NEW S, NEW raw \in Seq(S), parseConnectTarget(raw).ok
    PROVE  parseConnectTarget(raw).port \in 1..MaxPort
<1> DEFINE close == FirstAt(raw, "]")
           colon == LastAt(raw, ":")
           bracketed == raw # <<>> /\ Head(raw) = "["
           start0 == (IF bracketed THEN close + 1 ELSE colon) + 1
           port == parseInt(From(raw, start0))
           host == IF bracketed THEN SubSeq(raw, 2, close - 1) ELSE SubSeq(raw, 1, colon - 1)
           shaped == IF bracketed THEN close > 0 /\ close < Len(raw) /\ raw[close + 1] = ":" ELSE colon > 1
<1>1. parseConnectTarget(raw) =
        IF shaped /\ port > 0 /\ port <= MaxPort THEN [ok |-> TRUE, host |-> host, port |-> port] ELSE NoTarget
  BY DEF parseConnectTarget
<1> HIDE DEF shaped, host, port
<1>2. shaped /\ port > 0 /\ port <= MaxPort /\ parseConnectTarget(raw).port = port
  BY <1>1 DEF NoTarget
<1>3. close \in Nat
  BY FirstAtNat
<1>4. colon \in Nat
  BY LastAtNat
<1>5. From(raw, start0) \in Seq(S)
  BY <1>3, <1>4 DEF From
<1> HIDE DEF start0
<1>6. port \in Nat
  BY <1>5, ParsedInt DEF port
<1> QED BY <1>2, <1>6, PortAssumption

LEMMA NoHostRefused == ASSUME NEW policy PROVE ~matchHost(policy, <<>>)
<1>1. toLowerCase(<<>>) = <<>>
  BY DEF toLowerCase
<1>2. normalizeHost(<<>>) = <<>>
  BY <1>1 DEF normalizeHost
<1> QED BY <1>2 DEF matchHost

\* parseConnectTarget of broker.ts, for texts of any length over any alphabet.
THEOREM TargetsReadBack == ReadsBack
<1>1. ASSUME NEW raw \in Text(MaxText), parseConnectTarget(raw).ok
      PROVE  /\ parseConnectTarget(raw).port \in 1..MaxPort
             /\ parseConnectTarget(raw).host = <<>> =>
                  \A p \in Policies : Judge(p, parseConnectTarget(raw)) = "host_not_allowlisted"
  <2>1. parseConnectTarget(raw).port \in 1..MaxPort
    BY <1>1, TextIsSeq, PortInRange
  <2> QED BY <1>1, <2>1, NoHostRefused DEF Judge
<1>2. ASSUME NEW host \in Text(MaxText - 2), host # <<>>
      PROVE  /\ Head(host) # "["
                  => parseConnectTarget(host \o <<":", "1">>) = [ok |-> TRUE, host |-> host, port |-> 1]
             /\ FirstAt(host, "]") = 0
                  => parseConnectTarget(<<"[">> \o host \o <<"]", ":", "1", "0">>)
                       = [ok |-> TRUE, host |-> host, port |-> 10]
  <2>1. host \in Seq(Alphabet)
    BY TextIsSeq
  <2> QED BY <1>2, <2>1, NamedReadsBack, BracketedReadsBack
<1> QED BY <1>1, <1>2 DEF ReadsBack

\* All of PolicySound: policy.ts, the parser of broker.ts and the container's copy of both.
THEOREM PolicyCorrect == PolicySound
BY HostsMatchByLabel, TargetsReadBack, CopyAgrees DEF PolicySound

-----------------------------------------------------------------------------
(* The broker at work. *)

ConnType ==
    [state : {"none", "accepted", "ended", "closed"}, method : {"none", "CONNECT", "HTTP"},
     host : Seq(Alphabet), up : {"none", "dialing", "open", "closed"}]

BrokerTyped ==
    /\ egress \in [server : {"none", "listening", "closing"}, starting : BOOLEAN, calls : Nat]
    /\ conn \in [Conns -> ConnType]
    /\ heard \in Seq({"allowed", "invalid_target", "host_not_allowlisted"})
    /\ wrap \in {"none", "starting", "up", "stopping", "down", "failed"}

\* A connection dials only what was judged and allowed, may ask only while the server
\* listens, and holds its tunnel open itself.
ConnFits(r, server) ==
    /\ r.up # "none" => AllowedBy(BrokerPolicy, normalizeHost(r.host))
    /\ r.method = "none" => r.up = "none"
    /\ r.state = "accepted" => server = "listening"
    /\ r.method = "CONNECT" /\ r.up \in {"dialing", "open"} => r.state = "accepted"

Asked == {c \in Conns : conn[c].method # "none"}

\* While nobody but withEgressBroker has touched the handle, the two go together.
WrapFits ==
    egress.calls = 0 =>
        /\ egress.server = "listening" => wrap = "up"
        /\ egress.server = "closing" => wrap = "stopping"
        /\ egress.starting => wrap = "starting"

BrokerInv ==
    /\ BrokerTyped /\ WrapFits
    /\ \A c \in Conns : ConnFits(conn[c], egress.server)
    /\ Len(heard) = Cardinality(Asked)

BrokerSpec == BrokerInit /\ [][BrokerNext]_brokerVars

LEMMA AskedFinite == IsFiniteSet(Asked) /\ Cardinality(Asked) \in Nat
<1>1. Asked \subseteq Conns
  BY DEF Asked
<1> QED BY <1>1, BrokerAssumption, FS_Subset, FS_CardinalityType

\* A step of one connection that asks nothing.
LEMMA ConnStep ==
    ASSUME BrokerInv, NEW c \in Conns, NEW r \in ConnType, ConnFits(r, egress.server),
           r.method = conn[c].method, conn' = [conn EXCEPT ![c] = r], UNCHANGED <<egress, heard, wrap>>
    PROVE  BrokerInv'
<1>1. BrokerTyped' /\ WrapFits'
  BY DEF BrokerInv, BrokerTyped, WrapFits
<1>2. \A d \in Conns : ConnFits(conn'[d], egress'.server)
  BY DEF BrokerInv, BrokerTyped
<1>3. Asked' = Asked
  BY DEF Asked, BrokerInv, BrokerTyped
<1> QED BY <1>1, <1>2, <1>3 DEF BrokerInv

\* A step of the handle or of withEgressBroker that leaves the connections alone.
LEMMA HandleStep ==
    ASSUME BrokerInv, UNCHANGED <<conn, heard>>, WrapFits',
           egress' \in [server : {"none", "listening", "closing"}, starting : BOOLEAN, calls : Nat],
           wrap' \in {"none", "starting", "up", "stopping", "down", "failed"},
           \/ egress'.server = egress.server \/ egress'.server = "listening"
           \/ \A c \in Conns : conn[c].state # "accepted"
    PROVE  BrokerInv'
<1>1. BrokerTyped'
  BY DEF BrokerInv, BrokerTyped
<1>2. \A d \in Conns : ConnFits(conn'[d], egress'.server)
  BY DEF BrokerInv, ConnFits
<1>3. Asked' = Asked
  BY DEF Asked
<1> QED BY <1>1, <1>2, <1>3 DEF BrokerInv

\* What is reported is asked once.
LEMMA AskStep ==
    ASSUME BrokerInv, NEW c \in Conns, NEW r \in ConnType, ConnFits(r, egress.server),
           conn[c].method = "none", r.method # "none", conn' = [conn EXCEPT ![c] = r],
           NEW verdict \in {"allowed", "invalid_target", "host_not_allowlisted"},
           heard' = Append(heard, verdict), UNCHANGED <<egress, wrap>>
    PROVE  BrokerInv'
<1>1. BrokerTyped' /\ WrapFits' /\ Len(heard') = Len(heard) + 1
  BY DEF BrokerInv, BrokerTyped, WrapFits
<1>2. \A d \in Conns : ConnFits(conn'[d], egress'.server)
  BY DEF BrokerInv, BrokerTyped
<1>3. Asked' = Asked \cup {c} /\ c \notin Asked
  BY DEF Asked, BrokerInv, BrokerTyped
<1>4. Cardinality(Asked') = Cardinality(Asked) + 1
  BY <1>3, AskedFinite, FS_AddElement
<1> QED BY <1>1, <1>2, <1>4 DEF BrokerInv

\* What Judge lets through is allowed by the policy.
LEMMA JudgedAllowed ==
    ASSUME NEW target, target.host \in Seq(Alphabet), Judge(BrokerPolicy, target) = "allowed"
    PROVE  AllowedBy(BrokerPolicy, normalizeHost(target.host))
<1>1. matchHost(BrokerPolicy, target.host)
  BY DEF Judge
<1>2. \A s \in BrokerPolicy.suffixes : s \in Seq(Alphabet) /\ s # <<>> /\ Head(s) = "."
  BY BrokerAssumption, SuffixStarts
<1> QED BY <1>1, <1>2, MatchIsBelow

LEMMA TargetHost ==
    ASSUME NEW raw \in Seq(Alphabet)
    PROVE  parseConnectTarget(raw).host \in Seq(Alphabet)
<1>1. parseConnectTarget(raw).host \in {SubSeq(raw, 2, FirstAt(raw, "]") - 1),
                                        SubSeq(raw, 1, LastAt(raw, ":") - 1), <<>>}
  BY DEF parseConnectTarget, NoTarget
<1>2. FirstAt(raw, "]") \in 0..Len(raw) /\ LastAt(raw, ":") \in 0..Len(raw)
  BY FirstAtNat, LastAtNat
<1>3. \A i, j \in Int : 0 < i /\ j <= Len(raw) => SubSeq(raw, i, j) \in Seq(Alphabet)
  OBVIOUS
<1>4. /\ FirstAt(raw, "]") - 1 \in Int /\ LastAt(raw, ":") - 1 \in Int
      /\ FirstAt(raw, "]") - 1 <= Len(raw) /\ LastAt(raw, ":") - 1 <= Len(raw)
  BY <1>2
<1>5. /\ SubSeq(raw, 2, FirstAt(raw, "]") - 1) \in Seq(Alphabet)
      /\ SubSeq(raw, 1, LastAt(raw, ":") - 1) \in Seq(Alphabet)
  BY <1>3, <1>4
<1>6. <<>> \in Seq(Alphabet)
  OBVIOUS
<1> QED BY <1>1, <1>5, <1>6, Zenon

LEMMA ConnectKeeps ==
    ASSUME BrokerInv, NEW c \in Conns, NEW raw \in AskedTargets, onConnect(c, raw)
    PROVE  BrokerInv'
<1> DEFINE target == parseConnectTarget(raw)
           verdict == Judge(BrokerPolicy, target)
           r == [state |-> IF verdict = "allowed" THEN "accepted" ELSE "ended", method |-> "CONNECT",
                 host |-> target.host, up |-> IF verdict = "allowed" THEN "dialing" ELSE "none"]
<1>1. /\ conn[c].state = "accepted" /\ conn[c].method = "none" /\ heard' = Append(heard, verdict)
      /\ conn' = [conn EXCEPT ![c] = r] /\ UNCHANGED <<egress, wrap>>
  BY DEF onConnect, emit
<1>2. target.host \in Seq(Alphabet)
  BY BrokerAssumption, TargetHost
<1>3. verdict \in {"allowed", "invalid_target", "host_not_allowlisted"}
  BY DEF Judge
<1>4. verdict = "allowed" => AllowedBy(BrokerPolicy, normalizeHost(target.host))
  BY <1>2, JudgedAllowed
<1>5. egress.server = "listening"
  BY <1>1 DEF BrokerInv, ConnFits
<1> HIDE DEF target, verdict
<1>6. r \in ConnType /\ ConnFits(r, egress.server) /\ r.method # "none"
  BY <1>2, <1>4, <1>5 DEF ConnType, ConnFits
<1> HIDE DEF r
<1> QED BY <1>1, <1>3, <1>6, AskStep

LEMMA AskKeeps ==
    ASSUME BrokerInv, NEW c \in Conns, NEW raw \in AskedTargets, onRequest(c, raw)
    PROVE  BrokerInv'
<1> DEFINE target == parseProxyRequestUrl([scheme |-> "http", host |-> raw, port |-> 0])
           verdict == Judge(BrokerPolicy, target)
           r == [state |-> IF verdict = "allowed" THEN "accepted" ELSE "closed", method |-> "HTTP",
                 host |-> target.host, up |-> IF verdict = "allowed" THEN "open" ELSE "none"]
<1>1. /\ conn[c].state = "accepted" /\ conn[c].method = "none" /\ heard' = Append(heard, verdict)
      /\ conn' = [conn EXCEPT ![c] = r] /\ UNCHANGED <<egress, wrap>>
  BY DEF onRequest, emit
<1>2. target.host \in Seq(Alphabet)
  BY BrokerAssumption DEF parseProxyRequestUrl, NoTarget
<1>3. verdict \in {"allowed", "invalid_target", "host_not_allowlisted"}
  BY DEF Judge
<1>4. verdict = "allowed" => AllowedBy(BrokerPolicy, normalizeHost(target.host))
  BY <1>2, JudgedAllowed
<1>5. egress.server = "listening"
  BY <1>1 DEF BrokerInv, ConnFits
<1> HIDE DEF target, verdict
<1>6. r \in ConnType /\ ConnFits(r, egress.server) /\ r.method # "none"
  BY <1>2, <1>4, <1>5 DEF ConnType, ConnFits
<1> HIDE DEF r
<1> QED BY <1>1, <1>3, <1>6, AskStep

\* Shutting a broker down: it is closing and every connection it still served is cut.
LEMMA ShutKeeps ==
    ASSUME BrokerInv, conn' = CutAll, UNCHANGED heard, WrapFits',
           egress' \in [server : {"none", "listening", "closing"}, starting : BOOLEAN, calls : Nat],
           egress'.server = ShutBroker(egress).server,
           wrap' \in {"none", "starting", "up", "stopping", "down", "failed"}
    PROVE  BrokerInv'
<1>0. egress \in [server : {"none", "listening", "closing"}, starting : BOOLEAN, calls : Nat]
  BY DEF BrokerInv, BrokerTyped
<1>1. CASE egress.server # "listening"
  <2>1. conn' = conn /\ egress'.server = egress.server
    BY <1>1 DEF CutAll, ShutBroker
  <2> QED BY <2>1, HandleStep
<1>2. CASE egress.server = "listening"
  <2>1. conn' = [c \in Conns |-> Cut(c)] /\ egress'.server = "closing"
    BY <1>0, <1>2 DEF CutAll, ShutBroker
  <2>2. ASSUME NEW c \in Conns
        PROVE  Cut(c) \in ConnType /\ ConnFits(Cut(c), "closing") /\ Cut(c).method = conn[c].method
    <3>1. conn[c] \in ConnType /\ ConnFits(conn[c], egress.server)
      BY DEF BrokerInv, BrokerTyped
    <3> QED BY <3>1 DEF Cut, InTunnels, ConnType, ConnFits
  <2>3. BrokerTyped'
    BY <2>1, <2>2 DEF BrokerInv, BrokerTyped
  <2>4. \A c \in Conns : ConnFits(conn'[c], egress'.server)
    BY <2>1, <2>2
  <2>5. Asked' = Asked
    BY <2>1, <2>2 DEF Asked
  <2> QED BY <2>3, <2>4, <2>5 DEF BrokerInv
<1> QED BY <1>1, <1>2

LEMMA HandleKeeps ==
    ASSUME BrokerInv, start \/ shutdown \/ Listening \/ ListenFails \/ Closed \/ withEgressBroker \/ wrapShutdown
    PROVE  BrokerInv'
<1> DEFINE Handle == [server : {"none", "listening", "closing"}, starting : BOOLEAN, calls : Nat]
<1>0. egress \in Handle /\ wrap \in {"none", "starting", "up", "stopping", "down", "failed"}
  BY DEF BrokerInv, BrokerTyped
<1>1. CASE start
  <2>1. egress' = [StartBroker(egress) EXCEPT !.calls = @ + 1] /\ UNCHANGED <<conn, heard, wrap>>
    BY <1>1 DEF start
  <2>2. egress' \in Handle /\ egress'.server = egress.server /\ egress'.calls = egress.calls + 1
    <3>1. StartBroker(egress) \in Handle /\ StartBroker(egress).server = egress.server
          /\ StartBroker(egress).calls = egress.calls
      BY <1>0 DEF StartBroker
    <3> QED BY <2>1, <3>1
  <2>3. WrapFits'
    BY <1>0, <2>2 DEF WrapFits
  <2> QED BY <1>0, <2>1, <2>2, <2>3, HandleStep
<1>2. CASE shutdown
  <2>1. egress' = [ShutBroker(egress) EXCEPT !.calls = @ + 1] /\ conn' = CutAll /\ UNCHANGED <<heard, wrap>>
    BY <1>2 DEF shutdown
  <2>2. egress' \in Handle /\ egress'.server = ShutBroker(egress).server /\ egress'.calls = egress.calls + 1
    BY <1>0, <2>1 DEF ShutBroker
  <2>3. WrapFits'
    BY <1>0, <2>2 DEF WrapFits
  <2> QED BY <1>0, <2>1, <2>2, <2>3, ShutKeeps
<1>3. CASE Listening
  <2>1. /\ egress.starting /\ egress' = [egress EXCEPT !.starting = FALSE, !.server = "listening"]
        /\ wrap' = (IF wrap = "starting" THEN "up" ELSE wrap) /\ UNCHANGED <<conn, heard>>
    BY <1>3 DEF Listening
  <2>2. egress' \in Handle /\ egress'.server = "listening" /\ wrap' \in {"none", "starting", "up", "stopping", "down", "failed"}
    BY <1>0, <2>1
  <2>3. WrapFits'
    BY <1>0, <2>1 DEF WrapFits, BrokerInv
  <2> QED BY <2>1, <2>2, <2>3, HandleStep
<1>4. CASE ListenFails
  <2>1. /\ egress' = [egress EXCEPT !.starting = FALSE]
        /\ wrap' = (IF wrap = "starting" THEN "failed" ELSE wrap) /\ UNCHANGED <<conn, heard>>
    BY <1>4 DEF ListenFails
  <2>2. egress' \in Handle /\ egress'.server = egress.server /\ wrap' \in {"none", "starting", "up", "stopping", "down", "failed"}
    BY <1>0, <2>1
  <2>3. WrapFits'
    BY <1>0, <2>1 DEF WrapFits, BrokerInv
  <2> QED BY <2>1, <2>2, <2>3, HandleStep
<1>5. CASE Closed
  <2>1. /\ egress' = [egress EXCEPT !.server = "none"] /\ \A c \in Conns : Gone(c)
        /\ wrap' = (IF wrap = "stopping" THEN "down" ELSE wrap) /\ UNCHANGED <<conn, heard>>
    BY <1>5 DEF Closed
  <2>2. egress' \in Handle /\ wrap' \in {"none", "starting", "up", "stopping", "down", "failed"}
    BY <1>0, <2>1
  <2>3. WrapFits'
    BY <1>0, <2>1 DEF WrapFits, BrokerInv
  <2>4. \A c \in Conns : conn[c].state # "accepted"
    BY <2>1 DEF Gone
  <2> QED BY <2>1, <2>2, <2>3, <2>4, HandleStep
<1>6. CASE withEgressBroker
  <2>1. /\ wrap = "none" /\ egress' = StartBroker(egress) /\ UNCHANGED <<conn, heard>>
        /\ wrap' = (IF egress.server = "none" THEN "starting" ELSE "up")
    BY <1>6 DEF withEgressBroker
  <2>2. egress' \in Handle /\ egress'.server = egress.server /\ wrap' \in {"none", "starting", "up", "stopping", "down", "failed"}
    BY <1>0, <2>1 DEF StartBroker
  <2>3. WrapFits'
    BY <1>0, <2>1 DEF WrapFits, BrokerInv, StartBroker
  <2> QED BY <2>1, <2>2, <2>3, HandleStep
<1>7. CASE wrapShutdown
  <2>1. /\ wrap = "up" /\ egress' = ShutBroker(egress) /\ conn' = CutAll /\ UNCHANGED heard
        /\ wrap' = (IF egress.server = "none" THEN "down" ELSE "stopping")
    BY <1>7 DEF wrapShutdown
  <2>2. egress' \in Handle /\ wrap' \in {"none", "starting", "up", "stopping", "down", "failed"}
    BY <1>0, <2>1 DEF ShutBroker
  <2>3. WrapFits'
    BY <1>0, <2>1 DEF WrapFits, BrokerInv, ShutBroker
  <2> QED BY <2>1, <2>2, <2>3, ShutKeeps
<1> QED BY <1>1, <1>2, <1>3, <1>4, <1>5, <1>6, <1>7

LEMMA SocketKeeps ==
    ASSUME BrokerInv, NEW c \in Conns, Accept(c) \/ Established(c) \/ UpstreamGone(c) \/ ClientGone(c)
    PROVE  BrokerInv'
<1>0. conn[c] \in ConnType /\ ConnFits(conn[c], egress.server) /\ conn \in [Conns -> ConnType]
  BY DEF BrokerInv, BrokerTyped
<1>1. CASE Accept(c)
  <2> DEFINE r == [conn[c] EXCEPT !.state = "accepted"]
  <2>1. r \in ConnType /\ ConnFits(r, egress.server) /\ r.method = conn[c].method
    BY <1>0, <1>1 DEF Accept, ConnType, ConnFits
  <2>2. conn' = [conn EXCEPT ![c] = r] /\ UNCHANGED <<egress, heard, wrap>>
    BY <1>1 DEF Accept
  <2> HIDE DEF r
  <2> QED BY <2>1, <2>2, ConnStep
<1>2. CASE Established(c)
  <2> DEFINE r == [conn[c] EXCEPT !.up = "open"]
  <2>1. r \in ConnType /\ ConnFits(r, egress.server) /\ r.method = conn[c].method
    BY <1>0, <1>2 DEF Established, ConnType, ConnFits
  <2>2. conn' = [conn EXCEPT ![c] = r] /\ UNCHANGED <<egress, heard, wrap>>
    BY <1>2 DEF Established
  <2> HIDE DEF r
  <2> QED BY <2>1, <2>2, ConnStep
<1>3. CASE UpstreamGone(c)
  <2> DEFINE r == [conn[c] EXCEPT !.up = "closed", !.state = "closed"]
  <2>1. r \in ConnType /\ ConnFits(r, egress.server) /\ r.method = conn[c].method
    BY <1>0, <1>3 DEF UpstreamGone, ConnType, ConnFits
  <2>2. conn' = [conn EXCEPT ![c] = r] /\ UNCHANGED <<egress, heard, wrap>>
    BY <1>0, <1>3 DEF UpstreamGone, ConnType
  <2> HIDE DEF r
  <2> QED BY <2>1, <2>2, ConnStep
<1>4. CASE ClientGone(c)
  <2> DEFINE r == [conn[c] EXCEPT !.state = "closed", !.up = IF InTunnels(c) THEN "closed" ELSE @]
  <2>1. r \in ConnType /\ ConnFits(r, egress.server) /\ r.method = conn[c].method
    BY <1>0, <1>4 DEF ClientGone, InTunnels, ConnType, ConnFits
  <2>2. conn' = [conn EXCEPT ![c] = r] /\ UNCHANGED <<egress, heard, wrap>>
    BY <1>0, <1>4 DEF ClientGone, ConnType
  <2> HIDE DEF r
  <2> QED BY <2>1, <2>2, ConnStep
<1> QED BY <1>1, <1>2, <1>3, <1>4

LEMMA BrokerInitInv == BrokerInit => BrokerInv
<1> SUFFICES ASSUME BrokerInit PROVE BrokerInv
  OBVIOUS
<1> DEFINE new == [state |-> "none", method |-> "none", host |-> <<>>, up |-> "none"]
<1>1. conn = [c \in Conns |-> new] /\ new \in ConnType /\ ConnFits(new, egress.server)
  BY DEF BrokerInit, ConnType, ConnFits
<1>2. BrokerTyped /\ WrapFits
  BY <1>1 DEF BrokerInit, BrokerTyped, WrapFits
<1>3. Asked = {} /\ Len(heard) = 0
  BY DEF BrokerInit, Asked
<1> QED BY <1>1, <1>2, <1>3, FS_EmptySet DEF BrokerInv

LEMMA BrokerNextKeeps == ASSUME BrokerInv, [BrokerNext]_brokerVars PROVE BrokerInv'
<1>1. CASE UNCHANGED brokerVars
  <2>1. Asked' = Asked
    BY <1>1 DEF brokerVars, Asked
  <2> QED BY <1>1, <2>1 DEF BrokerInv, BrokerTyped, WrapFits, brokerVars
<1>2. CASE BrokerNext
  BY <1>2, HandleKeeps, SocketKeeps, ConnectKeeps, AskKeeps DEF BrokerNext
<1> QED BY <1>1, <1>2

\* The invariant of broker.ts and withEgressBroker, for any number of connections.
THEOREM BrokerInvariant == BrokerSpec => []BrokerInv
<1> QED BY BrokerInitInv, BrokerNextKeeps, PTL DEF BrokerSpec

\* For any number of connections, targets and calls: nothing is dialled but what the policy
\* allows, every request is reported once, no tunnel outlives the server that carries it,
\* and withEgressBroker leaves nothing running of its own.
THEOREM BrokerSafe == BrokerSpec => [](OnlyAllowedDialled /\ NoTunnelLeft /\ WrapperEnds)
<1>1. BrokerInv => OnlyAllowedDialled
  BY DEF BrokerInv, ConnFits, Asked, OnlyAllowedDialled
<1>2. BrokerInv => NoTunnelLeft
  BY DEF BrokerInv, ConnFits, NoTunnelLeft, InTunnels
<1>3. BrokerInv => WrapperEnds
  BY DEF BrokerInv, BrokerTyped, WrapFits, WrapperEnds
<1> QED BY <1>1, <1>2, <1>3, BrokerInvariant, PTL
=============================================================================
