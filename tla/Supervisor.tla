----------------------------- MODULE Supervisor -----------------------------
(***************************************************************************)
(* The role supervisor of packages/core/supervisor/src/supervisor.ts.      *)
(*                                                                         *)
(* The methods of the class are async functions over one shared object.    *)
(* Between two awaits JavaScript runs to completion, so an action below is *)
(* the code from one await to the next, and a task is an async call that   *)
(* is suspended at an await: of spec.factory(), of handle.start() or of    *)
(* handle.stop().  Tasks interleave freely with each other, with worker    *)
(* exits and with new calls.                                               *)
(*                                                                         *)
(* A worker is one WorkerHandle with the process behind it.  Its identity  *)
(* is reused once it is dead and nothing refers to it.  startCount, clocks *)
(* and event payloads are left out; of the events the bus carries only the *)
(* escalations are kept.  The window of an IntensityTracker is the number  *)
(* of stamps in it, and Expire lets the oldest stamp leave the window.     *)
(***************************************************************************)
EXTENDS Integers, Sequences

CONSTANTS
    Children,     \* childIds; a child is added at most once
    InitialSpecs, \* the lists of specs the constructor may be given, in spec order
    Strategy,     \* resolved policy.strategy of each child
    Intensity,    \* resolved policy.intensity of each child
    Workers,      \* identities of worker handles
    NoWorker,
    NoChild,
    TaskIds,      \* at most this many async calls are in flight
    NoTask

ASSUME SupervisorAssumption ==
    /\ InitialSpecs \subseteq Seq(Children)
    /\ \A specs \in InitialSpecs : \A i, j \in DOMAIN specs : specs[i] = specs[j] => i = j
    /\ Strategy \in [Children -> {"one_for_one", "rest_for_one"}]
    /\ Intensity \in [Children -> Nat]
    /\ NoWorker \notin Workers
    /\ NoChild \notin Children
    /\ TaskIds # {}

VARIABLES
    sstate,      \* _state
    records,     \* the childIds of the array records
    handle,      \* record.handle; record.unsubscribeExit is set exactly with it
    stopping,    \* record.stopping
    stamps,      \* record.intensity.count(withinMs)
    tasks,       \* the async calls in flight
    workerOf,    \* the child a live worker runs for, NoChild if it is dead
    subscribed,  \* workers with our onExit listener
    raised,      \* the causes of the escalations published so far
    finished,    \* children whose worker exited with reason "normal"
    removeAsked, \* children removeChild was called for
    known,       \* children that were ever given a record
    overlapped   \* history: a call or an exit came while an async call was in flight

superVars == <<sstate, records, handle, stopping, stamps, tasks, workerOf,
               subscribed, raised, finished, removeAsked, known>>

SupervisorState == {"idle", "starting", "running", "stopping", "stopped"}

\* start: the loop of start().  teardown: teardownRunningChildren followed by
\* the assignment of "stopped", on behalf of stop(), of a failed start() or of
\* an exceeded intensity.  boot: a single bootRecord whose failure is reported
\* as start_failed (addChild, one_for_one restart).  restStop, restBoot: the
\* two halves of restartRestForOne.  remove: removeChild.
TaskKind == {"start", "teardown", "boot", "restStop", "restBoot", "remove"}

\* i: the loop index of the next iteration.  base: an index into records that
\* was computed before an await (idx in restartRestForOne and removeChild).
\* failed: the child a rest_for_one restart is about.
Task == [kind : TaskKind,
         phase : {"factory", "handleStart", "handleStop"},
         target : Children,
         worker : Workers \cup {NoWorker},
         i : Nat,
         base : Nat,
         failed : Children]

ASSUME NoTaskAssumption == NoTask \notin Task

alive == {w \in Workers : workerOf[w] # NoChild}

\* The workers with w dead (NoWorker: nobody died).
Died(w) == [v \in Workers |-> IF v = w THEN NoChild ELSE workerOf[v]]

Present == {records[i] : i \in DOMAIN records}

Busy == {t \in TaskIds : tasks[t] # NoTask}

FreeTask == CHOOSE t \in TaskIds \ Busy : TRUE

FreeWorkers ==
    Workers \ (alive \cup {handle[c] : c \in Children} \cup {tasks[t].worker : t \in Busy})

Smaller(a, b) == IF a < b THEN a ELSE b

IndexOf(c) == CHOOSE i \in DOMAIN records : records[i] = c

\* this.records.splice(i, 1): nothing happens beyond the end of the array.
SpliceAt(i) ==
    IF i <= Len(records)
      THEN SubSeq(records, 1, i - 1) \o SubSeq(records, i + 1, Len(records))
      ELSE records

SupervisorInit ==
    /\ sstate = "idle"
    /\ records \in InitialSpecs
    /\ handle = [c \in Children |-> NoWorker]
    /\ stopping = [c \in Children |-> FALSE]
    /\ stamps = [c \in Children |-> 0]
    /\ tasks = [t \in TaskIds |-> NoTask]
    /\ workerOf = [w \in Workers |-> NoChild]
    /\ subscribed = {}
    /\ raised = {}
    /\ finished = {}
    /\ removeAsked = {}
    /\ known = Present
    /\ overlapped = FALSE

-----------------------------------------------------------------------------
(* What a task does next.  h and subs are the values of handle and         *)
(* subscribed when control gets there.                                     *)

\* bootRecord up to `await record.spec.factory()'.
BeginBoot(t, task, c, h, subs) ==
    /\ tasks' = [tasks EXCEPT ![t] = [task EXCEPT !.phase = "factory", !.target = c, !.worker = NoWorker]]
    /\ handle' = h
    /\ subscribed' = subs
    /\ UNCHANGED stopping

\* stopRecord up to `await handle.stop(reason)'; without a handle it returns,
\* but the caller awaits it all the same.
BeginStop(t, task, c, h, subs) ==
    /\ tasks' = [tasks EXCEPT ![t] = [task EXCEPT !.phase = "handleStop", !.target = c, !.worker = h[c]]]
    /\ handle' = [h EXCEPT ![c] = NoWorker]
    /\ subscribed' = subs \ {h[c]}
    /\ stopping' = [stopping EXCEPT ![c] = (h[c] # NoWorker) \/ @]

Finish(t, h, subs) ==
    /\ tasks' = [tasks EXCEPT ![t] = NoTask]
    /\ handle' = h
    /\ subscribed' = subs
    /\ UNCHANGED stopping

\* The loop of start(), from index i on.
ContinueStart(t, task, i, h, subs) ==
    IF i <= Len(records)
      THEN /\ BeginBoot(t, [task EXCEPT !.i = i + 1], records[i], h, subs)
           /\ UNCHANGED sstate
      ELSE /\ Finish(t, h, subs)
           /\ sstate' = "running"

\* Mutant: the loop runs in spec order.
ContinueTeardownForward(t, task, i, h, subs) ==
    LET j == Smaller(i, Len(records)) IN
    IF j >= 1
      THEN /\ BeginStop(t, [task EXCEPT !.i = j - 1], records[Len(records) - j + 1], h, subs)
           /\ UNCHANGED sstate
      ELSE /\ Finish(t, h, subs)
           /\ sstate' = "stopped"

\* The loop of teardownRunningChildren, from index i down.  Indices that are
\* no longer in the array are skipped without an await.
ContinueTeardown(t, task, i, h, subs) ==
    LET j == Smaller(i, Len(records)) IN
    IF j >= 1
      THEN /\ BeginStop(t, [task EXCEPT !.i = j - 1], records[j], h, subs)
           /\ UNCHANGED sstate
      ELSE /\ Finish(t, h, subs)
           /\ sstate' = "stopped"

\* The second half of restartRestForOne, from index i on.
ContinueRestBoot(t, task, i, h, subs) ==
    IF i <= Len(records)
      THEN BeginBoot(t, [task EXCEPT !.kind = "restBoot", !.i = i + 1], records[i], h, subs)
      ELSE Finish(t, h, subs)

\* The first half of restartRestForOne, from index i down to base + 1.
ContinueRestStop(t, task, i, h, subs) ==
    LET j == Smaller(i, Len(records)) IN
    IF j > task.base
      THEN BeginStop(t, [task EXCEPT !.i = j - 1], records[j], h, subs)
      ELSE BeginBoot(t, [task EXCEPT !.kind = "restBoot", !.i = task.base + 1], task.failed, h, subs)

NewTask(kind, c) ==
    [kind |-> kind, phase |-> "factory", target |-> c, worker |-> NoWorker,
     i |-> 0, base |-> 0, failed |-> c]

-----------------------------------------------------------------------------
(* Calls from outside.                                                     *)

\* start(), up to its first await.
Start ==
    /\ sstate = "idle"
    /\ Busy # TaskIds
    /\ IF records = <<>>
         THEN sstate' = "running" /\ UNCHANGED <<tasks, handle, subscribed, stopping>>
         ELSE /\ sstate' = "starting"
              /\ BeginBoot(FreeTask, [NewTask("start", records[1]) EXCEPT !.i = 2],
                           records[1], handle, subscribed)
    /\ UNCHANGED <<records, stamps, workerOf, raised, finished, removeAsked, known>>

\* stop() when there is nothing to tear down.
StopAtOnce ==
    /\ sstate = "idle"
    /\ sstate' = "stopped"
    /\ UNCHANGED <<records, handle, stopping, stamps, tasks, workerOf, subscribed, raised,
                   finished, removeAsked, known>>

\* stop() of a supervisor that may have children; it returns at once in
\* "stopping" and in "stopped".
Stop ==
    /\ sstate \in {"starting", "running"}
    /\ Busy # TaskIds
    /\ IF records = <<>>
         THEN sstate' = "stopped" /\ UNCHANGED <<tasks, handle, subscribed, stopping>>
         ELSE /\ sstate' = "stopping"
              /\ BeginStop(FreeTask,
                           [NewTask("teardown", records[Len(records)]) EXCEPT !.i = Len(records) - 1],
                           records[Len(records)], handle, subscribed)
    /\ UNCHANGED <<records, stamps, workerOf, raised, finished, removeAsked, known>>

\* addChild(): appends the record and, if running, boots it.
AddChild(c) ==
    /\ sstate \in {"idle", "running"}
    /\ c \notin known
    /\ records # <<>>
    /\ Busy # TaskIds
    /\ records' = Append(records, c)
    /\ known' = known \cup {c}
    /\ IF sstate = "running"
         THEN BeginBoot(FreeTask, NewTask("boot", c), c, handle, subscribed)
         ELSE UNCHANGED <<tasks, handle, subscribed, stopping>>
    /\ UNCHANGED <<sstate, stamps, workerOf, raised, finished, removeAsked>>

\* removeChild() up to the await of stopRecord; the index is kept.
RemoveChild(c) ==
    /\ c \in Present
    /\ Busy # TaskIds
    /\ removeAsked' = removeAsked \cup {c}
    /\ BeginStop(FreeTask, [NewTask("remove", c) EXCEPT !.base = IndexOf(c)], c, handle, subscribed)
    /\ UNCHANGED <<sstate, records, stamps, workerOf, raised, finished, known>>

-----------------------------------------------------------------------------
(* An await settles.                                                       *)

\* The factory resolves: bootRecord installs the handle, subscribes to its
\* exit and calls handle.start().  Whatever the record held before is lost.
FactoryResolves(t) ==
    /\ t \in Busy
    /\ tasks[t].phase = "factory"
    /\ FreeWorkers # {}
    /\ LET c == tasks[t].target
           w == CHOOSE w \in FreeWorkers : TRUE
       IN  /\ handle' = [handle EXCEPT ![c] = w]
           /\ stopping' = [stopping EXCEPT ![c] = FALSE]
           /\ subscribed' = subscribed \cup {w}
           /\ workerOf' = [workerOf EXCEPT ![w] = c]
           /\ tasks' = [tasks EXCEPT ![t].phase = "handleStart", ![t].worker = w]
    /\ UNCHANGED <<sstate, records, stamps, raised, finished, removeAsked, known>>

\* handle.start() resolves: child_started is published and the caller of
\* bootRecord goes on.
StartResolves(t) ==
    /\ t \in Busy
    /\ tasks[t].phase = "handleStart"
    /\ LET task == tasks[t] IN
       \/ /\ task.kind = "start"
          /\ ContinueStart(t, task, task.i, handle, subscribed)
       \/ /\ task.kind = "restBoot"
          /\ ContinueRestBoot(t, task, task.i, handle, subscribed)
          /\ UNCHANGED sstate
       \/ /\ task.kind = "boot"
          /\ Finish(t, handle, subscribed)
          /\ UNCHANGED sstate
    /\ UNCHANGED <<records, stamps, workerOf, raised, finished, removeAsked, known>>

\* Mutant: the rejection of a restart is swallowed.
BootRejectsSilently(t) ==
    /\ t \in Busy
    /\ tasks[t].phase \in {"factory", "handleStart"}
    /\ tasks[t].kind # "start"
    /\ workerOf' = Died(tasks[t].worker)
    /\ Finish(t, handle, subscribed)
    /\ UNCHANGED <<sstate, records, stamps, raised, finished, removeAsked, known>>

\* factory() or handle.start() rejects.  Every caller of bootRecord publishes
\* start_failed; only start() also tears its children down.  A handle that was
\* installed stays installed.
BootRejects(t) ==
    /\ t \in Busy
    /\ tasks[t].phase \in {"factory", "handleStart"}
    /\ LET task == tasks[t]
       IN  /\ raised' = raised \cup {"start_failed"}
           /\ workerOf' = Died(task.worker)
           /\ \/ /\ task.kind = "start"
                 /\ ContinueTeardown(t, [task EXCEPT !.kind = "teardown"], Len(records),
                                     handle, subscribed)
              \/ /\ task.kind # "start"
                 /\ Finish(t, handle, subscribed)
                 /\ UNCHANGED sstate
    /\ UNCHANGED <<records, stamps, finished, removeAsked, known>>

\* handle.stop() settles (a rejection is swallowed, the worker is dead), and
\* the caller of stopRecord goes on.  removeChild splices at the index it
\* computed before the await.
StopSettles(t) ==
    /\ t \in Busy
    /\ tasks[t].phase = "handleStop"
    /\ workerOf' = Died(tasks[t].worker)
    /\ LET task == tasks[t] IN
       \/ /\ task.kind = "teardown"
          /\ ContinueTeardown(t, task, task.i, handle, subscribed)
          /\ UNCHANGED records
       \/ /\ task.kind = "restStop"
          /\ ContinueRestStop(t, task, task.i, handle, subscribed)
          /\ UNCHANGED <<sstate, records>>
       \/ /\ task.kind = "remove"
          /\ Finish(t, handle, subscribed)
          /\ records' = SpliceAt(task.base)
          /\ UNCHANGED sstate
    /\ UNCHANGED <<stamps, raised, finished, removeAsked, known>>

-----------------------------------------------------------------------------
(* A worker exits by itself: handleExit, if our listener is still there.   *)

ExitUnheard(w) ==
    /\ w \in alive
    /\ w \notin subscribed \/ stopping[workerOf[w]]
    /\ workerOf' = Died(w)
    /\ subscribed' = subscribed \ {w}
    /\ UNCHANGED <<sstate, records, handle, stopping, stamps, tasks, raised, finished,
                   removeAsked, known>>

\* What handleExit does first: it drops the handle and the listener the record
\* holds now, which are not those of w if another boot has replaced them.
HeardExit(w) ==
    /\ w \in alive
    /\ w \in subscribed
    /\ ~stopping[workerOf[w]]
    /\ workerOf' = Died(w)

HandleWithout(w) == [handle EXCEPT ![workerOf[w]] = NoWorker]

SubscribedWithout(w) == subscribed \ {w, handle[workerOf[w]]}

ExitNormal(w) ==
    /\ HeardExit(w)
    /\ handle' = HandleWithout(w)
    /\ subscribed' = SubscribedWithout(w)
    /\ finished' = finished \cup {workerOf[w]}
    /\ UNCHANGED <<sstate, records, stopping, stamps, tasks, raised, removeAsked, known>>

\* A crash or kill within the intensity: restartOrEscalate records the stamp
\* and applies the strategy, up to its first await.
ExitRestart(w) ==
    /\ HeardExit(w)
    /\ Busy # TaskIds
    /\ LET c == workerOf[w] IN
       /\ stamps[c] < Intensity[c]
       /\ stamps' = [stamps EXCEPT ![c] = @ + 1]
       /\ \/ /\ Strategy[c] = "one_for_one"
             /\ BeginBoot(FreeTask, NewTask("boot", c), c, HandleWithout(w), SubscribedWithout(w))
          \/ /\ Strategy[c] = "rest_for_one"
             /\ IF c \in Present
                  THEN ContinueRestStop(FreeTask, [NewTask("restStop", c) EXCEPT !.base = IndexOf(c)],
                                        Len(records), HandleWithout(w), SubscribedWithout(w))
                  ELSE /\ handle' = HandleWithout(w)
                       /\ subscribed' = SubscribedWithout(w)
                       /\ UNCHANGED <<tasks, stopping>>
    /\ UNCHANGED <<sstate, records, raised, finished, removeAsked, known>>

\* A crash or kill beyond the intensity: escalate and, unless a stop is under
\* way or over, tear everything down.
ExitEscalate(w) ==
    /\ HeardExit(w)
    /\ Busy # TaskIds
    /\ LET c == workerOf[w] IN
       /\ stamps[c] >= Intensity[c]
       /\ raised' = raised \cup {"intensity_exceeded"}
       /\ IF sstate \in {"stopping", "stopped"}
            THEN /\ handle' = HandleWithout(w)
                 /\ subscribed' = SubscribedWithout(w)
                 /\ UNCHANGED <<tasks, stopping, sstate>>
            ELSE ContinueTeardown(FreeTask, NewTask("teardown", c), Len(records),
                                  HandleWithout(w), SubscribedWithout(w))
    /\ UNCHANGED <<records, stamps, finished, removeAsked, known>>

\* The clock: the oldest stamp of a child leaves its window.
Expire(c) ==
    /\ stamps[c] > 0
    /\ stamps' = [stamps EXCEPT ![c] = @ - 1]
    /\ UNCHANGED <<sstate, records, handle, stopping, tasks, workerOf, subscribed, raised,
                   finished, removeAsked, known>>

Call ==
    \/ Start
    \/ StopAtOnce
    \/ Stop
    \/ \E c \in Children : AddChild(c) \/ RemoveChild(c)

Exit ==
    \E w \in Workers :
        ExitUnheard(w) \/ ExitNormal(w) \/ ExitRestart(w) \/ ExitEscalate(w)

Settle ==
    \E t \in TaskIds :
        FactoryResolves(t) \/ StartResolves(t) \/ BootRejects(t) \/ StopSettles(t)

\* Calls and exits come at any time, also while earlier async calls are in flight.
SupervisorNext ==
    \/ (Call \/ Exit) /\ overlapped' = (overlapped \/ Busy # {})
    \/ (Settle \/ \E c \in Children : Expire(c)) /\ UNCHANGED overlapped

SupervisorSpec == SupervisorInit /\ [][SupervisorNext]_<<superVars, overlapped>>

\* Every promise a task awaits settles.
SupervisorFairness == \A t \in TaskIds : WF_superVars(FactoryResolves(t) \/ StartResolves(t)
                                              \/ BootRejects(t) \/ StopSettles(t))

FairSupervisorSpec == SupervisorSpec /\ SupervisorFairness

-----------------------------------------------------------------------------

\* Every variable keeps its shape; the array holds no child twice.
SupervisorTypeOK ==
    /\ sstate \in SupervisorState
    /\ records \in Seq(Children)
    /\ \A i, j \in DOMAIN records : records[i] = records[j] => i = j
    /\ handle \in [Children -> Workers \cup {NoWorker}]
    /\ stopping \in [Children -> BOOLEAN]
    /\ stamps \in [Children -> Nat]
    /\ tasks \in [TaskIds -> Task \cup {NoTask}]
    /\ workerOf \in [Workers -> Children \cup {NoChild}]
    /\ subscribed \subseteq Workers
    /\ raised \subseteq {"start_failed", "intensity_exceeded"}
    /\ finished \subseteq Children
    /\ removeAsked \subseteq Children
    /\ known \subseteq Children
    /\ overlapped \in BOOLEAN

LiveOf(c) == {w \in alive : workerOf[w] = c}

\* A crash of the worker a record holds is never ignored, however calls and
\* exits overlap: while there is a handle its worker is one the child's own
\* factory made, the exit listener is attached and the flag that suppresses
\* restarts is down (stopRecord raises it, only bootRecord lowers it).
NoIgnoredCrash ==
    \A c \in Children :
        handle[c] # NoWorker =>
            /\ ~stopping[c]
            /\ handle[c] \in alive =>
                  handle[c] \in subscribed /\ workerOf[handle[c]] = c

\* No child is restarted more often than its policy tolerates in the window,
\* even when several of its exits are handled while restarts are in flight.
WithinIntensity == \A c \in Children : stamps[c] <= Intensity[c]

\* A stopped supervisor with no call in flight has left no worker behind, as long as
\* calls and exits came one at a time.
StoppedIsQuiet == ~overlapped /\ sstate = "stopped" /\ Busy = {} => alive = {}

\* A child never has two live workers, as long as calls and exits came one at a time.
OneWorkerPerChild == overlapped \/ \A v, w \in alive : workerOf[v] = workerOf[w] => v = w

\* Dependents come down before what they depend on and come up after it: while
\* a task stops or boots a child in spec order, no worker of a later child is
\* alive (reverse order of teardownRunningChildren and restartRestForOne), as long
\* as calls and exits came one at a time.
DependentsDown ==
    ~overlapped => \A t \in Busy :
        /\ tasks[t].kind \in {"start", "teardown", "restStop", "restBoot"}
        /\ tasks[t].target \in Present
        => \A j \in DOMAIN records :
              j > IndexOf(tasks[t].target) => LiveOf(records[j]) = {}

\* A task enters `await record.spec.factory()' for child c.
FactoryCalled(c) ==
    \E t \in TaskIds :
        /\ tasks'[t] # NoTask
        /\ tasks'[t].phase = "factory"
        /\ tasks'[t].target = c
        /\ tasks[t] = NoTask \/ tasks[t].phase # "factory"

\* The header of supervisor.ts: after an escalation for exceeded intensity the
\* supervisor goes to stopped without invoking the factory again; so it is as
\* long as calls and exits come one at a time.
NoFactoryAfterEscalation ==
    []["intensity_exceeded" \in raised /\ ~overlapped' =>
          \A c \in Children : ~FactoryCalled(c)]_superVars

\* removeChild removes the child it was called for and no other.
RemovesOnlyRequested ==
    [][\A i \in DOMAIN records :
          records[i] \notin {records'[j] : j \in DOMAIN records'}
              => records[i] \in removeAsked]_superVars

\* While calls and exits come one at a time a stopped supervisor has no live
\* worker, no child two, a torn-down child no live dependent, and no factory
\* runs after the escalation that gave the supervisor up; and however they
\* overlap the restart intensity is kept and no crash goes unanswered.
SupervisorSound ==
    /\ [](/\ SupervisorTypeOK /\ StoppedIsQuiet /\ OneWorkerPerChild
         /\ DependentsDown /\ WithinIntensity /\ NoIgnoredCrash)
    /\ NoFactoryAfterEscalation

\* A child of a running supervisor that has no worker and is owed one: it did not
\* finish, was not removed, and the failure was not escalated.
Unanswered(c) ==
    /\ c \in Present /\ LiveOf(c) = {}
    /\ c \notin finished \cup removeAsked
    /\ "start_failed" \notin raised

\* A stop comes to its end, however calls and exits overlap; and as long as they
\* come one at a time every crash is answered, by a restart of all the children
\* that are owed a worker or by an escalation.
SupervisorProgress ==
    LET Owed == \/ sstate = "stopping"
                \/ sstate = "running" /\ ~overlapped /\ \E c \in Children : Unanswered(c)
    IN Owed ~> ~Owed
=============================================================================
