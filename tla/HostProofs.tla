----------------------------- MODULE HostProofs -----------------------------
(***************************************************************************)
(* Proofs about what runs on the operator's machine, for any number of     *)
(* whatever it runs.                                                       *)
(*                                                                         *)
(* Leases (any runs, agents, paths, globs, time-to-live and clock): what   *)
(* an operation in progress knows.  The time an acquirer read is not in    *)
(* the future (AcquirersPast), a lease being reclaimed is stale            *)
(* (ReclaimStale), and every piece of uncommitted work has a row no        *)
(* reclaimer has found clean (WorkHasRow).                                 *)
(*                                                                         *)
(* RunCommands (any runs and vendor sessions): the step a run is at says   *)
(* what its row, its process, its broker and its place in ACTIVE_RUNS are  *)
(* (JobFits).                                                              *)
(*                                                                         *)
(* Supervisor (any children, workers, policies and calls in flight): what  *)
(* survives every overlap is that a record, its listener, its flag and its *)
(* worker belong together (SupBase); while calls and exits come one at a   *)
(* time at most one call is in flight, and its place in its loop says who  *)
(* can be alive (Alone).                                                   *)
(*                                                                         *)
(* Persistence (any processes that open the database): one of them is      *)
(* between its INSERT into schema_lock and its DELETE (LockFits), and what *)
(* it found applied is what is applied (SchemaFits).                       *)
(* And its audit log (any secrets and entries, a log of any length): the   *)
(* rows are those that were appended, or one of them says something else,  *)
(* or one is missing with others behind it; unless two secrets met, there  *)
(* is one (AuditInv).                                                      *)
(*                                                                         *)
(* Mailbox (any agents, processes, rows and clock): the rows of an agent   *)
(* have one order, and a row that comes behind all others goes to its end  *)
(* (RowsToGrows); what a process is about to write are messages of the     *)
(* table (FilesFit), and with one process the appends it still owes make   *)
(* the files the table (AloneFits).                                        *)
(***************************************************************************)
EXTENDS Leases, RunCommands, Supervisor, Persistence, Mailbox,
        FiniteSetTheorems, SequenceTheorems, WellFoundedInduction, TLAPS

\* Ids in the table were returned by newLeaseId.
IdsUsed == \A id \in LeaseIds : Exists(id) => id \in used

Acquiring(run) == op[run] # Idle /\ op[run].kind = "acquire"

Reclaiming(run) == op[run] # Idle /\ op[run].kind \in {"status", "clean", "dirty"}

\* The time an acquirer read is not in the future.
AcquirersPast == \A run \in LeaseRuns : Acquiring(run) => op[run].now <= clock

\* The row a reclaimer is about is stale, and still the row it read unless it is
\* gone.
ReclaimStale ==
    \A run \in LeaseRuns : Reclaiming(run) =>
        /\ op[run].id \in used
        /\ Exists(op[run].id) =>
              /\ rows[op[run].id].expires <= clock
              /\ rows[op[run].id].run = op[run].row.run
              /\ rows[op[run].id].glob = op[run].row.glob

\* A reclaimer found the worktree clean for this row and is about to delete it.
Doomed(id) == \E run \in LeaseRuns : op[run] # Idle /\ op[run].kind = "clean" /\ op[run].id = id

\* Uncommitted work has a row that no reclaimer is about to delete.
WorkHasRow ==
    \A run \in LeaseRuns : \A p \in dirty[run] \ givenUp[run] :
        \E id \in LeaseIds :
            /\ Exists(id)
            /\ rows[id].run = run
            /\ p \in Covers[rows[id].glob]
            /\ ~Doomed(id)

\* The inductive invariant.
IInv ==
    /\ LeaseTypeOK
    /\ IdsUsed
    /\ AcquirersPast
    /\ ReclaimStale
    /\ LiveDisjoint
    /\ WorkHasRow

-----------------------------------------------------------------------------

\* The kind of an operation tells which record it is.
LEMMA OpKinds ==
    ASSUME LeaseTypeOK, NEW run \in LeaseRuns, op[run] # Idle
    PROVE  /\ op[run].kind = "acquire" => op[run] \in AcquireOp
           /\ op[run].kind \in {"status", "clean", "dirty"} => op[run] \in ReclaimOp
           /\ op[run].kind = "diff" => op[run] \in GuardOp
  BY DEF LeaseTypeOK, AcquireOp, ReclaimOp, GuardOp

\* What exists in the table is a row.
LEMMA RowType ==
    ASSUME LeaseTypeOK, NEW id \in LeaseIds, Exists(id)
    PROVE  rows[id] \in Row
  BY DEF LeaseTypeOK, Exists

LEMMA FreshId ==
    ASSUME LeaseTypeOK, used # LeaseIds
    PROVE  newLeaseId \in LeaseIds /\ newLeaseId \notin used
  BY DEF LeaseTypeOK, newLeaseId

LEMMA TypeInit == LeaseInit => LeaseTypeOK
  BY LeasesAssumption DEF LeaseInit, LeaseTypeOK

LEMMA TypeStep ==
    ASSUME LeaseTypeOK, [LeaseNext]_leaseVars
    PROVE  LeaseTypeOK'
  <1> USE LeasesAssumption
  <1>1. ASSUME NEW run \in LeaseRuns, NEW glob \in Globs, AcquireCall(run, glob) PROVE LeaseTypeOK'
    BY <1>1 DEF AcquireCall, Begin, LeaseTypeOK, AcquireOp
  <1>2. ASSUME NEW run \in LeaseRuns, AcquireConflict(run) PROVE LeaseTypeOK'
    BY <1>2 DEF AcquireConflict, End, LeaseTypeOK
  <1>3. ASSUME NEW run \in LeaseRuns, AcquireCommit(run) PROVE LeaseTypeOK'
    <2>1. op[run] \in AcquireOp
      BY <1>3, OpKinds DEF AcquireCommit
    <2>2. [run |-> run, glob |-> op[run].glob, expires |-> op[run].now + TTL] \in Row
      BY <2>1 DEF AcquireOp, Row
    <2>3. newLeaseId \in LeaseIds
      BY <1>3, FreshId DEF AcquireCommit
    <2> QED
      BY <1>3, <2>2, <2>3 DEF AcquireCommit, End, LeaseTypeOK
  <1>4. ASSUME NEW run \in LeaseRuns, NEW id \in LeaseIds, releaseLease(run, id) PROVE LeaseTypeOK'
    BY <1>4 DEF releaseLease, LeaseTypeOK
  <1>5. ASSUME NEW id \in LeaseIds, MarkStale(id) PROVE LeaseTypeOK'
    <2>1. rows[id] \in Row
      BY <1>5, RowType DEF MarkStale
    <2>2. [rows[id] EXCEPT !.expires = clock] \in Row
      BY <2>1 DEF Row, LeaseTypeOK
    <2>3. rows' = [rows EXCEPT ![id] = [rows[id] EXCEPT !.expires = clock]]
      BY <1>5 DEF MarkStale
    <2> QED
      BY <1>5, <2>2, <2>3 DEF MarkStale, LeaseTypeOK
  <1>6. ASSUME NEW run \in LeaseRuns, NEW id \in LeaseIds, ReclaimCall(run, id) PROVE LeaseTypeOK'
    <2>1. [kind |-> "status", id |-> id, row |-> rows[id]] \in ReclaimOp
      BY <1>6, RowType DEF ReclaimCall, ReclaimOp
    <2> QED
      BY <1>6, <2>1 DEF ReclaimCall, Begin, LeaseTypeOK
  <1>7. ASSUME NEW run \in LeaseRuns, ReclaimStatus(run) PROVE LeaseTypeOK'
    <2>1. op[run] \in ReclaimOp
      BY <1>7, OpKinds DEF ReclaimStatus
    <2>2. \A k \in {"clean", "dirty"} : [op[run] EXCEPT !.kind = k] \in ReclaimOp
      BY <2>1 DEF ReclaimOp
    <2>3. op' \in [LeaseRuns -> AcquireOp \cup ReclaimOp \cup GuardOp \cup {Idle}]
      <3>1. CASE op' = [op EXCEPT ![run] = Idle]
        BY <3>1 DEF LeaseTypeOK
      <3>2. ASSUME NEW k \in {"clean", "dirty"}, op' = [op EXCEPT ![run] = [op[run] EXCEPT !.kind = k]]
            PROVE  op' \in [LeaseRuns -> AcquireOp \cup ReclaimOp \cup GuardOp \cup {Idle}]
        BY <3>2, <2>2 DEF LeaseTypeOK
      <3> QED
        BY <1>7, <3>1, <3>2 DEF ReclaimStatus
    <2> QED
      BY <1>7, <2>3 DEF ReclaimStatus, LeaseTypeOK
  <1>8. ASSUME NEW run \in LeaseRuns, ReclaimDelete(run) PROVE LeaseTypeOK'
    BY <1>8 DEF ReclaimDelete, End, LeaseTypeOK
  <1>9. ASSUME NEW run \in LeaseRuns, ReclaimRefused(run) PROVE LeaseTypeOK'
    BY <1>9 DEF ReclaimRefused, End, LeaseTypeOK
  <1>10. ASSUME NEW run \in LeaseRuns, GuardCall(run) PROVE LeaseTypeOK'
    BY <1>10 DEF GuardCall, Begin, LeaseTypeOK, GuardOp
  <1>11. ASSUME NEW run \in LeaseRuns, GuardAllows(run) PROVE LeaseTypeOK'
    BY <1>11 DEF GuardAllows, End, LeaseTypeOK
  <1>12. ASSUME NEW run \in LeaseRuns, GuardBlocks(run) PROVE LeaseTypeOK'
    BY <1>12 DEF GuardBlocks, End, LeaseTypeOK
  <1>13. ASSUME NEW run \in LeaseRuns, NEW p \in Paths, Edit(run, p) PROVE LeaseTypeOK'
    BY <1>13 DEF Edit, LeaseTypeOK
  <1>14. ASSUME NEW run \in LeaseRuns, WorktreeRemoved(run) PROVE LeaseTypeOK'
    BY <1>14 DEF WorktreeRemoved, LeaseTypeOK
  <1>15. CASE Tick
    BY <1>15 DEF Tick, LeaseTypeOK
  <1>16. CASE UNCHANGED leaseVars
    BY <1>16 DEF leaseVars, LeaseTypeOK
  <1> QED
    BY <1>1, <1>2, <1>3, <1>4, <1>5, <1>6, <1>7, <1>8, <1>9, <1>10, <1>11, <1>12, <1>13, <1>14,
       <1>15, <1>16 DEF LeaseNext

\* The two nested updates of the specification, one field at a time.
LEMMA MarkedRow ==
    ASSUME LeaseTypeOK, NEW id \in LeaseIds, MarkStale(id)
    PROVE  /\ rows' = [rows EXCEPT ![id] = rows'[id]]
           /\ rows'[id] \in Row
           /\ rows'[id].run = rows[id].run
           /\ rows'[id].glob = rows[id].glob
           /\ rows'[id].expires = clock
  <1>1. rows[id] \in Row
    BY RowType DEF MarkStale
  <1>2. rows' = [rows EXCEPT ![id] = [rows[id] EXCEPT !.expires = clock]]
    BY DEF MarkStale
  <1>3. rows'[id] = [rows[id] EXCEPT !.expires = clock]
    BY <1>2 DEF LeaseTypeOK
  <1> QED
    BY <1>1, <1>2, <1>3 DEF Row, LeaseTypeOK

LEMMA StatusOp ==
    ASSUME LeaseTypeOK, NEW run \in LeaseRuns, ReclaimStatus(run)
    PROVE  /\ op' = [op EXCEPT ![run] = op'[run]]
           /\ op[run] \in ReclaimOp
           /\ op'[run] # Idle =>
                 /\ op'[run] \in ReclaimOp
                 /\ op'[run].id = op[run].id
                 /\ op'[run].row = op[run].row
                 /\ op'[run].kind = "clean" => dirty[op[run].row.run] \cap Covers[op[run].row.glob] = {}
  <1>1. op[run] \in ReclaimOp
    BY OpKinds DEF ReclaimStatus
  <1>2. CASE op' = [op EXCEPT ![run] = Idle]
    BY <1>1, <1>2 DEF LeaseTypeOK
  <1>3. ASSUME NEW k \in {"clean", "dirty"},
               k = "clean" => dirty[op[run].row.run] \cap Covers[op[run].row.glob] = {},
               op' = [op EXCEPT ![run] = [op[run] EXCEPT !.kind = k]]
        PROVE  /\ op' = [op EXCEPT ![run] = op'[run]]
               /\ op'[run] \in ReclaimOp
               /\ op'[run].id = op[run].id
               /\ op'[run].row = op[run].row
               /\ op'[run].kind = "clean" => dirty[op[run].row.run] \cap Covers[op[run].row.glob] = {}
    <2>1. op'[run] = [op[run] EXCEPT !.kind = k]
      BY <1>3 DEF LeaseTypeOK
    <2>2. op'[run].kind = k /\ op'[run].id = op[run].id /\ op'[run].row = op[run].row
      BY <2>1, <1>1 DEF ReclaimOp
    <2>3. op'[run] \in ReclaimOp
      BY <2>1, <1>1 DEF ReclaimOp
    <2> QED
      BY <1>3, <2>1, <2>2, <2>3 DEF LeaseTypeOK
  <1>4. \/ op' = [op EXCEPT ![run] = Idle]
        \/ \E k \in {"clean", "dirty"} :
              /\ k = "clean" => dirty[op[run].row.run] \cap Covers[op[run].row.glob] = {}
              /\ op' = [op EXCEPT ![run] = [op[run] EXCEPT !.kind = k]]
    BY Zenon DEF ReclaimStatus
  <1> QED
    BY <1>1, <1>2, <1>3, <1>4

\* Time and the table: ids are used once, times read are past, rows being
\* reclaimed are stale, and live leases are disjoint.
TableInv == IdsUsed /\ AcquirersPast /\ ReclaimStale /\ LiveDisjoint

LEMMA TableInit == LeaseInit => TableInv
  BY DEF LeaseInit, TableInv, IdsUsed, AcquirersPast, ReclaimStale, LiveDisjoint, Exists, Active, Acquiring,
         Reclaiming

LEMMA TableStep ==
    ASSUME LeaseTypeOK, LeaseTypeOK', TableInv, [LeaseNext]_leaseVars
    PROVE  TableInv'
  <1> USE LeasesAssumption DEF TableInv, IdsUsed, AcquirersPast, ReclaimStale, LiveDisjoint, Exists,
                               Active, Acquiring, Reclaiming, globsOverlap
  <1>1. ASSUME NEW run \in LeaseRuns, NEW glob \in Globs, AcquireCall(run, glob) PROVE TableInv'
    BY <1>1 DEF AcquireCall, Begin, LeaseTypeOK
  <1>2. ASSUME NEW run \in LeaseRuns, AcquireConflict(run) PROVE TableInv'
    BY <1>2 DEF AcquireConflict, End, LeaseTypeOK
  <1>3. ASSUME NEW run \in LeaseRuns, AcquireCommit(run) PROVE TableInv'
    <2> DEFINE row == [run |-> run, glob |-> op[run].glob, expires |-> op[run].now + TTL]
    <2>1. op[run] \in AcquireOp
      BY <1>3, OpKinds DEF AcquireCommit
    <2>2. newLeaseId \in LeaseIds /\ newLeaseId \notin used
      BY <1>3, FreshId DEF AcquireCommit
    <2>3. rows' = [rows EXCEPT ![newLeaseId] = row]
      BY <1>3 DEF AcquireCommit
    <2>4. \A id \in LeaseIds : id # newLeaseId => rows'[id] = rows[id]
      BY <2>3 DEF LeaseTypeOK
    <2>5. \A other \in LeaseRuns : op'[other] # Idle => other # run /\ op'[other] = op[other]
      BY <1>3 DEF AcquireCommit, End, LeaseTypeOK
    <2>6. used' = used \cup {newLeaseId} /\ clock' = clock
      BY <1>3 DEF AcquireCommit
    <2>7. IdsUsed'
      BY <2>4, <2>6
    <2>8. AcquirersPast'
      BY <2>5, <2>6
    <2>9. ReclaimStale'
      <3>1. ASSUME NEW other \in LeaseRuns, Reclaiming(other)'
            PROVE  op[other].id \in LeaseIds /\ op[other].id # newLeaseId /\ op'[other] = op[other]
        BY <3>1, <2>2, <2>5, OpKinds DEF ReclaimOp
      <3> QED
        BY <3>1, <2>4, <2>5, <2>6
    <2>10. LiveDisjoint'
      <3>1. rows'[newLeaseId].glob = op[run].glob
        BY <2>2, <2>3 DEF LeaseTypeOK
      <3>2. \A id \in LeaseIds :
               id # newLeaseId /\ rows[id] # NoRow /\ rows[id].expires > clock
                   => ~globsOverlap(rows[id].glob, op[run].glob)
        <4>1. op[run].now <= clock /\ op[run].now \in Nat /\ clock \in Nat
          BY <1>3, <2>1 DEF AcquireCommit, AcquireOp, LeaseTypeOK
        <4>2. \A id \in LeaseIds : rows[id] # NoRow => rows[id].expires \in Nat
          BY RowType DEF Row
        <4> QED
          BY <1>3, <4>1, <4>2 DEF AcquireCommit
      <3>3. \A id \in LeaseIds : rows[id] # NoRow => rows[id].glob \in Globs
        BY RowType DEF Row
      <3>4. \A id \in LeaseIds :
               id # newLeaseId /\ rows[id] # NoRow /\ rows[id].expires > clock
                   => ~globsOverlap(op[run].glob, rows[id].glob)
        BY <2>1, <3>2, <3>3 DEF AcquireOp
      <3> QED
        BY <3>1, <3>2, <3>4, <2>4, <2>6
    <2> QED
      BY <2>7, <2>8, <2>9, <2>10
  <1>4. ASSUME NEW run \in LeaseRuns, NEW id \in LeaseIds, releaseLease(run, id) PROVE TableInv'
    BY <1>4 DEF releaseLease, LeaseTypeOK
  <1>5. ASSUME NEW id \in LeaseIds, MarkStale(id) PROVE TableInv'
    <2>1. clock' = clock /\ op' = op /\ used' = used /\ clock \in Nat /\ rows[id] # NoRow
      BY <1>5 DEF MarkStale, LeaseTypeOK
    <2>2. \A i \in LeaseIds : i # id => rows'[i] = rows[i]
      BY <1>5, MarkedRow DEF LeaseTypeOK
    <2>3. /\ rows'[id].run = rows[id].run
          /\ rows'[id].glob = rows[id].glob
          /\ rows'[id].expires = clock
      BY <1>5, MarkedRow
    <2>4. \A other \in LeaseRuns : Reclaiming(other) => op[other].id \in LeaseIds
      BY OpKinds DEF ReclaimOp
    <2>5. IdsUsed' /\ AcquirersPast'
      BY <2>1, <2>2
    <2>6. ReclaimStale'
      BY <2>1, <2>2, <2>3, <2>4
    <2>7. LiveDisjoint'
      BY <2>1, <2>2, <2>3
    <2> QED
      BY <2>5, <2>6, <2>7
  <1>6. ASSUME NEW run \in LeaseRuns, NEW id \in LeaseIds, ReclaimCall(run, id) PROVE TableInv'
    <2>1. op'[run] = [kind |-> "status", id |-> id, row |-> rows[id]]
      BY <1>6 DEF ReclaimCall, Begin, LeaseTypeOK
    <2>2. \A other \in LeaseRuns : other # run => op'[other] = op[other]
      BY <1>6 DEF ReclaimCall, Begin, LeaseTypeOK
    <2> QED
      BY <1>6, <2>1, <2>2 DEF ReclaimCall
  <1>7. ASSUME NEW run \in LeaseRuns, ReclaimStatus(run) PROVE TableInv'
    <2>1. \A other \in LeaseRuns : other # run => op'[other] = op[other]
      BY <1>7, StatusOp DEF LeaseTypeOK
    <2>2. clock' = clock /\ rows' = rows /\ used' = used
      BY <1>7 DEF ReclaimStatus
    <2>3. op[run] # Idle /\ op[run].kind = "status"
      BY <1>7 DEF ReclaimStatus
    <2>4. AcquirersPast'
      <3>1. op'[run] # Idle => op'[run].kind # "acquire"
        BY <1>7, StatusOp DEF ReclaimOp
      <3> QED
        BY <2>1, <2>2, <3>1
    <2>5. ReclaimStale'
      BY <1>7, <2>1, <2>2, <2>3, StatusOp
    <2> QED
      BY <2>2, <2>4, <2>5
  <1>8. ASSUME NEW run \in LeaseRuns, ReclaimDelete(run) PROVE TableInv'
    BY <1>8, OpKinds DEF ReclaimDelete, End, LeaseTypeOK, ReclaimOp
  <1>9. ASSUME NEW run \in LeaseRuns, ReclaimRefused(run) PROVE TableInv'
    BY <1>9 DEF ReclaimRefused, End, LeaseTypeOK
  <1>10. ASSUME NEW run \in LeaseRuns, GuardCall(run) PROVE TableInv'
    BY <1>10 DEF GuardCall, Begin, LeaseTypeOK
  <1>11. ASSUME NEW run \in LeaseRuns, GuardAllows(run) PROVE TableInv'
    BY <1>11 DEF GuardAllows, End, LeaseTypeOK
  <1>12. ASSUME NEW run \in LeaseRuns, GuardBlocks(run) PROVE TableInv'
    BY <1>12 DEF GuardBlocks, End, LeaseTypeOK
  <1>13. ASSUME NEW run \in LeaseRuns, NEW p \in Paths, Edit(run, p) PROVE TableInv'
    BY <1>13 DEF Edit, LeaseTypeOK
  <1>14. ASSUME NEW run \in LeaseRuns, WorktreeRemoved(run) PROVE TableInv'
    BY <1>14 DEF WorktreeRemoved, LeaseTypeOK
  <1>15. CASE Tick
    <2>1. clock' = clock + 1 /\ clock \in Nat /\ rows' = rows /\ op' = op /\ used' = used
      BY <1>15 DEF Tick, LeaseTypeOK
    <2>2. \A id \in LeaseIds : rows[id] # NoRow => rows[id].expires \in Nat
      BY RowType DEF Row
    <2>3. \A run \in LeaseRuns : Acquiring(run) => op[run].now \in Nat
      BY OpKinds DEF AcquireOp
    <2>4. \A run \in LeaseRuns : Reclaiming(run) => op[run].id \in LeaseIds
      BY OpKinds DEF ReclaimOp
    <2> QED
      BY <2>1, <2>2, <2>3, <2>4
  <1>16. CASE UNCHANGED leaseVars
    BY <1>16 DEF leaseVars
  <1> QED
    BY <1>1, <1>2, <1>3, <1>4, <1>5, <1>6, <1>7, <1>8, <1>9, <1>10, <1>11, <1>12, <1>13, <1>14,
       <1>15, <1>16 DEF LeaseNext

LEMMA WorkInit == LeaseInit => WorkHasRow
  BY DEF LeaseInit, WorkHasRow

LEMMA WorkStep ==
    ASSUME LeaseTypeOK, LeaseTypeOK', TableInv, WorkHasRow, [LeaseNext]_leaseVars
    PROVE  WorkHasRow'
  <1> USE DEF WorkHasRow, Exists, Doomed
  <1>1. ASSUME NEW run \in LeaseRuns, NEW glob \in Globs, AcquireCall(run, glob) PROVE WorkHasRow'
    BY <1>1 DEF AcquireCall, Begin, LeaseTypeOK
  <1>2. ASSUME NEW run \in LeaseRuns, AcquireConflict(run) PROVE WorkHasRow'
    BY <1>2 DEF AcquireConflict, End, LeaseTypeOK
  <1>3. ASSUME NEW run \in LeaseRuns, AcquireCommit(run) PROVE WorkHasRow'
    <2>1. newLeaseId \in LeaseIds /\ rows[newLeaseId] = NoRow
      BY <1>3, FreshId DEF AcquireCommit, TableInv, IdsUsed
    <2>2. \A id \in LeaseIds : rows[id] # NoRow => rows'[id] = rows[id]
      BY <1>3, <2>1 DEF AcquireCommit, LeaseTypeOK
    <2>3. \A id \in LeaseIds : ~Doomed(id) => ~Doomed(id)'
      BY <1>3 DEF AcquireCommit, End, LeaseTypeOK
    <2>4. dirty' = dirty /\ givenUp' = givenUp
      BY <1>3 DEF AcquireCommit
    <2> QED
      BY <2>2, <2>3, <2>4
  <1>4. ASSUME NEW run \in LeaseRuns, NEW id \in LeaseIds, releaseLease(run, id) PROVE WorkHasRow'
    <2>1. ASSUME NEW other \in LeaseRuns, NEW p \in dirty'[other] \ givenUp'[other]
          PROVE  /\ p \in dirty[other] \ givenUp[other]
                 /\ other = run => p \notin Covers[rows[id].glob]
      BY <1>4, <2>1 DEF releaseLease, LeaseTypeOK
    <2>2. \A i \in LeaseIds : i # id => rows'[i] = rows[i]
      BY <1>4 DEF releaseLease, LeaseTypeOK
    <2>3. op' = op /\ rows[id].run = run
      BY <1>4 DEF releaseLease
    <2> QED
      BY <2>1, <2>2, <2>3
  <1>5. ASSUME NEW id \in LeaseIds, MarkStale(id) PROVE WorkHasRow'
    <2>1. \A i \in LeaseIds : rows[i] # NoRow =>
             rows'[i] # NoRow /\ rows'[i].run = rows[i].run /\ rows'[i].glob = rows[i].glob
      <3>1. \A i \in LeaseIds : i # id => rows'[i] = rows[i]
        BY <1>5, MarkedRow DEF LeaseTypeOK
      <3>2. rows'[id] # NoRow
        BY <1>5, MarkedRow, LeasesAssumption DEF Row
      <3> QED
        BY <1>5, <3>1, <3>2, MarkedRow
    <2>2. op' = op /\ dirty' = dirty /\ givenUp' = givenUp
      BY <1>5 DEF MarkStale
    <2> QED
      BY <2>1, <2>2
  <1>6. ASSUME NEW run \in LeaseRuns, NEW id \in LeaseIds, ReclaimCall(run, id) PROVE WorkHasRow'
    <2>1. op'[run] = [kind |-> "status", id |-> id, row |-> rows[id]]
      BY <1>6 DEF ReclaimCall, Begin, LeaseTypeOK
    <2>2. \A other \in LeaseRuns : other # run => op'[other] = op[other]
      BY <1>6 DEF ReclaimCall, Begin, LeaseTypeOK
    <2>3. \A i \in LeaseIds : ~Doomed(i) => ~Doomed(i)'
      BY <2>1, <2>2
    <2> QED
      BY <1>6, <2>3 DEF ReclaimCall
  <1>7. ASSUME NEW run \in LeaseRuns, ReclaimStatus(run) PROVE WorkHasRow'
    <2>1. \A other \in LeaseRuns : other # run => op'[other] = op[other]
      BY <1>7, StatusOp DEF LeaseTypeOK
    <2>2. clock' = clock /\ rows' = rows /\ dirty' = dirty /\ givenUp' = givenUp
      BY <1>7 DEF ReclaimStatus
    <2>3. Reclaiming(run)
      BY <1>7 DEF ReclaimStatus, Reclaiming
    <2>4. ASSUME NEW other \in LeaseRuns, NEW p \in dirty[other] \ givenUp[other], NEW i \in LeaseIds,
                 rows[i] # NoRow, rows[i].run = other, p \in Covers[rows[i].glob], ~Doomed(i)
          PROVE  ~Doomed(i)'
      <3>1. SUFFICES ASSUME op'[run] # Idle, op'[run].kind = "clean", op'[run].id = i
                     PROVE  FALSE
        BY <2>1, <2>4
      <3>2. rows[i].run = op[run].row.run /\ rows[i].glob = op[run].row.glob
        BY <1>7, <2>3, <2>4, <3>1, StatusOp DEF TableInv, ReclaimStale
      <3>3. dirty[op[run].row.run] \cap Covers[op[run].row.glob] = {}
        BY <1>7, <3>1, StatusOp
      <3> QED
        BY <2>4, <3>2, <3>3
    <2> QED
      BY <2>2, <2>4
  <1>8. ASSUME NEW run \in LeaseRuns, ReclaimDelete(run) PROVE WorkHasRow'
    <2>1. op[run].id \in LeaseIds
      BY <1>8, OpKinds DEF ReclaimDelete, ReclaimOp
    <2>2. \A i \in LeaseIds : i # op[run].id => rows'[i] = rows[i]
      BY <1>8, <2>1 DEF ReclaimDelete, LeaseTypeOK
    <2>3. \A i \in LeaseIds : ~Doomed(i) => i # op[run].id /\ ~Doomed(i)'
      BY <1>8 DEF ReclaimDelete, End, LeaseTypeOK
    <2>4. dirty' = dirty /\ givenUp' = givenUp
      BY <1>8 DEF ReclaimDelete
    <2> QED
      BY <2>2, <2>3, <2>4
  <1>9. ASSUME NEW run \in LeaseRuns, ReclaimRefused(run) PROVE WorkHasRow'
    BY <1>9 DEF ReclaimRefused, End, LeaseTypeOK
  <1>10. ASSUME NEW run \in LeaseRuns, GuardCall(run) PROVE WorkHasRow'
    BY <1>10 DEF GuardCall, Begin, LeaseTypeOK
  <1>11. ASSUME NEW run \in LeaseRuns, GuardAllows(run) PROVE WorkHasRow'
    <2>1. \A i \in LeaseIds : ~Doomed(i) => ~Doomed(i)'
      BY <1>11 DEF GuardAllows, End, LeaseTypeOK
    <2>2. \A other \in LeaseRuns : dirty'[other] \ givenUp'[other] \subseteq dirty[other] \ givenUp[other]
      BY <1>11 DEF GuardAllows, LeaseTypeOK
    <2>3. rows' = rows
      BY <1>11 DEF GuardAllows
    <2> QED
      BY <2>1, <2>2, <2>3
  <1>12. ASSUME NEW run \in LeaseRuns, GuardBlocks(run) PROVE WorkHasRow'
    BY <1>12 DEF GuardBlocks, End, LeaseTypeOK
  <1>13. ASSUME NEW run \in LeaseRuns, NEW p \in Paths, Edit(run, p) PROVE WorkHasRow'
    <2>1. PICK id \in Active(clock) : rows[id].run = run /\ p \in Covers[rows[id].glob]
      BY <1>13 DEF Edit
    <2>2. id \in LeaseIds /\ rows[id] # NoRow /\ rows[id].expires > clock
      BY <2>1 DEF Active
    <2>3. rows[id].expires \in Nat /\ clock \in Nat
      BY <2>2, RowType DEF Row, LeaseTypeOK
    <2>4. ~Doomed(id)
      BY <2>2, <2>3 DEF TableInv, ReclaimStale, Reclaiming
    <2>5. rows' = rows /\ op' = op
      BY <1>13 DEF Edit
    <2>6. ASSUME NEW other \in LeaseRuns, NEW q \in dirty'[other] \ givenUp'[other]
          PROVE  (other = run /\ q = p) \/ q \in dirty[other] \ givenUp[other]
      BY <1>13, <2>6 DEF Edit, LeaseTypeOK
    <2> QED
      BY <2>1, <2>2, <2>4, <2>5, <2>6
  <1>14. ASSUME NEW run \in LeaseRuns, WorktreeRemoved(run) PROVE WorkHasRow'
    <2>1. \A other \in LeaseRuns : dirty'[other] \ givenUp'[other] \subseteq dirty[other] \ givenUp[other]
      BY <1>14 DEF WorktreeRemoved, LeaseTypeOK
    <2> QED
      BY <1>14, <2>1 DEF WorktreeRemoved
  <1>15. CASE Tick
    BY <1>15 DEF Tick
  <1>16. CASE UNCHANGED leaseVars
    BY <1>16 DEF leaseVars
  <1> QED
    BY <1>1, <1>2, <1>3, <1>4, <1>5, <1>6, <1>7, <1>8, <1>9, <1>10, <1>11, <1>12, <1>13, <1>14,
       <1>15, <1>16 DEF LeaseNext

\* The invariant is inductive: it holds at all times.
THEOREM Invariance == LeaseSpec => []IInv
  <1>1. LeaseInit => IInv
    BY TypeInit, TableInit, WorkInit DEF IInv, TableInv
  <1>2. IInv /\ [LeaseNext]_leaseVars => IInv'
    BY TypeStep, TableStep, WorkStep DEF IInv, TableInv
  <1> QED
    BY <1>1, <1>2, PTL DEF LeaseSpec

\* The tables and operations keep their shape.
THEOREM TypeCorrect == LeaseSpec => []LeaseTypeOK
  <1>1. IInv => LeaseTypeOK
    BY DEF IInv
  <1> QED
    BY <1>1, Invariance, PTL

\* acquireLease: two leases that are live at the same time never overlap.
THEOREM LeasesDisjoint == LeaseSpec => []LiveDisjoint
  <1>1. IInv => LiveDisjoint
    BY DEF IInv
  <1> QED
    BY <1>1, Invariance, PTL

\* reclaimIfStale: uncommitted work keeps a row of its run.
THEOREM WorkKept == LeaseSpec => []WorkKeepsRow
  <1>1. IInv => WorkKeepsRow
    BY DEF IInv, WorkHasRow, WorkKeepsRow
  <1> QED
    BY <1>1, Invariance, PTL

\* reclaimIfStale: what is deleted after git status is not live.
THEOREM NothingLiveStolen == LeaseSpec => NoLiveStolen
  <1>1. ASSUME IInv, NEW run \in LeaseRuns, op[run] # Idle, op[run].kind = "clean"
        PROVE  op[run].id \notin Active(clock)
    <2>1. op[run].id \in LeaseIds
      BY <1>1, OpKinds DEF IInv, ReclaimOp
    <2>2. rows[op[run].id] # NoRow => rows[op[run].id].expires <= clock
      BY <1>1 DEF IInv, ReclaimStale, Reclaiming, Exists
    <2>3. rows[op[run].id] # NoRow => rows[op[run].id].expires \in Nat
      BY <1>1, <2>1, RowType DEF IInv, Exists, Row
    <2>4. clock \in Nat
      BY <1>1 DEF IInv, LeaseTypeOK
    <2> QED
      BY <2>2, <2>3, <2>4 DEF Active, Exists
  <1>2. IInv => [\A run \in LeaseRuns :
                   op[run] # Idle /\ op[run].kind = "clean" /\ op'[run] = Idle
                       => op[run].id \notin Active(clock)]_leaseVars
    BY <1>1
  <1> QED
    BY <1>2, Invariance, PTL DEF NoLiveStolen

-----------------------------------------------------------------------------
(* The runs of the command line and of the dashboard.                        *)

RowStates == {"none", "running", "completed", "failed"}

\* What holds of a job at each step, with its row and whether it is active.
BeforeHandle(job, row) ==
    /\ job.step \in {"new", "spawning"} => job.proc = "none" /\ ~job.fatal /\ job.hits = 0
    /\ job.step = "new" => job.way = "none" /\ row = "none" /\ job.broker = "none"
    /\ job.step # "new" => job.way \in Cli \cup {"web"}
    /\ job.step \in {"spawning", "refusing"} =>
          row = IF job.way = "resume" THEN "running" ELSE "none"
    /\ job.step = "refusing" => ~job.fatal /\ job.hits = 0

WithHandle(job, row, active) ==
    /\ active => job.way = "web" /\ job.step \in {"sending", "streaming"}
    /\ job.step \in {"sending", "streaming"} =>
          /\ job.proc = "up" /\ row = "running"
          /\ job.way = "web" => active
    /\ job.step \in {"closing", "cutting"} /\ job.way = "web" => job.code \in {"OK", "RUN_FAILED"}
    /\ job.step = "closing" /\ job.way \in Cli =>
          job.code = ExitCodeOf(job) /\ row = Terminal(job.code)
    /\ job.step = "cutting" => job.way = "web" /\ job.proc # "up"

AtEnd(job, row) ==
    /\ job.step = "over" /\ job.way \in Cli /\ job.proc # "none" =>
          /\ job.code = "OK" => row = "completed" /\ job.proc = "down"
          /\ job.code \in {"INTERRUPTED", "RUN_FAILED"} => row = "failed" /\ job.proc = "down"
    /\ job.way \in Cli /\ row = "completed" => ~job.fatal /\ job.hits = 0
    /\ job.way = "web" /\ job.step = "over" =>
          /\ job.broker # "up" /\ job.proc # "up"
          /\ job.code = "INTERNAL" => row = "none"

JobFits(job, row, active) ==
    /\ job \in Job
    /\ row \in RowStates
    /\ BeforeHandle(job, row)
    /\ WithHandle(job, row, active)
    /\ AtEnd(job, row)

RunInv ==
    /\ RunTypeOK
    /\ \A r \in CmdRuns : JobFits(runJob[r], runRows[r], r \in activeRuns)

LEMMA RunInvSound == RunInv => RunTypeOK /\ ExitTellsRow /\ WebReleases
  <1> SUFFICES ASSUME RunInv PROVE RunTypeOK /\ ExitTellsRow /\ WebReleases
    OBVIOUS
  <1>1. ExitTellsRow
    BY DEF RunInv, JobFits, AtEnd, ExitTellsRow
  <1>2. WebReleases
    <2> SUFFICES ASSUME NEW r \in CmdRuns
                 PROVE  /\ runJob[r].way = "web" /\ runJob[r].step = "over" =>
                             /\ runJob[r].broker # "up" /\ runJob[r].proc # "up" /\ r \notin activeRuns
                             /\ runJob[r].code = "INTERNAL" => runRows[r] = "none"
                        /\ r \in activeRuns => runRows[r] = "running" /\ runJob[r].proc = "up"
      BY DEF WebReleases
    <2> QED
      BY DEF RunInv, JobFits, WithHandle, AtEnd
  <1> QED
    BY <1>1, <1>2 DEF RunInv

LEMMA InitRunInv == CmdInit => RunInv
  BY DEF CmdInit, RunInv, RunTypeOK, RowStates, JobFits, Job, Cli, BeforeHandle, WithHandle, AtEnd,
         ExitCodeOf, Terminal

\* A step of one run: the others' jobs, rows and places are as they were.
LEMMA StepOfOne ==
    ASSUME RunInv, NEW r \in CmdRuns, NEW job \in Job, NEW row \in RowStates, NEW active \in BOOLEAN,
           runJob' = [runJob EXCEPT ![r] = job],
           runRows' = [runRows EXCEPT ![r] = row],
           activeRuns' = IF active THEN activeRuns \cup {r} ELSE activeRuns \ {r},
           sessionRows' \in [VendorSessions -> CmdRuns \cup {NoOwner}],
           BeforeHandle(job, row), WithHandle(job, row, active), AtEnd(job, row)
    PROVE  RunInv'
  <1>1. RunTypeOK'
    BY DEF RunInv, RunTypeOK, RowStates
  <1>2. ASSUME NEW q \in CmdRuns
        PROVE  /\ runJob'[q] = IF q = r THEN job ELSE runJob[q]
               /\ runRows'[q] = IF q = r THEN row ELSE runRows[q]
               /\ (q \in activeRuns') = IF q = r THEN active ELSE q \in activeRuns
    BY DEF RunInv, RunTypeOK
  <1>3. ASSUME NEW q \in CmdRuns PROVE JobFits(runJob'[q], runRows'[q], q \in activeRuns')
    <2>1. CASE q = r
      <3>1. runJob'[q] = job /\ runRows'[q] = row /\ (q \in activeRuns') = active
        BY <1>2, <2>1
      <3> QED
        BY <3>1 DEF JobFits, WithHandle
    <2>2. CASE q # r
      <3>1. /\ runJob'[q] = runJob[q] /\ runRows'[q] = runRows[q]
            /\ (q \in activeRuns') = (q \in activeRuns)
        BY <1>2, <2>2
      <3> QED
        BY <3>1 DEF RunInv, JobFits, WithHandle
    <2> QED
      BY <2>1, <2>2
  <1> QED
    BY <1>1, <1>3, Zenon DEF RunInv

\* A step that keeps the row, the sessions and the place of the run.
LEMMA StepOfJob ==
    ASSUME RunInv, NEW r \in CmdRuns, NEW job \in Job, SetJob(r, job),
           UNCHANGED <<runRows, sessionRows, activeRuns>>,
           BeforeHandle(job, runRows[r]), WithHandle(job, runRows[r], r \in activeRuns),
           AtEnd(job, runRows[r])
    PROVE  RunInv'
  <1> DEFINE active == r \in activeRuns
  <1>1. /\ runRows' = [runRows EXCEPT ![r] = runRows[r]]
        /\ activeRuns' = IF active THEN activeRuns \cup {r} ELSE activeRuns \ {r}
        /\ sessionRows' \in [VendorSessions -> CmdRuns \cup {NoOwner}]
        /\ runRows[r] \in RowStates
        /\ runJob' = [runJob EXCEPT ![r] = job]
    BY DEF RunInv, RunTypeOK, SetJob, RowStates
  <1>2. active \in BOOLEAN
    OBVIOUS
  <1> HIDE DEF active
  <1>3. WithHandle(job, runRows[r], active)
    BY DEF active
  <1> QED
    BY <1>1, <1>2, <1>3, StepOfOne

\* What the invariant says of one run.
LEMMA FitsNow ==
    ASSUME RunInv, NEW r \in CmdRuns
    PROVE  /\ runJob[r] \in Job /\ runRows[r] \in RowStates
           /\ BeforeHandle(runJob[r], runRows[r])
           /\ WithHandle(runJob[r], runRows[r], r \in activeRuns)
           /\ AtEnd(runJob[r], runRows[r])
  BY DEF RunInv, JobFits

\* The command or request stops before a handle is there.
LEMMA RefuseKeeps ==
    ASSUME RunInv, NEW r \in CmdRuns, NEW way \in Cli \cup {"web"},
           NEW codes \in SUBSET {"OK", "USAGE", "INTERNAL"}, Refuse(r, way, codes)
    PROVE  RunInv'
  <1> PICK c \in codes : SetJob(r, Over([runJob[r] EXCEPT !.way = way], c))
    BY DEF Refuse
  <1> DEFINE job == Over([runJob[r] EXCEPT !.way = way], c)
  <1>1. runJob[r] \in Job /\ runJob[r].step = "new" /\ UNCHANGED <<runRows, sessionRows, activeRuns>>
    BY FitsNow DEF Refuse
  <1>2. /\ job \in Job
        /\ job.way = way /\ job.step = "over" /\ job.code = c
        /\ \A f \in {"proc", "broker", "fatal", "hits"} : job[f] = runJob[r][f]
    BY <1>1 DEF Job, Over, Cli
  <1> HIDE DEF job
  <1>3. /\ BeforeHandle(job, runRows[r])
        /\ WithHandle(job, runRows[r], r \in activeRuns)
        /\ AtEnd(job, runRows[r])
    BY <1>1, <1>2, FitsNow DEF BeforeHandle, WithHandle, AtEnd, Cli
  <1> QED
    BY <1>1, <1>2, <1>3, StepOfJob DEF job

\* The checks pass: adapter.spawn is called, by the dashboard with its broker up.
LEMMA BeginKeeps ==
    ASSUME RunInv, NEW r \in CmdRuns, BeginRun(r) \/ startRun(r)
    PROVE  RunInv'
  <1> PICK way \in {"run", "web"}, b \in {"up", "none"} :
         SetJob(r, [runJob[r] EXCEPT !.way = way, !.step = "spawning", !.broker = b])
    <2>1. CASE BeginRun(r)
      <3>1. runJob[r].broker = "none" /\ runJob[r] \in Job
        BY <2>1, FitsNow DEF BeginRun, BeforeHandle
      <3>2. [runJob[r] EXCEPT !.way = "run", !.step = "spawning"] =
              [runJob[r] EXCEPT !.way = "run", !.step = "spawning", !.broker = "none"]
        BY <3>1 DEF Job
      <3> QED
        BY <2>1, <3>2 DEF BeginRun
    <2>2. CASE startRun(r)
      BY <2>2 DEF startRun
    <2> QED
      BY <2>1, <2>2
  <1> DEFINE job == [runJob[r] EXCEPT !.way = way, !.step = "spawning", !.broker = b]
  <1>1. runJob[r] \in Job /\ runJob[r].step = "new" /\ UNCHANGED <<runRows, sessionRows, activeRuns>>
    BY FitsNow DEF BeginRun, startRun
  <1>2. /\ job \in Job
        /\ job.way = way /\ job.step = "spawning" /\ job.broker = b
        /\ \A f \in {"proc", "code", "fatal", "hits"} : job[f] = runJob[r][f]
    BY <1>1 DEF Job, Cli
  <1> HIDE DEF job
  <1>3. /\ BeforeHandle(job, runRows[r])
        /\ WithHandle(job, runRows[r], r \in activeRuns)
        /\ AtEnd(job, runRows[r])
    BY <1>1, <1>2, FitsNow DEF BeforeHandle, WithHandle, AtEnd, Cli
  <1> QED
    BY <1>1, <1>2, <1>3, StepOfJob DEF job

\* resume inserts the row before it calls adapter.resume.
LEMMA BeginResumeKeeps ==
    ASSUME RunInv, NEW r \in CmdRuns, BeginResume(r)
    PROVE  RunInv'
  <1> PICK original \in CmdRuns \ {r} :
         \/ /\ SetJob(r, Over([runJob[r] EXCEPT !.way = "resume"], "USAGE"))
            /\ UNCHANGED runRows
         \/ \E s \in VendorSessions, ok \in BOOLEAN :
              /\ SetRow(r, "running", ok)
              /\ SetJob(r, IF ok THEN [[runJob[r] EXCEPT !.way = "resume"] EXCEPT !.step = "spawning", !.session = s]
                                 ELSE Over([runJob[r] EXCEPT !.way = "resume"], "INTERNAL"))
    BY DEF BeginResume, getSessionByRunId
  <1> DEFINE job0 == [runJob[r] EXCEPT !.way = "resume"]
  <1>0. /\ runJob[r] \in Job /\ runJob[r].step = "new"
        /\ UNCHANGED <<sessionRows, activeRuns>>
    BY FitsNow DEF BeginResume
  <1>1. ASSUME NEW c \in {"USAGE", "INTERNAL"}, SetJob(r, Over(job0, c)), UNCHANGED runRows
        PROVE  RunInv'
    <2> DEFINE job == Over(job0, c)
    <2>2. /\ job \in Job
          /\ job.way = "resume" /\ job.step = "over" /\ job.code = c
          /\ \A f \in {"proc", "broker", "fatal", "hits"} : job[f] = runJob[r][f]
      BY <1>0 DEF Job, Over, Cli
    <2>3. SetJob(r, job)
      BY <1>1
    <2> HIDE DEF job, job0
    <2>4. /\ BeforeHandle(job, runRows[r])
          /\ WithHandle(job, runRows[r], r \in activeRuns)
          /\ AtEnd(job, runRows[r])
      BY <1>0, <2>2, FitsNow DEF BeforeHandle, WithHandle, AtEnd, Cli
    <2> QED
      BY <1>0, <1>1, <2>2, <2>3, <2>4, StepOfJob
  <1>2. ASSUME NEW s \in VendorSessions, SetRow(r, "running", TRUE),
               SetJob(r, [job0 EXCEPT !.step = "spawning", !.session = s])
        PROVE  RunInv'
    <2> DEFINE job == [job0 EXCEPT !.step = "spawning", !.session = s]
    <2>2. /\ job \in Job
          /\ job.way = "resume" /\ job.step = "spawning"
          /\ \A f \in {"proc", "broker", "code", "fatal", "hits"} : job[f] = runJob[r][f]
      BY <1>0 DEF Job, Cli
    <2>3. /\ runJob' = [runJob EXCEPT ![r] = job]
          /\ runRows' = [runRows EXCEPT ![r] = "running"]
      BY <1>2 DEF SetJob, SetRow
    <2> HIDE DEF job, job0
    <2>4. r \notin activeRuns
      BY <1>0, FitsNow DEF WithHandle
    <2>5. /\ BeforeHandle(job, "running") /\ AtEnd(job, "running")
          /\ WithHandle(job, "running", FALSE)
      BY <1>0, <2>2, FitsNow DEF BeforeHandle, WithHandle, AtEnd, Cli
    <2>6. /\ activeRuns' = IF FALSE THEN activeRuns \cup {r} ELSE activeRuns \ {r}
          /\ sessionRows' \in [VendorSessions -> CmdRuns \cup {NoOwner}]
          /\ "running" \in RowStates
      BY <1>0, <2>4 DEF RunInv, RunTypeOK, RowStates
    <2> QED
      BY <2>2, <2>3, <2>5, <2>6, StepOfOne
  <1>3. ASSUME NEW s \in VendorSessions, NEW ok \in BOOLEAN, SetRow(r, "running", ok),
               SetJob(r, IF ok THEN [job0 EXCEPT !.step = "spawning", !.session = s] ELSE Over(job0, "INTERNAL"))
        PROVE  RunInv'
    <2>1. CASE ok
      BY <1>3, <2>1, <1>2 DEF SetRow
    <2>2. CASE ~ok
      BY <1>3, <2>2, <1>1 DEF SetRow
    <2> QED
      BY <2>1, <2>2
  <1> QED
    BY <1>1, <1>3

\* Spawn or resume throws, or hands back a handle of another run.
LEMMA SpawnFailsKeeps ==
    ASSUME RunInv, NEW r \in CmdRuns, SpawnThrows(r) \/ SpawnMismatch(r) \/ RefusedHandle(r)
    PROVE  RunInv'
  <1>0. runJob[r] \in Job /\ UNCHANGED <<runRows, sessionRows, activeRuns>>
    BY FitsNow DEF SpawnThrows, SpawnMismatch, RefusedHandle
  <1>1. CASE SpawnThrows(r)
    <2> DEFINE b == IF runJob[r].broker = "up" THEN "down" ELSE runJob[r].broker
               job == Over([runJob[r] EXCEPT !.broker = b], "INTERNAL")
    <2>0. b \in {"none", "down"}
      BY <1>0 DEF Job
    <2>2. SetJob(r, job) /\ runJob[r].step = "spawning"
      BY <1>1 DEF SpawnThrows
    <2> HIDE DEF b
    <2>1. /\ job \in Job /\ job.step = "over" /\ job.code = "INTERNAL" /\ job.broker # "up"
          /\ \A f \in {"way", "proc", "fatal", "hits"} : job[f] = runJob[r][f]
      BY <1>0, <2>0 DEF Job, Over
    <2> HIDE DEF job
    <2>3. /\ BeforeHandle(job, runRows[r])
          /\ WithHandle(job, runRows[r], r \in activeRuns)
          /\ AtEnd(job, runRows[r])
      BY <2>1, <2>2, FitsNow DEF BeforeHandle, WithHandle, AtEnd, Cli
    <2> QED
      BY <1>0, <2>1, <2>2, <2>3, StepOfJob
  <1>2. CASE SpawnMismatch(r)
    <2> DEFINE job == [runJob[r] EXCEPT !.proc = "up", !.step = "refusing"]
    <2>1. /\ job \in Job /\ job.step = "refusing" /\ job.proc = "up"
          /\ \A f \in {"way", "broker", "code", "fatal", "hits"} : job[f] = runJob[r][f]
      BY <1>0 DEF Job
    <2>2. SetJob(r, job) /\ runJob[r].step = "spawning"
      BY <1>2 DEF SpawnMismatch
    <2> HIDE DEF job
    <2>3. /\ BeforeHandle(job, runRows[r])
          /\ WithHandle(job, runRows[r], r \in activeRuns)
          /\ AtEnd(job, runRows[r])
      BY <2>1, <2>2, FitsNow DEF BeforeHandle, WithHandle, AtEnd, Cli
    <2> QED
      BY <1>0, <2>1, <2>2, <2>3, StepOfJob
  <1>3. CASE RefusedHandle(r)
    <2> PICK p \in {"down", "lost"} :
           SetJob(r, Over([runJob[r] EXCEPT !.proc = p, !.broker = IF @ = "up" THEN "down" ELSE @], "INTERNAL"))
      BY <1>3 DEF RefusedHandle
    <2> DEFINE b == IF runJob[r].broker = "up" THEN "down" ELSE runJob[r].broker
               job == Over([runJob[r] EXCEPT !.proc = p, !.broker = b], "INTERNAL")
    <2>0. b \in {"none", "down"}
      BY <1>0 DEF Job
    <2>2. SetJob(r, job) /\ runJob[r].step = "refusing"
      BY <1>3 DEF RefusedHandle
    <2> HIDE DEF b
    <2>1. /\ job \in Job /\ job.step = "over" /\ job.code = "INTERNAL" /\ job.broker # "up"
          /\ job.proc = p
          /\ \A f \in {"way", "fatal", "hits"} : job[f] = runJob[r][f]
      BY <1>0, <2>0 DEF Job, Over
    <2> HIDE DEF job
    <2>3. /\ BeforeHandle(job, runRows[r])
          /\ WithHandle(job, runRows[r], r \in activeRuns)
          /\ AtEnd(job, runRows[r])
      BY <2>1, <2>2, FitsNow DEF BeforeHandle, WithHandle, AtEnd, Cli
    <2> QED
      BY <1>0, <2>1, <2>2, <2>3, StepOfJob
  <1> QED
    BY <1>1, <1>2, <1>3

\* The handle is there, and the row is written or not.
LEMMA SpawnResolvesKeeps ==
    ASSUME RunInv, NEW r \in CmdRuns, SpawnResolves(r)
    PROVE  RunInv'
  <1> PICK s \in VendorSessions, ok \in BOOLEAN :
         LET job == [runJob[r] EXCEPT !.proc = "up", !.session = s] IN
         /\ job.way = "resume" => ok
         /\ SetRow(r, "running", ok)
         /\ SetJob(r, CASE ok -> [job EXCEPT !.step = "sending"]
                      [] ~ok /\ job.way = "run" -> Over(job, "INTERNAL")
                      [] OTHER -> [job EXCEPT !.step = "refusing"])
         /\ activeRuns' = IF ok /\ job.way = "web" THEN activeRuns \cup {r} ELSE activeRuns
    BY DEF SpawnResolves
  <1> DEFINE spawned == [runJob[r] EXCEPT !.proc = "up", !.session = s]
             job == CASE ok -> [spawned EXCEPT !.step = "sending"]
                      [] ~ok /\ spawned.way = "run" -> Over(spawned, "INTERNAL")
                      [] OTHER -> [spawned EXCEPT !.step = "refusing"]
             row == IF ok THEN "running" ELSE runRows[r]
             active == ok /\ spawned.way = "web"
  <1>1. /\ runJob[r] \in Job /\ runJob[r].step = "spawning" /\ runRows[r] \in RowStates
        /\ sessionRows' \in [VendorSessions -> CmdRuns \cup {NoOwner}]
        /\ r \notin activeRuns
    BY FitsNow DEF SpawnResolves, RunInv, RunTypeOK, WithHandle
  <1>2. /\ spawned \in Job /\ spawned.proc = "up" /\ spawned.step = "spawning"
        /\ \A f \in {"way", "broker", "code", "fatal", "hits"} : spawned[f] = runJob[r][f]
    BY <1>1 DEF Job
  <1>3. /\ runRows' = [runRows EXCEPT ![r] = row]
        /\ row \in RowStates
    BY <1>1 DEF SetRow, RunInv, RunTypeOK, RowStates
  <1>4. runJob' = [runJob EXCEPT ![r] = job]
    BY DEF SetJob
  <1>5. activeRuns' = (IF active THEN activeRuns \cup {r} ELSE activeRuns \ {r}) /\ active \in BOOLEAN
    BY <1>1
  <1>6. spawned.way = "resume" => ok
    OBVIOUS
  <1> HIDE DEF spawned
  <1>7. /\ job \in Job /\ job.proc = "up"
        /\ \A f \in {"way", "broker", "fatal", "hits"} : job[f] = spawned[f]
        /\ job.step = IF ok THEN "sending" ELSE IF spawned.way = "run" THEN "over" ELSE "refusing"
        /\ ~ok /\ spawned.way = "run" => job.code = "INTERNAL"
    <2>1. CASE ok
      BY <1>2, <2>1 DEF Job
    <2>2. CASE ~ok /\ spawned.way = "run"
      BY <1>2, <2>2 DEF Job, Over
    <2>3. CASE ~ok /\ spawned.way # "run"
      BY <1>2, <2>3 DEF Job
    <2> QED
      BY <2>1, <2>2, <2>3
  <1> HIDE DEF job
  <1>8. job.way \in Cli \cup {"web"} /\ job.fatal = FALSE /\ job.hits = 0
    BY <1>1, <1>2, <1>7, FitsNow DEF BeforeHandle, Job
  <1>9. BeforeHandle(job, row)
    BY <1>1, <1>2, <1>6, <1>7, <1>8, FitsNow DEF BeforeHandle, Cli
  <1>10. WithHandle(job, row, active)
    BY <1>1, <1>2, <1>6, <1>7, <1>8, FitsNow DEF WithHandle, Cli
  <1>11. AtEnd(job, row)
    BY <1>1, <1>2, <1>6, <1>7, <1>8, FitsNow DEF AtEnd, BeforeHandle, Cli
  <1> HIDE DEF row, active
  <1> QED
    BY <1>1, <1>3, <1>4, <1>5, <1>7, <1>9, <1>10, <1>11, StepOfOne

\* A run whose handle is up, as its driver sees it between two awaits.
Driven(r) == runJob[r].step \in {"sending", "streaming"}

\* The dashboard's task throws.
LEMMA WebFailsKeeps ==
    ASSUME RunInv, NEW r \in CmdRuns, Driven(r), runJob[r].way = "web", WebFails(r),
           sessionRows' \in [VendorSessions -> CmdRuns \cup {NoOwner}]
    PROVE  RunInv'
  <1> PICK ok \in BOOLEAN : SetRow(r, "failed", ok)
    BY DEF WebFails
  <1> DEFINE job == [runJob[r] EXCEPT !.step = "closing", !.code = "RUN_FAILED"]
             row == IF ok THEN "failed" ELSE runRows[r]
  <1>1. runJob[r] \in Job /\ runRows[r] \in RowStates /\ runJob[r].way = "web"
    BY FitsNow
  <1>2. /\ job \in Job /\ job.step = "closing" /\ job.code = "RUN_FAILED"
        /\ \A f \in {"way", "proc", "broker", "fatal", "hits"} : job[f] = runJob[r][f]
    BY <1>1 DEF Job
  <1>3. runRows' = [runRows EXCEPT ![r] = row] /\ row \in RowStates
    BY <1>1 DEF SetRow, RunInv, RunTypeOK, RowStates
  <1>4. runJob' = [runJob EXCEPT ![r] = job] /\ activeRuns' = activeRuns \ {r}
    BY DEF WebFails, SetJob
  <1> HIDE DEF job, row
  <1>5. BeforeHandle(job, row) /\ WithHandle(job, row, FALSE) /\ AtEnd(job, row)
    BY <1>1, <1>2 DEF BeforeHandle, WithHandle, AtEnd, Cli
  <1> QED
    BY <1>2, <1>3, <1>4, <1>5, StepOfOne

\* A command gives up with a handle: it exits with INTERNAL, whatever its row says.
LEMMA CliThrowsKeeps ==
    ASSUME RunInv, NEW r \in CmdRuns, Driven(r), runJob[r].way \in Cli, NEW job \in Job,
           job.way = runJob[r].way, job.proc = runJob[r].proc,
           CliThrows(r, job), runRows' = runRows,
           sessionRows' \in [VendorSessions -> CmdRuns \cup {NoOwner}]
    PROVE  RunInv'
  <1> DEFINE end == Over(job, "INTERNAL")
  <1>1. /\ runRows[r] = "running" /\ r \notin activeRuns /\ "running" \in RowStates
        /\ runRows' = [runRows EXCEPT ![r] = "running"]
    BY FitsNow DEF WithHandle, Driven, Cli, RowStates, RunInv, RunTypeOK
  <1>2. /\ end \in Job /\ end.step = "over" /\ end.code = "INTERNAL" /\ end.way \in Cli
    BY DEF Job, Over
  <1>3. runJob' = [runJob EXCEPT ![r] = end] /\ activeRuns' = activeRuns \ {r}
    BY <1>1 DEF CliThrows, SetJob
  <1> HIDE DEF end
  <1>4. BeforeHandle(end, "running") /\ WithHandle(end, "running", FALSE) /\ AtEnd(end, "running")
    BY <1>2 DEF BeforeHandle, WithHandle, AtEnd, Cli
  <1> QED
    BY <1>1, <1>2, <1>3, <1>4, StepOfOne

\* The loop over the events is left with what it has learnt.
LEMMA LoopLeftKeeps ==
    ASSUME RunInv, NEW r \in CmdRuns, Driven(r), NEW job \in Job,
           job.way = runJob[r].way, job.proc = runJob[r].proc, LoopLeft(r, job),
           sessionRows' \in [VendorSessions -> CmdRuns \cup {NoOwner}]
    PROVE  RunInv'
  <1>0. /\ runRows \in [CmdRuns -> RowStates]
        /\ runJob[r].way \in Cli \cup {"web"} /\ runJob[r].proc = "up"
    BY FitsNow DEF RunInv, RunTypeOK, RowStates, Driven, BeforeHandle, WithHandle
  <1>1. CASE runJob[r].way = "web"
    <2>1. CASE WebFails(r)
      BY <1>1, <2>1, WebFailsKeeps
    <2>2. CASE ~WebFails(r)
      <3> DEFINE new == [job EXCEPT !.step = "closing", !.code = "OK"]
      <3>1. /\ new \in Job /\ new.step = "closing" /\ new.code = "OK" /\ new.way = "web"
        BY <1>1 DEF Job
      <3>2. /\ runJob' = [runJob EXCEPT ![r] = new] /\ activeRuns' = activeRuns \ {r}
            /\ runRows' = [runRows EXCEPT ![r] = "completed"]
        BY <1>1, <2>2 DEF LoopLeft, SetJob, SetRow
      <3> HIDE DEF new
      <3>3. BeforeHandle(new, "completed") /\ WithHandle(new, "completed", FALSE) /\ AtEnd(new, "completed")
        BY <3>1 DEF BeforeHandle, WithHandle, AtEnd, Cli
      <3> QED
        BY <3>1, <3>2, <3>3, StepOfOne DEF RowStates
    <2> QED
      BY <2>1, <2>2
  <1>2. CASE runJob[r].way \in Cli
    <2>0. job.way # "web" /\ r \notin activeRuns
      BY <1>2, FitsNow DEF Cli, WithHandle
    <2>1. CASE CliThrows(r, job) /\ UNCHANGED runRows
      BY <1>2, <2>1, CliThrowsKeeps
    <2>2. CASE ~(CliThrows(r, job) /\ UNCHANGED runRows)
      <3> DEFINE code == ExitCodeOf(job)
                 row == Terminal(code)
      <3>1. /\ code \in {"INTERRUPTED", "RUN_FAILED", "OK"}
            /\ code = "OK" => ~job.fatal /\ job.hits = 0
        BY DEF ExitCodeOf, Job
      <3>2. row \in RowStates /\ (row = "completed" <=> code = "OK")
        BY DEF Terminal, RowStates
      <3>3. PICK new \in {[job EXCEPT !.step = "closing", !.code = code], Over(job, "INTERNAL")} :
               SetJob(r, new) /\ SetRow(r, row, TRUE) /\ UNCHANGED activeRuns
        BY <2>0, <2>2 DEF LoopLeft
      <3>4. /\ new \in Job /\ new.way = job.way /\ new.proc = job.proc
            /\ new.fatal = job.fatal /\ new.hits = job.hits
            /\ \/ new.step = "closing" /\ new.code = code
               \/ new.step = "over" /\ new.code = "INTERNAL"
        <4>1. CASE new = [job EXCEPT !.step = "closing", !.code = code]
          BY <3>1, <4>1 DEF Job
        <4>2. CASE new = Over(job, "INTERNAL")
          BY <4>2 DEF Job, Over
        <4> QED
          BY <3>3, <4>1, <4>2
      <3>5. ExitCodeOf(new) = code
        BY <3>4 DEF ExitCodeOf
      <3>6. /\ runJob' = [runJob EXCEPT ![r] = new] /\ activeRuns' = activeRuns \ {r}
            /\ runRows' = [runRows EXCEPT ![r] = row]
        BY <2>0, <3>3 DEF SetJob, SetRow
      <3>7. new.step = "closing" => row = Terminal(new.code) /\ new.code = ExitCodeOf(new)
        BY <3>4, <3>5
      <3> HIDE DEF code, row
      <3>8. BeforeHandle(new, row)
        BY <1>2, <3>4 DEF BeforeHandle, Cli
      <3>9. WithHandle(new, row, FALSE)
        BY <1>2, <3>4, <3>7 DEF WithHandle, Cli
      <3>10. AtEnd(new, row)
        BY <1>2, <3>1, <3>2, <3>4 DEF AtEnd, Cli
      <3> QED
        BY <3>2, <3>4, <3>6, <3>8, <3>9, <3>10, StepOfOne
    <2> QED
      BY <2>1, <2>2
  <1> QED
    BY <1>0, <1>1, <1>2

\* send returns or throws.
LEMMA SendKeeps ==
    ASSUME RunInv, NEW r \in CmdRuns, SendSettles(r)
    PROVE  RunInv'
  <1>1. /\ runJob[r] \in Job /\ runJob[r].step = "sending" /\ Driven(r)
        /\ runJob[r].way \in Cli \cup {"web"}
        /\ sessionRows' \in [VendorSessions -> CmdRuns \cup {NoOwner}]
    BY FitsNow DEF SendSettles, Driven, BeforeHandle, RunInv, RunTypeOK
  <1>2. CASE SetJob(r, [runJob[r] EXCEPT !.step = "streaming"]) /\ UNCHANGED <<runRows, activeRuns>>
    <2> DEFINE job == [runJob[r] EXCEPT !.step = "streaming"]
    <2>1. /\ job \in Job /\ job.step = "streaming"
          /\ \A f \in {"way", "proc", "broker", "code", "fatal", "hits"} : job[f] = runJob[r][f]
      BY <1>1 DEF Job
    <2>2. SetJob(r, job) /\ UNCHANGED <<runRows, sessionRows, activeRuns>>
      BY <1>2 DEF SendSettles
    <2> HIDE DEF job
    <2>3. BeforeHandle(job, runRows[r]) /\ AtEnd(job, runRows[r])
      BY <1>1, <2>1, FitsNow DEF BeforeHandle, AtEnd, Cli
    <2>4. WithHandle(job, runRows[r], r \in activeRuns)
      BY <1>1, <2>1, FitsNow DEF WithHandle, Cli
    <2> QED
      BY <2>1, <2>2, <2>3, <2>4, StepOfJob
  <1>3. CASE runJob[r].way = "web" /\ WebFails(r)
    BY <1>1, <1>3, WebFailsKeeps
  <1>4. CASE runJob[r].way # "web" /\ CliThrows(r, runJob[r]) /\ UNCHANGED runRows
    BY <1>1, <1>4, CliThrowsKeeps
  <1> QED
    BY <1>2, <1>3, <1>4 DEF SendSettles

\* The iterator ends or throws.
LEMMA EventsEndKeeps ==
    ASSUME RunInv, NEW r \in CmdRuns, EventsEnd(r)
    PROVE  RunInv'
  <1>1. /\ runJob[r] \in Job /\ Driven(r) /\ runJob[r].way \in Cli \cup {"web"}
        /\ sessionRows' \in [VendorSessions -> CmdRuns \cup {NoOwner}]
    BY FitsNow DEF EventsEnd, Driven, BeforeHandle, RunInv, RunTypeOK
  <1>2. CASE LoopLeft(r, runJob[r])
    BY <1>1, <1>2, LoopLeftKeeps
  <1>3. CASE runJob[r].way = "web" /\ WebFails(r)
    BY <1>1, <1>3, WebFailsKeeps
  <1>4. CASE runJob[r].way # "web" /\ CliThrows(r, runJob[r]) /\ UNCHANGED runRows
    BY <1>1, <1>4, CliThrowsKeeps
  <1> QED
    BY <1>2, <1>3, <1>4 DEF EventsEnd

\* insertSession keeps the table one of sessions and their first runs.
LEMMA SessionsTyped ==
    ASSUME RunInv, NEW r \in CmdRuns, NEW s \in VendorSessions \cup {NoSession}
    PROVE  /\ insertSession(s, r) \in [VendorSessions -> CmdRuns \cup {NoOwner}]
           /\ \A t \in VendorSessions : sessionRows[t] # NoOwner => insertSession(s, r)[t] = sessionRows[t]
  <1>1. sessionRows \in [VendorSessions -> CmdRuns \cup {NoOwner}]
    BY DEF RunInv, RunTypeOK
  <1>2. CASE sessionRows[s] = NoOwner
    <2>1. insertSession(s, r) = [sessionRows EXCEPT ![s] = r]
      BY <1>2 DEF insertSession
    <2> QED
      BY <1>1, <1>2, <2>1
  <1>3. CASE sessionRows[s] # NoOwner
    BY <1>1, <1>3 DEF insertSession
  <1> QED
    BY <1>2, <1>3

\* One event.
LEMMA EventReadKeeps ==
    ASSUME RunInv, NEW r \in CmdRuns, EventRead(r)
    PROVE  /\ RunInv'
           /\ \A t \in VendorSessions : sessionRows[t] # NoOwner => sessionRows'[t] = sessionRows[t]
  <1> PICK kind \in {"other", "fatal", "turn_end"}, ok \in BOOLEAN :
         LET cli == runJob[r].way \in Cli
             writes == cli /\ ok /\ ~runJob[r].sessionPersisted
             job == [runJob[r] EXCEPT !.fatal = @ \/ kind = "fatal", !.sessionPersisted = @ \/ writes]
             leaves == \/ kind = "turn_end"
                       \/ cli /\ runJob[r].hits = 2
                       \/ ~cli /\ kind = "fatal"
         IN /\ sessionRows' = IF writes THEN insertSession(job.session, r) ELSE sessionRows
            /\ IF leaves THEN LoopLeft(r, job) ELSE SetJob(r, job) /\ UNCHANGED <<runRows, activeRuns>>
    BY DEF EventRead
  <1> DEFINE writes == runJob[r].way \in Cli /\ ok /\ ~runJob[r].sessionPersisted
             f == runJob[r].fatal \/ kind = "fatal"
             p == runJob[r].sessionPersisted \/ writes
             job == [runJob[r] EXCEPT !.fatal = f, !.sessionPersisted = p]
             leaves == \/ kind = "turn_end"
                       \/ runJob[r].way \in Cli /\ runJob[r].hits = 2
                       \/ runJob[r].way \notin Cli /\ kind = "fatal"
  <1>1. /\ sessionRows' = IF writes THEN insertSession(job.session, r) ELSE sessionRows
        /\ IF leaves THEN LoopLeft(r, job) ELSE SetJob(r, job) /\ UNCHANGED <<runRows, activeRuns>>
    BY Zenon
  <1>2. runJob[r] \in Job /\ Driven(r) /\ runJob[r].step = "streaming"
    BY FitsNow DEF EventRead, Driven
  <1>3. f \in BOOLEAN /\ p \in BOOLEAN
    BY Zenon
  <1> HIDE DEF f, p
  <1>4. /\ job \in Job
        /\ \A g \in {"way", "step", "proc", "broker", "code", "hits", "session"} : job[g] = runJob[r][g]
    BY <1>2, <1>3 DEF Job
  <1> HIDE DEF job, leaves, writes
  <1>5. job.session \in VendorSessions \cup {NoSession}
    BY <1>4 DEF Job
  <1>6. /\ sessionRows' \in [VendorSessions -> CmdRuns \cup {NoOwner}]
        /\ \A t \in VendorSessions : sessionRows[t] # NoOwner => sessionRows'[t] = sessionRows[t]
    BY <1>1, <1>5, SessionsTyped DEF RunInv, RunTypeOK
  <1>7. CASE leaves
    BY <1>1, <1>2, <1>4, <1>6, <1>7, LoopLeftKeeps
  <1>8. CASE ~leaves
    <2>1. SetJob(r, job) /\ UNCHANGED <<runRows, activeRuns>>
      BY <1>1, <1>8
    <2>2. BeforeHandle(job, runRows[r]) /\ AtEnd(job, runRows[r])
      BY <1>2, <1>4, FitsNow DEF BeforeHandle, AtEnd, WithHandle, Cli
    <2>3. WithHandle(job, runRows[r], r \in activeRuns)
      BY <1>2, <1>4, FitsNow DEF WithHandle, Cli
    <2>4. /\ runJob' = [runJob EXCEPT ![r] = job]
          /\ runRows' = [runRows EXCEPT ![r] = runRows[r]] /\ runRows[r] \in RowStates
          /\ activeRuns' = IF r \in activeRuns THEN activeRuns \cup {r} ELSE activeRuns \ {r}
      BY <2>1 DEF SetJob, RunInv, RunTypeOK, RowStates
    <2> DEFINE active == r \in activeRuns
    <2>5. active \in BOOLEAN /\ WithHandle(job, runRows[r], active)
      BY <2>3
    <2>6. activeRuns' = IF active THEN activeRuns \cup {r} ELSE activeRuns \ {r}
      BY <2>4
    <2> HIDE DEF active
    <2> QED
      BY <1>4, <1>6, <2>2, <2>4, <2>5, <2>6, StepOfOne
  <1> QED
    BY <1>6, <1>7, <1>8

\* Signals and interrupts, the shutdowns, and a kill.
LEMMA EndKeeps ==
    ASSUME RunInv, NEW r \in CmdRuns,
           onSigint(r) \/ interruptRun(r) \/ ShutdownSettles(r) \/ BrokerShutdown(r) \/ Killed(r)
    PROVE  RunInv'
  <1>0. runJob[r] \in Job /\ UNCHANGED <<runRows, sessionRows, activeRuns>>
    BY FitsNow DEF onSigint, interruptRun, ShutdownSettles, BrokerShutdown, Killed
  <1>1. CASE onSigint(r) \/ interruptRun(r)
    <2> DEFINE n == runJob[r].hits + 1
               job == [runJob[r] EXCEPT !.hits = n]
    <2>1. /\ SetJob(r, job) /\ n \in 0..2
          /\ runJob[r].step \in {"sending", "streaming"}
      <3>1. CASE onSigint(r)
        BY <1>0, <3>1 DEF onSigint, Job
      <3>2. CASE interruptRun(r)
        BY <1>0, <3>2, FitsNow DEF interruptRun, Job, WithHandle
      <3> QED
        BY <1>1, <3>1, <3>2
    <2> HIDE DEF n
    <2>2. /\ job \in Job
          /\ \A g \in {"way", "step", "proc", "broker", "code", "fatal"} : job[g] = runJob[r][g]
      BY <1>0, <2>1 DEF Job
    <2> HIDE DEF job
    <2>3. BeforeHandle(job, runRows[r]) /\ AtEnd(job, runRows[r])
      BY <2>1, <2>2, FitsNow DEF BeforeHandle, AtEnd, WithHandle, Cli
    <2>4. WithHandle(job, runRows[r], r \in activeRuns)
      BY <2>1, <2>2, FitsNow DEF WithHandle, Cli
    <2> QED
      BY <1>0, <2>1, <2>2, <2>3, <2>4, StepOfJob
  <1>2. CASE ShutdownSettles(r)
    <2> PICK p \in {"down", "lost"} :
           LET job == [runJob[r] EXCEPT !.proc = p] IN
           SetJob(r, IF job.way = "web" THEN [job EXCEPT !.step = "cutting"]
                                      ELSE Over(job, IF p = "down" THEN job.code ELSE "INTERNAL"))
      BY <1>2 DEF ShutdownSettles
    <2> DEFINE closed == [runJob[r] EXCEPT !.proc = p]
               job == IF closed.way = "web" THEN [closed EXCEPT !.step = "cutting"]
                        ELSE Over(closed, IF p = "down" THEN closed.code ELSE "INTERNAL")
    <2>1. SetJob(r, job) /\ runJob[r].step = "closing"
      BY <1>2 DEF ShutdownSettles
    <2>2. /\ closed \in Job /\ closed.proc = p
          /\ \A g \in {"way", "step", "broker", "code", "fatal", "hits"} : closed[g] = runJob[r][g]
      BY <1>0 DEF Job
    <2> HIDE DEF closed
    <2>3. /\ job \in Job /\ job.proc = p
          /\ \A g \in {"way", "broker", "fatal", "hits"} : job[g] = closed[g]
          /\ job.step = IF closed.way = "web" THEN "cutting" ELSE "over"
          /\ job.code = IF closed.way = "web" \/ p = "down" THEN closed.code ELSE "INTERNAL"
      <3>1. CASE closed.way = "web"
        BY <2>2, <3>1 DEF Job
      <3>2. CASE closed.way # "web" /\ p = "down"
        BY <2>2, <3>2 DEF Job, Over
      <3>3. CASE closed.way # "web" /\ p # "down"
        BY <2>2, <3>3 DEF Job, Over
      <3> QED
        BY <3>1, <3>2, <3>3
    <2> HIDE DEF job
    <2>4. runJob[r].way \in Cli \cup {"web"}
      BY <2>1, FitsNow DEF BeforeHandle
    <2>5. BeforeHandle(job, runRows[r])
      BY <2>1, <2>2, <2>3, <2>4, FitsNow DEF BeforeHandle, Cli
    <2>6. WithHandle(job, runRows[r], r \in activeRuns)
      BY <2>1, <2>2, <2>3, <2>4, FitsNow DEF WithHandle, Cli
    <2>7. AtEnd(job, runRows[r])
      <3>1. job.way \in Cli => job.code = "INTERNAL" \/ (p = "down" /\ job.code = ExitCodeOf(runJob[r]))
        BY <2>1, <2>2, <2>3, FitsNow DEF WithHandle, Cli
      <3>2. job.way \in Cli => runRows[r] = Terminal(ExitCodeOf(runJob[r]))
        BY <2>1, <2>2, <2>3, FitsNow DEF WithHandle, Cli
      <3>3. job.way = "web" => job.step = "cutting"
        BY <2>2, <2>3
      <3>4. job.way \in Cli /\ runRows[r] = "completed" => ~job.fatal /\ job.hits = 0
        BY <2>2, <2>3, FitsNow DEF AtEnd
      <3>5. job.way \in Cli /\ job.code = "OK" => runRows[r] = "completed" /\ job.proc = "down"
        BY <2>3, <3>1, <3>2 DEF Terminal
      <3>6. job.way \in Cli /\ job.code \in {"INTERRUPTED", "RUN_FAILED"} =>
               runRows[r] = "failed" /\ job.proc = "down"
        BY <2>3, <3>1, <3>2 DEF Terminal
      <3> QED
        BY <3>3, <3>4, <3>5, <3>6 DEF AtEnd
    <2> QED
      BY <1>0, <2>1, <2>3, <2>5, <2>6, <2>7, StepOfJob
  <1>3. CASE BrokerShutdown(r)
    <2> DEFINE b == IF runJob[r].broker = "up" THEN "down" ELSE runJob[r].broker
               job == [runJob[r] EXCEPT !.step = "over", !.broker = b]
    <2>0. b \in {"none", "down"}
      BY <1>0 DEF Job
    <2>1. SetJob(r, job) /\ runJob[r].step = "cutting"
      BY <1>3 DEF BrokerShutdown
    <2> HIDE DEF b
    <2>2. /\ job \in Job /\ job.step = "over" /\ job.broker = b
          /\ \A g \in {"way", "proc", "code", "fatal", "hits"} : job[g] = runJob[r][g]
      BY <1>0, <2>0 DEF Job
    <2> HIDE DEF job
    <2>3. runJob[r].way = "web" /\ runJob[r].code \in {"OK", "RUN_FAILED"} /\ runJob[r].proc # "up"
      BY <2>1, FitsNow DEF WithHandle
    <2>4. BeforeHandle(job, runRows[r])
      BY <2>2, <2>3 DEF BeforeHandle
    <2>5. AtEnd(job, runRows[r])
      BY <2>0, <2>2, <2>3 DEF AtEnd, Cli
    <2>6. WithHandle(job, runRows[r], r \in activeRuns)
      BY <2>1, <2>2, <2>3, FitsNow DEF WithHandle, Cli
    <2> QED
      BY <1>0, <2>1, <2>2, <2>4, <2>5, <2>6, StepOfJob
  <1>4. CASE Killed(r)
    <2> DEFINE job == Over(runJob[r], "killed")
    <2>1. SetJob(r, job) /\ runJob[r].way \in Cli
      BY <1>4 DEF Killed
    <2>2. /\ job \in Job /\ job.step = "over" /\ job.code = "killed"
          /\ \A g \in {"way", "proc", "broker", "fatal", "hits"} : job[g] = runJob[r][g]
      BY <1>0 DEF Job, Over
    <2> HIDE DEF job
    <2>3. BeforeHandle(job, runRows[r]) /\ AtEnd(job, runRows[r])
      BY <2>1, <2>2, FitsNow DEF BeforeHandle, AtEnd, Cli
    <2>4. WithHandle(job, runRows[r], r \in activeRuns)
      BY <2>1, <2>2, FitsNow DEF WithHandle, Cli
    <2> QED
      BY <1>0, <2>1, <2>2, <2>3, <2>4, StepOfJob
  <1> QED
    BY <1>1, <1>2, <1>3, <1>4

LEMMA RunInvNext == RunInv /\ [CmdNext]_cmdVars => RunInv'
  <1> SUFFICES ASSUME RunInv, [CmdNext]_cmdVars PROVE RunInv'
    OBVIOUS
  <1>1. ASSUME NEW r \in CmdRuns, RunRefuses(r) \/ ResumeRefuses(r) \/ WebRefuses(r) PROVE RunInv'
    <2>1. CASE RunRefuses(r)
      BY <2>1, RefuseKeeps DEF RunRefuses, Cli
    <2>2. CASE ResumeRefuses(r)
      BY <2>2, RefuseKeeps DEF ResumeRefuses, Cli
    <2>3. CASE WebRefuses(r)
      BY <2>3, RefuseKeeps DEF WebRefuses
    <2> QED
      BY <1>1, <2>1, <2>2, <2>3
  <1>2. ASSUME NEW r \in CmdRuns, CmdStep(r) PROVE RunInv'
    BY <1>2, SpawnFailsKeeps, SpawnResolvesKeeps, SendKeeps, EventReadKeeps, EventsEndKeeps DEF CmdStep
  <1>3. CASE UNCHANGED cmdVars
    BY <1>3 DEF cmdVars, RunInv, RunTypeOK
  <1> QED
    BY <1>1, <1>2, <1>3, BeginKeeps, BeginResumeKeeps, EndKeeps DEF CmdNext

\* The inductive invariant of the drivers: the step a run is at fixes its row, its vendor
\* process and its place among the dashboard's active runs (run.ts, resume.ts,
\* runs-runner.ts).
THEOREM RunInvariant == CmdSpec => []RunInv
  <1> QED
    BY InitRunInv, RunInvNext, PTL DEF CmdSpec

\* For any number of runs and sessions, failed writes and kills anywhere: exit code and row
\* agree, the dashboard gives back what it took, and a session keeps the run that first
\* announced it (ExitTellsRow, WebReleases, SessionKept).
THEOREM RunsCorrect == CmdSpec => RunsSound
  <1>1. ASSUME RunInv, [CmdNext]_cmdVars
        PROVE  [\A s \in VendorSessions : sessionRows[s] # NoOwner => sessionRows'[s] = sessionRows[s]]_cmdVars
    <2>1. ASSUME NEW r \in CmdRuns, EventRead(r)
          PROVE  \A s \in VendorSessions : sessionRows[s] # NoOwner => sessionRows'[s] = sessionRows[s]
      BY <1>1, <2>1, EventReadKeeps
    <2>2. CASE \E r \in CmdRuns :
                 \/ RunRefuses(r) \/ ResumeRefuses(r) \/ WebRefuses(r) \/ BeginRun(r) \/ startRun(r)
                 \/ BeginResume(r) \/ SpawnThrows(r) \/ SpawnMismatch(r) \/ SpawnResolves(r)
                 \/ RefusedHandle(r) \/ SendSettles(r) \/ EventsEnd(r) \/ onSigint(r)
                 \/ interruptRun(r) \/ ShutdownSettles(r) \/ BrokerShutdown(r) \/ Killed(r)
      <3>1. UNCHANGED sessionRows
        BY <2>2 DEF RunRefuses, ResumeRefuses, WebRefuses, Refuse, BeginRun, startRun, BeginResume,
                    SpawnThrows, SpawnMismatch, SpawnResolves, RefusedHandle, SendSettles, EventsEnd,
                    onSigint, interruptRun, ShutdownSettles, BrokerShutdown, Killed
      <3> QED
        BY <3>1
    <2> QED
      BY <1>1, <2>1, <2>2 DEF CmdNext, CmdStep
  <1> QED
    BY <1>1, RunInvSound, RunInvariant, PTL DEF CmdSpec, RunsSound, SessionKept

-----------------------------------------------------------------------------
(* The supervisor, first what survives every overlap of calls and exits.     *)

\* handle, subscribed, workerOf and stopping belong together: the worker a record holds is
\* no other record's, its flag is down, and while it is alive it is heard and the child's own.
HandlesFit(h, subs, wo, st) ==
    \A c \in Children : h[c] # NoWorker =>
        /\ ~st[c]
        /\ wo[h[c]] # NoChild => h[c] \in subs /\ wo[h[c]] = c
        /\ \A d \in Children : h[d] = h[c] => d = c

\* Indices that tasks keep are those of the array, which starts at 1.
TasksShaped ==
    \A t \in Busy :
        /\ tasks[t].kind \in {"start", "restBoot"} => tasks[t].i >= 1
        /\ tasks[t].kind = "remove" => tasks[t].base >= 1

SupBase ==
    /\ SupervisorTypeOK
    /\ Present \subseteq known
    /\ TasksShaped
    /\ HandlesFit(handle, subscribed, workerOf, stopping)
    /\ WithinIntensity

Handles == [Children -> Workers \cup {NoWorker}]
Owners == [Workers -> Children \cup {NoChild}]

LEMMA BaseSound == SupBase => SupervisorTypeOK /\ NoIgnoredCrash /\ WithinIntensity
  BY SupervisorAssumption DEF SupBase, NoIgnoredCrash, HandlesFit, alive, SupervisorTypeOK

\* What is used of the types.
LEMMA TypesOf ==
    ASSUME SupervisorTypeOK
    PROVE  /\ records \in Seq(Children) /\ Len(records) \in Nat
           /\ \A i \in 1..Len(records) : records[i] \in Children
           /\ DOMAIN records = 1..Len(records)
           /\ handle \in Handles /\ workerOf \in Owners
           /\ stopping \in [Children -> BOOLEAN] /\ subscribed \subseteq Workers
           /\ \A t \in Busy : t \in TaskIds /\ tasks[t] \in Task /\ tasks[t].worker \in Workers \cup {NoWorker}
           /\ tasks \in [TaskIds -> Task \cup {NoTask}]
  BY DEF SupervisorTypeOK, Handles, Owners, Busy, Task

LEMMA FreeTaskFree == Busy # TaskIds => FreeTask \in TaskIds \ Busy /\ tasks[FreeTask] = NoTask
  BY DEF FreeTask, Busy

LEMMA IndexOfPresent ==
    ASSUME SupervisorTypeOK, NEW k \in DOMAIN records
    PROVE  IndexOf(records[k]) = k
  BY DEF SupervisorTypeOK, IndexOf

LEMMA IndexInRange ==
    ASSUME SupervisorTypeOK, NEW c \in Present
    PROVE  IndexOf(c) \in 1..Len(records) /\ records[IndexOf(c)] = c
  <1> PICK k \in DOMAIN records : records[k] = c
    BY DEF Present
  <1> QED
    BY IndexOfPresent, TypesOf

\* splice takes one child out, or none.
LEMMA SpliceFacts ==
    ASSUME SupervisorTypeOK, NEW i \in Nat, i >= 1
    PROVE  /\ SpliceAt(i) \in Seq(Children)
           /\ \A j, k \in DOMAIN SpliceAt(i) : SpliceAt(i)[j] = SpliceAt(i)[k] => j = k
           /\ \A j \in DOMAIN SpliceAt(i) : \E k \in DOMAIN records : k # i /\ SpliceAt(i)[j] = records[k]
           /\ \A k \in DOMAIN records : k # i => \E j \in DOMAIN SpliceAt(i) : SpliceAt(i)[j] = records[k]
  <1>1. /\ records \in Seq(Children) /\ Len(records) \in Nat /\ DOMAIN records = 1..Len(records)
        /\ \A j, k \in DOMAIN records : records[j] = records[k] => j = k
    BY TypesOf DEF SupervisorTypeOK
  <1>2. CASE i > Len(records)
    <2>0. ~(i <= Len(records))
      BY <1>1, <1>2
    <2>1. SpliceAt(i) = records
      BY <2>0, Zenon DEF SpliceAt
    <2>2. \A k \in DOMAIN records : k # i
      BY <1>1, <1>2
    <2> QED
      BY <1>1, <2>1, <2>2
  <1>3. CASE i <= Len(records)
    <2> DEFINE n == Len(records)
               a == SubSeq(records, 1, i - 1)
               b == SubSeq(records, i + 1, n)
               s == a \o b
    <2>1. /\ a \in Seq(Children) /\ Len(a) = i - 1
          /\ \A j \in 1..(i - 1) : a[j] = records[j]
      <3>1. \A j \in 1..(i - 1) : records[j] \in Children
        BY <1>1, <1>3, ElementOfSeq
      <3>2. /\ a \in Seq(Children)
            /\ Len(a) = IF 1 <= i - 1 THEN i - 1 - 1 + 1 ELSE 0
            /\ \A j \in 1..(i - 1 - 1 + 1) : a[j] = records[1 + j - 1]
        BY <3>1, SubSeqProperties
      <3> HIDE DEF a
      <3> QED
        BY <3>2
    <2>2. /\ b \in Seq(Children) /\ Len(b) = n - i
          /\ \A j \in 1..(n - i) : b[j] = records[i + j]
      <3>1. \A j \in (i + 1)..n : records[j] \in Children
        BY <1>1, <1>3, ElementOfSeq
      <3>2. /\ b \in Seq(Children)
            /\ Len(b) = IF i + 1 <= n THEN n - (i + 1) + 1 ELSE 0
            /\ \A j \in 1..(n - (i + 1) + 1) : b[j] = records[i + 1 + j - 1]
        BY <1>1, <3>1, SubSeqProperties
      <3> HIDE DEF b
      <3>3. Len(b) = n - i
        <4>1. CASE i + 1 <= n
          <5>1. n - (i + 1) + 1 = n - i
            BY <1>1
          <5> QED
            BY <3>2, <4>1, <5>1
        <4>2. CASE ~(i + 1 <= n)
          <5> DEFINE m == Len(records)
          <5>0. m \in Nat /\ i <= m /\ ~(i + 1 <= m)
            BY <1>1, <1>3, <4>2
          <5> HIDE DEF m
          <5>2. m - i = 0
            BY <5>0
          <5>1. n - i = 0
            BY <5>2 DEF m
          <5> QED
            BY <3>2, <4>2, <5>1
        <4> QED
          BY <4>1, <4>2
      <3>4. ASSUME NEW j \in 1..(n - i) PROVE b[j] = records[i + j]
        <4>1. j \in 1..(n - (i + 1) + 1) /\ i + 1 + j - 1 = i + j
          BY <1>1
        <4> QED
          BY <3>2, <4>1
      <3> QED
        BY <3>2, <3>3, <3>4
    <2> HIDE DEF a, b
    <2>3. /\ s \in Seq(Children) /\ Len(s) = n - 1
          /\ \A j \in 1..(n - 1) : s[j] = IF j < i THEN records[j] ELSE records[j + 1]
      <3>1. /\ s \in Seq(Children) /\ Len(s) = Len(a) + Len(b)
            /\ \A j \in 1..(Len(a) + Len(b)) : s[j] = IF j <= Len(a) THEN a[j] ELSE b[j - Len(a)]
        BY <2>1, <2>2, ConcatProperties
      <3> HIDE DEF s
      <3>2. Len(a) + Len(b) = n - 1
        BY <1>1, <1>3, <2>1, <2>2
      <3>3. ASSUME NEW j \in 1..(n - 1) PROVE s[j] = IF j < i THEN records[j] ELSE records[j + 1]
        <4>1. CASE j < i
          BY <2>1, <3>1, <3>2, <4>1
        <4>2. CASE j >= i
          <5>1. j - (i - 1) \in 1..(n - i) /\ ~(j <= i - 1)
            BY <1>1, <1>3, <4>2
          <5>2. s[j] = b[j - (i - 1)]
            BY <2>1, <3>1, <3>2, <5>1
          <5>3. b[j - (i - 1)] = records[i + (j - (i - 1))]
            BY <2>2, <5>1
          <5>4. i + (j - (i - 1)) = j + 1
            BY <1>1
          <5> QED
            BY <4>2, <5>2, <5>3, <5>4
        <4> QED
          BY <4>1, <4>2
      <3> QED
        BY <3>1, <3>2, <3>3
    <2>4. SpliceAt(i) = s
      BY <1>3 DEF SpliceAt, a, b
    <2> HIDE DEF s
    <2>5. DOMAIN s = 1..(n - 1)
      BY <1>1, <2>3, LenProperties
    <2>6. \A j, k \in DOMAIN s : s[j] = s[k] => j = k
      <3> SUFFICES ASSUME NEW j \in 1..(n - 1), NEW k \in 1..(n - 1), s[j] = s[k] PROVE j = k
        BY <2>5
      <3> DEFINE p == IF j < i THEN j ELSE j + 1
                 q == IF k < i THEN k ELSE k + 1
      <3>1. p \in 1..n /\ q \in 1..n /\ s[j] = records[p] /\ s[k] = records[q]
        BY <1>1, <1>3, <2>3
      <3>2. p = q
        BY <1>1, <3>1
      <3> QED
        BY <1>1, <3>2
    <2>7. \A j \in DOMAIN s : \E k \in DOMAIN records : k # i /\ s[j] = records[k]
      <3> SUFFICES ASSUME NEW j \in 1..(n - 1) PROVE \E k \in 1..n : k # i /\ s[j] = records[k]
        BY <1>1, <2>5
      <3> DEFINE p == IF j < i THEN j ELSE j + 1
      <3>1. p \in 1..n /\ p # i /\ s[j] = records[p]
        BY <1>1, <1>3, <2>3
      <3> QED
        BY <3>1
    <2>8. \A k \in DOMAIN records : k # i => \E j \in DOMAIN s : s[j] = records[k]
      <3> SUFFICES ASSUME NEW k \in 1..n, k # i PROVE \E j \in 1..(n - 1) : s[j] = records[k]
        BY <1>1, <2>5
      <3> DEFINE p == IF k < i THEN k ELSE k - 1
      <3>1. p \in 1..(n - 1) /\ s[p] = records[k]
        BY <1>1, <1>3, <2>3
      <3> QED
        BY <3>1
    <2> QED
      BY <2>3, <2>4, <2>6, <2>7, <2>8
  <1> QED
    BY <1>1, <1>2, <1>3

\* A worker dies, or none.
LEMMA DiedFits ==
    ASSUME SupBase, NEW w \in Workers \cup {NoWorker}
    PROVE  /\ Died(w) \in Owners
           /\ \A v \in Workers : Died(w)[v] = IF v = w THEN NoChild ELSE workerOf[v]
           /\ HandlesFit(handle, subscribed, Died(w), stopping)
  <1>1. Died(w) \in Owners /\ \A v \in Workers : Died(w)[v] = IF v = w THEN NoChild ELSE workerOf[v]
    BY DEF Died, Owners, SupBase, SupervisorTypeOK
  <1>2. HandlesFit(handle, subscribed, Died(w), stopping)
    BY <1>1, TypesOf DEF SupBase, HandlesFit, Handles
  <1> QED
    BY <1>1, <1>2

\* A worker whose exit is heard dies and its child's record is emptied.
LEMMA HeardFits ==
    ASSUME SupBase, NEW w \in Workers, HeardExit(w)
    PROVE  /\ workerOf' \in Owners /\ workerOf[w] \in Children
           /\ HandleWithout(w) \in Handles /\ SubscribedWithout(w) \subseteq Workers
           /\ \A c \in Children : HandleWithout(w)[c] = IF c = workerOf[w] THEN NoWorker ELSE handle[c]
           /\ \A v \in Workers : workerOf'[v] = IF v = w THEN NoChild ELSE workerOf[v]
           /\ HandlesFit(HandleWithout(w), SubscribedWithout(w), workerOf', stopping)
  <1>1. /\ workerOf' \in Owners /\ workerOf[w] \in Children
        /\ \A v \in Workers : workerOf'[v] = IF v = w THEN NoChild ELSE workerOf[v]
    BY DiedFits, TypesOf DEF HeardExit, alive, Owners, SupBase
  <1>2. /\ HandleWithout(w) \in Handles /\ SubscribedWithout(w) \subseteq Workers
        /\ \A c \in Children : HandleWithout(w)[c] = IF c = workerOf[w] THEN NoWorker ELSE handle[c]
    BY <1>1, TypesOf DEF HandleWithout, SubscribedWithout, Handles, SupBase
  <1>3. HandlesFit(HandleWithout(w), SubscribedWithout(w), workerOf', stopping)
    BY <1>1, <1>2, TypesOf DEF HandlesFit, SubscribedWithout, SupBase, Handles
  <1> QED
    BY <1>1, <1>2, <1>3

-----------------------------------------------------------------------------
(* Where control goes next: to a factory, to a stop, or to the end.          *)

\* The registers of the records after a step.
RegistersFit ==
    /\ handle' \in Handles /\ subscribed' \subseteq Workers
    /\ stopping' \in [Children -> BOOLEAN]
    /\ HandlesFit(handle', subscribed', workerOf', stopping')

Shaped(x) ==
    /\ x.kind \in {"start", "restBoot"} => x.i >= 1
    /\ x.kind = "remove" => x.base >= 1

\* Task t goes on as x, a task or none.
GoesOn(t, x) ==
    /\ x \in Task \cup {NoTask}
    /\ x # NoTask => Shaped(x)
    /\ tasks' = [tasks EXCEPT ![t] = x]

BootTask(task, c) == [task EXCEPT !.phase = "factory", !.target = c, !.worker = NoWorker]
StopTask(task, c, h) == [task EXCEPT !.phase = "handleStop", !.target = c, !.worker = h[c]]

\* The second half of restartRestForOne begins with the child that failed.
FirstBoot(task) ==
    BootTask([task EXCEPT !.kind = "restBoot", !.i = task.base + 1], task.failed)

LEMMA BootGoes ==
    ASSUME SupBase, NEW t \in TaskIds, NEW task \in Task, Shaped(task), NEW c \in Children,
           NEW h \in Handles, NEW subs \in SUBSET Workers,
           HandlesFit(h, subs, workerOf', stopping), BeginBoot(t, task, c, h, subs)
    PROVE  RegistersFit /\ GoesOn(t, BootTask(task, c)) /\ BootTask(task, c) \in Task
  <1>1. BootTask(task, c) \in Task /\ Shaped(BootTask(task, c))
    BY DEF BootTask, Task, Shaped
  <1>2. RegistersFit
    BY TypesOf DEF RegistersFit, BeginBoot, SupBase
  <1> QED
    BY <1>1, <1>2 DEF GoesOn, BeginBoot, BootTask

LEMMA StopGoes ==
    ASSUME SupBase, NEW t \in TaskIds, NEW task \in Task, Shaped(task), NEW c \in Children,
           NEW h \in Handles, NEW subs \in SUBSET Workers,
           HandlesFit(h, subs, workerOf', stopping), BeginStop(t, task, c, h, subs)
    PROVE  RegistersFit /\ GoesOn(t, StopTask(task, c, h)) /\ StopTask(task, c, h) \in Task
  <1>1. StopTask(task, c, h) \in Task /\ Shaped(StopTask(task, c, h))
    BY DEF StopTask, Task, Shaped, Handles
  <1>2. /\ handle' = [h EXCEPT ![c] = NoWorker] /\ subscribed' = subs \ {h[c]}
        /\ stopping' = [stopping EXCEPT ![c] = (h[c] # NoWorker) \/ @]
    BY DEF BeginStop
  <1>3. stopping \in [Children -> BOOLEAN]
    BY TypesOf DEF SupBase
  <1>4. ((h[c] # NoWorker) \/ stopping[c]) \in BOOLEAN
    BY <1>3, Zenon
  <1>5. /\ handle' \in Handles /\ subscribed' \subseteq Workers
        /\ stopping' \in [Children -> BOOLEAN]
        /\ \A d \in Children : d # c => handle'[d] = h[d] /\ stopping'[d] = stopping[d]
        /\ handle'[c] = NoWorker
    BY <1>2, <1>3, <1>4 DEF Handles
  <1>6. HandlesFit(handle', subscribed', workerOf', stopping')
    BY <1>2, <1>5 DEF HandlesFit
  <1> QED
    BY <1>1, <1>5, <1>6 DEF GoesOn, BeginStop, StopTask, RegistersFit

LEMMA FinishGoes ==
    ASSUME SupBase, NEW t \in TaskIds, NEW h \in Handles, NEW subs \in SUBSET Workers,
           HandlesFit(h, subs, workerOf', stopping), Finish(t, h, subs)
    PROVE  RegistersFit /\ GoesOn(t, NoTask)
  BY TypesOf DEF SupBase, RegistersFit, GoesOn, Finish

LEMMA SmallerFacts ==
    ASSUME SupervisorTypeOK, NEW i \in Nat
    PROVE  /\ Smaller(i, Len(records)) \in 0..Len(records) /\ Smaller(i, Len(records)) <= i
           /\ Smaller(i, Len(records)) = i \/ Smaller(i, Len(records)) = Len(records)
  BY TypesOf DEF Smaller

\* The loops, each with its next child or its end.
LEMMA StartGoes ==
    ASSUME SupBase, NEW t \in TaskIds, NEW task \in Task, NEW i \in Nat, i >= 1,
           NEW h \in Handles, NEW subs \in SUBSET Workers,
           HandlesFit(h, subs, workerOf', stopping), ContinueStart(t, task, i, h, subs),
           task.kind = "start"
    PROVE  /\ RegistersFit /\ handle' = h
           /\ \/ LET x == BootTask([task EXCEPT !.i = i + 1], records[i]) IN
                 /\ i \in 1..Len(records)
                 /\ GoesOn(t, x) /\ x \in Task /\ UNCHANGED sstate
              \/ /\ i > Len(records)
                 /\ GoesOn(t, NoTask) /\ sstate' = "running"
  <1>1. Len(records) \in Nat /\ \A k \in 1..Len(records) : records[k] \in Children
    BY TypesOf DEF SupBase
  <1>2. CASE i <= Len(records)
    <2> DEFINE at == [task EXCEPT !.i = i + 1]
    <2>1. at \in Task /\ Shaped(at)
      BY DEF Task, Shaped
    <2>2. BeginBoot(t, at, records[i], h, subs) /\ UNCHANGED sstate
      BY <1>2 DEF ContinueStart
    <2>3. i \in 1..Len(records) /\ records[i] \in Children
      BY <1>1, <1>2
    <2>4. handle' = h
      BY <2>2 DEF BeginBoot
    <2> HIDE DEF at
    <2>5. RegistersFit /\ GoesOn(t, BootTask(at, records[i])) /\ BootTask(at, records[i]) \in Task
      BY <2>1, <2>2, <2>3, BootGoes
    <2> QED
      BY <2>2, <2>3, <2>4, <2>5 DEF at
  <1>3. CASE ~(i <= Len(records))
    <2>1. Finish(t, h, subs) /\ sstate' = "running"
      BY <1>3 DEF ContinueStart
    <2>2. handle' = h
      BY <2>1 DEF Finish
    <2> QED
      BY <1>1, <1>3, <2>1, <2>2, FinishGoes
  <1> QED
    BY <1>2, <1>3

LEMMA RestBootGoes ==
    ASSUME SupBase, NEW t \in TaskIds, NEW task \in Task, NEW i \in Nat, i >= 1,
           NEW h \in Handles, NEW subs \in SUBSET Workers,
           HandlesFit(h, subs, workerOf', stopping), ContinueRestBoot(t, task, i, h, subs)
    PROVE  /\ RegistersFit /\ handle' = h
           /\ \/ LET x == BootTask([task EXCEPT !.kind = "restBoot", !.i = i + 1], records[i]) IN
                 /\ i \in 1..Len(records)
                 /\ GoesOn(t, x) /\ x \in Task
              \/ i > Len(records) /\ GoesOn(t, NoTask)
  <1>1. Len(records) \in Nat /\ \A k \in 1..Len(records) : records[k] \in Children
    BY TypesOf DEF SupBase
  <1>2. CASE i <= Len(records)
    <2> DEFINE at == [task EXCEPT !.kind = "restBoot", !.i = i + 1]
    <2>1. at \in Task /\ Shaped(at)
      <3>1. i + 1 \in Nat /\ i + 1 >= 1 /\ "restBoot" \in TaskKind
        BY DEF TaskKind
      <3>2. at \in Task /\ at.i = i + 1 /\ at.kind = "restBoot"
        BY <3>1 DEF Task
      <3> QED
        BY <3>1, <3>2 DEF Shaped
    <2>2. BeginBoot(t, at, records[i], h, subs)
      BY <1>2 DEF ContinueRestBoot
    <2>3. i \in 1..Len(records) /\ records[i] \in Children
      BY <1>1, <1>2
    <2>4. handle' = h
      BY <2>2 DEF BeginBoot
    <2> HIDE DEF at
    <2>5. RegistersFit /\ GoesOn(t, BootTask(at, records[i])) /\ BootTask(at, records[i]) \in Task
      BY <2>1, <2>2, <2>3, BootGoes
    <2> QED
      BY <2>3, <2>4, <2>5 DEF at
  <1>3. CASE ~(i <= Len(records))
    <2>1. Finish(t, h, subs)
      BY <1>3 DEF ContinueRestBoot
    <2>2. handle' = h
      BY <2>1 DEF Finish
    <2> QED
      BY <1>1, <1>3, <2>1, <2>2, FinishGoes
  <1> QED
    BY <1>2, <1>3

LEMMA TeardownGoes ==
    ASSUME SupBase, NEW t \in TaskIds, NEW task \in Task, task.kind = "teardown", NEW i \in Nat,
           NEW h \in Handles, NEW subs \in SUBSET Workers,
           HandlesFit(h, subs, workerOf', stopping), ContinueTeardown(t, task, i, h, subs)
    PROVE  /\ RegistersFit
           /\ \/ \E j \in 1..Len(records) :
                    LET x == StopTask([task EXCEPT !.i = j - 1], records[j], h) IN
                    /\ j = Smaller(i, Len(records))
                    /\ GoesOn(t, x) /\ x \in Task
                    /\ handle' = [h EXCEPT ![records[j]] = NoWorker]
                    /\ UNCHANGED sstate
              \/ /\ Smaller(i, Len(records)) = 0
                 /\ GoesOn(t, NoTask) /\ handle' = h
                 /\ sstate' = "stopped"
  <1> DEFINE j == Smaller(i, Len(records))
  <1>1. j \in 0..Len(records)
    BY SmallerFacts DEF SupBase
  <1>2. Len(records) \in Nat /\ \A k \in 1..Len(records) : records[k] \in Children
    BY TypesOf DEF SupBase
  <1>3. CASE j >= 1
    <2> DEFINE at == [task EXCEPT !.i = j - 1]
    <2>1. j \in 1..Len(records) /\ records[j] \in Children
      BY <1>1, <1>2, <1>3
    <2>2. at \in Task /\ Shaped(at)
      BY <1>1, <1>2, <1>3 DEF Task, Shaped
    <2>3. BeginStop(t, at, records[j], h, subs) /\ UNCHANGED sstate
      BY <1>3 DEF ContinueTeardown
    <2> HIDE DEF at, j
    <2>4. /\ RegistersFit /\ GoesOn(t, StopTask(at, records[j], h))
          /\ StopTask(at, records[j], h) \in Task
      BY <2>1, <2>2, <2>3, StopGoes
    <2>5. handle' = [h EXCEPT ![records[j]] = NoWorker]
      BY <2>3 DEF BeginStop
    <2> QED
      BY <2>1, <2>3, <2>4, <2>5 DEF at, j
  <1>4. CASE ~(j >= 1)
    <2>1. Finish(t, h, subs) /\ sstate' = "stopped"
      BY <1>4 DEF ContinueTeardown
    <2>2. j = 0
      BY <1>1, <1>2, <1>4
    <2>3. handle' = h
      BY <2>1 DEF Finish
    <2> QED
      BY <2>1, <2>2, <2>3, FinishGoes
  <1> QED
    BY <1>3, <1>4

LEMMA RestStopGoes ==
    ASSUME SupBase, NEW t \in TaskIds, NEW task \in Task, task.kind = "restStop", NEW i \in Nat,
           NEW h \in Handles, NEW subs \in SUBSET Workers,
           HandlesFit(h, subs, workerOf', stopping), ContinueRestStop(t, task, i, h, subs)
    PROVE  /\ RegistersFit
           /\ \/ \E j \in 1..Len(records) :
                    LET x == StopTask([task EXCEPT !.i = j - 1], records[j], h) IN
                    /\ j = Smaller(i, Len(records)) /\ j > task.base
                    /\ GoesOn(t, x) /\ x \in Task
                    /\ handle' = [h EXCEPT ![records[j]] = NoWorker]
              \/ LET x == FirstBoot(task) IN
                 /\ Smaller(i, Len(records)) <= task.base
                 /\ GoesOn(t, x) /\ x \in Task /\ handle' = h
  <1> DEFINE j == Smaller(i, Len(records))
  <1>1. j \in 0..Len(records) /\ task.base \in Nat /\ task.failed \in Children
    BY SmallerFacts DEF SupBase, Task
  <1>2. Len(records) \in Nat /\ \A k \in 1..Len(records) : records[k] \in Children
    BY TypesOf DEF SupBase
  <1>3. CASE j > task.base
    <2> DEFINE at == [task EXCEPT !.i = j - 1]
    <2>1. j \in 1..Len(records) /\ records[j] \in Children
      BY <1>1, <1>2, <1>3
    <2>2. at \in Task /\ Shaped(at)
      BY <1>1, <1>2, <1>3 DEF Task, Shaped
    <2>3. BeginStop(t, at, records[j], h, subs)
      BY <1>3 DEF ContinueRestStop
    <2>6. j > task.base /\ j = Smaller(i, Len(records))
      BY <1>3
    <2> HIDE DEF at, j
    <2>4. /\ RegistersFit /\ GoesOn(t, StopTask(at, records[j], h))
          /\ StopTask(at, records[j], h) \in Task
      BY <2>1, <2>2, <2>3, StopGoes
    <2>5. handle' = [h EXCEPT ![records[j]] = NoWorker]
      BY <2>3 DEF BeginStop
    <2> QED
      BY <2>1, <2>4, <2>5, <2>6 DEF at
  <1>4. CASE ~(j > task.base)
    <2> DEFINE at == [task EXCEPT !.kind = "restBoot", !.i = task.base + 1]
    <2>1. BeginBoot(t, at, task.failed, h, subs)
      BY <1>4 DEF ContinueRestStop
    <2>2. at \in Task /\ Shaped(at)
      <3>1. task.base + 1 \in Nat /\ task.base + 1 >= 1 /\ "restBoot" \in TaskKind
        BY <1>1 DEF TaskKind
      <3>2. at \in Task /\ at.i = task.base + 1 /\ at.kind = "restBoot"
        BY <3>1 DEF Task
      <3> QED
        BY <3>1, <3>2 DEF Shaped
    <2>3. j <= task.base
      BY <1>1, <1>2, <1>4
    <2> HIDE DEF at
    <2>4. RegistersFit /\ GoesOn(t, BootTask(at, task.failed)) /\ BootTask(at, task.failed) \in Task
      BY <1>1, <2>1, <2>2, BootGoes
    <2>5. handle' = h
      BY <2>1 DEF BeginBoot
    <2> QED
      BY <2>3, <2>4, <2>5 DEF at, FirstBoot
  <1> QED
    BY <1>3, <1>4

-----------------------------------------------------------------------------
(* Every step keeps the base.                                                *)

RowsFit ==
    /\ records' \in Seq(Children) /\ known' \subseteq Children /\ Present' \subseteq known'
    /\ \A i, j \in DOMAIN records' : records'[i] = records'[j] => i = j

BooksFit ==
    /\ sstate' \in SupervisorState
    /\ stamps' \in [Children -> Nat] /\ \A c \in Children : stamps'[c] <= Intensity[c]
    /\ raised' \subseteq {"start_failed", "intensity_exceeded"}
    /\ finished' \subseteq Children /\ removeAsked' \subseteq Children
    /\ overlapped' \in BOOLEAN

LEMMA BaseStep ==
    ASSUME SupBase, RegistersFit, RowsFit, BooksFit, workerOf' \in Owners,
           UNCHANGED tasks \/ \E t \in TaskIds : \E x : GoesOn(t, x)
    PROVE  SupBase'
  <1>1. tasks' \in [TaskIds -> Task \cup {NoTask}] /\ TasksShaped'
    <2>1. tasks \in [TaskIds -> Task \cup {NoTask}] /\ TasksShaped
      BY TypesOf DEF SupBase
    <2>2. CASE UNCHANGED tasks
      BY <2>1, <2>2 DEF TasksShaped, Busy
    <2>3. ASSUME NEW t \in TaskIds, NEW x, GoesOn(t, x)
          PROVE  tasks' \in [TaskIds -> Task \cup {NoTask}] /\ TasksShaped'
      <3>1. /\ tasks' \in [TaskIds -> Task \cup {NoTask}]
            /\ \A u \in TaskIds : tasks'[u] = IF u = t THEN x ELSE tasks[u]
        BY <2>1, <2>3 DEF GoesOn
      <3>2. TasksShaped'
        BY <2>1, <2>3, <3>1 DEF GoesOn, TasksShaped, Shaped, Busy
      <3> QED
        BY <3>1, <3>2
    <2> QED
      BY <2>2, <2>3
  <1>2. SupervisorTypeOK'
    BY <1>1 DEF SupervisorTypeOK, RegistersFit, RowsFit, BooksFit, Handles, Owners
  <1> QED
    BY <1>1, <1>2 DEF SupBase, RegistersFit, RowsFit, BooksFit, WithinIntensity

LEMMA RowsKept == SupBase /\ UNCHANGED <<records, known>> => RowsFit
  BY DEF SupBase, SupervisorTypeOK, RowsFit, Present

LEMMA BooksKept ==
    SupBase /\ sstate' \in SupervisorState /\ overlapped' \in BOOLEAN
      /\ UNCHANGED <<stamps, raised, finished, removeAsked>> => BooksFit
  BY DEF SupBase, SupervisorTypeOK, BooksFit, WithinIntensity

LEMMA RegistersKept ==
    SupBase /\ UNCHANGED <<handle, subscribed, stopping, workerOf>> => RegistersFit
  BY TypesOf DEF SupBase, RegistersFit

LEMMA HeldNow ==
    SupBase => /\ HandlesFit(handle, subscribed, workerOf, stopping) /\ SupervisorTypeOK
               /\ handle \in Handles /\ subscribed \in SUBSET Workers /\ workerOf \in Owners
               /\ sstate \in SupervisorState
  BY TypesOf DEF SupBase, SupervisorTypeOK

-----------------------------------------------------------------------------
(* As long as calls and exits come one at a time.                            *)

\* Every live worker is a listed child's, and held by its record unless it is v, which a
\* task is about to stop.
AliveFits(v) ==
    \A w \in alive : workerOf[w] \in Present /\ (handle[workerOf[w]] = w \/ w = v)

\* No call is in flight: what does not run has no worker, and an escalation has ended it.
Settled ==
    /\ sstate \in {"idle", "running", "stopped"}
    /\ sstate \in {"idle", "stopped"} => alive = {}
    /\ "intensity_exceeded" \in raised => sstate = "stopped"

\* From the i-th child on nobody has a worker.
DownFrom(i) == \A j \in DOMAIN records : j >= i => LiveOf(records[j]) = {}

\* The place of a task in its loop.
PlaceFits(x) ==
    /\ x.target \in Present
    /\ x.kind \in {"start", "restBoot"} =>
          /\ x.i - 1 \in DOMAIN records /\ x.target = records[x.i - 1]
          /\ DownFrom(x.i)
    /\ x.kind \in {"teardown", "restStop"} =>
          /\ x.i + 1 \in DOMAIN records /\ x.target = records[x.i + 1]
          /\ DownFrom(x.i + 2)
    /\ x.kind = "restStop" =>
          x.base \in 1..x.i /\ x.failed = records[x.base] /\ LiveOf(x.failed) = {}
    /\ x.kind = "remove" => x.base \in DOMAIN records /\ x.target = records[x.base]

\* What a task awaits.
PhaseFits(x) ==
    /\ x.phase = "factory" => x.worker = NoWorker /\ LiveOf(x.target) = {}
    /\ x.phase = "handleStart" => x.worker # NoWorker /\ handle[x.target] = x.worker
    /\ x.phase = "handleStop" =>
          /\ handle[x.target] = NoWorker
          /\ x.worker \in alive => workerOf[x.worker] = x.target
    /\ x.phase = "handleStop" <=> x.kind \in {"teardown", "restStop", "remove"}

\* The state of the supervisor the task runs in.
StateFits(x) ==
    /\ x.kind = "start" => sstate = "starting"
    /\ x.kind = "teardown" => sstate \in {"starting", "running", "stopping"}
    /\ x.kind \in {"boot", "restStop", "restBoot"} => sstate = "running"
    /\ x.kind = "remove" => Settled
    /\ "intensity_exceeded" \in raised => x.kind \in {"teardown", "remove"}

Doing(x) == AliveFits(x.worker) /\ PlaceFits(x) /\ PhaseFits(x) /\ StateFits(x)

Alone ==
    \/ Busy = {} /\ Settled /\ AliveFits(NoWorker)
    \/ \E t \in TaskIds : \E x \in Task : Busy = {t} /\ tasks[t] = x /\ Doing(x)

SupInv == SupBase /\ (~overlapped => Alone)

\* A worker that is alive is a listed child's and in its record.
Held(h) == \A w \in Workers : workerOf[w] # NoChild => workerOf[w] \in Present /\ h[workerOf[w]] = w

\* Nobody comes to life.
NoBirth == \A v \in Workers : workerOf'[v] \in {workerOf[v], NoChild}

LEMMA Shrinks ==
    ASSUME NoBirth, NEW c \in Children
    PROVE  LiveOf(c)' \subseteq LiveOf(c)
  BY SupervisorAssumption DEF NoBirth, LiveOf, alive

LEMMA DownShrinks ==
    ASSUME NoBirth, SupervisorTypeOK, UNCHANGED records, NEW i, DownFrom(i)
    PROVE  DownFrom(i)'
  BY Shrinks, TypesOf DEF DownFrom

\* One task, or none, is what is left.
LEMMA GoesBusy ==
    ASSUME SupBase, NEW t \in TaskIds, NEW x, Busy \subseteq {t}, GoesOn(t, x)
    PROVE  /\ x = NoTask => Busy' = {}
           /\ x # NoTask => Busy' = {t} /\ tasks'[t] = x
  <1>1. tasks \in [TaskIds -> Task \cup {NoTask}]
    BY TypesOf DEF SupBase
  <1>2. \A u \in TaskIds : tasks'[u] = IF u = t THEN x ELSE tasks[u]
    BY <1>1 DEF GoesOn
  <1>3. \A u \in TaskIds : u # t => tasks[u] = NoTask
    BY DEF Busy
  <1> QED
    BY <1>2, <1>3 DEF Busy

LEMMA AloneNow ==
    ASSUME NEW t \in TaskIds, NEW x \in Task, Busy' = {t}, tasks'[t] = x, Doing(x)'
    PROVE  Alone'
  BY DEF Alone

\* A step that ends in the stop of a child's worker.
LEMMA AloneStop ==
    ASSUME SupBase, UNCHANGED records, NEW t \in TaskIds, NEW task \in Task, NEW c \in Present,
           NEW h \in Handles, NEW subs \in SUBSET Workers,
           HandlesFit(h, subs, workerOf', stopping), workerOf' \in Owners, Held(h)',
           Busy \subseteq {t}, NEW x \in Task, x = StopTask(task, c, h), GoesOn(t, x),
           handle' = [h EXCEPT ![c] = NoWorker],
           task.kind \in {"teardown", "restStop", "remove"},
           PlaceFits(x)', StateFits(x)'
    PROVE  Alone'
  <1>1. x.kind = task.kind /\ x.phase = "handleStop" /\ x.worker = h[c] /\ x.target = c
    BY DEF StopTask, Task
  <1>2. c \in Children /\ \A d \in Children : handle'[d] = IF d = c THEN NoWorker ELSE h[d]
    BY TypesOf DEF Handles, SupBase, Present
  <1>3. PhaseFits(x)'
    BY <1>1, <1>2, SupervisorAssumption DEF PhaseFits, HandlesFit, alive
  <1>4. AliveFits(x.worker)'
    BY <1>1, <1>2 DEF AliveFits, Held, alive, Owners
  <1>5. Busy' = {t} /\ tasks'[t] = x
    BY GoesBusy, NoTaskAssumption
  <1> QED
    BY <1>3, <1>4, <1>5, AloneNow DEF Doing

\* A step that ends in the boot of a child that has no worker.
LEMMA AloneBoot ==
    ASSUME SupBase, NEW t \in TaskIds, NEW task \in Task, NEW c \in Children,
           NEW h \in Handles, workerOf' \in Owners, Held(h)',
           Busy \subseteq {t}, NEW x \in Task, x = BootTask(task, c), GoesOn(t, x),
           handle' = h,
           task.kind \in {"start", "boot", "restBoot"}, LiveOf(c)' = {},
           PlaceFits(x)', StateFits(x)'
    PROVE  Alone'
  <1>1. x.kind = task.kind /\ x.phase = "factory" /\ x.worker = NoWorker /\ x.target = c
    BY DEF BootTask, Task
  <1>3. PhaseFits(x)'
    BY <1>1 DEF PhaseFits
  <1>4. AliveFits(x.worker)'
    BY <1>1 DEF AliveFits, Held, alive
  <1>5. Busy' = {t} /\ tasks'[t] = x
    BY GoesBusy, NoTaskAssumption
  <1> QED
    BY <1>3, <1>4, <1>5, AloneNow DEF Doing

LEMMA AloneEnd ==
    ASSUME SupBase, NEW t \in TaskIds, NEW h \in Handles, Held(h)',
           Busy \subseteq {t}, GoesOn(t, NoTask), handle' = h, Settled'
    PROVE  Alone'
  <1>1. Busy' = {}
    BY GoesBusy
  <1>2. AliveFits(NoWorker)'
    BY DEF AliveFits, Held, alive
  <1> QED
    BY <1>1, <1>2 DEF Alone

\* The loops keep the order: what comes later in the array is down.
LEMMA AloneTeardown ==
    ASSUME SupBase, UNCHANGED records, NEW t \in TaskIds, NEW task \in Task, task.kind = "teardown",
           NEW i \in Nat, NEW h \in Handles, NEW subs \in SUBSET Workers,
           HandlesFit(h, subs, workerOf', stopping), workerOf' \in Owners, Held(h)',
           Busy \subseteq {t}, ContinueTeardown(t, task, i, h, subs),
           DownFrom(Smaller(i, Len(records)) + 1)',
           sstate \in {"starting", "running", "stopping"}
    PROVE  Alone'
  <1>0. /\ Len(records) \in Nat /\ DOMAIN records = 1..Len(records)
        /\ \A k \in 1..Len(records) : records[k] \in Children
    BY TypesOf DEF SupBase
  <1>1. ASSUME NEW j \in 1..Len(records), j = Smaller(i, Len(records)),
               NEW x \in Task, x = StopTask([task EXCEPT !.i = j - 1], records[j], h),
               GoesOn(t, x), handle' = [h EXCEPT ![records[j]] = NoWorker], UNCHANGED sstate
        PROVE  Alone'
    <2> DEFINE at == [task EXCEPT !.i = j - 1]
    <2>1. at \in Task /\ at.kind = "teardown" /\ at.i = j - 1
      BY DEF Task
    <2>2. x.kind = "teardown" /\ x.i = j - 1 /\ x.target = records[j]
      BY <1>1 DEF StopTask, Task
    <2>3. records[j] \in Present /\ records[j] \in Present'
      BY <1>0 DEF Present
    <2>4. j - 1 + 1 = j /\ j - 1 + 2 = j + 1
      OBVIOUS
    <2>5. PlaceFits(x)'
      BY <1>0, <1>1, <2>2, <2>3, <2>4 DEF PlaceFits
    <2>6. StateFits(x)'
      BY <1>1, <2>2 DEF StateFits
    <2>7. x = StopTask(at, records[j], h)
      BY <1>1
    <2> HIDE DEF at
    <2> QED
      BY <1>1, <2>1, <2>3, <2>5, <2>6, <2>7, AloneStop
  <1>2. ASSUME Smaller(i, Len(records)) = 0, GoesOn(t, NoTask), handle' = h, sstate' = "stopped"
        PROVE  Alone'
    <2>1. DownFrom(1)'
      BY <1>2
    <2>2. alive' = {}
      BY <1>0, <2>1 DEF DownFrom, LiveOf, Held, Present, alive
    <2>3. Settled'
      BY <1>2, <2>2 DEF Settled
    <2> QED
      BY <1>2, <2>3, AloneEnd
  <1>3. \/ \E j \in 1..Len(records) :
              LET x == StopTask([task EXCEPT !.i = j - 1], records[j], h) IN
              /\ j = Smaller(i, Len(records))
              /\ GoesOn(t, x) /\ x \in Task
              /\ handle' = [h EXCEPT ![records[j]] = NoWorker]
              /\ UNCHANGED sstate
        \/ /\ Smaller(i, Len(records)) = 0
           /\ GoesOn(t, NoTask) /\ handle' = h
           /\ sstate' = "stopped"
    BY TeardownGoes
  <1> QED
    BY <1>1, <1>2, <1>3

LEMMA AloneRestStop ==
    ASSUME SupBase, UNCHANGED records, NEW t \in TaskIds, NEW task \in Task, task.kind = "restStop",
           NEW i \in Nat, NEW h \in Handles, NEW subs \in SUBSET Workers,
           HandlesFit(h, subs, workerOf', stopping), workerOf' \in Owners, Held(h)',
           Busy \subseteq {t}, ContinueRestStop(t, task, i, h, subs),
           DownFrom(Smaller(i, Len(records)) + 1)',
           task.base \in DOMAIN records, task.failed = records[task.base], LiveOf(task.failed)' = {},
           sstate' = "running", "intensity_exceeded" \notin raised'
    PROVE  Alone'
  <1>0. /\ Len(records) \in Nat /\ DOMAIN records = 1..Len(records)
        /\ \A k \in 1..Len(records) : records[k] \in Children
    BY TypesOf DEF SupBase
  <1>1. ASSUME NEW j \in 1..Len(records), j = Smaller(i, Len(records)), j > task.base,
               NEW x \in Task, x = StopTask([task EXCEPT !.i = j - 1], records[j], h),
               GoesOn(t, x), handle' = [h EXCEPT ![records[j]] = NoWorker]
        PROVE  Alone'
    <2> DEFINE at == [task EXCEPT !.i = j - 1]
    <2>1. at \in Task /\ at.kind = "restStop"
      BY DEF Task
    <2>2. /\ x.kind = "restStop" /\ x.i = j - 1 /\ x.target = records[j]
          /\ x.base = task.base /\ x.failed = task.failed
      BY <1>1 DEF StopTask, Task
    <2>3. records[j] \in Present /\ records[j] \in Present'
      BY <1>0 DEF Present
    <2>4. j - 1 + 1 = j /\ j - 1 + 2 = j + 1 /\ task.base \in 1..(j - 1)
      BY <1>0, <1>1
    <2>5. PlaceFits(x)'
      <3>1. x.target \in Present' /\ x.i + 1 \in DOMAIN records' /\ x.target = records'[x.i + 1]
        BY <1>0, <2>2, <2>3, <2>4
      <3>2. DownFrom(x.i + 2)'
        BY <1>1, <2>2, <2>4
      <3>3. x.base \in 1..x.i /\ x.failed = records'[x.base] /\ LiveOf(x.failed)' = {}
        BY <2>2, <2>4
      <3> QED
        BY <2>2, <3>1, <3>2, <3>3 DEF PlaceFits
    <2>6. StateFits(x)'
      BY <1>1, <2>2 DEF StateFits
    <2>7. x = StopTask(at, records[j], h)
      BY <1>1
    <2> HIDE DEF at
    <2> QED
      BY <1>1, <2>1, <2>3, <2>5, <2>6, <2>7, AloneStop
  <1>2. ASSUME Smaller(i, Len(records)) <= task.base, NEW x \in Task,
               x = FirstBoot(task),
               GoesOn(t, x), handle' = h
        PROVE  Alone'
    <2> DEFINE at == [task EXCEPT !.kind = "restBoot", !.i = task.base + 1]
    <2>0. task.base \in Nat /\ task.base + 1 \in Nat /\ "restBoot" \in TaskKind
      BY <1>0 DEF TaskKind
    <2>1. at \in Task /\ at.kind = "restBoot"
      BY <2>0 DEF Task
    <2>2. x.kind = "restBoot" /\ x.i = task.base + 1 /\ x.target = task.failed
      BY <1>2, <2>1 DEF FirstBoot, BootTask, Task
    <2>3. task.failed \in Present' /\ task.failed \in Children
      BY <1>0 DEF Present
    <2>4. task.base + 1 - 1 = task.base
      BY <2>0
    <2>5. DownFrom(task.base + 1)'
      <3>1. Smaller(i, Len(records)) \in Nat
        BY SmallerFacts DEF SupBase
      <3>2. \A k \in DOMAIN records : k >= task.base + 1 => k >= Smaller(i, Len(records)) + 1
        BY <1>0, <1>2, <2>0, <3>1
      <3> QED
        BY <3>2 DEF DownFrom
    <2>6. PlaceFits(x)'
      BY <2>2, <2>3, <2>4, <2>5 DEF PlaceFits
    <2>7. StateFits(x)'
      BY <2>2 DEF StateFits
    <2>8. x = BootTask(at, task.failed)
      BY <1>2 DEF FirstBoot
    <2> HIDE DEF at
    <2> QED
      BY <1>2, <2>1, <2>3, <2>6, <2>7, <2>8, AloneBoot
  <1>3. \/ \E j \in 1..Len(records) :
              LET x == StopTask([task EXCEPT !.i = j - 1], records[j], h) IN
              /\ j = Smaller(i, Len(records)) /\ j > task.base
              /\ GoesOn(t, x) /\ x \in Task
              /\ handle' = [h EXCEPT ![records[j]] = NoWorker]
        \/ LET x == FirstBoot(task) IN
           /\ Smaller(i, Len(records)) <= task.base
           /\ GoesOn(t, x) /\ x \in Task /\ handle' = h
    BY RestStopGoes
  <1> QED
    BY <1>1, <1>2, <1>3

\* The loops that boot in spec order.
LEMMA AloneNext ==
    ASSUME SupBase, UNCHANGED records, NEW t \in TaskIds, NEW task \in Task,
           task.kind \in {"start", "restBoot"}, NEW i \in DOMAIN records,
           NEW h \in Handles, workerOf' \in Owners, Held(h)', handle' = h,
           Busy \subseteq {t}, NEW x \in Task, task.i = i + 1, x = BootTask(task, records[i]),
           GoesOn(t, x), DownFrom(i)', StateFits(task)'
    PROVE  Alone'
  <1>0. /\ Len(records) \in Nat /\ DOMAIN records = 1..Len(records)
        /\ \A k \in 1..Len(records) : records[k] \in Children
    BY TypesOf DEF SupBase
  <1>1. x.kind = task.kind /\ x.i = i + 1 /\ x.target = records[i]
    BY DEF BootTask, Task
  <1>2. i \in Nat /\ i + 1 - 1 = i /\ records[i] \in Children
    BY <1>0
  <1>3. LiveOf(records[i])' = {} /\ DownFrom(i + 1)'
    BY <1>0, <1>2 DEF DownFrom
  <1>4. PlaceFits(x)'
    BY <1>0, <1>1, <1>2, <1>3 DEF PlaceFits, Present
  <1>5. StateFits(x)'
    BY <1>1 DEF StateFits
  <1> QED
    BY <1>2, <1>3, <1>4, <1>5, AloneBoot

-----------------------------------------------------------------------------
(* Calls from outside.                                                       *)

LEMMA Quiet ==
    ASSUME SupInv, ~overlapped, Busy = {}
    PROVE  Settled /\ Held(handle)
  <1>1. Settled /\ AliveFits(NoWorker)
    BY DEF SupInv, Alone
  <1>2. Held(handle)
    BY <1>1, SupervisorAssumption DEF AliveFits, Held, alive
  <1> QED
    BY <1>1, <1>2

LEMMA OneBusy ==
    ASSUME SupInv, ~overlapped, NEW t \in Busy
    PROVE  Busy = {t} /\ tasks[t] \in Task /\ Doing(tasks[t])
  BY DEF SupInv, Alone

\* Nothing but the state and the history of overlaps.
LEMMA CallEnds ==
    ASSUME SupInv, overlapped' = (overlapped \/ Busy # {}),
           UNCHANGED <<records, known, stamps, raised, finished, removeAsked, workerOf,
                       tasks, handle, subscribed, stopping>>,
           sstate' \in SupervisorState, Busy = {} /\ Settled => Settled'
    PROVE  SupInv'
  <1>1. SupBase /\ overlapped' \in BOOLEAN
    BY DEF SupInv, SupBase, SupervisorTypeOK
  <1>2. SupBase'
    BY <1>1, BaseStep, RegistersKept, RowsKept, BooksKept, HeldNow
  <1>3. ASSUME ~overlapped' PROVE Alone'
    <2>1. ~overlapped /\ Busy = {}
      BY <1>3
    <2>2. Busy' = {}
      BY <2>1 DEF Busy
    <2>3. AliveFits(NoWorker)'
      BY <2>1, Quiet DEF AliveFits, Held, alive, Present
    <2> QED
      BY <2>1, <2>2, <2>3, Quiet DEF Alone
  <1> QED
    BY <1>2, <1>3 DEF SupInv

LEMMA StartKeeps ==
    ASSUME SupInv, Start, overlapped' = (overlapped \/ Busy # {})
    PROVE  SupInv'
  <1>0. /\ SupBase /\ overlapped' \in BOOLEAN
        /\ sstate = "idle" /\ UNCHANGED <<records, stamps, workerOf, raised, finished, removeAsked, known>>
        /\ FreeTask \in TaskIds
    BY FreeTaskFree DEF SupInv, Start, SupBase, SupervisorTypeOK
  <1>1. CASE records = <<>>
    <2>1. sstate' = "running" /\ UNCHANGED <<tasks, handle, subscribed, stopping>>
      BY <1>1 DEF Start
    <2>2. Settled => Settled'
      BY <1>0, <2>1 DEF Settled
    <2> QED
      BY <1>0, <2>1, <2>2, CallEnds DEF SupervisorState
  <1>2. CASE records # <<>>
    <2> DEFINE task == [NewTask("start", records[1]) EXCEPT !.i = 2]
    <2>1. 1 \in DOMAIN records /\ records[1] \in Children /\ Len(records) \in Nat /\ DOMAIN records = 1..Len(records)
      BY <1>0, <1>2, TypesOf DEF SupBase
    <2>2. task \in Task /\ task.i = 2 /\ task.kind = "start" /\ Shaped(task)
      <3>1. "start" \in TaskKind /\ 2 \in Nat
        BY DEF TaskKind
      <3>2. task \in Task /\ task.i = 2 /\ task.kind = "start"
        BY <2>1, <3>1 DEF NewTask, Task
      <3> QED
        BY <3>2 DEF Shaped
    <2>3. sstate' = "starting" /\ BeginBoot(FreeTask, task, records[1], handle, subscribed)
      BY <1>2 DEF Start
    <2> HIDE DEF task
    <2>4. HandlesFit(handle, subscribed, workerOf', stopping)
      BY <1>0, HeldNow
    <2>5. RegistersFit /\ GoesOn(FreeTask, BootTask(task, records[1])) /\ BootTask(task, records[1]) \in Task
      BY <1>0, <2>1, <2>2, <2>3, <2>4, BootGoes, HeldNow
    <2>6. SupBase'
      <3>1. BooksFit
        BY <1>0, <2>3, BooksKept DEF SupervisorState
      <3> QED
        BY <1>0, <2>5, <3>1, BaseStep, RowsKept, HeldNow
    <2>7. ASSUME ~overlapped' PROVE Alone'
      <3>1. ~overlapped /\ Busy = {}
        BY <1>0, <2>7
      <3>2. Settled /\ Held(handle) /\ alive = {}
        BY <1>0, <3>1, Quiet DEF Settled
      <3> PICK h \in Handles : h = handle
        BY <1>0, HeldNow
      <3> PICK x \in Task : x = BootTask(task, records[1])
        BY <2>5
      <3> PICK at \in Task : at = task
        BY <2>2
      <3>3. Held(h)' /\ handle' = h /\ workerOf' \in Owners
        BY <1>0, <2>3, <3>2, HeldNow DEF Held, BeginBoot, Present
      <3>4. DownFrom(1)'
        BY <1>0, <3>2 DEF DownFrom, LiveOf, alive
      <3>5. StateFits(at)'
        BY <1>0, <2>2, <2>3, <3>2 DEF StateFits, Settled
      <3>6. at.i = 1 + 1
        BY <2>2
      <3> QED
        BY <1>0, <2>1, <2>2, <2>5, <3>1, <3>3, <3>4, <3>5, <3>6, AloneNext
    <2> QED
      BY <2>6, <2>7 DEF SupInv
  <1> QED
    BY <1>1, <1>2

LEMMA StopAtOnceKeeps ==
    ASSUME SupInv, StopAtOnce, overlapped' = (overlapped \/ Busy # {})
    PROVE  SupInv'
  <1>1. Settled => Settled'
    BY DEF StopAtOnce, Settled, alive
  <1> QED
    BY <1>1, CallEnds DEF StopAtOnce, SupervisorState

LEMMA StopKeeps ==
    ASSUME SupInv, Stop, overlapped' = (overlapped \/ Busy # {})
    PROVE  SupInv'
  <1>0. /\ SupBase /\ overlapped' \in BOOLEAN
        /\ sstate \in {"starting", "running"}
        /\ UNCHANGED <<records, stamps, workerOf, raised, finished, removeAsked, known>>
        /\ FreeTask \in TaskIds
    BY FreeTaskFree DEF SupInv, Stop, SupBase, SupervisorTypeOK
  <1>1. CASE records = <<>>
    <2>1. sstate' = "stopped" /\ UNCHANGED <<tasks, handle, subscribed, stopping>>
      BY <1>1 DEF Stop
    <2>2. SupBase'
      BY <1>0, <2>1, BaseStep, RegistersKept, RowsKept, BooksKept, HeldNow DEF SupervisorState
    <2>3. ASSUME ~overlapped' PROVE Alone'
      <3>1. ~overlapped /\ Busy = {}
        BY <1>0, <2>3
      <3>2. Present = {}
        BY <1>1 DEF Present
      <3>3. alive = {}
        BY <3>1, <3>2, Quiet DEF Held, alive
      <3>4. Settled' /\ AliveFits(NoWorker)' /\ Busy' = {}
        BY <1>0, <2>1, <3>1, <3>3 DEF Settled, AliveFits, alive, Busy
      <3> QED
        BY <3>4 DEF Alone
    <2> QED
      BY <2>2, <2>3 DEF SupInv
  <1>2. CASE records # <<>>
    <2> DEFINE n == Len(records)
               task == [NewTask("teardown", records[n]) EXCEPT !.i = n - 1]
    <2>1. n \in DOMAIN records /\ records[n] \in Children /\ n \in Nat /\ n >= 1 /\ DOMAIN records = 1..n
      BY <1>0, <1>2, TypesOf DEF SupBase
    <2>2. task \in Task /\ task.i = n - 1 /\ task.kind = "teardown" /\ Shaped(task)
      <3>1. "teardown" \in TaskKind /\ n - 1 \in Nat
        BY <2>1 DEF TaskKind
      <3>2. task \in Task /\ task.i = n - 1 /\ task.kind = "teardown"
        BY <2>1, <3>1 DEF NewTask, Task
      <3> QED
        BY <3>2 DEF Shaped
    <2>3. sstate' = "stopping" /\ BeginStop(FreeTask, task, records[n], handle, subscribed)
      BY <1>2 DEF Stop
    <2> HIDE DEF task
    <2>4. HandlesFit(handle, subscribed, workerOf', stopping)
      BY <1>0, HeldNow
    <2>5. /\ RegistersFit /\ GoesOn(FreeTask, StopTask(task, records[n], handle))
          /\ StopTask(task, records[n], handle) \in Task
      BY <1>0, <2>1, <2>2, <2>3, <2>4, StopGoes, HeldNow
    <2>6. SupBase'
      <3>1. BooksFit
        BY <1>0, <2>3, BooksKept DEF SupervisorState
      <3> QED
        BY <1>0, <2>5, <3>1, BaseStep, RowsKept, HeldNow
    <2>7. ASSUME ~overlapped' PROVE Alone'
      <3>1. ~overlapped /\ Busy = {}
        BY <1>0, <2>7
      <3>2. Settled /\ Held(handle) /\ sstate = "running"
        BY <1>0, <3>1, Quiet DEF Settled
      <3> PICK h \in Handles : h = handle
        BY <1>0, HeldNow
      <3> PICK x \in Task : x = StopTask(task, records[n], handle)
        BY <2>5
      <3>3. Held(h)' /\ workerOf' \in Owners
        BY <1>0, <3>2, HeldNow DEF Held, Present
      <3>4. x.kind = "teardown" /\ x.i = n - 1 /\ x.target = records[n]
        BY <2>2 DEF StopTask, Task
      <3>5. n - 1 + 1 = n /\ n - 1 + 2 = n + 1 /\ \A j \in 1..n : ~(j >= n + 1)
        BY <2>1
      <3>6. PlaceFits(x)'
        BY <1>0, <2>1, <3>4, <3>5 DEF PlaceFits, DownFrom, Present
      <3>7. StateFits(x)'
        BY <1>0, <2>3, <3>2, <3>4 DEF StateFits
      <3>8. handle' = [h EXCEPT ![records[n]] = NoWorker]
        BY <2>3 DEF BeginStop
      <3>9. records[n] \in Present /\ Busy \subseteq {FreeTask} /\ subscribed \in SUBSET Workers
        BY <1>0, <2>1, <3>1, HeldNow DEF Present
      <3>10. HandlesFit(h, subscribed, workerOf', stopping) /\ x = StopTask(task, records[n], h)
        BY <2>4
      <3>11. GoesOn(FreeTask, x)
        BY <2>5
      <3> QED
        BY <1>0, <2>2, <3>3, <3>6, <3>7, <3>8, <3>9, <3>10, <3>11, AloneStop
    <2> QED
      BY <2>6, <2>7 DEF SupInv
  <1> QED
    BY <1>1, <1>2

LEMMA AddChildKeeps ==
    ASSUME SupInv, NEW c \in Children, AddChild(c), overlapped' = (overlapped \/ Busy # {})
    PROVE  SupInv'
  <1>0. /\ SupBase /\ overlapped' \in BOOLEAN
        /\ sstate \in {"idle", "running"} /\ c \notin known
        /\ records' = Append(records, c) /\ known' = known \cup {c}
        /\ UNCHANGED <<sstate, stamps, workerOf, raised, finished, removeAsked>>
        /\ FreeTask \in TaskIds
    BY FreeTaskFree DEF SupInv, AddChild, SupBase, SupervisorTypeOK
  <1>1. /\ Len(records) \in Nat /\ DOMAIN records = 1..Len(records) /\ records \in Seq(Children)
        /\ DOMAIN records' = 1..(Len(records) + 1)
        /\ \A j \in 1..(Len(records) + 1) : records'[j] = IF j <= Len(records) THEN records[j] ELSE c
        /\ records' \in Seq(Children)
    BY <1>0, TypesOf, AppendProperties, LenProperties DEF SupBase
  <1>2. Present' = Present \cup {c} /\ c \notin Present
    BY <1>0, <1>1 DEF Present, SupBase
  <1>3. RowsFit
    <2>1. \A i, j \in DOMAIN records : records[i] = records[j] => i = j
      BY <1>0 DEF SupBase, SupervisorTypeOK
    <2>2. \A i, j \in DOMAIN records' : records'[i] = records'[j] => i = j
      BY <1>1, <1>2, <2>1 DEF Present
    <2>3. known' \subseteq Children /\ Present' \subseteq known'
      BY <1>0, <1>2 DEF SupBase, SupervisorTypeOK
    <2> QED
      BY <1>1, <2>2, <2>3 DEF RowsFit
  <1>4. BooksFit
    BY <1>0, BooksKept, HeldNow
  <1>5. CASE sstate = "running"
    <2> DEFINE task == NewTask("boot", c)
    <2>1. task \in Task /\ task.kind = "boot" /\ task.target = c
      BY DEF NewTask, Task, TaskKind
    <2>2. BeginBoot(FreeTask, task, c, handle, subscribed)
      BY <1>5 DEF AddChild
    <2> HIDE DEF task
    <2>3. Shaped(task) /\ HandlesFit(handle, subscribed, workerOf', stopping)
      BY <1>0, <2>1, HeldNow DEF Shaped
    <2>4. RegistersFit /\ GoesOn(FreeTask, BootTask(task, c)) /\ BootTask(task, c) \in Task
      BY <1>0, <2>1, <2>2, <2>3, BootGoes, HeldNow
    <2>5. SupBase'
      BY <1>0, <1>3, <1>4, <2>4, BaseStep, HeldNow
    <2>6. ASSUME ~overlapped' PROVE Alone'
      <3>1. ~overlapped /\ Busy = {}
        BY <1>0, <2>6
      <3>2. Settled /\ Held(handle)
        BY <1>0, <3>1, Quiet
      <3> PICK h \in Handles : h = handle
        BY <1>0, HeldNow
      <3> PICK x \in Task : x = BootTask(task, c)
        BY <2>4
      <3>3. Held(h)' /\ handle' = h /\ workerOf' \in Owners /\ Busy \subseteq {FreeTask}
        BY <1>0, <1>2, <2>2, <3>1, <3>2, HeldNow DEF Held, BeginBoot
      <3>4. LiveOf(c)' = {}
        BY <1>0, <1>2, <3>2 DEF LiveOf, Held, alive
      <3>5. x.kind = "boot" /\ x.target = c
        BY <2>1 DEF BootTask, Task
      <3>6. PlaceFits(x)' /\ StateFits(x)'
        BY <1>0, <1>2, <1>5, <3>2, <3>5 DEF PlaceFits, StateFits, Settled
      <3>7. GoesOn(FreeTask, x)
        BY <2>4
      <3> QED
        BY <1>0, <2>1, <3>3, <3>4, <3>6, <3>7, AloneBoot
    <2> QED
      BY <2>5, <2>6 DEF SupInv
  <1>6. CASE sstate # "running"
    <2>1. UNCHANGED <<tasks, handle, subscribed, stopping>>
      BY <1>6 DEF AddChild
    <2>2. SupBase'
      BY <1>0, <1>3, <1>4, <2>1, BaseStep, RegistersKept, HeldNow
    <2>3. ASSUME ~overlapped' PROVE Alone'
      <3>1. ~overlapped /\ Busy = {}
        BY <1>0, <2>3
      <3>2. Settled' /\ AliveFits(NoWorker)' /\ Busy' = {}
        BY <1>0, <1>2, <2>1, <3>1, Quiet DEF Settled, Held, AliveFits, alive, Busy
      <3> QED
        BY <3>2 DEF Alone
    <2> QED
      BY <2>2, <2>3 DEF SupInv
  <1> QED
    BY <1>5, <1>6

LEMMA RemoveChildKeeps ==
    ASSUME SupInv, NEW c \in Children, RemoveChild(c), overlapped' = (overlapped \/ Busy # {})
    PROVE  SupInv'
  <1>0. /\ SupBase /\ overlapped' \in BOOLEAN /\ c \in Present
        /\ removeAsked' = removeAsked \cup {c}
        /\ UNCHANGED <<sstate, records, stamps, workerOf, raised, finished, known>>
        /\ FreeTask \in TaskIds
    BY FreeTaskFree DEF SupInv, RemoveChild, SupBase, SupervisorTypeOK
  <1> DEFINE task == [NewTask("remove", c) EXCEPT !.base = IndexOf(c)]
  <1>1. IndexOf(c) \in DOMAIN records /\ records[IndexOf(c)] = c /\ IndexOf(c) \in Nat /\ IndexOf(c) >= 1
    BY <1>0, IndexInRange, TypesOf DEF SupBase
  <1>2. task \in Task /\ task.kind = "remove" /\ task.base = IndexOf(c)
    BY <1>1 DEF NewTask, Task, TaskKind
  <1>3. BeginStop(FreeTask, task, c, handle, subscribed)
    BY DEF RemoveChild
  <1> HIDE DEF task
  <1>4. Shaped(task) /\ HandlesFit(handle, subscribed, workerOf', stopping)
    BY <1>0, <1>1, <1>2, HeldNow DEF Shaped
  <1>5. /\ RegistersFit /\ GoesOn(FreeTask, StopTask(task, c, handle))
        /\ StopTask(task, c, handle) \in Task
    BY <1>0, <1>2, <1>3, <1>4, StopGoes, HeldNow
  <1>6. BooksFit
    BY <1>0 DEF SupBase, SupervisorTypeOK, BooksFit, WithinIntensity
  <1>7. SupBase'
    BY <1>0, <1>5, <1>6, BaseStep, RowsKept, HeldNow
  <1>8. ASSUME ~overlapped' PROVE Alone'
    <2>1. ~overlapped /\ Busy = {}
      BY <1>0, <1>8
    <2>2. Settled /\ Held(handle)
      BY <2>1, Quiet
    <2> PICK h \in Handles : h = handle
      BY <1>0, HeldNow
    <2> PICK x \in Task : x = StopTask(task, c, handle)
      BY <1>5
    <2>3. Held(h)' /\ workerOf' \in Owners
      BY <1>0, <2>2, HeldNow DEF Held, Present
    <2>4. x.kind = "remove" /\ x.base = IndexOf(c) /\ x.target = c
      BY <1>2 DEF StopTask, Task
    <2>5. PlaceFits(x)' /\ Settled'
      BY <1>0, <1>1, <2>2, <2>4 DEF PlaceFits, Present, Settled, alive
    <2>6. StateFits(x)'
      BY <2>4, <2>5 DEF StateFits
    <2>7. handle' = [h EXCEPT ![c] = NoWorker]
      BY <1>3 DEF BeginStop
    <2>8. Busy \subseteq {FreeTask} /\ subscribed \in SUBSET Workers
      BY <1>0, <2>1, HeldNow
    <2>9. HandlesFit(h, subscribed, workerOf', stopping) /\ x = StopTask(task, c, h)
      BY <1>4
    <2>10. GoesOn(FreeTask, x)
      BY <1>5
    <2> QED
      BY <1>0, <1>2, <2>3, <2>5, <2>6, <2>7, <2>8, <2>9, <2>10, AloneStop
  <1> QED
    BY <1>7, <1>8 DEF SupInv

-----------------------------------------------------------------------------
(* An await settles.                                                         *)

LEMMA BusyTask ==
    ASSUME SupBase, NEW t \in Busy
    PROVE  /\ t \in TaskIds /\ tasks[t] \in Task /\ Shaped(tasks[t])
           /\ tasks[t].worker \in Workers \cup {NoWorker} /\ tasks[t].target \in Children
  BY TypesOf DEF SupBase, TasksShaped, Shaped, Task

\* A child that a task starts or stops is held by its record up to then.
LEMMA HeldBut ==
    ASSUME SupBase, NEW x \in Task, Doing(x)
    PROVE  /\ x.phase # "handleStop" => Held(handle)
           /\ x.phase = "handleStop" => x.worker # NoWorker \/ Held(handle)
           /\ \A w \in Workers : w # x.worker /\ workerOf[w] # NoChild
                => workerOf[w] \in Present /\ handle[workerOf[w]] = w
  <1>1. \A w \in Workers : w # x.worker /\ workerOf[w] # NoChild
                => workerOf[w] \in Present /\ handle[workerOf[w]] = w
    BY DEF Doing, AliveFits, alive
  <1>2. x.worker = NoWorker => Held(handle)
    BY <1>1, SupervisorAssumption DEF Held
  <1>3. CASE x.phase = "factory"
    BY <1>1, <1>2, <1>3 DEF Doing, PhaseFits
  <1>4. CASE x.phase = "handleStart"
    <2>1. x.worker # NoWorker /\ handle[x.target] = x.worker /\ x.target \in Children
      BY <1>4 DEF Doing, PhaseFits, Task
    <2>2. workerOf[x.worker] # NoChild => workerOf[x.worker] = x.target
      BY <2>1, HeldNow DEF HandlesFit
    <2>3. x.target \in Present
      BY DEF Doing, PlaceFits
    <2>4. Held(handle)
      BY <1>1, <2>1, <2>2, <2>3 DEF Held
    <2> QED
      BY <1>1, <1>4, <2>4
  <1>5. CASE x.phase = "handleStop"
    BY <1>1, <1>2, <1>5
  <1> QED
    BY <1>3, <1>4, <1>5 DEF Task

\* Once the worker of a settling call is dead, the others are held.
LEMMA HeldAfterDeath ==
    ASSUME SupBase, NEW x \in Task, Doing(x), workerOf' = Died(x.worker), UNCHANGED records,
           NEW h, h = handle
    PROVE  /\ Held(h)' /\ NoBirth
           /\ x.phase = "handleStop" => LiveOf(x.target)' = {}
  <1>1. x.worker \in Workers \cup {NoWorker} /\ x.target \in Children
    BY DEF Task
  <1>2. \A v \in Workers : workerOf'[v] = IF v = x.worker THEN NoChild ELSE workerOf[v]
    BY <1>1, DiedFits
  <1>3. Held(h)' /\ NoBirth
    BY <1>2, HeldBut DEF Held, NoBirth, Present
  <1>4. ASSUME x.phase = "handleStop" PROVE LiveOf(x.target)' = {}
    <2>1. handle[x.target] = NoWorker
      BY <1>4 DEF Doing, PhaseFits
    <2> QED
      BY <1>2, <1>3, <2>1, SupervisorAssumption DEF LiveOf, Held, alive
  <1> QED
    BY <1>3, <1>4

LEMMA FactoryResolvesKeeps ==
    ASSUME SupInv, NEW t \in TaskIds, FactoryResolves(t), UNCHANGED overlapped
    PROVE  SupInv'
  <1>0. /\ SupBase /\ overlapped' \in BOOLEAN /\ t \in Busy /\ tasks[t].phase = "factory"
        /\ UNCHANGED <<sstate, records, stamps, raised, finished, removeAsked, known>>
    BY DEF SupInv, FactoryResolves, SupBase, SupervisorTypeOK
  <1> DEFINE c == tasks[t].target
  <1>1. PICK w \in FreeWorkers :
            /\ handle' = [handle EXCEPT ![c] = w]
            /\ stopping' = [stopping EXCEPT ![c] = FALSE]
            /\ subscribed' = subscribed \cup {w}
            /\ workerOf' = [workerOf EXCEPT ![w] = c]
            /\ tasks' = [tasks EXCEPT ![t].phase = "handleStart", ![t].worker = w]
    BY DEF FactoryResolves
  <1>2. /\ w \in Workers /\ workerOf[w] = NoChild /\ \A d \in Children : handle[d] # w
        /\ tasks[t] \in Task /\ Shaped(tasks[t]) /\ c \in Children
    BY <1>0, BusyTask DEF FreeWorkers, alive
  <1> DEFINE y == [tasks[t] EXCEPT !.phase = "handleStart", !.worker = w]
  <1>3. y \in Task /\ Shaped(y)
    BY <1>2 DEF Task, Shaped
  <1>4. GoesOn(t, y)
    <2>1. tasks' = [tasks EXCEPT ![t] = y]
      BY <1>0, <1>1, TypesOf DEF SupBase
    <2> QED
      BY <1>3, <2>1 DEF GoesOn
  <1>5. /\ y.kind = tasks[t].kind /\ y.phase = "handleStart" /\ y.target = c /\ y.worker = w
        /\ y.i = tasks[t].i /\ y.base = tasks[t].base /\ y.failed = tasks[t].failed
    BY <1>2 DEF Task
  <1> HIDE DEF y
  <1>6. /\ \A d \in Children : handle'[d] = IF d = c THEN w ELSE handle[d]
        /\ \A d \in Children : stopping'[d] = IF d = c THEN FALSE ELSE stopping[d]
        /\ \A v \in Workers : workerOf'[v] = IF v = w THEN c ELSE workerOf[v]
        /\ handle' \in Handles /\ workerOf' \in Owners /\ subscribed' \subseteq Workers
        /\ stopping' \in [Children -> BOOLEAN]
    BY <1>0, <1>1, <1>2, TypesOf DEF SupBase, Handles, Owners
  <1>7. RegistersFit
    <2>1. HandlesFit(handle, subscribed, workerOf, stopping)
      BY <1>0, HeldNow
    <2>2. HandlesFit(handle', subscribed', workerOf', stopping')
      BY <1>1, <1>2, <1>6, <2>1, SupervisorAssumption DEF HandlesFit, Handles
    <2> QED
      BY <1>6, <2>2 DEF RegistersFit
  <1>8. SupBase'
    BY <1>0, <1>4, <1>6, <1>7, BaseStep, RowsKept, BooksKept, HeldNow
  <1>9. ASSUME ~overlapped' PROVE Alone'
    <2> PICK x \in Task : x = y
      BY <1>3
    <2>1. Busy = {t} /\ Doing(tasks[t]) /\ ~overlapped
      BY <1>0, <1>9, OneBusy
    <2>2. Busy' = {t} /\ tasks'[t] = x
      BY <1>0, <1>4, <2>1, GoesBusy, NoTaskAssumption
    <2>3. Held(handle) /\ LiveOf(c) = {} /\ c \in Present
      BY <1>0, <1>2, <2>1, HeldBut DEF Doing, PhaseFits, PlaceFits
    <2>4. x.kind \in {"start", "boot", "restBoot"}
      BY <1>0, <1>2, <1>5, <2>1 DEF Doing, PhaseFits, Task, TaskKind
    <2>5. \A d \in Children : d # c => LiveOf(d)' = LiveOf(d)
      BY <1>2, <1>6, SupervisorAssumption DEF LiveOf, alive
    <2>6. AliveFits(x.worker)'
      <3>1. \A v \in Workers : v # w /\ workerOf[v] # NoChild => workerOf[v] # c
        BY <2>3 DEF LiveOf, alive
      <3> QED
        BY <1>0, <1>2, <1>5, <1>6, <2>3, <3>1 DEF AliveFits, Held, alive, Present, Owners
    <2>7. PhaseFits(x)'
      BY <1>2, <1>5, <1>6, <2>4, SupervisorAssumption DEF PhaseFits
    <2>8. PlaceFits(x)'
      <3>1. ASSUME x.kind \in {"start", "restBoot"}
            PROVE  /\ x.i - 1 \in DOMAIN records /\ x.target = records[x.i - 1]
                   /\ DownFrom(x.i)'
        <4>1. x.i - 1 \in DOMAIN records /\ x.target = records[x.i - 1] /\ DownFrom(x.i)
          BY <1>5, <2>1, <3>1 DEF Doing, PlaceFits
        <4>2. \A i, j \in DOMAIN records : records[i] = records[j] => i = j
          BY <1>0 DEF SupBase, SupervisorTypeOK
        <4>3. DOMAIN records = 1..Len(records) /\ Len(records) \in Nat /\ x.i \in Nat
              /\ \A j \in 1..Len(records) : records[j] \in Children
          BY <1>0, TypesOf DEF SupBase, Task
        <4>4. \A j \in DOMAIN records : j >= x.i => records[j] # c /\ records[j] \in Children
          BY <1>5, <4>1, <4>2, <4>3
        <4>5. DownFrom(x.i)'
          BY <1>0, <2>5, <4>1, <4>4 DEF DownFrom
        <4> QED
          BY <4>1, <4>5
      <3> QED
        BY <1>0, <1>5, <2>3, <2>4, <3>1 DEF PlaceFits, Present
    <2>9. StateFits(x)'
      BY <1>0, <1>5, <2>1, <2>4 DEF Doing, StateFits
    <2> QED
      BY <1>0, <2>2, <2>6, <2>7, <2>8, <2>9, AloneNow DEF Doing
  <1> QED
    BY <1>8, <1>9 DEF SupInv

LEMMA StartResolvesKeeps ==
    ASSUME SupInv, NEW t \in TaskIds, StartResolves(t), UNCHANGED overlapped
    PROVE  SupInv'
  <1>0. /\ SupBase /\ overlapped' \in BOOLEAN /\ t \in Busy /\ tasks[t].phase = "handleStart"
        /\ UNCHANGED <<records, stamps, workerOf, raised, finished, removeAsked, known>>
        /\ handle \in Handles /\ subscribed \in SUBSET Workers
        /\ HandlesFit(handle, subscribed, workerOf', stopping) /\ workerOf' \in Owners
    BY HeldNow DEF SupInv, StartResolves, SupBase, SupervisorTypeOK
  <1> PICK task \in Task : task = tasks[t]
    BY <1>0, BusyTask
  <1> PICK h \in Handles : h = handle
    BY <1>0
  <1>1. Shaped(task) /\ task.i \in Nat
    BY <1>0, BusyTask DEF Task
  <1>2. /\ DOMAIN records = 1..Len(records) /\ Len(records) \in Nat
    BY <1>0, TypesOf DEF SupBase
  <1>3. ASSUME ~overlapped'
        PROVE  /\ Busy \subseteq {t} /\ Held(h)' /\ Doing(task)
    <2>1. Busy \subseteq {t} /\ Doing(task)
      BY <1>0, <1>3, OneBusy
    <2>2. Held(handle)
      BY <1>0, <2>1, HeldBut
    <2> QED
      BY <1>0, <2>1, <2>2 DEF Held, Present
  <1>4. CASE task.kind = "start"
    <2>1. ContinueStart(t, task, task.i, handle, subscribed)
      BY <1>4 DEF StartResolves
    <2>2. task.i >= 1
      BY <1>1, <1>4 DEF Shaped
    <2>3. ASSUME ~overlapped' PROVE sstate = "starting" /\ DownFrom(task.i)' /\ "intensity_exceeded" \notin raised'
      BY <1>0, <1>3, <1>4, <2>3 DEF Doing, PlaceFits, StateFits, DownFrom, LiveOf, alive
    <2> DEFINE at == [task EXCEPT !.i = task.i + 1]
    <2>4. /\ RegistersFit /\ handle' = h
          /\ \/ /\ task.i \in 1..Len(records)
                /\ GoesOn(t, BootTask(at, records[task.i])) /\ BootTask(at, records[task.i]) \in Task
                /\ UNCHANGED sstate
             \/ /\ task.i > Len(records)
                /\ GoesOn(t, NoTask) /\ sstate' = "running"
      BY <1>0, <1>1, <1>4, <2>1, <2>2, StartGoes
    <2>5. at \in Task /\ at.kind = "start" /\ at.i = task.i + 1
      BY <1>1, <1>4 DEF Task
    <2> HIDE DEF at
    <2>6. SupBase'
      <3>1. sstate' \in SupervisorState
        BY <1>0, <2>4, HeldNow DEF SupervisorState
      <3> QED
        BY <1>0, <2>4, <3>1, BaseStep, RowsKept, BooksKept
    <2>7. ASSUME ~overlapped' PROVE Alone'
      <3>1. CASE task.i > Len(records)
        <4>1. GoesOn(t, NoTask) /\ sstate' = "running"
          BY <1>2, <2>4, <3>1
        <4>2. Settled'
          BY <2>3, <2>7, <4>1 DEF Settled
        <4> QED
          BY <1>0, <1>3, <2>4, <2>7, <4>1, <4>2, AloneEnd
      <3>2. CASE ~(task.i > Len(records))
        <4>1. /\ task.i \in DOMAIN records /\ GoesOn(t, BootTask(at, records[task.i]))
              /\ UNCHANGED sstate
          BY <1>2, <2>4, <3>2
        <4> PICK x \in Task : x = BootTask(at, records[task.i])
          BY <1>2, <2>4, <3>2
        <4> PICK at2 \in Task : at2 = at
          BY <2>5
        <4>2. StateFits(at2)'
          BY <2>3, <2>5, <2>7, <4>1 DEF StateFits
        <4>3. GoesOn(t, x) /\ x = BootTask(at2, records[task.i]) /\ at2.kind = "start" /\ at2.i = task.i + 1
          BY <2>5, <4>1
        <4> QED
          BY <1>0, <1>3, <2>3, <2>4, <2>7, <4>1, <4>2, <4>3, AloneNext
      <3> QED
        BY <3>1, <3>2
    <2> QED
      BY <2>6, <2>7 DEF SupInv
  <1>5. CASE task.kind = "restBoot"
    <2>1. ContinueRestBoot(t, task, task.i, handle, subscribed) /\ UNCHANGED sstate
      BY <1>5 DEF StartResolves
    <2>2. task.i >= 1
      BY <1>1, <1>5 DEF Shaped
    <2>3. ASSUME ~overlapped' PROVE sstate = "running" /\ DownFrom(task.i)' /\ "intensity_exceeded" \notin raised'
      BY <1>0, <1>3, <1>5, <2>3 DEF Doing, PlaceFits, StateFits, DownFrom, LiveOf, alive
    <2> DEFINE at == [task EXCEPT !.kind = "restBoot", !.i = task.i + 1]
    <2>4. /\ RegistersFit /\ handle' = h
          /\ \/ /\ task.i \in 1..Len(records)
                /\ GoesOn(t, BootTask(at, records[task.i])) /\ BootTask(at, records[task.i]) \in Task
             \/ task.i > Len(records) /\ GoesOn(t, NoTask)
      BY <1>0, <1>1, <2>1, <2>2, RestBootGoes
    <2>5. at \in Task /\ at.kind = "restBoot" /\ at.i = task.i + 1
      <3>1. task.i + 1 \in Nat /\ "restBoot" \in TaskKind
        BY <1>1 DEF TaskKind
      <3> QED
        BY <3>1 DEF Task
    <2> HIDE DEF at
    <2>6. SupBase'
      BY <1>0, <2>1, <2>4, BaseStep, RowsKept, BooksKept, HeldNow
    <2>7. ASSUME ~overlapped' PROVE Alone'
      <3>1. CASE task.i > Len(records)
        <4>1. GoesOn(t, NoTask)
          BY <1>2, <2>4, <3>1
        <4>2. Settled'
          BY <2>1, <2>3, <2>7, <4>1 DEF Settled
        <4> QED
          BY <1>0, <1>3, <2>4, <2>7, <4>1, <4>2, AloneEnd
      <3>2. CASE ~(task.i > Len(records))
        <4>1. task.i \in DOMAIN records /\ GoesOn(t, BootTask(at, records[task.i]))
          BY <1>2, <2>4, <3>2
        <4> PICK x \in Task : x = BootTask(at, records[task.i])
          BY <1>2, <2>4, <3>2
        <4> PICK at2 \in Task : at2 = at
          BY <2>5
        <4>2. StateFits(at2)'
          BY <2>1, <2>3, <2>5, <2>7, <4>1 DEF StateFits
        <4>3. GoesOn(t, x) /\ x = BootTask(at2, records[task.i]) /\ at2.kind = "restBoot" /\ at2.i = task.i + 1
          BY <2>5, <4>1
        <4> QED
          BY <1>0, <1>3, <2>3, <2>4, <2>7, <4>1, <4>2, <4>3, AloneNext
      <3> QED
        BY <3>1, <3>2
    <2> QED
      BY <2>6, <2>7 DEF SupInv
  <1>6. CASE task.kind = "boot"
    <2>1. Finish(t, handle, subscribed) /\ UNCHANGED sstate
      BY <1>6 DEF StartResolves
    <2>2. RegistersFit /\ GoesOn(t, NoTask) /\ handle' = h
      BY <1>0, <2>1, FinishGoes DEF Finish
    <2>3. SupBase'
      BY <1>0, <2>1, <2>2, BaseStep, RowsKept, BooksKept, HeldNow
    <2>4. ASSUME ~overlapped' PROVE Alone'
      <3>1. sstate = "running" /\ "intensity_exceeded" \notin raised
        BY <1>3, <1>6, <2>4 DEF Doing, StateFits
      <3>2. Settled'
        BY <1>0, <2>1, <3>1 DEF Settled
      <3> QED
        BY <1>0, <1>3, <2>2, <2>4, <3>2, AloneEnd
    <2> QED
      BY <2>3, <2>4 DEF SupInv
  <1> QED
    BY <1>4, <1>5, <1>6 DEF StartResolves

LEMMA BootRejectsKeeps ==
    ASSUME SupInv, NEW t \in TaskIds, BootRejects(t), UNCHANGED overlapped
    PROVE  SupInv'
  <1>0. /\ SupBase /\ overlapped' \in BOOLEAN /\ t \in Busy
        /\ tasks[t].phase \in {"factory", "handleStart"}
        /\ workerOf' = Died(tasks[t].worker) /\ raised' = raised \cup {"start_failed"}
        /\ UNCHANGED <<records, stamps, finished, removeAsked, known>>
        /\ handle \in Handles /\ subscribed \in SUBSET Workers
    BY HeldNow DEF SupInv, BootRejects, SupBase, SupervisorTypeOK
  <1> PICK task \in Task : task = tasks[t]
    BY <1>0, BusyTask
  <1> PICK h \in Handles : h = handle
    BY <1>0
  <1>1. HandlesFit(handle, subscribed, workerOf', stopping) /\ workerOf' \in Owners
    BY <1>0, BusyTask, DiedFits
  <1>2. /\ DOMAIN records = 1..Len(records) /\ Len(records) \in Nat
    BY <1>0, TypesOf DEF SupBase
  <1>3. ASSUME ~overlapped'
        PROVE  /\ Busy \subseteq {t} /\ Held(h)' /\ Doing(task) /\ NoBirth
    BY <1>0, <1>3, OneBusy, HeldAfterDeath
  <1>4. ASSUME sstate' \in SupervisorState PROVE RowsFit /\ BooksFit
    BY <1>0, <1>4, RowsKept DEF SupBase, SupervisorTypeOK, BooksFit, WithinIntensity
  <1>5. CASE task.kind = "start"
    <2> DEFINE at == [task EXCEPT !.kind = "teardown"]
    <2>1. at \in Task /\ at.kind = "teardown"
      BY DEF Task, TaskKind
    <2>2. ContinueTeardown(t, at, Len(records), handle, subscribed)
      BY <1>5 DEF BootRejects
    <2> HIDE DEF at
    <2>3. /\ RegistersFit /\ \E x : GoesOn(t, x)
          /\ sstate' \in {sstate, "stopped"}
      BY <1>0, <1>1, <1>2, <2>1, <2>2, TeardownGoes
    <2>4. SupBase'
      <3>1. sstate' \in SupervisorState
        BY <1>0, <2>3, HeldNow DEF SupervisorState
      <3> QED
        BY <1>0, <1>1, <1>4, <2>3, <3>1, BaseStep
    <2>5. ASSUME ~overlapped' PROVE Alone'
      <3>1. sstate = "starting"
        BY <1>3, <1>5, <2>5 DEF Doing, StateFits
      <3>2. Smaller(Len(records), Len(records)) = Len(records)
        BY DEF Smaller
      <3>3. DownFrom(Smaller(Len(records), Len(records)) + 1)'
        <4>1. \A j \in 1..Len(records) : ~(j >= Len(records) + 1)
          BY <1>2
        <4>2. DOMAIN records' = 1..Len(records) /\ Smaller(Len(records), Len(records))' = Len(records)
          BY <1>0, <1>2, <3>2
        <4> QED
          BY <4>1, <4>2 DEF DownFrom
      <3>4. HandlesFit(h, subscribed, workerOf', stopping) /\ ContinueTeardown(t, at, Len(records), h, subscribed)
        BY <1>1, <2>2
      <3>5. ASSUME NEW i \in Nat, i = Len(records) PROVE DownFrom(Smaller(i, Len(records)) + 1)'
        BY <1>0, <3>3, <3>5
      <3> PICK i \in Nat : i = Len(records)
        BY <1>2
      <3>6. ContinueTeardown(t, at, i, h, subscribed)
        BY <3>4
      <3> QED
        BY <1>0, <1>1, <1>3, <2>1, <2>5, <3>1, <3>4, <3>5, <3>6, AloneTeardown
    <2> QED
      BY <2>4, <2>5 DEF SupInv
  <1>6. CASE task.kind # "start"
    <2>1. Finish(t, handle, subscribed) /\ UNCHANGED sstate
      BY <1>6 DEF BootRejects
    <2>2. RegistersFit /\ GoesOn(t, NoTask) /\ handle' = h
      BY <1>0, <1>1, <2>1, FinishGoes DEF Finish
    <2>3. SupBase'
      BY <1>0, <1>1, <1>4, <2>1, <2>2, BaseStep, HeldNow
    <2>4. ASSUME ~overlapped' PROVE Alone'
      <3>0. task.kind \in {"boot", "restBoot"}
        BY <1>0, <1>3, <1>6, <2>4 DEF Doing, PhaseFits, Task, TaskKind
      <3>1. sstate = "running" /\ "intensity_exceeded" \notin raised
        BY <1>3, <2>4, <3>0 DEF Doing, StateFits
      <3>2. Settled'
        BY <1>0, <2>1, <3>1 DEF Settled
      <3> QED
        BY <1>0, <1>3, <2>2, <2>4, <3>2, AloneEnd
    <2> QED
      BY <2>3, <2>4 DEF SupInv
  <1> QED
    BY <1>5, <1>6

LEMMA StopSettlesKeeps ==
    ASSUME SupInv, NEW t \in TaskIds, StopSettles(t), UNCHANGED overlapped
    PROVE  SupInv'
  <1>0. /\ SupBase /\ overlapped' \in BOOLEAN /\ t \in Busy
        /\ tasks[t].phase = "handleStop" /\ workerOf' = Died(tasks[t].worker)
        /\ UNCHANGED <<stamps, raised, finished, removeAsked, known>>
        /\ handle \in Handles /\ subscribed \in SUBSET Workers
    BY HeldNow DEF SupInv, StopSettles, SupBase, SupervisorTypeOK
  <1> PICK task \in Task : task = tasks[t]
    BY <1>0, BusyTask
  <1> PICK h \in Handles : h = handle
    BY <1>0
  <1>1. /\ HandlesFit(handle, subscribed, workerOf', stopping) /\ workerOf' \in Owners
        /\ HandlesFit(h, subscribed, workerOf', stopping)
        /\ task.i \in Nat /\ task.target \in Children
    BY <1>0, BusyTask, DiedFits DEF Task
  <1>2. /\ DOMAIN records = 1..Len(records) /\ Len(records) \in Nat
    BY <1>0, TypesOf DEF SupBase
  <1>3. ASSUME ~overlapped', UNCHANGED records
        PROVE  /\ Busy \subseteq {t} /\ Held(h)' /\ Doing(task) /\ NoBirth /\ LiveOf(task.target)' = {}
    BY <1>0, <1>3, OneBusy, HeldAfterDeath
  <1>4. ASSUME ~overlapped', UNCHANGED records, task.kind \in {"teardown", "restStop"}
        PROVE  DownFrom(Smaller(task.i, Len(records)) + 1)'
    <2>1. /\ task.i + 1 \in 1..Len(records) /\ task.target = records[task.i + 1]
          /\ DownFrom(task.i + 2)
      BY <1>2, <1>3, <1>4 DEF Doing, PlaceFits
    <2>2. Smaller(task.i, Len(records)) = task.i
      BY <1>1, <1>2, <2>1 DEF Smaller
    <2>3. DownFrom(task.i + 2)'
      BY <1>0, <1>3, <1>4, <2>1, DownShrinks DEF SupBase
    <2>4. DownFrom(task.i + 1)'
      <3>1. \A j \in 1..Len(records) : j >= task.i + 1 => j = task.i + 1 \/ j >= task.i + 2
        BY <1>1, <1>2
      <3>2. LiveOf(records[task.i + 1])' = {}
        BY <1>3, <1>4, <2>1
      <3> QED
        BY <1>2, <1>4, <2>1, <2>3, <3>1, <3>2 DEF DownFrom
    <2>5. Smaller(task.i, Len(records))' = task.i
      BY <1>4, <2>2
    <2> QED
      BY <2>4, <2>5
  <1>5. CASE task.kind = "teardown"
    <2>1. ContinueTeardown(t, task, task.i, h, subscribed) /\ UNCHANGED records
      BY <1>5 DEF StopSettles
    <2>2. /\ RegistersFit /\ \E x : GoesOn(t, x)
          /\ sstate' \in {sstate, "stopped"}
      BY <1>0, <1>1, <1>5, <2>1, TeardownGoes
    <2>3. SupBase'
      <3>1. sstate' \in SupervisorState
        BY <1>0, <2>2, HeldNow DEF SupervisorState
      <3> QED
        BY <1>0, <1>1, <2>1, <2>2, <3>1, BaseStep, RowsKept, BooksKept
    <2>4. ASSUME ~overlapped' PROVE Alone'
      <3>1. sstate \in {"starting", "running", "stopping"}
        BY <1>3, <1>5, <2>1, <2>4 DEF Doing, StateFits
      <3>2. DownFrom(Smaller(task.i, Len(records)) + 1)'
        BY <1>4, <1>5, <2>1, <2>4
      <3> QED
        BY <1>0, <1>1, <1>3, <1>5, <2>1, <2>4, <3>1, <3>2, AloneTeardown
    <2> QED
      BY <2>3, <2>4 DEF SupInv
  <1>6. CASE task.kind = "restStop"
    <2>1. ContinueRestStop(t, task, task.i, h, subscribed) /\ UNCHANGED <<sstate, records>>
      BY <1>6 DEF StopSettles
    <2>2. RegistersFit /\ \E x : GoesOn(t, x)
      BY <1>0, <1>1, <1>6, <2>1, RestStopGoes
    <2>3. SupBase'
      BY <1>0, <1>1, <2>1, <2>2, BaseStep, RowsKept, BooksKept, HeldNow
    <2>4. ASSUME ~overlapped' PROVE Alone'
      <3>1. sstate' = "running" /\ "intensity_exceeded" \notin raised'
        BY <1>0, <1>3, <1>6, <2>1, <2>4 DEF Doing, StateFits
      <3>2. DownFrom(Smaller(task.i, Len(records)) + 1)'
        BY <1>4, <1>6, <2>1, <2>4
      <3>3. task.base \in 1..task.i /\ task.failed = records[task.base] /\ LiveOf(task.failed) = {}
            /\ task.i + 1 \in 1..Len(records)
        BY <1>2, <1>3, <1>6, <2>1, <2>4 DEF Doing, PlaceFits
      <3>4. task.base \in DOMAIN records
        BY <1>1, <1>2, <3>3
      <3>5. LiveOf(task.failed)' = {}
        BY <1>3, <2>1, <2>4, <3>3, Shrinks DEF Task
      <3> QED
        BY <1>0, <1>1, <1>3, <1>6, <2>1, <2>4, <3>1, <3>2, <3>3, <3>4, <3>5, AloneRestStop
    <2> QED
      BY <2>3, <2>4 DEF SupInv
  <1>7. CASE task.kind = "remove"
    <2>1. Finish(t, handle, subscribed) /\ records' = SpliceAt(task.base) /\ UNCHANGED sstate
      BY <1>7 DEF StopSettles
    <2>2. RegistersFit /\ GoesOn(t, NoTask) /\ handle' = h
      BY <1>0, <1>1, <2>1, FinishGoes DEF Finish
    <2>3. task.base \in Nat /\ task.base >= 1
      BY <1>0, <1>7, BusyTask DEF Shaped, Task
    <2>4. /\ records' \in Seq(Children)
          /\ \A j, k \in DOMAIN records' : records'[j] = records'[k] => j = k
          /\ \A j \in DOMAIN records' : \E k \in DOMAIN records : k # task.base /\ records'[j] = records[k]
          /\ \A k \in DOMAIN records : k # task.base => \E j \in DOMAIN records' : records'[j] = records[k]
      BY <1>0, <2>1, <2>3, SpliceFacts DEF SupBase
    <2>5. RowsFit
      <3>1. Present' \subseteq Present
        BY <2>4 DEF Present
      <3> QED
        BY <1>0, <2>4, <3>1 DEF RowsFit, SupBase, SupervisorTypeOK
    <2>6. SupBase'
      BY <1>0, <1>1, <2>1, <2>2, <2>5, BaseStep, BooksKept, HeldNow
    <2>7. ASSUME ~overlapped' PROVE Alone'
      <3>1. Busy = {t} /\ Doing(task)
        BY <1>0, <2>7, OneBusy
      <3>2. /\ Settled /\ task.target \in Present /\ handle[task.target] = NoWorker
            /\ task.base \in DOMAIN records /\ task.target = records[task.base]
        BY <1>0, <1>7, <3>1 DEF Doing, StateFits, PlaceFits, PhaseFits
      <3>3. \A v \in Workers : workerOf'[v] = IF v = task.worker THEN NoChild ELSE workerOf[v]
        BY <1>0, BusyTask, DiedFits
      <3>4. \A v \in Workers : workerOf'[v] # NoChild =>
                /\ workerOf'[v] = workerOf[v] /\ workerOf[v] \in Present
                /\ handle[workerOf[v]] = v /\ workerOf[v] # task.target
        BY <1>0, <3>1, <3>2, <3>3, HeldBut, SupervisorAssumption
      <3>5. \A c \in Present : c # task.target => c \in Present'
        BY <2>4, <3>2 DEF Present
      <3>6. Held(h)'
        BY <3>4, <3>5 DEF Held
      <3>7. Settled'
        BY <1>0, <2>1, <3>2, <3>4 DEF Settled, alive
      <3> QED
        BY <1>0, <2>2, <3>1, <3>6, <3>7, AloneEnd
    <2> QED
      BY <2>6, <2>7 DEF SupInv
  <1> QED
    BY <1>5, <1>6, <1>7 DEF StopSettles

-----------------------------------------------------------------------------
(* A worker exits.                                                           *)

LEMMA ExitUnheardKeeps ==
    ASSUME SupInv, NEW w \in Workers, ExitUnheard(w), overlapped' = (overlapped \/ Busy # {})
    PROVE  SupInv'
  <1>0. /\ SupBase /\ overlapped' \in BOOLEAN
        /\ w \in alive /\ (w \notin subscribed \/ stopping[workerOf[w]])
        /\ workerOf' = Died(w) /\ subscribed' = subscribed \ {w}
        /\ UNCHANGED <<sstate, records, handle, stopping, stamps, tasks, raised, finished,
                       removeAsked, known>>
    BY DEF SupInv, ExitUnheard, SupBase, SupervisorTypeOK
  <1>1. /\ workerOf' \in Owners
        /\ \A v \in Workers : workerOf'[v] = IF v = w THEN NoChild ELSE workerOf[v]
    BY <1>0, DiedFits
  <1>2. RegistersFit
    <2>1. HandlesFit(handle', subscribed', workerOf', stopping')
      BY <1>0, <1>1, HeldNow DEF HandlesFit, Handles
    <2> QED
      BY <1>0, <2>1, HeldNow, TypesOf DEF RegistersFit
  <1>3. SupBase'
    BY <1>0, <1>1, <1>2, BaseStep, RowsKept, BooksKept, HeldNow
  <1>4. ASSUME ~overlapped' PROVE FALSE
    <2>1. Held(handle)
      BY <1>0, <1>4, Quiet
    <2>2. workerOf[w] \in Children /\ handle[workerOf[w]] = w
      BY <1>0, <2>1, HeldNow DEF Held, alive, Owners
    <2> QED
      BY <1>0, <2>2, HeldNow, SupervisorAssumption DEF HandlesFit, alive
  <1> QED
    BY <1>3, <1>4 DEF SupInv

\* What a heard exit leaves: the others held, and the exited worker's child without one.
LEMMA HeldAfterExit ==
    ASSUME SupInv, NEW w \in Workers, HeardExit(w), ~overlapped, Busy = {}, UNCHANGED records,
           NEW h \in Handles, h = HandleWithout(w)
    PROVE  /\ Held(h)' /\ NoBirth /\ LiveOf(workerOf[w]) = {w} /\ workerOf[w] \in Present
           /\ sstate = "running" /\ "intensity_exceeded" \notin raised
           /\ \A c \in Children : c = workerOf[w] => LiveOf(c)' = {}
  <1>1. /\ workerOf[w] \in Children
        /\ \A c \in Children : h[c] = IF c = workerOf[w] THEN NoWorker ELSE handle[c]
        /\ \A v \in Workers : workerOf'[v] = IF v = w THEN NoChild ELSE workerOf[v]
    BY HeardFits DEF SupInv
  <1>2. Settled /\ Held(handle) /\ w \in alive
    BY Quiet DEF HeardExit
  <1>3. \A v \in Workers : workerOf[v] = workerOf[w] => v = w
    BY <1>1, <1>2, SupervisorAssumption DEF Held, alive
  <1>4. Held(h)'
    <2>1. workerOf \in Owners
      BY HeldNow DEF SupInv
    <2> QED
      BY <1>1, <1>2, <1>3, <2>1 DEF Held, Present, alive, Owners
  <1>5. LiveOf(workerOf[w]) = {w} /\ workerOf[w] \in Present
    BY <1>1, <1>2, <1>3, SupervisorAssumption DEF LiveOf, alive, Held
  <1>6. ASSUME NEW c \in Children, c = workerOf[w] PROVE LiveOf(c)' = {}
    BY <1>1, <1>3, <1>6, SupervisorAssumption DEF LiveOf, alive
  <1>7. sstate = "running" /\ "intensity_exceeded" \notin raised
    BY <1>2 DEF Settled
  <1> QED
    BY <1>1, <1>4, <1>5, <1>6, <1>7 DEF NoBirth

LEMMA ExitNormalKeeps ==
    ASSUME SupInv, NEW w \in Workers, ExitNormal(w), overlapped' = (overlapped \/ Busy # {})
    PROVE  SupInv'
  <1>0. /\ SupBase /\ overlapped' \in BOOLEAN /\ HeardExit(w)
        /\ handle' = HandleWithout(w) /\ subscribed' = SubscribedWithout(w)
        /\ finished' = finished \cup {workerOf[w]}
        /\ UNCHANGED <<sstate, records, stopping, stamps, tasks, raised, removeAsked, known>>
    BY DEF SupInv, ExitNormal, SupBase, SupervisorTypeOK
  <1>1. RegistersFit /\ workerOf' \in Owners /\ workerOf[w] \in Children
    BY <1>0, HeardFits, TypesOf DEF RegistersFit, SupBase
  <1>2. BooksFit
    BY <1>0, <1>1 DEF SupBase, SupervisorTypeOK, BooksFit, WithinIntensity
  <1>3. SupBase'
    BY <1>0, <1>1, <1>2, BaseStep, RowsKept
  <1>4. ASSUME ~overlapped' PROVE Alone'
    <2>1. ~overlapped /\ Busy = {}
      BY <1>4
    <2> PICK h \in Handles : h = HandleWithout(w)
      BY <1>0, HeardFits
    <2>2. Held(h)' /\ sstate = "running" /\ "intensity_exceeded" \notin raised
      BY <1>0, <2>1, HeldAfterExit
    <2>3. Settled' /\ Busy' = {} /\ AliveFits(NoWorker)'
      BY <1>0, <2>1, <2>2 DEF Settled, Busy, AliveFits, Held, alive
    <2> QED
      BY <2>3 DEF Alone
  <1> QED
    BY <1>3, <1>4 DEF SupInv

LEMMA ExitRestartKeeps ==
    ASSUME SupInv, NEW w \in Workers, ExitRestart(w), overlapped' = (overlapped \/ Busy # {})
    PROVE  SupInv'
  <1>0. /\ SupBase /\ overlapped' \in BOOLEAN /\ HeardExit(w)
        /\ stamps[workerOf[w]] < Intensity[workerOf[w]]
        /\ stamps' = [stamps EXCEPT ![workerOf[w]] = @ + 1]
        /\ UNCHANGED <<sstate, records, raised, finished, removeAsked, known>>
        /\ FreeTask \in TaskIds
    BY FreeTaskFree DEF SupInv, ExitRestart, SupBase, SupervisorTypeOK
  <1>1. /\ workerOf' \in Owners /\ workerOf[w] \in Children
        /\ HandleWithout(w) \in Handles /\ SubscribedWithout(w) \in SUBSET Workers
        /\ HandlesFit(HandleWithout(w), SubscribedWithout(w), workerOf', stopping)
    BY <1>0, HeardFits
  <1> PICK h \in Handles : h = HandleWithout(w)
    BY <1>1
  <1> PICK subs \in SUBSET Workers : subs = SubscribedWithout(w)
    BY <1>1
  <1> PICK c \in Children : c = workerOf[w]
    BY <1>1
  <1>2. BooksFit
    <2>1. stamps \in [Children -> Nat] /\ Intensity \in [Children -> Nat]
          /\ \A d \in Children : stamps[d] <= Intensity[d]
      BY <1>0, SupervisorAssumption DEF SupBase, SupervisorTypeOK, WithinIntensity
    <2>2. stamps' = [stamps EXCEPT ![c] = @ + 1] /\ stamps[c] < Intensity[c]
      BY <1>0
    <2>3. stamps' \in [Children -> Nat] /\ \A d \in Children : stamps'[d] <= Intensity[d]
      BY <2>1, <2>2
    <2> QED
      BY <1>0, <2>3 DEF SupBase, SupervisorTypeOK, BooksFit
  <1>3. HandlesFit(h, subs, workerOf', stopping)
    BY <1>1
  <1>4. ASSUME ~overlapped'
        PROVE  /\ Busy \subseteq {FreeTask} /\ Held(h)' /\ sstate = "running"
               /\ "intensity_exceeded" \notin raised /\ LiveOf(c)' = {} /\ c \in Present
    BY <1>0, <1>4, HeldAfterExit
  <1>5. ASSUME BeginBoot(FreeTask, NewTask("boot", c), c, h, subs) PROVE SupInv'
    <2> DEFINE task == NewTask("boot", c)
    <2>1. task \in Task /\ task.kind = "boot"
      BY DEF NewTask, Task, TaskKind
    <2>2. BeginBoot(FreeTask, task, c, h, subs)
      BY <1>5
    <2> HIDE DEF task
    <2>3. Shaped(task)
      BY <2>1 DEF Shaped
    <2>4. RegistersFit /\ GoesOn(FreeTask, BootTask(task, c)) /\ BootTask(task, c) \in Task
      BY <1>0, <1>3, <2>1, <2>2, <2>3, BootGoes
    <2>5. SupBase'
      BY <1>0, <1>1, <1>2, <2>4, BaseStep, RowsKept
    <2>6. ASSUME ~overlapped' PROVE Alone'
      <3> PICK x \in Task : x = BootTask(task, c)
        BY <2>4
      <3>1. x.kind = "boot" /\ x.target = c
        BY <2>1 DEF BootTask, Task
      <3>2. PlaceFits(x)' /\ StateFits(x)'
        BY <1>0, <1>4, <2>6, <3>1 DEF PlaceFits, StateFits, Present
      <3>3. handle' = h /\ GoesOn(FreeTask, x)
        BY <2>2, <2>4 DEF BeginBoot
      <3> QED
        BY <1>0, <1>1, <1>4, <2>1, <2>6, <3>2, <3>3, AloneBoot
    <2> QED
      BY <2>5, <2>6 DEF SupInv
  <1>6. ASSUME c \in Present,
               ContinueRestStop(FreeTask, [NewTask("restStop", c) EXCEPT !.base = IndexOf(c)],
                                Len(records), h, subs)
        PROVE  SupInv'
    <2> DEFINE task == [NewTask("restStop", c) EXCEPT !.base = IndexOf(c)]
    <2>0. /\ IndexOf(c) \in DOMAIN records /\ records[IndexOf(c)] = c /\ IndexOf(c) \in Nat
          /\ Len(records) \in Nat /\ DOMAIN records = 1..Len(records)
      BY <1>0, <1>6, IndexInRange, TypesOf DEF SupBase
    <2>1. task \in Task /\ task.kind = "restStop" /\ task.base = IndexOf(c) /\ task.failed = c
      BY <2>0 DEF NewTask, Task, TaskKind
    <2>2. ContinueRestStop(FreeTask, task, Len(records), h, subs)
      BY <1>6
    <2> HIDE DEF task
    <2>3. RegistersFit /\ \E x : GoesOn(FreeTask, x)
      BY <1>0, <1>3, <2>0, <2>1, <2>2, RestStopGoes
    <2>4. SupBase'
      BY <1>0, <1>1, <1>2, <2>3, BaseStep, RowsKept
    <2>5. ASSUME ~overlapped' PROVE Alone'
      <3> PICK at \in Task : at = task
        BY <2>1
      <3> PICK i \in Nat : i = Len(records)
        BY <2>0
      <3>1. Smaller(i, Len(records))' = i
        BY <1>0 DEF Smaller
      <3>2. DownFrom(Smaller(i, Len(records)) + 1)'
        <4>1. \A j \in 1..i : ~(j >= i + 1)
          OBVIOUS
        <4> QED
          BY <1>0, <2>0, <3>1, <4>1 DEF DownFrom
      <3>3. ContinueRestStop(FreeTask, at, i, h, subs) /\ at.kind = "restStop"
        BY <2>1, <2>2
      <3>4. at.base \in DOMAIN records /\ at.failed = records[at.base] /\ LiveOf(at.failed)' = {}
        BY <1>4, <2>0, <2>1, <2>5
      <3> QED
        BY <1>0, <1>1, <1>3, <1>4, <2>5, <3>2, <3>3, <3>4, AloneRestStop
    <2> QED
      BY <2>4, <2>5 DEF SupInv
  <1>7. ASSUME c \notin Present, handle' = h, subscribed' = subs, UNCHANGED <<tasks, stopping>>
        PROVE  SupInv'
    <2>1. RegistersFit
      BY <1>0, <1>1, <1>7, TypesOf DEF RegistersFit, SupBase
    <2>2. SupBase'
      BY <1>0, <1>1, <1>2, <1>7, <2>1, BaseStep, RowsKept
    <2>3. ~overlapped' => FALSE
      BY <1>4, <1>7
    <2> QED
      BY <2>2, <2>3 DEF SupInv
  <1>8. \/ BeginBoot(FreeTask, NewTask("boot", c), c, h, subs)
        \/ IF c \in Present
             THEN ContinueRestStop(FreeTask, [NewTask("restStop", c) EXCEPT !.base = IndexOf(c)],
                                   Len(records), h, subs)
             ELSE handle' = h /\ subscribed' = subs /\ UNCHANGED <<tasks, stopping>>
    BY DEF ExitRestart
  <1> QED
    BY <1>5, <1>6, <1>7, <1>8

LEMMA ExitEscalateKeeps ==
    ASSUME SupInv, NEW w \in Workers, ExitEscalate(w), overlapped' = (overlapped \/ Busy # {})
    PROVE  SupInv'
  <1>0. /\ SupBase /\ overlapped' \in BOOLEAN /\ HeardExit(w)
        /\ raised' = raised \cup {"intensity_exceeded"}
        /\ UNCHANGED <<records, stamps, finished, removeAsked, known>>
        /\ FreeTask \in TaskIds
    BY FreeTaskFree DEF SupInv, ExitEscalate, SupBase, SupervisorTypeOK
  <1>1. /\ workerOf' \in Owners /\ workerOf[w] \in Children
        /\ HandleWithout(w) \in Handles /\ SubscribedWithout(w) \in SUBSET Workers
        /\ HandlesFit(HandleWithout(w), SubscribedWithout(w), workerOf', stopping)
    BY <1>0, HeardFits
  <1> PICK h \in Handles : h = HandleWithout(w)
    BY <1>1
  <1> PICK subs \in SUBSET Workers : subs = SubscribedWithout(w)
    BY <1>1
  <1> PICK c \in Children : c = workerOf[w]
    BY <1>1
  <1>2. ASSUME sstate' \in SupervisorState PROVE BooksFit
    BY <1>0, <1>2 DEF SupBase, SupervisorTypeOK, BooksFit, WithinIntensity
  <1>3. HandlesFit(h, subs, workerOf', stopping)
    BY <1>1
  <1>4. ASSUME ~overlapped'
        PROVE  Busy \subseteq {FreeTask} /\ Held(h)' /\ sstate = "running"
    BY <1>0, <1>4, HeldAfterExit
  <1>5. CASE sstate \in {"stopping", "stopped"}
    <2>1. handle' = h /\ subscribed' = subs /\ UNCHANGED <<tasks, stopping, sstate>>
      BY <1>5 DEF ExitEscalate
    <2>2. RegistersFit
      BY <1>0, <1>1, <2>1, TypesOf DEF RegistersFit, SupBase
    <2>3. SupBase'
      BY <1>0, <1>1, <1>2, <2>1, <2>2, BaseStep, RowsKept, HeldNow
    <2>4. ~overlapped' => FALSE
      BY <1>4, <1>5
    <2> QED
      BY <2>3, <2>4 DEF SupInv
  <1>6. CASE sstate \notin {"stopping", "stopped"}
    <2> DEFINE task == NewTask("teardown", c)
    <2>1. task \in Task /\ task.kind = "teardown"
      BY DEF NewTask, Task, TaskKind
    <2>2. ContinueTeardown(FreeTask, task, Len(records), h, subs)
      BY <1>6 DEF ExitEscalate
    <2> HIDE DEF task
    <2>0. Len(records) \in Nat /\ DOMAIN records = 1..Len(records)
      BY <1>0, TypesOf DEF SupBase
    <2>3. RegistersFit /\ (\E x : GoesOn(FreeTask, x)) /\ sstate' \in {sstate, "stopped"}
      BY <1>0, <1>3, <2>0, <2>1, <2>2, TeardownGoes
    <2>4. SupBase'
      <3>1. sstate' \in SupervisorState
        BY <1>0, <2>3, HeldNow DEF SupervisorState
      <3> QED
        BY <1>0, <1>1, <1>2, <2>3, <3>1, BaseStep, RowsKept
    <2>5. ASSUME ~overlapped' PROVE Alone'
      <3> PICK at \in Task : at = task
        BY <2>1
      <3> PICK i \in Nat : i = Len(records)
        BY <2>0
      <3>1. Smaller(i, Len(records))' = i
        BY <1>0 DEF Smaller
      <3>2. DownFrom(Smaller(i, Len(records)) + 1)'
        <4>1. \A j \in 1..i : ~(j >= i + 1)
          OBVIOUS
        <4> QED
          BY <1>0, <2>0, <3>1, <4>1 DEF DownFrom
      <3>3. ContinueTeardown(FreeTask, at, i, h, subs) /\ at.kind = "teardown"
        BY <2>1, <2>2
      <3> QED
        BY <1>0, <1>1, <1>3, <1>4, <2>5, <3>2, <3>3, AloneTeardown
    <2> QED
      BY <2>4, <2>5 DEF SupInv
  <1> QED
    BY <1>5, <1>6

LEMMA ExpireKeeps ==
    ASSUME SupInv, NEW c \in Children, Expire(c), UNCHANGED overlapped
    PROVE  SupInv'
  <1>0. /\ SupBase /\ stamps[c] > 0 /\ stamps' = [stamps EXCEPT ![c] = @ - 1]
        /\ UNCHANGED <<sstate, records, handle, stopping, tasks, workerOf, subscribed, raised,
                       finished, removeAsked, known, overlapped>>
    BY DEF SupInv, Expire
  <1>1. BooksFit
    <2>1. stamps \in [Children -> Nat] /\ Intensity \in [Children -> Nat]
          /\ \A d \in Children : stamps[d] <= Intensity[d]
      BY <1>0, SupervisorAssumption DEF SupBase, SupervisorTypeOK, WithinIntensity
    <2>2. stamps' \in [Children -> Nat] /\ \A d \in Children : stamps'[d] <= Intensity[d]
      BY <1>0, <2>1
    <2> QED
      BY <1>0, <2>2 DEF SupBase, SupervisorTypeOK, BooksFit
  <1>2. SupBase'
    BY <1>0, <1>1, BaseStep, RegistersKept, RowsKept, HeldNow
  <1>3. Alone => Alone'
    BY <1>0 DEF Alone, Doing, Settled, AliveFits, PlaceFits, PhaseFits, StateFits, DownFrom,
                LiveOf, alive, Busy, Present
  <1> QED
    BY <1>0, <1>2, <1>3 DEF SupInv

-----------------------------------------------------------------------------
(* The invariant and what follows from it.                                   *)

LEMMA SupStep == SupInv /\ [SupervisorNext]_<<superVars, overlapped>> => SupInv'
  <1> SUFFICES ASSUME SupInv, [SupervisorNext]_<<superVars, overlapped>> PROVE SupInv'
    OBVIOUS
  <1>1. CASE Call /\ overlapped' = (overlapped \/ Busy # {})
    BY <1>1, StartKeeps, StopAtOnceKeeps, StopKeeps, AddChildKeeps, RemoveChildKeeps DEF Call
  <1>2. CASE Exit /\ overlapped' = (overlapped \/ Busy # {})
    BY <1>2, ExitUnheardKeeps, ExitNormalKeeps, ExitRestartKeeps, ExitEscalateKeeps DEF Exit
  <1>3. CASE Settle /\ UNCHANGED overlapped
    BY <1>3, FactoryResolvesKeeps, StartResolvesKeeps, BootRejectsKeeps, StopSettlesKeeps DEF Settle
  <1>4. CASE (\E c \in Children : Expire(c)) /\ UNCHANGED overlapped
    BY <1>4, ExpireKeeps
  <1>5. CASE UNCHANGED <<superVars, overlapped>>
    <2> USE <1>5 DEF superVars
    <2>1. SupBase'
      BY BaseStep, RegistersKept, RowsKept, BooksKept, HeldNow DEF SupInv, SupBase, SupervisorTypeOK
    <2>2. Alone => Alone'
      BY DEF Alone, Doing, Settled, AliveFits, PlaceFits, PhaseFits, StateFits, DownFrom,
             LiveOf, alive, Busy, Present
    <2> QED
      BY <2>1, <2>2 DEF SupInv
  <1> QED
    BY <1>1, <1>2, <1>3, <1>4, <1>5 DEF SupervisorNext

LEMMA SupStarts == SupervisorInit => SupInv
  <1> SUFFICES ASSUME SupervisorInit PROVE SupInv
    OBVIOUS
  <1>1. /\ records \in Seq(Children)
        /\ \A i, j \in DOMAIN records : records[i] = records[j] => i = j
    BY SupervisorAssumption DEF SupervisorInit
  <1>2. Present \subseteq Children
    <2>1. \A i \in DOMAIN records : records[i] \in Children
      BY <1>1, ElementOfSeq, LenProperties
    <2> QED
      BY <2>1 DEF Present
  <1>3. Busy = {} /\ alive = {}
    BY DEF SupervisorInit, Busy, alive
  <1>4. SupervisorTypeOK
    BY <1>1, <1>2 DEF SupervisorInit, SupervisorTypeOK, SupervisorState
  <1>5. SupBase
    BY <1>3, <1>4, SupervisorAssumption
       DEF SupervisorInit, SupBase, TasksShaped, HandlesFit, WithinIntensity
  <1>6. Alone
    BY <1>3 DEF SupervisorInit, Alone, Settled, AliveFits
  <1> QED
    BY <1>5, <1>6 DEF SupInv

\* The invariant of the supervisor: the base however calls and exits overlap, and the rest
\* as long as they come one at a time.
THEOREM SupervisorInvariant == SupervisorSpec => []SupInv
  <1> QED
    BY SupStarts, SupStep, PTL DEF SupervisorSpec

LEMMA AloneSound ==
    ASSUME SupInv
    PROVE  StoppedIsQuiet /\ OneWorkerPerChild /\ DependentsDown
  <1> SUFFICES ASSUME ~overlapped PROVE StoppedIsQuiet /\ OneWorkerPerChild /\ DependentsDown
    BY DEF StoppedIsQuiet, OneWorkerPerChild, DependentsDown
  <1>0. SupBase
    BY DEF SupInv
  <1>1. CASE Busy = {}
    <2>1. Settled /\ Held(handle)
      BY <1>1, Quiet
    <2> QED
      BY <1>1, <2>1 DEF StoppedIsQuiet, OneWorkerPerChild, DependentsDown, Settled, Held, alive
  <1>2. CASE Busy # {}
    <2> PICK t \in Busy : TRUE
      BY <1>2
    <2> PICK x \in Task : x = tasks[t]
      BY OneBusy
    <2>1. Busy = {t} /\ Doing(x)
      BY OneBusy
    <2>2. StoppedIsQuiet
      BY <1>2 DEF StoppedIsQuiet
    <2>3. OneWorkerPerChild
      <3>1. ASSUME NEW v \in alive, NEW w \in alive, workerOf[v] = workerOf[w], v # w PROVE FALSE
        <4>1. v \in Workers /\ w \in Workers /\ workerOf[v] # NoChild /\ workerOf[w] # NoChild
              /\ workerOf[v] \in Children
          BY <1>0, HeldNow DEF alive, Owners
        <4>2. v = x.worker \/ w = x.worker
          BY <1>0, <2>1, <3>1, <4>1, HeldBut
        <4>3. x.phase = "handleStop"
          BY <1>0, <2>1, <3>1, <4>1, HeldBut DEF Held
        <4>4. handle[workerOf[v]] = NoWorker
          BY <2>1, <3>1, <4>2, <4>3 DEF Doing, PhaseFits
        <4> QED
          BY <1>0, <2>1, <3>1, <4>1, <4>4, HeldBut, SupervisorAssumption
      <3> QED
        BY <3>1 DEF OneWorkerPerChild
    <2>4. DependentsDown
      <3> SUFFICES ASSUME x.kind \in {"start", "teardown", "restStop", "restBoot"},
                          NEW j \in DOMAIN records, j > IndexOf(x.target)
                   PROVE  LiveOf(records[j]) = {}
        BY <2>1 DEF DependentsDown
      <3>1. DOMAIN records = 1..Len(records) /\ Len(records) \in Nat /\ x.i \in Nat
        BY <1>0, TypesOf DEF SupBase, Task
      <3>2. CASE x.kind \in {"start", "restBoot"}
        <4>1. x.i - 1 \in DOMAIN records /\ x.target = records[x.i - 1] /\ DownFrom(x.i)
          BY <2>1, <3>2 DEF Doing, PlaceFits
        <4>2. IndexOf(x.target) = x.i - 1
          BY <1>0, <4>1, IndexOfPresent DEF SupBase
        <4>3. j >= x.i
          BY <3>1, <4>2
        <4> QED
          BY <4>1, <4>3 DEF DownFrom
      <3>3. CASE x.kind \in {"teardown", "restStop"}
        <4>1. x.i + 1 \in DOMAIN records /\ x.target = records[x.i + 1] /\ DownFrom(x.i + 2)
          BY <2>1, <3>3 DEF Doing, PlaceFits
        <4>2. IndexOf(x.target) = x.i + 1
          BY <1>0, <4>1, IndexOfPresent DEF SupBase
        <4>3. j >= x.i + 2
          BY <3>1, <4>2
        <4> QED
          BY <4>1, <4>3 DEF DownFrom
      <3> QED
        BY <3>2, <3>3
    <2> QED
      BY <2>2, <2>3, <2>4
  <1> QED
    BY <1>1, <1>2

\* After the escalation that gives the supervisor up no factory is called: only stops are
\* awaited from then on.
LEMMA AloneQuits ==
    ASSUME SupInv, SupInv', [SupervisorNext]_<<superVars, overlapped>>
    PROVE  [("intensity_exceeded" \in raised /\ ~overlapped' =>
                \A c \in Children : ~FactoryCalled(c))]_superVars
  <1> SUFFICES ASSUME "intensity_exceeded" \in raised, ~overlapped', NEW c \in Children, FactoryCalled(c)
               PROVE  FALSE
    OBVIOUS
  <1>1. raised \subseteq raised'
    BY DEF SupervisorNext, Call, Exit, Settle, Start, StopAtOnce, Stop, AddChild, RemoveChild,
           FactoryResolves, StartResolves, BootRejects, StopSettles, ExitUnheard, ExitNormal,
           ExitRestart, ExitEscalate, Expire, superVars
  <1>2. PICK t \in TaskIds : tasks'[t] # NoTask /\ tasks'[t].phase = "factory"
    BY DEF FactoryCalled
  <1>3. Alone' /\ t \in Busy'
    BY <1>2 DEF SupInv, Busy
  <1>4. PICK x \in Task : tasks'[t] = x /\ Doing(x)'
    BY <1>3 DEF Alone
  <1> QED
    BY <1>1, <1>2, <1>4 DEF Doing, StateFits, PhaseFits

\* SupervisorSound of every supervisor: while calls and exits come one at a time a stopped
\* one has no live worker, no child two, a torn-down child no live dependent, and no
\* factory runs after the escalation; the intensity is kept and no crash goes unanswered
\* however they overlap.
THEOREM SupervisorCorrect == SupervisorSpec => SupervisorSound
  <1>1. SupInv => SupervisorTypeOK /\ StoppedIsQuiet /\ OneWorkerPerChild
                    /\ DependentsDown /\ WithinIntensity /\ NoIgnoredCrash
    BY BaseSound, AloneSound DEF SupInv
  <1>2. SupInv /\ SupInv' /\ [SupervisorNext]_<<superVars, overlapped>>
          => [("intensity_exceeded" \in raised /\ ~overlapped' =>
                  \A c \in Children : ~FactoryCalled(c))]_superVars
    BY AloneQuits
  <1>3. SupervisorSpec => []SupInv
    BY SupervisorInvariant
  <1> QED
    BY <1>1, <1>2, <1>3, PTL DEF SupervisorSpec, SupervisorSound, NoFactoryAfterEscalation

-----------------------------------------------------------------------------
(* The database. *)

OpenSteps == {"closed", "lock", "read", "apply", "open"}

DbTyped ==
    /\ flowTable \in {"none", "v1", "v2"}
    /\ flowRows \in Nat
    /\ applied \subseteq MIGRATIONS
    /\ schemaLock \in BOOLEAN /\ abandoned \in BOOLEAN
    /\ opener \in [DbProcs -> [step : OpenSteps, found : SUBSET MIGRATIONS]]

Holds(p) == opener[p].step \in {"read", "apply"}

\* One process at most is between its INSERT into schema_lock and its DELETE; nobody
\* is once one has died there, and the row then stays for good.
LockFits ==
    /\ \A p, q \in DbProcs : Holds(p) /\ Holds(q) => p = q
    /\ \A p \in DbProcs : Holds(p) => schemaLock /\ ~abandoned
    /\ schemaLock => abandoned \/ \E p \in DbProcs : Holds(p)
    /\ abandoned => schemaLock

\* The holder knows what is applied, the table is the second migration's once that is
\* recorded, and no row is written before.
SchemaFits ==
    /\ \A p \in DbProcs : opener[p].step = "apply" => opener[p].found = applied
    /\ \A p \in DbProcs : opener[p].step = "open" => applied = MIGRATIONS
    /\ flowTable = "v2" <=> 2 \in applied
    /\ flowRows > 0 => flowTable = "v2"

DbInv == DbTyped /\ LockFits /\ SchemaFits

DbSpec == DbInit /\ [][DbNext]_dbVars

\* The next migration is one that is not there.
LEMMA NextVersion ==
    ASSUME NEW found \in SUBSET MIGRATIONS, found # MIGRATIONS
    PROVE  Min(MIGRATIONS \ found) \in MIGRATIONS \ found
<1>1. MIGRATIONS = {1, 2}
  BY DEF MIGRATIONS
<1>2. \E x \in MIGRATIONS \ found : \A y \in MIGRATIONS \ found : x <= y
  <2>1. CASE 1 \notin found
    BY <1>1, <2>1
  <2>2. CASE 1 \in found
    <3>1. MIGRATIONS \ found = {2}
      BY <1>1, <2>2
    <3> QED BY <3>1
  <2> QED BY <2>1, <2>2
<1> QED BY <1>2 DEF Min

\* What a step of one process leaves to the others.
LEMMA OneMoves ==
    ASSUME DbInv, NEW p \in DbProcs, NEW to,
           opener' = [opener EXCEPT ![p] = to]
    PROVE  opener'[p] = to /\ \A q \in DbProcs \ {p} : opener'[q] = opener[q]
BY DEF DbInv, DbTyped

LEMMA OpenKeeps == ASSUME DbInv, NEW p \in DbProcs, openDatabase(p) PROVE DbInv'
<1>1. /\ opener[p].step = "closed"
      /\ opener' = [opener EXCEPT ![p] = [step |-> "lock", found |-> {}]]
      /\ UNCHANGED <<flowRows, applied, schemaLock, abandoned>>
      /\ flowTable' = IF flowTable = "none" THEN "v1" ELSE flowTable
  BY DEF openDatabase, Opening
<1>2. opener'[p] = [step |-> "lock", found |-> {}] /\ \A q \in DbProcs \ {p} : opener'[q] = opener[q]
  BY <1>1, OneMoves
<1>3. DbTyped'
  BY <1>1 DEF DbInv, DbTyped, OpenSteps
<1>4. LockFits'
  BY <1>1, <1>2 DEF DbInv, LockFits, Holds
<1>5. SchemaFits'
  BY <1>1, <1>2 DEF DbInv, SchemaFits
<1> QED BY <1>3, <1>4, <1>5 DEF DbInv

LEMMA AcquireKeeps == ASSUME DbInv, NEW p \in DbProcs, acquireLock(p) PROVE DbInv'
<1> DEFINE to == [opener[p] EXCEPT !.step = IF schemaLock THEN "closed" ELSE "read"]
<1>1. /\ opener[p].step = "lock" /\ schemaLock' = TRUE
      /\ opener' = [opener EXCEPT ![p] = to]
      /\ UNCHANGED <<flowTable, flowRows, applied, abandoned>>
  BY DEF acquireLock
<1>2. opener'[p] = to /\ \A q \in DbProcs \ {p} : opener'[q] = opener[q]
  BY <1>1, OneMoves
<1>3. /\ to \in [step : OpenSteps, found : SUBSET MIGRATIONS]
      /\ to.step = IF schemaLock THEN "closed" ELSE "read"
  BY DEF DbInv, DbTyped, OpenSteps
<1>4. DbTyped'
  BY <1>1, <1>3 DEF DbInv, DbTyped
<1>5. LockFits'
  BY <1>1, <1>2, <1>3 DEF DbInv, DbTyped, LockFits, Holds
<1>6. SchemaFits'
  BY <1>1, <1>2, <1>3 DEF DbInv, SchemaFits
<1> QED BY <1>4, <1>5, <1>6 DEF DbInv

LEMMA ReadKeeps == ASSUME DbInv, NEW p \in DbProcs, ReadApplied(p) PROVE DbInv'
<1>1. /\ opener[p].step = "read"
      /\ opener' = [opener EXCEPT ![p] = [step |-> "apply", found |-> applied]]
      /\ UNCHANGED <<flowTable, flowRows, applied, schemaLock, abandoned>>
  BY DEF ReadApplied, Opening
<1>2. /\ opener'[p] = [step |-> "apply", found |-> applied]
      /\ \A q \in DbProcs \ {p} : opener'[q] = opener[q]
  BY <1>1, OneMoves
<1>3. DbTyped'
  BY <1>1 DEF DbInv, DbTyped, OpenSteps
<1>4. LockFits'
  BY <1>1, <1>2 DEF DbInv, LockFits, Holds
<1>5. SchemaFits'
  BY <1>1, <1>2 DEF DbInv, SchemaFits
<1> QED BY <1>3, <1>4, <1>5 DEF DbInv

LEMMA ApplyKeeps ==
    ASSUME DbInv, NEW p \in DbProcs, applyPending(p)
    PROVE  DbInv' /\ flowRows' >= flowRows
<1> DEFINE version == Min(MIGRATIONS \ opener[p].found)
           to == [opener[p] EXCEPT !.found = @ \cup {version}]
<1>0. opener[p] \in [step : OpenSteps, found : SUBSET MIGRATIONS]
  BY DEF DbInv, DbTyped
<1>1. version \in MIGRATIONS
  BY <1>0, NextVersion DEF applyPending
<1>2. /\ opener[p].step = "apply" /\ version \notin applied
      /\ applied' = applied \cup {version}
      /\ opener' = [opener EXCEPT ![p] = to]
      /\ UNCHANGED <<schemaLock, abandoned>>
      /\ version = 2 => flowTable' = "v2" /\ flowRows' = 0
      /\ version # 2 => UNCHANGED <<flowTable, flowRows>>
  BY DEF applyPending
<1>3. opener'[p] = to /\ \A q \in DbProcs \ {p} : opener'[q] = opener[q]
  BY <1>2, OneMoves
<1>4. to \in [step : OpenSteps, found : SUBSET MIGRATIONS] /\ to.step = "apply"
      /\ to.found = opener[p].found \cup {version}
  BY <1>0, <1>1, <1>2
<1> HIDE DEF version, to
<1>5. DbTyped'
  BY <1>1, <1>2, <1>4 DEF DbInv, DbTyped
<1>6. LockFits'
  BY <1>2, <1>3, <1>4 DEF DbInv, LockFits, Holds
<1>7. \A q \in DbProcs \ {p} : opener[q].step \notin {"apply", "open"}
  <2>1. applied # MIGRATIONS
    BY <1>1, <1>2
  <2> QED BY <2>1, <1>2 DEF DbInv, LockFits, SchemaFits, Holds
<1>8. flowRows' >= flowRows
  BY <1>2 DEF DbInv, DbTyped, SchemaFits
<1>9. SchemaFits'
  BY <1>1, <1>2, <1>3, <1>4, <1>7 DEF DbInv, DbTyped, SchemaFits
<1> QED BY <1>5, <1>6, <1>8, <1>9 DEF DbInv

\* The lock goes with its holder, in finally.
LEMMA DropKeeps ==
    ASSUME DbInv, NEW p \in DbProcs, NEW step \in {"closed", "open"},
           opener[p].step = "apply", step = "open" => opener[p].found = MIGRATIONS,
           schemaLock' = FALSE, opener' = [opener EXCEPT ![p].step = step],
           UNCHANGED <<flowTable, flowRows, applied, abandoned>>
    PROVE  DbInv'
<1> DEFINE to == [opener[p] EXCEPT !.step = step]
<1>1. to \in [step : OpenSteps, found : SUBSET MIGRATIONS] /\ to.step = step
  BY DEF DbInv, DbTyped, OpenSteps
<1>2. opener'[p] = to /\ \A q \in DbProcs \ {p} : opener'[q] = opener[q]
  BY OneMoves
<1>3. DbTyped'
  BY <1>1 DEF DbInv, DbTyped
<1>4. LockFits'
  BY <1>1, <1>2 DEF DbInv, LockFits, Holds
<1>5. SchemaFits'
  BY <1>1, <1>2 DEF DbInv, SchemaFits
<1> QED BY <1>3, <1>4, <1>5 DEF DbInv

LEMMA InsertKeeps == ASSUME DbInv, NEW p \in DbProcs, insertFlowRun(p) PROVE DbInv' /\ flowRows' >= flowRows
BY DEF DbInv, DbTyped, LockFits, SchemaFits, Holds, insertFlowRun

LEMMA LeavesKeeps == ASSUME DbInv, NEW p \in DbProcs, Leaves(p) PROVE DbInv'
<1>1. /\ opener' = [opener EXCEPT ![p] = [step |-> "closed", found |-> {}]]
      /\ abandoned' = (abandoned \/ Holds(p))
      /\ UNCHANGED <<flowTable, flowRows, applied, schemaLock>>
  BY DEF Leaves, Opening, Holds
<1>2. opener'[p] = [step |-> "closed", found |-> {}] /\ \A q \in DbProcs \ {p} : opener'[q] = opener[q]
  BY <1>1, OneMoves
<1>3. DbTyped'
  BY <1>1 DEF DbInv, DbTyped, OpenSteps
<1>4. LockFits'
  BY <1>1, <1>2 DEF DbInv, DbTyped, LockFits, Holds
<1>5. SchemaFits'
  BY <1>1, <1>2 DEF DbInv, SchemaFits
<1> QED BY <1>3, <1>4, <1>5 DEF DbInv

LEMMA DbInvNext == ASSUME DbInv, [DbNext]_dbVars PROVE DbInv' /\ flowRows' >= flowRows
<1>0. ASSUME UNCHANGED flowRows PROVE flowRows' >= flowRows
  BY <1>0 DEF DbInv, DbTyped
<1>1. CASE UNCHANGED dbVars
  BY <1>0, <1>1 DEF dbVars, DbInv, DbTyped, LockFits, SchemaFits, Holds
<1>2. ASSUME NEW p \in DbProcs, openDatabase(p) PROVE DbInv' /\ flowRows' >= flowRows
  BY <1>0, <1>2, OpenKeeps DEF openDatabase
<1>3. ASSUME NEW p \in DbProcs, acquireLock(p) PROVE DbInv' /\ flowRows' >= flowRows
  BY <1>0, <1>3, AcquireKeeps DEF acquireLock
<1>4. ASSUME NEW p \in DbProcs, ReadApplied(p) PROVE DbInv' /\ flowRows' >= flowRows
  BY <1>0, <1>4, ReadKeeps DEF ReadApplied
<1>5. ASSUME NEW p \in DbProcs, applyPending(p) PROVE DbInv' /\ flowRows' >= flowRows
  BY <1>5, ApplyKeeps
<1>6. ASSUME NEW p \in DbProcs, ApplyThrows(p) PROVE DbInv' /\ flowRows' >= flowRows
  BY <1>0, <1>6, DropKeeps DEF ApplyThrows
<1>7. ASSUME NEW p \in DbProcs, releaseLock(p) PROVE DbInv' /\ flowRows' >= flowRows
  BY <1>0, <1>7, DropKeeps DEF releaseLock
<1>8. ASSUME NEW p \in DbProcs, insertFlowRun(p) PROVE DbInv' /\ flowRows' >= flowRows
  BY <1>8, InsertKeeps
<1>9. ASSUME NEW p \in DbProcs, Leaves(p) PROVE DbInv' /\ flowRows' >= flowRows
  BY <1>0, <1>9, LeavesKeeps DEF Leaves
<1> QED BY <1>1, <1>2, <1>3, <1>4, <1>5, <1>6, <1>7, <1>8, <1>9 DEF DbNext

LEMMA DbInitInv == DbInit => DbInv
<1> SUFFICES ASSUME DbInit PROVE DbInv
  OBVIOUS
<1>1. \A p \in DbProcs : opener[p] = [step |-> "closed", found |-> {}]
  BY DEF DbInit, Opening
<1>2. DbTyped
  BY DEF DbInit, DbTyped, Opening, OpenSteps
<1>3. LockFits
  BY <1>1 DEF DbInit, LockFits, Holds
<1>4. SchemaFits
  BY <1>1 DEF DbInit, SchemaFits
<1> QED BY <1>2, <1>3, <1>4 DEF DbInv

LEMMA LockExcludes == DbInv => OneMigrates
<1> SUFFICES ASSUME DbInv PROVE OneMigrates
  OBVIOUS
<1> DEFINE Holders == {p \in DbProcs : Holds(p)}
<1>1. Cardinality(Holders) <= 1
  <2>1. CASE Holders = {}
    BY <2>1, FS_EmptySet
  <2>2. CASE Holders # {}
    <3>1. PICK p \in DbProcs : Holders = {p}
      BY <2>2 DEF DbInv, LockFits
    <3> QED BY <3>1, FS_Singleton
  <2> QED BY <2>1, <2>2
<1>2. schemaLock <=> Holders # {} \/ abandoned
  BY DEF DbInv, DbTyped, LockFits
<1>3. \A p \in DbProcs : opener[p].step = "open" => flowTable = "v2" /\ applied = MIGRATIONS
  BY DEF DbInv, SchemaFits, MIGRATIONS
<1> QED BY <1>1, <1>2, <1>3 DEF OneMigrates, Holds

\* DbInv of openDatabase, acquireLock, applyPending and releaseLock, for any number of
\* processes.
THEOREM DbInvariant == DbSpec => []DbInv
<1>1. DbInit => DbInv
  BY DbInitInv
<1>2. DbInv /\ [DbNext]_dbVars => DbInv'
  BY DbInvNext
<1> QED BY <1>1, <1>2, PTL DEF DbSpec

\* The row of schema_lock excludes: one process migrates at a time, a database that is
\* open has every migration, and the lock is left behind only by a process that died.
THEOREM MigrationsExclude == DbSpec => []OneMigrates
BY DbInvariant, LockExcludes, PTL

\* No step drops a row of flow_runs: the migration that drops and creates the table runs
\* once, before any process may insert.
THEOREM MigrationsKeepRows == DbSpec => FlowRowsKept
<1>1. DbInv /\ [DbNext]_dbVars => [flowRows' >= flowRows]_dbVars
  BY DbInvNext
<1> QED BY <1>1, DbInvariant, PTL DEF DbSpec, FlowRowsKept

-----------------------------------------------------------------------------
(* The messages and their files. *)

TheProcess == CHOOSE p \in MailProcs : TRUE

\* The message is in the table and its agent's.
Known(agent, row) == \E r \in mail : r.to = agent /\ r.id = row.id

\* A line is such a message, or what a second process left of one.
LineFits(agent, line) == IF line = Torn THEN agent \in mixed ELSE line \in MailRow /\ Known(agent, line)
LinesFit(agent, q) == q \in Seq(Line) /\ \A k \in DOMAIN q : LineFits(agent, q[k])

MailRowsFit(batch) ==
    /\ batch \subseteq MailRow /\ IsFiniteSet(batch)
    /\ \A r, s \in batch : r.id = s.id => r = s

Appender == [kind : {"append"}, rows : Seq(MailRow), step : {"read", "write", "rename"}, lines : Seq(Line)]
Reconciler == [kind : {"reconcile"}, rows : SUBSET MailRow, left : SUBSET MailAgents, written : MailAgents \cup {NoFile}]

DoingTyped(now) ==
    \/ now = Resting \/ now = Booting
    \/ now.kind = "append" /\ now \in Appender
    \/ now.kind = "reconcile" /\ now \in Reconciler

\* What a process is about to write are messages of the table.
DoingFits(now) ==
    /\ now.kind = "append" =>
          /\ now.rows # <<>> /\ \A k \in DOMAIN now.rows : Known(now.rows[k].to, now.rows[k])
          /\ LinesFit(now.rows[1].to, now.lines)
    /\ now.kind = "reconcile" =>
          MailRowsFit(now.rows) /\ \A r \in now.rows : Known(r.to, r)

LastId == [at : -1..MaxMs, random : 0..MaxRandom]

FilesFit ==
    /\ single \in BOOLEAN /\ strayed \in BOOLEAN /\ ms \in 0..MaxMs /\ MailRowsFit(mail)
    /\ lastId \in [MailProcs -> LastId]
    /\ DOMAIN exported = MailAgents /\ \A a \in MailAgents : LinesFit(a, exported[a])
    /\ DOMAIN temp = MailAgents /\ \A a \in MailAgents : temp[a] # NoFile => LinesFit(a, temp[a])
    /\ doing = [p \in MailProcs |-> doing[p]] /\ \A p \in MailProcs : DoingTyped(doing[p]) /\ DoingFits(doing[p])

\* The ids of the messages come before the next one a process at `last' makes at `now'.
IdsAt(messages, last, now) ==
    /\ last.at <= now
    /\ \A r \in messages : r.delivered <= now
    /\ \A r \in messages : \/ r.id.at < now
                           \/ r.id.at = now /\ last.at = now /\ r.id.random <= last.random

\* A row's line at the end of its agent's file.
Plus(q, agent, row) == IF row.to = agent THEN Append(q, row) ELSE q

\* What the appends of the process still add to the files makes them the table.
Owed(batch) ==
    \/ Len(batch) = 1 /\ \A a \in MailAgents : RowsTo(a, mail) = Plus(exported[a], a, batch[1])
    \/ Len(batch) = 2 /\ \A a \in MailAgents : RowsTo(a, mail) = Plus(Plus(exported[a], a, batch[1]), a, batch[2])

AppendFits(now) ==
    /\ Owed(now.rows)
    /\ now.step = "write" => now.lines = exported[now.rows[1].to]
    /\ now.step = "rename" => temp[now.rows[1].to] = Append(exported[now.rows[1].to], now.rows[1])

ReconcileFits(now) ==
    /\ now.rows = mail
    /\ \A a \in MailAgents \ now.left : fileMatchesDb(a)
    /\ now.written # NoFile /\ fd[TheProcess] = "none" => temp[now.written] = RowsTo(now.written, mail)

AloneFits ==
    single =>
        /\ \A p \in MailProcs \ {TheProcess} : doing[p] = Booting
        /\ IdsAt(mail, lastId[TheProcess], ms)
        /\ ~strayed /\ doing[TheProcess].kind # "append" => \A a \in MailAgents : fileMatchesDb(a)
        /\ ~strayed /\ doing[TheProcess].kind = "append" => AppendFits(doing[TheProcess])
        /\ doing[TheProcess].kind = "reconcile" => ReconcileFits(doing[TheProcess])

Places == {"none", "temp", "exported", "gone"}
Writing(now) == \/ now.kind = "append" /\ now.step = "write"
                \/ now.kind = "reconcile" /\ now.written # NoFile

\* The descriptors.  Two that are of one file are of an agent's whose temporary file was
\* opened twice; and what only one is of is empty, until it writes.
HoldersFit ==
    \A p \in MailProcs : fd[p] # "none" =>
        /\ Writing(doing[p]) /\ Target(p) \in MailAgents
        /\ fd[p] = "temp" => temp[Target(p)] # NoFile /\ (Target(p) \in mixed \/ temp[Target(p)] = <<>>)
        /\ fd[p] = "exported" => Target(p) \in mixed \/ exported[Target(p)] = <<>>
        /\ fd[p] # "gone" =>
              \A q \in MailProcs \ {p} : fd[q] = fd[p] /\ Target(q) = Target(p) => Target(p) \in mixed

FdsFit ==
    /\ fd \in [MailProcs -> Places] /\ mixed \subseteq MailAgents
    /\ single => mixed = {} /\ \A p \in MailProcs : fd[p] \in {"none", "temp"}
    /\ HoldersFit

MailInv == FilesFit /\ AloneFits /\ FdsFit

-----------------------------------------------------------------------------

\* Numbers up to a bound have a greatest.
LEMMA LastNumber ==
    ASSUME NEW T \in SUBSET Nat, T # {}, NEW bound \in Nat, \A m \in T : m <= bound
    PROVE  \E n \in T : \A m \in T : m <= n
<1> DEFINE Upper == {n \in Nat : \A m \in T : m <= n}
<1>1. bound \in Upper /\ Upper \in SUBSET Nat
  OBVIOUS
<1>2. PICK n \in Upper : \A m \in Upper : ~(m < n)
  <2> HIDE DEF Upper
  <2>1. PICK n \in Upper : \A m \in Upper : ~(<<m, n>> \in OpToRel(<, Nat))
    BY <1>1, WFMin, NatLessThanWellFounded
  <2> QED BY <1>1, <2>1 DEF OpToRel
<1>3. ASSUME n \notin T PROVE FALSE
  <2>1. \A m \in T : m <= n - 1
    BY <1>2, <1>3
  <2>2. PICK m \in T : m <= n - 1
    BY <2>1
  <2> QED BY <1>2, <2>1, <2>2
<1> QED BY <1>2, <1>3

LEMMA RowTyped ==
    ASSUME NEW r \in MailRow
    PROVE  /\ r.delivered \in Nat /\ r.delivered <= MaxMs /\ r.id.at \in Nat /\ r.id.at <= MaxMs
           /\ r.id.random \in Nat /\ r.id.random <= MaxRandom /\ r.id \in Id /\ r.to \in MailAgents
           /\ r.id = [at |-> r.id.at, random |-> r.id.random]
BY MailAssumption DEF MailRow, Id

LEMMA RowsAscend ==
    ASSUME NEW r \in MailRow, NEW s \in MailRow, RowBefore(r, s)
    PROVE  ~RowBefore(s, r)
<1>1. /\ r.delivered \in Nat /\ r.id.at \in Nat /\ r.id.random \in Nat
      /\ s.delivered \in Nat /\ s.id.at \in Nat /\ s.id.random \in Nat
  BY RowTyped
<1> QED BY <1>1 DEF RowBefore, IdBefore

\* Of rows whose ids differ one comes last.
LEMMA LastRow ==
    ASSUME NEW S, MailRowsFit(S), S # {}
    PROVE  \E r \in S : \A x \in S \ {r} : RowBefore(x, r)
<1>0. MaxMs \in Nat /\ MaxRandom \in Nat
  BY MailAssumption
<1>1. \A x \in S : /\ x.delivered \in Nat /\ x.delivered <= MaxMs /\ x.id.at \in Nat /\ x.id.at <= MaxMs
                   /\ x.id.random \in Nat /\ x.id.random <= MaxRandom
                   /\ x.id = [at |-> x.id.at, random |-> x.id.random]
  BY RowTyped DEF MailRowsFit
<1>2. PICK a \in S : \A x \in S : x.delivered <= a.delivered
  <2> DEFINE T == {x.delivered : x \in S}
  <2>1. T \in SUBSET Nat /\ T # {} /\ \A m \in T : m <= MaxMs
    BY <1>1
  <2> HIDE DEF T
  <2>2. PICK n \in T : \A m \in T : m <= n
    BY <1>0, <2>1, LastNumber
  <2> QED BY <2>2 DEF T
<1> DEFINE A == {x \in S : x.delivered = a.delivered}
<1>3. PICK b \in A : \A x \in A : x.id.at <= b.id.at
  <2> DEFINE T == {x.id.at : x \in A}
  <2>1. T \in SUBSET Nat /\ T # {} /\ \A m \in T : m <= MaxMs
    BY <1>1
  <2> HIDE DEF T
  <2>2. PICK n \in T : \A m \in T : m <= n
    BY <1>0, <2>1, LastNumber
  <2> QED BY <2>2 DEF T
<1> DEFINE B == {x \in A : x.id.at = b.id.at}
<1>4. PICK c \in B : \A x \in B : x.id.random <= c.id.random
  <2> DEFINE T == {x.id.random : x \in B}
  <2>1. T \in SUBSET Nat /\ T # {} /\ \A m \in T : m <= MaxRandom
    BY <1>1
  <2> HIDE DEF T
  <2>2. PICK n \in T : \A m \in T : m <= n
    BY <1>0, <2>1, LastNumber
  <2> QED BY <2>2 DEF T
<1>5. ASSUME NEW x \in S \ {c} PROVE RowBefore(x, c)
  <2>1. c \in S /\ c.delivered = a.delivered /\ c.id.at = b.id.at /\ x.delivered <= a.delivered
    BY <1>2
  <2>0. /\ x.delivered \in Nat /\ a.delivered \in Nat /\ x.id.at \in Nat /\ b.id.at \in Nat
        /\ x.id.random \in Nat /\ c.id.random \in Nat
        /\ x.id = [at |-> x.id.at, random |-> x.id.random] /\ c.id = [at |-> c.id.at, random |-> c.id.random]
    <3>1. a \in S /\ b \in S /\ c \in S /\ x \in S
      OBVIOUS
    <3> QED BY <1>1, <3>1
  <2>2. CASE x.delivered < a.delivered
    BY <2>1, <2>2 DEF RowBefore
  <2>3. CASE x.delivered = a.delivered
    <3>1. x.id.at <= b.id.at
      BY <1>3, <2>3
    <3>2. CASE x.id.at < b.id.at
      BY <2>1, <2>3, <3>2 DEF RowBefore, IdBefore
    <3>3. CASE x.id.at = b.id.at
      <4>1. x.id.random <= c.id.random
        BY <1>4, <2>3, <3>3
      <4>2. x.id.random # c.id.random
        <5>1. x.id # c.id
          BY <2>1 DEF MailRowsFit
        <5>2. x.id.at = c.id.at
          BY <2>1, <3>3
        <5> QED BY <2>0, <5>1, <5>2
      <4>3. x.id.random < c.id.random
        BY <2>0, <4>1, <4>2
      <4> QED BY <2>1, <2>3, <3>3, <4>3 DEF RowBefore, IdBefore
    <3> QED BY <2>0, <3>1, <3>2, <3>3
  <2> QED BY <2>0, <2>1, <2>2, <2>3
<1> QED BY <1>5

\* q is the rows S, in order.
Lines(q, S) == q \in [1..Cardinality(S) -> S] /\ \A i, j \in DOMAIN q : i < j => RowBefore(q[i], q[j])

LEMMA LinesCover ==
    ASSUME NEW S, MailRowsFit(S), NEW q, Lines(q, S)
    PROVE  \A x \in S : \E i \in DOMAIN q : q[i] = x
<1> DEFINE n == Cardinality(S)
<1>1. n \in Nat /\ IsFiniteSet(S) /\ IsFiniteSet(1..n) /\ Cardinality(1..n) = n
  BY FS_CardinalityType, FS_Interval DEF MailRowsFit
<1>2. q \in [1..n -> S] /\ DOMAIN q = 1..n
  BY DEF Lines
<1> HIDE DEF n
<1>3. \A i, j \in 1..n : q[i] = q[j] => i = j
  <2> SUFFICES ASSUME NEW i \in 1..n, NEW j \in 1..n, q[i] = q[j], i < j PROVE FALSE
    BY <1>1
  <2>1. RowBefore(q[i], q[j]) /\ q[i] \in MailRow
    BY <1>2 DEF Lines, MailRowsFit
  <2> QED BY <2>1, RowsAscend
<1>4. q \in Injection(1..n, S)
  BY <1>2, <1>3 DEF Injection, IsInjective
<1>5. q \in Surjection(1..n, S)
  BY <1>1, <1>4, FS_Injection DEF n
<1> QED BY <1>2, <1>5 DEF Surjection

\* A row behind all others is the last line.
LEMMA LinesGrow ==
    ASSUME NEW S, MailRowsFit(S), NEW q, Lines(q, S), NEW r, r \notin S, \A x \in S : RowBefore(x, r)
    PROVE  Lines(Append(q, r), S \cup {r})
<1> DEFINE n == Cardinality(S)
           more == Append(q, r)
<1>1. n \in Nat /\ Cardinality(S \cup {r}) = n + 1
  BY FS_CardinalityType, FS_AddElement DEF MailRowsFit
<1>2. q \in [1..n -> S] /\ DOMAIN q = 1..n /\ \A i, j \in 1..n : i < j => RowBefore(q[i], q[j])
  BY DEF Lines
<1> HIDE DEF n
<1>3. q \in Seq(S) /\ Len(q) = n
  BY <1>1, <1>2
<1>4. /\ DOMAIN more = 1..(n + 1) /\ more[n + 1] = r /\ \A i \in 1..n : more[i] = q[i]
      /\ more \in Seq(S \cup {r})
  BY <1>1, <1>2, <1>3
<1> HIDE DEF more
<1>5. more \in [1..(n + 1) -> S \cup {r}]
  <2>1. Len(more) = n + 1
    BY <1>1, <1>4
  <2> QED BY <1>4, <2>1
<1>6. \A i, j \in 1..(n + 1) : i < j => RowBefore(more[i], more[j])
  <2> SUFFICES ASSUME NEW i \in 1..(n + 1), NEW j \in 1..(n + 1), i < j PROVE RowBefore(more[i], more[j])
    OBVIOUS
  <2>1. i \in 1..n /\ more[i] = q[i] /\ q[i] \in S
    BY <1>1, <1>2, <1>4
  <2>2. CASE j \in 1..n
    BY <1>2, <1>4, <2>1, <2>2
  <2>3. CASE j = n + 1
    BY <1>4, <2>1, <2>3
  <2> QED BY <1>1, <2>2, <2>3
<1>7. Lines(more, S \cup {r})
  BY <1>1, <1>4, <1>5, <1>6 DEF Lines
<1> QED BY <1>7 DEF more

\* Rows whose ids differ can be listed.
LEMMA RowsListed ==
    ASSUME NEW S, MailRowsFit(S)
    PROVE  \E q : Lines(q, S)
<1> DEFINE Without == {n \in Nat : \E T : MailRowsFit(T) /\ Cardinality(T) = n /\ ~ \E q : Lines(q, T)}
<1>1. ASSUME Without # {} PROVE FALSE
  <2>1. PICK n \in Without : \A m \in Without : ~(m < n)
    <3>1. Without \in SUBSET Nat
      OBVIOUS
    <3> HIDE DEF Without
    <3>2. PICK n \in Without : \A m \in Without : ~(<<m, n>> \in OpToRel(<, Nat))
      BY <1>1, <3>1, WFMin, NatLessThanWellFounded
    <3> QED BY <3>1, <3>2 DEF OpToRel
  <2>2. PICK T : MailRowsFit(T) /\ Cardinality(T) = n /\ ~ \E q : Lines(q, T)
    OBVIOUS
  <2>3. CASE T = {}
    <3>1. Cardinality(T) = 0
      BY <2>3, FS_EmptySet
    <3>2. Lines(<<>>, T)
      BY <2>3, <3>1 DEF Lines
    <3> QED BY <2>2, <3>2
  <2>4. CASE T # {}
    <3>1. PICK r \in T : \A x \in T \ {r} : RowBefore(x, r)
      BY <2>2, <2>4, LastRow
    <3>2. MailRowsFit(T \ {r}) /\ Cardinality(T \ {r}) = n - 1 /\ n - 1 \in Nat /\ n - 1 < n
      <4>1. IsFiniteSet(T) /\ IsFiniteSet(T \ {r}) /\ Cardinality(T \ {r}) = n - 1
        BY <2>2, FS_RemoveElement DEF MailRowsFit
      <4>2. n \in Nat /\ n - 1 \in Nat
        BY <4>1, FS_CardinalityType
      <4> QED BY <2>2, <4>1, <4>2 DEF MailRowsFit
    <3>3. PICK q : Lines(q, T \ {r})
      BY <2>1, <3>2
    <3>4. Lines(Append(q, r), (T \ {r}) \cup {r})
      BY <3>1, <3>2, <3>3, LinesGrow
    <3>5. (T \ {r}) \cup {r} = T
      OBVIOUS
    <3> QED BY <2>2, <3>4, <3>5
  <2> QED BY <2>3, <2>4
<1>2. Cardinality(S) \in Nat
  BY FS_CardinalityType DEF MailRowsFit
<1> QED BY <1>1, <1>2

LEMMA LinesUnique ==
    ASSUME NEW S, MailRowsFit(S), NEW p, NEW q, Lines(p, S), Lines(q, S)
    PROVE  p = q
<1> DEFINE n == Cardinality(S)
<1>1. n \in Nat
  BY FS_CardinalityType DEF MailRowsFit
<1>2. /\ p \in [1..n -> S] /\ DOMAIN p = 1..n /\ q \in [1..n -> S] /\ DOMAIN q = 1..n
      /\ \A i \in 1..n : p[i] \in MailRow /\ q[i] \in MailRow
      /\ \A i, j \in 1..n : i < j => RowBefore(p[i], p[j]) /\ RowBefore(q[i], q[j])
  BY DEF Lines, MailRowsFit
<1>3. (\A x \in S : \E i \in 1..n : p[i] = x) /\ (\A x \in S : \E i \in 1..n : q[i] = x)
  <2>1. DOMAIN p = 1..n /\ DOMAIN q = 1..n
    BY <1>2
  <2> HIDE DEF n
  <2>2. \A x \in S : \E i \in DOMAIN p : p[i] = x
    BY LinesCover
  <2>3. \A x \in S : \E i \in DOMAIN q : q[i] = x
    BY LinesCover
  <2> QED BY <2>1, <2>2, <2>3
<1> HIDE DEF n
<1> DEFINE Differ == {k \in 1..n : p[k] # q[k]}
<1>4. CASE Differ = {}
  <2>1. \A k \in 1..n : p[k] = q[k]
    BY <1>4
  <2>2. p = [k \in 1..n |-> p[k]] /\ q = [k \in 1..n |-> q[k]]
    BY <1>2
  <2>3. [k \in 1..n |-> p[k]] = [k \in 1..n |-> q[k]]
    BY <2>1
  <2> QED BY <2>2, <2>3
<1>5. CASE Differ # {}
  <2>1. PICK k \in Differ : \A j \in Differ : ~(j < k)
    <3>1. Differ \in SUBSET Nat
      OBVIOUS
    <3> HIDE DEF Differ
    <3>2. PICK k \in Differ : \A j \in Differ : ~(<<j, k>> \in OpToRel(<, Nat))
      BY <1>5, <3>1, WFMin, NatLessThanWellFounded
    <3> QED BY <3>1, <3>2 DEF OpToRel
  <2>2. k \in 1..n /\ p[k] # q[k] /\ \A j \in 1..n : j < k => p[j] = q[j]
    BY <2>1
  <2>3. PICK i \in 1..n : q[i] = p[k]
    BY <1>2, <1>3, <2>2
  <2>4. PICK j \in 1..n : p[j] = q[k]
    BY <1>2, <1>3, <2>2
  <2>5. ASSUME i < k PROVE FALSE
    <3>1. p[i] = p[k] /\ RowBefore(p[i], p[k])
      BY <1>2, <2>2, <2>3, <2>5
    <3> QED BY <1>2, <2>2, <3>1, RowsAscend
  <2>6. ASSUME j < k PROVE FALSE
    <3>1. q[j] = q[k] /\ RowBefore(q[j], q[k])
      BY <1>2, <2>2, <2>4, <2>6
    <3> QED BY <1>2, <2>2, <3>1, RowsAscend
  <2>7. k < i /\ k < j
    BY <1>1, <2>2, <2>3, <2>4, <2>5, <2>6
  <2>8. RowBefore(q[k], p[k]) /\ RowBefore(p[k], q[k])
    BY <1>2, <2>2, <2>3, <2>4, <2>7
  <2> QED BY <1>2, <2>2, <2>8, RowsAscend
<1> QED BY <1>4, <1>5

LEMMA RowsToFits ==
    ASSUME NEW messages, MailRowsFit(messages), NEW agent
    PROVE  LET batch == {r \in messages : r.to = agent} IN
           /\ MailRowsFit(batch) /\ Lines(RowsTo(agent, messages), batch)
           /\ RowsTo(agent, messages) \in Seq(batch) /\ RowsTo(agent, messages) \in Seq(MailRow)
<1> DEFINE batch == {r \in messages : r.to = agent}
<1>1. MailRowsFit(batch)
  BY FS_Subset DEF MailRowsFit
<1>2. \E q : Lines(q, batch)
  <2> HIDE DEF batch
  <2> QED BY <1>1, RowsListed
<1>3. RowsTo(agent, messages) = CHOOSE q \in [1..Cardinality(batch) -> batch] : \A i, j \in DOMAIN q : i < j => RowBefore(q[i], q[j])
  BY DEF RowsTo
<1>4. Cardinality(batch) \in Nat /\ batch \subseteq MailRow
  BY <1>1, FS_CardinalityType DEF MailRowsFit
<1> HIDE DEF batch
<1>5. Lines(RowsTo(agent, messages), batch)
  BY <1>2, <1>3 DEF Lines
<1>6. RowsTo(agent, messages) \in Seq(batch) /\ RowsTo(agent, messages) \in Seq(MailRow)
  BY <1>4, <1>5 DEF Lines
<1> QED BY <1>1, <1>5, <1>6 DEF batch

\* A row behind all others is written at the end of its agent's lines.
LEMMA RowsToGrows ==
    ASSUME NEW messages, MailRowsFit(messages), NEW row, row \notin messages, MailRowsFit(messages \cup {row}),
           \A x \in messages : RowBefore(x, row), NEW agent
    PROVE  RowsTo(agent, messages \cup {row}) = Plus(RowsTo(agent, messages), agent, row)
<1> DEFINE batch == {r \in messages : r.to = agent}
           more == {r \in messages \cup {row} : r.to = agent}
<1>1. MailRowsFit(batch) /\ Lines(RowsTo(agent, messages), batch)
  BY RowsToFits
<1>2. MailRowsFit(more) /\ Lines(RowsTo(agent, messages \cup {row}), more)
  BY RowsToFits
<1>3. CASE row.to = agent
  <2>1. more = batch \cup {row} /\ row \notin batch /\ \A x \in batch : RowBefore(x, row)
    BY <1>3
  <2> HIDE DEF batch, more
  <2>2. Lines(Append(RowsTo(agent, messages), row), more)
    BY <1>1, <2>1, LinesGrow
  <2> QED BY <1>2, <1>3, <2>2, LinesUnique DEF Plus
<1>4. CASE row.to # agent
  <2>1. more = batch
    BY <1>4
  <2> HIDE DEF batch, more
  <2> QED BY <1>1, <1>2, <1>4, <2>1, LinesUnique DEF Plus
<1> QED BY <1>3, <1>4

LEMMA NoRowsTo ==
    ASSUME NEW messages, MailRowsFit(messages), NEW agent, \A r \in messages : r.to # agent
    PROVE  RowsTo(agent, messages) = <<>>
<1> DEFINE batch == {r \in messages : r.to = agent}
<1>1. batch = {} /\ RowsTo(agent, messages) \in Seq(batch)
  BY RowsToFits
<1> HIDE DEF batch
<1> QED BY <1>1

-----------------------------------------------------------------------------

LEMMA DoingKinds ==
    ASSUME NEW now, DoingTyped(now)
    PROVE  /\ now.kind = "append" => now \in Appender
           /\ now.kind = "reconcile" => now \in Reconciler
           /\ now.kind \in {"resting", "booting", "append", "reconcile"}
           /\ now.kind = "resting" => now = Resting
           /\ now.kind = "booting" => now = Booting
BY DEF DoingTyped, Resting, Booting

\* No message leaves the table.
Kept == (\A r \in mail : \E s \in mail' : s.id = r.id /\ s.to = r.to) /\ mixed \subseteq mixed'

LEMMA KnownStays ==
    ASSUME Kept
    PROVE  /\ \A agent, row : Known(agent, row) => Known(agent, row)'
           /\ \A agent, q : LinesFit(agent, q) => LinesFit(agent, q)'
           /\ \A now : DoingFits(now) => DoingFits(now)'
<1>1. \A agent, row : Known(agent, row) => Known(agent, row)'
  BY DEF Kept, Known
<1>2. \A agent, q : LinesFit(agent, q) => LinesFit(agent, q)'
  BY <1>1 DEF LinesFit, LineFits, Kept
<1>3. \A now : DoingFits(now) => DoingFits(now)'
  BY <1>1, <1>2 DEF DoingFits
<1> QED BY <1>1, <1>2, <1>3

\* An agent whose temporary file was never opened twice has whole lines.
LEMMA WholeLines ==
    ASSUME NEW agent, agent \notin mixed, NEW q, LinesFit(agent, q)
    PROVE  q \in Seq(MailRow) /\ \A k \in DOMAIN q : Known(agent, q[k])
<1>1. \A k \in DOMAIN q : q[k] \in MailRow /\ Known(agent, q[k])
  BY DEF LinesFit, LineFits
<1>2. q \in Seq(Line)
  BY DEF LinesFit
<1> QED BY <1>1, <1>2

LEMMA AloneWhole ==
    ASSUME FilesFit, FdsFit, single, NEW a \in MailAgents
    PROVE  exported[a] \in Seq(MailRow) /\ \A k \in DOMAIN exported[a] : Known(a, exported[a][k])
<1>1. LinesFit(a, exported[a]) /\ a \notin mixed
  BY DEF FilesFit, FdsFit
<1> QED BY <1>1, WholeLines

\* Whole lines of the agent's messages fit.
LEMMA MailLinesFit ==
    ASSUME NEW agent, NEW q \in Seq(MailRow), \A k \in DOMAIN q : Known(agent, q[k])
    PROVE  LinesFit(agent, q)
<1>1. \A k \in DOMAIN q : q[k] \in MailRow /\ q[k] # Torn
  BY MailAssumption
<1>2. q \in Seq(Line)
  BY DEF Line
<1> QED BY <1>1, <1>2 DEF LinesFit, LineFits

\* A line at the end, and lines after lines.
LEMMA LinesJoin ==
    ASSUME NEW agent, NEW p, NEW q, LinesFit(agent, p), LinesFit(agent, q)
    PROVE  LinesFit(agent, p \o q)
<1>1. p \in Seq(Line) /\ q \in Seq(Line)
  BY DEF LinesFit
<1>2. /\ p \o q \in Seq(Line) /\ DOMAIN (p \o q) = 1..(Len(p) + Len(q)) /\ Len(p) \in Nat /\ Len(q) \in Nat
      /\ \A k \in 1..(Len(p) + Len(q)) : (p \o q)[k] = IF k <= Len(p) THEN p[k] ELSE q[k - Len(p)]
  BY <1>1
<1>3. ASSUME NEW k \in 1..(Len(p) + Len(q)) PROVE LineFits(agent, (p \o q)[k])
  <2>1. PICK line : line = (p \o q)[k]
    OBVIOUS
  <2>2. LineFits(agent, line)
    <3>1. CASE k <= Len(p)
      <4>1. line = p[k] /\ k \in DOMAIN p
        BY <1>1, <1>2, <2>1, <3>1
      <4> QED BY <4>1 DEF LinesFit
    <3>2. CASE ~(k <= Len(p))
      <4>1. line = q[k - Len(p)] /\ k - Len(p) \in DOMAIN q
        BY <1>1, <1>2, <2>1, <3>2
      <4> QED BY <4>1 DEF LinesFit
    <3> QED BY <3>1, <3>2
  <2> QED BY <2>1, <2>2
<1> QED BY <1>2, <1>3 DEF LinesFit

LEMMA LineAdded ==
    ASSUME NEW agent, NEW q, LinesFit(agent, q), NEW row \in MailRow, Known(agent, row)
    PROVE  LinesFit(agent, Append(q, row))
<1>1. <<row>> \in Seq(MailRow) /\ \A k \in DOMAIN <<row>> : <<row>>[k] = row
  OBVIOUS
<1>2. LinesFit(agent, <<row>>)
  <2>1. ASSUME NEW k \in DOMAIN <<row>> PROVE Known(agent, <<row>>[k])
    <3>1. <<row>>[k] = row
      BY <1>1
    <3> QED BY <3>1
  <2> QED BY <1>1, <2>1, MailLinesFit
<1>3. Append(q, row) = q \o <<row>>
  <2>1. q \in Seq(Line) /\ row \in Line
    BY DEF LinesFit, Line
  <2> QED BY <2>1
<1> QED BY <1>2, <1>3, LinesJoin

\* What stays behind a write fits where there was nothing, or two processes wrote.
LEMMA RemainsFit ==
    ASSUME NEW agent, NEW old, LinesFit(agent, old), old = <<>> \/ agent \in mixed, NEW rest \in Remains(old)
    PROVE  LinesFit(agent, rest) /\ (old = <<>> => rest = <<>>)
<1>1. LinesFit(agent, <<>>)
  BY DEF LinesFit
<1>2. old \in Seq(Line) /\ Len(old) \in Nat /\ DOMAIN old = 1..Len(old)
  BY DEF LinesFit
<1>3. rest = <<>> \/ \E torn \in {<<>>, <<Torn>>}, k \in 2..(Len(old) + 1) : rest = torn \o SubSeq(old, k, Len(old))
  BY DEF Remains
<1>4. CASE rest = <<>>
  BY <1>1, <1>4
<1>5. ASSUME NEW torn \in {<<>>, <<Torn>>}, NEW k \in 2..(Len(old) + 1), rest = torn \o SubSeq(old, k, Len(old))
      PROVE  LinesFit(agent, rest) /\ (old = <<>> => rest = <<>>)
  <2>1. old # <<>> /\ agent \in mixed
    <3>1. Len(old) # 0
      BY <1>2
    <3> QED BY <3>1
  <2>2. LinesFit(agent, torn)
    <3>1. LineFits(agent, Torn)
      BY <2>1 DEF LineFits
    <3>2. <<Torn>> \in Seq(Line) /\ \A n \in DOMAIN <<Torn>> : <<Torn>>[n] = Torn
      BY DEF Line
    <3>3. LinesFit(agent, <<Torn>>)
      BY <3>1, <3>2 DEF LinesFit
    <3> QED BY <1>1, <3>3
  <2> DEFINE tail == SubSeq(old, k, Len(old))
  <2>3. LinesFit(agent, tail)
    <3>1. /\ tail \in Seq(Line) /\ DOMAIN tail = 1..(Len(old) - k + 1)
          /\ \A n \in 1..(Len(old) - k + 1) : tail[n] = old[k + n - 1] /\ k + n - 1 \in DOMAIN old
      BY <1>2
    <3> HIDE DEF tail
    <3>2. ASSUME NEW n \in DOMAIN tail PROVE LineFits(agent, tail[n])
      <4>1. tail[n] = old[k + n - 1] /\ k + n - 1 \in DOMAIN old
        BY <3>1
      <4>2. PICK line : line = old[k + n - 1]
        OBVIOUS
      <4>3. LineFits(agent, line)
        BY <4>1, <4>2 DEF LinesFit
      <4> QED BY <4>1, <4>2, <4>3
    <3> QED BY <3>1, <3>2 DEF LinesFit
  <2> HIDE DEF tail
  <2>4. LinesFit(agent, torn \o tail)
    BY <2>2, <2>3, LinesJoin
  <2> QED BY <1>5, <2>1, <2>4 DEF tail
<1> QED BY <1>3, <1>4, <1>5

\* What a step may change of the files, of the table and of one process.
LEMMA FilesStay ==
    ASSUME FilesFit, Kept, MailRowsFit(mail'), single' = single, strayed' \in BOOLEAN, ms' \in 0..MaxMs,
           lastId' \in [MailProcs -> LastId],
           DOMAIN exported' = MailAgents,
           \A a \in MailAgents : exported'[a] = exported[a] \/ LinesFit(a, exported'[a]),
           DOMAIN temp' = MailAgents,
           \A a \in MailAgents : temp'[a] \in {temp[a], NoFile} \/ LinesFit(a, temp'[a]),
           NEW p \in MailProcs, NEW now,
           doing' = doing \/ (doing' = [doing EXCEPT ![p] = now] /\ DoingTyped(now) /\ DoingFits(now)')
    PROVE  FilesFit'
<1>1. \A agent, q : LinesFit(agent, q) => LinesFit(agent, q)'
  BY KnownStays
<1>2. \A a \in MailAgents : LinesFit(a, exported'[a])
  BY DEF FilesFit
<1>3. \A a \in MailAgents : temp'[a] # NoFile => LinesFit(a, temp'[a])
  BY DEF FilesFit
<1>4. \A a \in MailAgents : LinesFit(a, exported[a])' /\ (temp'[a] # NoFile => LinesFit(a, temp[a])')
  BY <1>2, <1>3 DEF LinesFit, LineFits, Known, Kept
<1>5. doing' = [q \in MailProcs |-> doing'[q]] /\ \A q \in MailProcs : DoingTyped(doing'[q]) /\ DoingFits(doing[q])'
  <2>1. \A q \in MailProcs : DoingTyped(doing[q]) /\ DoingFits(doing[q]) /\ doing = [k \in MailProcs |-> doing[k]]
    BY DEF FilesFit
  <2>2. CASE doing' = doing
    BY <2>1, <2>2, KnownStays
  <2>3. CASE doing' = [doing EXCEPT ![p] = now] /\ DoingTyped(now) /\ DoingFits(now)'
    <3>1. doing'[p] = now /\ \A q \in MailProcs \ {p} : doing'[q] = doing[q]
      BY <2>1, <2>3
    <3>2. \A q \in MailProcs \ {p} : DoingTyped(doing'[q]) /\ DoingFits(doing[q])'
      <4> SUFFICES ASSUME NEW q \in MailProcs \ {p} PROVE DoingTyped(doing'[q]) /\ DoingFits(doing[q])'
        OBVIOUS
      <4>1. DoingFits(doing[q]) /\ doing'[q] = doing[q] /\ DoingTyped(doing[q])
        BY <2>1, <3>1
      <4>2. PICK was : was = doing[q]
        OBVIOUS
      <4>3. DoingFits(was)'
        BY <4>1, <4>2, KnownStays
      <4>4. doing'[q] = was
        BY <4>1, <4>2
      <4> QED BY <4>1, <4>3, <4>4
    <3>3. DoingTyped(doing'[p]) /\ DoingFits(doing[p])'
      BY <2>3, <3>1
    <3>4. doing' = [q \in MailProcs |-> doing'[q]]
      BY <2>1, <2>3
    <3> QED BY <3>2, <3>3, <3>4
  <2> QED BY <2>2, <2>3
<1> QED BY <1>4, <1>5 DEF FilesFit

LEMMA ProcessTyped ==
    ASSUME FilesFit, NEW p \in MailProcs
    PROVE  /\ DoingTyped(doing[p]) /\ DoingFits(doing[p]) /\ DOMAIN doing = MailProcs
           /\ \A now : [doing EXCEPT ![p] = now][p] = now
           /\ \A now : \A q \in MailProcs \ {p} : [doing EXCEPT ![p] = now][q] = doing[q]
           /\ TheProcess \in MailProcs
           /\ Processes \subseteq MailProcs /\ (single => Processes = {TheProcess})
BY MailAssumption DEF FilesFit, TheProcess, Processes

\* The only process, where there is one.
LEMMA AloneProcess ==
    ASSUME MailInv, single, NEW p \in MailProcs, p \in Processes \/ doing[p] # Booting
    PROVE  /\ p = TheProcess /\ \A q \in MailProcs \ {p} : doing[q] = Booting
           /\ IdsAt(mail, lastId[p], ms)
           /\ ~strayed /\ doing[p].kind # "append" => \A a \in MailAgents : fileMatchesDb(a)
           /\ ~strayed /\ doing[p].kind = "append" => AppendFits(doing[p])
           /\ doing[p].kind = "reconcile" => ReconcileFits(doing[p])
<1>1. p = TheProcess
  BY ProcessTyped DEF MailInv, AloneFits
<1> QED BY <1>1 DEF MailInv, AloneFits

\* An append under way: the row it writes, and what it read.
LEMMA AppenderTyped ==
    ASSUME FilesFit, NEW p \in MailProcs, doing[p].kind = "append"
    PROVE  /\ doing[p] \in Appender /\ doing[p].rows \in Seq(MailRow) /\ doing[p].rows # <<>>
           /\ doing[p].rows[1] \in MailRow /\ doing[p].rows[1].to \in MailAgents
           /\ Known(doing[p].rows[1].to, doing[p].rows[1])
           /\ LinesFit(doing[p].rows[1].to, doing[p].lines)
           /\ \A k \in DOMAIN doing[p].rows : Known(doing[p].rows[k].to, doing[p].rows[k])
<1>1. DoingTyped(doing[p]) /\ DoingFits(doing[p])
  BY ProcessTyped
<1>2. doing[p] \in Appender
  BY <1>1, DoingKinds
<1>3. doing[p].rows \in Seq(MailRow) /\ doing[p].rows # <<>>
  BY <1>1, <1>2 DEF Appender, DoingFits
<1>4. doing[p].rows[1] \in MailRow /\ 1 \in DOMAIN doing[p].rows
  BY <1>3
<1>5. doing[p].rows[1].to \in MailAgents
  BY <1>4, RowTyped
<1> QED BY <1>1, <1>2, <1>3, <1>4, <1>5 DEF DoingFits

LEMMA AppendReadsStep ==
    ASSUME MailInv, NEW p \in MailProcs, NEW works \in BOOLEAN, AppendReads(p, works)
    PROVE  FilesFit' /\ AloneFits'
<1> DEFINE agent == doing[p].rows[1].to
           next == [doing[p] EXCEPT !.step = "write", !.lines = IF works THEN exported[agent] ELSE <<>>]
<1>0. PICK now : now = next
  OBVIOUS
<1>1. /\ doing[p].kind = "append" /\ doing' = [doing EXCEPT ![p] = now]
      /\ strayed' = (strayed \/ (~works /\ exported[agent] # <<>>))
      /\ UNCHANGED <<single, ms, mail, exported, temp, fd, lastId, mixed>>
  BY <1>0 DEF AppendReads
<1>2. FilesFit
  BY DEF MailInv
<1>3. /\ doing[p] \in Appender /\ agent \in MailAgents /\ DOMAIN doing = MailProcs /\ doing[p].rows # <<>>
      /\ \A k \in DOMAIN doing[p].rows : Known(doing[p].rows[k].to, doing[p].rows[k])
  BY <1>1, <1>2, AppenderTyped, ProcessTyped
<1>4. LinesFit(agent, exported[agent]) /\ LinesFit(agent, <<>>)
  BY <1>2, <1>3 DEF FilesFit, LinesFit
<1>5. /\ now \in Appender /\ now.kind = "append" /\ now.rows = doing[p].rows /\ now.step = "write"
      /\ now.lines = IF works THEN exported[agent] ELSE <<>>
  BY <1>0, <1>3, <1>4 DEF Appender, LinesFit
<1> HIDE DEF next
<1>6. DoingTyped(now) /\ DoingFits(now)
  BY <1>3, <1>4, <1>5 DEF DoingTyped, DoingFits
<1>7. FilesFit'
  <2>1. Kept /\ DoingFits(now)'
    <3>1. Kept
      BY <1>1 DEF Kept
    <3> QED BY <1>6, <3>1, KnownStays
  <2>2. MailRowsFit(mail') /\ strayed' \in BOOLEAN /\ ms' \in 0..MaxMs /\ lastId' \in [MailProcs -> LastId]
        /\ DOMAIN exported' = MailAgents /\ DOMAIN temp' = MailAgents
    BY <1>1, <1>2 DEF FilesFit
  <2> QED BY <1>1, <1>2, <1>6, <2>1, <2>2, FilesStay
<1>8. AloneFits'
  <2> SUFFICES ASSUME single PROVE AloneFits'
    BY <1>1 DEF AloneFits
  <2>1. p = TheProcess
    <3>1. doing[p] # Booting
      BY <1>1 DEF Booting
    <3> QED BY <3>1 DEF MailInv, AloneFits
  <2>2. doing'[p] = now /\ \A q \in MailProcs \ {p} : doing'[q] = doing[q]
    BY <1>1, <1>2, ProcessTyped
  <2>3. /\ \A q \in MailProcs \ {p} : doing[q] = Booting
        /\ IdsAt(mail, lastId[p], ms)
        /\ ~strayed => AppendFits(doing[p])
    BY <1>1, <2>1 DEF MailInv, AloneFits
  <2>4. ~strayed' => ~strayed /\ now.lines = exported[agent]
    BY <1>1, <1>5
  <2>5. ~strayed' => AppendFits(now)'
    BY <1>1, <1>5, <2>3, <2>4 DEF AppendFits, Owed, RowsTo
  <2> QED BY <1>1, <1>5, <2>1, <2>2, <2>3, <2>5 DEF AloneFits
<1> QED BY <1>7, <1>8 DEF MailInv

LEMMA OwedStays ==
    ASSUME mail' = mail, exported' = exported, NEW batch
    PROVE  Owed(batch)' <=> Owed(batch)
<1>1. \A a : RowsTo(a, mail)' = RowsTo(a, mail)
  BY DEF RowsTo
<1> QED BY <1>1 DEF Owed, Plus

\* Opening the temporary file empties it.
LEMMA OpenedFits ==
    ASSUME FilesFit, NEW p \in MailProcs, NEW agent \in MailAgents, Opened(p, agent)
    PROVE  /\ DOMAIN temp' = MailAgents /\ mixed \subseteq mixed'
           /\ \A a \in MailAgents : temp'[a] \in {temp[a], NoFile} \/ LinesFit(a, temp'[a])
<1>1. temp' = [temp EXCEPT ![agent] = <<>>] /\ DOMAIN temp = MailAgents /\ mixed \subseteq mixed'
  BY DEF Opened, FilesFit
<1>2. LinesFit(agent, <<>>)
  BY DEF LinesFit
<1> QED BY <1>1, <1>2

\* A write changes the one file the descriptor is of, and its lines fit; one process
\* writes the temporary file from its start.
LEMMA WrittenFits ==
    ASSUME FilesFit, FdsFit, NEW p \in MailProcs, fd[p] # "none", NEW lines, LinesFit(Target(p), lines),
           Written(p, Target(p), lines)
    PROVE  /\ DOMAIN exported' = MailAgents /\ DOMAIN temp' = MailAgents
           /\ \A a \in MailAgents : exported'[a] = exported[a] \/ LinesFit(a, exported'[a])
           /\ \A a \in MailAgents : temp'[a] = temp[a] \/ LinesFit(a, temp'[a])
           /\ fd[p] # "temp" => temp' = temp
           /\ fd[p] # "exported" => exported' = exported
           /\ \A a \in MailAgents \ {Target(p)} : exported'[a] = exported[a] /\ temp'[a] = temp[a]
           /\ single => exported' = exported /\ temp' = [temp EXCEPT ![Target(p)] = lines]
           /\ fd' = [fd EXCEPT ![p] = "none"]
<1> DEFINE agent == Target(p)
<1>1. /\ agent \in MailAgents /\ fd[p] \in Places /\ (single => fd[p] = "temp" /\ mixed = {})
      /\ fd[p] = "temp" => temp[agent] # NoFile /\ (agent \in mixed \/ temp[agent] = <<>>)
      /\ fd[p] = "exported" => agent \in mixed \/ exported[agent] = <<>>
  BY DEF FdsFit, HoldersFit
<1>2. DOMAIN exported = MailAgents /\ DOMAIN temp = MailAgents
  BY DEF FilesFit
<1>3. LinesFit(agent, exported[agent]) /\ (temp[agent] # NoFile => LinesFit(agent, temp[agent]))
  BY <1>1 DEF FilesFit
<1>4. fd' = [fd EXCEPT ![p] = "none"] /\ LinesFit(agent, lines) /\ Written(p, agent, lines)
  BY DEF Written
<1>5. lines \in Seq(Line)
  BY <1>4 DEF LinesFit
<1> HIDE DEF agent
<1>6. CASE fd[p] = "temp"
  <2>1. exported' = exported /\ \E rest \in Remains(temp[agent]) : temp' = [temp EXCEPT ![agent] = lines \o rest]
    BY <1>4, <1>6 DEF Written
  <2>2. PICK rest \in Remains(temp[agent]) : temp' = [temp EXCEPT ![agent] = lines \o rest]
    BY <2>1
  <2>3. LinesFit(agent, rest) /\ (temp[agent] = <<>> => rest = <<>>)
    BY <1>1, <1>3, <1>6, RemainsFit
  <2>4. LinesFit(agent, lines \o rest)
    BY <1>4, <2>3, LinesJoin
  <2>5. single => lines \o rest = lines
    <3>1. single => rest = <<>>
      BY <1>1, <1>6, <2>3
    <3>2. lines \o <<>> = lines
      BY <1>5
    <3> QED BY <3>1, <3>2
  <2>6. PICK new : new = lines \o rest
    OBVIOUS
  <2>7. /\ temp' = [temp EXCEPT ![agent] = new] /\ LinesFit(agent, new) /\ (single => new = lines)
    BY <2>2, <2>4, <2>5, <2>6
  <2> QED BY <1>1, <1>2, <1>4, <1>6, <2>1, <2>7 DEF agent
<1>7. CASE fd[p] = "exported"
  <2>1. temp' = temp /\ \E rest \in Remains(exported[agent]) : exported' = [exported EXCEPT ![agent] = lines \o rest]
    BY <1>4, <1>7 DEF Written
  <2>2. PICK rest \in Remains(exported[agent]) : exported' = [exported EXCEPT ![agent] = lines \o rest]
    BY <2>1
  <2>3. LinesFit(agent, rest)
    BY <1>1, <1>3, <1>7, RemainsFit
  <2>4. LinesFit(agent, lines \o rest)
    BY <1>4, <2>3, LinesJoin
  <2>6. PICK new : new = lines \o rest
    OBVIOUS
  <2>7. /\ exported' = [exported EXCEPT ![agent] = new] /\ LinesFit(agent, new) /\ ~single
    BY <1>1, <1>7, <2>2, <2>4, <2>6
  <2> QED BY <1>1, <1>2, <1>4, <1>7, <2>1, <2>7 DEF agent
<1>8. CASE fd[p] = "gone"
  <2>1. temp' = temp /\ exported' = exported /\ ~single
    BY <1>1, <1>4, <1>8 DEF Written
  <2> QED BY <1>2, <1>4, <1>8, <2>1
<1> QED BY <1>1, <1>6, <1>7, <1>8 DEF Places

LEMMA AppendOpensStep ==
    ASSUME MailInv, NEW p \in MailProcs, AppendOpens(p)
    PROVE  FilesFit' /\ AloneFits'
<1> DEFINE agent == doing[p].rows[1].to
<1>1. /\ doing[p].kind = "append" /\ doing[p].step = "write" /\ Opened(p, agent)
      /\ UNCHANGED <<single, ms, mail, exported, lastId, doing, strayed>>
  BY DEF AppendOpens
<1>2. FilesFit
  BY DEF MailInv
<1>3. agent \in MailAgents
  BY <1>1, <1>2, AppenderTyped
<1> HIDE DEF agent
<1>4. /\ DOMAIN temp' = MailAgents /\ mixed \subseteq mixed'
      /\ \A a \in MailAgents : temp'[a] \in {temp[a], NoFile} \/ LinesFit(a, temp'[a])
  BY <1>1, <1>2, <1>3, OpenedFits
<1>5. FilesFit'
  <2>1. Kept
    BY <1>1, <1>4 DEF Kept
  <2>2. MailRowsFit(mail') /\ strayed' \in BOOLEAN /\ ms' \in 0..MaxMs /\ lastId' \in [MailProcs -> LastId]
        /\ DOMAIN exported' = MailAgents
    BY <1>1, <1>2 DEF FilesFit
  <2> QED BY <1>1, <1>2, <1>4, <2>1, <2>2, FilesStay
<1>6. AloneFits'
  <2> SUFFICES ASSUME single PROVE AloneFits'
    BY <1>1 DEF AloneFits
  <2>1. /\ p = TheProcess /\ \A q \in MailProcs \ {p} : doing[q] = Booting
        /\ IdsAt(mail, lastId[p], ms)
        /\ ~strayed => AppendFits(doing[p])
    BY <1>1, AloneProcess DEF Booting
  <2>2. PICK now : now = doing[p]
    OBVIOUS
  <2>3. ~strayed' => AppendFits(now)'
    <3>1. now.step = "write" /\ (~strayed => Owed(now.rows) /\ now.lines = exported[now.rows[1].to])
      BY <1>1, <2>1, <2>2 DEF AppendFits
    <3>2. Owed(now.rows)' <=> Owed(now.rows)
      BY <1>1, OwedStays
    <3> QED BY <1>1, <3>1, <3>2 DEF AppendFits
  <2>4. doing'[p] = now /\ now.kind = "append" /\ IdsAt(mail, lastId[p], ms)'
    BY <1>1, <2>1, <2>2 DEF IdsAt
  <2> QED BY <1>1, <2>1, <2>3, <2>4 DEF AloneFits
<1> QED BY <1>5, <1>6

LEMMA AppendWritesStep ==
    ASSUME MailInv, NEW p \in MailProcs, AppendWrites(p)
    PROVE  FilesFit' /\ AloneFits'
<1> DEFINE agent == doing[p].rows[1].to
           line == Append(doing[p].lines, doing[p].rows[1])
           next == [doing[p] EXCEPT !.step = "rename"]
<1>0. PICK now : now = next
  OBVIOUS
<1>1. /\ doing[p].kind = "append" /\ doing[p].step = "write" /\ doing' = [doing EXCEPT ![p] = now]
      /\ fd[p] # "none" /\ Written(p, agent, line)
      /\ UNCHANGED <<single, ms, mail, lastId, strayed, mixed>>
  BY <1>0 DEF AppendWrites
<1>2. FilesFit /\ FdsFit
  BY DEF MailInv
<1>3. /\ doing[p] \in Appender /\ agent \in MailAgents /\ DOMAIN doing = MailProcs /\ doing[p].rows # <<>>
      /\ \A k \in DOMAIN doing[p].rows : Known(doing[p].rows[k].to, doing[p].rows[k])
      /\ doing[p].rows[1] \in MailRow
      /\ Known(agent, doing[p].rows[1]) /\ LinesFit(agent, doing[p].lines) /\ DoingFits(doing[p])
  BY <1>1, <1>2, AppenderTyped, ProcessTyped
<1>4. LinesFit(agent, line) /\ Target(p) = agent
  BY <1>1, <1>3, LineAdded DEF Target
<1>5. /\ now \in Appender /\ now.kind = "append" /\ now.rows = doing[p].rows /\ now.step = "rename"
      /\ now.lines = doing[p].lines
  BY <1>0, <1>3 DEF Appender
<1> HIDE DEF next
<1>6. DoingTyped(now) /\ DoingFits(now)
  BY <1>3, <1>5 DEF DoingTyped, DoingFits
<1>9. /\ DOMAIN exported' = MailAgents /\ DOMAIN temp' = MailAgents
      /\ \A a \in MailAgents : exported'[a] = exported[a] \/ LinesFit(a, exported'[a])
      /\ \A a \in MailAgents : temp'[a] = temp[a] \/ LinesFit(a, temp'[a])
      /\ single => exported' = exported /\ temp' = [temp EXCEPT ![agent] = line]
  <2> HIDE DEF agent, line
  <2> QED BY <1>1, <1>2, <1>4, WrittenFits
<1>7. FilesFit'
  <2>1. Kept /\ DoingFits(now)'
    <3>1. Kept
      BY <1>1 DEF Kept
    <3> QED BY <1>6, <3>1, KnownStays
  <2>2. MailRowsFit(mail') /\ strayed' \in BOOLEAN /\ ms' \in 0..MaxMs /\ lastId' \in [MailProcs -> LastId]
    BY <1>1, <1>2 DEF FilesFit
  <2> QED BY <1>1, <1>2, <1>6, <1>9, <2>1, <2>2, FilesStay
<1>8. AloneFits'
  <2> SUFFICES ASSUME single PROVE AloneFits'
    BY <1>1 DEF AloneFits
  <2>1. p = TheProcess
    <3>1. doing[p] # Booting
      BY <1>1 DEF Booting
    <3> QED BY <3>1 DEF MailInv, AloneFits
  <2>2. doing'[p] = now /\ \A q \in MailProcs \ {p} : doing'[q] = doing[q]
    BY <1>1, <1>2, ProcessTyped
  <2>3. /\ \A q \in MailProcs \ {p} : doing[q] = Booting
        /\ IdsAt(mail, lastId[p], ms)
        /\ ~strayed => AppendFits(doing[p])
    BY <1>1, <2>1 DEF MailInv, AloneFits
  <2>4. ~strayed' => temp'[agent] = Append(exported[agent], doing[p].rows[1])
    <3>1. DOMAIN temp = MailAgents
      BY <1>2 DEF FilesFit
    <3> QED BY <1>1, <1>3, <1>9, <2>3, <3>1 DEF AppendFits
  <2>5. ~strayed' => AppendFits(now)'
    <3>1. mail' = mail /\ exported' = exported /\ now.step = "rename" /\ now.rows[1] = doing[p].rows[1]
      BY <1>1, <1>5, <1>9
    <3>2. ~strayed => Owed(now.rows)
      BY <1>5, <2>3 DEF AppendFits
    <3>3. Owed(now.rows)' <=> Owed(now.rows)
      BY <3>1, OwedStays
    <3>4. ~strayed' => temp'[now.rows[1].to] = Append(exported'[now.rows[1].to], now.rows[1])
      BY <2>4, <3>1
    <3> QED BY <1>1, <3>1, <3>2, <3>3, <3>4 DEF AppendFits
  <2> QED BY <1>1, <1>5, <2>1, <2>2, <2>3, <2>5 DEF AloneFits
<1> QED BY <1>7, <1>8

\* What is still to be appended after the first row.
LEMMA AppendingFits ==
    ASSUME NEW rest \in Seq(MailRow), \A k \in DOMAIN rest : Known(rest[k].to, rest[k])
    PROVE  /\ DoingTyped(Appending(rest)) /\ DoingFits(Appending(rest))
           /\ rest = <<>> => Appending(rest) = Resting
           /\ rest # <<>> => /\ Appending(rest).kind = "append" /\ Appending(rest).rows = rest
                             /\ Appending(rest).step = "read"
<1>1. CASE rest = <<>>
  BY <1>1 DEF Appending, DoingTyped, DoingFits, Resting
<1>2. CASE rest # <<>>
  <2>1. Appending(rest) = [kind |-> "append", rows |-> rest, step |-> "read", lines |-> <<>>]
    BY <1>2 DEF Appending
  <2>2. LinesFit(rest[1].to, <<>>)
    BY DEF LinesFit
  <2> QED BY <1>2, <2>1, <2>2 DEF DoingTyped, DoingFits, Appender
<1> QED BY <1>1, <1>2

\* What is left of two things is the second.
LEMMA TailOfTwo ==
    ASSUME NEW S, NEW s \in Seq(S), Len(s) = 2
    PROVE  Len(Tail(s)) = 1 /\ Tail(s)[1] = s[2]
<1>1. s # <<>>
  BY EmptySeq
<1>2. /\ Len(Tail(s)) = Len(s) - 1
      /\ \A i \in 1..Len(Tail(s)) : Tail(s)[i] = s[i + 1]
  BY <1>1, HeadTailProperties
<1> QED BY <1>2

LEMMA AppendRenamesStep ==
    ASSUME MailInv, NEW p \in MailProcs, AppendRenames(p)
    PROVE  FilesFit' /\ AloneFits'
<1> DEFINE agent == doing[p].rows[1].to
           rest == Tail(doing[p].rows)
           next == IF temp[agent] # NoFile THEN Appending(rest) ELSE Resting
<1>0. PICK now : now = next
  OBVIOUS
<1>1. /\ doing[p].kind = "append" /\ doing[p].step = "rename" /\ doing' = [doing EXCEPT ![p] = now]
      /\ temp[agent] # NoFile => /\ exported' = [exported EXCEPT ![agent] = temp[agent]]
                                 /\ temp' = [temp EXCEPT ![agent] = NoFile] /\ strayed' = strayed
      /\ temp[agent] = NoFile => strayed' = TRUE /\ exported' = exported /\ temp' = temp
      /\ UNCHANGED <<single, ms, mail, lastId, mixed>>
  BY <1>0 DEF AppendRenames, Renamed
<1>2. FilesFit
  BY DEF MailInv
<1>3. /\ doing[p] \in Appender /\ agent \in MailAgents /\ DOMAIN doing = MailProcs
      /\ doing[p].rows \in Seq(MailRow) /\ doing[p].rows # <<>>
      /\ \A k \in DOMAIN doing[p].rows : Known(doing[p].rows[k].to, doing[p].rows[k])
  BY <1>1, <1>2, AppenderTyped, ProcessTyped
<1>4. rest \in Seq(MailRow) /\ \A k \in DOMAIN rest : Known(rest[k].to, rest[k])
  <2> DEFINE batch == doing[p].rows
  <2>1. batch \in Seq(MailRow) /\ batch # <<>> /\ \A k \in DOMAIN batch : Known(batch[k].to, batch[k])
    BY <1>3
  <2> HIDE DEF batch
  <2>2. Tail(batch) \in Seq(MailRow) /\ \A k \in DOMAIN Tail(batch) : k + 1 \in DOMAIN batch /\ Tail(batch)[k] = batch[k + 1]
    BY <2>1
  <2>3. \A k \in DOMAIN Tail(batch) : Known(Tail(batch)[k].to, Tail(batch)[k])
    <3> SUFFICES ASSUME NEW k \in DOMAIN Tail(batch) PROVE Known(Tail(batch)[k].to, Tail(batch)[k])
      OBVIOUS
    <3>1. k + 1 \in DOMAIN batch /\ Tail(batch)[k] = batch[k + 1]
      BY <2>2
    <3> QED BY <2>1, <3>1
  <2> QED BY <2>2, <2>3 DEF batch
<1>5. DoingTyped(now) /\ DoingFits(now)
  <2>1. DoingTyped(Resting) /\ DoingFits(Resting)
    BY DEF DoingTyped, DoingFits, Resting
  <2>2. DoingTyped(Appending(rest)) /\ DoingFits(Appending(rest))
    BY <1>4, AppendingFits
  <2> QED BY <1>0, <2>1, <2>2
<1>6. DOMAIN exported = MailAgents /\ DOMAIN temp = MailAgents
  BY <1>2 DEF FilesFit
<1>7. FilesFit'
  <2>1. Kept /\ DoingFits(now)'
    <3>1. Kept
      BY <1>1 DEF Kept
    <3> QED BY <1>5, <3>1, KnownStays
  <2>2. MailRowsFit(mail') /\ strayed' \in BOOLEAN /\ ms' \in 0..MaxMs /\ lastId' \in [MailProcs -> LastId]
    BY <1>1, <1>2 DEF FilesFit
  <2> HIDE DEF agent
  <2>3. \A a \in MailAgents : exported'[a] = exported[a] \/ LinesFit(a, exported'[a])
    BY <1>1, <1>2, <1>3, <1>6 DEF FilesFit
  <2>4. \A a \in MailAgents : temp'[a] \in {temp[a], NoFile} \/ LinesFit(a, temp'[a])
    BY <1>1, <1>3, <1>6
  <2>5. DOMAIN exported' = MailAgents /\ DOMAIN temp' = MailAgents
    BY <1>1, <1>3, <1>6
  <2> QED BY <1>1, <1>2, <1>5, <2>1, <2>2, <2>3, <2>4, <2>5, FilesStay
<1>8. AloneFits'
  <2> SUFFICES ASSUME single PROVE AloneFits'
    BY <1>1 DEF AloneFits
  <2>1. p = TheProcess
    <3>1. doing[p] # Booting
      BY <1>1 DEF Booting
    <3> QED BY <3>1 DEF MailInv, AloneFits
  <2>2. doing'[p] = now /\ \A q \in MailProcs \ {p} : doing'[q] = doing[q]
    BY <1>1, <1>2, ProcessTyped
  <2>3. /\ \A q \in MailProcs \ {p} : doing[q] = Booting
        /\ IdsAt(mail, lastId[p], ms)
        /\ ~strayed => AppendFits(doing[p])
    BY <1>1, <2>1 DEF MailInv, AloneFits
  <2>4. now.kind \in {"resting", "append"}
    <3>1. Appending(rest).kind \in {"resting", "append"}
      <4> HIDE DEF rest
      <4>1. CASE rest = <<>>
        BY <4>1 DEF Appending, Resting
      <4>2. CASE rest # <<>>
        BY <1>4, <4>2, AppendingFits
      <4> QED BY <4>1, <4>2
    <3> QED BY <1>0, <3>1 DEF Resting
  <2>5. ASSUME ~strayed'
        PROVE  /\ now.kind # "append" => \A a \in MailAgents : fileMatchesDb(a)'
               /\ now.kind = "append" => AppendFits(now)'
    <3>1. temp[agent] # NoFile /\ ~strayed /\ AppendFits(doing[p]) /\ now = Appending(rest)
      BY <1>0, <1>1, <2>3, <2>5
    <3>2. \A a \in MailAgents : exported'[a] = Plus(exported[a], a, doing[p].rows[1])
      <4>1. temp[agent] = Append(exported[agent], doing[p].rows[1])
        BY <1>1, <3>1 DEF AppendFits
      <4>2. \A a \in MailAgents : exported'[a] = IF a = agent THEN temp[agent] ELSE exported[a]
        BY <1>1, <1>3, <1>6, <3>1
      <4> QED BY <4>1, <4>2 DEF Plus
    <3>3. CASE Len(doing[p].rows) = 1
      <4>1. rest = <<>> /\ \A a \in MailAgents : RowsTo(a, mail) = Plus(exported[a], a, doing[p].rows[1])
        BY <1>3, <3>1, <3>3 DEF AppendFits, Owed
      <4>2. now = Resting
        BY <1>4, <3>1, <4>1, AppendingFits
      <4> QED BY <1>1, <3>2, <4>1, <4>2 DEF fileMatchesDb, RowsTo, Resting
    <3>4. CASE Len(doing[p].rows) = 2
      <4> DEFINE batch == doing[p].rows
      <4>1. Len(rest) = 1 /\ rest[1] = batch[2] /\ rest # <<>>
        <5>1. batch \in Seq(MailRow) /\ Len(batch) = 2
          BY <1>3, <3>4
        <5> HIDE DEF batch
        <5>2. Len(Tail(batch)) = 1 /\ Tail(batch)[1] = batch[2]
          BY <5>1, TailOfTwo
        <5>3. Tail(batch) # <<>>
          <6> DEFINE more == Tail(batch)
          <6>1. Len(more) = 1
            BY <5>2
          <6> HIDE DEF more
          <6>2. more # <<>>
            BY <6>1
          <6> QED BY <6>2 DEF more
        <5> QED BY <5>2, <5>3 DEF batch
      <4>2. \A a \in MailAgents : RowsTo(a, mail) = Plus(Plus(exported[a], a, doing[p].rows[1]), a, doing[p].rows[2])
        BY <3>1, <3>4 DEF AppendFits, Owed
      <4>3. now.kind = "append" /\ now.rows = rest /\ now.step = "read"
        BY <1>4, <3>1, <4>1, AppendingFits
      <4>4. Len(now.rows) = 1 /\ now.rows[1] = doing[p].rows[2]
        BY <4>1, <4>3
      <4>5. \A a \in MailAgents : RowsTo(a, mail) = Plus(exported'[a], a, now.rows[1])
        BY <3>2, <4>2, <4>4
      <4>6. Owed(now.rows)'
        BY <1>1, <4>4, <4>5 DEF Owed, RowsTo, Plus
      <4>7. AppendFits(now)'
        BY <4>3, <4>6 DEF AppendFits
      <4> QED BY <4>3, <4>7
    <3> QED BY <3>1, <3>3, <3>4 DEF AppendFits, Owed
  <2> QED BY <1>1, <2>1, <2>2, <2>3, <2>4, <2>5 DEF AloneFits
<1> QED BY <1>7, <1>8 DEF MailInv

LEMMA ReconcileReadsStep ==
    ASSUME MailInv, NEW p \in MailProcs, ReconcileReads(p)
    PROVE  FilesFit' /\ AloneFits'
<1> DEFINE left == {r.to : r \in mail}
           next == [kind |-> "reconcile", rows |-> mail, left |-> left, written |-> NoFile]
<1>0. PICK now : now = next
  OBVIOUS
<1>1. /\ p \in Processes /\ doing[p] = Booting /\ doing' = [doing EXCEPT ![p] = now]
      /\ UNCHANGED <<single, ms, mail, exported, temp, fd, lastId, strayed, mixed>>
  BY <1>0 DEF ReconcileReads
<1>2. FilesFit
  BY DEF MailInv
<1>3. MailRowsFit(mail) /\ left \subseteq MailAgents
  BY <1>2, RowTyped DEF FilesFit, MailRowsFit
<1>4. now.kind = "reconcile" /\ now.rows = mail /\ now.left = left /\ now.written = NoFile /\ now \in Reconciler
  BY <1>0, <1>3 DEF Reconciler, MailRowsFit
<1> HIDE DEF next
<1>5. DoingTyped(now) /\ DoingFits(now)
  <2>1. \A r \in mail : Known(r.to, r)
    BY DEF Known
  <2> QED BY <1>3, <1>4, <2>1 DEF DoingTyped, DoingFits
<1>6. FilesFit'
  <2>1. Kept /\ DoingFits(now)'
    <3>1. Kept
      BY <1>1 DEF Kept
    <3> QED BY <1>5, <3>1, KnownStays
  <2>2. MailRowsFit(mail') /\ strayed' \in BOOLEAN /\ ms' \in 0..MaxMs /\ lastId' \in [MailProcs -> LastId]
        /\ DOMAIN exported' = MailAgents /\ DOMAIN temp' = MailAgents
    BY <1>1, <1>2 DEF FilesFit
  <2> QED BY <1>1, <1>2, <1>5, <2>1, <2>2, FilesStay
<1>7. AloneFits'
  <2> SUFFICES ASSUME single PROVE AloneFits'
    BY <1>1 DEF AloneFits
  <2>1. /\ p = TheProcess /\ \A q \in MailProcs \ {p} : doing[q] = Booting
        /\ IdsAt(mail, lastId[p], ms)
        /\ ~strayed => \A a \in MailAgents : fileMatchesDb(a)
    BY <1>1, AloneProcess DEF Booting
  <2>2. doing'[p] = now /\ \A q \in MailProcs \ {p} : doing'[q] = doing[q]
    BY <1>1, <1>2, ProcessTyped
  <2>3. ASSUME NEW a \in MailAgents \ left PROVE fileMatchesDb(a)
    <3>1. exported[a] \in Seq(MailRow) /\ \A k \in DOMAIN exported[a] : Known(a, exported[a][k])
      BY <1>2, AloneWhole DEF FilesFit, MailInv
    <3>2. \A r \in mail : r.to # a
      OBVIOUS
    <3>3. DOMAIN exported[a] = {}
      BY <3>1, <3>2 DEF Known
    <3>4. exported[a] = <<>>
      <4> DEFINE q == exported[a]
      <4>1. q \in Seq(MailRow) /\ DOMAIN q = {}
        BY <3>1, <3>3
      <4> HIDE DEF q
      <4>2. Len(q) = 0
        BY <4>1
      <4>3. q = <<>>
        BY <4>1, <4>2, EmptySeq
      <4> QED BY <4>3 DEF q
    <3> QED BY <1>3, <3>2, <3>4, NoRowsTo DEF fileMatchesDb
  <2>4. ReconcileFits(now)'
    BY <1>1, <1>4, <2>3 DEF ReconcileFits, fileMatchesDb, RowsTo
  <2> QED BY <1>1, <1>4, <2>1, <2>2, <2>4 DEF AloneFits, fileMatchesDb, RowsTo
<1> QED BY <1>6, <1>7 DEF MailInv

\* A reconcile under way.
LEMMA ReconcilerTyped ==
    ASSUME FilesFit, NEW p \in MailProcs, doing[p].kind = "reconcile"
    PROVE  /\ doing[p] \in Reconciler /\ MailRowsFit(doing[p].rows) /\ doing[p].left \subseteq MailAgents
           /\ doing[p].written \in MailAgents \cup {NoFile} /\ \A r \in doing[p].rows : Known(r.to, r)
<1>1. DoingTyped(doing[p]) /\ DoingFits(doing[p])
  BY ProcessTyped
<1>2. doing[p] \in Reconciler
  BY <1>1, DoingKinds
<1> QED BY <1>1, <1>2 DEF Reconciler, DoingFits

LEMMA ReconcileOpensStep ==
    ASSUME MailInv, NEW p \in MailProcs, NEW agent, ReconcileOpens(p, agent)
    PROVE  FilesFit' /\ AloneFits'
<1> DEFINE next == [doing[p] EXCEPT !.written = agent]
<1>0. PICK now : now = next
  OBVIOUS
<1>1. /\ doing[p].kind = "reconcile" /\ agent \in doing[p].left /\ doing' = [doing EXCEPT ![p] = now]
      /\ Opened(p, agent)
      /\ UNCHANGED <<single, ms, mail, exported, lastId, strayed>>
  BY <1>0 DEF ReconcileOpens
<1>2. FilesFit /\ FdsFit
  BY DEF MailInv
<1>3. /\ doing[p] \in Reconciler /\ MailRowsFit(doing[p].rows) /\ agent \in MailAgents
      /\ \A r \in doing[p].rows : Known(r.to, r)
      /\ DoingFits(doing[p])
  BY <1>1, <1>2, ReconcilerTyped, ProcessTyped
<1>4. /\ now \in Reconciler /\ now.kind = "reconcile" /\ now.rows = doing[p].rows /\ now.left = doing[p].left
      /\ now.written = agent
  BY <1>0, <1>3 DEF Reconciler
<1> HIDE DEF next
<1>5. DoingTyped(now) /\ DoingFits(now)
  BY <1>1, <1>3, <1>4 DEF DoingTyped, DoingFits
<1>6. /\ DOMAIN temp' = MailAgents /\ mixed \subseteq mixed' /\ fd'[p] = "temp"
      /\ \A a \in MailAgents : temp'[a] \in {temp[a], NoFile} \/ LinesFit(a, temp'[a])
  <2>1. fd'[p] = "temp"
    BY <1>1, <1>2 DEF Opened, FdsFit
  <2> QED BY <1>1, <1>2, <1>3, <2>1, OpenedFits
<1>7. FilesFit'
  <2>1. Kept /\ DoingFits(now)'
    <3>1. Kept
      BY <1>1, <1>6 DEF Kept
    <3> QED BY <1>5, <3>1, KnownStays
  <2>2. MailRowsFit(mail') /\ strayed' \in BOOLEAN /\ ms' \in 0..MaxMs /\ lastId' \in [MailProcs -> LastId]
        /\ DOMAIN exported' = MailAgents
    BY <1>1, <1>2 DEF FilesFit
  <2> QED BY <1>1, <1>2, <1>5, <1>6, <2>1, <2>2, FilesStay
<1>8. AloneFits'
  <2> SUFFICES ASSUME single PROVE AloneFits'
    BY <1>1 DEF AloneFits
  <2>1. /\ p = TheProcess /\ \A q \in MailProcs \ {p} : doing[q] = Booting
        /\ IdsAt(mail, lastId[p], ms)
        /\ ~strayed => \A a \in MailAgents : fileMatchesDb(a)
        /\ ReconcileFits(doing[p])
    BY <1>1, AloneProcess DEF Booting
  <2>2. doing'[p] = now /\ \A q \in MailProcs \ {p} : doing'[q] = doing[q]
    BY <1>1, <1>2, ProcessTyped
  <2>3. ReconcileFits(now)'
    <3>1. now.rows = mail' /\ fd'[TheProcess] # "none"
      BY <1>1, <1>4, <1>6, <2>1 DEF ReconcileFits
    <3>2. \A a \in MailAgents \ now.left : fileMatchesDb(a)'
      <4>1. \A a \in MailAgents \ now.left : fileMatchesDb(a)
        BY <1>4, <2>1 DEF ReconcileFits
      <4> QED BY <1>1, <4>1 DEF fileMatchesDb, RowsTo
    <3>3. TheProcess' = TheProcess
      BY DEF TheProcess
    <3> QED BY <3>1, <3>2, <3>3 DEF ReconcileFits
  <2> QED BY <1>1, <1>4, <2>1, <2>2, <2>3 DEF AloneFits, fileMatchesDb, RowsTo
<1> QED BY <1>7, <1>8

\* The lines a reconcile writes.
LEMMA RowsToKnown ==
    ASSUME NEW batch, MailRowsFit(batch), \A r \in batch : Known(r.to, r), NEW agent
    PROVE  LinesFit(agent, RowsTo(agent, batch))
<1> DEFINE q == RowsTo(agent, batch)
           S == {r \in batch : r.to = agent}
<1>1. q \in Seq(S) /\ q \in Seq(MailRow)
  BY RowsToFits
<1>2. \A r \in S : Known(agent, r)
  OBVIOUS
<1> HIDE DEF q, S
<1>3. \A k \in DOMAIN q : q[k] \in S
  BY <1>1
<1>4. LinesFit(agent, q)
  BY <1>1, <1>2, <1>3, MailLinesFit
<1> QED BY <1>4 DEF q

LEMMA ReconcileWritesStep ==
    ASSUME MailInv, NEW p \in MailProcs, ReconcileWrites(p)
    PROVE  FilesFit' /\ AloneFits'
<1> DEFINE batch == doing[p].rows
           agent == doing[p].written
<1>1. /\ doing[p].kind = "reconcile" /\ agent # NoFile /\ fd[p] # "none"
      /\ Written(p, agent, RowsTo(agent, batch))
      /\ UNCHANGED <<single, ms, mail, lastId, doing, strayed, mixed>>
  BY DEF ReconcileWrites
<1>2. FilesFit /\ FdsFit
  BY DEF MailInv
<1>3. /\ MailRowsFit(batch) /\ agent \in MailAgents /\ \A r \in batch : Known(r.to, r)
  BY <1>1, <1>2, ReconcilerTyped, ProcessTyped
<1>4. Target(p) = agent
  BY <1>1 DEF Target
<1>6. LinesFit(agent, RowsTo(agent, batch))
  BY <1>3, RowsToKnown
<1>7. /\ DOMAIN exported' = MailAgents /\ DOMAIN temp' = MailAgents
      /\ \A a \in MailAgents : exported'[a] = exported[a] \/ LinesFit(a, exported'[a])
      /\ \A a \in MailAgents : temp'[a] = temp[a] \/ LinesFit(a, temp'[a])
      /\ single => exported' = exported /\ temp' = [temp EXCEPT ![agent] = RowsTo(agent, batch)]
  <2> DEFINE q == RowsTo(agent, batch)
  <2>1. LinesFit(agent, q) /\ Written(p, agent, q)
    BY <1>1, <1>6
  <2> HIDE DEF q, agent
  <2> QED BY <1>1, <1>2, <1>4, <2>1, WrittenFits DEF q
<1>8. FilesFit'
  <2>1. Kept
    BY <1>1 DEF Kept
  <2>2. MailRowsFit(mail') /\ strayed' \in BOOLEAN /\ ms' \in 0..MaxMs /\ lastId' \in [MailProcs -> LastId]
    BY <1>1, <1>2 DEF FilesFit
  <2> QED BY <1>1, <1>2, <1>7, <2>1, <2>2, FilesStay
<1>9. AloneFits'
  <2> SUFFICES ASSUME single PROVE AloneFits'
    BY <1>1 DEF AloneFits
  <2>1. /\ p = TheProcess /\ \A q \in MailProcs \ {p} : doing[q] = Booting
        /\ IdsAt(mail, lastId[p], ms)
        /\ ~strayed => \A a \in MailAgents : fileMatchesDb(a)
        /\ ReconcileFits(doing[p])
    BY <1>1, AloneProcess DEF Booting
  <2>2. PICK now : now = doing[p]
    OBVIOUS
  <2>3. exported' = exported /\ temp'[agent] = RowsTo(agent, batch) /\ batch = mail
    <3>1. DOMAIN temp = MailAgents
      BY <1>2 DEF FilesFit
    <3>2. batch = mail
      BY <2>1 DEF ReconcileFits
    <3> HIDE DEF agent, batch
    <3> QED BY <1>3, <1>7, <3>1, <3>2
  <2>4. \A a : fileMatchesDb(a)' <=> fileMatchesDb(a)
    BY <1>1, <2>3 DEF fileMatchesDb, RowsTo
  <2>5. ReconcileFits(now)'
    <3>1. now.rows = mail' /\ now.written = agent
      BY <1>1, <2>2, <2>3
    <3>2. \A a \in MailAgents \ now.left : fileMatchesDb(a)'
      BY <2>1, <2>2, <2>4 DEF ReconcileFits
    <3>3. \A a : RowsTo(a, mail)' = RowsTo(a, mail)
      BY <1>1 DEF RowsTo
    <3>4. temp'[now.written] = RowsTo(now.written, mail)'
      BY <2>3, <3>1, <3>3
    <3> HIDE DEF agent, batch
    <3> QED BY <3>1, <3>2, <3>4 DEF ReconcileFits
  <2>6. doing'[p] = now /\ now.kind = "reconcile" /\ IdsAt(mail, lastId[p], ms)'
    BY <1>1, <2>1, <2>2 DEF IdsAt
  <2>7. ~strayed' => \A a \in MailAgents : fileMatchesDb(a)'
    BY <1>1, <2>1, <2>4
  <2> QED BY <1>1, <2>1, <2>5, <2>6, <2>7 DEF AloneFits
<1> QED BY <1>8, <1>9

LEMMA ReconcileRenamesStep ==
    ASSUME MailInv, NEW p \in MailProcs, ReconcileRenames(p)
    PROVE  FilesFit' /\ AloneFits'
<1> DEFINE w == doing[p].written
           next == IF temp[w] # NoFile THEN [doing[p] EXCEPT !.left = @ \ {w}, !.written = NoFile] ELSE Resting
<1>0. PICK now : now = next
  OBVIOUS
<1>1. /\ doing[p].kind = "reconcile" /\ w # NoFile /\ doing' = [doing EXCEPT ![p] = now]
      /\ temp[w] # NoFile => exported' = [exported EXCEPT ![w] = temp[w]] /\ temp' = [temp EXCEPT ![w] = NoFile]
      /\ temp[w] = NoFile => exported' = exported /\ temp' = temp
      /\ fd[p] = "none" /\ UNCHANGED <<single, ms, mail, lastId, strayed, mixed>>
  BY <1>0 DEF ReconcileRenames, Renamed
<1>2. FilesFit
  BY DEF MailInv
<1>3. /\ doing[p] \in Reconciler /\ w \in MailAgents /\ DoingFits(doing[p])
  BY <1>1, <1>2, ReconcilerTyped, ProcessTyped
<1>4. /\ temp[w] # NoFile => /\ now \in Reconciler /\ now.kind = "reconcile" /\ now.rows = doing[p].rows
                             /\ now.left = doing[p].left \ {w} /\ now.written = NoFile
      /\ temp[w] = NoFile => now = Resting
  BY <1>0, <1>3 DEF Reconciler
<1> HIDE DEF next
<1>5. DoingTyped(now) /\ DoingFits(now)
  <2>1. DoingTyped(Resting) /\ DoingFits(Resting)
    BY DEF DoingTyped, DoingFits, Resting
  <2> QED BY <1>1, <1>3, <1>4, <2>1 DEF DoingTyped, DoingFits
<1>6. DOMAIN temp = MailAgents /\ DOMAIN exported = MailAgents
  BY <1>2 DEF FilesFit
<1>7. FilesFit'
  <2>1. Kept /\ DoingFits(now)'
    <3>1. Kept
      BY <1>1 DEF Kept
    <3> QED BY <1>5, <3>1, KnownStays
  <2>2. MailRowsFit(mail') /\ strayed' \in BOOLEAN /\ ms' \in 0..MaxMs /\ lastId' \in [MailProcs -> LastId]
    BY <1>1, <1>2 DEF FilesFit
  <2> HIDE DEF w
  <2>3. \A a \in MailAgents : exported'[a] = exported[a] \/ LinesFit(a, exported'[a])
    BY <1>1, <1>2, <1>3, <1>6 DEF FilesFit
  <2>4. \A a \in MailAgents : temp'[a] \in {temp[a], NoFile} \/ LinesFit(a, temp'[a])
    BY <1>1, <1>3, <1>6
  <2>5. DOMAIN exported' = MailAgents /\ DOMAIN temp' = MailAgents
    BY <1>1, <1>3, <1>6
  <2> QED BY <1>1, <1>2, <1>5, <2>1, <2>2, <2>3, <2>4, <2>5, FilesStay
<1>8. AloneFits'
  <2> SUFFICES ASSUME single PROVE AloneFits'
    BY <1>1 DEF AloneFits
  <2>1. /\ p = TheProcess /\ \A q \in MailProcs \ {p} : doing[q] = Booting
        /\ IdsAt(mail, lastId[p], ms)
        /\ ~strayed => \A a \in MailAgents : fileMatchesDb(a)
        /\ ReconcileFits(doing[p])
    BY <1>1, AloneProcess DEF Booting
  <2>2. doing'[p] = now /\ \A q \in MailProcs \ {p} : doing'[q] = doing[q]
    BY <1>1, <1>2, ProcessTyped
  <2>3. temp[w] = RowsTo(w, mail)
    BY <1>1, <1>3, <2>1 DEF ReconcileFits
  <2>4. temp[w] # NoFile
    <3>1. RowsTo(w, mail) \in Seq(MailRow)
      BY <1>2, RowsToFits DEF FilesFit
    <3>2. Seq(MailRow) \subseteq Seq(Line) /\ NoFile \notin Seq(Line)
      BY MailAssumption DEF Line
    <3> QED BY <2>3, <3>1, <3>2
  <2>5. \A a \in MailAgents : fileMatchesDb(a) \/ a = w => fileMatchesDb(a)'
    <3> HIDE DEF w
    <3>1. \A a \in MailAgents : exported'[a] = IF a = w THEN temp[w] ELSE exported[a]
      BY <1>1, <1>3, <1>6, <2>4
    <3>2. \A a : RowsTo(a, mail)' = RowsTo(a, mail)
      BY <1>1 DEF RowsTo
    <3> SUFFICES ASSUME NEW a \in MailAgents, fileMatchesDb(a) \/ a = w PROVE fileMatchesDb(a)'
      OBVIOUS
    <3>3. exported'[a] = RowsTo(a, mail)
      BY <2>3, <3>1 DEF fileMatchesDb
    <3>4. RowsTo(a, mail)' = RowsTo(a, mail)
      BY <3>2
    <3> QED BY <3>3, <3>4 DEF fileMatchesDb
  <2>6. ReconcileFits(now)'
    <3> HIDE DEF w
    <3>1. now.rows = mail' /\ now.written = NoFile
      BY <1>1, <1>4, <2>1, <2>4 DEF ReconcileFits
    <3>2. \A a \in MailAgents \ now.left : fileMatchesDb(a)'
      BY <1>4, <2>1, <2>4, <2>5 DEF ReconcileFits
    <3> QED BY <3>1, <3>2 DEF ReconcileFits
  <2>7. ~strayed' => \A a \in MailAgents : fileMatchesDb(a)'
    BY <1>1, <2>1, <2>5
  <2> QED BY <1>1, <1>4, <2>1, <2>2, <2>4, <2>6, <2>7 DEF AloneFits
<1> QED BY <1>7, <1>8 DEF MailInv

LEMMA ReconcileEndsStep ==
    ASSUME MailInv, NEW p \in MailProcs, ReconcileEnds(p)
    PROVE  FilesFit' /\ AloneFits'
<1>1. /\ doing[p].kind = "reconcile" /\ doing[p].left = {} /\ doing' = [doing EXCEPT ![p] = Resting]
      /\ strayed' = FALSE /\ UNCHANGED <<single, ms, mail, exported, temp, fd, lastId, mixed>>
  BY DEF ReconcileEnds
<1>2. FilesFit
  BY DEF MailInv
<1>3. DoingTyped(Resting) /\ DoingFits(Resting)'
  BY DEF DoingTyped, DoingFits, Resting
<1>4. FilesFit'
  <2>1. Kept
    BY <1>1 DEF Kept
  <2>2. MailRowsFit(mail') /\ strayed' \in BOOLEAN /\ ms' \in 0..MaxMs /\ lastId' \in [MailProcs -> LastId]
        /\ DOMAIN exported' = MailAgents /\ DOMAIN temp' = MailAgents
    BY <1>1, <1>2 DEF FilesFit
  <2> QED BY <1>1, <1>2, <1>3, <2>1, <2>2, FilesStay
<1>5. AloneFits'
  <2> SUFFICES ASSUME single PROVE AloneFits'
    BY <1>1 DEF AloneFits
  <2>1. /\ p = TheProcess /\ \A q \in MailProcs \ {p} : doing[q] = Booting
        /\ IdsAt(mail, lastId[p], ms)
        /\ ReconcileFits(doing[p])
    BY <1>1, AloneProcess DEF Booting
  <2>2. doing'[p] = Resting /\ \A q \in MailProcs \ {p} : doing'[q] = doing[q]
    BY <1>1, <1>2, ProcessTyped
  <2>3. \A a \in MailAgents : fileMatchesDb(a)'
    BY <1>1, <2>1 DEF ReconcileFits, fileMatchesDb, RowsTo
  <2> QED BY <1>1, <2>1, <2>2, <2>3 DEF AloneFits, Resting
<1> QED BY <1>4, <1>5 DEF MailInv

\* A row with a new id.
LEMMA NewRowFits ==
    ASSUME NEW messages, MailRowsFit(messages), NEW row \in MailRow, \A r \in messages : r.id # row.id
    PROVE  MailRowsFit(messages \cup {row}) /\ row \notin messages
BY FS_AddElement DEF MailRowsFit

LEMMA UlidTyped ==
    ASSUME NEW last \in LastId, NEW now \in 0..MaxMs, NEW id \in ulid(last, now)
    PROVE  /\ id \in Id /\ id \in LastId /\ id.at = now /\ id.random \in Nat
           /\ last.at = now => id.random = last.random + 1
<1>0. MaxMs \in Nat /\ MaxRandom \in Nat
  BY MailAssumption
<1>1. CASE last.at = now
  <2>1. id = [last EXCEPT !.random = @ + 1] /\ last.random < MaxRandom
    BY <1>1 DEF ulid
  <2> QED BY <1>0, <1>1, <2>1 DEF LastId, Id
<1>2. CASE last.at # now
  <2>1. PICK r \in 0..MaxRandom : id = [at |-> now, random |-> r]
    BY <1>2 DEF ulid
  <2> QED BY <1>0, <1>2, <2>1 DEF LastId, Id
<1> QED BY <1>1, <1>2

LEMMA InsertTyped ==
    ASSUME NEW to \in MailAgents, NEW id \in Id, NEW later \in 0..MaxMs
    PROVE  LET row == insertMessage(to, id, later)
           IN  row \in MailRow /\ row.id = id /\ row.to = to /\ row.delivered = later
BY DEF insertMessage, MailRow

\* The only process's next message comes behind all others.
LEMMA NextId ==
    ASSUME NEW messages, MailRowsFit(messages), NEW last \in LastId, NEW now \in 0..MaxMs,
           IdsAt(messages, last, now), NEW id \in ulid(last, now), NEW to \in MailAgents,
           NEW later \in 0..MaxMs, later \in {now, now + 1}
    PROVE  LET row == insertMessage(to, id, later)
           IN  (\A x \in messages : RowBefore(x, row)) /\ IdsAt(messages \cup {row}, id, later)
<1> DEFINE row == insertMessage(to, id, later)
<1>0. MaxMs \in Nat /\ MaxRandom \in Nat /\ last.at \in Int /\ last.random \in Nat
  BY MailAssumption DEF LastId
<1>1. id.at = now /\ id.random \in Nat /\ (last.at = now => id.random = last.random + 1) /\ id \in Id
  BY UlidTyped
<1>2. row.id = id /\ row.delivered = later
  BY DEF insertMessage
<1>3. \A x \in messages : x.delivered \in Nat /\ x.id.at \in Nat /\ x.id.random \in Nat
  BY RowTyped DEF MailRowsFit
<1> HIDE DEF row
<1>4. ASSUME NEW x \in messages PROVE RowBefore(x, row)
  <2>1. x.delivered <= now /\ (x.id.at < now \/ (x.id.at = now /\ last.at = now /\ x.id.random <= last.random))
    BY DEF IdsAt
  <2> QED BY <1>0, <1>1, <1>2, <1>3, <2>1 DEF RowBefore, IdBefore
<1>5. IdsAt(messages \cup {row}, id, later)
  <2> SUFFICES ASSUME NEW r \in messages \cup {row}
               PROVE  /\ id.at <= later /\ r.delivered <= later
                      /\ r.id.at < later \/ (r.id.at = later /\ id.at = later /\ r.id.random <= id.random)
    BY <1>1, <1>0 DEF IdsAt
  <2>1. CASE r = row
    BY <1>0, <1>1, <1>2, <2>1
  <2>2. CASE r \in messages
    <3>1. r.delivered <= now /\ (r.id.at < now \/ (r.id.at = now /\ last.at = now /\ r.id.random <= last.random))
      BY <2>2 DEF IdsAt
    <3> QED BY <1>0, <1>1, <1>3, <2>2, <3>1
  <2> QED BY <2>1, <2>2
<1> QED BY <1>4, <1>5 DEF row

LEMMA WhisperStep ==
    ASSUME MailInv, NEW p \in MailProcs, NEW to \in MailAgents, whisper(p, to)
    PROVE  FilesFit' /\ AloneFits'
<1>0. PICK id \in ulid(lastId[p], ms), later \in {ms, ms + 1} :
        /\ later <= MaxMs /\ \A r \in mail : r.id # id
        /\ mail' = mail \cup {insertMessage(to, id, later)} /\ ms' = later
        /\ lastId' = [lastId EXCEPT ![p] = id]
        /\ doing' = [doing EXCEPT ![p] = Appending(<<insertMessage(to, id, later)>>)]
  BY DEF whisper
<1> DEFINE new == insertMessage(to, id, later)
<1>1. PICK row : row = new
  OBVIOUS
<1>2. PICK now : now = Appending(<<row>>)
  OBVIOUS
<1>3. /\ mail' = mail \cup {row} /\ ms' = later /\ lastId' = [lastId EXCEPT ![p] = id]
      /\ doing' = [doing EXCEPT ![p] = now] /\ doing[p] = Resting /\ p \in Processes
      /\ UNCHANGED <<single, exported, temp, fd, strayed, mixed>>
  BY <1>0, <1>1, <1>2 DEF whisper
<1>4. FilesFit
  BY DEF MailInv
<1>5. MailRowsFit(mail) /\ lastId[p] \in LastId /\ ms \in 0..MaxMs /\ MaxMs \in Nat /\ later \in 0..MaxMs
  BY <1>0, <1>4, MailAssumption DEF FilesFit
<1>6. id \in Id /\ id \in LastId
  BY <1>5, UlidTyped
<1>7. row \in MailRow /\ row.id = id /\ row.to = to
  BY <1>1, <1>5, <1>6, InsertTyped
<1>8. MailRowsFit(mail') /\ row \notin mail
  BY <1>0, <1>3, <1>5, <1>7, NewRowFits
<1> HIDE DEF new
<1>9. Kept /\ Known(to, row)'
  BY <1>3, <1>7 DEF Kept, Known
<1>10. /\ DoingTyped(now) /\ now.kind = "append" /\ now.rows = <<row>> /\ now.step = "read"
       /\ DoingFits(now)'
  <2>1. now = [kind |-> "append", rows |-> <<row>>, step |-> "read", lines |-> <<>>]
    BY <1>2 DEF Appending
  <2>2. <<row>> \in Seq(MailRow) /\ <<row>> # <<>> /\ DOMAIN <<row>> = {1} /\ <<row>>[1] = row
    BY <1>7
  <2>3. now \in Appender
    BY <2>1, <2>2 DEF Appender
  <2>4. now.kind = "append" /\ now.rows = <<row>> /\ now.step = "read" /\ now.lines = <<>>
    BY <2>1
  <2>5. LinesFit(row.to, <<>>)'
    BY DEF LinesFit
  <2>6. \A k \in DOMAIN <<row>> : Known(<<row>>[k].to, <<row>>[k])'
    <3> SUFFICES ASSUME NEW k \in DOMAIN <<row>> PROVE Known(<<row>>[k].to, <<row>>[k])'
      OBVIOUS
    <3>1. <<row>>[k] = row
      BY <2>2
    <3> QED BY <1>7, <1>9, <3>1
  <2> QED BY <2>2, <2>3, <2>4, <2>5, <2>6 DEF DoingTyped, DoingFits
<1>11. FilesFit'
  <2>1. strayed' \in BOOLEAN /\ ms' \in 0..MaxMs /\ lastId' \in [MailProcs -> LastId]
        /\ DOMAIN exported' = MailAgents /\ DOMAIN temp' = MailAgents
    BY <1>3, <1>4, <1>5, <1>6 DEF FilesFit
  <2> QED BY <1>3, <1>4, <1>8, <1>9, <1>10, <2>1, FilesStay
<1>12. AloneFits'
  <2> SUFFICES ASSUME single PROVE AloneFits'
    BY <1>3 DEF AloneFits
  <2>1. /\ p = TheProcess /\ \A q \in MailProcs \ {p} : doing[q] = Booting
        /\ IdsAt(mail, lastId[p], ms)
        /\ ~strayed => \A a \in MailAgents : fileMatchesDb(a)
    BY <1>3, AloneProcess DEF Resting
  <2>2. doing'[p] = now /\ \A q \in MailProcs \ {p} : doing'[q] = doing[q]
    BY <1>3, <1>4, ProcessTyped
  <2>3. (\A x \in mail : RowBefore(x, row)) /\ IdsAt(mail \cup {row}, id, later)
    BY <1>0, <1>1, <1>5, <2>1, NextId DEF new
  <2>4. lastId'[p] = id
    BY <1>3, <1>4 DEF FilesFit
  <2>5. ASSUME ~strayed' PROVE AppendFits(now)'
    <3>1. \A a \in MailAgents : RowsTo(a, mail') = Plus(exported'[a], a, row)
      <4> SUFFICES ASSUME NEW a \in MailAgents PROVE RowsTo(a, mail') = Plus(exported'[a], a, row)
        OBVIOUS
      <4>1. exported[a] = RowsTo(a, mail)
        BY <1>3, <2>1, <2>5 DEF fileMatchesDb
      <4>2. RowsTo(a, mail \cup {row}) = Plus(RowsTo(a, mail), a, row)
        BY <1>3, <1>5, <1>8, <2>3, RowsToGrows
      <4> QED BY <1>3, <4>1, <4>2
    <3>2. Len(now.rows) = 1 /\ now.rows[1] = row
      BY <1>10
    <3> QED BY <1>10, <3>1, <3>2 DEF AppendFits, Owed, RowsTo, Plus
  <2>6. IdsAt(mail, lastId[p], ms)'
    BY <1>3, <2>3, <2>4 DEF IdsAt
  <2> QED BY <1>3, <1>10, <2>1, <2>2, <2>5, <2>6 DEF AloneFits
<1> QED BY <1>11, <1>12 DEF MailInv

\* A recipient that is no text: an id is spent, and nothing else.
LEMMA BroadcastFailsStep ==
    ASSUME MailInv, NEW p \in MailProcs, p \in Processes, NEW id \in ulid(lastId[p], ms), doing[p] = Resting,
           lastId' = [lastId EXCEPT ![p] = id],
           UNCHANGED <<single, ms, mail, exported, temp, fd, doing, strayed, mixed>>
    PROVE  FilesFit' /\ AloneFits'
<1>1. FilesFit
  BY DEF MailInv
<1>2. MailRowsFit(mail) /\ lastId[p] \in LastId /\ ms \in 0..MaxMs
  BY <1>1 DEF FilesFit
<1>3. id \in LastId
  BY <1>2, UlidTyped
<1>4. FilesFit'
  <2>1. Kept
    BY DEF Kept
  <2>2. MailRowsFit(mail') /\ strayed' \in BOOLEAN /\ ms' \in 0..MaxMs /\ lastId' \in [MailProcs -> LastId]
        /\ DOMAIN exported' = MailAgents /\ DOMAIN temp' = MailAgents
    BY <1>1, <1>3 DEF FilesFit
  <2> QED BY <1>1, <2>1, <2>2, FilesStay
<1>5. AloneFits'
  <2> SUFFICES ASSUME single PROVE AloneFits'
    BY DEF AloneFits
  <2>1. /\ p = TheProcess /\ \A q \in MailProcs \ {p} : doing[q] = Booting
        /\ IdsAt(mail, lastId[p], ms)
        /\ ~strayed => \A a \in MailAgents : fileMatchesDb(a)
    BY AloneProcess DEF Resting
  <2>2. lastId'[p] = id
    BY <1>1 DEF FilesFit
  <2>3. id.at = ms /\ id.random \in Nat /\ (lastId[p].at = ms => id.random = lastId[p].random + 1)
    BY <1>2, UlidTyped
  <2>4. \A r \in mail : r.id.random \in Nat /\ r.id.at \in Nat
    BY <1>2, RowTyped DEF MailRowsFit
  <2>5. IdsAt(mail, id, ms)
    <3>1. PICK last : last = lastId[p]
      OBVIOUS
    <3>2. last.random \in Nat /\ IdsAt(mail, last, ms) /\ (last.at = ms => id.random = last.random + 1)
      BY <1>2, <2>1, <2>3, <3>1 DEF LastId
    <3> QED BY <1>2, <2>3, <2>4, <3>2 DEF IdsAt
  <2>6. IdsAt(mail, lastId[p], ms)'
    BY <2>2, <2>5 DEF IdsAt
  <2> QED BY <2>1, <2>6 DEF AloneFits, Resting, fileMatchesDb, RowsTo
<1> QED BY <1>4, <1>5 DEF MailInv

LEMMA AppendingTyped ==
    ASSUME NEW rest \in Seq(MailRow), rest # <<>>
    PROVE  Appending(rest) \in Appender
<1>1. Appending(rest) = [kind |-> "append", rows |-> rest, step |-> "read", lines |-> <<>>]
  BY DEF Appending
<1>2. <<>> \in Seq(MailRow)
  OBVIOUS
<1> QED BY <1>1, <1>2 DEF Appender

\* What a broadcast does that finds both its recipients.
Sends(p, first, second, id, next, r1, r2, now) ==
    /\ p \in Processes /\ doing[p] = Resting
    /\ id \in ulid(lastId[p], ms) /\ next \in ulid(id, ms)
    /\ r1 = insertMessage(first, id, ms) /\ r2 = insertMessage(second, next, ms)
    /\ now = Appending(<<r1, r2>>)
    /\ (\A r \in mail : r.id # id) /\ (\A r \in mail : r.id # next)
    /\ mail' = mail \cup {r1, r2} /\ lastId' = [lastId EXCEPT ![p] = next]
    /\ doing' = [doing EXCEPT ![p] = now]
    /\ UNCHANGED <<single, ms, exported, temp, fd, strayed, mixed>>

LEMMA BroadcastSendsStep ==
    ASSUME MailInv, NEW p \in MailProcs, NEW first \in MailAgents, NEW second \in MailAgents,
           NEW id, NEW next, NEW r1, NEW r2, NEW now, Sends(p, first, second, id, next, r1, r2, now)
    PROVE  FilesFit' /\ AloneFits'
<1>0. Sends(p, first, second, id, next, r1, r2, now)
  OBVIOUS
<1> USE DEF Sends
<1>4. FilesFit
  BY DEF MailInv
<1>5. MailRowsFit(mail) /\ lastId[p] \in LastId /\ ms \in 0..MaxMs /\ MaxMs \in Nat
  BY <1>4, MailAssumption DEF FilesFit
<1>6. /\ id \in Id /\ id \in LastId /\ next \in Id /\ next \in LastId /\ id.at = ms
      /\ id.random \in Nat /\ next.random = id.random + 1
  <2>1. id \in Id /\ id \in LastId /\ id.at = ms /\ id.random \in Nat
    BY <1>5, UlidTyped
  <2> QED BY <1>5, <2>1, UlidTyped
<1>7. /\ r1 \in MailRow /\ r1.id = id /\ r1.to = first
      /\ r2 \in MailRow /\ r2.id = next /\ r2.to = second
  BY <1>5, <1>6, InsertTyped
<1> DEFINE some == mail \cup {r1}
<1>8. MailRowsFit(some) /\ r1 \notin mail
  BY <1>5, <1>7, NewRowFits
<1>9. \A r \in some : r.id # next
  BY <1>6, <1>7
<1>10. MailRowsFit(some \cup {r2}) /\ r2 \notin some /\ mail' = some \cup {r2}
  <2>1. mail' = some \cup {r2}
    OBVIOUS
  <2> HIDE DEF some
  <2> QED BY <1>7, <1>8, <1>9, <2>1, NewRowFits
<1>11. Kept /\ Known(first, r1)' /\ Known(second, r2)'
  BY <1>7 DEF Kept, Known
<1>12. /\ DoingTyped(now) /\ now.kind = "append" /\ now.rows = <<r1, r2>> /\ now.step = "read"
       /\ DoingFits(now)'
  <2>1. now = [kind |-> "append", rows |-> <<r1, r2>>, step |-> "read", lines |-> <<>>]
    BY DEF Appending
  <2>2. /\ <<r1, r2>> \in Seq(MailRow) /\ <<r1, r2>> # <<>> /\ DOMAIN <<r1, r2>> = {1, 2}
        /\ <<r1, r2>>[1] = r1 /\ <<r1, r2>>[2] = r2
    BY <1>7
  <2>3. now \in Appender
    BY <2>2, AppendingTyped
  <2>4. now.kind = "append" /\ now.rows = <<r1, r2>> /\ now.step = "read" /\ now.lines = <<>>
    BY <2>1
  <2>5. LinesFit(r1.to, <<>>)'
    BY DEF LinesFit
  <2>6. \A k \in DOMAIN <<r1, r2>> : Known(<<r1, r2>>[k].to, <<r1, r2>>[k])'
    <3> SUFFICES ASSUME NEW k \in DOMAIN <<r1, r2>> PROVE Known(<<r1, r2>>[k].to, <<r1, r2>>[k])'
      OBVIOUS
    <3>1. <<r1, r2>>[k] = r1 \/ <<r1, r2>>[k] = r2
      BY <2>2
    <3> QED BY <1>7, <1>11, <3>1
  <2> QED BY <2>2, <2>3, <2>4, <2>5, <2>6 DEF DoingTyped, DoingFits
<1>13. FilesFit'
  <2>1. strayed' \in BOOLEAN /\ ms' \in 0..MaxMs /\ lastId' \in [MailProcs -> LastId]
        /\ DOMAIN exported' = MailAgents /\ DOMAIN temp' = MailAgents
    BY <1>4, <1>5, <1>6 DEF FilesFit
  <2>2. MailRowsFit(mail')
    BY <1>10
  <2> QED BY <1>4, <1>11, <1>12, <2>1, <2>2, FilesStay
<1>14. AloneFits'
  <2> SUFFICES ASSUME single PROVE AloneFits'
    BY DEF AloneFits
  <2>1. /\ p = TheProcess /\ \A q \in MailProcs \ {p} : doing[q] = Booting
        /\ IdsAt(mail, lastId[p], ms)
        /\ ~strayed => \A a \in MailAgents : fileMatchesDb(a)
    BY AloneProcess DEF Resting
  <2>2. doing'[p] = now /\ \A q \in MailProcs \ {p} : doing'[q] = doing[q]
    BY <1>4, ProcessTyped
  <2>3. (\A x \in mail : RowBefore(x, r1)) /\ IdsAt(some, id, ms)
    BY <1>5, <2>1, NextId
  <2>4. (\A x \in some : RowBefore(x, r2)) /\ IdsAt(some \cup {r2}, next, ms)
    <3> HIDE DEF some
    <3> QED BY <1>5, <1>6, <1>8, <2>3, NextId
  <2>5. lastId'[p] = next
    BY <1>4 DEF FilesFit
  <2>6. ASSUME ~strayed' PROVE AppendFits(now)'
    <3>1. \A a \in MailAgents : RowsTo(a, mail') = Plus(Plus(exported'[a], a, r1), a, r2)
      <4> SUFFICES ASSUME NEW a \in MailAgents PROVE RowsTo(a, mail') = Plus(Plus(exported'[a], a, r1), a, r2)
        OBVIOUS
      <4>1. exported[a] = RowsTo(a, mail)
        BY <2>1, <2>6 DEF fileMatchesDb
      <4>2. RowsTo(a, some) = Plus(RowsTo(a, mail), a, r1)
        BY <1>5, <1>8, <2>3, RowsToGrows
      <4> HIDE DEF some
      <4>3. RowsTo(a, some \cup {r2}) = Plus(RowsTo(a, some), a, r2)
        BY <1>8, <1>10, <2>4, RowsToGrows
      <4> QED BY <1>10, <4>1, <4>2, <4>3
    <3>2. Len(now.rows) = 2 /\ now.rows[1] = r1 /\ now.rows[2] = r2
      BY <1>12
    <3>3. \A a \in MailAgents : RowsTo(a, mail)' = Plus(Plus(exported'[a], a, now.rows[1]), a, now.rows[2])
      BY <3>1, <3>2 DEF RowsTo
    <3>4. Owed(now.rows)'
      BY <3>2, <3>3 DEF Owed, Plus
    <3> QED BY <1>12, <3>4 DEF AppendFits
  <2>7. IdsAt(mail, lastId[p], ms)'
    BY <1>10, <2>4, <2>5 DEF IdsAt
  <2> QED BY <1>12, <2>1, <2>2, <2>6, <2>7 DEF AloneFits
<1> QED BY <1>13, <1>14 DEF MailInv

LEMMA BroadcastStep ==
    ASSUME MailInv, NEW p \in MailProcs, NEW first \in MailAgents, NEW second \in MailAgents, NEW valid \in BOOLEAN,
           broadcast(p, first, second, valid)
    PROVE  FilesFit' /\ AloneFits'
<1>1. PICK id \in ulid(lastId[p], ms) :
        /\ \A r \in mail : r.id # id
        /\ IF valid
             THEN \E next \in ulid(id, ms) :
                    LET sent == <<insertMessage(first, id, ms), insertMessage(second, next, ms)>>
                    IN /\ \A r \in mail : r.id # next
                       /\ mail' = mail \cup {sent[1], sent[2]}
                       /\ lastId' = [lastId EXCEPT ![p] = next]
                       /\ doing' = [doing EXCEPT ![p] = Appending(sent)]
             ELSE lastId' = [lastId EXCEPT ![p] = id] /\ UNCHANGED <<mail, doing>>
  BY DEF broadcast
<1>2. p \in Processes /\ doing[p] = Resting /\ UNCHANGED <<single, ms, exported, temp, fd, strayed, mixed>>
  BY DEF broadcast
<1>3. CASE ~valid
  BY <1>1, <1>2, <1>3, BroadcastFailsStep
<1>4. CASE valid
  <2>1. PICK next \in ulid(id, ms) :
          /\ \A r \in mail : r.id # next
          /\ mail' = mail \cup {insertMessage(first, id, ms), insertMessage(second, next, ms)}
          /\ lastId' = [lastId EXCEPT ![p] = next]
          /\ doing' = [doing EXCEPT ![p] = Appending(<<insertMessage(first, id, ms), insertMessage(second, next, ms)>>)]
    BY <1>1, <1>4
  <2>2. PICK r1 : r1 = insertMessage(first, id, ms)
    OBVIOUS
  <2>3. PICK r2 : r2 = insertMessage(second, next, ms)
    OBVIOUS
  <2>4. PICK now : now = Appending(<<r1, r2>>)
    OBVIOUS
  <2>5. mail' = mail \cup {r1, r2}
    BY <2>1, <2>2, <2>3
  <2>6. doing' = [doing EXCEPT ![p] = now]
    BY <2>1, <2>2, <2>3, <2>4
  <2>7. \A r \in mail : r.id # id
    BY <1>1
  <2>8. Sends(p, first, second, id, next, r1, r2, now)
    BY <1>2, <2>1, <2>2, <2>3, <2>4, <2>5, <2>6, <2>7 DEF Sends
  <2> QED BY <2>8, BroadcastSendsStep
<1> QED BY <1>3, <1>4

LEMMA MarkReadStep ==
    ASSUME MailInv, NEW p \in MailProcs, NEW agent, NEW row \in mail, markRead(p, agent, row)
    PROVE  FilesFit' /\ AloneFits'
<1>0. PICK read : read = [row EXCEPT !.read = ms]
  OBVIOUS
<1>1. /\ p \in Processes /\ doing[p] = Resting
      /\ mail' = (mail \ {row}) \cup {read} /\ strayed' = TRUE
      /\ UNCHANGED <<single, ms, exported, temp, fd, lastId, doing, mixed>>
  BY <1>0 DEF markRead
<1>2. FilesFit
  BY DEF MailInv
<1>3. MailRowsFit(mail) /\ row \in MailRow /\ ms \in 0..MaxMs
  BY <1>2 DEF FilesFit, MailRowsFit
<1>4. read \in MailRow /\ read.id = row.id /\ read.to = row.to /\ read.delivered = row.delivered
  BY <1>0, <1>3 DEF MailRow
<1>5. MailRowsFit(mail')
  <2>1. MailRowsFit(mail \ {row}) /\ \A r \in mail \ {row} : r.id # read.id
    BY <1>3, <1>4, FS_Subset DEF MailRowsFit
  <2> QED BY <1>1, <1>4, <2>1, NewRowFits
<1>6. FilesFit'
  <2>1. Kept
    BY <1>1, <1>4 DEF Kept
  <2>2. strayed' \in BOOLEAN /\ ms' \in 0..MaxMs /\ lastId' \in [MailProcs -> LastId]
        /\ DOMAIN exported' = MailAgents /\ DOMAIN temp' = MailAgents
    BY <1>1, <1>2 DEF FilesFit
  <2> QED BY <1>1, <1>2, <1>5, <2>1, <2>2, FilesStay
<1>7. AloneFits'
  <2> SUFFICES ASSUME single PROVE AloneFits'
    BY <1>1 DEF AloneFits
  <2>1. /\ p = TheProcess /\ \A q \in MailProcs \ {p} : doing[q] = Booting
        /\ IdsAt(mail, lastId[p], ms)
    BY <1>1, AloneProcess DEF Resting
  <2>2. IdsAt(mail, lastId[p], ms)'
    <3>1. \A r \in mail' : r \in mail \/ r = read
      BY <1>1
    <3> QED BY <1>1, <1>4, <2>1, <3>1 DEF IdsAt
  <2> QED BY <1>1, <2>1, <2>2 DEF AloneFits, Resting
<1> QED BY <1>6, <1>7 DEF MailInv

\* Later, the next id still comes behind all.
LEMMA IdsLater ==
    ASSUME FilesFit, NEW last, NEW next \in LastId, IdsAt(mail, last, ms), next = last \/ next.at = -1
    PROVE  IdsAt(mail, next, ms + 1)
<1>1. ms \in Nat /\ next.at \in Int
  BY MailAssumption DEF FilesFit, LastId
<1>2. \A r \in mail : r.delivered \in Nat /\ r.id.at \in Nat /\ r.id.random \in Nat
  BY RowTyped DEF FilesFit, MailRowsFit
<1>3. next.at <= ms
  BY <1>1 DEF IdsAt
<1> QED BY <1>1, <1>2, <1>3 DEF IdsAt

LEMMA AloneStays ==
    ASSUME AloneFits, UNCHANGED <<single, mail, exported, temp, fd, doing, strayed>>,
           single => IdsAt(mail, lastId[TheProcess], ms)'
    PROVE  AloneFits'
<1>1. \A a : fileMatchesDb(a)' <=> fileMatchesDb(a)
  BY DEF fileMatchesDb, RowsTo
<1>2. \A now : AppendFits(now)' <=> AppendFits(now)
  BY DEF AppendFits, Owed, Plus, RowsTo
<1>3. \A now : ReconcileFits(now)' <=> ReconcileFits(now)
  <2>1. \A a : RowsTo(a, mail)' = RowsTo(a, mail)
    BY DEF RowsTo
  <2> QED BY <1>1, <2>1 DEF ReconcileFits
<1>4. PICK now : now = doing[TheProcess]
  OBVIOUS
<1>5. doing'[TheProcess] = now
  BY <1>4
<1> SUFFICES ASSUME single PROVE AloneFits'
  BY DEF AloneFits
<1>6. /\ ~strayed /\ now.kind # "append" => \A a \in MailAgents : fileMatchesDb(a)'
      /\ ~strayed /\ now.kind = "append" => AppendFits(now)'
      /\ now.kind = "reconcile" => ReconcileFits(now)'
  BY <1>1, <1>2, <1>3, <1>4 DEF AloneFits
<1>7. \A p \in MailProcs \ {TheProcess} : doing'[p] = Booting
  BY DEF AloneFits
<1> QED BY <1>5, <1>6, <1>7 DEF AloneFits

LEMMA MailTickStep ==
    ASSUME MailInv, MailTick
    PROVE  FilesFit' /\ AloneFits'
<1>1. ms < MaxMs /\ ms' = ms + 1 /\ UNCHANGED <<single, mail, exported, temp, fd, lastId, doing, strayed, mixed>>
  BY DEF MailTick
<1>2. FilesFit
  BY DEF MailInv
<1>3. ms' \in 0..MaxMs
  BY <1>1, <1>2, MailAssumption DEF FilesFit
<1>4. FilesFit'
  <2>1. Kept
    BY <1>1 DEF Kept
  <2>2. MailRowsFit(mail') /\ strayed' \in BOOLEAN /\ lastId' \in [MailProcs -> LastId]
        /\ DOMAIN exported' = MailAgents /\ DOMAIN temp' = MailAgents
    BY <1>1, <1>2 DEF FilesFit
  <2>3. PICK p \in MailProcs : TRUE
    BY MailAssumption
  <2> QED BY <1>1, <1>2, <1>3, <2>1, <2>2, FilesStay
<1>5. AloneFits'
  <2>1. TheProcess \in MailProcs /\ lastId[TheProcess] \in LastId
    BY <1>2, MailAssumption DEF TheProcess, FilesFit
  <2>2. single => IdsAt(mail, lastId[TheProcess], ms)'
    <3>1. single => IdsAt(mail, lastId[TheProcess], ms + 1)
      BY <1>2, <2>1, IdsLater DEF MailInv, AloneFits
    <3> QED BY <1>1, <3>1 DEF IdsAt
  <2> QED BY <1>1, <2>2, AloneStays DEF MailInv
<1> QED BY <1>4, <1>5 DEF MailInv

LEMMA MailCrashStep ==
    ASSUME MailInv, NEW p \in MailProcs, MailCrash(p)
    PROVE  FilesFit' /\ AloneFits'
<1> DEFINE none == [at |-> -1, random |-> 0]
<1>1. /\ p \in Processes /\ doing[p] # Booting /\ ms < MaxMs /\ ms' = ms + 1
      /\ doing' = [doing EXCEPT ![p] = Booting] /\ lastId' = [lastId EXCEPT ![p] = none]
      /\ strayed' = (strayed \/ doing[p].kind = "append")
      /\ UNCHANGED <<single, mail, exported, temp, mixed>>
  BY DEF MailCrash
<1>2. FilesFit
  BY DEF MailInv
<1>3. ms' \in 0..MaxMs /\ none \in LastId /\ none.at = -1
  BY <1>1, <1>2, MailAssumption DEF FilesFit, LastId
<1> HIDE DEF none
<1>4. DoingTyped(Booting) /\ DoingFits(Booting)'
  BY DEF DoingTyped, DoingFits, Booting
<1>5. FilesFit'
  <2>1. Kept
    BY <1>1 DEF Kept
  <2>2. MailRowsFit(mail') /\ strayed' \in BOOLEAN /\ lastId' \in [MailProcs -> LastId]
        /\ DOMAIN exported' = MailAgents /\ DOMAIN temp' = MailAgents
    BY <1>1, <1>2, <1>3 DEF FilesFit
  <2> QED BY <1>1, <1>2, <1>3, <1>4, <2>1, <2>2, FilesStay
<1>6. AloneFits'
  <2> SUFFICES ASSUME single PROVE AloneFits'
    BY <1>1 DEF AloneFits
  <2>1. /\ p = TheProcess /\ \A q \in MailProcs \ {p} : doing[q] = Booting
        /\ IdsAt(mail, lastId[p], ms)
        /\ ~strayed' => \A a \in MailAgents : fileMatchesDb(a)
    BY <1>1, AloneProcess
  <2>2. doing'[p] = Booting /\ \A q \in MailProcs \ {p} : doing'[q] = doing[q]
    BY <1>1, <1>2, ProcessTyped
  <2>3. lastId'[p] = none
    BY <1>1, <1>2 DEF FilesFit
  <2>4. IdsAt(mail, none, ms + 1)
    BY <1>2, <1>3, <2>1, IdsLater
  <2>5. IdsAt(mail, lastId[p], ms)'
    BY <1>1, <2>3, <2>4 DEF IdsAt
  <2>6. ~strayed' => \A a \in MailAgents : fileMatchesDb(a)'
    <3>1. \A a : RowsTo(a, mail)' = RowsTo(a, mail)
      BY <1>1 DEF RowsTo
    <3> QED BY <1>1, <2>1, <3>1 DEF fileMatchesDb
  <2>7. doing'[p].kind = "booting"
    BY <2>2 DEF Booting
  <2> QED BY <1>1, <2>1, <2>2, <2>5, <2>6, <2>7 DEF AloneFits
<1> QED BY <1>5, <1>6 DEF MailInv

-----------------------------------------------------------------------------
(* The descriptors. *)

LEMMA NoFileLines ==
    ASSUME NEW agent, NEW q, LinesFit(agent, q)
    PROVE  q # NoFile
BY MailAssumption DEF LinesFit

\* A process closes what it has open, or has nothing open, and no file changes.
LEMMA FdsClosed ==
    ASSUME FdsFit, NEW p \in MailProcs, fd' \in [MailProcs -> Places], fd'[p] = "none",
           \A q \in MailProcs \ {p} : fd'[q] = fd[q] /\ doing'[q] = doing[q],
           UNCHANGED <<single, exported, temp, mixed>>
    PROVE  FdsFit'
<1>1. \A q \in MailProcs \ {p} : Target(q)' = Target(q)
  BY DEF Target
<1>2. ASSUME NEW q \in MailProcs, fd'[q] # "none"
      PROVE  /\ Writing(doing'[q]) /\ Target(q)' \in MailAgents
             /\ fd'[q] = "temp" => temp'[Target(q)'] # NoFile /\ (Target(q)' \in mixed' \/ temp'[Target(q)'] = <<>>)
             /\ fd'[q] = "exported" => Target(q)' \in mixed' \/ exported'[Target(q)'] = <<>>
             /\ fd'[q] # "gone" =>
                   \A k \in MailProcs \ {q} : fd'[k] = fd'[q] /\ Target(k)' = Target(q)' => Target(q)' \in mixed'
  <2>1. q \in MailProcs \ {p} /\ fd'[q] = fd[q] /\ doing'[q] = doing[q] /\ Target(q)' = Target(q)
    BY <1>1, <1>2
  <2>2. ASSUME fd'[q] # "gone", NEW k \in MailProcs \ {q}, fd'[k] = fd'[q], Target(k)' = Target(q)'
        PROVE  Target(q)' \in mixed'
    <3>1. k # p /\ fd[k] = fd[q] /\ Target(k) = Target(q)
      BY <1>1, <1>2, <2>1, <2>2
    <3> QED BY <2>1, <2>2, <3>1, <1>2 DEF FdsFit, HoldersFit
  <2> QED BY <1>2, <2>1, <2>2 DEF FdsFit, HoldersFit
<1>3. mixed' \subseteq MailAgents /\ (single' => mixed' = {} /\ \A q \in MailProcs : fd'[q] \in {"none", "temp"})
  BY DEF FdsFit
<1> QED BY <1>2, <1>3 DEF FdsFit, HoldersFit

\* With one process, nothing is open but what it has open.
LEMMA AloneOpen ==
    ASSUME MailInv, single, NEW p \in MailProcs, fd[p] = "none", doing[p] # Booting, NEW q \in MailProcs
    PROVE  fd[q] = "none"
<1>1. q # p => doing[q] = Booting
  BY AloneProcess
<1>2. ~Writing(Booting)
  BY DEF Writing, Booting
<1> QED BY <1>1, <1>2 DEF MailInv, FdsFit, HoldersFit

LEMMA FdsOpened ==
    ASSUME MailInv, NEW p \in MailProcs, fd[p] = "none", doing[p] # Booting, NEW agent \in MailAgents,
           Opened(p, agent), \A q \in MailProcs \ {p} : doing'[q] = doing[q],
           Target(p)' = agent, Writing(doing'[p]), UNCHANGED <<single, exported>>
    PROVE  FdsFit'
<1>0. FdsFit /\ FilesFit
  BY DEF MailInv
<1>1. \A q \in MailProcs \ {p} : Target(q)' = Target(q)
  BY DEF Target
<1>2. /\ fd' = [fd EXCEPT ![p] = "temp"] /\ temp' = [temp EXCEPT ![agent] = <<>>]
      /\ mixed' = IF \E q \in MailProcs : At(q, "temp", agent) THEN mixed \cup {agent} ELSE mixed
  BY DEF Opened
<1>3. fd \in [MailProcs -> Places] /\ DOMAIN temp = MailAgents /\ mixed \subseteq MailAgents
  BY <1>0 DEF FdsFit, FilesFit
<1>4. /\ fd' \in [MailProcs -> Places] /\ fd'[p] = "temp" /\ \A q \in MailProcs \ {p} : fd'[q] = fd[q]
      /\ \A a \in MailAgents : temp'[a] = IF a = agent THEN <<>> ELSE temp[a]
      /\ mixed' \subseteq MailAgents /\ mixed \subseteq mixed'
      /\ \A q \in MailProcs : fd[q] = "temp" /\ Target(q) = agent => agent \in mixed'
  BY <1>2, <1>3 DEF Places, At
<1>5. <<>> # NoFile
  <2>1. <<>> \in Seq(Line)
    OBVIOUS
  <2> QED BY <2>1, MailAssumption
<1>6. ASSUME NEW q \in MailProcs, fd'[q] # "none"
      PROVE  /\ Writing(doing'[q]) /\ Target(q)' \in MailAgents
             /\ fd'[q] = "temp" => temp'[Target(q)'] # NoFile /\ (Target(q)' \in mixed' \/ temp'[Target(q)'] = <<>>)
             /\ fd'[q] = "exported" => Target(q)' \in mixed' \/ exported'[Target(q)'] = <<>>
             /\ fd'[q] # "gone" =>
                   \A k \in MailProcs \ {q} : fd'[k] = fd'[q] /\ Target(k)' = Target(q)' => Target(q)' \in mixed'
  <2>1. CASE q = p
    <3>1. ASSUME NEW k \in MailProcs \ {q}, fd'[k] = fd'[q], Target(k)' = Target(q)' PROVE Target(q)' \in mixed'
      <4>1. fd[k] = "temp" /\ Target(k) = agent
        BY <1>1, <1>4, <2>1, <3>1
      <4> QED BY <1>4, <2>1, <4>1
    <3> QED BY <1>4, <1>5, <2>1, <3>1
  <2>2. CASE q # p
    <3>1. fd'[q] = fd[q] /\ doing'[q] = doing[q] /\ Target(q)' = Target(q)
      BY <1>1, <1>4, <2>2
    <3>2. /\ Writing(doing[q]) /\ Target(q) \in MailAgents
          /\ fd[q] = "temp" => temp[Target(q)] # NoFile /\ (Target(q) \in mixed \/ temp[Target(q)] = <<>>)
          /\ fd[q] = "exported" => Target(q) \in mixed \/ exported[Target(q)] = <<>>
          /\ fd[q] # "gone" =>
                \A k \in MailProcs \ {q} : fd[k] = fd[q] /\ Target(k) = Target(q) => Target(q) \in mixed
      BY <1>0, <1>6, <3>1 DEF FdsFit, HoldersFit
    <3>3. ASSUME fd'[q] # "gone", NEW k \in MailProcs \ {q}, fd'[k] = fd'[q], Target(k)' = Target(q)'
          PROVE  Target(q)' \in mixed'
      <4>1. CASE k = p
        BY <1>4, <3>1, <3>3, <4>1
      <4>2. CASE k # p
        BY <1>1, <1>4, <3>1, <3>2, <3>3, <4>2
      <4> QED BY <4>1, <4>2
    <3>4. fd'[q] = "temp" => temp'[Target(q)'] # NoFile /\ (Target(q)' \in mixed' \/ temp'[Target(q)'] = <<>>)
      BY <1>4, <1>5, <3>1, <3>2
    <3> QED BY <1>4, <3>1, <3>2, <3>3, <3>4
  <2> QED BY <2>1, <2>2
<1>7. single' => mixed' = {} /\ \A q \in MailProcs : fd'[q] \in {"none", "temp"}
  <2> SUFFICES ASSUME single PROVE mixed' = {} /\ \A q \in MailProcs : fd'[q] \in {"none", "temp"}
    OBVIOUS
  <2>1. \A q \in MailProcs : fd[q] = "none"
    BY AloneOpen
  <2>2. mixed = {}
    BY <1>0 DEF FdsFit
  <2> QED BY <1>2, <1>4, <2>1, <2>2 DEF At
<1> QED BY <1>4, <1>6, <1>7 DEF FdsFit, HoldersFit

LEMMA FdsWritten ==
    ASSUME MailInv, NEW p \in MailProcs, fd[p] # "none", NEW lines, LinesFit(Target(p), lines),
           Written(p, Target(p), lines),
           \A q \in MailProcs \ {p} : doing'[q] = doing[q], UNCHANGED <<single, mixed>>
    PROVE  FdsFit'
<1>0. FdsFit /\ FilesFit
  BY DEF MailInv
<1>1. \A q \in MailProcs \ {p} : Target(q)' = Target(q)
  BY DEF Target
<1>2. /\ \A a \in MailAgents : temp'[a] = temp[a] \/ LinesFit(a, temp'[a])
      /\ fd[p] # "temp" => temp' = temp
      /\ fd[p] # "exported" => exported' = exported
      /\ \A a \in MailAgents \ {Target(p)} : exported'[a] = exported[a] /\ temp'[a] = temp[a]
      /\ fd' = [fd EXCEPT ![p] = "none"]
  BY <1>0, WrittenFits
<1>3. /\ fd' \in [MailProcs -> Places] /\ fd'[p] = "none" /\ \A q \in MailProcs \ {p} : fd'[q] = fd[q]
  BY <1>0, <1>2 DEF FdsFit, Places
<1>6. ASSUME NEW q \in MailProcs, fd'[q] # "none"
      PROVE  /\ Writing(doing'[q]) /\ Target(q)' \in MailAgents
             /\ fd'[q] = "temp" => temp'[Target(q)'] # NoFile /\ (Target(q)' \in mixed' \/ temp'[Target(q)'] = <<>>)
             /\ fd'[q] = "exported" => Target(q)' \in mixed' \/ exported'[Target(q)'] = <<>>
             /\ fd'[q] # "gone" =>
                   \A k \in MailProcs \ {q} : fd'[k] = fd'[q] /\ Target(k)' = Target(q)' => Target(q)' \in mixed'
  <2>1. q \in MailProcs \ {p} /\ fd'[q] = fd[q] /\ doing'[q] = doing[q] /\ Target(q)' = Target(q)
    BY <1>1, <1>3, <1>6
  <2>2. /\ Writing(doing[q]) /\ Target(q) \in MailAgents
        /\ fd[q] = "temp" => temp[Target(q)] # NoFile /\ (Target(q) \in mixed \/ temp[Target(q)] = <<>>)
        /\ fd[q] = "exported" => Target(q) \in mixed \/ exported[Target(q)] = <<>>
        /\ fd[q] # "gone" =>
              \A k \in MailProcs \ {q} : fd[k] = fd[q] /\ Target(k) = Target(q) => Target(q) \in mixed
    BY <1>0, <1>6, <2>1 DEF FdsFit, HoldersFit
  <2>3. ASSUME fd'[q] # "gone", NEW k \in MailProcs \ {q}, fd'[k] = fd'[q], Target(k)' = Target(q)'
        PROVE  Target(q)' \in mixed'
    <3>1. k # p /\ fd[k] = fd[q] /\ Target(k) = Target(q)
      BY <1>1, <1>3, <1>6, <2>1, <2>3
    <3> QED BY <2>1, <2>2, <2>3, <3>1
  <2>4. fd[q] # "gone" /\ fd[q] = fd[p] /\ Target(q) = Target(p) => Target(q) \in mixed
    BY <2>1, <2>2
  <2>5. ASSUME fd[q] = "temp"
        PROVE  temp'[Target(q)] # NoFile /\ (Target(q) \in mixed \/ temp'[Target(q)] = <<>>)
    <3>1. temp'[Target(q)] = temp[Target(q)] \/ LinesFit(Target(q), temp'[Target(q)])
      BY <1>2, <2>2
    <3>2. temp'[Target(q)] # NoFile
      BY <2>2, <2>5, <3>1, NoFileLines
    <3>3. CASE fd[p] = "temp" /\ Target(p) = Target(q)
      BY <2>4, <2>5, <3>2, <3>3
    <3>4. CASE ~(fd[p] = "temp" /\ Target(p) = Target(q))
      <4>1. temp'[Target(q)] = temp[Target(q)]
        BY <1>2, <2>2, <3>4
      <4> QED BY <2>2, <2>5, <4>1
    <3> QED BY <3>3, <3>4
  <2>6. ASSUME fd[q] = "exported" PROVE Target(q) \in mixed \/ exported'[Target(q)] = <<>>
    <3>1. CASE fd[p] = "exported" /\ Target(p) = Target(q)
      BY <2>4, <2>6, <3>1
    <3>2. CASE ~(fd[p] = "exported" /\ Target(p) = Target(q))
      <4>1. exported'[Target(q)] = exported[Target(q)]
        BY <1>2, <2>2, <3>2
      <4> QED BY <2>2, <2>6, <4>1
    <3> QED BY <3>1, <3>2
  <2> QED BY <2>1, <2>2, <2>3, <2>5, <2>6
<1>7. mixed' \subseteq MailAgents /\ (single' => mixed' = {} /\ \A q \in MailProcs : fd'[q] \in {"none", "temp"})
  BY <1>0, <1>3 DEF FdsFit
<1> QED BY <1>3, <1>6, <1>7 DEF FdsFit, HoldersFit

LEMMA FdsRenamed ==
    ASSUME MailInv, NEW p \in MailProcs, fd[p] = "none", doing[p] # Booting, NEW agent \in MailAgents,
           Renamed(agent), \A q \in MailProcs \ {p} : doing'[q] = doing[q], UNCHANGED <<single, mixed>>
    PROVE  FdsFit'
<1>0. FdsFit /\ FilesFit
  BY DEF MailInv
<1>1. \A q \in MailProcs \ {p} : Target(q)' = Target(q)
  BY DEF Target
<1>2. /\ exported' = [exported EXCEPT ![agent] = temp[agent]] /\ temp' = [temp EXCEPT ![agent] = NoFile]
      /\ fd' = [q \in MailProcs |-> IF At(q, "temp", agent) THEN "exported"
                                    ELSE IF At(q, "exported", agent) THEN "gone" ELSE fd[q]]
  BY DEF Renamed
<1>3. DOMAIN exported = MailAgents /\ DOMAIN temp = MailAgents /\ fd \in [MailProcs -> Places]
  BY <1>0 DEF FdsFit, FilesFit
<1>4. /\ fd' \in [MailProcs -> Places] /\ fd'[p] = "none"
      /\ \A q \in MailProcs : fd'[q] = IF fd[q] = "temp" /\ Target(q) = agent THEN "exported"
                                       ELSE IF fd[q] = "exported" /\ Target(q) = agent THEN "gone" ELSE fd[q]
      /\ exported'[agent] = temp[agent]
      /\ \A a \in MailAgents \ {agent} : exported'[a] = exported[a] /\ temp'[a] = temp[a]
  <2>1. \A q \in MailProcs : fd'[q] = IF fd[q] = "temp" /\ Target(q) = agent THEN "exported"
                                       ELSE IF fd[q] = "exported" /\ Target(q) = agent THEN "gone" ELSE fd[q]
    BY <1>2 DEF At
  <2>2. fd' = [q \in MailProcs |-> fd'[q]]
    BY <1>2
  <2>3. fd' \in [MailProcs -> Places]
    BY <1>3, <2>1, <2>2 DEF Places
  <2> QED BY <1>2, <1>3, <2>1, <2>3
<1>6. ASSUME NEW q \in MailProcs, fd'[q] # "none"
      PROVE  /\ Writing(doing'[q]) /\ Target(q)' \in MailAgents
             /\ fd'[q] = "temp" => temp'[Target(q)'] # NoFile /\ (Target(q)' \in mixed' \/ temp'[Target(q)'] = <<>>)
             /\ fd'[q] = "exported" => Target(q)' \in mixed' \/ exported'[Target(q)'] = <<>>
             /\ fd'[q] # "gone" =>
                   \A k \in MailProcs \ {q} : fd'[k] = fd'[q] /\ Target(k)' = Target(q)' => Target(q)' \in mixed'
  <2>1. q \in MailProcs \ {p} /\ doing'[q] = doing[q] /\ Target(q)' = Target(q) /\ fd[q] # "none"
    BY <1>1, <1>4, <1>6
  <2>2. /\ Writing(doing[q]) /\ Target(q) \in MailAgents
        /\ fd[q] = "temp" => temp[Target(q)] # NoFile /\ (Target(q) \in mixed \/ temp[Target(q)] = <<>>)
        /\ fd[q] = "exported" => Target(q) \in mixed \/ exported[Target(q)] = <<>>
        /\ fd[q] # "gone" =>
              \A k \in MailProcs \ {q} : fd[k] = fd[q] /\ Target(k) = Target(q) => Target(q) \in mixed
    BY <1>0, <2>1 DEF FdsFit, HoldersFit
  <2>3. ASSUME fd'[q] # "gone", NEW k \in MailProcs \ {q}, fd'[k] = fd'[q], Target(k)' = Target(q)'
        PROVE  Target(q)' \in mixed'
    <3>1. k # p /\ Target(k) = Target(q)
      BY <1>1, <1>4, <1>6, <2>1, <2>3
    <3>2. fd[k] = fd[q] /\ fd[q] # "gone"
      BY <1>4, <2>3, <3>1
    <3> QED BY <2>1, <2>2, <3>1, <3>2
  <2>5. ASSUME fd'[q] = "temp"
        PROVE  temp'[Target(q)] # NoFile /\ (Target(q) \in mixed \/ temp'[Target(q)] = <<>>)
    <3>1. fd[q] = "temp" /\ Target(q) # agent
      BY <1>4, <2>5
    <3> QED BY <1>4, <2>2, <3>1
  <2>6. ASSUME fd'[q] = "exported" PROVE Target(q) \in mixed \/ exported'[Target(q)] = <<>>
    <3>1. CASE fd[q] = "temp" /\ Target(q) = agent
      BY <1>4, <2>2, <3>1
    <3>2. CASE fd[q] = "exported" /\ Target(q) # agent
      BY <1>4, <2>2, <3>2
    <3> QED BY <1>4, <2>6, <3>1, <3>2
  <2> QED BY <2>1, <2>2, <2>3, <2>5, <2>6
<1>7. mixed' \subseteq MailAgents /\ (single' => mixed' = {} /\ \A q \in MailProcs : fd'[q] \in {"none", "temp"})
  <2>1. single => \A q \in MailProcs : fd[q] = "none"
    BY AloneOpen
  <2> QED BY <1>0, <1>4, <2>1 DEF FdsFit
<1> QED BY <1>4, <1>6, <1>7 DEF FdsFit, HoldersFit

LEMMA FdsSame ==
    ASSUME FdsFit, UNCHANGED <<single, exported, temp, fd, doing, mixed>>
    PROVE  FdsFit'
<1>1. \A q : Target(q)' = Target(q)
  BY DEF Target
<1> QED BY <1>1 DEF FdsFit, HoldersFit

\* A process that is not writing has nothing open.
LEMMA NothingOpen ==
    ASSUME MailInv, NEW p \in MailProcs, ~Writing(doing[p])
    PROVE  fd[p] = "none" /\ fd \in [MailProcs -> Places]
BY DEF MailInv, FdsFit, HoldersFit

\* Every step of a process keeps the descriptors right.
LEMMA FdsStep ==
    ASSUME MailInv, NEW p \in MailProcs, Recipients \subseteq MailAgents,
           \/ \E to \in Recipients : whisper(p, to) \/ ReconcileOpens(p, to)
           \/ \E first, second \in Recipients, valid \in BOOLEAN : broadcast(p, first, second, valid)
           \/ \E row \in mail : markRead(p, row.to, row)
           \/ \E works \in BOOLEAN : AppendReads(p, works)
           \/ AppendOpens(p) \/ AppendWrites(p) \/ AppendRenames(p)
           \/ ReconcileReads(p) \/ ReconcileWrites(p) \/ ReconcileRenames(p) \/ ReconcileEnds(p) \/ MailCrash(p)
    PROVE  FdsFit'
<1>0. FilesFit /\ FdsFit /\ DOMAIN doing = MailProcs
  BY ProcessTyped DEF MailInv
<1>1. ASSUME ~Writing(doing[p]), UNCHANGED <<single, exported, temp, fd, mixed>>,
             doing' = doing \/ \E now : doing' = [doing EXCEPT ![p] = now]
      PROVE  FdsFit'
  BY <1>0, <1>1, NothingOpen, FdsClosed
<1>2. ~Writing(Resting) /\ ~Writing(Booting)
  BY DEF Writing, Resting, Booting
<1>3. ASSUME NEW to \in Recipients, whisper(p, to) PROVE FdsFit'
  BY <1>1, <1>2, <1>3 DEF whisper
<1>4. ASSUME NEW first \in Recipients, NEW second \in Recipients, NEW valid \in BOOLEAN,
             broadcast(p, first, second, valid)
      PROVE  FdsFit'
  <2>1. doing' = doing \/ \E now : doing' = [doing EXCEPT ![p] = now]
    BY <1>4 DEF broadcast
  <2> QED BY <1>1, <1>2, <1>4, <2>1 DEF broadcast
<1>5. ASSUME NEW row \in mail, markRead(p, row.to, row) PROVE FdsFit'
  BY <1>1, <1>2, <1>5 DEF markRead
<1>6. ASSUME NEW works \in BOOLEAN, AppendReads(p, works) PROVE FdsFit'
  <2>1. ~Writing(doing[p])
    BY <1>6 DEF AppendReads, Writing
  <2> QED BY <1>1, <1>6, <2>1 DEF AppendReads
<1>7. CASE ReconcileReads(p)
  BY <1>1, <1>2, <1>7 DEF ReconcileReads
<1>8. CASE ReconcileEnds(p)
  <2>1. ~Writing(doing[p])
    BY <1>8 DEF ReconcileEnds, Writing
  <2> QED BY <1>1, <1>8, <2>1 DEF ReconcileEnds
<1>9. CASE MailCrash(p)
  <2>1. fd \in [MailProcs -> Places] /\ fd' = [fd EXCEPT ![p] = "none"]
    BY <1>0, <1>9 DEF MailCrash, FdsFit
  <2>2. fd' \in [MailProcs -> Places] /\ fd'[p] = "none" /\ \A q \in MailProcs \ {p} : fd'[q] = fd[q]
    BY <2>1 DEF Places
  <2>3. \A q \in MailProcs \ {p} : doing'[q] = doing[q]
    BY <1>0, <1>9 DEF MailCrash
  <2>4. UNCHANGED <<single, exported, temp, mixed>>
    BY <1>9 DEF MailCrash
  <2> QED BY <1>0, <2>2, <2>3, <2>4, FdsClosed
<1>10. CASE AppendOpens(p)
  <2> DEFINE agent == doing[p].rows[1].to
  <2>1. /\ doing[p].kind = "append" /\ doing[p].step = "write" /\ fd[p] = "none" /\ Opened(p, agent)
        /\ doing' = doing /\ UNCHANGED <<single, exported>>
    BY <1>10 DEF AppendOpens
  <2>2. agent \in MailAgents
    BY <1>0, <2>1, AppenderTyped
  <2>3. Target(p)' = agent /\ Writing(doing'[p]) /\ doing[p] # Booting
    BY <2>1 DEF Target, Writing, Booting
  <2> HIDE DEF agent
  <2> QED BY <2>1, <2>2, <2>3, FdsOpened
<1>11. ASSUME NEW agent \in Recipients, ReconcileOpens(p, agent) PROVE FdsFit'
  <2>1. /\ doing[p].kind = "reconcile" /\ doing[p].written = NoFile /\ Opened(p, agent)
        /\ doing' = [doing EXCEPT ![p].written = agent] /\ UNCHANGED <<single, exported>>
    BY <1>11 DEF ReconcileOpens
  <2>2. fd[p] = "none" /\ doing[p] # Booting
    BY <2>1, NothingOpen DEF Writing, Booting
  <2>3. doing[p] \in Reconciler
    BY <1>0, <2>1, ReconcilerTyped
  <2>4. doing'[p] = [doing[p] EXCEPT !.written = agent] /\ \A q \in MailProcs \ {p} : doing'[q] = doing[q]
    BY <1>0, <2>1
  <2>5. doing'[p].kind = "reconcile" /\ doing'[p].written = agent
    BY <2>1, <2>3, <2>4 DEF Reconciler
  <2>6. agent # NoFile /\ agent \in MailAgents
    BY MailAssumption
  <2>7. Target(p)' = agent /\ Writing(doing'[p])
    BY <2>5, <2>6 DEF Target, Writing
  <2> QED BY <2>1, <2>2, <2>4, <2>6, <2>7, FdsOpened
<1>12. CASE AppendWrites(p)
  <2> DEFINE agent == doing[p].rows[1].to
             line == Append(doing[p].lines, doing[p].rows[1])
  <2>1. /\ doing[p].kind = "append" /\ fd[p] # "none" /\ Written(p, agent, line)
        /\ doing' = [doing EXCEPT ![p].step = "rename"] /\ UNCHANGED <<single, mixed>>
    BY <1>12 DEF AppendWrites
  <2>2. Target(p) = agent
    BY <2>1 DEF Target
  <2>3. LinesFit(agent, line)
    BY <1>0, <2>1, AppenderTyped, LineAdded
  <2>4. \A q \in MailProcs \ {p} : doing'[q] = doing[q]
    BY <1>0, <2>1
  <2> HIDE DEF agent, line
  <2> QED BY <2>1, <2>2, <2>3, <2>4, FdsWritten
<1>13. CASE ReconcileWrites(p)
  <2> DEFINE agent == doing[p].written
             lines == RowsTo(agent, doing[p].rows)
  <2>1. /\ doing[p].kind = "reconcile" /\ agent # NoFile /\ fd[p] # "none" /\ Written(p, agent, lines)
        /\ UNCHANGED <<single, mixed, doing>>
    BY <1>13 DEF ReconcileWrites
  <2>2. Target(p) = agent
    BY <2>1 DEF Target
  <2>3. LinesFit(agent, lines)
    <3>1. MailRowsFit(doing[p].rows) /\ \A r \in doing[p].rows : Known(r.to, r)
      BY <1>0, <2>1, ReconcilerTyped
    <3> QED BY <3>1, RowsToKnown
  <2>4. \A q \in MailProcs \ {p} : doing'[q] = doing[q]
    BY <2>1
  <2> HIDE DEF agent, lines
  <2> QED BY <2>1, <2>2, <2>3, <2>4, FdsWritten
<1>14. CASE AppendRenames(p)
  <2> DEFINE agent == doing[p].rows[1].to
  <2>1. /\ doing[p].kind = "append" /\ doing[p].step = "rename"
        /\ (temp[agent] # NoFile /\ Renamed(agent)) \/ UNCHANGED <<exported, temp, fd>>
        /\ \E now : doing' = [doing EXCEPT ![p] = now]
        /\ UNCHANGED <<single, mixed>>
    BY <1>14 DEF AppendRenames
  <2>2. ~Writing(doing[p]) /\ doing[p] # Booting /\ agent \in MailAgents
    BY <1>0, <2>1, AppenderTyped DEF Writing, Booting
  <2>3. fd[p] = "none" /\ \A q \in MailProcs \ {p} : doing'[q] = doing[q]
    BY <1>0, <2>1, <2>2, NothingOpen
  <2> HIDE DEF agent
  <2>4. CASE Renamed(agent)
    BY <2>1, <2>2, <2>3, <2>4, FdsRenamed
  <2>5. CASE UNCHANGED <<exported, temp, fd>>
    BY <1>1, <2>1, <2>2, <2>5
  <2> QED BY <2>1, <2>4, <2>5
<1>15. CASE ReconcileRenames(p)
  <2> DEFINE agent == doing[p].written
  <2>1. /\ doing[p].kind = "reconcile" /\ agent # NoFile /\ fd[p] = "none"
        /\ (temp[agent] # NoFile /\ Renamed(agent)) \/ UNCHANGED <<exported, temp, fd>>
        /\ \E now : doing' = [doing EXCEPT ![p] = now]
        /\ UNCHANGED <<single, mixed>>
    BY <1>15 DEF ReconcileRenames
  <2>2. doing[p] # Booting /\ agent \in MailAgents
    BY <1>0, <2>1, ReconcilerTyped DEF Booting
  <2>3. fd \in [MailProcs -> Places] /\ \A q \in MailProcs \ {p} : doing'[q] = doing[q]
    BY <1>0, <2>1 DEF FdsFit
  <2> HIDE DEF agent
  <2>4. CASE Renamed(agent)
    BY <2>1, <2>2, <2>3, <2>4, FdsRenamed
  <2>5. CASE UNCHANGED <<exported, temp, fd>>
    BY <1>0, <2>1, <2>3, <2>5, FdsClosed
  <2> QED BY <2>1, <2>4, <2>5
<1> QED BY <1>3, <1>4, <1>5, <1>6, <1>7, <1>8, <1>9, <1>10, <1>11, <1>12, <1>13, <1>14, <1>15

LEMMA MailInvInit ==
    ASSUME MailInit
    PROVE  MailInv
<1>0. MaxMs \in Nat /\ MaxRandom \in Nat /\ NoFile \notin MailAgents
  BY MailAssumption
<1>1. mail = {} /\ MailRowsFit(mail)
  BY FS_EmptySet DEF MailInit, MailRowsFit
<1>2. \A p \in MailProcs : doing[p] = Booting
  BY DEF MailInit
<1>3. DoingTyped(Booting) /\ DoingFits(Booting)
  BY DEF DoingTyped, DoingFits, Booting
<1>4. \A a : LinesFit(a, <<>>)
  BY DEF LinesFit
<1>5. lastId \in [MailProcs -> LastId]
  BY <1>0 DEF MailInit, LastId
<1>6. FilesFit
  <2>1. single \in BOOLEAN /\ strayed \in BOOLEAN /\ ms \in 0..MaxMs
    <3>1. strayed = FALSE /\ ms = 0
      BY DEF MailInit
    <3>2. single \in BOOLEAN
      BY DEF MailInit
    <3>3. 0 \in 0..MaxMs
      BY <1>0
    <3> QED BY <3>1, <3>2, <3>3
  <2>2. DOMAIN exported = MailAgents /\ \A a \in MailAgents : LinesFit(a, exported[a])
    BY <1>4 DEF MailInit
  <2>3. DOMAIN temp = MailAgents /\ \A a \in MailAgents : temp[a] = NoFile
    BY DEF MailInit
  <2>4. doing = [p \in MailProcs |-> doing[p]]
    BY DEF MailInit
  <2> QED BY <1>1, <1>2, <1>3, <1>5, <2>1, <2>2, <2>3, <2>4 DEF FilesFit
<1>7. AloneFits
  <2>1. TheProcess \in MailProcs
    BY MailAssumption DEF TheProcess
  <2>2. IdsAt(mail, lastId[TheProcess], ms)
    BY <1>1, <2>1 DEF MailInit, IdsAt
  <2>3. \A a \in MailAgents : fileMatchesDb(a)
    BY <1>1, NoRowsTo DEF MailInit, fileMatchesDb
  <2> QED BY <1>2, <2>1, <2>2, <2>3 DEF AloneFits, Booting
<1>8. FdsFit
  <2>1. fd = [p \in MailProcs |-> "none"] /\ mixed = {}
    BY DEF MailInit
  <2> QED BY <2>1 DEF FdsFit, HoldersFit, Places
<1> QED BY <1>6, <1>7, <1>8 DEF MailInv

LEMMA MailInvStep ==
    ASSUME MailInv, [MailNext]_mailVars
    PROVE  MailInv'
<1>1. Recipients \subseteq MailAgents
  BY MailAssumption DEF Recipients
<1>2. CASE MailTick
  <2>1. FdsFit'
    <3>1. PICK p \in MailProcs : TRUE
      BY MailAssumption
    <3>2. UNCHANGED <<single, exported, temp, fd, doing, mixed>> /\ FdsFit
      BY <1>2 DEF MailTick, MailInv
    <3> QED BY <3>2, FdsSame
  <2> QED BY <1>2, <2>1, MailTickStep DEF MailInv
<1>3. ASSUME NEW p \in MailProcs,
             \/ \E to \in Recipients : whisper(p, to) \/ ReconcileOpens(p, to)
             \/ \E first, second \in Recipients, valid \in BOOLEAN : broadcast(p, first, second, valid)
             \/ \E row \in mail : markRead(p, row.to, row)
             \/ \E works \in BOOLEAN : AppendReads(p, works)
             \/ AppendOpens(p) \/ AppendWrites(p) \/ AppendRenames(p)
             \/ ReconcileReads(p) \/ ReconcileWrites(p) \/ ReconcileRenames(p) \/ ReconcileEnds(p) \/ MailCrash(p)
      PROVE  MailInv'
  <2>1. FdsFit'
    BY <1>1, <1>3, FdsStep
  <2>2. ASSUME NEW to \in Recipients, whisper(p, to) \/ ReconcileOpens(p, to) PROVE FilesFit' /\ AloneFits'
    BY <1>1, <2>2, WhisperStep, ReconcileOpensStep
  <2>3. ASSUME NEW first \in Recipients, NEW second \in Recipients, NEW valid \in BOOLEAN,
               broadcast(p, first, second, valid)
        PROVE  FilesFit' /\ AloneFits'
    BY <1>1, <2>3, BroadcastStep
  <2>4. ASSUME NEW row \in mail, markRead(p, row.to, row) PROVE FilesFit' /\ AloneFits'
    BY <2>4, MarkReadStep
  <2>5. ASSUME NEW works \in BOOLEAN, AppendReads(p, works) PROVE FilesFit' /\ AloneFits'
    BY <2>5, AppendReadsStep
  <2>6. ASSUME AppendOpens(p) \/ AppendWrites(p) \/ AppendRenames(p) PROVE FilesFit' /\ AloneFits'
    BY <2>6, AppendOpensStep, AppendWritesStep, AppendRenamesStep
  <2>7. ASSUME ReconcileReads(p) \/ ReconcileWrites(p) \/ ReconcileRenames(p) \/ ReconcileEnds(p) \/ MailCrash(p)
        PROVE  FilesFit' /\ AloneFits'
    BY <2>7, ReconcileReadsStep, ReconcileWritesStep, ReconcileRenamesStep, ReconcileEndsStep, MailCrashStep
  <2>8. FilesFit' /\ AloneFits'
    BY <1>3, <2>2, <2>3, <2>4, <2>5, <2>6, <2>7
  <2> QED BY <2>1, <2>8 DEF MailInv
<1>4. CASE UNCHANGED mailVars
  <2>1. FilesFit'
    BY <1>4 DEF mailVars, MailInv, FilesFit, MailRowsFit, LinesFit, LineFits, Known, DoingFits
  <2>2. AloneFits'
    <3>1. single => IdsAt(mail, lastId[TheProcess], ms)'
      BY <1>4 DEF mailVars, MailInv, AloneFits, IdsAt
    <3> QED BY <1>4, <3>1, AloneStays DEF mailVars, MailInv
  <2>3. FdsFit'
    BY <1>4, FdsSame DEF mailVars, MailInv
  <2> QED BY <2>1, <2>2, <2>3 DEF MailInv
<1> QED BY <1>2, <1>3, <1>4 DEF MailNext

LEMMA PrefixPlus ==
    ASSUME NEW q \in Seq(MailRow), NEW agent, NEW row \in MailRow
    PROVE  /\ Plus(q, agent, row) \in Seq(MailRow) /\ Len(q) <= Len(Plus(q, agent, row))
           /\ \A k \in 1..Len(q) : Plus(q, agent, row)[k] = q[k]
<1>1. CASE row.to = agent
  <2>1. /\ Append(q, row) \in Seq(MailRow) /\ Len(q) <= Len(Append(q, row))
        /\ \A k \in 1..Len(q) : Append(q, row)[k] = q[k]
    OBVIOUS
  <2> QED BY <1>1, <2>1 DEF Plus
<1>2. CASE row.to # agent
  BY <1>2 DEF Plus
<1> QED BY <1>1, <1>2

LEMMA LinesPrefix ==
    ASSUME NEW p \in Seq(MailRow), NEW q \in Seq(MailRow), Len(p) <= Len(q), \A k \in 1..Len(p) : p[k] = q[k]
    PROVE  IsPrefix(p, q)
<1>1. SubSeq(q, 1, Len(p)) = p
  <2> DEFINE n == Len(p)
  <2>1. n \in Nat /\ n <= Len(q) /\ p = [k \in 1..n |-> p[k]]
    OBVIOUS
  <2>2. SubSeq(q, 1, n) = [k \in 1..n |-> q[k]]
    <3> HIDE DEF n
    <3>1. SubSeq(q, 1, n) \in Seq(MailRow) /\ Len(SubSeq(q, 1, n)) = n /\ \A k \in 1..n : SubSeq(q, 1, n)[k] = q[k]
      BY <2>1
    <3> QED BY <3>1
  <2>3. [k \in 1..n |-> q[k]] = [k \in 1..n |-> p[k]]
    OBVIOUS
  <2> QED BY <2>1, <2>2, <2>3
<1> QED BY <1>1 DEF IsPrefix

LEMMA MailInvSound ==
    ASSUME MailInv
    PROVE  MailSound
<1>1. FilesFit
  BY DEF MailInv
<1>2. MailTypeOK
  <2>1. ASSUME NEW a \in MailAgents
        PROVE  /\ \A k \in DOMAIN exported[a] : exported[a][k] \in Line
               /\ temp[a] # NoFile => \A k \in DOMAIN temp[a] : temp[a][k] \in Line
    <3>1. exported[a] \in Seq(Line) /\ (temp[a] # NoFile => temp[a] \in Seq(Line))
      BY <1>1 DEF FilesFit, LinesFit
    <3> QED BY <3>1
  <2>2. \A p \in MailProcs : doing[p].kind \in {"resting", "booting", "append", "reconcile"}
    BY <1>1, DoingKinds DEF FilesFit
  <2>3. fd \in [MailProcs -> {"none", "temp", "exported", "gone"}] /\ mixed \subseteq MailAgents
    BY DEF MailInv, FdsFit, Places
  <2> QED BY <1>1, <2>1, <2>2, <2>3 DEF MailTypeOK, FilesFit, MailRowsFit
<1>3. LinesAreMail
  BY <1>1 DEF LinesAreMail, FilesFit, LinesFit, LineFits, Known
<1>4. FilesFollowTable
  <2> SUFFICES ASSUME single, ~strayed
               PROVE  /\ \A a \in MailAgents : IsPrefix(exported[a], RowsTo(a, mail))
                      /\ (\A p \in Processes : doing[p] = Resting) => \A a \in MailAgents : fileMatchesDb(a)
    BY DEF FilesFollowTable
  <2>1. TheProcess \in MailProcs /\ Processes = {TheProcess}
    BY MailAssumption DEF TheProcess, Processes
  <2>2. CASE doing[TheProcess].kind # "append"
    <3>1. \A a \in MailAgents : fileMatchesDb(a)
      BY <2>2 DEF MailInv, AloneFits
    <3>2. ASSUME NEW a \in MailAgents PROVE IsPrefix(exported[a], RowsTo(a, mail))
      <4> DEFINE q == exported[a]
      <4>1. q \in Seq(MailRow) /\ q = RowsTo(a, mail)
        BY <1>1, <3>1, AloneWhole DEF MailInv, fileMatchesDb
      <4> HIDE DEF q
      <4>2. IsPrefix(q, q)
        BY <4>1, LinesPrefix
      <4> QED BY <4>1, <4>2 DEF q
    <3> QED BY <3>1, <3>2
  <2>3. CASE doing[TheProcess].kind = "append"
    <3>1. AppendFits(doing[TheProcess])
      BY <2>3 DEF MailInv, AloneFits
    <3>2. PICK batch \in Seq(MailRow) : batch = doing[TheProcess].rows
      BY <1>1, <2>1, <2>3, AppenderTyped
    <3>3. Owed(batch)
      BY <3>1, <3>2 DEF AppendFits
    <3>4. ASSUME NEW a \in MailAgents PROVE IsPrefix(exported[a], RowsTo(a, mail))
      <4>1. PICK q \in Seq(MailRow) : q = exported[a]
        BY <1>1, AloneWhole DEF MailInv
      <4>2. CASE Len(batch) = 1 /\ RowsTo(a, mail) = Plus(q, a, batch[1])
        <5>1. batch[1] \in MailRow
          BY <4>2
        <5> DEFINE all == Plus(q, a, batch[1])
        <5>2. all \in Seq(MailRow) /\ Len(q) <= Len(all) /\ \A k \in 1..Len(q) : all[k] = q[k]
          BY <5>1, PrefixPlus
        <5> HIDE DEF all
        <5>3. IsPrefix(q, all)
          BY <5>2, LinesPrefix
        <5> QED BY <4>1, <4>2, <5>3 DEF all
      <4>3. CASE Len(batch) = 2 /\ RowsTo(a, mail) = Plus(Plus(q, a, batch[1]), a, batch[2])
        <5>0. Len(batch) = 2
          BY <4>3
        <5>1. batch[1] \in MailRow /\ batch[2] \in MailRow
          <6>1. 1 \in 1..Len(batch) /\ 2 \in 1..Len(batch)
            BY <5>0
          <6> QED BY <6>1, ElementOfSeq
        <5> DEFINE some == Plus(q, a, batch[1])
                   all == Plus(some, a, batch[2])
        <5>2. some \in Seq(MailRow) /\ Len(q) <= Len(some) /\ \A k \in 1..Len(q) : some[k] = q[k]
          BY <5>1, PrefixPlus
        <5>3. RowsTo(a, mail) = all
          BY <4>3
        <5> HIDE DEF some
        <5>4. all \in Seq(MailRow) /\ Len(some) <= Len(all) /\ \A k \in 1..Len(some) : all[k] = some[k]
          BY <5>1, <5>2, PrefixPlus
        <5> HIDE DEF all
        <5>5. Len(q) <= Len(all) /\ \A k \in 1..Len(q) : q[k] = all[k]
          BY <5>2, <5>4
        <5>6. IsPrefix(q, all)
          BY <5>4, <5>5, LinesPrefix
        <5> QED BY <4>1, <5>3, <5>6
      <4> QED BY <3>3, <4>1, <4>2, <4>3 DEF Owed
    <3> QED BY <2>1, <2>3, <3>4 DEF Resting
  <2> QED BY <2>2, <2>3
<1> QED BY <1>2, <1>3, <1>4 DEF MailSound

\* MailSpec: what a process is about to write are messages of the table, what a descriptor
\* is of is empty unless two processes opened the temporary file, and with one process the
\* appends it still owes make the files the table.
THEOREM MailInvariant == MailSpec => []MailInv
<1>1. MailInit => MailInv
  BY MailInvInit
<1>2. MailInv /\ [MailNext]_mailVars => MailInv'
  BY MailInvStep
<1> QED BY <1>1, <1>2, PTL DEF MailSpec

\* Whatever two processes, crashes and failed reads do to the exported files, their whole
\* lines are messages of the table and of their agent, and a torn one is there only where
\* two processes had the temporary file open at once; with one process, a file is a prefix
\* of the table's rows until something happens that only a reconcile repairs.
THEOREM MailCorrect == MailSpec => []MailSound
<1>1. MailInv => MailSound
  BY MailInvSound
<1> QED BY <1>1, MailInvariant, PTL

(***************************************************************************)
(* The audit log.                                                          *)
(***************************************************************************)

\* The least of a set of places.
LEMMA LeastPlace ==
    ASSUME NEW I \in SUBSET Nat, I # {}
    PROVE  Min(I) \in I /\ \A i \in I : Min(I) <= i
<1>1. PICK n \in I : \A m \in I : ~(<<m, n>> \in OpToRel(<, Nat))
  BY WFMin, NatLessThanWellFounded
<1>2. ASSUME NEW m \in I PROVE n <= m
  <2>1. ~(m < n) /\ m \in Nat /\ n \in Nat
    BY <1>1 DEF OpToRel
  <2> QED BY <2>1
<1> QED BY <1>2 DEF Min

\* The sequences over anything.
Listed(s) == s \in Seq({s[k] : k \in DOMAIN s})

\* The n-th row was written for the n-th entry of the log, behind the row before it.
WrittenRow(k, row, entry) ==
    row = [seq |-> k - 1, entry |-> entry, prev |-> row.prev,
           hmac |-> <<log[k].secret, k - 1, row.prev, log[k].entry>>]

LinkFits(k) == chain[k].prev = IF k = 1 THEN GENESIS_HMAC ELSE chain[k - 1].hmac

AuditTyped ==
    /\ keychain \in AuditSecrets \cup {NoSecret}
    /\ secretOf \in [AuditProcs -> AuditSecrets \cup {NoSecret, "missing"}]
    /\ Listed(chain)
    /\ log \in Seq([entry : Entry, secret : AuditSecrets]) /\ Len(log) <= MaxRows
    /\ damaged \in BOOLEAN /\ raced \in BOOLEAN

\* Unless two secrets met, there is one, and every row is written under it.
OneSecret ==
    /\ raced => keychain # NoSecret
    /\ ~raced => /\ \A p \in AuditProcs : secretOf[p] \in AuditSecrets => secretOf[p] = keychain
                 /\ \A k \in DOMAIN log : log[k].secret = keychain

\* The rows are those that were appended.
Intact ==
    /\ Len(chain) = Len(log)
    /\ \A k \in DOMAIN chain : WrittenRow(k, chain[k], Stored(log[k].entry)) /\ LinkFits(k)

\* One of them says something else.
Changed ==
    /\ Len(chain) = Len(log)
    /\ \A k \in DOMAIN chain : chain[k].seq = k - 1
    /\ \E k \in DOMAIN chain : \E entry : WrittenRow(k, chain[k], entry) /\ entry.action # log[k].entry.action

\* One of them is missing and others are behind it.
Holed ==
    /\ Len(chain) + 1 = Len(log)
    /\ \E c \in DOMAIN chain : \A k \in DOMAIN chain : chain[k].seq = IF k < c THEN k - 1 ELSE k

AuditInv ==
    /\ AuditTyped
    /\ OneSecret
    /\ ~damaged => Intact
    /\ damaged => Intact \/ Changed \/ Holed

LEMMA ListedFrom ==
    ASSUME NEW S, NEW s \in Seq(S)
    PROVE  Listed(s)
<1>1. s = [k \in 1..Len(s) |-> s[k]] /\ Len(s) \in Nat /\ DOMAIN s = 1..Len(s)
  OBVIOUS
<1>2. \A k \in 1..Len(s) : s[k] \in {s[j] : j \in DOMAIN s}
  BY <1>1
<1> QED BY <1>1, <1>2, IsASeq DEF Listed

LEMMA ListedAppend ==
    ASSUME NEW s, Listed(s), NEW x
    PROVE  /\ Listed(Append(s, x)) /\ Len(s) \in Nat /\ DOMAIN s = 1..Len(s)
           /\ Len(Append(s, x)) = Len(s) + 1 /\ DOMAIN Append(s, x) = 1..(Len(s) + 1)
           /\ \A k \in 1..Len(s) : Append(s, x)[k] = s[k]
           /\ Append(s, x)[Len(s) + 1] = x
<1> DEFINE S == {s[k] : k \in DOMAIN s} \cup {x}
<1>1. s \in Seq(S) /\ x \in S
  BY DEF Listed
<1> HIDE DEF S
<1>2. Append(s, x) \in Seq(S)
  BY <1>1
<1>3. Listed(Append(s, x))
  BY <1>2, ListedFrom
<1> QED BY <1>1, <1>3

LEMMA ListedRemove ==
    ASSUME NEW s, Listed(s), NEW k \in DOMAIN s
    PROVE  /\ Listed(RemoveAt(s, k)) /\ k \in 1..Len(s) /\ Len(s) \in Nat
           /\ Len(RemoveAt(s, k)) = Len(s) - 1 /\ DOMAIN RemoveAt(s, k) = 1..(Len(s) - 1)
           /\ \A j \in 1..(Len(s) - 1) : RemoveAt(s, k)[j] = IF j < k THEN s[j] ELSE s[j + 1]
<1> DEFINE S == {s[i] : i \in DOMAIN s}
           a == SubSeq(s, 1, k - 1)
           b == SubSeq(s, k + 1, Len(s))
<1>1. s \in Seq(S) /\ RemoveAt(s, k) = a \o b
  BY DEF Listed, RemoveAt
<1> HIDE DEF S
<1>2. k \in 1..Len(s) /\ Len(s) \in Nat
  BY <1>1
<1>3. /\ a \in Seq(S) /\ Len(a) = k - 1 /\ \A j \in 1..(k - 1) : a[j] = s[j]
      /\ b \in Seq(S) /\ Len(b) = Len(s) - k /\ \A j \in 1..(Len(s) - k) : b[j] = s[k + j]
  BY <1>1, <1>2
<1> HIDE DEF a, b
<1>4. /\ a \o b \in Seq(S) /\ Len(a \o b) = Len(s) - 1
      /\ \A j \in 1..(Len(s) - 1) : (a \o b)[j] = IF j < k THEN a[j] ELSE b[j - (k - 1)]
  <2>0. a \in Seq(S) /\ b \in Seq(S)
    BY <1>3
  <2>1. a \o b \in Seq(S) /\ Len(a \o b) = Len(a) + Len(b)
    BY <2>0, ConcatProperties
  <2>2. \A j \in 1..(Len(a) + Len(b)) : (a \o b)[j] = IF j <= Len(a) THEN a[j] ELSE b[j - Len(a)]
    BY <1>3, ConcatProperties
  <2>3. Len(a) + Len(b) = Len(s) - 1
    BY <1>2, <1>3
  <2>4. \A j \in 1..(Len(s) - 1) : j <= Len(a) <=> j < k
    BY <1>2, <1>3
  <2> QED BY <1>3, <2>1, <2>2, <2>3, <2>4
<1>5. ASSUME NEW j \in 1..(Len(s) - 1) PROVE (a \o b)[j] = IF j < k THEN s[j] ELSE s[j + 1]
  <2>1. CASE j < k
    BY <1>2, <1>3, <1>4, <2>1
  <2>2. CASE ~(j < k)
    <3>1. j - (k - 1) \in 1..(Len(s) - k) /\ k + (j - (k - 1)) = j + 1
      BY <1>2, <2>2
    <3> QED BY <1>3, <1>4, <2>2, <3>1
  <2> QED BY <2>1, <2>2
<1>6. Listed(a \o b)
  BY <1>4, ListedFrom
<1>7. DOMAIN (a \o b) = 1..Len(a \o b)
  BY <1>4
<1> QED BY <1>1, <1>2, <1>4, <1>5, <1>6, <1>7

LEMMA ListedChange ==
    ASSUME NEW s, Listed(s), NEW k \in DOMAIN s, NEW action
    PROVE  LET t == [s EXCEPT ![k].entry.action = action]
           IN /\ Listed(t) /\ Len(t) = Len(s) /\ DOMAIN t = 1..Len(s) /\ DOMAIN s = 1..Len(s)
              /\ \A j \in DOMAIN s : j # k => t[j] = s[j]
              /\ t[k] = [s[k] EXCEPT !.entry.action = action]
<1> DEFINE t == [s EXCEPT ![k].entry.action = action]
           row == [s[k] EXCEPT !.entry.action = action]
           S == {s[i] : i \in DOMAIN s} \cup {row}
<1>1. s \in Seq(S) /\ row \in S
  BY DEF Listed
<1>2. t = [s EXCEPT ![k] = row]
  OBVIOUS
<1> HIDE DEF S, row, t
<1>3. t \in Seq(S) /\ Len(t) = Len(s) /\ DOMAIN t = 1..Len(s) /\ DOMAIN s = 1..Len(s)
  BY <1>1, <1>2
<1>4. Listed(t)
  BY <1>3, ListedFrom
<1>5. t[k] = row /\ \A j \in DOMAIN s : j # k => t[j] = s[j]
  BY <1>1, <1>2
<1> QED BY <1>3, <1>4, <1>5 DEF t, row

-----------------------------------------------------------------------------
(* The invariant. *)

LEMMA RowWritten ==
    ASSUME NEW k, NEW row, NEW entry, WrittenRow(k, row, entry)
    PROVE  /\ row.seq = k - 1 /\ row.entry = entry
           /\ row.hmac = <<log[k].secret, k - 1, row.prev, log[k].entry>>
BY DEF WrittenRow

LEMMA SecretsLoaded ==
    ASSUME AuditInv, NEW p \in AuditProcs, LoadSecret(p)
    PROVE  AuditInv'
<1>1. AuditTyped'
  BY DEF AuditInv, AuditTyped, LoadSecret
<1>2. OneSecret'
  <2>1. UNCHANGED <<keychain, raced, log>>
    BY DEF LoadSecret
  <2>2. ASSUME ~raced, NEW q \in AuditProcs, secretOf'[q] \in AuditSecrets PROVE secretOf'[q] = keychain
    BY <2>2, AuditAssumption DEF LoadSecret, AuditInv, AuditTyped, OneSecret
  <2> QED BY <2>1, <2>2 DEF AuditInv, OneSecret
<1>3. UNCHANGED <<chain, log, damaged>>
  BY DEF LoadSecret
<1> QED BY <1>1, <1>2, <1>3 DEF AuditInv, Intact, Changed, Holed, WrittenRow, LinkFits

LEMMA SecretsCreated ==
    ASSUME AuditInv, NEW p \in AuditProcs, CreateSecret(p)
    PROVE  AuditInv'
<1>0. PICK fresh \in AuditSecrets : keychain' = fresh /\ secretOf' = [secretOf EXCEPT ![p] = fresh]
  BY DEF CreateSecret
<1>00. raced' = (keychain # NoSecret) /\ UNCHANGED <<chain, log, damaged>>
  BY DEF CreateSecret
<1>1. AuditTyped'
  BY <1>0, <1>00 DEF AuditInv, AuditTyped
<1>2. OneSecret'
  <2>1. keychain' # NoSecret
    BY <1>0, AuditAssumption
  <2>2. CASE keychain = NoSecret
    <3>1. ~raced
      BY <2>2 DEF AuditInv, OneSecret
    <3>2. \A q \in AuditProcs : secretOf[q] \notin AuditSecrets
      BY <2>2, <3>1, AuditAssumption DEF AuditInv, OneSecret
    <3>3. \A q \in AuditProcs : secretOf'[q] \in AuditSecrets => secretOf'[q] = keychain'
      BY <1>0, <3>2 DEF AuditInv, AuditTyped
    <3>4. DOMAIN log = {}
      <4>1. \A k \in DOMAIN log : log[k].secret \in AuditSecrets
        <5>1. log \in Seq([entry : Entry, secret : AuditSecrets])
          BY DEF AuditInv, AuditTyped
        <5>2. \A k \in DOMAIN log : log[k] \in [entry : Entry, secret : AuditSecrets]
          <6> SUFFICES ASSUME NEW k \in DOMAIN log PROVE log[k] \in [entry : Entry, secret : AuditSecrets]
            OBVIOUS
          <6>1. k \in 1..Len(log)
            BY <5>1
          <6> QED BY <5>1, <6>1, ElementOfSeq
        <5> QED BY <5>2
      <4> QED BY <2>2, <3>1, <4>1, AuditAssumption DEF AuditInv, OneSecret
    <3> QED BY <1>00, <2>1, <3>3, <3>4 DEF OneSecret
  <2>3. CASE keychain # NoSecret
    BY <1>00, <2>1, <2>3 DEF OneSecret
  <2> QED BY <2>2, <2>3
<1> QED BY <1>1, <1>2, <1>00 DEF AuditInv, Intact, Changed, Holed, WrittenRow, LinkFits

LEMMA AuditAppended ==
    ASSUME AuditInv, NEW p \in AuditProcs, NEW entry \in Entry, appendAudit(p, entry)
    PROVE  AuditInv'
<1> DEFINE prev == IF chain = <<>> THEN GENESIS_HMAC ELSE Last(chain).hmac
           seq == IF chain = <<>> THEN 0 ELSE Last(chain).seq + 1
           row == [seq |-> seq, entry |-> Stored(entry), prev |-> prev, hmac |-> hmacRow(secretOf[p], seq, prev, entry)]
           said == [entry |-> entry, secret |-> secretOf[p]]
           n == Len(chain)
           m == Len(log)
<1>1. /\ secretOf[p] \in AuditSecrets /\ m < MaxRows
      /\ chain' = Append(chain, row) /\ log' = Append(log, said)
      /\ UNCHANGED <<keychain, secretOf, damaged, raced>>
  BY DEF appendAudit
<1>2. /\ row.seq = seq /\ row.entry = Stored(entry) /\ row.prev = prev
      /\ row.hmac = <<secretOf[p], seq, prev, entry>>
  BY DEF hmacRow
<1>3. said \in [entry : Entry, secret : AuditSecrets] /\ said.entry = entry /\ said.secret = secretOf[p]
  BY <1>1
<1>4. /\ log \in Seq([entry : Entry, secret : AuditSecrets]) /\ Listed(chain)
      /\ m \in Nat
  BY DEF AuditInv, AuditTyped
<1>5. n \in Nat /\ DOMAIN chain = 1..n /\ (chain = <<>> <=> n = 0)
  <2>1. n \in Nat /\ DOMAIN chain = 1..n
    BY <1>4, ListedAppend
  <2>2. chain = <<>> <=> n = 0
    BY <1>4 DEF Listed
  <2> QED BY <2>1, <2>2
<1>6. /\ seq = (IF n = 0 THEN 0 ELSE chain[n].seq + 1)
      /\ prev = (IF n = 0 THEN GENESIS_HMAC ELSE chain[n].hmac)
  BY <1>5 DEF Last
<1> HIDE DEF seq, prev, row, said
<1>7. /\ Listed(chain') /\ Len(chain') = n + 1 /\ DOMAIN chain' = 1..(n + 1)
      /\ \A k \in 1..n : chain'[k] = chain[k]
      /\ chain'[n + 1] = row
  BY <1>1, <1>4, ListedAppend
<1>8. /\ log' \in Seq([entry : Entry, secret : AuditSecrets]) /\ Len(log') = m + 1
      /\ DOMAIN log' = 1..(m + 1) /\ DOMAIN log = 1..m
      /\ \A k \in 1..m : log'[k] = log[k]
      /\ log'[m + 1] = said
  BY <1>1, <1>3, <1>4
<1> HIDE DEF n, m
<1>9. AuditTyped'
  <2>1. m + 1 <= MaxRows
    BY <1>1, <1>4, AuditAssumption
  <2> QED BY <1>1, <1>7, <1>8, <2>1 DEF AuditInv, AuditTyped
<1>10. OneSecret'
  <2>1. ASSUME ~raced, NEW k \in DOMAIN log' PROVE log'[k].secret = keychain
    <3>1. secretOf[p] = keychain
      BY <1>1, <2>1 DEF AuditInv, OneSecret
    <3>2. k \in 1..m \/ k = m + 1
      BY <1>4, <1>8
    <3> QED BY <1>3, <1>8, <2>1, <3>1, <3>2 DEF AuditInv, OneSecret
  <2> QED BY <1>1, <2>1 DEF AuditInv, OneSecret
<1>11. ASSUME Intact PROVE Intact'
  <2>1. n = m /\ \A k \in 1..n : WrittenRow(k, chain[k], Stored(log[k].entry)) /\ LinkFits(k)
    BY <1>5, <1>11 DEF Intact, n, m
  <2>2. seq = n
    <3>1. CASE n = 0
      BY <1>6, <3>1
    <3>2. CASE n # 0
      <4>1. chain[n].seq = n - 1
        BY <1>5, <2>1, <3>2 DEF WrittenRow
      <4> QED BY <1>5, <1>6, <3>2, <4>1
    <3> QED BY <3>1, <3>2
  <2>3. ASSUME NEW k \in DOMAIN chain'
        PROVE  WrittenRow(k, chain[k], Stored(log[k].entry))' /\ LinkFits(k)'
    <3>1. CASE k \in 1..n
      <4>1. chain'[k] = chain[k] /\ log'[k] = log[k]
        BY <1>7, <1>8, <2>1, <3>1
      <4>2. k # 1 => k - 1 \in 1..n
        BY <1>5, <3>1
      <4>3. k # 1 => chain'[k - 1] = chain[k - 1]
        BY <1>7, <4>2
      <4> QED BY <2>1, <3>1, <4>1, <4>3 DEF WrittenRow, LinkFits
    <3>2. CASE k = n + 1
      <4>1. chain'[k] = row /\ log'[k] = said /\ k - 1 = n
        BY <1>5, <1>7, <1>8, <2>1, <3>2
      <4>2. n # 0 => chain'[n] = chain[n]
        BY <1>5, <1>7
      <4>3. k = 1 <=> n = 0
        BY <1>5, <3>2
      <4>4. prev = IF k = 1 THEN GENESIS_HMAC ELSE chain'[k - 1].hmac
        BY <1>6, <4>1, <4>2, <4>3
      <4>5. LinkFits(k)'
        BY <1>2, <4>1, <4>4 DEF LinkFits
      <4>6. row = [seq |-> k - 1, entry |-> Stored(said.entry), prev |-> row.prev,
                   hmac |-> <<said.secret, k - 1, row.prev, said.entry>>]
        BY <1>3, <2>2, <4>1 DEF row, hmacRow
      <4> QED BY <4>1, <4>5, <4>6 DEF WrittenRow
    <3> QED BY <1>5, <1>7, <3>1, <3>2
  <2> QED BY <1>7, <1>8, <2>1, <2>3 DEF Intact
<1>12. ASSUME Changed PROVE Changed'
  <2>1. n = m /\ \A k \in 1..n : chain[k].seq = k - 1
    BY <1>5, <1>12 DEF Changed, n, m
  <2>2. PICK c \in DOMAIN chain : \E said0 : WrittenRow(c, chain[c], said0) /\ said0.action # log[c].entry.action
    BY <1>12 DEF Changed
  <2>3. PICK said0 : WrittenRow(c, chain[c], said0) /\ said0.action # log[c].entry.action
    BY <2>2
  <2>4. c \in DOMAIN chain' /\ chain'[c] = chain[c] /\ log'[c] = log[c]
    BY <1>5, <1>7, <1>8, <2>1
  <2>5. WrittenRow(c, chain[c], said0)' /\ said0.action # log'[c].entry.action
    BY <2>3, <2>4 DEF WrittenRow
  <2>6. seq = n
    BY <1>5, <1>6, <2>1
  <2>7. ASSUME NEW k \in DOMAIN chain' PROVE chain'[k].seq = k - 1
    <3>1. k \in 1..n \/ k = n + 1
      BY <1>5, <1>7
    <3>2. chain'[n + 1].seq = (n + 1) - 1
      BY <1>2, <1>5, <1>7, <2>6
    <3> QED BY <1>7, <2>1, <3>1, <3>2
  <2> QED BY <1>7, <1>8, <2>1, <2>4, <2>5, <2>7 DEF Changed
<1>13. ASSUME Holed PROVE Holed'
  <2>1. n + 1 = m
    BY <1>13 DEF Holed, n, m
  <2>2. PICK c \in DOMAIN chain : \A k \in DOMAIN chain : chain[k].seq = IF k < c THEN k - 1 ELSE k
    BY <1>13 DEF Holed
  <2>3. c \in 1..n /\ n # 0 /\ n \in 1..n
    BY <1>5
  <2>4. chain[n].seq = n
    BY <1>5, <2>2, <2>3
  <2>5. ASSUME NEW k \in DOMAIN chain' PROVE chain'[k].seq = IF k < c THEN k - 1 ELSE k
    <3>1. k \in 1..n \/ k = n + 1
      BY <1>5, <1>7
    <3>2. chain'[n + 1].seq = n + 1 /\ ~(n + 1 < c)
      BY <1>2, <1>5, <1>6, <1>7, <2>3, <2>4
    <3> QED BY <1>5, <1>7, <2>2, <3>1, <3>2
  <2> QED BY <1>5, <1>7, <1>8, <2>1, <2>3, <2>5 DEF Holed
<1> QED BY <1>1, <1>9, <1>10, <1>11, <1>12, <1>13 DEF AuditInv

LEMMA RowsDamaged ==
    ASSUME AuditInv, Damage
    PROVE  AuditInv'
<1> DEFINE n == Len(chain)
           m == Len(log)
           L == [entry : Entry, secret : AuditSecrets]
<1>1. ~damaged /\ damaged' = TRUE /\ UNCHANGED <<keychain, secretOf, raced>>
  BY DEF Damage
<1>2. PICK c \in DOMAIN chain :
        \/ \E action \in Actions :
             chain' = [chain EXCEPT ![c].entry.action = action] /\ action # chain[c].entry.action /\ UNCHANGED log
        \/ /\ chain' = RemoveAt(chain, c)
           /\ log' = IF c = Len(chain) THEN Front(log) ELSE log
  BY DEF Damage
<1>3. /\ log \in Seq(L) /\ Listed(chain) /\ m \in Nat /\ m <= MaxRows /\ Intact
  BY <1>1 DEF AuditInv, AuditTyped
<1>4. n \in Nat /\ DOMAIN chain = 1..n /\ c \in 1..n
  BY <1>2, <1>3, ListedAppend
<1>5. n = m /\ \A k \in 1..n : WrittenRow(k, chain[k], Stored(log[k].entry)) /\ LinkFits(k)
  BY <1>3, <1>4 DEF Intact
<1> HIDE DEF n, m, L
<1>6. CASE \E action \in Actions :
             chain' = [chain EXCEPT ![c].entry.action = action] /\ action # chain[c].entry.action /\ UNCHANGED log
  <2>1. PICK action \in Actions :
             chain' = [chain EXCEPT ![c].entry.action = action] /\ action # chain[c].entry.action /\ UNCHANGED log
    BY <1>6
  <2>2. /\ Listed(chain') /\ Len(chain') = n /\ DOMAIN chain' = 1..n
        /\ \A j \in 1..n : j # c => chain'[j] = chain[j]
        /\ chain'[c] = [chain[c] EXCEPT !.entry.action = action]
    BY <1>3, <1>4, <2>1, ListedChange DEF n
  <2>3. AuditTyped'
    BY <1>1, <1>3, <2>1, <2>2 DEF AuditInv, AuditTyped
  <2>4. OneSecret'
    BY <1>1, <2>1 DEF AuditInv, OneSecret
  <2>5. Changed'
    <3>1. chain[c].entry = Stored(log[c].entry) /\ WrittenRow(c, chain[c], Stored(log[c].entry))
      BY <1>4, <1>5 DEF WrittenRow
    <3>2. log[c] \in [entry : Entry, secret : AuditSecrets]
      <4>1. log \in Seq(L) /\ c \in 1..Len(log)
        BY <1>3, <1>4, <1>5 DEF m
      <4>2. log[c] \in L
        BY <4>1, ElementOfSeq
      <4> QED BY <4>2 DEF L
    <3>3. Stored(log[c].entry) \in Entry /\ Stored(log[c].entry).action = log[c].entry.action
      BY <3>2 DEF Stored, Entry
    <3>4. PICK entry \in Entry : entry = Stored(log[c].entry)
      BY <3>3
    <3>5. chain'[c] = [seq |-> c - 1, entry |-> [entry EXCEPT !.action = action], prev |-> chain[c].prev,
                       hmac |-> <<log[c].secret, c - 1, chain[c].prev, log[c].entry>>]
      <4>1. PICK row : row = chain[c]
        OBVIOUS
      <4>2. row = [seq |-> c - 1, entry |-> entry, prev |-> row.prev,
                   hmac |-> <<log[c].secret, c - 1, row.prev, log[c].entry>>]
        BY <3>1, <3>4, <4>1 DEF WrittenRow
      <4>3. chain'[c] = [row EXCEPT !.entry.action = action]
        BY <2>2, <4>1
      <4> HIDE DEF m, n
      <4>4. [row EXCEPT !.entry.action = action]
            = [seq |-> c - 1, entry |-> [entry EXCEPT !.action = action], prev |-> row.prev,
               hmac |-> <<log[c].secret, c - 1, row.prev, log[c].entry>>]
        BY <4>2
      <4> QED BY <4>1, <4>3, <4>4
    <3>8. chain'[c].seq = c - 1 /\ chain'[c].entry = [entry EXCEPT !.action = action]
      BY <3>5
    <3>9. chain'[c].entry.action = action
      BY <3>8 DEF Entry
    <3>10. WrittenRow(c, chain[c], chain[c].entry)'
      BY <2>1, <3>5 DEF WrittenRow
    <3>6. chain'[c].entry.action # log'[c].entry.action
      <4>1. chain[c].entry.action = log[c].entry.action
        BY <3>1, <3>3
      <4> QED BY <2>1, <3>9, <4>1
    <3>7. \A k \in 1..n : chain'[k].seq = k - 1
      <4>1. \A k \in 1..n : chain[k].seq = k - 1
        BY <1>5, RowWritten
      <4> QED BY <2>2, <3>8, <4>1
    <3>11. \E e : WrittenRow(c, chain[c], e)' /\ e.action # log'[c].entry.action
      <4>1. PICK e : e = chain'[c].entry
        OBVIOUS
      <4>2. (chain'[c] = [seq |-> c - 1, entry |-> e, prev |-> chain'[c].prev,
               hmac |-> <<log'[c].secret, c - 1, chain'[c].prev, log'[c].entry>>])
            /\ e.action # log'[c].entry.action
        BY <3>6, <3>10, <4>1 DEF WrittenRow
      <4> QED BY <4>2 DEF WrittenRow
    <3>12. Len(chain') = Len(log')
      BY <1>5, <2>1, <2>2 DEF m
    <3> QED BY <1>4, <2>2, <3>7, <3>11, <3>12 DEF Changed
  <2> QED BY <1>1, <2>3, <2>4, <2>5 DEF AuditInv
<1>7. CASE /\ chain' = RemoveAt(chain, c)
           /\ log' = IF c = Len(chain) THEN Front(log) ELSE log
  <2>1. /\ Listed(chain') /\ Len(chain') = n - 1 /\ DOMAIN chain' = 1..(n - 1)
        /\ \A j \in 1..(n - 1) : chain'[j] = IF j < c THEN chain[j] ELSE chain[j + 1]
    BY <1>3, <1>4, <1>7, ListedRemove DEF n
  <2>2. CASE c = n
    <3>1. log' = SubSeq(log, 1, m - 1)
      BY <1>7, <2>2 DEF Front, n, m
    <3>2. /\ log' \in Seq(L) /\ Len(log') = m - 1 /\ DOMAIN log' = 1..(m - 1) /\ \A k \in 1..(m - 1) : log'[k] = log[k]
      <4>1. m >= 1
        BY <1>4, <1>5
      <4>2. m - 1 \in 0..Len(log)
        BY <1>3, <4>1 DEF m
      <4>3. log \in Seq(L)
        BY <1>3
      <4>4. /\ SubSeq(log, 1, m - 1) \in Seq(L) /\ Len(SubSeq(log, 1, m - 1)) = m - 1
            /\ \A k \in 1..(m - 1) : SubSeq(log, 1, m - 1)[k] = log[k]
        BY <4>2, <4>3
      <4> QED BY <3>1, <4>4
    <3>3. AuditTyped'
      BY <1>1, <1>3, <2>1, <3>2, AuditAssumption DEF AuditInv, AuditTyped, L
    <3>4. OneSecret'
      <4>1. DOMAIN log' \subseteq DOMAIN log
        BY <1>3, <3>2 DEF m
      <4> QED BY <1>1, <3>2, <4>1 DEF AuditInv, OneSecret
    <3>5. \A k \in 1..(n - 1) : chain'[k] = chain[k] /\ k \in 1..n /\ (k # 1 => chain'[k - 1] = chain[k - 1])
      BY <1>4, <2>1, <2>2
    <3>6. ASSUME NEW k \in 1..(n - 1)
          PROVE  WrittenRow(k, chain[k], Stored(log[k].entry))' /\ LinkFits(k)'
      BY <1>5, <3>2, <3>5 DEF WrittenRow, LinkFits
    <3>7. Intact'
      BY <1>5, <2>1, <3>2, <3>6 DEF Intact
    <3> QED BY <1>1, <3>3, <3>4, <3>7 DEF AuditInv
  <2>3. CASE c # n
    <3>1. log' = log
      BY <1>7, <2>3 DEF n
    <3>2. AuditTyped' /\ OneSecret'
      BY <1>1, <2>1, <3>1 DEF AuditInv, AuditTyped, OneSecret
    <3>3. c \in 1..(n - 1)
      BY <1>4, <2>3
    <3>4. ASSUME NEW k \in 1..(n - 1) PROVE chain'[k].seq = IF k < c THEN k - 1 ELSE k
      <4>1. k \in 1..n /\ k + 1 \in 1..n /\ (k + 1) - 1 = k
        BY <1>4
      <4>2. chain[k].seq = k - 1 /\ chain[k + 1].seq = k
        BY <1>5, <4>1, RowWritten
      <4> QED BY <2>1, <4>2
    <3>5. Holed'
      <4>1. (n - 1) + 1 = Len(log')
        BY <1>4, <1>5, <3>1 DEF m
      <4> QED BY <2>1, <3>3, <3>4, <4>1 DEF Holed
    <3> QED BY <1>1, <3>2, <3>5 DEF AuditInv
  <2> QED BY <2>2, <2>3
<1> QED BY <1>2, <1>6, <1>7

-----------------------------------------------------------------------------
(* What it says of the verification. *)

\* The whole chain is what the doctor verifies.
LEMMA WholeChain ==
    ASSUME NEW secret, verifyAuditChain(secret, 0, MaxRows), Listed(chain), chain # <<>>,
           \A k \in DOMAIN chain : chain[k].seq \in 0..MaxRows
    PROVE  /\ 1 \in DOMAIN chain /\ Anchors(chain[1]) # {}
           /\ \A k \in DOMAIN chain :
                /\ chain[k].seq = chain[1].seq + (k - 1)
                /\ chain[k].hmac = <<secret, chain[k].seq, chain[k].prev, chain[k].entry>>
<1> DEFINE inRange == {k \in DOMAIN chain : 0 <= chain[k].seq /\ chain[k].seq <= MaxRows}
           first == Min(inRange)
<1>1. DOMAIN chain = 1..Len(chain) /\ Len(chain) \in Nat
  BY ListedAppend
<1>2. Len(chain) # 0
  BY DEF Listed
<1>3. inRange = 1..Len(chain) /\ 1 \in inRange
  BY <1>1, <1>2, AuditAssumption
<1>4. /\ Anchors(chain[first]) # {}
      /\ \A k \in inRange : \E link : RowHolds(secret, first, link, k)
  BY <1>3 DEF verifyAuditChain
<1>5. first = 1
  <2> HIDE DEF inRange
  <2>1. inRange \in SUBSET Nat /\ \A k \in inRange : k >= 1
    BY <1>1, <1>3
  <2>2. first \in inRange /\ first <= 1
    BY <1>3, <2>1, LeastPlace
  <2>3. \A k \in inRange : k \in Nat
    BY <2>1
  <2>4. first >= 1 /\ first \in Nat
    BY <2>1, <2>2, <2>3
  <2> HIDE DEF first
  <2> QED BY <2>2, <2>4
<1> HIDE DEF inRange, first
<1> QED BY <1>1, <1>3, <1>4, <1>5 DEF RowHolds, hmacRow

LEMMA PassedFits ==
    ASSUME AuditInv
    PROVE  PassedIsTheLog
<1> SUFFICES ASSUME NEW secret \in AuditSecrets, verifyAuditChain(secret, 0, MaxRows)
             PROVE  /\ Len(chain) = Len(log)
                    /\ \A k \in DOMAIN chain : chain[k].entry = log[k].entry /\ log[k].secret = secret
  BY DEF PassedIsTheLog
<1>1. /\ Listed(chain) /\ Len(log) \in Nat /\ Len(log) <= MaxRows /\ MaxRows \in Nat
      /\ DOMAIN chain = 1..Len(chain) /\ Len(chain) \in Nat /\ (chain = <<>> <=> Len(chain) = 0)
  <2>1. Listed(chain) /\ Len(log) \in Nat /\ Len(log) <= MaxRows
    BY DEF AuditInv, AuditTyped
  <2>2. chain = <<>> <=> Len(chain) = 0
    BY <2>1 DEF Listed
  <2> QED BY <2>1, <2>2, AuditAssumption, ListedAppend
<1>2. CASE Intact
  <2>1. Len(chain) = Len(log) /\ \A k \in DOMAIN chain : WrittenRow(k, chain[k], Stored(log[k].entry))
    BY <1>2 DEF Intact
  <2>2. ASSUME NEW k \in DOMAIN chain PROVE chain[k].entry = log[k].entry /\ log[k].secret = secret
    <3>1. \A j \in DOMAIN chain : chain[j].seq \in 0..MaxRows
      BY <1>1, <2>1 DEF WrittenRow
    <3>2. chain # <<>>
      BY <1>1, <2>2
    <3>3. chain[k].hmac = <<secret, chain[k].seq, chain[k].prev, chain[k].entry>>
      BY <1>1, <3>1, <3>2, WholeChain
    <3>4. chain[k].hmac = <<log[k].secret, k - 1, chain[k].prev, log[k].entry>>
      BY <2>1 DEF WrittenRow
    <3> QED BY <3>3, <3>4
  <2> QED BY <2>1, <2>2
<1>3. CASE Changed
  <2>1. Len(chain) = Len(log) /\ \A k \in DOMAIN chain : chain[k].seq = k - 1
    BY <1>3 DEF Changed
  <2>2. PICK k \in DOMAIN chain : \E entry : WrittenRow(k, chain[k], entry) /\ entry.action # log[k].entry.action
    BY <1>3 DEF Changed
  <2>3. PICK entry : WrittenRow(k, chain[k], entry) /\ entry.action # log[k].entry.action
    BY <2>2
  <2>4. \A j \in DOMAIN chain : chain[j].seq \in 0..MaxRows
    BY <1>1, <2>1
  <2>5. chain # <<>>
    BY <1>1
  <2>6. chain[k].hmac = <<secret, chain[k].seq, chain[k].prev, chain[k].entry>>
    BY <1>1, <2>4, <2>5, WholeChain
  <2>7. chain[k].hmac = <<log[k].secret, k - 1, chain[k].prev, log[k].entry>> /\ chain[k].entry = entry
    BY <2>3 DEF WrittenRow
  <2>8. chain[k].entry = log[k].entry
    BY <2>6, <2>7
  <2> QED BY <2>3, <2>7, <2>8
<1>4. CASE Holed
  <2>1. PICK c \in DOMAIN chain : \A k \in DOMAIN chain : chain[k].seq = IF k < c THEN k - 1 ELSE k
    BY <1>4 DEF Holed
  <2>2. Len(chain) + 1 = Len(log)
    BY <1>4 DEF Holed
  <2>3. \A j \in DOMAIN chain : chain[j].seq \in 0..MaxRows
    BY <1>1, <2>1, <2>2
  <2>4. chain # <<>>
    BY <1>1, <2>1
  <2>5. 1 \in DOMAIN chain /\ Anchors(chain[1]) # {} /\ chain[c].seq = chain[1].seq + (c - 1)
    BY <1>1, <2>1, <2>3, <2>4, WholeChain
  <2>6. CASE c = 1
    <3>1. chain[1].seq = 1 /\ \A k \in DOMAIN chain : chain[k].seq # 0
      BY <1>1, <2>1, <2>5, <2>6
    <3>2. Anchors(chain[1]) = {r.hmac : r \in {s \in Range(chain) : s.seq = 0}}
      BY <3>1 DEF Anchors
    <3>3. \A s \in Range(chain) : s.seq # 0
      BY <3>1 DEF Range
    <3> QED BY <2>5, <3>2, <3>3
  <2>7. CASE c # 1
    <3>1. chain[1].seq = 0 /\ chain[c].seq = c
      BY <1>1, <2>1, <2>5, <2>7
    <3> QED BY <1>1, <2>5, <3>1
  <2> QED BY <2>6, <2>7
<1> QED BY <1>2, <1>3, <1>4 DEF AuditInv

\* Rows under one secret that say what was digested verify from anywhere to anywhere.
LEMMA IntactVerifies ==
    ASSUME AuditInv, Intact, NEW secret, NEW from \in Nat, NEW to \in Nat,
           \A k \in DOMAIN log : log[k].secret = secret /\ log[k].entry.payload # "holed"
    PROVE  verifyAuditChain(secret, from, to)
<1> DEFINE inRange == {k \in DOMAIN chain : from <= chain[k].seq /\ chain[k].seq <= to}
           first == Min(inRange)
<1>1. /\ DOMAIN chain = 1..Len(chain) /\ Len(chain) \in Nat /\ Len(chain) = Len(log) /\ DOMAIN log = 1..Len(log)
      /\ log \in Seq([entry : Entry, secret : AuditSecrets])
  BY ListedAppend DEF AuditInv, AuditTyped, Intact
<1>2. ASSUME NEW k \in DOMAIN chain
      PROVE  /\ chain[k].seq = k - 1
             /\ chain[k].hmac = hmacRow(secret, chain[k].seq, chain[k].prev, chain[k].entry)
             /\ chain[k].prev = IF k = 1 THEN GENESIS_HMAC ELSE chain[k - 1].hmac
  <2>1. WrittenRow(k, chain[k], Stored(log[k].entry)) /\ LinkFits(k)
    BY DEF Intact
  <2>2. k \in DOMAIN log /\ log[k] \in [entry : Entry, secret : AuditSecrets]
    BY <1>1, ElementOfSeq
  <2>3. Stored(log[k].entry) = log[k].entry
    BY <2>2 DEF Stored, Entry
  <2> QED BY <2>1, <2>2, <2>3 DEF WrittenRow, LinkFits, hmacRow
<1> SUFFICES ASSUME inRange # {}
             PROVE  /\ Anchors(chain[first]) # {}
                    /\ \A k \in inRange :
                         RowHolds(secret, first, IF k = first THEN CHOOSE h \in Anchors(chain[first]) : TRUE ELSE chain[k - 1].hmac, k)
  BY DEF verifyAuditChain
<1>3. first \in inRange /\ \A k \in inRange : first <= k
  <2>1. inRange \in SUBSET Nat
    BY <1>1
  <2> HIDE DEF inRange
  <2> QED BY <2>1, LeastPlace
<1> HIDE DEF first
<1>4. first \in 1..Len(chain) /\ chain[first].seq = first - 1
  BY <1>1, <1>2, <1>3
<1>5. Anchors(chain[first]) = {chain[first].prev}
  <2>1. CASE first = 1
    BY <1>1, <1>2, <1>4, <2>1 DEF Anchors
  <2>2. CASE first # 1
    <3>1. first - 1 \in DOMAIN chain /\ chain[first].seq # 0 /\ chain[first].seq - 1 = first - 2
      BY <1>1, <1>4, <2>2
    <3>2. chain[first].prev = chain[first - 1].hmac
      BY <1>1, <1>2, <1>4, <2>2
    <3>3. \A k \in DOMAIN chain : chain[k].seq = first - 2 <=> k = first - 1
      BY <1>1, <1>2, <1>4
    <3>4. {s \in Range(chain) : s.seq = first - 2} = {chain[first - 1]}
      BY <3>1, <3>3 DEF Range
    <3>5. Anchors(chain[first]) = {r.hmac : r \in {chain[first - 1]}}
      BY <3>1, <3>4 DEF Anchors
    <3> QED BY <3>2, <3>5
  <2> QED BY <2>1, <2>2
<1>6. ASSUME NEW k \in inRange
      PROVE  RowHolds(secret, first, IF k = first THEN CHOOSE h \in Anchors(chain[first]) : TRUE ELSE chain[k - 1].hmac, k)
  <2>1. k \in DOMAIN chain /\ first <= k
    BY <1>3
  <2>2. chain[k].prev = IF k = first THEN CHOOSE h \in Anchors(chain[first]) : TRUE ELSE chain[k - 1].hmac
    <3>1. CASE k = first
      BY <1>5, <3>1
    <3>2. CASE k # first
      <4>1. k # 1
        BY <1>1, <1>4, <2>1, <3>2
      <4> QED BY <1>2, <2>1, <3>2, <4>1
    <3> QED BY <3>1, <3>2
  <2>3. chain[k].seq = chain[first].seq + (k - first)
    BY <1>1, <1>2, <1>4, <2>1
  <2> QED BY <1>2, <2>1, <2>2, <2>3 DEF RowHolds
<1> QED BY <1>5, <1>6

LEMMA UndamagedFits ==
    ASSUME AuditInv
    PROVE  UndamagedPasses
<1> SUFFICES ASSUME ~damaged, ~raced, \A k \in DOMAIN log : log[k].entry.payload # "holed"
             PROVE  /\ auditChainCheck = "pass"
                    /\ chain # <<>> => \A from, to \in 0..Len(chain) : verifyAuditChain(keychain, from, to)
  BY DEF UndamagedPasses
<1>1. Intact /\ \A k \in DOMAIN log : log[k].secret = keychain
  BY DEF AuditInv, OneSecret
<1>2. \A from, to \in Nat : verifyAuditChain(keychain, from, to)
  BY <1>1, IntactVerifies
<1>3. chain # <<>> => keychain # NoSecret
  <2>1. /\ log \in Seq([entry : Entry, secret : AuditSecrets]) /\ Listed(chain) /\ Len(chain) = Len(log)
    BY <1>1 DEF AuditInv, AuditTyped, Intact
  <2>2. chain # <<>> => Len(chain) # 0 /\ Len(chain) \in Nat
    BY <2>1 DEF Listed
  <2>3. chain # <<>> => 1 \in DOMAIN log /\ log[1] \in [entry : Entry, secret : AuditSecrets]
    <3>1. chain # <<>> => 1 \in DOMAIN log /\ 1 \in 1..Len(log)
      BY <2>1, <2>2
    <3> QED BY <2>1, <3>1, ElementOfSeq
  <2> QED BY <1>1, <2>3, AuditAssumption
<1>4. auditChainCheck = "pass"
  <2>1. verifyAuditChain(keychain, 0, MaxRows)
    BY <1>2, AuditAssumption
  <2> QED BY <1>3, <2>1 DEF auditChainCheck
<1>5. \A from, to \in 0..Len(chain) : verifyAuditChain(keychain, from, to)
  <2>1. Len(chain) \in Nat
    BY ListedAppend DEF AuditInv, AuditTyped
  <2> QED BY <1>2, <2>1
<1> QED BY <1>4, <1>5

\* appendAudit, loadOrCreateAuditSecret and one change of the table: what the rows are, and
\* under which secret they were written.
THEOREM AuditInvariant == AuditSpec => []AuditInv
<1>1. AuditInit => AuditInv
  <2> SUFFICES ASSUME AuditInit PROVE AuditInv
    OBVIOUS
  <2>1. AuditTyped
    <3>1. Listed(<<>>) /\ <<>> \in Seq([entry : Entry, secret : AuditSecrets]) /\ Len(<<>>) = 0
      BY DEF Listed
    <3>2. keychain = NoSecret /\ secretOf = [p \in AuditProcs |-> NoSecret] /\ chain = <<>> /\ log = <<>>
          /\ damaged = FALSE /\ raced = FALSE
      BY DEF AuditInit
    <3>3. 0 <= MaxRows
      BY AuditAssumption
    <3> QED BY <3>1, <3>2, <3>3 DEF AuditTyped
  <2>2. OneSecret /\ Intact
    BY AuditAssumption DEF AuditInit, OneSecret, Intact
  <2> QED BY <2>1, <2>2 DEF AuditInv, AuditInit
<1>2. AuditInv /\ [AuditNext]_auditVars => AuditInv'
  <2> SUFFICES ASSUME AuditInv, [AuditNext]_auditVars PROVE AuditInv'
    OBVIOUS
  <2>1. CASE UNCHANGED auditVars
    BY <2>1 DEF auditVars, AuditInv, AuditTyped, OneSecret, Intact, Changed, Holed, WrittenRow, LinkFits
  <2>2. CASE AuditNext
    BY <2>2, SecretsLoaded, SecretsCreated, AuditAppended, RowsDamaged DEF AuditNext
  <2> QED BY <2>1, <2>2
<1> QED BY <1>1, <1>2, PTL DEF AuditSpec

\* appendAudit and verifyAuditChain: for logs of any length, any processes, entries and
\* secrets, and one change or loss, what verifies is what was appended, and an untouched log
\* raises no alarm.
THEOREM AuditCorrect == AuditSpec => []AuditSound
<1>1. AuditInv => AuditSound
  BY PassedFits, UndamagedFits DEF AuditSound
<1> QED BY <1>1, AuditInvariant, PTL
=============================================================================
