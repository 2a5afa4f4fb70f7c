---------------------------- MODULE Persistence -----------------------------
(***************************************************************************)
(* What packages/persistence keeps beside the rows other modules speak of: *)
(* the audit log, the schema and its migrations, and the sums over costs.  *)
(***************************************************************************)
EXTENDS Integers, FiniteSets, Sequences, FiniteSetsExt, SequencesExt

-----------------------------------------------------------------------------
(* The audit log, packages/persistence/src/queries/audit.ts: every row     *)
(* carries the HMAC of its number, of the row before it and of its entry,  *)
(* under a secret that the first process to need it puts in the keychain;  *)
(* and the doctor's check of the chain.  A digest is the tuple it digests. *)

CONSTANTS
    AuditProcs,    \* the processes that append
    AuditSecrets,  \* the values randomBytes may return
    Actions,       \* what an entry says
    MaxRows,       \* bound: appends
    NoSecret

ASSUME AuditAssumption == NoSecret \notin AuditSecrets /\ "missing" \notin AuditSecrets /\ MaxRows \in Nat

VARIABLES
    keychain,  \* the secret in the credential store, or NoSecret
    secretOf,  \* [AuditProcs -> the secret a process holds, "missing" after a get that found none]
    chain,     \* the audit_events table, by seq
    log,       \* the entries as they were appended and not lost from the end
    damaged,   \* a row was changed or lost
    raced      \* a secret was replaced in the keychain

auditVars == <<keychain, secretOf, chain, log, damaged, raced>>

GENESIS_HMAC == <<>>

\* An entry and its payload: none, an ordinary one, one with an undefined value in it.
Entry == [action : Actions, payload : {"none", "given", "holed"}]

\* canonicalJson writes an undefined value; JSON.stringify, whose text is stored, drops it.
Stored(entry) == [entry EXCEPT !.payload = IF @ = "holed" THEN "none" ELSE @]

hmacRow(secret, seq, prev, entry) == <<secret, seq, prev, entry>>

AuditInit ==
    /\ keychain = NoSecret /\ secretOf = [p \in AuditProcs |-> NoSecret]
    /\ chain = <<>> /\ log = <<>> /\ damaged = FALSE /\ raced = FALSE

\* loadOrCreateAuditSecret: get, and on nothing, after an await, set of fresh bytes.
LoadSecret(p) ==
    /\ secretOf[p] = NoSecret
    /\ secretOf' = [secretOf EXCEPT ![p] = IF keychain # NoSecret THEN keychain ELSE "missing"]
    /\ UNCHANGED <<keychain, chain, log, damaged, raced>>

CreateSecret(p) ==
    /\ secretOf[p] = "missing"
    /\ \E fresh \in AuditSecrets \ {keychain} :
         keychain' = fresh /\ secretOf' = [secretOf EXCEPT ![p] = fresh]
    /\ raced' = (keychain # NoSecret)
    /\ UNCHANGED <<chain, log, damaged>>

\* appendAudit, one transaction: number and link of the last row there is.
appendAudit(p, entry) ==
    LET prev == IF chain = <<>> THEN GENESIS_HMAC ELSE Last(chain).hmac
        seq == IF chain = <<>> THEN 0 ELSE Last(chain).seq + 1
    IN /\ secretOf[p] \in AuditSecrets /\ Len(log) < MaxRows
       /\ chain' = Append(chain, [seq |-> seq, entry |-> Stored(entry), prev |-> prev,
                                  hmac |-> hmacRow(secretOf[p], seq, prev, entry)])
       /\ log' = Append(log, [entry |-> entry, secret |-> secretOf[p]])
       /\ UNCHANGED <<keychain, secretOf, damaged, raced>>

\* Outside the code: a stored row is changed, or rows are lost, once.  Rows lost from the
\* end leave no trace, and log forgets them too.
Damage ==
    /\ ~damaged /\ damaged' = TRUE
    /\ \E k \in DOMAIN chain :
         \/ \E action \in Actions :
              chain' = [chain EXCEPT ![k].entry.action = action] /\ action # chain[k].entry.action /\ UNCHANGED log
         \/ /\ chain' = RemoveAt(chain, k)
            /\ log' = IF k = Len(chain) THEN Front(log) ELSE log
    /\ UNCHANGED <<keychain, secretOf, raced>>

AuditNext ==
    \/ \E p \in AuditProcs :
         LoadSecret(p) \/ CreateSecret(p) \/ \E entry \in Entry : appendAudit(p, entry)
    \/ Damage

AuditSpec == AuditInit /\ [][AuditNext]_auditVars

-----------------------------------------------------------------------------
(* The verification.                                                       *)

\* One row against the one before it and its own digest; the rows of a range stand side
\* by side, the table being in the order of seq.
RowHolds(secret, first, expectedPrev, k) ==
    /\ chain[k].seq = chain[first].seq + (k - first)
    /\ chain[k].prev = expectedPrev
    /\ chain[k].hmac = hmacRow(secret, chain[k].seq, chain[k].prev, chain[k].entry)

\* The link the first row of a range must have: the anchor's digest.  A missing anchor fails.
Anchors(first) == IF first.seq = 0 THEN {GENESIS_HMAC} ELSE {r.hmac : r \in {s \in Range(chain) : s.seq = first.seq - 1}}

verifyAuditChain(secret, fromSeq, toSeq) ==
    LET rows == {k \in DOMAIN chain : fromSeq <= chain[k].seq /\ chain[k].seq <= toSeq}
        first == Min(rows)
    IN rows = {} \/
         /\ Anchors(chain[first]) # {}
         /\ \A k \in rows :
              RowHolds(secret, first, IF k = first THEN CHOOSE h \in Anchors(chain[first]) : TRUE ELSE chain[k - 1].hmac, k)

\* The doctor's check: nothing to verify passes, no secret in the keychain fails.
auditChainCheck ==
    CASE chain = <<>> -> "pass"
      [] chain # <<>> /\ keychain = NoSecret -> "fail"
      [] OTHER -> IF verifyAuditChain(keychain, 0, MaxRows) THEN "pass" ELSE "fail"

\* What passes is the log: under one secret and but for rows lost at the end, a chain that
\* verifies holds exactly the entries that were appended, in their order.
PassedIsTheLog ==
    \A secret \in AuditSecrets : verifyAuditChain(secret, 0, MaxRows) =>
        /\ Len(chain) = Len(log)
        /\ \A k \in DOMAIN chain : chain[k].entry = log[k].entry /\ log[k].secret = secret

\* No false alarm: an undamaged log of payloads that survive JSON passes the doctor and
\* verifies in every range, unless two first boots each put a secret in the keychain.
UndamagedPasses ==
    ~damaged /\ ~raced /\ (\A k \in DOMAIN log : log[k].entry.payload # "holed") =>
        /\ auditChainCheck = "pass"
        /\ chain # <<>> => \A from, to \in 0..Len(chain) : verifyAuditChain(keychain, from, to)

AuditSound == PassedIsTheLog /\ UndamagedPasses

-----------------------------------------------------------------------------
(* Opening the database, packages/persistence/src/db.ts and migrations.ts: *)
(* every open runs the initial schema, takes the advisory lock, applies    *)
(* what is pending and drops the lock; migration 2 replaces the flow_runs  *)
(* table.  Each statement outside a transaction is a step of its own.  And *)
(* the two sums over cost and usage events of queries/cost.ts.             *)

CONSTANTS
    DbProcs,        \* the processes that open the database
    MaxFlowRows,    \* bound: rows written
    CostRuns,       \* runs of one role
    MaxCostEvents,  \* bound: their events
    NoVendor

VARIABLES
    flowTable,   \* flow_runs: "none", "v1" or "v2"
    flowRows,    \* its rows
    applied,     \* schema_migrations
    schemaLock,  \* the row of schema_lock
    opener,      \* [DbProcs -> where openDatabase is, and the versions it saw applied]
    abandoned,   \* a process died holding the lock
    costVendor,  \* [CostRuns -> the vendor column of the run and that of its events]
    costEvents   \* the events of those runs

dbVars == <<flowTable, flowRows, applied, schemaLock, opener, abandoned>>
costVars == <<costVendor, costEvents>>

MIGRATIONS == 1..2

Opening(step, found) == [step |-> step, found |-> found]

DbInit ==
    /\ flowTable = "none" /\ flowRows = 0 /\ applied = {} /\ schemaLock = FALSE /\ abandoned = FALSE
    /\ opener = [p \in DbProcs |-> Opening("closed", {})]

\* openDatabase, up to ensureBootstrapTables: CREATE TABLE IF NOT EXISTS.
openDatabase(p) ==
    /\ opener[p].step = "closed"
    /\ opener' = [opener EXCEPT ![p] = Opening("lock", {})]
    /\ flowTable' = IF flowTable = "none" THEN "v1" ELSE flowTable
    /\ UNCHANGED <<flowRows, applied, schemaLock, abandoned>>

\* acquireLock: INSERT OR IGNORE; a process that finds the row throws.
acquireLock(p) ==
    /\ opener[p].step = "lock"
    /\ schemaLock' = TRUE
    /\ opener' = [opener EXCEPT ![p].step = IF schemaLock THEN "closed" ELSE "read"]
    /\ UNCHANGED <<flowTable, flowRows, applied, abandoned>>

ReadApplied(p) ==
    /\ opener[p].step = "read"
    /\ opener' = [opener EXCEPT ![p] = Opening("apply", applied)]
    /\ UNCHANGED <<flowTable, flowRows, applied, schemaLock, abandoned>>

\* applyPending: the next version not found, its SQL and its record in one transaction.
\* Version 1 is the initial schema again; version 2 drops the table and makes it anew.
applyPending(p) ==
    LET version == Min(MIGRATIONS \ opener[p].found)
    IN /\ opener[p].step = "apply" /\ opener[p].found # MIGRATIONS
       /\ version \notin applied
       /\ applied' = applied \cup {version}
       /\ opener' = [opener EXCEPT ![p].found = @ \cup {version}]
       /\ IF version = 2 THEN flowTable' = "v2" /\ flowRows' = 0 ELSE UNCHANGED <<flowTable, flowRows>>
       /\ UNCHANGED <<schemaLock, abandoned>>

\* A migration throws, its record being there already or for another reason, and is
\* rolled back: finally drops the lock, and openDatabase throws.
ApplyThrows(p) ==
    /\ opener[p].step = "apply" /\ opener[p].found # MIGRATIONS
    /\ schemaLock' = FALSE /\ opener' = [opener EXCEPT ![p].step = "closed"]
    /\ UNCHANGED <<flowTable, flowRows, applied, abandoned>>

releaseLock(p) ==
    /\ opener[p].step = "apply" /\ opener[p].found = MIGRATIONS
    /\ schemaLock' = FALSE /\ opener' = [opener EXCEPT ![p].step = "open"]
    /\ UNCHANGED <<flowTable, flowRows, applied, abandoned>>

\* insertFlowRun by a process that has the database open.
insertFlowRun(p) ==
    /\ opener[p].step = "open" /\ flowTable = "v2" /\ flowRows < MaxFlowRows
    /\ flowRows' = flowRows + 1
    /\ UNCHANGED <<flowTable, applied, schemaLock, opener, abandoned>>

\* A process closes the database or dies, holding the lock or not.
Leaves(p) ==
    /\ opener[p].step # "closed"
    /\ opener' = [opener EXCEPT ![p] = Opening("closed", {})]
    /\ abandoned' = (abandoned \/ opener[p].step \in {"read", "apply"})
    /\ UNCHANGED <<flowTable, flowRows, applied, schemaLock>>

DbNext ==
    \E p \in DbProcs :
        \/ openDatabase(p) \/ acquireLock(p) \/ ReadApplied(p) \/ applyPending(p) \/ ApplyThrows(p)
        \/ releaseLock(p) \/ insertFlowRun(p) \/ Leaves(p)

\* Two processes never migrate at once, the lock outlives its holder only by a death, and
\* whoever has the database open finds both migrations done.
OneMigrates ==
    LET Holders == {p \in DbProcs : opener[p].step \in {"read", "apply"}}
    IN /\ Cardinality(Holders) <= 1
       /\ schemaLock <=> Holders # {} \/ abandoned
       /\ \A p \in DbProcs : opener[p].step = "open" => flowTable = "v2" /\ applied = MIGRATIONS

\* No open, however often and by however many processes, drops a flow run that was stored.
FlowRowsKept == [][flowRows' >= flowRows]_dbVars

-----------------------------------------------------------------------------
(* Costs.                                                                  *)

NullUsd == -1
CostEvent ==
    [run : CostRuns, kind : {"cost"}, confidence : {"exact", "estimate", "unknown", "other"},
     subscription : BOOLEAN, usd : {NullUsd, 1}]
UsageEvent == [run : CostRuns, kind : {"usage"}, tokens : 0..1]

\* The adapter's vendor is on every event; the run's own column may be NULL.
VendorPairs == {<<v, v>> : v \in {"v1", "v2"}} \cup {<<NoVendor, v>> : v \in {"v1", "v2"}}

CostInit == costVendor \in [CostRuns -> VendorPairs] /\ costEvents = <<>>

insertCostEvent ==
    /\ Len(costEvents) < MaxCostEvents
    /\ \E e \in CostEvent \cup UsageEvent : costEvents' = Append(costEvents, e)
    /\ UNCHANGED costVendor

EventVendor(run) == costVendor[run][2]
EventsOf(kind, runs) == SelectSeq(costEvents, LAMBDA e : e.kind = kind /\ e.run \in runs)

Total(events, value(_)) == FoldLeft(LAMBDA sum, e : sum + value(e), 0, events)
Tally(events, test(_)) == Len(SelectSeq(events, test))

\* foldCostRows: any other confidence counts as unknown, a null amount as nothing.
foldCostRows(events) ==
    [usdTotal |-> Total(events, LAMBDA e : IF e.usd = NullUsd THEN 0 ELSE e.usd),
     exact |-> Tally(events, LAMBDA e : e.confidence = "exact"),
     estimate |-> Tally(events, LAMBDA e : e.confidence = "estimate"),
     unknown |-> Tally(events, LAMBDA e : e.confidence \in {"unknown", "other"}),
     subscriptionRuns |-> Cardinality({e.run : e \in {x \in Range(events) : x.subscription}})]

aggregateRunCost(run) ==
    [tokens |-> Total(EventsOf("usage", {run}), LAMBDA e : e.tokens),
     cost |-> foldCostRows(EventsOf("cost", {run}))]

\* aggregateRoleCost: one summary for every vendor of a run or of a usage event.
RoleVendors ==
    {costVendor[r][1] : r \in {x \in CostRuns : costVendor[x][1] # NoVendor}}
        \cup {EventVendor(e.run) : e \in Range(EventsOf("usage", CostRuns))}
aggregateRoleCost ==
    [v \in RoleVendors |->
        LET runs == {r \in CostRuns : EventVendor(r) = v}
        IN [tokens |-> Total(EventsOf("usage", runs), LAMBDA e : e.tokens),
            cost |-> foldCostRows(EventsOf("cost", runs))]]

\* The two views of one role agree: the vendors' summaries add up to the runs', field by
\* field, unless a run whose vendor column is NULL has costs and no usage.
RollupAgrees ==
    (\A r \in CostRuns : costVendor[r][1] # NoVendor \/ costVendor[r][2] \in RoleVendors) =>
        /\ MapThenSumSet(LAMBDA v : aggregateRoleCost[v].tokens, RoleVendors)
             = MapThenSumSet(LAMBDA r : aggregateRunCost(r).tokens, CostRuns)
        /\ \A field \in {"usdTotal", "exact", "estimate", "unknown", "subscriptionRuns"} :
             MapThenSumSet(LAMBDA v : aggregateRoleCost[v].cost[field], RoleVendors)
               = MapThenSumSet(LAMBDA r : aggregateRunCost(r).cost[field], CostRuns)

DatabaseSound == [](OneMigrates /\ RollupAgrees) /\ FlowRowsKept
=============================================================================
