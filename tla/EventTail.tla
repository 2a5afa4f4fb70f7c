------------------------------ MODULE EventTail ------------------------------
(***************************************************************************)
(* The readers of the table events: the server-sent stream of the dashboard*)
(* (apps/web/src/server/app.ts), which polls tailEvents with the last seq  *)
(* it wrote and is reconnected with Last-Event-ID, and `shamu logs --tail' *)
(* (apps/cli/src/commands/logs.ts), which polls getEventsByRun.            *)
(*                                                                         *)
(* seq counts the events of one run from 1, and the runs share the table.  *)
(* A run's driver inserts its events in the order of seq, and an insert    *)
(* may fail.  Payloads, heartbeats and the filter --since are left out.    *)
(***************************************************************************)
EXTENDS Naturals, Sequences, FiniteSets

CONSTANTS
    TailRuns,      \* the runs with events in the table
    Watched,       \* the run both readers follow
    TailSeqs,      \* events per run: the bound on seq
    tailBatchSize  \* config.tailBatchSize

ASSUME EventTailAssumption == Watched \in TailRuns /\ TailSeqs \in Nat /\ tailBatchSize \in Nat \ {0}

VARIABLES
    eventRows, \* the rows <<run, seq>> of events
    pushed,    \* pushed[r]: events of r the driver has seen
    sse,       \* the stream: since, whether it is connected, and the ids its client received
    logs       \* the command: lastSeq, its output, whether it goes on

tailVars == <<eventRows, pushed, sse, logs>>

TailTypeOK ==
    /\ eventRows \subseteq TailRuns \X (1..TailSeqs)
    /\ pushed \in [TailRuns -> 0..TailSeqs]
    /\ sse.since \in 0..TailSeqs /\ sse.open \in BOOLEAN /\ Len(sse.got) <= TailSeqs
    /\ logs.lastSeq \in 0..TailSeqs /\ logs.state \in {"tailing", "done", "cancelled"}

TailInit ==
    /\ eventRows = {}
    /\ pushed = [r \in TailRuns |-> 0]
    /\ sse = [since |-> 0, open |-> FALSE, got |-> <<>>]
    /\ logs = [lastSeq |-> 0, out |-> <<>>, state |-> "tailing"]

\* insertEvent by the driver of run r; a failed insert is reported and skipped.
insertEvent(r) ==
    /\ pushed[r] < TailSeqs
    /\ pushed' = [pushed EXCEPT ![r] = @ + 1]
    /\ \E ok \in BOOLEAN : eventRows' = IF ok THEN eventRows \cup {<<r, pushed'[r]>>} ELSE eventRows
    /\ UNCHANGED <<sse, logs>>

\* Mutant: the newest rows first.
tailEventsNewest(since) ==
    LET rows == {e \in eventRows : e[2] > since} IN
    {b \in SUBSET rows :
       /\ Cardinality(b) = IF Cardinality(rows) < tailBatchSize THEN Cardinality(rows) ELSE tailBatchSize
       /\ \A e \in b, f \in rows \ b : e[2] >= f[2]}

\* SELECT * FROM events WHERE seq > ? ORDER BY seq LIMIT ?: of the rows behind
\* since, whatever their run, a batch that no row left out precedes; the order
\* of equal seqs is the database's.
tailEvents(since) ==
    LET rows == {e \in eventRows : e[2] > since} IN
    {b \in SUBSET rows :
       /\ Cardinality(b) = IF Cardinality(rows) < tailBatchSize THEN Cardinality(rows) ELSE tailBatchSize
       /\ \A e \in b, f \in rows \ b : e[2] <= f[2]}

\* The seqs of the watched run in a set of rows, in order.
SeqsOf(rows) ==
    LET own == {e[2] : e \in {f \in rows : f[1] = Watched}} IN
    CHOOSE q \in [1..Cardinality(own) -> own] : \A i, j \in DOMAIN q : i < j => q[i] < q[j]

\* GET /api/runs/:id/stream, with the last id the client received.
Connect ==
    /\ ~sse.open
    /\ sse' = [sse EXCEPT !.open = TRUE, !.since = IF sse.got = <<>> THEN 0 ELSE sse.got[Len(sse.got)]]
    /\ UNCHANGED <<eventRows, pushed, logs>>

\* One turn of the loop: the events of a batch are written one by one, and the
\* connection may break behind any of them, when what is written after the
\* break reaches nobody.
Poll ==
    /\ sse.open
    /\ \E b \in tailEvents(sse.since) :
         LET q == SeqsOf(b) IN
         \E k \in 0..Len(q) :
            sse' = [since |-> IF q = <<>> THEN sse.since ELSE q[Len(q)],
                    open |-> k = Len(q),
                    got |-> sse.got \o SubSeq(q, 1, k)]
    /\ UNCHANGED <<eventRows, pushed, logs>>

Disconnect == sse.open /\ sse' = [sse EXCEPT !.open = FALSE] /\ UNCHANGED <<eventRows, pushed, logs>>

\* render in tailLoop: what getEventsByRun returns behind lastSeq is printed;
\* the loop stops with the turn_end, here the last event of the run.
Tick ==
    /\ logs.state = "tailing"
    /\ LET q == SeqsOf({e \in eventRows : e[2] > logs.lastSeq}) IN
       logs' = [lastSeq |-> IF q = <<>> THEN logs.lastSeq ELSE q[Len(q)],
                out |-> logs.out \o q,
                state |-> IF <<Watched, TailSeqs>> \in eventRows THEN "done" ELSE "tailing"]
    /\ UNCHANGED <<eventRows, pushed, sse>>

Cancel ==
    /\ logs.state = "tailing"
    /\ logs' = [logs EXCEPT !.state = "cancelled"]
    /\ UNCHANGED <<eventRows, pushed, sse>>

TailNext == (\E r \in TailRuns : insertEvent(r)) \/ Connect \/ Poll \/ Disconnect \/ Tick \/ Cancel

\* Both loops go on polling while they are open.
TailFairness == WF_tailVars(Poll) /\ WF_tailVars(Tick)

TailSpec == TailInit /\ [][TailNext]_tailVars /\ TailFairness

---------------------------------------------------------------------------

\* What a reader received is the run's history up to its last event, each
\* event once and in order, over any number of breaks and reconnects, and
\* although the batches are shared with other runs.
IsHistory(got) ==
    LET last == IF got = <<>> THEN 0 ELSE got[Len(got)] IN
    got = SeqsOf({e \in eventRows : e[2] <= last})

ReadersSeeHistory == IsHistory(sse.got) /\ IsHistory(logs.out)

\* A row of the watched run is on its way to an open stream: it has been sent.
Sent == \A n \in 1..TailSeqs : <<Watched, n>> \in eventRows => n <= sse.since

\* The rows that compete for the stream's batch.
Others == {e \in eventRows : e[1] # Watched}

\* While the other runs' rows leave room in a batch, an open stream catches up.
TailCatchesUp == sse.open ~> (~sse.open \/ Sent \/ Cardinality(Others) >= tailBatchSize)

\* The two readers of the table events.
TailSound == [](TailTypeOK /\ ReadersSeeHistory) /\ TailCatchesUp

\* apps/web/README.md: the server "polls the events table via
\* eventsQueries.tailEvents on a 250ms cadence", so that an open stream
\* receives the events of its run.
StreamDelivers == sse.open ~> (~sse.open \/ Sent)
==============================================================================
