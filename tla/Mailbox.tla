------------------------------ MODULE Mailbox ------------------------------
(***************************************************************************)
(* The messages of the agents and the files that export them:              *)
(* packages/mailbox/src/mailbox.ts and materialize.ts over the mailbox     *)
(* table, with the message ids of packages/shared/src/ulid.ts.             *)
(*                                                                         *)
(* A process inserts rows in one transaction, then appends each of them to *)
(* its recipient's file by reading the file, opening (and truncating) a    *)
(* temporary one, writing that and renaming it.  reconcile, at boot,       *)
(* rewrites every file from the table.  Each of those file operations is   *)
(* one step, so a crash or the other process, which uses the same          *)
(* temporary file, may come between any two of them.  A descriptor stays   *)
(* with the file it was opened for, whatever that is called by the time of *)
(* the write.  A write puts down all it was given, or the process died.    *)
(***************************************************************************)
EXTENDS Integers, FiniteSets, Sequences, SequencesExt

CONSTANTS
    MailAgents,    \* the recipients
    SharedAgents,  \* bound: those written to where there is more than one process
    MailProcs,     \* the processes that use one database and directory
    MaxMail,       \* bound: rows
    MaxMs,         \* bound: the clock
    MaxRandom,     \* the random part of an id is 0..MaxRandom
    NoFile,
    Torn           \* a line of which only the end is left

VARIABLES
    single,    \* only one process ever runs
    ms,        \* Date.now()
    mail,      \* the mailbox table: a set of rows
    exported,  \* [MailAgents -> the lines of <agent>.jsonl]
    temp,      \* [MailAgents -> the lines of <agent>.jsonl.tmp, or NoFile]
    fd,        \* [MailProcs -> what the process's descriptor is of: "none" is open, the
               \* "temp" file, the "exported" one, or one that is "gone" since]
    lastId,    \* [MailProcs -> ulid's lastTime and lastRand]
    doing,     \* [MailProcs -> what the process is doing]
    strayed,   \* something happened that only the next reconcile repairs
    mixed      \* history: agents whose temporary file two processes had open at once

mailVars == <<single, ms, mail, exported, temp, fd, lastId, doing, strayed, mixed>>

NotRead == -1
Id == [at : 0..MaxMs, random : 0..MaxRandom]
MailRow == [id : Id, to : MailAgents, delivered : 0..MaxMs, read : {NotRead} \cup 0..MaxMs]
Line == MailRow \cup {Torn}

ASSUME MailAssumption ==
    /\ MailProcs # {} /\ SharedAgents \subseteq MailAgents /\ Torn \notin MailRow
    /\ NoFile \notin MailAgents \cup Seq(Line)
    /\ MaxMail \in Nat /\ MaxMs \in Nat /\ MaxRandom \in Nat

Resting == [kind |-> "resting"]
Booting == [kind |-> "booting"]

\* An agent's rows as the table lists them: ORDER BY delivered_at, msg_id.  The text of an
\* id orders as its time, then its random part.
IdBefore(i, j) == i.at < j.at \/ (i.at = j.at /\ i.random < j.random)
RowBefore(r, s) == r.delivered < s.delivered \/ (r.delivered = s.delivered /\ IdBefore(r.id, s.id))
RowsTo(agent, messages) ==
    LET rows == {r \in messages : r.to = agent}
    IN CHOOSE q \in [1..Cardinality(rows) -> rows] : \A i, j \in DOMAIN q : i < j => RowBefore(q[i], q[j])

MailInit ==
    /\ single \in BOOLEAN /\ ms = 0 /\ mail = {} /\ strayed = FALSE
    /\ exported = [a \in MailAgents |-> <<>>] /\ temp = [a \in MailAgents |-> NoFile]
    /\ lastId = [p \in MailProcs |-> [at |-> -1, random |-> 0]]
    /\ fd = [p \in MailProcs |-> "none"] /\ mixed = {}
    /\ doing = [p \in MailProcs |-> Booting]

\* The processes there are.
Processes == IF single THEN {CHOOSE p \in MailProcs : TRUE} ELSE MailProcs
Recipients == IF single THEN MailAgents ELSE SharedAgents

-----------------------------------------------------------------------------
(* Ids and messages.                                                       *)

\* Mutant: every id gets fresh random bytes.
ulidAlwaysFresh(last, now) == {[at |-> now, random |-> r] : r \in 0..MaxRandom}

\* ulid: within a millisecond the last random part plus one, else fresh random bytes.
\* incrementBytes throws where the random part overflows: no id at all.
ulid(last, now) ==
    IF last.at = now
      THEN IF last.random < MaxRandom THEN {[last EXCEPT !.random = @ + 1]} ELSE {}
      ELSE {[at |-> now, random |-> r] : r \in 0..MaxRandom}

\* insertMessage: the id first, then delivered_at, between which the clock may tick.
insertMessage(to, id, later) == [id |-> id, to |-> to, delivered |-> later, read |-> NotRead]

\* The appends a process still has to make, rows in the order of their insertion.
Appending(pending) ==
    IF pending = <<>> THEN Resting ELSE [kind |-> "append", rows |-> pending, step |-> "read", lines |-> <<>>]

\* whisper: one row.
whisper(p, to) ==
    /\ p \in Processes /\ doing[p] = Resting /\ Cardinality(mail) < MaxMail
    /\ \E id \in ulid(lastId[p], ms), later \in {ms, ms + 1} :
         LET row == insertMessage(to, id, later)
         IN /\ later <= MaxMs /\ \A r \in mail : r.id # id
            /\ mail' = mail \cup {row} /\ ms' = later
            /\ lastId' = [lastId EXCEPT ![p] = id]
            /\ doing' = [doing EXCEPT ![p] = Appending(<<row>>)]
    /\ UNCHANGED <<single, exported, temp, fd, strayed, mixed>>

\* broadcast to two recipients, in one transaction and here within one millisecond.
\* A recipient that is no text throws: the transaction is rolled back, the ids are spent.
broadcast(p, first, second, valid) ==
    /\ p \in Processes /\ doing[p] = Resting /\ Cardinality(mail) + 1 < MaxMail
    /\ \E id \in ulid(lastId[p], ms) :
         /\ \A r \in mail : r.id # id
         /\ IF valid
              THEN \E next \in ulid(id, ms) :
                     LET sent == <<insertMessage(first, id, ms), insertMessage(second, next, ms)>>
                     IN /\ \A r \in mail : r.id # next
                        /\ mail' = mail \cup {sent[1], sent[2]}
                        /\ lastId' = [lastId EXCEPT ![p] = next]
                        /\ doing' = [doing EXCEPT ![p] = Appending(sent)]
              ELSE lastId' = [lastId EXCEPT ![p] = id] /\ UNCHANGED <<mail, doing>>
    /\ UNCHANGED <<single, ms, exported, temp, fd, strayed, mixed>>

\* markRead by the agent a row is addressed to, any other is refused.  The line in the
\* agent's file keeps its old readAt until the next reconcile.
markRead(p, agent, row) ==
    /\ p \in Processes /\ doing[p] = Resting
    /\ row \in mail /\ row.to = agent
    /\ mail' = (mail \ {row}) \cup {[row EXCEPT !.read = ms]}
    /\ strayed' = TRUE
    /\ UNCHANGED <<single, ms, exported, temp, fd, lastId, doing, mixed>>

MailTick ==
    /\ ms < MaxMs /\ ms' = ms + 1
    /\ UNCHANGED <<single, mail, exported, temp, fd, lastId, doing, strayed, mixed>>

-----------------------------------------------------------------------------
(* The files.                                                              *)

\* The agent whose temporary file a process that has one open opened.
Target(p) == IF doing[p].kind = "append" THEN doing[p].rows[1].to ELSE doing[p].written
At(p, place, agent) == fd[p] = place /\ Target(p) = agent

\* openSync(tmp, "w"): the file is created, or it is the one that is there, emptied.
Opened(p, agent) ==
    /\ temp' = [temp EXCEPT ![agent] = <<>>]
    /\ fd' = [fd EXCEPT ![p] = "temp"]
    /\ mixed' = IF \E q \in MailProcs : At(q, "temp", agent) THEN mixed \cup {agent} ELSE mixed

\* What may be left of the lines that were there behind what is written over them: it
\* depends on how long both are.
Remains(old) ==
    {<<>>} \cup {torn \o SubSeq(old, k, Len(old)) : torn \in {<<>>, <<Torn>>}, k \in 2..(Len(old) + 1)}

\* writeSync of the lines from the start of the file the descriptor is of, and closeSync.
Written(p, agent, lines) ==
    /\ CASE fd[p] = "temp" ->
              /\ \E rest \in Remains(temp[agent]) : temp' = [temp EXCEPT ![agent] = lines \o rest]
              /\ UNCHANGED exported
         [] fd[p] = "exported" ->
              /\ \E rest \in Remains(exported[agent]) : exported' = [exported EXCEPT ![agent] = lines \o rest]
              /\ UNCHANGED temp
         [] fd[p] = "gone" -> UNCHANGED <<exported, temp>>
    /\ fd' = [fd EXCEPT ![p] = "none"]

\* appendToMaterializedLog reads the file; a read that fails counts as an empty file.
AppendReads(p, works) ==
    /\ doing[p].kind = "append" /\ doing[p].step = "read"
    /\ doing' = [doing EXCEPT ![p].step = "write",
                            ![p].lines = IF works THEN exported[doing[p].rows[1].to] ELSE <<>>]
    /\ strayed' = (strayed \/ (~works /\ exported[doing[p].rows[1].to] # <<>>))
    /\ UNCHANGED <<single, ms, mail, exported, temp, fd, lastId, mixed>>

AppendOpens(p) ==
    /\ doing[p].kind = "append" /\ doing[p].step = "write" /\ fd[p] = "none"
    /\ Opened(p, doing[p].rows[1].to)
    /\ UNCHANGED <<single, ms, mail, exported, lastId, doing, strayed>>

\* It writes what it read and the new line.
AppendWrites(p) ==
    /\ doing[p].kind = "append" /\ doing[p].step = "write" /\ fd[p] # "none"
    /\ Written(p, doing[p].rows[1].to, Append(doing[p].lines, doing[p].rows[1]))
    /\ doing' = [doing EXCEPT ![p].step = "rename"]
    /\ UNCHANGED <<single, ms, mail, lastId, strayed, mixed>>

\* renameSync of whatever the temporary file holds; without one it throws.
Renamed(agent) ==
    /\ exported' = [exported EXCEPT ![agent] = temp[agent]]
    /\ temp' = [temp EXCEPT ![agent] = NoFile]
    /\ fd' = [q \in MailProcs |-> IF At(q, "temp", agent) THEN "exported"
                                 ELSE IF At(q, "exported", agent) THEN "gone" ELSE fd[q]]

AppendRenames(p) ==
    /\ doing[p].kind = "append" /\ doing[p].step = "rename"
    /\ IF temp[doing[p].rows[1].to] # NoFile
         THEN /\ Renamed(doing[p].rows[1].to)
              /\ doing' = [doing EXCEPT ![p] = Appending(Tail(doing[p].rows))] /\ UNCHANGED strayed
         ELSE /\ doing' = [doing EXCEPT ![p] = Resting] /\ strayed' = TRUE /\ UNCHANGED <<exported, temp, fd>>
    /\ UNCHANGED <<single, ms, mail, lastId, mixed>>

\* reconcile reads the table once, at boot.
ReconcileReads(p) ==
    /\ p \in Processes /\ doing[p] = Booting
    /\ doing' = [doing EXCEPT ![p] =
                  [kind |-> "reconcile", rows |-> mail, left |-> {r.to : r \in mail}, written |-> NoFile]]
    /\ UNCHANGED <<single, ms, mail, exported, temp, fd, lastId, strayed, mixed>>

\* For every agent with rows it writes the temporary file from scratch, and renames it:
\* writeFileSync opens and writes it.
ReconcileOpens(p, agent) ==
    /\ doing[p].kind = "reconcile" /\ doing[p].written = NoFile /\ agent \in doing[p].left
    /\ Opened(p, agent)
    /\ doing' = [doing EXCEPT ![p].written = agent]
    /\ UNCHANGED <<single, ms, mail, exported, lastId, strayed>>

ReconcileWrites(p) ==
    /\ doing[p].kind = "reconcile" /\ doing[p].written # NoFile /\ fd[p] # "none"
    /\ Written(p, doing[p].written, RowsTo(doing[p].written, doing[p].rows))
    /\ UNCHANGED <<single, ms, mail, lastId, doing, strayed, mixed>>

ReconcileRenames(p) ==
    /\ doing[p].kind = "reconcile" /\ doing[p].written # NoFile /\ fd[p] = "none"
    /\ IF temp[doing[p].written] # NoFile
         THEN /\ Renamed(doing[p].written)
              /\ doing' = [doing EXCEPT ![p].left = @ \ {doing[p].written}, ![p].written = NoFile]
         ELSE doing' = [doing EXCEPT ![p] = Resting] /\ UNCHANGED <<exported, temp, fd>>
    /\ UNCHANGED <<single, ms, mail, lastId, strayed, mixed>>

ReconcileEnds(p) ==
    /\ doing[p].kind = "reconcile" /\ doing[p].left = {} /\ doing[p].written = NoFile
    /\ doing' = [doing EXCEPT ![p] = Resting] /\ strayed' = FALSE
    /\ UNCHANGED <<single, ms, mail, exported, temp, fd, lastId, mixed>>

\* The process dies and is started again, a millisecond later at the earliest.
MailCrash(p) ==
    /\ p \in Processes /\ doing[p] # Booting /\ ms < MaxMs
    /\ ms' = ms + 1 /\ doing' = [doing EXCEPT ![p] = Booting] /\ fd' = [fd EXCEPT ![p] = "none"]
    /\ lastId' = [lastId EXCEPT ![p] = [at |-> -1, random |-> 0]]
    /\ strayed' = (strayed \/ doing[p].kind = "append")
    /\ UNCHANGED <<single, mail, exported, temp, mixed>>

MailNext ==
    \/ MailTick
    \/ \E p \in MailProcs :
         \/ \E to \in Recipients : whisper(p, to) \/ ReconcileOpens(p, to)
         \/ \E first, second \in Recipients, valid \in BOOLEAN : broadcast(p, first, second, valid)
         \/ \E row \in mail : markRead(p, row.to, row)
         \/ \E works \in BOOLEAN : AppendReads(p, works)
         \/ AppendOpens(p) \/ AppendWrites(p) \/ AppendRenames(p)
         \/ ReconcileReads(p) \/ ReconcileWrites(p) \/ ReconcileRenames(p) \/ ReconcileEnds(p) \/ MailCrash(p)

MailSpec == MailInit /\ [][MailNext]_mailVars

-----------------------------------------------------------------------------

MailTypeOK ==
    /\ mail \subseteq MailRow /\ ms \in 0..MaxMs /\ single \in BOOLEAN /\ strayed \in BOOLEAN
    /\ \A a \in MailAgents :
         /\ \A k \in DOMAIN exported[a] : exported[a][k] \in Line
         /\ temp[a] # NoFile => \A k \in DOMAIN temp[a] : temp[a][k] \in Line
    /\ fd \in [MailProcs -> {"none", "temp", "exported", "gone"}] /\ mixed \subseteq MailAgents
    /\ \A p \in MailProcs : doing[p].kind \in {"resting", "booting", "append", "reconcile"}

fileMatchesDb(agent) == exported[agent] = RowsTo(agent, mail)

\* Whatever two processes, crashes and failed reads do to the files, a whole line is a
\* message of the table and of that agent: no file ever shows a rolled back or foreign
\* one.  "Never a half-written one" holds of an agent until two processes have its
\* temporary file open at once: then the end of a line may stay behind the shorter write.
LinesAreMail ==
    \A a \in MailAgents : \A k \in DOMAIN exported[a] :
        IF exported[a][k] = Torn THEN a \in mixed ELSE \E r \in mail : r.to = a /\ r.id = exported[a][k].id

\* materialize.ts's consistency rule, where it holds: with one process a file is at every
\* moment a prefix of the table's rows in the table's order, and all of them once the
\* process rests.  A death between commit and rename, a failed read and markRead break it
\* until the next reconcile has run.
FilesFollowTable ==
    single /\ ~strayed =>
        /\ \A a \in MailAgents : IsPrefix(exported[a], RowsTo(a, mail))
        /\ (\A p \in Processes : doing[p] = Resting) => \A a \in MailAgents : fileMatchesDb(a)

MailSound == MailTypeOK /\ LinesAreMail /\ FilesFollowTable
=============================================================================
