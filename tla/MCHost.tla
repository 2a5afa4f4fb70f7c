------------------------------- MODULE MCHost -------------------------------
(* What runs on the operator's machine: the supervisor with one or two        *)
(* children; the commands and dashboard requests of two runs over two vendor  *)
(* sessions; and what two processes keep on disk: the messages and their      *)
(* files, the audit log, the schema, the costs.  A behaviour is of one of     *)
(* them, the others stay where they began.                                    *)
EXTENDS MCSupervisor, RunCommands, Mailbox, Persistence

VARIABLE part \* whose behaviour it is

hostVars == <<part, superVars, overlapped, cmdVars, mailVars, auditVars, dbVars, costVars>>

HostInit ==
    /\ part \in {"supervisor", "commands", "mail", "audit", "database", "costs"}
    /\ SupervisorInit /\ CmdInit /\ MailInit /\ AuditInit /\ DbInit /\ CostInit
    /\ part # "supervisor" => records = <<ca>>
    /\ part # "mail" => single
    /\ part # "costs" => \A r \in CostRuns : costVendor[r] = <<NoVendor, "v1">>

HostNext ==
    /\ UNCHANGED part
    /\ IF part = "supervisor" THEN SupervisorNext ELSE UNCHANGED <<superVars, overlapped>>
    /\ IF part = "commands" THEN CmdNext ELSE UNCHANGED cmdVars
    /\ IF part = "mail" THEN MailNext ELSE UNCHANGED mailVars
    /\ IF part = "audit" THEN AuditNext ELSE UNCHANGED auditVars
    /\ IF part = "database" THEN DbNext ELSE UNCHANGED dbVars
    /\ IF part = "costs" THEN insertCostEvent ELSE UNCHANGED costVars

HostSpec == HostInit /\ [][HostNext]_hostVars /\ SupervisorFairness

\* What the processes keep on disk keeps its promises: the exported mail follows the
\* table (materialize.ts), what passes the audit is the log (audit.ts), migrations
\* exclude each other and lose nothing (migrations.ts), and the two cost views agree
\* (cost.ts).
RecordsSound == [](MailSound /\ AuditSound) /\ DatabaseSound
=============================================================================
