-------------------------- MODULE EgressContainer --------------------------
(***************************************************************************)
(* The broker in a container, packages/egress-broker-container/src: start  *)
(* and shutdown of createContainerEgressBroker, chains of docker commands  *)
(* of which any may fail or be cut off by its timeout after docker has     *)
(* carried it out, the log lines that bring the proxy's decisions back,    *)
(* and the preflight.  docker is external.                                 *)
(***************************************************************************)
EXTENDS Integers, Sequences, FiniteSets, SequencesExt

CONSTANTS
    MaxContainerCalls, \* bound: calls of start and shutdown
    MaxDockerFaults,   \* bound: docker commands that go wrong
    MaxLogText         \* bound: characters of the log

ASSUME ContainerAssumption == MaxContainerCalls \in Nat

VARIABLES
    box,      \* docker's side: the network, the container; and the policy files on disk
    held,     \* the handle: containerId, boundPort, createdNetwork, policyCleanup, the log
              \* stream, shutdownComplete
    startPc,  \* the start under way, or "idle"
    stopPc,   \* the shutdown under way, or "idle"
    ended,    \* how the last start and shutdown ended
    excuse,   \* history: what has happened that leaves something behind
    dockerFaults, containerCalls, preflight

containerVars == <<box, held, startPc, stopPc, ended, excuse, dockerFaults, containerCalls, preflight>>

-----------------------------------------------------------------------------
(* docker commands: they do what they should, fail, or fail having done it.  *)

Works == UNCHANGED <<dockerFaults, excuse>>
Fault(what) ==
    /\ dockerFaults < MaxDockerFaults
    /\ dockerFaults' = dockerFaults + 1
    /\ excuse' = excuse \cup what

-----------------------------------------------------------------------------
(* start                                                                     *)

startContainer ==
    /\ containerCalls < MaxContainerCalls
    /\ ~(held.containerId /\ held.boundPort) /\ startPc = "idle"
    /\ startPc' = "version"
    /\ containerCalls' = containerCalls + 1
    /\ ended' = [ended EXCEPT !.start = "pending"]
    /\ excuse' = excuse \cup (IF stopPc # "idle" THEN {"overlap"} ELSE {})
                        \cup (IF held.shutdownComplete THEN {"restart"} ELSE {})
    /\ UNCHANGED <<box, held, stopPc, dockerFaults, preflight>>

StartThrows == startPc' = "idle" /\ ended' = [ended EXCEPT !.start = "failed"]

assertDockerReachable ==
    /\ startPc = "version"
    /\ \/ Works /\ startPc' = "network" /\ UNCHANGED ended
       \/ Fault({}) /\ StartThrows
    /\ UNCHANGED <<box, held, stopPc, containerCalls, preflight>>

\* A network of that name is taken as it is, and is not the handle's to remove.
ensureNetwork ==
    /\ startPc = "network"
    /\ \/ /\ Works
          /\ startPc' = "write"
          /\ held' = [held EXCEPT !.createdNetwork = @ \/ ~box.network]
          /\ box' = [box EXCEPT !.network = TRUE]
          /\ UNCHANGED ended
       \/ /\ Fault({}) /\ StartThrows /\ UNCHANGED <<held, box>>
       \/ /\ Fault({"create"}) /\ StartThrows
          /\ box' = [box EXCEPT !.network = TRUE]
          /\ UNCHANGED held
    /\ UNCHANGED <<stopPc, containerCalls, preflight>>

\* A file of a fresh name.  A write that fails half way leaves it, and no cleanup is known yet.
defaultWritePolicyFile ==
    /\ startPc = "write"
    /\ \/ /\ Works
          /\ startPc' = "run"
          /\ box' = [box EXCEPT !.files = @ + 1]
          /\ held' = [held EXCEPT !.policyCleanup = TRUE]
          /\ UNCHANGED ended
       \/ Fault({}) /\ StartThrows /\ UNCHANGED <<box, held>>
       \/ /\ Fault({"write"}) /\ StartThrows
          /\ box' = [box EXCEPT !.files = @ + 1]
          /\ UNCHANGED held
    /\ UNCHANGED <<stopPc, containerCalls, preflight>>

\* docker run; it needs the network, and a name that is free.
runContainer ==
    /\ startPc = "run"
    /\ \/ /\ Works /\ box.network /\ ~box.container
          /\ box' = [box EXCEPT !.container = TRUE]
          /\ held' = [held EXCEPT !.containerId = TRUE]
          /\ startPc' = "port"
       \/ /\ Works /\ ~(box.network /\ ~box.container)
          /\ startPc' = "soft" /\ UNCHANGED <<box, held>>
       \/ /\ Fault({}) /\ startPc' = "soft" /\ UNCHANGED <<box, held>>
       \/ /\ Fault({}) /\ box.network /\ ~box.container
          /\ box' = [box EXCEPT !.container = TRUE]
          /\ startPc' = "soft" /\ UNCHANGED held
    /\ UNCHANGED <<stopPc, ended, containerCalls, preflight>>

\* docker port, whose answer has to be read, and the log stream.
resolveHostPort ==
    /\ startPc = "port"
    /\ \/ /\ Works /\ box.container
          /\ held' = [held EXCEPT !.boundPort = TRUE, !.stream = TRUE]
          /\ startPc' = "idle" /\ ended' = [ended EXCEPT !.start = "ok"]
       \/ /\ Works /\ ~box.container /\ startPc' = "soft" /\ UNCHANGED <<held, ended>>
       \/ /\ Fault({}) /\ startPc' = "soft" /\ UNCHANGED <<held, ended>>
    /\ UNCHANGED <<box, stopPc, containerCalls, preflight>>

-----------------------------------------------------------------------------
(* reapContainer and reapNetwork, of a failed start and of shutdown.         *)

\* kill --signal=SIGTERM: the proxy may take it and exit within the grace, or not.
SoftKill ==
    \/ Works /\ (UNCHANGED box \/ box' = [box EXCEPT !.container = FALSE])
    \/ Fault({"kill"}) /\ UNCHANGED box

\* Mutant: the container is asked once more to end, not killed.
HardKillSoft ==
    \/ Works /\ (UNCHANGED box \/ box' = [box EXCEPT !.container = FALSE])
    \/ Fault({"kill"}) /\ UNCHANGED box

HardKill ==
    \/ Works /\ box' = [box EXCEPT !.container = FALSE]
    \/ Fault({"kill"}) /\ UNCHANGED box

\* docker network rm, refused while a container is attached.
RemoveNetwork ==
    box' = [box EXCEPT !.network = @ /\ (box.container \/ ~held.createdNetwork)]

\* The policy file's cleanup, which swallows the failure of rm and is forgotten either way.
PolicyCleaned ==
    \/ Works /\ box' = [box EXCEPT !.files = IF held.policyCleanup THEN @ - 1 ELSE @]
    \/ held.policyCleanup /\ Fault({"unlink"}) /\ UNCHANGED box

\* start's own cleaning swallows what goes wrong, and the error goes to the caller.
StartCleans ==
    \/ /\ startPc = "soft" /\ SoftKill /\ startPc' = "hard"
       /\ UNCHANGED <<held, ended>>
    \/ /\ startPc = "hard" /\ HardKill /\ startPc' = "rm"
       /\ UNCHANGED <<held, ended>>
    \/ /\ startPc = "rm" /\ startPc' = "clean"
       /\ \/ Works /\ RemoveNetwork
          \/ Fault({"rm"}) /\ UNCHANGED box
       /\ UNCHANGED <<held, ended>>
    \/ /\ startPc = "clean" /\ StartThrows /\ PolicyCleaned
       /\ held' = [held EXCEPT !.policyCleanup = FALSE, !.containerId = FALSE, !.boundPort = FALSE]

StartStep ==
    \/ assertDockerReachable \/ ensureNetwork \/ defaultWritePolicyFile \/ runContainer \/ resolveHostPort
    \/ StartCleans /\ UNCHANGED <<stopPc, containerCalls, preflight>>

-----------------------------------------------------------------------------
(* shutdown                                                                  *)

NothingHeld == ~held.containerId /\ ~held.boundPort /\ ~held.createdNetwork /\ ~held.policyCleanup

shutdownContainer ==
    /\ containerCalls < MaxContainerCalls
    /\ ~held.shutdownComplete /\ stopPc = "idle"
    /\ containerCalls' = containerCalls + 1
    /\ excuse' = excuse \cup (IF startPc # "idle" THEN {"overlap"} ELSE {})
    /\ IF NothingHeld
       THEN /\ held' = [held EXCEPT !.shutdownComplete = TRUE]
            /\ ended' = [ended EXCEPT !.stop = "ok"] /\ UNCHANGED stopPc
       ELSE /\ held' = [held EXCEPT !.stream = FALSE]
            /\ stopPc' = IF held.containerId THEN "soft" ELSE "rm"
            /\ ended' = [ended EXCEPT !.stop = "pending"]
    /\ UNCHANGED <<box, startPc, dockerFaults, preflight>>

\* A kill that failed twice is reported after the rest has been cleaned.
StopKills ==
    \/ /\ stopPc = "soft" /\ SoftKill
       /\ stopPc' = IF dockerFaults' # dockerFaults THEN "hard after failure" ELSE "hard"
       /\ UNCHANGED <<held, ended>>
    \/ /\ stopPc \in {"hard", "hard after failure"} /\ HardKill
       /\ stopPc' = IF stopPc = "hard after failure" /\ dockerFaults' # dockerFaults THEN "rm failing" ELSE "rm"
       /\ UNCHANGED <<held, ended>>

reapNetwork ==
    \/ /\ stopPc \in {"rm", "rm failing"} /\ Works /\ RemoveNetwork
       /\ stopPc' = IF stopPc = "rm" THEN "clean" ELSE "clean failing"
       /\ UNCHANGED <<held, ended>>
    \/ /\ stopPc = "rm failing" /\ Fault({"rm"}) /\ UNCHANGED <<box, held, ended>>
       /\ stopPc' = "clean failing"
    \/ /\ stopPc = "rm" /\ held.createdNetwork /\ Fault({}) /\ UNCHANGED <<box, held>>
       /\ stopPc' = "idle" /\ ended' = [ended EXCEPT !.stop = "failed"]

StopCleans ==
    /\ stopPc \in {"clean", "clean failing"} /\ PolicyCleaned
    /\ held' = [held EXCEPT !.policyCleanup = FALSE, !.containerId = FALSE, !.boundPort = FALSE,
                            !.shutdownComplete = stopPc = "clean"]
    /\ stopPc' = "idle" /\ ended' = [ended EXCEPT !.stop = IF stopPc = "clean" THEN "ok" ELSE "failed"]

StopStep == (StopKills \/ reapNetwork \/ StopCleans) /\ UNCHANGED <<startPc, containerCalls, preflight>>

\* The container ends on its own; --rm takes it away.
ContainerExits ==
    /\ box.container
    /\ box' = [box EXCEPT !.container = FALSE]
    /\ UNCHANGED <<held, startPc, stopPc, ended, excuse, dockerFaults, containerCalls, preflight>>

\* The process that holds the handle dies, and a later one asks for the preflight.
Dies ==
    /\ "died" \notin excuse
    /\ held' = [containerId |-> FALSE, boundPort |-> FALSE, createdNetwork |-> FALSE, policyCleanup |-> FALSE,
                stream |-> FALSE, shutdownComplete |-> TRUE]
    /\ startPc' = "idle" /\ stopPc' = "idle" /\ containerCalls' = MaxContainerCalls
    /\ excuse' = excuse \cup {"died"}
    /\ UNCHANGED <<box, ended, dockerFaults, preflight>>

\* The daemon, the image and docker ps, which lists containers of the prefix, running or not.
containerEgressPreflight ==
    /\ preflight = "none" /\ "died" \in excuse
    /\ \/ Works /\ preflight' = IF box.container THEN "stale_containers" ELSE "ok"
       \/ Fault({}) /\ preflight' \in {"docker_unreachable", "image_missing", "network_error"}
    /\ UNCHANGED <<box, held, startPc, stopPc, ended, containerCalls>>

-----------------------------------------------------------------------------
(* The log: characters arrive in chunks, lines are JSON or not.              *)

\* Mutant: what follows the last newline of a chunk is not kept for the next one.
flushForgets(seen, chunk) ==
    LET cuts == {i \in DOMAIN chunk : chunk[i] = "nl"}
        ends == SetToSortSeq(cuts, <)
        from(k) == IF k = 1 THEN 1 ELSE ends[k - 1] + 1
        lines == [k \in DOMAIN ends |-> SubSeq(chunk, from(k), ends[k] - 1)]
    IN [buffer |-> <<>>, lines |-> seen.lines \o SelectSeq(lines, LAMBDA line : line # <<>>)]

flush(seen, chunk) ==
    LET all == seen.buffer \o chunk
        cuts == {i \in DOMAIN all : all[i] = "nl"}
        tail == IF cuts = {} THEN 0 ELSE CHOOSE i \in cuts : \A j \in cuts : j <= i
        from(i) == LET before == {j \in cuts : j < i} IN IF before = {} THEN 1 ELSE 1 + CHOOSE j \in before : \A k \in before : k <= j
        ends == SetToSortSeq(cuts, <)
        lines == [k \in DOMAIN ends |-> SubSeq(all, from(ends[k]), ends[k] - 1)]
    IN [buffer |-> SubSeq(all, tail + 1, Len(all)),
        lines |-> seen.lines \o SelectSeq(lines, LAMBDA line : line # <<>>)]

\* The close of the stream brings a line that was not ended.
defaultDockerLogStreamer(chunks) ==
    LET read[n \in 0..Len(chunks)] ==
            IF n = 0 THEN [buffer |-> <<>>, lines |-> <<>>] ELSE flush(read[n - 1], chunks[n])
        tail == read[Len(chunks)]
    IN tail.lines \o (IF tail.buffer = <<>> THEN <<>> ELSE <<tail.buffer>>)

Fields == [type : {"policy.egress_allowed", "policy.egress_denied", "other"}, ts : {"number", "none"},
           proxyMethod : {"CONNECT", "HTTP", "none"}, host : {"string", "none"}, port : {"number", "null", "none"},
           rawTarget : {"string", "none"}, reason : {"host_not_allowlisted", "invalid_target", "other", "none"}]

Required(obj) == obj.ts # "none" /\ obj.proxyMethod # "none" /\ obj.host # "none" /\ obj.port # "none"

\* What a line says, or that it is no event.
parseLogLine(obj) ==
    IF obj.type = "other" \/ ~Required(obj) THEN "no event"
    ELSE IF obj.type = "policy.egress_allowed" THEN "allowed"
    ELSE IF obj.rawTarget = "none" \/ obj.reason \notin {"host_not_allowlisted", "invalid_target"} THEN "no event"
    ELSE "denied"

\* What the proxy in the container writes: emit of docker/proxy.ts, at its six places.
emitted(method, parsed, matches) ==
    [ts |-> "number", proxyMethod |-> method, host |-> "string", port |-> IF parsed THEN "number" ELSE "null",
     type |-> IF parsed /\ matches THEN "policy.egress_allowed" ELSE "policy.egress_denied",
     rawTarget |-> IF parsed /\ matches THEN "none" ELSE "string",
     reason |-> IF parsed /\ matches THEN "none" ELSE IF parsed THEN "host_not_allowlisted" ELSE "invalid_target"]

-----------------------------------------------------------------------------

ContainerInit ==
    /\ box = [network |-> FALSE, container |-> FALSE, files |-> 0]
    /\ held = [containerId |-> FALSE, boundPort |-> FALSE, createdNetwork |-> FALSE, policyCleanup |-> FALSE,
               stream |-> FALSE, shutdownComplete |-> FALSE]
    /\ startPc = "idle" /\ stopPc = "idle"
    /\ ended = [start |-> "none", stop |-> "none"]
    /\ excuse = {} /\ dockerFaults = 0 /\ containerCalls = 0 /\ preflight = "none"

ContainerNext ==
    \/ startContainer \/ StartStep \/ shutdownContainer \/ StopStep \/ ContainerExits \/ Dies \/ containerEgressPreflight

ContainerSpec == ContainerInit /\ [][ContainerNext]_containerVars

-----------------------------------------------------------------------------

Quiet == startPc = "idle" /\ stopPc = "idle"
Excused(what) == excuse \cap ({"overlap", "restart", "died"} \cup what) # {}

\* What is left on the machine is what the handle still knows of and a shutdown would remove:
\* a container without its id only after a kill command has failed, a network only after its
\* creation was cut off, a policy file only after its writing or its removal has failed.
\* Calls that overlap, and a start after a completed shutdown, are left out.
LeftIsHeld ==
    Quiet => /\ box.container => held.containerId \/ Excused({"kill"})
             /\ box.network => held.createdNetwork \/ Excused({"create"})
             /\ box.files > (IF held.policyCleanup THEN 1 ELSE 0) => Excused({"write", "unlink"})

\* When shutdown has resolved nothing is left, with the same exceptions, after any number of
\* starts and shutdowns that failed half way.
ShutdownLeavesNothing ==
    Quiet /\ held.shutdownComplete
        => /\ box.container => Excused({"kill"})
           /\ box.network => Excused({"kill", "create"})
           /\ box.files > 0 => Excused({"write", "unlink"})
           /\ held.stream => Excused({})

\* The preflight of a later process never passes over a container that a dead one left,
\* at whatever step of start or shutdown it died.
PreflightHonest == preflight = "ok" => ~box.container

\* The lines of the log do not depend on the chunks it arrives in, and every decision the proxy
\* writes is read back as what it was.
LogTexts == SeqOf({"a", "nl"}, MaxLogText)
DecisionsReadBack ==
    /\ \A text \in LogTexts, i, j \in 0..MaxLogText :
         i <= j /\ j <= Len(text)
            => defaultDockerLogStreamer(<<SubSeq(text, 1, i), SubSeq(text, i + 1, j), SubSeq(text, j + 1, Len(text))>>)
                = defaultDockerLogStreamer(<<text>>)
    /\ \A method \in {"CONNECT", "HTTP"}, parsed, matches \in BOOLEAN :
         parseLogLine(emitted(method, parsed, matches)) = IF parsed /\ matches THEN "allowed" ELSE "denied"
    /\ \A obj \in Fields : ~Required(obj) => parseLogLine(obj) = "no event"

\* What the handle of a container promises of the machine it runs on.
ContainerSound == LeftIsHeld /\ ShutdownLeavesNothing /\ PreflightHonest
=============================================================================
