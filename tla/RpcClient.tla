------------------------------ MODULE RpcClient ------------------------------
(***************************************************************************)
(* The request side of the two line protocols the daemon speaks to a       *)
(* vendor's process: AcpClientImpl (packages/protocol/acp/src/client.ts)   *)
(* and PiRpcClientImpl (packages/adapters/pi/src/rpc-client.ts).  Four     *)
(* parties may settle a request: its answer, its timer, a failed send, and *)
(* the end of the client or of its stream.  The transport and the vendor   *)
(* are external: a send may fail late, an answer may come late, twice or   *)
(* for a request nobody made.                                              *)
(***************************************************************************)
EXTENDS Integers, Sequences, FiniteSets, SequencesExt

CONSTANTS
    MaxRequests,  \* bound: requests sent
    MaxServer,    \* bound: requests of the vendor, ACP only
    MaxChunks     \* bound: chunks of the decoded stream

ASSUME RpcAssumption == MaxRequests \in Nat /\ MaxServer \in Nat

Ids == 1..MaxRequests
ServerIds == 1..MaxServer

VARIABLES
    rpKind,     \* "acp" or "pi"
    rpClosed,   \* closed
    rpStream,   \* consume: "reading", or "over" (it ended, failed or saw closed)
    rpReturned, \* close has returned
    rpSent,     \* nextId, counted from 0
    rpPending,  \* the keys of pending
    rpTimers,   \* requests whose timer runs
    rpSending,  \* requests whose transport.send has not settled
    rpWire,     \* requests the vendor has seen
    rpSettled,  \* history: how each request was settled, in order
    rpServing,  \* the vendor's requests whose handler has not returned
    rpReplies,  \* history: answers sent to the vendor, per request; -1 before it asks
    rpReady,    \* pi: readyFired
    rpFired     \* history: which handlers the last frame went to

requestVars == <<rpPending, rpTimers, rpSettled>>
loopVars == <<rpKind, rpClosed, rpStream, rpReturned>>
sendVars == <<rpSent, rpSending, rpWire>>
serveVars == <<rpServing, rpReplies>>
rpcVars == <<requestVars, loopVars, sendVars, serveVars, rpReady, rpFired>>

RpcInit ==
    /\ rpKind = "acp" /\ rpClosed = FALSE /\ rpStream = "reading" /\ rpReturned = FALSE
    /\ rpSent = 0 /\ rpPending = {} /\ rpTimers = {} /\ rpSending = {} /\ rpWire = {}
    /\ rpSettled = [id \in Ids |-> <<>>]
    /\ rpServing = {} /\ rpReplies = [id \in ServerIds |-> -1]
    /\ rpReady = FALSE /\ rpFired = "none"

\* Which of the two clients it is.
ChooseKind ==
    /\ RpcInit
    /\ rpKind' = "pi"
    /\ UNCHANGED <<requestVars, rpClosed, rpStream, rpReturned, sendVars, serveVars, rpReady, rpFired>>

\* pending.delete, clearTimeout and the promise's resolve or reject.
Settle(ids, how) ==
    /\ rpPending' = rpPending \ ids
    /\ rpTimers' = rpTimers \ ids
    /\ rpSettled' = [id \in Ids |-> IF id \in ids THEN Append(rpSettled[id], how) ELSE rpSettled[id]]

\* A call on a closed client is rejected at once; otherwise the request is pending with
\* its timer before the frame is handed to the transport.
Request(id) ==
    /\ rpSent' = id
    /\ IF rpClosed
         THEN /\ rpSettled' = [rpSettled EXCEPT ![id] = <<"shutdown">>]
              /\ UNCHANGED <<rpPending, rpTimers, rpSending>>
         ELSE /\ rpPending' = rpPending \cup {id} /\ rpTimers' = rpTimers \cup {id}
              /\ rpSending' = rpSending \cup {id} /\ UNCHANGED rpSettled
    /\ UNCHANGED <<loopVars, rpWire, serveVars, rpReady, rpFired>>

\* initialize, newSession, prompt and the other methods of the ACP client.
sendRequest == rpKind = "acp" /\ rpSent < MaxRequests /\ Request(rpSent + 1)

\* sendCommand of Pi; an empty type is a programming error and left out.
sendCommand == rpKind = "pi" /\ rpSent < MaxRequests /\ Request(rpSent + 1)

\* The write went through: the vendor may answer from now on.
SendDone(id) ==
    /\ id \in rpSending /\ ~rpReturned
    /\ rpSending' = rpSending \ {id} /\ rpWire' = rpWire \cup {id}
    /\ UNCHANGED <<requestVars, loopVars, rpSent, serveVars, rpReady, rpFired>>

\* Mutant: the catch rejects without looking the request up.
SendFailedUnchecked(id) ==
    /\ id \in rpSending
    /\ rpSending' = rpSending \ {id}
    /\ Settle({id}, "send_failed")
    /\ UNCHANGED <<loopVars, rpSent, rpWire, serveVars, rpReady, rpFired>>

\* The write failed, maybe after the request was settled otherwise.
SendFailed(id) ==
    /\ id \in rpSending
    /\ rpSending' = rpSending \ {id}
    /\ Settle({id} \cap rpPending, "send_failed")
    /\ UNCHANGED <<loopVars, rpSent, rpWire, serveVars, rpReady, rpFired>>

\* The request's own timer.
TimedOut(id) ==
    /\ id \in rpTimers
    /\ Settle({id}, "timeout")
    /\ UNCHANGED <<loopVars, sendVars, serveVars, rpReady, rpFired>>

\* An answer.  One without an id (0), or for a request that is settled or was never made,
\* goes to the protocol error handlers.
handleResponse(id, outcome) ==
    /\ Settle({id} \cap rpPending, outcome)
    /\ rpFired' = IF id \in rpPending THEN "none" ELSE "protocol error"
    /\ UNCHANGED <<serveVars, rpReady>>

\* session/update goes to its handlers, unless it has no params; others are ignored.
handleNotification(method) ==
    /\ rpFired' = CASE method = "session/update" -> "update"
                    [] method = "update without params" -> "protocol error"
                    [] OTHER -> "none"
    /\ UNCHANGED <<requestVars, serveVars, rpReady>>

\* A request of the vendor: session/request_permission or a registered method awaits
\* its handler, any other one is answered with an error at once.
handleServerRequest(id, method) ==
    /\ id \in ServerIds /\ rpReplies[id] = -1
    /\ IF method \in {"session/request_permission", "registered"}
         THEN rpServing' = rpServing \cup {id} /\ rpReplies' = [rpReplies EXCEPT ![id] = 0]
         ELSE rpReplies' = [rpReplies EXCEPT ![id] = 1] /\ UNCHANGED rpServing
    /\ rpFired' = "none"
    /\ UNCHANGED <<requestVars, rpReady>>

Methods == {"none", "session/update", "update without params", "session/request_permission",
            "registered", "other"}

\* A frame: id 0 stands for none, "none" for a missing method, result and error.
AcpFrames == [marked : BOOLEAN, method : Methods, id : 0..MaxRequests + MaxServer,
              outcome : {"none", "result", "error"}]

\* handleFrame of the ACP client.
acpHandleFrame(f) ==
    CASE f.marked /\ f.method # "none" /\ f.id # 0 -> handleServerRequest(f.id, f.method)
      [] f.marked /\ f.method # "none" /\ f.id = 0 -> handleNotification(f.method)
      [] f.marked /\ f.method = "none" /\ f.outcome # "none" -> handleResponse(f.id, f.outcome)
      [] OTHER -> rpFired' = "protocol error" /\ UNCHANGED <<requestVars, serveVars, rpReady>>

PiFrames == [type : {"none", "response", "ready", "event"}, id : 0..MaxRequests,
             outcome : {"result", "error"}]

\* handleFrame of Pi's client: the first ready frame is the driver's, later ones are events.
piHandleFrame(f) ==
    CASE f.type = "response" -> handleResponse(f.id, f.outcome)
      [] f.type = "ready" /\ ~rpReady ->
            rpReady' = TRUE /\ rpFired' = "ready" /\ UNCHANGED <<requestVars, serveVars>>
      [] f.type = "none" -> rpFired' = "protocol error" /\ UNCHANGED <<requestVars, serveVars, rpReady>>
      [] OTHER -> rpFired' = "event" /\ UNCHANGED <<requestVars, serveVars, rpReady>>

\* An iteration of consume.  The vendor answers only what it has seen.
FrameArrives ==
    /\ rpStream = "reading" /\ ~rpClosed
    /\ \/ rpKind = "acp" /\ \E f \in AcpFrames :
            (f.method = "none" => f.id \in rpWire \cup {0}) /\ acpHandleFrame(f)
       \/ rpKind = "pi" /\ \E f \in PiFrames : f.id \in rpWire \cup {0} /\ piHandleFrame(f)
    /\ UNCHANGED <<loopVars, sendVars>>

\* The next frame after close, whatever it is, ends the loop.
LoopLeaves ==
    /\ rpStream = "reading" /\ rpClosed /\ rpStream' = "over"
    /\ UNCHANGED <<requestVars, rpKind, rpClosed, rpReturned, sendVars, serveVars, rpReady, rpFired>>

failAllPending == Settle(rpPending, "stream_failed")

\* The stream breaks: everything pending fails; a closed client ignores it.
StdoutErrors ==
    /\ rpStream = "reading" /\ rpStream' = "over"
    /\ IF rpClosed THEN UNCHANGED <<requestVars, rpFired>>
       ELSE failAllPending /\ rpFired' = "protocol error"
    /\ UNCHANGED <<rpKind, rpClosed, rpReturned, sendVars, serveVars, rpReady>>

\* The stream ends, as when the process dies: consume returns and nothing is settled.
StdoutEnds ==
    /\ rpStream = "reading" /\ rpStream' = "over"
    /\ UNCHANGED <<requestVars, rpKind, rpClosed, rpReturned, sendVars, serveVars, rpReady, rpFired>>

\* close up to the transport's close: every pending request is rejected first.
CloseClient ==
    /\ ~rpClosed /\ rpClosed' = TRUE
    /\ Settle(rpPending, "shutdown")
    /\ UNCHANGED <<rpKind, rpStream, rpReturned, sendVars, serveVars, rpReady, rpFired>>

\* The transport is closed and the loop is over.
CloseDone ==
    /\ rpClosed /\ ~rpReturned /\ rpStream = "over"
    /\ rpReturned' = TRUE
    /\ UNCHANGED <<requestVars, rpKind, rpClosed, rpStream, sendVars, serveVars, rpReady, rpFired>>

\* The handler returned or threw: respondSuccess or respondError, neither of which
\* throws and neither of which sends on a closed client.
Respond(id) ==
    /\ id \in rpServing /\ rpServing' = rpServing \ {id}
    /\ rpReplies' = [rpReplies EXCEPT ![id] = IF rpClosed THEN @ ELSE @ + 1]
    /\ UNCHANGED <<requestVars, loopVars, sendVars, rpReady, rpFired>>

RpcNext ==
    \/ ChooseKind \/ sendRequest \/ sendCommand
    \/ \E id \in Ids : SendDone(id) \/ SendFailed(id) \/ TimedOut(id)
    \/ FrameArrives \/ LoopLeaves \/ StdoutErrors \/ StdoutEnds \/ CloseClient \/ CloseDone
    \/ \E id \in ServerIds : Respond(id)

\* Timers fire, and a closed transport's stream ends.
RpcFairness ==
    /\ \A id \in Ids : WF_rpcVars(TimedOut(id))
    /\ WF_rpcVars(rpClosed /\ StdoutEnds) /\ WF_rpcVars(CloseDone)

-----------------------------------------------------------------------------
(* decodeFrames of the two protocols, over one stream that comes in chunks   *)
(* cut anywhere.  A line ends at a line feed; Pi's may end in a carriage     *)
(* return too; empty lines count for nothing.                                *)

VARIABLES
    fmText,  \* history: what came so far
    fmAcp,   \* the ACP decoder: buffer, and the lines it gave to parseLine
    fmPi,    \* Pi's
    fmOver,  \* the stream has ended
    fmChunks \* counter for the bound

frameVars == <<fmText, fmAcp, fmPi, fmOver, fmChunks>>

Characters == {"x", "CR", "LF"}
Chunks == UNION {[1..n -> Characters] : n \in 1..2}
Decoder == [buffer |-> <<>>, lines |-> <<>>, partial |-> FALSE]

FrameInit == fmText = <<>> /\ fmAcp = Decoder /\ fmPi = Decoder /\ fmOver = FALSE /\ fmChunks = 0

stripTrailingCR(line) == IF line # <<>> /\ Last(line) = "CR" THEN Front(line) ELSE line

\* One character of the while loop: a line feed completes the line before it.
TakeLine(d, line) ==
    [d EXCEPT !.buffer = <<>>, !.lines = IF line = <<>> THEN @ ELSE Append(@, line)]

acpDecode(d, c) ==
    IF c = "LF" THEN TakeLine(d, d.buffer) ELSE [d EXCEPT !.buffer = Append(@, c)]

piDecode(d, c) ==
    IF c = "LF" THEN TakeLine(d, stripTrailingCR(d.buffer)) ELSE [d EXCEPT !.buffer = Append(@, c)]

decodeFrames(chunk) ==
    /\ ~fmOver /\ fmChunks < MaxChunks /\ fmChunks' = fmChunks + 1
    /\ fmText' = fmText \o chunk
    /\ fmAcp' = FoldLeft(acpDecode, fmAcp, chunk)
    /\ fmPi' = FoldLeft(piDecode, fmPi, chunk)
    /\ UNCHANGED fmOver

\* The end of the stream: what is left without a line feed is reported as a partial frame.
DecodeTail ==
    /\ ~fmOver /\ fmOver' = TRUE
    /\ fmAcp' = [fmAcp EXCEPT !.partial = fmAcp.buffer # <<>>]
    /\ fmPi' = [fmPi EXCEPT !.partial = stripTrailingCR(fmPi.buffer) # <<>>]
    /\ UNCHANGED <<fmText, fmChunks>>

FrameNext == DecodeTail \/ \E chunk \in Chunks : decodeFrames(chunk)

-----------------------------------------------------------------------------

\* A request is settled exactly once, by whichever of its answer, its timer, its failed
\* send, the broken stream and close comes first, and leaves no timer behind; the others
\* find nothing to settle.  A request of the vendor gets at most one answer.
SettledOnce ==
    /\ \A id \in Ids : id <= rpSent => Len(rpSettled[id]) = (IF id \in rpPending THEN 0 ELSE 1)
    /\ rpTimers = rpPending
    /\ \A id \in ServerIds : rpReplies[id] <= (IF id \in rpServing THEN 0 ELSE 1)

\* Every request is settled in the end, even if the vendor's stream just ends and close
\* is never called; and close returns.
RpcProgress ==
    /\ \A id \in Ids : id <= rpSent ~> rpSettled[id] # <<>>
    /\ rpClosed ~> rpReturned

\* The lines of a text, by the places of its line feeds, each cut by trim.
LinesOf(text, trim(_)) ==
    LET ends == {k \in DOMAIN text : text[k] = "LF"}
        previous(k) == Max({0} \cup {j \in ends : j < k})
        nth(n) == CHOOSE k \in ends : Cardinality({j \in ends : j <= k}) = n
    IN SelectSeq([n \in 1..Cardinality(ends) |-> trim(SubSeq(text, previous(nth(n)) + 1, nth(n) - 1))],
                 LAMBDA l : l # <<>>)

\* However the stream is cut into chunks, each decoder gives its parser the lines of the
\* whole text, and reports a partial frame only when text without a line feed is left.
CutsDoNotMatter ==
    /\ fmAcp.lines = LinesOf(fmText, LAMBDA l : l)
    /\ fmPi.lines = LinesOf(fmText, stripTrailingCR)
    /\ fmAcp.partial \/ fmPi.partial => Last(fmText) # "LF"

\* The JSON-RPC client settles a call once whatever races for it, decodes the
\* same frames however the pipe cuts them, and leaves no call waiting for ever.
RpcSound == [](SettledOnce /\ CutsDoNotMatter) /\ RpcProgress
=============================================================================
