---------------------------- MODULE EgressBroker ----------------------------
(***************************************************************************)
(* The in-process egress broker, packages/egress-broker/src: the policy by *)
(* which it allows a target, and the proxy that applies it.                *)
(***************************************************************************)
EXTENDS Integers, Sequences, FiniteSets, SequencesExt

-----------------------------------------------------------------------------
(* The egress policy, packages/egress-broker/src/policy.ts, and how the    *)
(* two proxies read a request's target: the in-process broker, broker.ts,  *)
(* and the one in the container, docker/proxy.ts, which carries a copy of  *)
(* the same functions.  A string is a sequence of characters, so that what *)
(* endsWith and lastIndexOf do can go wrong.                               *)

CONSTANTS
    Alphabet,     \* characters of hosts and of targets
    MaxText,      \* bound: length of a text
    MaxPort       \* 65535

\* Of the code's 65535 only that the ports 1 and 10 are below it matters.
ASSUME PortAssumption == MaxPort \in Nat /\ MaxPort >= 10

Text(n) == UNION {[1..k -> Alphabet] : k \in 0..n}

endsWith(text, tail) == Len(text) >= Len(tail) /\ SubSeq(text, Len(text) - Len(tail) + 1, Len(text)) = tail
LastAt(text, c) == LET at == {k \in DOMAIN text : text[k] = c}
                   IN IF at = {} THEN 0 ELSE CHOOSE k \in at : \A j \in at : j <= k
FirstAt(text, c) == LET at == {k \in DOMAIN text : text[k] = c}
                    IN IF at = {} THEN 0 ELSE CHOOSE k \in at : \A j \in at : k <= j
From(text, k) == SubSeq(text, k, Len(text))

\* toLowerCase: "A" is the one capital letter.
toLowerCase(text) == [k \in DOMAIN text |-> IF text[k] = "A" THEN "a" ELSE text[k]]

\* Number.parseInt: the digits in front; 0, refused like NaN, when there are none.
parseInt(text) ==
    LET digits == {k \in DOMAIN text : \A j \in 1..k : text[j] \in {"0", "1"}}
        value[k \in 0..Len(text)] == IF k = 0 THEN 0 ELSE 10 * value[k - 1] + (IF text[k] = "1" THEN 1 ELSE 0)
    IN value[Cardinality(digits)]

-----------------------------------------------------------------------------
(* policy.ts.                                                                *)

\* Labels of letters and digits, none empty; the lengths are left out.
isValidHostname(h) ==
    /\ h # <<>> /\ Head(h) # "." /\ Last(h) # "."
    /\ \A k \in DOMAIN h : h[k] \in {"a", "x", "1", "0", "."}
    /\ \A k \in 1..(Len(h) - 1) : ~(h[k] = "." /\ h[k + 1] = ".")

isValidSuffix(s) == s # <<>> /\ Head(s) = "." /\ isValidHostname(Tail(s))

NoPolicy == [ok |-> FALSE, hosts |-> {}, suffixes |-> {}]

\* raw is a policy's JSON: its default, hosts and suffixes.  A single bad entry refuses it.
loadEgressPolicy(raw) ==
    LET hosts == {toLowerCase(h) : h \in raw.hosts}
        suffixes == {toLowerCase(s) : s \in raw.suffixes}
    IN IF /\ raw.default = "deny"
          /\ \A h \in hosts : isValidHostname(h)
          /\ \A s \in suffixes : isValidSuffix(s)
         THEN [ok |-> TRUE, hosts |-> hosts, suffixes |-> suffixes] ELSE NoPolicy

normalizeHost(host) ==
    LET lower == toLowerCase(host)
        bare == IF Len(lower) >= 2 /\ Head(lower) = "[" /\ Last(lower) = "]"
                  THEN SubSeq(lower, 2, Len(lower) - 1) ELSE lower
    IN IF bare # <<>> /\ Last(bare) = "." THEN Front(bare) ELSE bare

matchHost(policy, host) ==
    LET target == normalizeHost(host)
    IN /\ target # <<>>
       /\ \/ target \in policy.hosts
          \/ \E s \in policy.suffixes : endsWith(target, s) \/ target = Tail(s)

-----------------------------------------------------------------------------
(* broker.ts: the target of a CONNECT, and of a request with a full URL.     *)

NoTarget == [ok |-> FALSE, host |-> <<>>, port |-> 0]

parseConnectTarget(raw) ==
    LET close == FirstAt(raw, "]")
        colon == LastAt(raw, ":")
        bracketed == raw # <<>> /\ Head(raw) = "["
        port == parseInt(From(raw, (IF bracketed THEN close + 1 ELSE colon) + 1))
        host == IF bracketed THEN SubSeq(raw, 2, close - 1) ELSE SubSeq(raw, 1, colon - 1)
    IN IF /\ IF bracketed THEN close > 0 /\ close < Len(raw) /\ raw[close + 1] = ":"
             ELSE colon > 1
          /\ port > 0 /\ port <= MaxPort
         THEN [ok |-> TRUE, host |-> host, port |-> port] ELSE NoTarget

\* A URL, as the URL parser takes it apart: its scheme, host and port (0 for none).
parseProxyRequestUrl(url) ==
    IF url.scheme \in {"http", "https"} /\ url.port <= MaxPort
      THEN [ok |-> TRUE, host |-> url.host, port |-> url.port] ELSE NoTarget

\* onConnect and onRequest up to the answer: what is said of a target.
Judge(policy, target) ==
    IF ~target.ok THEN "invalid_target"
    ELSE IF ~matchHost(policy, target.host) THEN "host_not_allowlisted" ELSE "allowed"

-----------------------------------------------------------------------------
(* docker/proxy.ts: the copy.  loadPolicy takes a list that is not an array  *)
(* for an empty one; serializePolicy never writes such a list.               *)

serializePolicy(policy) == [default |-> "deny", hosts |-> policy.hosts, suffixes |-> policy.suffixes]

loadPolicy(json) ==
    LET hosts == {toLowerCase(h) : h \in json.hosts}
        suffixes == {toLowerCase(s) : s \in json.suffixes}
    IN [ok |-> json.default = "deny" /\ (\A h \in hosts : isValidHostname(h))
                 /\ (\A s \in suffixes : isValidSuffix(s)),
        hosts |-> hosts, suffixes |-> suffixes]

proxyNormalizeHost(host) ==
    LET lower == toLowerCase(host)
        inner == IF Len(lower) > 1 /\ lower[1] = "[" /\ lower[Len(lower)] = "]"
                   THEN Front(Tail(lower)) ELSE lower
    IN IF endsWith(inner, <<".">>) THEN Front(inner) ELSE inner

proxyMatchHost(policy, host) ==
    LET target == proxyNormalizeHost(host)
        under(s) == endsWith(target, s) \/ target = From(s, 2)
    IN target # <<>> /\ (target \in policy.hosts \/ \E s \in policy.suffixes : under(s))

proxyParseConnectTarget(raw) ==
    LET valid(port) == port > 0 /\ port <= MaxPort
        close == FirstAt(raw, "]")
        colon == LastAt(raw, ":")
        inBrackets == [ok |-> /\ close > 0 /\ close < Len(raw) /\ raw[close + 1] = ":"
                              /\ valid(parseInt(From(raw, close + 2))),
                       host |-> SubSeq(raw, 2, close - 1), port |-> parseInt(From(raw, close + 2))]
        plain == [ok |-> colon > 1 /\ valid(parseInt(From(raw, colon + 1))),
                  host |-> SubSeq(raw, 1, colon - 1), port |-> parseInt(From(raw, colon + 1))]
        parsed == IF raw # <<>> /\ raw[1] = "[" THEN inBrackets ELSE plain
    IN IF raw # <<>> /\ parsed.ok THEN parsed ELSE NoTarget

\* The handlers of main, up to the answer.
proxyJudge(policy, target) ==
    CASE ~target.ok -> "invalid_target"
      [] target.ok /\ ~proxyMatchHost(policy, target.host) -> "host_not_allowlisted"
      [] OTHER -> "allowed"

-----------------------------------------------------------------------------

\* A host is allowed exactly when it is named, or is below or equal to a suffix label by
\* label: written here over the way a host is put together, where the code compares the ends
\* of strings.
Below(domain, host) ==
    \/ host = domain
    \/ \E k \in DOMAIN host : host[k] = "." /\ From(host, k + 1) = domain
AllowedBy(policy, host) ==
    \/ host \in policy.hosts
    \/ \E s \in policy.suffixes : Below(Tail(s), host)

RawPolicies == {[default |-> "deny", hosts |-> {<<"x">>}, suffixes |-> {<<".", "a">>}],
                [default |-> "deny", hosts |-> {<<"A">>}, suffixes |-> {<<".", "x", ".", "A">>}],
                [default |-> "deny", hosts |-> {}, suffixes |-> {}],
                [default |-> "deny", hosts |-> {<<"a", ".">>}, suffixes |-> {}],
                [default |-> "deny", hosts |-> {}, suffixes |-> {<<"a">>}],
                [default |-> "allow", hosts |-> {<<"a">>}, suffixes |-> {}]}
Policies == {p \in {loadEgressPolicy(raw) : raw \in RawPolicies} : p.ok}

MatchesByLabel ==
    \A p \in Policies, host \in Text(MaxText) :
        isValidHostname(host) => (matchHost(p, host) <=> AllowedBy(p, host))

\* A target written from a host and a port is read back as them, so that the host judged is
\* the host dialled, and no text is read as a port out of range or, to dial, as no host.
ReadsBack ==
    /\ \A raw \in Text(MaxText) :
         LET t == parseConnectTarget(raw)
         IN t.ok => /\ t.port \in 1..MaxPort
                    /\ t.host = <<>> => \A p \in Policies : Judge(p, t) = "host_not_allowlisted"
    /\ \A host \in Text(MaxText - 2) :
         host # <<>> => /\ Head(host) # "["
                              => parseConnectTarget(host \o <<":", "1">>) = [ok |-> TRUE, host |-> host, port |-> 1]
                        /\ FirstAt(host, "]") = 0
                              => parseConnectTarget(<<"[">> \o host \o <<"]", ":", "1", "0">>)
                                   = [ok |-> TRUE, host |-> host, port |-> 10]

\* The container's proxy decides every target the way the in-process broker does, under
\* every policy that the broker would hand it.
CopiesAgree ==
    /\ \A p \in Policies : loadPolicy(serializePolicy(p)) = p
    /\ \A raw \in Text(MaxText) : proxyParseConnectTarget(raw) = parseConnectTarget(raw)
    /\ \A p \in Policies, host \in Text(MaxText) :
         proxyJudge(p, [ok |-> TRUE, host |-> host, port |-> 1]) = Judge(p, [ok |-> TRUE, host |-> host, port |-> 1])

\* The policy means what it says, in both brokers.
PolicySound == MatchesByLabel /\ ReadsBack /\ CopiesAgree

-----------------------------------------------------------------------------
(* The in-process egress broker, packages/egress-broker/src/broker.ts, and *)
(* withEgressBroker, packages/core/composition/src: a proxy that is        *)
(* started and shut down while clients connect through it.  Sockets and    *)
(* the HTTP server are external: a server stops listening when it is       *)
(* closed and calls back once the last of its connections is gone.         *)

CONSTANTS
    Conns,        \* connections of clients
    BrokerPolicy, \* the policy, as loadEgressPolicy returns it
    AskedTargets, \* targets clients ask for: texts
    MaxCalls      \* bound: calls of start and of shutdown on the handle

\* The policy's suffixes are what loadEgressPolicy accepts.
ASSUME BrokerAssumption ==
    /\ IsFiniteSet(Conns)
    /\ AskedTargets \subseteq Seq(Alphabet)
    /\ \A s \in BrokerPolicy.suffixes : s \in Seq(Alphabet) /\ isValidSuffix(s)

VARIABLES
    egress, \* server, starting, shuttingDown, and the calls made
    conn,   \* each connection: its state, target and the state of its upstream
    heard,  \* events emitted
    wrap    \* withEgressBroker: its state

brokerVars == <<egress, conn, heard, wrap>>

-----------------------------------------------------------------------------
(* start and shutdown of the handle.                                         *)

\* A server that is bound and a start under way are not started again.
StartBroker(b) == IF b.server = "none" /\ ~b.starting THEN [b EXCEPT !.starting = TRUE] ELSE b

start ==
    /\ egress.calls < MaxCalls
    /\ egress' = [StartBroker(egress) EXCEPT !.calls = @ + 1]
    /\ UNCHANGED <<conn, heard, wrap>>

\* The port is bound, or listen fails.  withEgressBroker waits for the same promise.
Listening ==
    /\ egress.starting
    /\ egress' = [egress EXCEPT !.starting = FALSE, !.server = "listening"]
    /\ wrap' = IF wrap = "starting" THEN "up" ELSE wrap
    /\ UNCHANGED <<conn, heard>>

ListenFails ==
    /\ egress.starting
    /\ egress' = [egress EXCEPT !.starting = FALSE]
    /\ wrap' = IF wrap = "starting" THEN "failed" ELSE wrap
    /\ UNCHANGED <<conn, heard>>

\* activeTunnels holds both ends of an accepted CONNECT, from before it is dialled.
InTunnels(c) == conn[c].method = "CONNECT" /\ conn[c].up \in {"dialing", "open"}

\* Mutant: only the HTTP server is closed.
CutHttpOnly(c) ==
    IF conn[c].method = "HTTP" /\ conn[c].state # "none" THEN [conn[c] EXCEPT !.state = "closed"] ELSE conn[c]

\* The loop over activeTunnels, close, and closeAllConnections, which takes the connections
\* the HTTP server still owns: not those of a CONNECT, and not what they asked upstream.
Cut(c) ==
    IF InTunnels(c) THEN [conn[c] EXCEPT !.state = "closed", !.up = "closed"]
    ELSE IF conn[c].state = "accepted" \/ (conn[c].method = "HTTP" /\ conn[c].state # "none")
      THEN [conn[c] EXCEPT !.state = "closed"]
    ELSE conn[c]

\* A broker without a server, even one that is starting, has nothing to shut down.
ShutBroker(b) ==
    IF b.server = "listening" THEN [b EXCEPT !.server = "closing"] ELSE b

CutAll == IF egress.server = "listening" THEN [c \in Conns |-> Cut(c)] ELSE conn

shutdown ==
    /\ egress.calls < MaxCalls
    /\ egress' = [ShutBroker(egress) EXCEPT !.calls = @ + 1]
    /\ conn' = CutAll
    /\ UNCHANGED <<heard, wrap>>

\* The callback of close.
Gone(c) == conn[c].state \in {"none", "closed"}
Closed ==
    /\ egress.server = "closing" /\ \A c \in Conns : Gone(c)
    /\ egress' = [egress EXCEPT !.server = "none"]
    /\ wrap' = IF wrap = "stopping" THEN "down" ELSE wrap
    /\ UNCHANGED <<conn, heard>>

-----------------------------------------------------------------------------
(* Requests.                                                                 *)

\* Listeners, and what they throw, do not reach back into the request.
emit(verdict) == heard' = Append(heard, verdict)

Accept(c) ==
    /\ egress.server = "listening" /\ conn[c].state = "none"
    /\ conn' = [conn EXCEPT ![c].state = "accepted"]
    /\ UNCHANGED <<egress, heard, wrap>>

\* A refused CONNECT is answered and its socket ended: it goes when the client ends it too.
onConnect(c, raw) ==
    LET target == parseConnectTarget(raw)
        verdict == Judge(BrokerPolicy, target)
    IN /\ conn[c].state = "accepted"
       /\ emit(verdict)
       /\ conn' = [conn EXCEPT ![c] =
                     [state |-> IF verdict = "allowed" THEN "accepted" ELSE "ended", method |-> "CONNECT",
                      host |-> target.host, up |-> IF verdict = "allowed" THEN "dialing" ELSE "none"]]
       /\ conn[c].method = "none"
       /\ UNCHANGED <<egress, wrap>>

onRequest(c, raw) ==
    LET target == parseProxyRequestUrl([scheme |-> "http", host |-> raw, port |-> 0])
        verdict == Judge(BrokerPolicy, target)
    IN /\ conn[c].state = "accepted" /\ conn[c].method = "none"
       /\ emit(verdict)
       /\ conn' = [conn EXCEPT ![c] =
                     [state |-> IF verdict = "allowed" THEN "accepted" ELSE "closed", method |-> "HTTP",
                      host |-> target.host, up |-> IF verdict = "allowed" THEN "open" ELSE "none"]]
       /\ UNCHANGED <<egress, wrap>>

\* The dial succeeds: 200 and the pipes.
Established(c) ==
    /\ conn[c].up = "dialing"
    /\ conn' = [conn EXCEPT ![c].up = "open"]
    /\ UNCHANGED <<egress, heard, wrap>>

\* The upstream's error or end: the client's end is destroyed or, for a plain request,
\* answered and closed.
UpstreamGone(c) ==
    /\ conn[c].up \in {"dialing", "open"}
    /\ conn' = [conn EXCEPT ![c].up = "closed", ![c].state = "closed"]
    /\ UNCHANGED <<egress, heard, wrap>>

\* The client goes: a tunnel's upstream is destroyed, a plain request's goes on.
ClientGone(c) ==
    /\ conn[c].state \in {"accepted", "ended"}
    /\ conn' = [conn EXCEPT ![c].state = "closed", ![c].up = IF InTunnels(c) THEN "closed" ELSE @]
    /\ UNCHANGED <<egress, heard, wrap>>

-----------------------------------------------------------------------------
(* withEgressBroker.                                                         *)

withEgressBroker ==
    /\ wrap = "none"
    /\ egress' = StartBroker(egress)
    /\ wrap' = IF egress.server = "none" THEN "starting" ELSE "up"
    /\ UNCHANGED <<conn, heard>>

wrapShutdown ==
    /\ wrap = "up"
    /\ egress' = ShutBroker(egress)
    /\ conn' = CutAll
    /\ wrap' = IF egress.server = "none" THEN "down" ELSE "stopping"
    /\ UNCHANGED heard

-----------------------------------------------------------------------------

BrokerInit ==
    /\ egress = [server |-> "none", starting |-> FALSE, calls |-> 0]
    /\ conn = [c \in Conns |-> [state |-> "none", method |-> "none", host |-> <<>>, up |-> "none"]]
    /\ heard = <<>>
    /\ wrap = "none"

BrokerNext ==
    \/ start \/ shutdown \/ Listening \/ ListenFails \/ Closed \/ withEgressBroker \/ wrapShutdown
    \/ \E c \in Conns :
        \/ Accept(c) \/ Established(c) \/ UpstreamGone(c) \/ ClientGone(c)
        \/ \E raw \in AskedTargets : onConnect(c, raw) \/ onRequest(c, raw)

\* Timers and the event loop fire; a client that was answered goes in the end.
BrokerFairness ==
    /\ WF_egress(Listening \/ ListenFails) /\ WF_egress(Closed)
    /\ \A c \in Conns : WF_conn(ClientGone(c))

-----------------------------------------------------------------------------

\* Whatever a client asks for, nothing is dialled but hosts the policy allows, and each
\* request has been reported exactly once.
OnlyAllowedDialled ==
    /\ \A c \in Conns : conn[c].up # "none" => AllowedBy(BrokerPolicy, normalizeHost(conn[c].host))
    /\ Len(heard) = Cardinality({c \in Conns : conn[c].method # "none"})

\* A tunnel is up only while a server is listening: none is left behind by a shutdown,
\* dialled but not connected ones included.
NoTunnelLeft ==
    /\ \A c \in Conns : InTunnels(c) => egress.server = "listening"
    /\ \A c \in Conns : conn[c].up \in {"dialing", "open"} /\ conn[c].method = "CONNECT" => conn[c].state = "accepted"

\* After withEgressBroker's shutdown the broker is not running, unless somebody called start
\* on its handle.
WrapperEnds == wrap = "down" /\ egress.server = "listening" => egress.calls > 0

\* shutdown resolves: no connection keeps the server's close from calling back.
ShutdownResolves == egress.server = "closing" ~> egress.server = "none"

EgressSound == []PolicySound /\ [](OnlyAllowedDialled /\ NoTunnelLeft /\ WrapperEnds) /\ ShutdownResolves
=============================================================================
