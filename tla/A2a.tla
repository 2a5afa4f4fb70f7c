-------------------------------- MODULE A2a --------------------------------
(***************************************************************************)
(* The A2A transport, packages/protocol/a2a/src/transport.ts: a client and *)
(* the server it talks to.  The handlers of the server, the network and    *)
(* foreign callers are external: a handler answers, emits updates, throws  *)
(* or keeps running; a connection breaks at any time.  A call is one POST  *)
(* from the client's mintToken to its answer or the end of its stream.     *)
(*                                                                         *)
(* Behind it, the identities the two present: the signed Agent Cards of    *)
(* cards.ts, the tokens of jws.ts and the base58btc coding of a did:key.   *)
(* Ed25519 is external: a signature is the record of the key that made it  *)
(* and of what was signed.  There a state holds one question, which the    *)
(* invariant answers by a reference.                                       *)
(***************************************************************************)
EXTENDS Integers, Sequences, FiniteSets, SequencesExt

CONSTANTS
    SigningKeys,  \* Ed25519 keys
    Texts,        \* what a card or a token says besides its issuer
    MaxBytes,     \* bound: bytes to encode
    A2aCalls,     \* POSTs under way at one time
    MaxUpdates,   \* bound: updates a handler emits
    MaxSeconds,   \* bound on the clock
    TokenTtl, RotateWithin, ClockSkew \* tokenTtlSeconds, tokenRotateWithinSeconds, clockSkewSeconds

ASSUME A2aAssumption == TokenTtl \in Nat /\ RotateWithin \in Nat /\ ClockSkew \in Nat

NoToken == -1

VARIABLES
    a2Now,    \* the clock of both sides, in seconds
    a2Cached, \* cachedToken: its exp, or NoToken
    a2Call,   \* where each call stands
    a2Down    \* the server: "up", or "down" once shutdown was called

a2aVars == <<a2Now, a2Cached, a2Call, a2Down>>

Method == {"tasks/send", "tasks/sendSubscribe", "optional", "unknown"}
Credential == {"missing", "garbled", "no issuer", "untrusted", "forged", "good"}

\* pc: the client's and the server's place; result: what the client's promise got.
\* started, minted: the clock when the token was chosen.  updates: what the handler
\* emitted; wire: what the server wrote and the client has not read; got: what the
\* client's iterator yielded.  events: the server's emitter, for this task.
NewCall ==
    [pc |-> "idle", method |-> "unknown", credential |-> "good", exp |-> 0, started |-> 0,
     result |-> "none", handled |-> FALSE, ended |-> FALSE, done |-> FALSE,
     updates |-> 0, wire |-> <<>>, got |-> <<>>, events |-> <<>>]

A2aInit ==
    /\ a2Now = 0 /\ a2Cached = NoToken /\ a2Down = "up"
    /\ a2Call = [c \in A2aCalls |-> NewCall]

At(c, pc) == a2Call[c].pc = pc
Goes(c, call) == a2Call' = [a2Call EXCEPT ![c] = call]
OnlyCall == UNCHANGED <<a2Now, a2Cached, a2Down>>

Tick == a2Now < MaxSeconds /\ a2Now' = a2Now + 1 /\ UNCHANGED <<a2Cached, a2Call, a2Down>>

\* mintToken of postOnce and subscribeTask: a cached token that lives long enough, or a
\* new one, whose signing is awaited.
mintToken(c, method) ==
    /\ At(c, "idle")
    /\ LET fresh == a2Cached = NoToken \/ a2Cached - a2Now <= RotateWithin
       IN Goes(c, [a2Call[c] EXCEPT !.pc = IF fresh THEN "minting" ELSE "posted", !.method = method,
                                    !.started = a2Now,
                                    !.exp = IF fresh THEN a2Now + TokenTtl ELSE a2Cached])
    /\ OnlyCall

Minted(c) ==
    /\ At(c, "minting")
    /\ a2Cached' = a2Call[c].exp
    /\ Goes(c, [a2Call[c] EXCEPT !.pc = "posted"])
    /\ UNCHANGED <<a2Now, a2Down>>

\* close of the client: a token being signed is cached again afterwards.
CloseA2aClient ==
    /\ a2Cached # NoToken /\ a2Cached' = NoToken
    /\ UNCHANGED <<a2Now, a2Call, a2Down>>

\* Somebody else's POST.
Foreign(c, method, credential) ==
    /\ At(c, "idle")
    /\ Goes(c, [a2Call[c] EXCEPT !.pc = "posted", !.method = method, !.credential = credential,
                                 !.started = a2Now, !.exp = a2Now + TokenTtl])
    /\ OnlyCall

\* The client's promise settles and nothing of the call is left on its side.
Answered(c, result) == [a2Call[c] EXCEPT !.pc = "answered", !.result = result]

\* fetch rejects, or the connection breaks before the answer; the server may go on.
Unreachable(c) ==
    /\ At(c, "posted")
    /\ Goes(c, Answered(c, "transport error"))
    /\ OnlyCall

\* authFail: 401 with the reason.
authFail(c, reason) == Goes(c, Answered(c, reason))

\* verifyBearer up to the check of the signature.
verifyBearer(c) ==
    /\ At(c, "posted") /\ a2Down = "up"
    /\ LET credential == a2Call[c].credential
       IN CASE credential = "missing" -> authFail(c, "missing-token")
            [] credential \in {"garbled", "no issuer"} -> authFail(c, "bad-token")
            [] credential = "untrusted" -> authFail(c, "untrusted-issuer")
            [] OTHER -> Goes(c, [a2Call[c] EXCEPT !.pc = "verifying"])
    /\ OnlyCall

\* The signature was checked: the expiry is compared with the clock of now.
SignatureChecked(c) ==
    /\ At(c, "verifying")
    /\ CASE a2Call[c].credential = "forged" -> authFail(c, "bad-token")
         [] a2Call[c].credential # "forged" /\ a2Call[c].exp + ClockSkew < a2Now -> authFail(c, "expired")
         [] OTHER -> Goes(c, [a2Call[c] EXCEPT !.pc = "body"])
    /\ OnlyCall

\* The body is no request: -32700.
ParseError(c) ==
    /\ At(c, "body")
    /\ Goes(c, Answered(c, "rpc error"))
    /\ OnlyCall

Start(c, pc) ==
    [a2Call[c] EXCEPT !.pc = pc, !.handled = TRUE, !.events = Append(@, "task-start")]

\* dispatchOneShot and dispatchSubscribe up to the handler; optional handlers may be
\* missing.
Dispatch(c) ==
    /\ At(c, "body")
    /\ \/ a2Call[c].method = "tasks/send" /\ Goes(c, Start(c, "running"))
       \/ a2Call[c].method = "tasks/sendSubscribe" /\ Goes(c, Start(c, "streaming"))
       \/ a2Call[c].method = "optional" /\ Goes(c, [a2Call[c] EXCEPT !.pc = "running", !.handled = TRUE])
       \/ a2Call[c].method \in {"optional", "unknown"} /\ Goes(c, Answered(c, "rpc error"))
    /\ OnlyCall

\* A one-shot handler returned or threw.  Only a task that was sent and whose handler
\* returned ends with task-end.
OneShotDone(c, ok) ==
    /\ At(c, "running")
    /\ Goes(c, [a2Call[c] EXCEPT
                  !.pc = "answered",
                  !.result = IF @ # "none" THEN @ ELSE IF ok THEN "result" ELSE "rpc error",
                  !.events = IF ok /\ a2Call[c].method = "tasks/send" THEN Append(@, "task-end") ELSE @])
    /\ OnlyCall

\* Mutant: the stream may be ended again.
endStreamAgain(call) == [call EXCEPT !.ended = TRUE, !.events = Append(@, "task-end")]

\* endStream: once.
endStream(call) ==
    IF call.ended THEN call ELSE [call EXCEPT !.ended = TRUE, !.events = Append(@, "task-end")]

\* emit of a subscribed handler; 0 stands for a final status update.
EmitUpdate(c, final) ==
    /\ At(c, "streaming") /\ a2Call[c].updates < MaxUpdates
    /\ LET call == a2Call[c]
           update == IF final THEN 0 ELSE call.updates + 1
       IN Goes(c, IF call.ended THEN [call EXCEPT !.updates = @ + 1]
                  ELSE [call EXCEPT !.updates = @ + 1, !.wire = Append(@, update),
                                    !.events = Append(@, "task-update")])
    /\ OnlyCall

\* The subscribed handler returned, or threw and a final failure is written past emit.
SubscribeDone(c, ok) ==
    /\ At(c, "streaming")
    /\ LET call == a2Call[c]
           told == IF ok \/ call.ended THEN call ELSE [call EXCEPT !.wire = Append(@, 0)]
       IN Goes(c, [endStream(told) EXCEPT !.pc = "answered"])
    /\ OnlyCall

\* The response's close event: the peer is gone, or shutdown ended the response.
ResponseClosed(c) ==
    /\ At(c, "streaming") /\ ~a2Call[c].ended
    /\ Goes(c, endStream(a2Call[c]))
    /\ OnlyCall

\* sseToTaskUpdateIterable reads a chunk of n updates, yields them all, and stops behind
\* a chunk that held a final one.
SseRead(c, n) ==
    /\ a2Call[c].method = "tasks/sendSubscribe" /\ ~a2Call[c].done
    /\ n \in 1..Len(a2Call[c].wire)
    /\ LET call == a2Call[c]
           chunk == SubSeq(call.wire, 1, n)
       IN Goes(c, [call EXCEPT !.got = @ \o chunk, !.wire = SubSeq(@, n + 1, Len(@)),
                               !.done = \E k \in 1..n : chunk[k] = 0])
    /\ OnlyCall

\* The end of the stream.
SseEnd(c) ==
    /\ a2Call[c].method = "tasks/sendSubscribe" /\ a2Call[c].ended /\ ~a2Call[c].done
    /\ a2Call[c].wire = <<>>
    /\ Goes(c, [a2Call[c] EXCEPT !.done = TRUE])
    /\ OnlyCall

\* shutdown: every open response is ended, so a client that awaits one gets an empty
\* body; the handlers run on.
Shutdown ==
    /\ a2Down = "up" /\ a2Down' = "down"
    /\ a2Call' = [c \in A2aCalls |->
          IF a2Call[c].pc \in {"verifying", "body"} THEN Answered(c, "transport error")
          ELSE IF At(c, "running") THEN [a2Call[c] EXCEPT !.result = "transport error"]
          ELSE IF At(c, "streaming") THEN endStream(a2Call[c])
          ELSE a2Call[c]]
    /\ UNCHANGED <<a2Now, a2Cached>>

\* The call is over on both sides; another one takes its place.
NextCall(c) ==
    /\ At(c, "answered") /\ (a2Call[c].method = "tasks/sendSubscribe" /\ a2Call[c].handled => a2Call[c].done)
    /\ Goes(c, NewCall)
    /\ OnlyCall

ServerStep(c) ==
    verifyBearer(c) \/ SignatureChecked(c) \/ ParseError(c) \/ Dispatch(c)

HandlerEnds(c) == \E ok \in BOOLEAN : OneShotDone(c, ok) \/ SubscribeDone(c, ok)

ClientReads(c) == SseEnd(c) \/ \E n \in 1..MaxUpdates + 1 : SseRead(c, n)

A2aNext ==
    \/ Tick \/ CloseA2aClient \/ Shutdown
    \/ \E c \in A2aCalls :
          \/ \E method \in Method :
                mintToken(c, method) \/ \E credential \in Credential : Foreign(c, method, credential)
          \/ Minted(c) \/ Unreachable(c) \/ ServerStep(c) \/ HandlerEnds(c) \/ ClientReads(c)
          \/ \E final \in BOOLEAN : EmitUpdate(c, final)
          \/ ResponseClosed(c) \/ NextCall(c)

\* The connection is served, handlers end and the client keeps reading.
A2aFairness ==
    \A c \in A2aCalls : /\ WF_a2aVars(ServerStep(c)) /\ WF_a2aVars(HandlerEnds(c))
                        /\ WF_a2aVars(ClientReads(c))

-----------------------------------------------------------------------------

Count(events, e) == Cardinality({k \in DOMAIN events : events[k] = e})

\* How long a token lives at least when a call takes it.
Margin == IF TokenTtl < RotateWithin THEN TokenTtl ELSE RotateWithin

\* What the listeners of the server and the client see of one call.  A handler runs only
\* for a caller whose token was signed by a key of its issuer; a stream has at most one
\* task-end, with no update behind it, however its handler, its peer and the shutdown
\* race to end it; the client yields updates in the order they were emitted, none twice;
\* and the client's own token expires under way only when the call took longer than the
\* rotation margin, or the token's whole life, and the skew.
CallSound(c) ==
    LET call == a2Call[c] IN
    /\ call.handled => call.credential = "good"
    /\ Count(call.events, "task-end") <= 1
    /\ Count(call.events, "task-end") = 1 => call.events[Len(call.events)] = "task-end"
    /\ call.ended => Count(call.events, "task-end") = 1
    /\ \A j, k \in DOMAIN call.got : j < k /\ call.got[j] # 0 /\ call.got[k] # 0 => call.got[j] < call.got[k]
    /\ call.result = "expired" /\ call.credential = "good" => a2Now - call.started > Margin + ClockSkew

\* A subscription ends: whatever the handler does, the client's iterator comes to an end.
A2aProgress ==
    \A c \in A2aCalls : At(c, "streaming") ~> a2Call[c].done

\* The A2A server and client: what a stream may carry, and that every stream
\* and every call comes to its end.
A2aServed == [](\A c \in A2aCalls : CallSound(c)) /\ A2aProgress

-----------------------------------------------------------------------------
(* The identities.                                                         *)

VARIABLES askedCard, askedJws, askedBytes

cardVars == <<askedCard, askedJws, askedBytes>>

-----------------------------------------------------------------------------
(* Cards.                                                                    *)

\* deriveDidKeyFromJwk throws for anything but a 32-byte Ed25519 key ("bad").
deriveDidKeyFromJwk(jwk) == <<"did:key", jwk>>

Body == [issuerDid : {deriveDidKeyFromJwk(k) : k \in SigningKeys},
         signingKeyJwk : SigningKeys \cup {"bad"}, text : Texts]

Signature(key, body) == [key |-> key, of |-> body]

\* A signature that is no base64.
Garbled == [key |-> "garbled", of |-> CHOOSE b \in Body : TRUE]

\* shape: isLikelyCard.
Cards ==
    [shape : BOOLEAN, body : Body,
     signature : {Garbled} \cup {Signature(k, b) : k \in SigningKeys, b \in Body}]

\* signAgentCard signs only for an issuer that the body's key names; the private key
\* itself is not compared with it.
Signable(body) ==
    body.signingKeyJwk # "bad" /\ body.issuerDid = deriveDidKeyFromJwk(body.signingKeyJwk)

signAgentCard(body, key) == [shape |-> TRUE, body |-> body, signature |-> Signature(key, body)]

\* Mutant: the issuer is not compared with the key.
verifyAgentCardAnyIssuer(card, trusted) ==
    CASE ~card.shape \/ card.body.signingKeyJwk = "bad" \/ card.signature = Garbled -> "malformed-card"
      [] OTHER -> IF card.signature # Signature(card.body.signingKeyJwk, card.body) THEN "bad-signature"
                  ELSE IF card.body.issuerDid \notin trusted THEN "untrusted-issuer" ELSE "ok"

\* trusted is every DID where no set was given.
verifyAgentCard(card, trusted) ==
    IF ~card.shape \/ card.body.signingKeyJwk = "bad" THEN "malformed-card"
    ELSE IF deriveDidKeyFromJwk(card.body.signingKeyJwk) # card.body.issuerDid THEN "key-mismatch"
    ELSE IF card.signature = Garbled THEN "malformed-card"
    ELSE IF card.signature # Signature(card.body.signingKeyJwk, card.body) THEN "bad-signature"
    ELSE IF card.body.issuerDid \notin trusted THEN "untrusted-issuer"
    ELSE "ok"

-----------------------------------------------------------------------------
(* Tokens.                                                                   *)

Claims == [iss : {"none"} \cup SigningKeys, text : Texts]

\* A token as it arrives: its number of segments, whether they decode to objects, its
\* algorithm, its claims and its signature.
Tokens ==
    [segments : 2..3, decodes : BOOLEAN, alg : {"EdDSA", "none"}, claims : Claims,
     signature : {Signature(k, c) : k \in SigningKeys, c \in Claims}]

signJws(claims, key) ==
    [segments |-> 3, decodes |-> TRUE, alg |-> "EdDSA", claims |-> claims,
     signature |-> Signature(key, claims)]

isJwsHeader(token) == token.alg = "EdDSA"

parseJws(token) ==
    IF token.segments = 3 /\ token.decodes /\ isJwsHeader(token) /\ token.claims.iss # "none"
      THEN "parsed" ELSE "TypeError"

verifyJwsSignature(token, key) == token.signature = Signature(key, token.claims)

-----------------------------------------------------------------------------
(* base58btc.  A digit stands for its character; digit 0 is "1".             *)

LeadingZeros(s) == LET k == SelectInSeq(s, LAMBDA x : x # 0) IN IF k = 0 THEN Len(s) ELSE k - 1

\* The inner loop: multiply the number in cells by `base' and add carry, from the last
\* cell on, while there is a carry or a cell that is in use.
Carry(acc, k, base, modulus) ==
    IF acc.carry = 0 /\ acc.used >= acc.length THEN acc
    ELSE LET sum == acc.carry + base * acc.cells[k]
         IN [acc EXCEPT !.cells = [acc.cells EXCEPT ![k] = sum % modulus],
                        !.carry = sum \div modulus, !.used = @ + 1]

Cells(s, size, base, modulus) ==
    LET downwards == [i \in 1..size |-> size + 1 - i]
        step(acc, x) ==
            LET after == FoldLeft(LAMBDA a, k : Carry(a, k, base, modulus),
                                  [acc EXCEPT !.carry = x, !.used = 0], downwards)
            IN [after EXCEPT !.length = after.used]
    IN FoldLeft(step, [cells |-> [k \in 1..size |-> 0], carry |-> 0, used |-> 0, length |-> 0], s)

\* The cells behind the leading zeros of the array.
Significant(cells) == SubSeq(cells, LeadingZeros(cells) + 1, Len(cells))

Zeros(n) == [k \in 1..n |-> 0]

base58btcEncode(bytes) ==
    LET zeros == LeadingZeros(bytes)
        rest == SubSeq(bytes, zeros + 1, Len(bytes))
        size == (Len(rest) * 138) \div 100 + 1
    IN IF bytes = <<>> THEN <<>> ELSE Zeros(zeros) \o Significant(Cells(rest, size, 256, 58).cells)

base58btcDecode(digits) ==
    LET zeros == LeadingZeros(digits)
        rest == SubSeq(digits, zeros + 1, Len(digits))
        size == (Len(rest) * 733) \div 1000 + 1
    IN IF digits = <<>> THEN <<>> ELSE Zeros(zeros) \o Significant(Cells(rest, size, 58, 256).cells)

-----------------------------------------------------------------------------

Bytes == {0, 1, 57, 58, 255}

CardInit == askedCard = <<>> /\ askedJws = <<>> /\ askedBytes = <<-1>>

AskCard(card) == askedCard' = card /\ UNCHANGED <<askedJws, askedBytes>>
AskJws(token) == askedJws' = token /\ UNCHANGED <<askedCard, askedBytes>>
AskBytes(bytes) == askedBytes' = bytes /\ UNCHANGED <<askedCard, askedJws>>

CardNext ==
    /\ CardInit
    /\ \/ \E card \in Cards : AskCard(card)
       \/ \E token \in Tokens : AskJws(token)
       \/ \E n \in 0..MaxBytes : \E bytes \in [1..n -> Bytes] : AskBytes(bytes)

AllDids == {deriveDidKeyFromJwk(k) : k \in SigningKeys}

\* A card is accepted exactly when the key it shows names its issuer and signed all of it;
\* what signAgentCard signs with that key is accepted, and no such signature covers
\* another body.
CardAccepted ==
    askedCard # <<>> =>
        LET body == askedCard.body IN
        /\ (verifyAgentCard(askedCard, AllDids) = "ok") <=>
              /\ askedCard.shape
              /\ \E k \in SigningKeys : /\ body.signingKeyJwk = k
                                        /\ body.issuerDid = deriveDidKeyFromJwk(k)
                                        /\ askedCard.signature = Signature(k, body)
        /\ Signable(body) => \A k \in SigningKeys, other \in Body :
              (verifyAgentCard([signAgentCard(body, k) EXCEPT !.body = other], AllDids) = "ok")
                  <=> (other = body /\ body.signingKeyJwk = k)
        /\ verifyAgentCard(askedCard, {}) # "ok"

\* A token that parses and verifies with the key of its issuer is the one that the holder
\* of the key signed.
TokenAccepted ==
    askedJws # <<>> =>
        \A k \in SigningKeys :
            /\ parseJws(askedJws) = "parsed" /\ verifyJwsSignature(askedJws, k)
                  => askedJws = signJws(askedJws.claims, k)
            /\ askedJws.claims.iss # "none" => parseJws(signJws(askedJws.claims, k)) = "parsed"

\* Decoding gives back what was encoded: the arrays that are sized by an estimate of the
\* length never lose a digit.
DidRoundTrip == askedBytes # <<-1>> => base58btcDecode(base58btcEncode(askedBytes)) = askedBytes

CardsSound == CardAccepted /\ TokenAccepted /\ DidRoundTrip
=============================================================================
