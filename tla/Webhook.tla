------------------------------ MODULE Webhook ------------------------------
(***************************************************************************)
(* The receiver of Linear's webhooks, packages/linear/webhook/src: the     *)
(* checks of a delivery (verify.ts), what it is read as (events.ts) and    *)
(* the stream of events the daemon consumes (server.ts).  HMAC is          *)
(* external: a body is signed or not.                                      *)
(* Time is counted in units of which SkewMs and WindowMs are multiples.    *)
(***************************************************************************)
EXTENDS Integers, Sequences, FiniteSets, SequencesExt

CONSTANTS
    MaxHooks,   \* bound: deliveries Linear signs
    Unread,     \* deliveries whose body is read as no event
    MaxEntries, \* entries of the nonce cache
    WindowMs,   \* age at which a nonce is forgotten
    SkewMs,     \* accepted X
    MaxTime,    \* bound: the clock
    MaxPosts    \* bound: signed deliveries posted

ASSUME HookAssumption ==
    SkewMs \in Nat /\ WindowMs \in Nat /\ WindowMs >= 2 * SkewMs /\ MaxEntries \in Nat \ {0}

VARIABLES
    hookClock,  \* Date.now()
    stamped,    \* webhookTimestamp of each delivery; its webhookId is its index
    nonces,     \* NonceCache.store: for an id when it was remembered and its place in the
                \* order of the Map
    buffer,     \* the sink's buffer
    reading,    \* calls of next() that wait
    sinkClosed,
    yielded,    \* ids the consumer got
    posts,      \* history: what came of each signed delivery, in order
    envelope    \* the body classifyEnvelope is asked about, on its own

streamVars == <<buffer, reading, sinkClosed, yielded>>
hookVars == <<hookClock, stamped, nonces, streamVars, posts, envelope>>

-----------------------------------------------------------------------------
(* verify.ts: the nonce cache.                                               *)

Behind(store, id) == {x \in DOMAIN store : store[x].place > store[id].place}

\* Map.set of a key that is new or was just deleted: it comes last.
SetLast(store, id, at) ==
    LET places == {store[x].place : x \in DOMAIN store}
    IN [x \in DOMAIN store \cup {id} |->
          IF x = id THEN [at |-> at, place |-> Max(places \cup {0}) + 1] ELSE store[x]]

\* The expired entries at the front go; a touched entry may hide an older one behind it.
evictExpired(store) ==
    Restrict(store, {id \in DOMAIN store :
        \E x \in DOMAIN store \ Behind(store, id) : store[x].at >= hookClock - WindowMs})

\* has(id): the answer, and the store with the entry deleted or moved to the end.
seen(store, id) == id \in DOMAIN store /\ hookClock - store[id].at <= WindowMs
touch(store, id) ==
    IF id \notin DOMAIN store THEN store
    ELSE IF seen(store, id) THEN SetLast(store, id, store[id].at)
    ELSE Restrict(store, DOMAIN store \ {id})

\* Mutant: the size limit drops one entry too many.
rememberOneLess(store, id) ==
    LET live == evictExpired(store)
        kept == SetLast(live, id, hookClock)
    IN IF id \in DOMAIN live THEN kept
       ELSE Restrict(kept, {x \in DOMAIN kept : Cardinality(Behind(kept, x)) + 1 < MaxEntries})

\* A new id pushes out the oldest entries over the limit.
remember(store, id) ==
    LET live == evictExpired(store)
        kept == SetLast(live, id, hookClock)
    IN IF id \in DOMAIN live THEN kept
       ELSE Restrict(kept, {x \in DOMAIN kept : Cardinality(Behind(kept, x)) < MaxEntries})

Distance(a, b) == IF a > b THEN a - b ELSE b - a

\* The signature is checked over the raw bytes before anything of the body is read.
verifyLinearRequest(req) ==
    IF req.signature = "missing" THEN "missing_header"
    ELSE IF req.signature = "wrong" THEN "invalid_signature"
    ELSE IF req.meta = "bad" THEN "malformed"
    ELSE IF Distance(hookClock, req.timestamp) > SkewMs THEN "stale_timestamp"
    ELSE IF seen(nonces, req.id) THEN "duplicate_nonce"
    ELSE "ok"

rejectStatus(reason) == IF reason = "malformed" THEN 400 ELSE 401

-----------------------------------------------------------------------------
(* events.ts: what a verified body is read as.  "gone" is a field that is    *)
(* absent, "bad" one of another type or empty.                               *)

Field == {"gone", "bad", "ok"}

\* before and after: the labels in updatedFrom and in data, where they are readable.
Envelopes ==
    [shape : BOOLEAN, kind : {"create/Comment", "update/Issue", "other"}, id : Field,
     body : {"gone", "ok"}, issueId : {"bad", "ok"}, issue : {"bad", "ok"},
     fromState : Field, toState : {"bad", "ok"},
     fromLabels : Field, toLabels : {"bad", "ok"}, before : SUBSET {1, 2}, after : SUBSET {1, 2}]

missing == [kind |-> "missing_envelope_fields"]
unsupported == [kind |-> "unsupported_event"]

parseCommentCreated(env) ==
    IF env.id # "ok" \/ env.body = "gone" THEN missing
    ELSE IF env.issueId = "ok" \/ env.issue = "ok" THEN [kind |-> "comment-created"]
    ELSE missing

parseStatusChanged(env) ==
    IF env.fromState = "gone" THEN unsupported
    ELSE IF env.fromState = "bad" \/ env.toState # "ok" \/ env.id # "ok" THEN missing
    ELSE [kind |-> "status-changed"]

parseIssueLabelAdded(env) ==
    IF env.fromLabels = "gone" THEN unsupported
    ELSE IF env.fromLabels = "bad" \/ env.toLabels = "bad" \/ env.id # "ok" THEN missing
    ELSE IF env.after \subseteq env.before THEN unsupported
    ELSE [kind |-> "issue-label-added", added |-> env.after \ env.before]

Surfaced == {"comment-created", "status-changed", "issue-label-added"}

\* A state change wins over an addition of labels in the same update.
classifyEnvelope(env) ==
    LET status == parseStatusChanged(env)
        label == parseIssueLabelAdded(env)
    IN CASE env.kind = "create/Comment" -> parseCommentCreated(env)
         [] env.kind = "update/Issue" ->
              IF status.kind \in Surfaced THEN status
              ELSE IF label.kind \in Surfaced THEN label
              ELSE IF missing \in {label, status} THEN missing ELSE unsupported
         [] OTHER -> unsupported

parseLinearEvent(env) == IF env.shape THEN classifyEnvelope(env) ELSE missing

-----------------------------------------------------------------------------
(* server.ts: the fetch handler and the event sink.                          *)

\* What a request is answered with; the parse of a verified body is `parsed'.
response(req, verified, parsed) ==
    IF req.path # "ok" THEN 404
    ELSE IF req.method = "GET" THEN 200
    ELSE IF req.method # "POST" THEN 405
    ELSE IF verified # "ok" THEN rejectStatus(verified)
    ELSE IF parsed = "unsupported_event" THEN 202
    ELSE IF parsed \in Surfaced THEN 200
    ELSE 400

\* push: nothing once closed, else to the longest waiting next() or to the buffer.
push(id) ==
    IF sinkClosed THEN UNCHANGED streamVars
    ELSE IF reading > 0
      THEN /\ reading' = reading - 1
           /\ yielded' = Append(yielded, id)
           /\ UNCHANGED <<buffer, sinkClosed>>
    ELSE buffer' = Append(buffer, id) /\ UNCHANGED <<reading, sinkClosed, yielded>>

\* A request of Linear.  It signs each delivery once, and may send it again: at is what
\* its own clock, off by at most SkewMs when it is first received, said.
Delivery(id, at) ==
    [path |-> "ok", method |-> "POST", signature |-> "good", meta |-> "ok",
     id |-> id, timestamp |-> at]

Sent(id, at) ==
    /\ Len(posts) < MaxPosts
    /\ IF id \in DOMAIN stamped THEN at = stamped[id] /\ UNCHANGED stamped
       ELSE Distance(at, hookClock) <= SkewMs /\ stamped' = Append(stamped, at)

Posted(id, reason, pushed) ==
    posts' = Append(posts, [id |-> id, pushed |-> pushed, status |->
        response(Delivery(id, 0), reason, IF id \in Unread THEN "unsupported_event" ELSE "status-changed")])

\* A signed delivery that is too old or too new, or that the cache knows.  (A request with
\* another path, method or signature, or a body without timestamp and id, changes nothing.)
Rejected(id, at) ==
    LET reason == verifyLinearRequest(Delivery(id, at))
    IN /\ Sent(id, at) /\ reason # "ok"
       /\ nonces' = IF reason = "duplicate_nonce" THEN touch(nonces, id) ELSE nonces
       /\ Posted(id, reason, FALSE)
       /\ UNCHANGED <<hookClock, streamVars, envelope>>

\* The nonce is remembered before the body is parsed: a body that is then unsupported or
\* rejected is a duplicate when Linear sends it again.
Accepted(id, at) ==
    /\ Sent(id, at)
    /\ verifyLinearRequest(Delivery(id, at)) = "ok"
    /\ nonces' = remember(touch(nonces, id), id)
    /\ IF id \notin Unread THEN push(id) ELSE UNCHANGED streamVars
    /\ Posted(id, "ok", id \notin Unread /\ ~sinkClosed)
    /\ UNCHANGED <<hookClock, envelope>>

\* The consumer's next().
NextEvent ==
    /\ reading < 1 /\ ~(sinkClosed /\ buffer = <<>>)
    /\ IF buffer # <<>>
         THEN /\ yielded' = Append(yielded, Head(buffer)) /\ buffer' = Tail(buffer)
              /\ UNCHANGED reading
         ELSE reading' = reading + 1 /\ UNCHANGED <<yielded, buffer>>
    /\ UNCHANGED <<hookClock, stamped, nonces, sinkClosed, posts, envelope>>

\* stop() of the server, or return() of the iterator: whoever waits is told the end.
CloseSink ==
    /\ ~sinkClosed
    /\ sinkClosed' = TRUE /\ reading' = 0
    /\ UNCHANGED <<hookClock, stamped, nonces, buffer, yielded, posts, envelope>>

HookTick ==
    /\ hookClock < MaxTime
    /\ hookClock' = hookClock + 1
    /\ UNCHANGED <<stamped, nonces, streamVars, posts, envelope>>

-----------------------------------------------------------------------------

HookInit ==
    /\ hookClock = 1 /\ posts = <<>>
    /\ stamped = <<>> /\ nonces = <<>>
    /\ buffer = <<>> /\ reading = 0 /\ sinkClosed = FALSE /\ yielded = <<>>
    /\ envelope = <<>>

ServerNext ==
    \/ \E id \in 1..MaxHooks, at \in 0..(MaxTime + SkewMs) :
          id <= Len(stamped) + 1 /\ (Rejected(id, at) \/ Accepted(id, at))
    \/ NextEvent \/ CloseSink \/ HookTick

Ask == HookInit /\ envelope' \in Envelopes /\ UNCHANGED <<hookClock, stamped, nonces, streamVars, posts>>

HookNext == (envelope = <<>> /\ ServerNext) \/ Ask

HookSpec == HookInit /\ [][HookNext]_hookVars

-----------------------------------------------------------------------------

IsAccepted(post) == post.status \in 200..202

\* A delivery is accepted twice only after the size limit pushed its nonce out, which
\* takes MaxEntries other deliveries between the two: neither the clock, nor the expiry of
\* entries, nor the order that duplicates bump, forgets a nonce that its timestamp would
\* still let in.
NoReplay ==
    \A j, k \in DOMAIN posts :
        j < k /\ posts[j].id = posts[k].id /\ IsAccepted(posts[j]) /\ IsAccepted(posts[k])
            => Cardinality({posts[i].id : i \in (j + 1)..(k - 1)} \ {posts[j].id}) >= MaxEntries

\* The consumer gets the events accepted before the sink closed, each once and in order.
Pushed == {k \in DOMAIN posts : posts[k].pushed}
Given == yielded \o buffer
InOrder ==
    /\ \E from \in [DOMAIN Given -> Pushed] :
          /\ \A i, j \in DOMAIN Given : i < j => from[i] < from[j]
          /\ \A k \in Pushed : \E i \in DOMAIN Given : from[i] = k
          /\ \A i \in DOMAIN Given : Given[i] = posts[from[i]].id
    /\ reading > 0 => buffer = <<>>

\* A label that was added without a change of state is surfaced with exactly the labels
\* the update added; nothing unreadable is surfaced.
LabelsSurfaced(env) ==
    /\ /\ env.shape /\ env.kind = "update/Issue" /\ env.id = "ok" /\ env.fromState # "ok"
       /\ env.fromLabels = "ok" /\ env.toLabels = "ok"
       /\ \E l \in {1, 2} : l \in env.after /\ l \notin env.before
       => parseLinearEvent(env) = [kind |-> "issue-label-added", added |-> env.after \ env.before]
    /\ parseLinearEvent(env).kind \in Surfaced => env.shape /\ env.id = "ok"

\* What the webhook server promises the daemon: deliveries once, events in order, labels.
HookSound == NoReplay /\ InOrder /\ (envelope # <<>> => LabelsSurfaced(envelope))
=============================================================================
