---------------------------- MODULE LinearClient ----------------------------
(***************************************************************************)
(* The client of Linear's GraphQL API, packages/linear/client/src, and the *)
(* rolling comment of packages/linear/integration/src/comments.ts on top   *)
(* of it.  Linear itself is external: one team, one issue, one comment.    *)
(* A request is handled by Linear in one step and answered in a later one, *)
(* and either may be lost.  Labels and workflow states are looked up the   *)
(* same way; `table' is the one of the two the calls are about.            *)
(***************************************************************************)
EXTENDS Integers, Sequences, FiniteSets, SequencesExt

CONSTANTS
    Calls,       \* concurrent calls of addLabel, removeLabel or setIssueStatus
    LabelNames,
    MaxChanges,  \* bound: changes of the team's table by others
    Edits        \* concurrent calls on the rolling comment

VARIABLES
    table,    \* Linear's: id of each name, 0 where there is none
    cache,    \* labelCache or stateCache of the team: <<>> or a table
    calls,    \* where each call is
    ids,      \* bound and history: last id given out
    borne,    \* history: pairs of name and id that Linear's table ever held
    missed,   \* history: names that were absent, or the cache dropped, during each call
    comment,  \* the rolling comment: Linear's body and the handle's
    edits     \* where each call of appendCheckpoint and finalize is

apiVars == <<table, cache, calls, ids, borne, missed>>
commentVars == <<comment, edits>>
linearVars == <<apiVars, commentVars>>

-----------------------------------------------------------------------------
(* execute and what it makes of a response.                                  *)

Codes == {"RATELIMITED", "AUTHENTICATION_ERROR", "FORBIDDEN", "NOT_FOUND", "other"}

\* errors: the codes of errors[], empty where the body has none; data: what it holds.
Responses ==
    [fetched : BOOLEAN, status : {200, 401, 403, 404, 429, 500}, json : BOOLEAN,
     errors : UNION {[1..n -> Codes] : n \in 0..2}, data : {"none", "data"}]

\* A rate limit anywhere in errors[] wins; otherwise the first error counts.
toGraphqlError(errors) ==
    IF \E k \in DOMAIN errors : errors[k] = "RATELIMITED" THEN "rate_limited"
    ELSE CASE errors[1] = "AUTHENTICATION_ERROR" -> "unauthenticated"
           [] errors[1] = "FORBIDDEN" -> "forbidden"
           [] errors[1] = "NOT_FOUND" -> "not_found"
           [] OTHER -> "graphql"

classifyHttpError(r) ==
    IF r.status = 429 THEN "rate_limited"
    ELSE IF r.json /\ r.errors # <<>> THEN toGraphqlError(r.errors)
    ELSE CASE r.status = 401 -> "unauthenticated"
           [] r.status = 403 -> "forbidden"
           [] r.status = 404 -> "not_found"
           [] OTHER -> "http"

execute(r) ==
    IF ~r.fetched THEN "network"
    ELSE IF r.status # 200 THEN classifyHttpError(r)
    ELSE IF ~r.json THEN "shape"
    ELSE IF r.errors # <<>> THEN toGraphqlError(r.errors)
    ELSE IF r.data = "none" THEN "shape"
    ELSE "ok"

-----------------------------------------------------------------------------
(* auth.ts.  env: "unset", "blank" or a key; store: what fails in it, and    *)
(* what it holds.                                                            *)

Stores == [up : BOOLEAN, getFails : BOOLEAN, setFails : BOOLEAN, holds : {"", "old", "new"}]

Resolved(key, source, persisted) ==
    [key |-> key, source |-> source, persisted |-> persisted]
AuthError(reason) == Resolved("", reason, FALSE)

resolveLinearApiKey(env, store) ==
    IF env = "blank" THEN AuthError("invalid_format")
    ELSE IF env # "unset"
      THEN Resolved(env, "env", store.up /\ ~store.getFails /\ store.holds # env /\ ~store.setFails)
    ELSE IF ~store.up \/ store.getFails THEN AuthError("credential_store_failed")
    ELSE IF store.holds = "" THEN AuthError("missing")
    ELSE Resolved(store.holds, "credential_store", FALSE)

-----------------------------------------------------------------------------
(* Calls that name a label or a state: the issue gives the team, the team's  *)
(* table the id, and a mutation uses it.                                     *)

Call(pc, name) == [pc |-> pc, name |-> name, id |-> 0, got |-> <<>>, wrote |-> 0]

Finish(c, pc) == calls' = [calls EXCEPT ![c].pc = pc]

\* requireNonEmptyInput passed: getIssue is sent.
addLabel(c, name) ==
    /\ calls[c].pc = "idle"
    /\ calls' = [calls EXCEPT ![c] = Call("issue", name)]
    /\ missed' = [missed EXCEPT ![c] = IF table[name] = 0 THEN {name} ELSE {}]
    /\ UNCHANGED <<table, cache, ids, borne, commentVars>>

\* getIssue answers; a cached table is used at once, else listLabels is sent.
getIssue(c) ==
    /\ calls[c].pc = "issue"
    /\ calls' = [calls EXCEPT ![c].pc = IF cache = <<>> THEN "list" ELSE "lookup",
                              ![c].got = IF cache = <<>> THEN <<>> ELSE <<cache[1]>>]
    /\ UNCHANGED <<table, cache, ids, borne, missed, commentVars>>

\* Linear reads the team's table ...
ServeList(c) ==
    /\ calls[c].pc = "list"
    /\ calls' = [calls EXCEPT ![c].pc = "listed", ![c].got = <<table>>]
    /\ UNCHANGED <<table, cache, ids, borne, missed, commentVars>>

\* ... and its answer, however old by then, replaces the cache.
listLabels(c) ==
    /\ calls[c].pc = "listed"
    /\ cache' = calls[c].got
    /\ calls' = [calls EXCEPT ![c].pc = "cached"]
    /\ UNCHANGED <<table, ids, borne, missed, commentVars>>

\* resolveLabelId goes on with what the cache holds now.
Reread(c) ==
    /\ calls[c].pc = "cached"
    /\ calls' = [calls EXCEPT ![c].pc = "lookup", ![c].got = cache]
    /\ UNCHANGED <<table, cache, ids, borne, missed, commentVars>>

resolveLabelId(c) ==
    /\ calls[c].pc = "lookup"
    /\ LET id == IF calls[c].got = <<>> THEN 0 ELSE calls[c].got[1][calls[c].name]
       IN calls' = [calls EXCEPT ![c].pc = IF id = 0 THEN "not_found" ELSE "mutate", ![c].id = id]
    /\ UNCHANGED <<table, cache, ids, borne, missed, commentVars>>

\* Linear applies the mutation; an id it no longer has is refused with an error.
ServeMutation(c) ==
    /\ calls[c].pc = "mutate"
    /\ \E name \in LabelNames : table[name] = calls[c].id
    /\ calls' = [calls EXCEPT ![c].pc = "mutated", ![c].wrote = calls[c].id]
    /\ UNCHANGED <<table, cache, ids, borne, missed, commentVars>>

Mutated(c) ==
    /\ calls[c].pc = "mutated"
    /\ Finish(c, "ok")
    /\ UNCHANGED <<table, cache, ids, borne, missed, commentVars>>

\* A request or its answer is lost, or the answer is an error: nothing is sent again.
Fails(c) ==
    /\ calls[c].pc \in {"issue", "list", "listed", "mutate", "mutated"}
    /\ Finish(c, "error")
    /\ UNCHANGED <<table, cache, ids, borne, missed, commentVars>>

invalidateTeamCache ==
    /\ cache # <<>>
    /\ cache' = <<>>
    /\ missed' = [c \in Calls |-> missed[c] \cup
                    IF calls[c].pc \in {"idle", "ok", "error", "not_found"} THEN {} ELSE LabelNames]
    /\ UNCHANGED <<table, calls, ids, borne, commentVars>>

\* Somebody creates, deletes or re-creates a label or state of the team.
Change(name) ==
    /\ ids < MaxChanges
    /\ ids' = ids + 1
    /\ table' = [table EXCEPT ![name] = IF @ = 0 THEN ids + 1 ELSE 0]
    /\ borne' = borne \cup (IF table[name] = 0 THEN {<<name, ids + 1>>} ELSE {})
    /\ missed' = [c \in Calls |-> missed[c] \cup (IF table[name] = 0 THEN {} ELSE {name})]
    /\ UNCHANGED <<cache, calls, commentVars>>

ApiInit ==
    /\ ids = 1
    /\ \E first \in {CHOOSE n \in LabelNames : TRUE} :
          table = [n \in LabelNames |-> IF n = first THEN 1 ELSE 0] /\ borne = {<<first, 1>>}
    /\ cache = <<>>
    /\ calls = [c \in Calls |-> Call("idle", CHOOSE n \in LabelNames : TRUE)]
    /\ missed = [c \in Calls |-> {}]

ApiNext ==
    \/ \E c \in Calls :
          \/ \E name \in LabelNames : addLabel(c, name)
          \/ getIssue(c) \/ ServeList(c) \/ listLabels(c) \/ Reread(c) \/ resolveLabelId(c)
          \/ ServeMutation(c) \/ Mutated(c) \/ Fails(c)
    \/ invalidateTeamCache
    \/ \E name \in LabelNames : Change(name)

-----------------------------------------------------------------------------
(* The rolling comment: one comment whose whole body every edit replaces.    *)
(* A section is the name of the edit that wrote it.                          *)

\* Edits are appendCheckpoint except the finalize ones.
Finalizes(e) == e[1] = "finalize"

StartEdit(e) ==
    /\ edits[e].pc = "idle"
    /\ IF Finalizes(e) /\ comment.finalized
         THEN edits' = [edits EXCEPT ![e].pc = "noop"]
         ELSE edits' = [edits EXCEPT ![e] = [pc |-> "sent", body |-> Append(comment.mine, e)]]
    /\ comment' = [comment EXCEPT !.overlapped =
                      @ \/ \E other \in Edits : edits[other].pc \in {"sent", "applied"}]
    /\ UNCHANGED apiVars

\* updateComment: Linear replaces the body.
ServeUpdate(e) ==
    /\ edits[e].pc = "sent"
    /\ comment' = [comment EXCEPT !.theirs = edits[e].body]
    /\ edits' = [edits EXCEPT ![e].pc = "applied"]
    /\ UNCHANGED apiVars

\* Mutant: the flag of finalize is forgotten.
UpdatedUnflagged(e) ==
    /\ edits[e].pc = "applied"
    /\ comment' = [comment EXCEPT !.mine = edits[e].body]
    /\ edits' = [edits EXCEPT ![e].pc = "ok"]
    /\ UNCHANGED apiVars

\* The answer: the handle's body follows what was sent, whatever it is by now.
Updated(e) ==
    /\ edits[e].pc = "applied"
    /\ comment' = [comment EXCEPT !.mine = edits[e].body, !.finalized = @ \/ Finalizes(e)]
    /\ edits' = [edits EXCEPT ![e].pc = "ok"]
    /\ UNCHANGED apiVars

UpdateFails(e) ==
    /\ edits[e].pc \in {"sent", "applied"}
    /\ edits' = [edits EXCEPT ![e].pc = "error"]
    /\ UNCHANGED <<apiVars, comment>>

CommentInit ==
    /\ comment = [theirs |-> <<>>, mine |-> <<>>, finalized |-> FALSE, overlapped |-> FALSE]
    /\ edits = [e \in Edits |-> [pc |-> "idle", body |-> <<>>]]

CommentNext == \E e \in Edits : StartEdit(e) \/ ServeUpdate(e) \/ Updated(e) \/ UpdateFails(e)

-----------------------------------------------------------------------------

LinearInit == ApiInit /\ CommentInit

\* The calls and the rolling comment share no state of the client: each on its own.
LinearNext == (CommentInit /\ ApiNext) \/ (ApiInit /\ CommentNext)
LinearSpec == LinearInit /\ [][LinearNext]_linearVars

\* A call that reports success had Linear apply the mutation, with an id that bore the
\* name in Linear's table; one that reports that there is no such label found it missing
\* in Linear at some time since the cached table was read, or lost the cache on the way.
LookupSound ==
    \A c \in Calls :
        /\ calls[c].pc = "ok" => calls[c].wrote = calls[c].id
        /\ calls[c].pc \in {"ok", "mutate", "mutated"} => <<calls[c].name, calls[c].id>> \in borne
        /\ calls[c].pc = "not_found" /\ calls[c].got # <<>> => calls[c].got[1][calls[c].name] = 0
        /\ calls[c].pc = "not_found" /\ calls[c].got = <<>> => missed[c] # {}

\* As long as no two edits overlap, Linear's body holds every checkpoint that was reported
\* as written, in the order of the reports, whatever failed in between; and in any case
\* it holds at most one summary.
CommentSound ==
    /\ ~comment.overlapped =>
          /\ \A e \in Edits : edits[e].pc = "ok" => e \in Range(comment.theirs)
          /\ (\A e \in Edits : edits[e].pc \notin {"sent", "applied"}) =>
                \E k \in 0..1 : comment.mine =
                    SubSeq(comment.theirs, 1, Len(comment.theirs) - k)
    /\ Cardinality({k \in DOMAIN comment.theirs : Finalizes(comment.theirs[k])}) <= 1

\* A rate limit is told from every other error, whatever the status it comes with; a
\* response without one is never taken for it.
RateLimitSeen ==
    \A r \in Responses :
        (execute(r) = "rate_limited") <=>
            /\ r.fetched
            /\ r.status = 429 \/ (r.json /\ \E k \in DOMAIN r.errors : r.errors[k] = "RATELIMITED")

\* A key in the environment is used whatever the store does.
KeyResolved ==
    \A store \in Stores :
        /\ resolveLinearApiKey("new", store).key = "new"
        /\ resolveLinearApiKey("unset", store).key # "" =>
              resolveLinearApiKey("unset", store).key = store.holds

\* What the daemon may rely on in the client and in the rolling comment.
LinearSound == LookupSound /\ CommentSound /\ RateLimitSeen /\ KeyResolved
=============================================================================
