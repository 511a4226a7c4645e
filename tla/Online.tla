------------------------------- MODULE Online -------------------------------
(***************************************************************************)
(* Civitai lookups: background tasks of the event loop that ask by digest, *)
(* then for the newest release, with a cache, a circuit breaker and        *)
(* retries between them and the network.  What a task reads it reads       *)
(* before it waits.                                                        *)
(*                                                                         *)
(* Abstractions.  One model; a digest or a release is a number.  A step is *)
(* what a task does between two waits; cached answers land in the order    *)
(* they were handed to the writer, or not at all.                          *)
(***************************************************************************)
EXTENDS Naturals, Sequences

CONSTANTS
    Task,           \* background tasks of refresh-metadata requests
    Releases,       \* releases of the model on the site
    RETRIES, BREAKER_THRESHOLD,
    MaxAsk, MaxChange           \* bounds of the model

VARIABLES
    model,      \* the rows of models and model_files
    cache,      \* http_cache: what is held for a question, unless expired
    puts,       \* cache rows on their way to the writer
    breaker,    \* failures in a row, and whether it is open
    tasks,      \* what each task waits for
    lookups,    \* online_enabled and civitai_enabled
    said,       \* what the site ever answered to which digest
    uses       \* requests and changes so far, bounded

onlineVars == <<model, cache, puts, breaker, tasks, lookups, said, uses>>

Digest == 1..2
Rest == [at |-> "rest"]
Nothing == [status |-> "nothing"]
Newest == 0
Question == Digest \cup {Newest}

Init ==
    /\ model = [digest |-> 1, state |-> "pending", of |-> 0, release |-> 0, newest |-> 0, update |-> FALSE]
    /\ cache = [q \in Question |-> Nothing] /\ puts = <<>>
    /\ breaker = [failures |-> 0, open |-> FALSE]
    /\ tasks = [t \in Task |-> Rest]
    /\ lookups = TRUE
    /\ said = {}
    /\ uses = [asks |-> 0, changes |-> 0]

-----------------------------------------------------------------------------

\* _record_failure: the count starts again when the breaker opens.
Failed ==
    breaker' = IF breaker.failures + 1 >= BREAKER_THRESHOLD THEN [failures |-> 0, open |-> TRUE]
               ELSE [breaker EXCEPT !.failures = @ + 1]
Succeeded == breaker' = [failures |-> 0, open |-> FALSE]

\* _cache_put: the writer gets it, nobody waits.
Put(q, status, holds) == puts' = Append(puts, [of |-> q, row |-> [status |-> status, holds |-> holds]])

\* apply_enrichment.
Missed(t) == model' = [model EXCEPT !.state = "not_found", !.of = tasks[t].digest]
Matched(d, own, newest) ==
    model' = [model EXCEPT !.state = "matched", !.of = d, !.release = own, !.newest = newest,
                           !.update = own # newest]
End(t) == tasks' = [tasks EXCEPT ![t] = Rest]

-----------------------------------------------------------------------------
(* fetch_latest_version.  Without an answer the release found is the       *)
(* newest; a body without releases is kept and counts as an answer.        *)

AskNewest(t, d, own, force) ==
    LET held == cache[Newest]
    IN  IF ~lookups THEN Matched(d, own, own) /\ End(t)
        ELSE IF ~force /\ held # Nothing
        THEN /\ Matched(d, own, IF held.status = "found" THEN held.holds ELSE own)
             /\ End(t)
        ELSE IF breaker'.open THEN Matched(d, own, own) /\ End(t)
        ELSE /\ tasks' = [tasks EXCEPT ![t] = [at |-> "newest", digest |-> d, own |-> own, force |-> force]]
             /\ UNCHANGED model

NewestAnswered(t) ==
    /\ tasks[t].at = "newest"
    /\ LET d == tasks[t].digest
           own == tasks[t].own
       IN  \/ \E n \in Releases : /\ Matched(d, own, n) /\ Put(Newest, "found", n) /\ Succeeded
                                 /\ said' = said \cup {<<Newest, n>>}
           \/ Matched(d, own, own) /\ Put(Newest, "missing", 0) /\ UNCHANGED <<breaker, said>>
           \/ Matched(d, own, own) /\ Put(Newest, "missing", 0) /\ Succeeded /\ UNCHANGED said
           \/ Matched(d, own, own) /\ Put(Newest, "error", 0) /\ Failed /\ UNCHANGED said
           \/ Matched(d, own, own) /\ Failed /\ UNCHANGED <<puts, said>>
           \/ Matched(d, own, own) /\ UNCHANGED <<puts, breaker, said>>
    /\ End(t)
    /\ UNCHANGED <<cache, lookups, uses>>

-----------------------------------------------------------------------------
(* enrich_model and fetch_by_hash, up to the first request.                *)

\* mutant of Unreachable: what cannot be told is a miss
UnreachableMissed(t, d) == model' = [model EXCEPT !.state = "not_found", !.of = d]
\* The lookup could not be completed: the row stays for a later pass.
Unreachable(t, d) == UNCHANGED model

Enrich(t, force) ==
    /\ tasks[t] = Rest /\ uses.asks < MaxAsk
    /\ uses' = [uses EXCEPT !.asks = @ + 1]
    /\ model.digest # 0 /\ lookups
    /\ LET d == model.digest
           held == cache[d]
       IN  /\ UNCHANGED breaker
           /\ CASE ~force /\ held.status = "found" -> AskNewest(t, d, held.holds, force)
                [] ~force /\ held.status = "missing" ->
                     model' = [model EXCEPT !.state = "not_found", !.of = d] /\ UNCHANGED tasks
                [] ~force /\ held.status = "error" -> Unreachable(t, d) /\ UNCHANGED tasks
                [] (force \/ held = Nothing) /\ breaker.open -> UNCHANGED <<model, tasks>>
                [] OTHER -> /\ tasks' = [tasks EXCEPT ![t] =
                                 [at |-> "digest", digest |-> d, tries |-> 0, force |-> force]]
                            /\ UNCHANGED model
    /\ UNCHANGED <<cache, puts, lookups, said>>

Found(t) ==
    /\ tasks[t].at = "digest"
    /\ \E own \in Releases :
        /\ Put(tasks[t].digest, "found", own) /\ Succeeded
        /\ said' = said \cup {<<tasks[t].digest, own>>}
        /\ AskNewest(t, tasks[t].digest, own, tasks[t].force)
    /\ UNCHANGED <<cache, lookups, uses>>

\* 404; so is a body that is no release.
NotFound(t) ==
    /\ tasks[t].at = "digest"
    /\ Put(tasks[t].digest, "missing", 0) /\ Succeeded
    /\ said' = said \cup {<<tasks[t].digest, 0>>}
    /\ Missed(t) /\ End(t)
    /\ UNCHANGED <<cache, lookups, uses>>

RateLimited(t) ==
    /\ tasks[t].at = "digest"
    /\ Put(tasks[t].digest, "error", 0) /\ Failed
    /\ Unreachable(t, tasks[t].digest) /\ End(t)
    /\ UNCHANGED <<cache, lookups, said, uses>>

\* Another status, no connection, no answer in time: tried again after a while, whatever
\* the switch says by then.
Unanswered(t) ==
    /\ tasks[t].at = "digest"
    /\ IF tasks[t].tries < RETRIES
       THEN /\ tasks' = [tasks EXCEPT ![t].tries = @ + 1]
            /\ UNCHANGED <<puts, breaker, model>>
       ELSE /\ Put(tasks[t].digest, "error", 0) /\ Failed
            /\ Unreachable(t, tasks[t].digest) /\ End(t)
    /\ UNCHANGED <<cache, lookups, said, uses>>

-----------------------------------------------------------------------------
(* The writer, the clock, and the rest of the application.                 *)

Land ==
    /\ puts # <<>>
    /\ \/ cache' = [cache EXCEPT ![Head(puts).of] = Head(puts).row]
       \/ UNCHANGED cache
    /\ puts' = Tail(puts)
    /\ UNCHANGED <<model, breaker, tasks, lookups, said, uses>>

\* A day, a week or a minute goes by.
Expire(q) ==
    /\ cache[q] # Nothing
    /\ cache' = [cache EXCEPT ![q] = Nothing]
    /\ UNCHANGED <<model, puts, breaker, tasks, lookups, said, uses>>

CoolDown ==
    /\ breaker.open
    /\ breaker' = [breaker EXCEPT !.open = FALSE]
    /\ UNCHANGED <<model, cache, puts, tasks, lookups, said, uses>>

Change == uses.changes < MaxChange /\ uses' = [uses EXCEPT !.changes = @ + 1]

\* A scan finds another file and forgets the digest; the match stays.
Replaced ==
    /\ Change /\ model.digest # 0
    /\ model' = [model EXCEPT !.digest = 0]
    /\ UNCHANGED <<cache, puts, breaker, tasks, lookups, said>>

Hashed ==
    /\ model.digest = 0
    /\ \E d \in Digest : model' = [model EXCEPT !.digest = d]
    /\ UNCHANGED <<cache, puts, breaker, tasks, lookups, said, uses>>

SwitchOff ==
    /\ Change /\ lookups
    /\ lookups' = FALSE
    /\ UNCHANGED <<model, cache, puts, breaker, tasks, said>>

Next ==
    \/ \E t \in Task : \/ \E force \in BOOLEAN : Enrich(t, force)
                       \/ NewestAnswered(t)
                       \/ Found(t) \/ NotFound(t) \/ RateLimited(t) \/ Unanswered(t)
    \/ Land \/ \E q \in Question : Expire(q)
    \/ CoolDown \/ Replaced \/ Hashed \/ SwitchOff

-----------------------------------------------------------------------------
\* A model is matched, missing or outdated only because the site said so of a digest the
\* model had: no outage, limit, retry or cached failure makes one up (civitai_service.py
\* UNREACHABLE, fetch_by_hash, fetch_latest_version).
SiteSaid ==
    /\ model.state = "matched" => <<model.of, model.release>> \in said
    /\ model.state = "not_found" => <<model.of, 0>> \in said
    /\ model.update => model.newest # model.release /\ <<Newest, model.newest>> \in said
=============================================================================
