---------------------------- MODULE SourceAccess ----------------------------
(***************************************************************************)
(* Reading from external sources: the cache-first CachedSourceExecutor     *)
(* (application/storage_orchestration.py), the retry and fallback of       *)
(* SourceOrchestrator (application/source_orchestration.py), the HTTP      *)
(* adapters (adapters/http.py) and the tables and files they write         *)
(* (adapters/sqlite_storage.py, adapters/artifacts.py).                    *)
(*                                                                         *)
(* Callers are coroutines or processes on one data root.  A step of a      *)
(* caller is an answer of a source, a read or one committed transaction;   *)
(* between two steps others run, and the caller may be killed.  Sleeping   *)
(* before a retry is part of waiting for the next answer.                  *)
(***************************************************************************)
EXTENDS Naturals, Sequences, FiniteSets

CONSTANTS
    Callers,
    Runs,           \* analysis ids
    Requests,       \* source requests, by fingerprint
    Fixed,          \* requests with a fixed historical block tag
    RequestKind,    \* "json_rpc" or "rest"
    Sources,        \* source ids with an adapter
    AdapterKind,    \* "json_rpc" or "rest"
    ProviderOf,     \* provider_id of an adapter
    Policies,       \* source policies of the runs
    Replies,        \* what a source may answer
    Bodies,         \* response bytes
    MaxAttempts,    \* RetryPolicy.max_attempts
    MaxCalls,       \* bound on the calls of a behaviour
    None

AllReplies == {"timeout", "disconnect", "http_429", "http_5xx", "http_4xx", "malformed", "ok"}
RetryableFailures == {"timeout", "rate_limited", "transient"}
Providers == {ProviderOf[s] : s \in Sources}

\* SourcePolicy; the order is a subset of the allowed sources, without
\* repetition, and may name sources that have no adapter.
ASSUME AccessAssumption ==
    /\ Fixed \subseteq Requests /\ Replies \subseteq AllReplies
    /\ MaxAttempts \in Nat \ {0} /\ MaxCalls \in Nat
    /\ \A p \in Policies :
        /\ p.rule \in {"allowed", "restricted", "unconfirmed"}
        /\ p.fallback \in BOOLEAN /\ p.offline \in BOOLEAN
        /\ p.order \in Seq(p.allowed) /\ p.order # <<>>
        /\ \A i, j \in DOMAIN p.order : p.order[i] = p.order[j] => i = j

VARIABLES
    files,      \* content-addressed files of the artifact store
    artifacts,  \* rows of artifacts
    cache,      \* cache_entries, by request
    attempts,   \* rows of source_attempts
    call,       \* local state of each caller
    calls       \* calls so far, for the bound

storage == <<files, artifacts, cache, attempts>>
vars == <<files, artifacts, cache, attempts, call, calls>>

Idle == [pc |-> "idle", run |-> None, request |-> None, policy |-> None, todo |-> <<>>,
         tried |-> <<>>, body |-> None, offset |-> [p \in Providers |-> 0], answer |-> None]

Init ==
    /\ files = {} /\ artifacts = {} /\ attempts = {}
    /\ cache = [r \in Requests |-> None]
    /\ call = [c \in Callers |-> Idle]
    /\ calls = 0

\* How a call ends: a hit or a miss with its source and body, an error code,
\* or an exception.
Response(kind, source, body) == [kind |-> kind, source |-> source, body |-> body]
Failure(kind) == Response(kind, None, None)
Finish(c, answer) == call' = [call EXCEPT ![c].pc = "done", ![c].answer = answer]

-----------------------------------------------------------------------------
(* Policy, adapters. *)

\* SourceOrchestrator._policy_error
PolicyError(p) ==
    IF p.rule = "restricted" THEN "rule_restricted"
    ELSE IF p.offline THEN "source_unavailable"
    ELSE IF p.rule # "allowed" THEN "rule_restricted"
    ELSE "none"

\* The sources to try, in this order: the first only without fallback.
SourcesToTry(p) == IF p.fallback THEN p.order ELSE <<p.order[1]>>

\* Mutant: every HTTP error is transient.
MutKindOf(s, reply) ==
    CASE reply = "unsupported" -> "permanent"
      [] reply = "timeout" -> "timeout"
      [] reply = "http_429" -> "rate_limited"
      [] reply \in {"http_5xx", "http_4xx"} -> "transient"
      [] reply = "disconnect" -> "unavailable"
      [] reply = "malformed" /\ AdapterKind[s] = "json_rpc" -> "invalid_response"
      [] OTHER -> "success"

\* The adapters and _send; only the JSON-RPC adapter looks at the body.
KindOf(s, reply) ==
    CASE reply = "unsupported" -> "permanent"
      [] reply = "timeout" -> "timeout"
      [] reply = "disconnect" -> "unavailable"
      [] reply = "http_429" -> "rate_limited"
      [] reply = "http_5xx" -> "transient"
      [] reply = "http_4xx" -> "permanent"
      [] reply = "malformed" /\ AdapterKind[s] = "json_rpc" -> "invalid_response"
      [] OTHER -> "success"

\* What an adapter may be answered; it sends no request of the other kind.
PossibleReplies(s, r) == IF AdapterKind[s] = RequestKind[r] THEN Replies ELSE {"unsupported"}

-----------------------------------------------------------------------------
(* CachedSourceExecutor.execute. *)

\* Mutant: a hit from any source is served.
MutUsable(r, p) == cache[r] # None

\* get_cache: an entry of a source that is not allowed now is a miss.
\* Immutable entries do not expire.
Usable(r, p) == cache[r] # None /\ cache[r].source \in p.allowed

\* A call starts: the cache is read.  A hit reads the artifact and ends.
Execute(c, a, r, p) ==
    /\ call[c].pc \in {"idle", "done"} /\ calls < MaxCalls
    /\ calls' = calls + 1
    /\ LET new == [Idle EXCEPT !.run = a, !.request = r, !.policy = p]
       IN  call' = [call EXCEPT ![c] =
             IF Usable(r, p)
             THEN [new EXCEPT !.pc = "done",
                    !.answer = IF cache[r].body \in artifacts \cap files
                               THEN Response("hit", cache[r].source, cache[r].body)
                               ELSE Failure("raised")]
             ELSE IF PolicyError(p) # "none"
             THEN [new EXCEPT !.pc = "done", !.answer = Failure(PolicyError(p))]
             ELSE [new EXCEPT !.pc = "calling", !.todo = SourcesToTry(p)]]
    /\ UNCHANGED storage

AttemptsAt(c, s) == Cardinality({i \in DOMAIN call[c].tried : call[c].tried[i].source = s})

\* The next source has an adapter and is allowed.
Reachable(c) == Head(call[c].todo) \in Sources \cap call[c].policy.allowed

\* Any other source is passed over.
SkipSource(c) ==
    /\ call[c].pc = "calling" /\ call[c].todo # <<>> /\ ~Reachable(c)
    /\ call' = [call EXCEPT ![c].todo = Tail(@)]
    /\ UNCHANGED <<storage, calls>>

Attempt(c, reply) ==
    LET s == Head(call[c].todo)
    IN  [source |-> s, number |-> AttemptsAt(c, s) + 1, reply |-> reply,
         kind |-> KindOf(s, reply)]

\* The failed attempt t has a next one at the same source.
Retries(t) == t.kind \in RetryableFailures /\ t.number < MaxAttempts

\* One iteration of _execute_source: the source answers or fails.
Call(c, reply, body) ==
    /\ call[c].pc = "calling" /\ call[c].todo # <<>> /\ Reachable(c)
    /\ reply \in PossibleReplies(Head(call[c].todo), call[c].request)
    /\ LET t == Attempt(c, reply)
           tried == Append(call[c].tried, t)
           todo == IF Retries(t) THEN call[c].todo ELSE Tail(call[c].todo)
       IN  call' = [call EXCEPT ![c] =
             IF t.kind = "success"
             THEN [@ EXCEPT !.tried = tried, !.body = body, !.pc = "writing"]
             ELSE [@ EXCEPT !.tried = tried, !.todo = todo]]
    /\ UNCHANGED <<storage, calls>>

\* Every source failed or was left out.
GiveUp(c) ==
    /\ call[c].pc = "calling" /\ call[c].todo = <<>>
    /\ call' = [call EXCEPT ![c].pc = "offsets"]
    /\ UNCHANGED <<storage, calls>>

\* _persist_success: the file first,
WriteArtifact(c) ==
    /\ call[c].pc = "writing"
    /\ files' = files \cup {call[c].body}
    /\ call' = [call EXCEPT ![c].pc = "recording"]
    /\ UNCHANGED <<artifacts, cache, attempts, calls>>

\* Mutant: the cache entry is written before the attempts.
MutRecordArtifact(c) ==
    /\ call[c].pc = "recording"
    /\ artifacts' = artifacts \cup {call[c].body}
    /\ call' = [call EXCEPT ![c].pc = IF call[c].request \in Fixed THEN "caching" ELSE "offsets"]
    /\ UNCHANGED <<files, cache, attempts, calls>>

\* then its row,
RecordArtifact(c) ==
    /\ call[c].pc = "recording"
    /\ artifacts' = artifacts \cup {call[c].body}
    /\ call' = [call EXCEPT ![c].pc = "offsets"]
    /\ UNCHANGED <<files, cache, attempts, calls>>

\* Mutant: the provider is left out of the query.
MutRowsOf(a, r, p) == {x \in attempts : x.run = a /\ x.request = r}

RowsOf(a, r, p) == {x \in attempts : x.run = a /\ x.request = r /\ x.provider = p}
MaxNumber(rows) == IF rows = {} THEN 0 ELSE CHOOSE n \in {x.number : x \in rows} :
                                               \A x \in rows : x.number <= n

\* then the attempts: save_attempts reads the highest number so far,
ReadOffsets(c) ==
    /\ call[c].pc = "offsets"
    /\ call' = [call EXCEPT ![c].pc = "saving",
            ![c].offset = [p \in Providers |->
                MaxNumber(RowsOf(call[c].run, call[c].request, p))]]
    /\ UNCHANGED <<storage, calls>>

Row(c, t) ==
    [run |-> call[c].run, request |-> call[c].request, provider |-> ProviderOf[t.source],
     number |-> call[c].offset[ProviderOf[t.source]] + t.number, source |-> t.source,
     kind |-> t.kind, body |-> IF t.kind = "success" THEN call[c].body ELSE None]

NewRows(c) == {Row(c, call[c].tried[i]) : i \in DOMAIN call[c].tried}

\* UNIQUE(analysis_id, request_fingerprint, provider_id, attempt_number)
SameKey(x, y) == x.run = y.run /\ x.request = y.request /\ x.provider = y.provider /\ x.number = y.number
Insertable(rows) == \A x \in rows : \A y \in rows \cup attempts : SameKey(x, y) => x = y /\ y \notin attempts

LastTried(c) == call[c].tried[Len(call[c].tried)]

\* The error of a read that no source answered.
FinalError(c) ==
    IF call[c].tried # <<>> /\ LastTried(c).kind = "rate_limited" THEN "rate_limited"
    ELSE "source_unavailable"

\* and inserts the rows, all or none.
SaveAttempts(c) ==
    /\ call[c].pc = "saving" /\ Insertable(NewRows(c))
    /\ attempts' = attempts \cup NewRows(c)
    /\ IF call[c].body = None THEN Finish(c, Failure(FinalError(c)))
       ELSE IF call[c].request \in Fixed THEN call' = [call EXCEPT ![c].pc = "caching"]
       ELSE Finish(c, Response("miss", LastTried(c).source, call[c].body))
    /\ UNCHANGED <<files, artifacts, cache, calls>>

\* A number is taken: the insert raises and nothing is stored.
AttemptConflict(c) ==
    /\ call[c].pc = "saving" /\ ~Insertable(NewRows(c))
    /\ Finish(c, Failure("raised"))
    /\ UNCHANGED <<storage, calls>>

\* Mutant: an entry of another source or body is replaced.
MutMayCache(c) == TRUE

Entry(c) == [source |-> LastTried(c).source, body |-> call[c].body]

\* put_cache inserts, or finds an entry with the same provenance.
MayCache(c) == cache[call[c].request] \in {None, Entry(c)}

PutCache(c) ==
    /\ call[c].pc = "caching" /\ MayCache(c)
    /\ cache' = [cache EXCEPT ![call[c].request] = Entry(c)]
    /\ Finish(c, Response("miss", LastTried(c).source, call[c].body))
    /\ UNCHANGED <<files, artifacts, attempts, calls>>

\* "cache key conflicts with existing provenance"
CacheConflict(c) ==
    /\ call[c].pc = "caching" /\ ~MayCache(c)
    /\ Finish(c, Failure("raised"))
    /\ UNCHANGED <<storage, calls>>

\* The caller is cancelled or killed.
Crash(c) ==
    /\ call[c].pc \notin {"idle", "done"}
    /\ call' = [call EXCEPT ![c] = Idle]
    /\ UNCHANGED <<storage, calls>>

Step(c) ==
    \/ \E reply \in Replies \cup {"unsupported"}, body \in Bodies : Call(c, reply, body)
    \/ SkipSource(c) \/ GiveUp(c) \/ WriteArtifact(c) \/ RecordArtifact(c)
    \/ ReadOffsets(c) \/ SaveAttempts(c) \/ AttemptConflict(c) \/ PutCache(c) \/ CacheConflict(c)

Next ==
    \E c \in Callers :
        \/ \E a \in Runs, r \in Requests, p \in Policies : Execute(c, a, r, p)
        \/ Step(c) \/ Crash(c)

Spec == Init /\ [][Next]_vars
-----------------------------------------------------------------------------
(* Properties. *)

Started(c) == call[c].pc # "idle"

\* Whatever was killed when: a cache entry is of a fixed block, its file and
\* its artifact row exist, so that a hit can be served, and the call that
\* fetched it is in the attempts (REQ-P0-CACHE-003).
CacheBacked ==
    \A r \in Requests : cache[r] # None =>
        /\ r \in Fixed /\ cache[r].body \in files \cap artifacts
        /\ \E x \in attempts : /\ x.request = r /\ x.kind = "success"
                               /\ x.source = cache[r].source /\ x.body = cache[r].body

\* A cache entry is never replaced, also by concurrent misses that got another
\* answer, perhaps from another source.
CacheIsImmutable == [][\A r \in Requests : cache[r] # None => cache'[r] = cache[r]]_vars

\* No source is called unless the rules allow it and the policy names it, and
\* no answer, cached or not, comes from a source the policy does not allow.
PolicyObeyed ==
    \A c \in Callers : Started(c) =>
        LET p == call[c].policy
        IN  /\ \A i \in DOMAIN call[c].tried :
                /\ p.rule = "allowed" /\ ~p.offline
                /\ call[c].tried[i].source \in p.allowed
                /\ ~p.fallback => call[c].tried[i].source = p.order[1]
            /\ call[c].pc = "done" => call[c].answer.source \in p.allowed \cup {None}

\* The attempts of a run at one provider are numbered from 1 without gaps, and
\* a call that answered has left every one of its attempts there
\* (REQ-P0-CACHE-005).
AttemptLog ==
    /\ \A a \in Runs, r \in Requests, p \in Providers :
        LET rows == {x \in attempts : x.run = a /\ x.request = r /\ x.provider = p}
        IN  {x.number : x \in rows} = 1..Cardinality(rows)
    /\ \A c \in Callers : call[c].pc = "done" /\ call[c].answer.kind # "raised" =>
        \A i \in DOMAIN call[c].tried : Row(c, call[c].tried[i]) \in attempts

\* A source is called again only after a timeout, a 429 or a temporary server
\* error (REQ-P0-CACHE-004), at most max_attempts times; another source is
\* called only after that is used up; and each answer stands at the end of its
\* attempts.
RetryDiscipline ==
    \A c \in Callers :
        LET tried == call[c].tried
            Temporary(t) == t.reply \in {"timeout", "http_429", "http_5xx"}
        IN  \A i \in DOMAIN tried :
                /\ tried[i].number <= MaxAttempts
                /\ i < Len(tried) =>
                    /\ tried[i].reply # "ok"
                    /\ (tried[i + 1].source = tried[i].source)
                            <=> (Temporary(tried[i]) /\ tried[i].number < MaxAttempts)
-----------------------------------------------------------------------------
(* What the documents promise and the code does not keep. *)

\* "Every attempt must be left in the run record" (REQ-P0-CACHE-005): a call
\* that came to an end by itself has recorded its attempts.
EveryAttemptRecorded ==
    \A c \in Callers : call[c].pc = "done" =>
        \A i \in DOMAIN call[c].tried :
            \E x \in attempts : /\ x.run = call[c].run /\ x.request = call[c].request
                               /\ x.source = call[c].tried[i].source /\ x.kind = call[c].tried[i].kind
=============================================================================
