----------------------------- MODULE AnswerCache -----------------------------
(***************************************************************************)
(* The two answering endpoints, POST /generate and POST /generate/agentic, *)
(* and the Redis answer cache they share (app/routers/generate.py,         *)
(* generate_agentic.py, app/generation/cache.py), running while indices    *)
(* are rebuilt and tables reloaded as LiveIndex allows. A request reads    *)
(* the alias several times, each time as it is then: to build its cache    *)
(* key, and in every search. A client's next request begins when its last  *)
(* one has ended. Log lines are left out.                                  *)
(***************************************************************************)
EXTENDS LiveIndex

CONSTANTS
  Clients,      \* whoever can have a request outstanding
  AgenticClients,  \* those that post to /generate/agentic, not to /generate
  NoCacheClients,  \* those that set no_cache: the eval harness, the UI's checkbox
  Questions,    \* questions with their filters: what a cache key hashes, less
                \* the index name and the model, which is fixed
  RoutesOf      \* the routes guardrail_and_route() can give each question

Routes == {"unknown_id", "pinned", "field_lookup", "error_code", "off_topic",
           "deterministic", "semantic"}

ASSUME CacheAssumption ==
  /\ Questions # {}
  /\ RoutesOf \in [Questions -> SUBSET Routes]
  /\ AgenticClients \subseteq Clients /\ NoCacheClients \subseteq Clients

VARIABLES
  built,        \* the committed state each published index was built from
  cache,        \* Redis: an entry for each question and index name
  req           \* the request each client has outstanding

vars == <<history, live, built, cache, req>>

Indices == 1..MaxTime

\* get_current_index_name() answers with the alias name itself when it fails.
AliasName == 0

\* What an answer was made from: the first and the last index searched, the
\* committed tables read, and whether stream_chat() was run, and failed.
NoAnswer == [from |-> 0, upto |-> 0, rows |-> 0, ending |-> "none"]

NoRequest ==
  [step |-> "idle", question |-> CHOOSE q \in Questions : TRUE, key |-> AliasName,
   since |-> 0, sinceVer |-> 0, route |-> "semantic", answer |-> NoAnswer]

CacheInit ==
  /\ Init
  /\ built = [i \in Indices |-> 0]
  /\ cache = [k \in Questions \X (0..MaxTime) |-> NoAnswer]
  /\ req = [c \in Clients |-> NoRequest]

At(c, s) == req[c].step = s

\* Mutant of Key: the index name is left out of the key.
KeyWithoutIndex(c) == <<req[c].question, AliasName>>

Key(c) == <<req[c].question, req[c].key>>

\* The request of c becomes r; ending, it makes way for the client's next one.
Becomes(c, r) == req' = [req EXCEPT ![c] = r]
EndRequest(c) == Becomes(c, NoRequest)

\* The steps of a request leave everything but the request alone, and those that
\* touch Redis everything but the request and the cache.
ClusterUnchanged == UNCHANGED <<history, live, built>>
OnlyRequest == ClusterUnchanged /\ UNCHANGED cache

-----------------------------------------------------------------------------
(* The environment: ingest.py, build_index.py, and Redis evicting an entry *)

Ingest == Commit /\ UNCHANGED <<built, cache, req>>

Rebuild ==
  /\ Publish
  /\ built' = [built EXCEPT ![live'.index] = live'.ver]
  /\ UNCHANGED <<cache, req>>

Evict ==
  /\ \E k \in DOMAIN cache :
       cache[k] # NoAnswer /\ cache' = [cache EXCEPT ![k] = NoAnswer]
  /\ ClusterUnchanged /\ UNCHANGED req

-----------------------------------------------------------------------------
(* Both endpoints, up to the cache *)

\* The request's key: get_current_index_name() gives the concrete index, or the
\* alias name if there is no alias or a call failed. What was live then is kept
\* to judge a replay by.
Arrive(c) ==
  /\ At(c, "idle")
  /\ \E q \in Questions, name \in {live.index, AliasName} :
       Becomes(c, [NoRequest EXCEPT !.step = "lookup", !.question = q, !.key = name,
                                    !.since = live.index, !.sinceVer = live.ver])
  /\ OnlyRequest

\* get_cached() found an entry: the cached stream replays it.
CacheHit(c) ==
  /\ At(c, "lookup")
  /\ c \notin NoCacheClients
  /\ cache[Key(c)] # NoAnswer
  /\ Becomes(c, [req[c] EXCEPT !.step = "replay", !.answer = cache[Key(c)]])
  /\ OnlyRequest

\* Mutant of CacheMiss: no_cache skips the lookup and all that follows it.
CacheMissForgetsNoCache(c) ==
  /\ At(c, "lookup")
  /\ c \notin NoCacheClients
  /\ Becomes(c, [req[c] EXCEPT !.step = IF c \in AgenticClients THEN "ids" ELSE "bm25",
                                !.since = 0, !.sinceVer = 0])
  /\ OnlyRequest

\* no_cache, no entry, or GET failed, which the code treats as no entry.
CacheMiss(c) ==
  /\ At(c, "lookup")
  /\ Becomes(c, [req[c] EXCEPT !.step = IF c \in AgenticClients THEN "ids" ELSE "bm25",
                                !.since = 0, !.sinceVer = 0])
  /\ OnlyRequest

-----------------------------------------------------------------------------
(* guardrail_and_route(), which only /generate/agentic runs *)

\* The answer once the alias has been searched at this moment, too.
Searched(answer) ==
  [answer EXCEPT !.from = IF @ = 0 THEN live.index ELSE @, !.upto = live.index]

\* resolve_document_ids() and the checks that need no search. A question that
\* names no ID makes no call here; the document a named ID resolves to goes into
\* the answer (pinned, or looked up), and an unknown ID ends the routing.
AfterIds(route) ==
  CASE route = "unknown_id" -> "finish"
    [] route \in {"field_lookup", "error_code"} -> "database"
    [] OTHER -> "bm25"

TakeIdRoute(c) ==
  /\ At(c, "ids")
  /\ \E route \in RoutesOf[req[c].question] \cap {"unknown_id", "pinned", "field_lookup"} :
       /\ live.index # 0
       /\ Becomes(c, [req[c] EXCEPT !.step = AfterIds(route), !.route = route,
            !.answer = IF route = "unknown_id" THEN @ ELSE Searched(@)])
  /\ OnlyRequest

TakeOtherRoute(c) ==
  /\ At(c, "ids")
  /\ \E route \in RoutesOf[req[c].question]
                    \cap {"error_code", "off_topic", "deterministic", "semantic"} :
       Becomes(c, [req[c] EXCEPT !.step = AfterIds(route), !.route = route])
  /\ OnlyRequest

-----------------------------------------------------------------------------
(* hybrid_search(): two searches of the alias with an embedding call between *)

SearchBm25(c) ==
  /\ At(c, "bm25")
  /\ live.index # 0
  /\ Becomes(c, [req[c] EXCEPT !.step = "knn", !.answer = Searched(@)])
  /\ OnlyRequest

\* Mutant of AfterSearch: the graph's edge for pinned documents names no node.
AfterSearchUnregistered(route) ==
  CASE route = "pinned" -> "expand_references"
    [] route = "off_topic" -> "finish"
    [] route = "deterministic" -> "list"
    [] OTHER -> "fetch"

AfterSearch(route) ==
  CASE route = "pinned" -> "expand"
    [] route = "off_topic" -> "finish"
    [] route = "deterministic" -> "list"
    [] OTHER -> "fetch"

SearchKnn(c) ==
  /\ At(c, "knn")
  /\ Becomes(c, [req[c] EXCEPT !.step = AfterSearch(req[c].route), !.answer = Searched(@)])
  /\ OnlyRequest

\* _expand_references(): the documents the pinned ones cite, if any, are resolved
\* through the alias again.
ExpandReferences(c) ==
  /\ At(c, "expand")
  /\ \E answer \in {req[c].answer, Searched(req[c].answer)} :
       Becomes(c, [req[c] EXCEPT !.step = "fetch", !.answer = answer])
  /\ OnlyRequest

-----------------------------------------------------------------------------
(* The nodes that answer *)

\* The answer once Postgres has been read at this moment, or the LLM has run.
Fetched(answer) == [answer EXCEPT !.rows = Len(history)]
Streamed(answer, ending) == [answer EXCEPT !.ending = ending]

\* run_deterministic(): count and list the matching documents, no LLM.
CountAndList(c) ==
  /\ At(c, "list")
  /\ Becomes(c, [req[c] EXCEPT !.step = "finish", !.answer = Searched(@)])
  /\ OnlyRequest

\* run_field_lookup() and run_error_code_lookup(): answered from Postgres, no LLM.
AnswerFromDatabase(c) ==
  /\ At(c, "database")
  /\ Becomes(c, [req[c] EXCEPT !.step = "finish", !.answer = Fetched(@)])
  /\ OnlyRequest

\* The row the index names is gone: run_field_lookup() generates in its place,
\* and the decision stays "field_lookup".
FieldRowMissing(c) ==
  /\ At(c, "database")
  /\ req[c].route = "field_lookup"
  /\ Becomes(c, [req[c] EXCEPT !.step = "fetch"])
  /\ OnlyRequest

\* fetch_structured_fields() and fetch_references(), in one transaction.
FetchRows(c) ==
  /\ At(c, "fetch")
  /\ Becomes(c, [req[c] EXCEPT !.step = "stream", !.answer = Fetched(@)])
  /\ OnlyRequest

\* stream_chat() ran to its end, or raised GenerationError.
Stream(c) ==
  /\ At(c, "stream")
  /\ \E ending \in {"generated", "failed"} :
       Becomes(c, [req[c] EXCEPT !.step = "finish", !.answer = Streamed(@, ending)])
  /\ OnlyRequest

\* Mutant of Cacheable: the router's decision is not looked at.
CacheableWhateverDecision(c) ==
  /\ c \notin NoCacheClients
  /\ req[c].answer.ending # "failed"

\* Which answers are cached: /generate's unless GenerationError was raised, and of
\* /generate/agentic only those decided "semantic" (a pinned document's included).
Cacheable(c) ==
  /\ c \notin NoCacheClients
  /\ req[c].answer.ending # "failed"
  /\ c \in AgenticClients => req[c].route \in {"semantic", "pinned"}

\* Mutant of Finish: the index name is asked for again when the answer is stored.
FinishUnderCurrentIndex(c) ==
  /\ At(c, "finish")
  /\ \/ /\ Cacheable(c)
        /\ cache' = [cache EXCEPT ![<<req[c].question, live.index>>] = req[c].answer]
     \/ UNCHANGED cache
  /\ EndRequest(c)
  /\ ClusterUnchanged

\* finish(), and the end of /generate's event_stream(): SET under the key the
\* request began with, unless Redis fails; then the response ends.
Finish(c) ==
  /\ At(c, "finish")
  /\ \/ Cacheable(c) /\ cache' = [cache EXCEPT ![Key(c)] = req[c].answer]
     \/ UNCHANGED cache
  /\ EndRequest(c)
  /\ ClusterUnchanged

Replay(c) == At(c, "replay") /\ EndRequest(c) /\ OnlyRequest

\* OpenSearch, the embedding call, Postgres or the JSON of a stream line raised, or
\* the client went away while the response was streamed: nothing is cached.
Abandon(c) ==
  /\ req[c].step \in {"ids", "bm25", "knn", "expand", "list", "database",
                      "fetch", "stream", "finish", "replay"}
  /\ EndRequest(c)
  /\ OnlyRequest

-----------------------------------------------------------------------------
\* One step of a request that has been accepted.
Proceed(c) ==
  \/ CacheHit(c) \/ CacheMiss(c)
  \/ TakeIdRoute(c) \/ TakeOtherRoute(c)
  \/ SearchBm25(c) \/ SearchKnn(c) \/ ExpandReferences(c)
  \/ CountAndList(c) \/ AnswerFromDatabase(c) \/ FieldRowMissing(c)
  \/ FetchRows(c) \/ Stream(c) \/ Finish(c) \/ Replay(c) \/ Abandon(c)

CacheNext ==
  \/ Ingest \/ Rebuild \/ Evict
  \/ \E c \in Clients : Arrive(c) \/ Proceed(c)

CacheSpec == CacheInit /\ [][CacheNext]_vars

\* Redis (2 s), OpenSearch's client, Ollama's embedding call and stream_chat() have
\* timeouts; a query to Postgres has none but waits for no more than a reset, which
\* waits for rebuilds, which end. Both endpoints run in threads of their own: an
\* accepted request goes on.
FairCacheSpec == CacheSpec /\ \A c \in Clients : WF_vars(Proceed(c))

-----------------------------------------------------------------------------
(* Correctness *)

Answer == [from : 0..MaxTime, upto : 0..MaxTime, rows : Nat,
           ending : {"none", "generated", "failed"}]

Steps == {"idle", "lookup", "ids", "bm25", "knn", "expand", "list", "database",
          "fetch", "stream", "finish", "replay"}

Request ==
  [step : Steps, question : Questions, key : 0..MaxTime, since : 0..MaxTime,
   sinceVer : Nat, route : Routes, answer : Answer]

\* Types; no version number is ahead of what Postgres has committed.
CacheTypeOK ==
  /\ history \in Seq(SUBSET Docs) /\ Len(history) >= 1
  /\ live \in [index : 0..MaxTime, ver : Nat, rows : SUBSET Docs]
  /\ live.ver <= Len(history)
  /\ built \in [Indices -> Nat]
  /\ cache \in [Questions \X (0..MaxTime) -> Answer]
  /\ req \in [Clients -> Request]

\* Why no replay is stale. An index once published keeps its name and content,
\* and later ones are newer in both.
IndexInv ==
  /\ live.index # 0 => built[live.index] = live.ver
  /\ \A i \in Indices : built[i] <= live.ver

\* An answer for a concrete index name draws on that index or on later ones...
SearchedSince(key, answer) ==
  /\ key <= answer.from
  /\ answer.from <= answer.upto
  /\ answer.upto <= live.index

\* ... and on tables no older than those the index was built from.
FetchedSince(key, answer) == key # AliasName => answer.rows >= built[key]

EntryInv(key, entry) ==
  entry # NoAnswer =>
    /\ key <= live.index
    /\ SearchedSince(key, entry)
    /\ FetchedSince(key, entry)
    /\ entry.ending = "generated"

\* The routes whose answers Cacheable accepts.
Generates(c) == req[c].route \in {"semantic", "pinned"}

RequestInv(c) ==
  /\ req[c].key <= live.index
  /\ c \notin AgenticClients => Generates(c) /\ ~At(c, "ids")
  /\ At(c, "lookup") =>
       /\ req[c].answer = NoAnswer
       /\ req[c].key # AliasName =>
            req[c].since = req[c].key /\ req[c].sinceVer = built[req[c].key]
  /\ req[c].step \in {"ids", "bm25"} /\ req[c].answer.from = 0 => req[c].answer = NoAnswer
  /\ req[c].answer.from # 0 => SearchedSince(req[c].key, req[c].answer)
                                \/ At(c, "replay")
  /\ req[c].step \in {"knn", "expand", "fetch", "stream"} => req[c].answer.from # 0
  /\ req[c].step \in {"list", "database"} => ~Generates(c)
  /\ At(c, "database") /\ req[c].route = "field_lookup" => req[c].answer.from # 0
  /\ At(c, "stream") => FetchedSince(req[c].key, req[c].answer)
  /\ At(c, "finish") /\ Generates(c) =>
       /\ req[c].answer.from # 0
       /\ FetchedSince(req[c].key, req[c].answer)
       /\ req[c].answer.ending # "none"
  /\ At(c, "replay") /\ req[c].key # AliasName =>
       /\ req[c].answer.from >= req[c].since
       /\ req[c].answer.rows >= req[c].sinceVer

CacheInv ==
  /\ IndexInv
  /\ \A q \in Questions, i \in 0..MaxTime : EntryInv(i, cache[<<q, i>>])
  /\ \A c \in Clients : RequestInv(c)

\* "A rebuild silently invalidates every old entry by construction"
\* (cache.py:19-21), for a request that got an index name: whatever is replayed
\* to it was retrieved from no older index than was live when it looked, and
\* made of table rows no older than that index, however slowly the request
\* that cached it ran and however many rebuilds overtook either of them.
NoStaleReplay ==
  \A c \in Clients : (At(c, "replay") /\ req[c].key # AliasName) =>
    /\ req[c].answer.from >= req[c].since
    /\ req[c].answer.rows >= req[c].sinceVer

\* An answer retrieved across an alias swap mixes two indices. It may be sent to
\* the one client whose request the swap overtook, but the cache never offers it
\* under the name of the live index: every entry there comes from that index alone.
LiveEntriesAreExact ==
  \A q \in Questions : LET e == cache[<<q, live.index>>] IN
    (live.index # 0 /\ e # NoAnswer) => e.from = live.index /\ e.upto = live.index

\* "caching ONLY ever applies to the final semantic-path generation output"
\* (generate_agentic.py:66-75): no apology for a GenerationError, no rejection, and
\* no looked-up or counted answer is ever in the cache.
OnlyGeneratedCached ==
  \A k \in DOMAIN cache : cache[k] # NoAnswer => cache[k].ending = "generated"

\* "degrade /generate to 'always regenerate,' never take the endpoint down"
\* (cache.py:34-38): every request ends, with Redis failing every call if it likes.
RequestsEnd == \A c \in Clients : ~At(c, "idle") ~> At(c, "idle")

\* "An index rebuild busts the cache (no stale post-rebuild answers served)"
\* (docs/history/PHASE6_VERIFY.md), of every request that arrived with an alias.
NoStaleAnswer ==
  \A c \in Clients : (At(c, "replay") /\ req[c].since # 0) =>
    req[c].answer.from >= req[c].since

\* "Named IDs that exist nowhere -> decision reject", off-topic questions likewise
\* (generate_agentic.py:23-30, README.md:10-11): the agentic endpoint never
\* answers a question all of whose routes reject it.
RejectedNotAnswered ==
  \A c \in Clients : (At(c, "replay") /\ c \in AgenticClients) =>
    ~(RoutesOf[req[c].question] \subseteq {"unknown_id", "off_topic"})
=============================================================================
