# A verification project for qa-agentic-rag

This directory holds TLA+ models of the parts of qa-agentic-rag whose
correctness depends on order, failure or timing, the TLC configurations that
check them, and proofs about them that the TLAPS proof system checks.

## The system

qa-agentic-rag answers questions about bug reports and test cases. Postgres is
the source of truth, OpenSearch holds a derived index, a local Ollama embeds
texts and generates answers, Redis caches answers, and FastAPI serves it all.

| Component | State | Operations | Talks to |
|---|---|---|---|
| Ingest (`ingest.py`, `schema.sql`) | the Postgres tables | `--reset` (drop, recreate, commit), load documents, three passes over references, each with its own commit | Postgres |
| Index rebuild (`app/search/indexer.py`, `build_index.py`) | OpenSearch indices named by the second, one alias | read the rows, create an index, bulk, verify the count, swap the alias, delete old indices | Postgres, Ollama (embeddings), OpenSearch |
| Answer cache (`app/generation/cache.py`) | Redis entries, no TTL | resolve the alias, build the key, get, set; every failure is swallowed | OpenSearch, Redis |
| `POST /generate` (`app/routers/generate.py`) | one request | cache, hybrid search, Postgres, stream from the LLM, cache | all of them |
| `POST /generate/agentic` (`app/routers/generate_agentic.py`) | one request, a LangGraph state | cache, route (ID lookup, hybrid search, guardrail), one of five answers, cache | all of them |
| Search service (`app/search/service.py`, `queries.py`) | none | BM25, k-NN, rank fusion, ID lookup, count | OpenSearch, Ollama |
| Routing rules (`id_resolution.py`, `guardrail.py`, `field_lookup.py`, `error_code_lookup.py`, `deterministic.py`) | none | classify a question | |
| Context (`app/generation/context.py`) | none | rows and references for the prompt | Postgres |
| Ollama chat client (`app/generation/llm.py`) | one stream | two timeouts, tokens, done chunk | Ollama |
| Observability log (`app/observability/logger.py`) | `logs/generation.jsonl` | append a line per answer; failures are swallowed | |
| Evaluation (`generate_eval_seed.py`, `eval/run_eval_generation.py`, `eval/run_holdout.py`) | a run: items, results, result files | make questions of the tables, ask them one by one, grade the answers, save the results | the agentic endpoint, Postgres, the log |
| Page, diagnostics, data generator | files | | |

What makes each correct, in a sentence:

* **Ingest**: whatever run was cut short or refused, no reference is wrong, rows
  are loaded once, and a run that ended left everything its files say.
* **Index rebuild**: the alias always leads to one complete index, never to an
  older one than before, and never to nothing.
* **Answer cache and the endpoints**: a replayed answer is one that a request made
  now could have got; nothing but a generation is ever replayed; every request
  ends.
* **Search, context, field lookup**: what is shown as a document's is that
  document's; the named documents lead, the filters hold for every document
  however it was found, and a document both searches found is ranked first.
* **Routing**: a question goes down one path, chosen by rules with a fixed order,
  and is not turned away while the corpus has its answer.
* **Evaluation**: a verdict of FAIL on an answer no model made means that the corpus
  changed meanwhile, what a run has saved survives it, and every run ends.
* **Ollama client**: a call lasts a bounded time, and tells a finished answer from
  an unfinished one.

Nothing coordinates these processes but Postgres' locks and the atomicity of
single OpenSearch and Redis calls. What is hard:

* **Rebuilds race with ingest, with other rebuilds and with readers.** A
  rebuild is a sequence of a dozen remote calls; any may fail, some failures
  leave an index behind, and the process may be killed. Index names come from a
  clock with a resolution of one second, a while before the index is created.
* **A request reads the alias up to six times**, with an embedding call of
  seconds and a generation of a minute between the reads, and stores its answer
  under a key computed from the first.
* **Two endpoints with different rules share one cache.**
* **Identities outlive what they name.** The index refers to documents by the
  serial number of one load of the tables; a reset starts the numbers anew, a
  failed load leaves gaps in them, and the index follows only when rebuilt.
* **Ingest commits up to five times** and refuses to be rerun on loaded tables, so
  every state between two commits may stay.
* **A document reaches an answer by many ways**: named in the question, found by
  either leg of the hybrid search, as a reference of a named one, by error code,
  by filter. Each is a query of its own, to the index or to Postgres, and the index
  may be swapped or the tables reloaded between any two.
* **Questions are graded against a corpus that may have moved on** since they were
  made and since they were answered, by a client that gives up on a request the
  server goes on with, and that may be killed while it saves.
* **All generations wait for one slot** of the local Ollama. The deadline of a call is
  only looked at when a line arrives, and only that exit closes its response.
* **Failures are swallowed on purpose** (Redis, the alias lookup, rejected rows
  of a bulk request), so nothing but the order of the steps protects the data.

## Modules

| Module | Models | Kind |
|---|---|---|
| `LiveIndex` | what readers of the alias may rely on: one complete index, replaced in one step by a newer one | abstract specification |
| `IndexRebuild` | `rebuild_index()` call by call, several builders, ingest's commits | detailed specification, implements `LiveIndex` |
| `AnswerCache` | both endpoints and the cache, over `LiveIndex` | extends `LiveIndex` |
| `OllamaStream` | `stream_chat()` in time, several calls and one slot | specification |
| `Ingest` | `ingest.py` commit by commit | specification |
| `FieldLookup` | index numbers and field lookups beside ingest | extends `Ingest` |
| `Questions` | one question from its text to its answer: routing, both legs, rank fusion, pinning, references, the five routes, while tables and index change | specification |
| `Evaluation` | the evaluation scripts, asking `Questions` | extends `Questions` |
| `IndexRebuildProofs`, `AnswerCacheProofs`, `OllamaStreamProofs`, `IngestProofs`, `QuestionsProofs`, `EvaluationProofs` | theorems about the module named, `IngestProofs` also about `FieldLookup` | TLAPS |
| `LiveIndexProofs` | that `IndexRebuild` implements `LiveIndex`; extends `IndexRebuildProofs` | TLAPS |
| `SeedProofs` | what the generated questions get of the endpoint; extends `EvaluationProofs` | TLAPS |
| `MCIndexRebuild`, `MCAnswerCache`, `MCFieldLookup`, `MCEvaluation` | constants of the runs | TLC |

`AnswerCache` and `Questions` are two views of one endpoint. The first follows *when*
each read happens and what is stored for whom, with any number of requests, and
takes the route and the documents as given. The second follows *what* is read and
what becomes of it, for one request at a time: requests share nothing but the
cache, which the evaluation scripts go past (`no_cache`).

Operators named as mutants (`CountsNotCompared`, `KeyWithoutIndex`, ...) are not
part of any specification. Each is a plausible bug in the definition it stands
before; put in its place it makes a run fail, which shows that the property the
run checks depends on that piece of code. `PROJECT.json` pairs them, and maps
every definition to its source lines.

### How the models correspond to the code

**`IndexRebuild`** (`indexer.py:179-258`, `build_index.py:42-89`). `job[b]` holds
the local variables of one `build_index` process: the committed state it read
(`ver`), the name of its index (`target`), the rows not yet sent (`pending`),
whether a row was rejected (`errors`) and `old_indices`. `indices`, `alias` are
OpenSearch's; `history` lists the committed states of table `documents`; the name
of an index is the second it was named in (`clock`). One action per call:
`FetchDocuments`, `NameIndex` (`time.time()`), `CreateIndex`/`CreateCollides`, which
may come any time later, `IndexRow`/`RejectRow` (one
action of a bulk), `FinishBulk`/`AbortBulk`, `CountMatches`/`CountMismatch`,
`GetAlias`, `SwapAlias`/`SwapFails`, `DeleteRetired`/`DeleteFails`,
`ReturnSummary`, and `Crash` for the process dying or any call outside the `try`
raising. A document's `_id` is `external_id::chunk_000`, unique only within a
document type (`ChunkId`): two rows may overwrite each other, which no call
reports. A bulk request creates its index anew if another builder has deleted it.
`build_index.py` never commits, so its `SELECT` keeps the table lock that
`DROP TABLE` waits for (`HoldsReadLock`). `retired` is a history variable.

**`LiveIndex`** is what `get_current_index_name()` and the searches see of all
this. `LiveView` is the refinement mapping: the index behind the alias, the state
it was built from and its rows.

**`AnswerCache`** (`generate.py:69-213`, `generate_agentic.py:164-628`,
`cache.py`). `req[c]` is the request a client has outstanding: its step, question,
key and route, and of its answer the first and the last index searched, the state
of the tables read and how the generation ended. The steps are the remote calls
between which a rebuild or a reload can come: `Arrive` (resolve the alias for the
key), `CacheHit`/`CacheMiss`, `TakeIdRoute`/`TakeOtherRoute`
(`guardrail_and_route()`), `SearchBm25`, `SearchKnn` (after the embedding call),
`ExpandReferences`, `CountAndList`, `AnswerFromDatabase`, `FieldRowMissing`,
`FetchRows`, `Stream`, `Finish` (the store), `Replay`, and `Abandon` for an
exception or a client that leaves. Redis may evict an entry or fail a call at any
time. `RoutesOf` gives the routes a question can get, which depend on its wording
and on what the index holds. `since` and `sinceVer` are history variables.

**`OllamaStream`** (`llm.py:116-216`). `stream[s]` is the latest call of
`stream_chat()` in one request: its phase, its age since `start_time`, the silence
of its socket, `done_chunk_seen` and how it ended. `slot` is the call Ollama is
generating for. The code closes a response in one place, after the deadline
(`llm.py:188`); where it does not, on a timeout or when the consumer or an exception
leaves the loop, the response stays open behind the call (`left`) until the garbage
collector or Ollama ends it (`Collect`), at any time or never, and the slot is taken
until then. Connecting, the response's first byte and every line are steps;
so are a broken connection, a timeout of the HTTP library and the consumer closing
the generator. `Tick` lets a unit of time pass, but not past a timeout that is due.

**`Ingest`** (`ingest.py:145-333`, `schema.sql`). `loader` is the run: its step
between commits, the files as it parsed them, `id_map` and the pass it has come
to. `documents` and `references` are the tables, `nextId` the sequence of
`documents.id`, which no rollback returns. `ResetSchema`, `Refuse`/`Accept`,
`Load`/`LoadFails`, `ResolveLinks` (once per pass) each stand for one transaction,
`Crash` ends the run between two. `Edit` changes the files at any time.

**`FieldLookup`** (`indexer.py:133-176`, `service.py:78-109`,
`field_lookup.py:101-120`, `generate_agentic.py:364-376`). `index.ids` are the
`parent_document_id`s the live index holds, `lookup` a question on its way from
the document it names (`ResolveId`) to the row of the number found (`ReadFields`).
`fetch_structured_fields()` reads rows by the same number.

**`Questions`** (`generate_agentic.py:164-510`, `id_resolution.py`,
`service.py:78-300`, `queries.py:250-290`, `guardrail.py`, `deterministic.py`,
`error_code_lookup.py`, `context.py`). The variables are the fields of the graph's
state: `ids` (`question_ids`), `pinned`, `hits`, `rows`, `lines`, `answer`, and `pc`
for the node and the call within it. `history` and `live` are what Postgres
committed and which of its states the live index was built from. One action per
read: `Ask` (extract the IDs, in order and without repetition), `Resolve` (look
them up, decide `unknown_id` or `field_lookup`), `SearchText`, `SearchVector` (which
filters the nearest neighbours, fuses, cuts, and then routes or pins),
`FetchTargets` and `PlaceTargets` (`_expand_references()`: what the named documents
refer to, from Postgres, then looked up in the index), `FetchRows`, `FetchLines`,
`Generate`, `CountDocuments` and `ListDocuments`, `FindCoded` and `RelateCoded`,
`LookUpFields`, `Finish`; `Raise` is any of the calls failing. Texts are records of
what the patterns find in them. Filters match whatever the case (`Fold`), as the
index's normalizer, `build_filters()` and `passes_filters()` make them. Rank fusion compares sums of reciprocals as
fractions, and `Outranks` breaks ties as Python's stable sort does. `Commit` and
`Publish` are `ingest.py` and a rebuild as `LiveIndex` promises them: never back to
an older state. `asOf`, `lead` and `both` are history variables.

**`Evaluation`** (`generate_eval_seed.py`, `run_eval_generation.py:60-377`,
`run_holdout.py`). `BuildEvalSeed` is `build_eval_seed()`, query by
query: the items a state of the tables gives, with their order and limits.
`EvalResults` and `Grade` are the checkers of the two harnesses. `run` is the script
that runs, `SendItem` its next question, `GradeEval` and `GradeHoldout` what it does
with the answer, `EndRun` its end, and `Kill` a caller's timeout or an exception
nothing catches. `TimeOut` is the client giving up on a request; what becomes of that
request is not followed. `Record` appends a result; a holdout run then saves all of
them, in two steps, `EmptyFile` (`open(..., "w")`) and `FillFile` (`json.dump()`).

## Runs

Passing runs:

| Run | Instance | Distinct states | Checks |
|---|---|---|---|
| `rebuild_single` | 1 builder, 3 rows of which two share an `_id`, 3 commits, 3 seconds, `--keep-previous 1` | 50,500 | `TypeOK`; `LiveIsComplete` (no half-populated index is ever visible); `SingleLive`; `AliasNeverDropped`; `RollbackStaysPossible`; `PublishedIsCurrentOrEmpty` (a reload cannot slip in between reading and publishing); `ImplementsLiveIndex` (refinement) |
| `rebuild_concurrent` | 2 builders (symmetric), 2 rows with one `_id`, 2 commits, 4 seconds, `--keep-previous 0` | 465,071 | `LiveIsComplete`, `AliasNeverDropped`, `TargetsArePrivate` (no one touches the index another is filling); `OneLivePerBuilder` (however their alias calls interleave, the alias spans no more indices than builders) |
| `answer_cache` | 2 clients, one per endpoint, one question with four routes, 2 commits, 2 rebuilds | 1,135,541 | `CacheTypeOK`; `NoStaleReplay`; `LiveEntriesAreExact` (an answer made across a swap is never offered under the live index); `OnlyGeneratedCached` |
| `answer_cache_live` | 2 clients of the agentic endpoint, one with `no_cache`, two questions with three routes | 91,065 | `RequestsEnd` |
| `ollama_timeouts` | 3 calls, timeouts 1, 2 and 4 | 118,682 | `StreamTypeOK`; `HoldBounded`; `StreamsEnd` (by time and timeouts alone, though a response left open may keep the slot for ever) |
| `ingest` | 4 editions of the files, 2 resets, numbers up to 6 | 542,172 | `FieldTypeOK`; `CompleteIsWhole`; `LinksResolve`; `LoadedOnce`; `FieldsRightUntilReset` |
| `evaluation` | 4 documents, 3 states of the tables of which 2 follow each other, 1 run of a script, lists of 2 hits of at most 3 neighbours, a context of 2 | 125,466 | `QuestionsTypeOK`; `EvalTypeOK`; `SourcesOnce`; `NamedDocsLead`; `SourcesPassFilter`; `BothLegsFirst`; `CountConsistent`; `FilteredCountAnswered`; `FieldsAnswerAll`; `DeterministicAnswersPass` (what the generator asks, the rules answer and the checker expects agree); `ReferenceReachesModel` (the reference a question is about is in the prompt, target included); `ResultsSurvive` (a kill loses no saved result, except in the middle of a save); `RunsEnd` |

Runs that end in a counterexample, each against something the repository says of
itself:

| Run | Property | What happens |
|---|---|---|
| `rebuild_retention` | `RetentionBound` | `old_indices` is what the alias points at now, which is one index; an index retired by an earlier rebuild is never looked at again, so three rebuilds leave two old indices with `--keep-previous 1` (`indexer.py:248-251`). |
| `stale_fallback` | `NoStaleAnswer` | When the alias cannot be resolved the key holds the alias's own name, which no rebuild changes. An answer stored under it before a rebuild is replayed after it (`cache.py:64-79`). |
| `guardrail_bypass` | `RejectedNotAnswered` | The agentic endpoint looks in the shared cache before it routes: a question it rejects is answered if `/generate` answered it before (`generate_agentic.py:544`). |
| `ollama_truncated` | `SuccessIsComplete` | A response that ends without a done chunk ends the loop like a finished one; `done_chunk_seen` is set and never read (`llm.py:186-211`). |
| `index_drift` | `FieldsRight` | After `ingest.py --reset` on changed files and before the rebuild, a number of the old index is another document's: its fields are shown, where the docstring expects a missing row (`field_lookup.py:101-103`). |

### Why the bounds are enough

* *Rebuild.* `MaxTime` 3 allows two indices of one second each and a third after
  them: a collision, a swap over a live index, and a retirement. Two builders that keep
  nothing delete the most, and 4 seconds let each have an index of its own behind the
  alias, one of them the next, and a name picked long before it is created. Two commits
  are a
  reset and a load, three a reload on top. Two rows with a common `_id` are the
  least that a count can tell from one. Version numbers and index names are never
  compared but for order and equality.
* *Cache.* What a row holds is of no interest to the properties, only which commit
  it is from, so `Docs` is empty there. Two rebuilds let one overtake a request
  between any two of its steps; two clients let one store and the other replay.
  Questions do not interact, so each run takes one or two.
* *Ollama.* Three calls: one holds the slot, one waits for it, one connects. The
  proofs cover all timeouts; the run has the deadline longer than both timeouts
  together, so that a call can pass it while reading. Clocks stop one unit beyond
  the longest duration `HoldBounded` allows, so a violation would be seen.
* *Ingest.* The four editions hold mutual mentions, a dangling citation, a
  document that disappears and so shifts the numbers of the others, and a
  duplicate that makes the load fail. Two resets are one reload. `MaxId` 6 leaves
  room for the gap of a failed load below a full one.
* *Evaluation.* One run of a script asks up to a dozen questions, which reach every
  route; runs share nothing but the result file, which the next one overwrites. The
  three states of the tables differ in what the
  rules look at: a document named in another's title, a reference of each kind, a
  dangling one, a status of two words, an empty one, a module of its own, and two
  modules that differ in case alone. One has
  four documents, more than the three neighbours the vector leg gets. A context of
  two is full with two named documents, has room for one reference beside one, and
  is cut when a list is longer. `RrfK` 1 makes ties and the two orders of a
  document of one leg happen in lists of two and three, and still meets
  `LegsDominate`, as do the settings of the program (9 * 99 < 61 * 61). Two commits
  suffice for each property to look across one change; the proofs cover more.

### Fairness

`RequestsEnd` assumes `WF(Proceed(c))` for every client: an accepted request goes
on, because every call it makes returns or raises. Redis has a timeout of 2 s,
OpenSearch's client, the embedding call and `stream_chat()` have theirs. A Postgres
query has none: it may wait for a `DROP TABLE` that waits for the read lock of a
rebuild, but the calls of a rebuild have timeouts too, and its end frees both. Each
request runs in a thread of its own. Nothing is assumed of Redis, rebuilds, or of new
requests arriving. `StreamsEnd` assumes only that time passes and that due timeouts
fire (`WF(Tick)`, `WF(TimeOut(s))`): not that Ollama answers, is fair to those
waiting, or ever sends a line. `RunsEnd` assumes that the server goes on with
the request it has (`Handle`, `Finish`; each call it makes has a timeout or,
for Postgres, ends as above), and that the script, a loop over a list, goes on with
its items and saves. It assumes neither that calls succeed, nor `Raise`, `TimeOut` or
`Kill`; nor anything of commits and rebuilds.

## Theorems

All proofs are checked by TLAPS from the assumptions the modules state about their
constants, and hold for every value of them.

**`IndexRebuildProofs`**, from `RebuildAssumption`: `RebuildTypeCorrect` for any
number of builders at a time. The other theorems are about builders that are
`Compatible`: two at most, whatever `--keep-previous` says, or no more than it keeps
indices. Three that keep none or one already break `TargetsArePrivate` and
`AliasNeverDropped` (see the limits below). They are `RebuildInvariant`,
`LiveAlwaysComplete` (`LiveIsComplete`), `TargetsStayPrivate` (`TargetsArePrivate`),
`AliasIsNeverDropped`, `AliasSpansFew` (`OneLivePerBuilder`), `PublishedIsCurrent`, and
`RollbackStays` for builders that are no more than the indices kept (`EnoughKept`);
TLC finds `RollbackStaysPossible` violated by one builder that keeps none and by two
that keep one.
Who runs beside a builder is what the invariants are about:

| Invariant | What it says | Why it is needed |
|---|---|---|
| `RebuildInv` | the index being filled holds some of the rows that were read, so that an equal count means all of them, and no one else fills, lists or sees it; what is behind the alias is complete; nobody is about to create an index that is on a list and gone | `LiveIsComplete` and `TargetsArePrivate` say nothing of the swap that turns the one into the other, or of the deletion that follows |
| `NoStaleDeletion` | no builder deletes an index another has on its list too, if it is called after this second or a third has chosen the name and not created the index yet | that index would come to be filled while a builder still means to delete it by its name |
| `ListsInv` | (two builders) one that lists the index of this second did not make it, and is alone in listing it | gives `NoStaleDeletion`: whom the two builders delete beside each other is older than this second, and there is no third to choose its name |
| `PublishedInv` | each index behind the alias can be put down to a builder of its own, which has it on its list when it is about to swap | bounds the alias by the number of builders, hence `OneLivePerBuilder` |
| `KeptInv` | (`EnoughKept`) no builder lists more old indices than are kept, so that the retention loop has nothing to delete; by `PublishedInv`, since there are no more builders | gives `NoStaleDeletion`, and `RollbackStays` |
| `LockInv` | what a builder has read is the newest state or the empty one | `PublishedIsCurrentOrEmpty`, by the lock of the open transaction |

`RebuildInv` is inductive as long as no deletion is stale (`NextRebuildInv`); each of
the two cases of `Compatible` has its reason why none is.

**`LiveIndexProofs`**, for one builder at a time (`OneBuilder`, which is
`Compatible`), run any number of times: `SoleInvariant`, `AlwaysSingleLive`
(`SingleLive`) and `ImplementsLive`, the refinement of `LiveIndex`, action by action:
the swap is its `Publish`, ingest's commits its `Commit`, and every other call a
stutter. `SoleInv` adds what nobody running beside means: the alias is still what
`get_alias()` said, the index behind it is earlier and its rows are no newer.

**`AnswerCacheProofs`**, from `LiveIndexAssumption` and `CacheAssumption`:
`CacheTypeCorrect`, `CacheInvariant`, `ReplaysAreFresh` (`NoStaleReplay`),
`LiveEntriesCorrect` (`LiveEntriesAreExact`), `CacheHoldsGenerations`
(`OnlyGeneratedCached`). `NoStaleReplay` speaks of replays only and says nothing
of how entries come about, so it is not inductive. `CacheInv` bounds every entry
and every unfinished answer from both sides: an answer for key `i` was searched in
indices from `i` on up to the live one, and its rows are no older than what `i` was
built from (`SearchedSince`, `FetchedSince`). `IndexInv` makes that durable:
an index once published keeps its name and content, and names only grow.
`RequestInv` carries the bounds from step to step. For the live index the two
bounds meet, which is `LiveEntriesAreExact`.

**`OllamaStreamProofs`**, from `TimeoutAssumption` (the timeouts are positive; the
deadline is any number, shorter than them too, or none): `StreamTypeCorrect` and
`HoldAlwaysBounded`. The bound is one read timeout after the latest line that may be
accepted (`LatestMove`), which is at the deadline, or, if the deadline is shorter than
connecting and waiting for the first line may take, at the end of those. A bound on a
call's age is not inductive, since time goes on. `AgeInv` relates the age to the present
silence: it exceeds the silence by no more than it could when the socket last
moved, which depends on the phase. A due timeout stops time, so the silence, and
with it the age, stays bounded.

**`IngestProofs`**, from `IngestAssumption`: `LinksAlwaysResolve`, `LoadedOnlyOnce`,
`LookupOnlyReads` (`FieldSpec` implements `IngestSpec`), `FieldTypeCorrect`,
`FieldsStayRight` (`FieldsRightUntilReset`), and `CompleteStaysWhole`
(`CompleteIsWhole`) for files that hold at least one document: a run that loads none
leaves tables that the next may fill without a reset. The invariant adds to `LinksResolve`
that `id_map` of a run in its passes gives exactly the rows of the table (no
document it lacks can be loaded meanwhile), that the numbers in the table are
below `nextId` and of one row each, and that a run about to load finds the table
empty. For lookups, `FoundInv` says that until the next reset every number the
index or a lookup holds is still that of its document. `WholeInv` says what the
references are while a run is in its passes: those of the passes made so far, and
none of an earlier run, since every load begins with an empty table.

**`QuestionsProofs`**, from `QuestionsAssumption` (the limits are positive, the
documents finitely many, the corpora and questions well-formed):
`QuestionsTypeCorrect`, `SourcesNamedOnce` (`SourcesOnce`), `SourcesPassedFilter`
(`SourcesPassFilter`), `NamedDocsAlwaysLead` (`NamedDocsLead`), `BothLegsAlwaysFirst`
(`BothLegsFirst`), `CountAlwaysConsistent` (`CountConsistent`),
`FilteredCountNotRefused` (`FilteredCountAnswered`) and `FieldsAlwaysAnswerAll`
(`FieldsAnswerAll`), for any documents, rankings, limits and number of commits. Each
property speaks of the finished answer, so each has an invariant of its own that
follows its matter through the request:

| Theorem | Invariant | What it adds |
|---|---|---|
| `SourcesNamedOnce` | `Distinct` | `ids`, `pinned`, `targets` and `hits` name no document twice, at any step |
| `SourcesPassedFilter` | `Filtered` | what `pinned`, `text` and `hits` hold passed in some state since the question came; `Passed` only grows, since `history` does |
| `NamedDocsAlwaysLead` | `Led` | from the pinning on, `hits` begins with `pinned` (`HitsLed`) |
| `BothLegsAlwaysFirst` | `Ordered` | behind the first `lead` hits, those of both legs come first (`Sorted`) |
| `CountAlwaysConsistent` | `Counted` | before the list is read, `counted` is that of the index it was asked of (`Tallied`) |
| `FilteredCountNotRefused` | `Refusable` | a refusal means the vector leg found nothing, hence, with the index in the pool, nothing the filter admits |
| `FieldsAlwaysAnswerAll` | `Covered` | the fields chosen cover the question's words from the decision on |

All of them lean on `Routed`, which says what `pc` tells of the answer so
far. `BothLegsAlwaysFirst` has arithmetic at its core (`TwoRanksOutweigh`,
`BothOutrank`): the worst document of both legs, last in each list, must score
more than the best of one, first in its list, which is `LegsDominate`:
`(m - 1)(n - 1) < (k + 1)^2` for lists of `m` and `n`. The theorem holds for every
setting within that bound.

**`EvaluationProofs`**, from these and `EvaluationAssumption` (what the scripts ask is
among what may be asked): `ScriptsAskQuestions`, that `EvalSpec` implements
`QuestionsSpec`, so that all of the above holds of the system the scripts drive
(`AnswersOfScripts`); `EvalTypeCorrect`; `ResultsMostlySurvive`. The
invariant `EvalInv` ties the two halves together: between two questions of a run the
endpoint is idle, an awaited answer is that of an item of the run, and every
item is one that may be asked. (A request whose script was killed goes on.) `Saved`
says what the result file holds between two saves and before one.

**`SeedProofs`**, from the same assumptions: `DeterministicAnswersAlwaysPass`
(`DeterministicAnswersPass`) and `ReferenceAlwaysReaches` (`ReferenceReachesModel`), for
any corpora, limits, rankings and number of commits. The first is about questions whose
module and status no other spelling in the tables blurs (`CaseAgrees`). Both compare two programs: the
generator's queries over the tables, and the endpoint's reads of tables and index.
The argument has three parts.

* *What is asked.* `MadeFrom` says of an item what its question is about, by type: all
  the documents that carry the code (`OfCoded`), a status and module (`OfFilter`), a
  reference of the tables and its source (`OfReference`), a dangling one
  (`OfDangling`), a document that is named (`AboutOne`). `SeedMade` proves it of every
  list `BuildEvalSeed` can give, and `RunSeeded` keeps it through the run.
* *What is answered.* `CountedOrRefused` (a counting answer with nothing to count came
  from an index with nothing the filter admits), `CodedFound` (the answer names the
  documents that carry the code), and for the prompt `AsksWhy`, `Room`, `TargetsFound`
  and, joining them, `Reached`: which rows and reference lines have been read for the
  named documents, and that a target missing from the sources was pushed out by a
  list of them that is full.
* *That they meet.* With `Current`, both parts are about one state of the tables.

Some of its lemmas are about lists of unbounded length: that the documents in the
order of a question, or of their IDs, begin with the one looked for, or that a list
cut to a length contains what a longer cut does. Where that calls for a least
position, `LeastOf` gives one; it follows from the library's theorem that every
nonempty subset of a well-founded set has a minimal element, which takes a set and
not an operator, and is used here for induction.

Two things the assumptions say for these proofs that earlier ones did not need:
hand-written questions are graded as `out_of_domain` (`run_eval_generation.py`
has no other type that the generator does not make), and a document that is
not a bug report has no status (`ingest.py:174`, which stores `NULL`).

Every invariant of the runs is a theorem, and so are all their action properties
and the refinement. Only model-checked are: the liveness properties
(`RequestsEnd`, `StreamsEnd`, `RunsEnd`), which speak of fairness and `ENABLED`; and
the counterexamples.

## Limits of the models

* Three builders at a time are too many for `--keep-previous` 0, 1 or 2: TLC finds
  `TargetsArePrivate` violated for 0 and 1 with four seconds, for 2 with five, and
  `AliasNeverDropped` for 0 and 1. One chooses a name in a second in which another
  creates, publishes and is made to delete an index of that name; then it creates its
  own, which a third still has in its `old_indices`, and deletes, live or not.
  `LiveIsComplete` and `OneLivePerBuilder` held of three that keep one. The theorems
  leave these settings out (`Compatible`). With builders at the same time the alias may
  also come to span one index for each of them (`OneLivePerBuilder`), and a query then
  find a document twice; `SingleLive` is about one builder.
* When the garbage collector closes a response that `stream_chat()` left open is not in
  the code. `OllamaStream` allows any time, and never; so it does not claim that the
  slot comes free, only that every call ends without it.
* The cache key's hash is taken to be injective.
* A client that reads slowly blocks the generator between two lines; such pauses
  are not in `OllamaStream`, whose bounds are about the calls to Ollama. Two parts
  of one line are not told apart.
* One run of `ingest.py` at a time. Postgres' own lock conflicts (a reader of several
  tables against `DROP TABLE`, or queries that queue behind a reset which waits for
  a rebuild) are not modelled beyond the lock a rebuild holds.
* `FieldLookup` publishes the rows the table has at that moment. An index of rows
  read before the load is empty and gives no number.
* `Questions` reads documents by their ID; that a reset renumbers the rows is in
  `FieldLookup`. One request at a time; the cache and the chat client are in modules
  of their own. A request that reads the tables twice in one query function reads
  one state. The error code is one, and a search's ranking is any ranking.
* A question made by `generate_eval_seed.py` is made of one state of the tables,
  although its queries are separate. Where Postgres' order is not defined (modules
  with equally many bugs) any is allowed. The substring test of
  `check_structured_filter()` may pass by chance on an answer that lists or says
  something: both outcomes are allowed there.
* `DeterministicAnswersPass` is about filter questions the harness can read back, over
  an index no larger than the pool of neighbours (150 at most), and with no other
  spelling of the module or status in the tables: the filters fold case, the `GROUP BY`
  of the generator and the `count(*)` of the checker do not. Without `CaseAgrees` TLC
  finds 'Login' and 'login' graded FAIL on a corpus that has not changed.
* The request a script's client has given up on goes on in the server; the model does
  not follow it, and it is past the cache.
* `ResultsSurvive` is about `run_holdout.py`, which saves after each item, and excepts a
  run killed between `open(..., "w")` and the end of `json.dump()`: that loses every
  result (`run_holdout.py:147-148`), although the comment above it promises that partial
  results are kept. `run_eval_generation.py` writes only at its end, and a kill loses all
  of it.
* What parsing, the regular expressions, TF-IDF, embeddings and the model's text
  come to is a constant or a nondeterministic choice.

## Not modelled

* The application's wiring, settings, `GET /search` and health checks: no state and
  single calls.
* The log (`logs/generation.jsonl`): the route and the times `run_holdout.py` copies from
  it beside its results, which nothing depends on. It takes the newest line with the
  question's text, be it of an earlier run or of a request given up on.
* The web page, but for its `no_cache`, and the wording and layout of the prompt:
  rendering.
* `run_eval.py` (recall of `GET /search` over a file), `manual_eval_log.py` (a form
  over the results): sequential scripts over files. `run_eval_generation.py` against
  `/generate` instead of the agentic endpoint.
* What the pass over similar bugs repeats: `find_duplicate_bugs()` says it skips pairs
  linked already (`ingest.py:262`) and has no code to; the model writes whatever
  each pass finds.
* Probe scripts run by hand, and the generator of synthetic data: they change nothing
  the system reads while it runs.

## What could come next

* `RoutesOf` of `AnswerCache` derived from `Questions`' rules instead of given, which
  takes both modules into one state space, larger than can be searched.
* The cache's promise to a client, that a replayed answer is one a request of now
  could get, as an abstract specification that `AnswerCache` implements.
