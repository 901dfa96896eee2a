-------------------------- MODULE AnswerCacheProofs --------------------------
(***************************************************************************)
(* Proofs about AnswerCache, for any number of clients, questions, index   *)
(* names and committed states.                                             *)
(***************************************************************************)
EXTENDS AnswerCache, TLAPS

\* The constant records the state is initialised with have the declared types
\* (NoAnswer and NoRequest, the empty Redis entry and the idle client).
LEMMA Defaults == NoAnswer \in Answer /\ NoRequest \in Request
<1>1. NoAnswer \in Answer
  BY LiveIndexAssumption DEF NoAnswer, Answer
<1>2. (CHOOSE q \in Questions : TRUE) \in Questions
  BY CacheAssumption
<1>3. QED
  BY <1>1, <1>2, LiveIndexAssumption DEF NoRequest, Request, AliasName, Routes, Steps

\* Searching, reading Postgres and generating keep an answer an answer (one call
\* of hybrid_search, of fetch_structured_fields, of stream_chat).
LEMMA AnswerUpdates ==
  ASSUME CacheTypeOK, NEW answer \in Answer
  PROVE  /\ Searched(answer) \in Answer
         /\ Fetched(answer) \in Answer
         /\ \A ending \in {"generated", "failed"} : Streamed(answer, ending) \in Answer
<1>1. Searched(answer) \in Answer
  BY DEF CacheTypeOK, Searched, Answer
<1>2. Fetched(answer) \in Answer
  BY DEF CacheTypeOK, Fetched, Answer
<1>3. ASSUME NEW ending \in {"generated", "failed"} PROVE Streamed(answer, ending) \in Answer
  BY DEF Streamed, Answer
<1>4. QED
  BY <1>1, <1>2, <1>3

\* The next state of a request is a request (the record updates of Proceed and
\* Arrive, field by field).
LEMMA RequestUpdates ==
  ASSUME NEW r \in Request, NEW answer \in Answer,
         NEW step \in Steps, NEW route \in Routes
  PROVE  /\ [r EXCEPT !.step = step] \in Request
         /\ [r EXCEPT !.step = step, !.answer = answer] \in Request
         /\ [r EXCEPT !.step = step, !.route = route] \in Request
         /\ [r EXCEPT !.step = step, !.route = route, !.answer = answer] \in Request
         /\ [r EXCEPT !.step = step, !.since = 0, !.sinceVer = 0] \in Request
<1>1. [r EXCEPT !.step = step] \in Request
  BY DEF Request
<1>2. [r EXCEPT !.step = step, !.answer = answer] \in Request
  BY DEF Request
<1>3. [r EXCEPT !.step = step, !.route = route] \in Request
  BY DEF Request
<1>4. [r EXCEPT !.step = step, !.route = route, !.answer = answer] \in Request
  BY DEF Request
<1>5. [r EXCEPT !.step = step, !.since = 0, !.sinceVer = 0] \in Request
  <2>1. 0 \in 0..MaxTime /\ 0 \in Nat
    BY LiveIndexAssumption
  <2>2. QED
    BY <2>1 DEF Request
<1>6. QED
  BY <1>1, <1>2, <1>3, <1>4, <1>5

\* A step that only changes the request of one client, to a well-typed one, keeps
\* the state typed (the OnlyRequest actions).
LEMMA RequestStepType ==
  ASSUME CacheTypeOK, NEW c \in Clients, NEW r \in Request, Becomes(c, r), OnlyRequest
  PROVE  CacheTypeOK'
  BY DEF CacheTypeOK, Becomes, OnlyRequest, ClusterUnchanged

\* Every step of a request keeps the state typed (Arrive and Proceed).
LEMMA ClientTypeStep ==
  ASSUME CacheTypeOK, NEW c \in Clients, Arrive(c) \/ Proceed(c)
  PROVE  CacheTypeOK'
<1> DEFINE a == req[c].answer
<1>1. req[c] \in Request
  BY DEF CacheTypeOK
<1>2. a \in Answer /\ req[c].route \in Routes
  BY <1>1 DEF Request
<1>3. /\ Searched(a) \in Answer /\ Fetched(a) \in Answer
      /\ \A ending \in {"generated", "failed"} : Streamed(a, ending) \in Answer
  BY <1>2, AnswerUpdates
<1>4. CASE Arrive(c)
  <2>1. PICK q \in Questions, name \in {live.index, AliasName} :
          Becomes(c, [NoRequest EXCEPT !.step = "lookup", !.question = q, !.key = name,
                                       !.since = live.index, !.sinceVer = live.ver])
    BY <1>4 DEF Arrive
  <2>2. live.index \in 0..MaxTime /\ live.ver \in Nat /\ name \in 0..MaxTime
    BY LiveIndexAssumption DEF CacheTypeOK, AliasName
  <2>3. [NoRequest EXCEPT !.step = "lookup", !.question = q, !.key = name,
                          !.since = live.index, !.sinceVer = live.ver] \in Request
    BY <2>2, Defaults DEF Request, Steps
  <2>4. QED
    BY <1>4, <2>1, <2>3, RequestStepType DEF Arrive
<1>5. CASE CacheHit(c)
  <2>1. cache[Key(c)] \in Answer
    BY <1>1 DEF Key, Request, CacheTypeOK
  <2>2. QED
    BY <1>1, <1>2, <1>5, <2>1, RequestUpdates, RequestStepType DEF CacheHit, Steps
<1>6. CASE CacheMiss(c)
  BY <1>1, <1>2, <1>6, RequestUpdates, RequestStepType DEF CacheMiss, Steps
<1>7. CASE TakeIdRoute(c) \/ TakeOtherRoute(c)
  <2>1. PICK route \in RoutesOf[req[c].question], answer \in {a, Searched(a)} :
          \/ Becomes(c, [req[c] EXCEPT !.step = AfterIds(route), !.route = route,
                                       !.answer = answer])
          \/ Becomes(c, [req[c] EXCEPT !.step = AfterIds(route), !.route = route])
    BY <1>7 DEF TakeIdRoute, TakeOtherRoute
  <2>2. route \in Routes
    BY <1>1, CacheAssumption DEF Request
  <2>3. AfterIds(route) \in Steps
    BY DEF AfterIds, Steps
  <2>4. answer \in Answer
    BY <1>2, <1>3
  <2>5. PICK r \in Request : Becomes(c, r)
    BY <1>1, <2>1, <2>2, <2>3, <2>4, RequestUpdates
  <2>6. OnlyRequest
    BY <1>7 DEF TakeIdRoute, TakeOtherRoute
  <2>7. QED
    BY <2>5, <2>6, RequestStepType
<1>8. CASE SearchBm25(c) \/ SearchKnn(c) \/ ExpandReferences(c) \/ CountAndList(c)
  <2>1. AfterSearch(req[c].route) \in Steps
    BY DEF AfterSearch, Steps
  <2>2. PICK step \in Steps, answer \in {a, Searched(a)} :
          Becomes(c, [req[c] EXCEPT !.step = step, !.answer = answer])
    BY <1>8, <2>1 DEF SearchBm25, SearchKnn, ExpandReferences, CountAndList, Steps
  <2>3. PICK r \in Request : Becomes(c, r)
    BY <1>1, <1>2, <1>3, <2>2, RequestUpdates
  <2>4. OnlyRequest
    BY <1>8 DEF SearchBm25, SearchKnn, ExpandReferences, CountAndList
  <2>5. QED
    BY <2>3, <2>4, RequestStepType
<1>9. CASE AnswerFromDatabase(c) \/ FieldRowMissing(c) \/ FetchRows(c) \/ Stream(c)
  <2>1. PICK step \in Steps, answer \in Answer :
          \/ Becomes(c, [req[c] EXCEPT !.step = step, !.answer = answer])
          \/ Becomes(c, [req[c] EXCEPT !.step = step])
    BY <1>2, <1>3, <1>9 DEF AnswerFromDatabase, FieldRowMissing, FetchRows, Stream, Steps
  <2>2. PICK r \in Request : Becomes(c, r)
    BY <1>1, <1>2, <2>1, RequestUpdates
  <2>3. OnlyRequest
    BY <1>9 DEF AnswerFromDatabase, FieldRowMissing, FetchRows, Stream
  <2>4. QED
    BY <2>2, <2>3, RequestStepType
<1>10. CASE Finish(c)
  BY <1>2, <1>10, Defaults
  DEF CacheTypeOK, Finish, EndRequest, Becomes, ClusterUnchanged
<1>11. CASE Replay(c) \/ Abandon(c)
  BY <1>11, Defaults, RequestStepType DEF Replay, Abandon, EndRequest
<1>12. QED
  BY <1>4, <1>5, <1>6, <1>7, <1>8, <1>9, <1>10, <1>11 DEF Proceed

\* Every action keeps the state typed.
LEMMA TypeStep == CacheTypeOK /\ [CacheNext]_vars => CacheTypeOK'
<1> SUFFICES ASSUME CacheTypeOK, [CacheNext]_vars PROVE CacheTypeOK'
  OBVIOUS
<1>1. CASE Ingest
  <2>1. PICK rows \in SUBSET Docs : history' = Append(history, rows)
    BY <1>1 DEF Ingest, Commit
  <2>2. history' \in Seq(SUBSET Docs) /\ Len(history') = Len(history) + 1
    BY <2>1 DEF CacheTypeOK
  <2>3. QED
    BY <1>1, <2>2 DEF CacheTypeOK, Ingest, Commit
<1>2. CASE Rebuild
  <2>1. PICK i \in 1..MaxTime, v \in 1..Len(history) :
          live' = [index |-> i, ver |-> v, rows |-> history[v]]
    BY <1>2 DEF Rebuild, Publish
  <2>2. history[v] \in SUBSET Docs
    BY <2>1 DEF CacheTypeOK
  <2>3. QED
    BY <1>2, <2>1, <2>2, LiveIndexAssumption DEF CacheTypeOK, Rebuild, Publish, Indices
<1>3. CASE Evict
  BY <1>3, Defaults DEF CacheTypeOK, Evict, ClusterUnchanged
<1>4. ASSUME NEW c \in Clients, Arrive(c) \/ Proceed(c) PROVE CacheTypeOK'
  BY <1>4, ClientTypeStep
<1>5. CASE UNCHANGED vars
  BY <1>5 DEF CacheTypeOK, vars
<1>6. QED
  BY <1>1, <1>2, <1>3, <1>4, <1>5 DEF CacheNext

\* Type correctness of the two endpoints, the cache and the cluster they read.
THEOREM CacheTypeCorrect == CacheSpec => []CacheTypeOK
<1>1. CacheInit => CacheTypeOK
  BY Defaults, LiveIndexAssumption
  DEF CacheInit, Init, NoIndex, CacheTypeOK, Indices
<1>2. QED
  BY <1>1, TypeStep, PTL DEF CacheSpec

-----------------------------------------------------------------------------
(* The inductive invariant CacheInv *)

\* What the operators on answers do to the fields the invariant is about.
LEMMA AnswerFields ==
  ASSUME NEW answer \in Answer
  PROVE  /\ Searched(answer).from = IF answer.from = 0 THEN live.index ELSE answer.from
         /\ Searched(answer).upto = live.index
         /\ Searched(answer).rows = answer.rows
         /\ Fetched(answer).from = answer.from /\ Fetched(answer).upto = answer.upto
         /\ Fetched(answer).rows = Len(history)
         /\ \A ending \in {"generated", "failed"} :
              /\ Streamed(answer, ending).from = answer.from
              /\ Streamed(answer, ending).upto = answer.upto
              /\ Streamed(answer, ending).rows = answer.rows
              /\ Streamed(answer, ending).ending = ending
<1>1. /\ Searched(answer).from = IF answer.from = 0 THEN live.index ELSE answer.from
      /\ Searched(answer).upto = live.index
      /\ Searched(answer).rows = answer.rows
  BY DEF Answer, Searched
<1>2. /\ Fetched(answer).from = answer.from /\ Fetched(answer).upto = answer.upto
      /\ Fetched(answer).rows = Len(history)
  BY DEF Answer, Fetched
<1>3. ASSUME NEW ending \in {"generated", "failed"}
      PROVE  /\ Streamed(answer, ending).from = answer.from
             /\ Streamed(answer, ending).upto = answer.upto
             /\ Streamed(answer, ending).rows = answer.rows
             /\ Streamed(answer, ending).ending = ending
  BY DEF Answer, Streamed
<1>4. QED
  BY <1>1, <1>2, <1>3

\* A search draws on the live index, so it keeps an answer no older than the key
\* (Searched at each of the calls that read the alias).
LEMMA SearchKeepsSince ==
  ASSUME CacheTypeOK, NEW answer \in Answer, NEW key \in 0..MaxTime,
         key <= live.index, live.index # 0,
         answer.from # 0 => SearchedSince(key, answer)
  PROVE  Searched(answer).from # 0 /\ SearchedSince(key, Searched(answer))
<1>1. live.index \in 0..MaxTime /\ answer.from \in 0..MaxTime /\ answer.upto \in 0..MaxTime
  BY DEF CacheTypeOK, Answer
<1>2. QED
  BY <1>1, AnswerFields DEF SearchedSince

\* Postgres is at least as new as any index (FETCH_DOCUMENTS_SQL ran before).
LEMMA FetchKeepsSince ==
  ASSUME CacheTypeOK, IndexInv, NEW answer \in Answer, NEW key \in 0..MaxTime
  PROVE  FetchedSince(key, Fetched(answer))
<1>1. Fetched(answer).rows = Len(history) /\ live.ver <= Len(history)
  BY AnswerFields DEF CacheTypeOK
<1>2. key # 0 => key \in Indices
  BY LiveIndexAssumption DEF Indices
<1>3. \A i \in Indices : built[i] <= live.ver /\ built[i] \in Nat
  BY DEF IndexInv, CacheTypeOK
<1>4. live.ver \in Nat /\ Len(history) \in Nat
  BY DEF CacheTypeOK
<1>5. QED
  BY <1>1, <1>2, <1>3, <1>4 DEF FetchedSince, AliasName

\* A step of one request preserves the invariant if it preserves that request's
\* part of it (the OnlyRequest actions).
LEMMA RequestStepInv ==
  ASSUME CacheTypeOK, CacheInv, NEW c \in Clients, NEW r, Becomes(c, r), OnlyRequest,
         req'[c] = r => RequestInv(c)'
  PROVE  CacheInv'
<1>1. req'[c] = r /\ \A d \in Clients \ {c} : req'[d] = req[d]
  BY DEF CacheTypeOK, Becomes
<1>2. UNCHANGED <<history, live, built, cache>>
  BY DEF OnlyRequest, ClusterUnchanged
<1>3. \A d \in Clients \ {c} : RequestInv(d)'
  BY <1>1, <1>2 DEF CacheInv, RequestInv, At, Generates, SearchedSince, FetchedSince
<1>4. IndexInv' /\ \A q \in Questions, i \in 0..MaxTime : EntryInv(i, cache[<<q, i>>])'
  BY <1>2 DEF CacheInv, IndexInv, EntryInv, SearchedSince, FetchedSince
<1>5. QED
  BY <1>1, <1>3, <1>4 DEF CacheInv

\* The steps of a request that read or generate preserve its part of the
\* invariant: what it retrieves from here on is no older than its key.
LEMMA ReadingStepInv ==
  ASSUME CacheTypeOK, CacheInv, NEW c \in Clients,
         \/ SearchBm25(c) \/ SearchKnn(c) \/ ExpandReferences(c) \/ CountAndList(c)
         \/ AnswerFromDatabase(c) \/ FieldRowMissing(c) \/ FetchRows(c) \/ Stream(c)
  PROVE  CacheInv'
<1> DEFINE a == req[c].answer
           k == req[c].key
<1>1. /\ req[c] \in Request /\ a \in Answer /\ k \in 0..MaxTime
      /\ RequestInv(c) /\ IndexInv /\ k <= live.index
  BY DEF CacheTypeOK, CacheInv, Request, RequestInv
<1>2. OnlyRequest /\ UNCHANGED <<live, built>>
  BY DEF SearchBm25, SearchKnn, ExpandReferences, CountAndList, AnswerFromDatabase,
         FieldRowMissing, FetchRows, Stream, OnlyRequest, ClusterUnchanged
<1>3. ASSUME NEW step \in Steps, NEW answer \in Answer,
             Becomes(c, [req[c] EXCEPT !.step = step, !.answer = answer]),
             step \notin {"ids", "lookup", "bm25", "replay"}, c \notin AgenticClients => Generates(c),
             answer.from # 0 => SearchedSince(k, answer),
             step \in {"knn", "expand", "fetch", "stream"} => answer.from # 0,
             step \in {"list", "database"} => ~Generates(c) /\ req[c].route # "field_lookup",
             step = "stream" => FetchedSince(k, answer),
             step = "finish" /\ Generates(c) =>
               answer.from # 0 /\ FetchedSince(k, answer) /\ answer.ending # "none"
      PROVE  CacheInv'
  <2> DEFINE r == [req[c] EXCEPT !.step = step, !.answer = answer]
  <2>1. /\ r.step = step /\ r.answer = answer
        /\ r.key = req[c].key /\ r.route = req[c].route
    BY <1>1 DEF Request
  <2>2. req'[c] = r => RequestInv(c)'
    BY <1>1, <1>2, <1>3, <2>1
    DEF RequestInv, At, Generates, SearchedSince, FetchedSince
  <2>3. QED
    BY <1>2, <1>3, <2>2, RequestStepInv
<1>4. a.from # 0 => SearchedSince(k, a)
  BY <1>1 DEF RequestInv, At, SearchBm25, SearchKnn, ExpandReferences, CountAndList,
              AnswerFromDatabase, FieldRowMissing, FetchRows, Stream
<1>5. live.index # 0 => Searched(a).from # 0 /\ SearchedSince(k, Searched(a))
  BY <1>1, <1>4, SearchKeepsSince
<1>6. a.from # 0 => live.index # 0
  BY <1>1, <1>4 DEF SearchedSince, CacheTypeOK, Answer
<1>7. FetchedSince(k, Fetched(a))
  BY <1>1, FetchKeepsSince
<1>8. /\ Searched(a) \in Answer /\ Fetched(a) \in Answer
      /\ \A ending \in {"generated", "failed"} : Streamed(a, ending) \in Answer
  BY <1>1, AnswerUpdates
<1>9. CASE SearchBm25(c)
  BY <1>1, <1>3, <1>5, <1>8, <1>9 DEF SearchBm25, RequestInv, Steps
<1>10. CASE SearchKnn(c)
  <2>1. live.index # 0
    BY <1>1, <1>6, <1>10 DEF SearchKnn, RequestInv, At
  <2>2. CASE req[c].route = "pinned"
    BY <1>1, <1>3, <1>5, <1>8, <1>10, <2>1, <2>2
    DEF SearchKnn, AfterSearch, RequestInv, Generates, Steps
  <2>3. CASE req[c].route \in {"off_topic", "deterministic"}
    BY <1>1, <1>3, <1>5, <1>8, <1>10, <2>1, <2>3
    DEF SearchKnn, AfterSearch, RequestInv, Generates, Steps
  <2>4. CASE req[c].route \notin {"pinned", "off_topic", "deterministic"}
    BY <1>1, <1>3, <1>5, <1>8, <1>10, <2>1, <2>4
    DEF SearchKnn, AfterSearch, RequestInv, Steps
  <2>5. QED
    BY <2>2, <2>3, <2>4
<1>11. CASE ExpandReferences(c)
  <2>1. a.from # 0
    BY <1>1, <1>11 DEF ExpandReferences, RequestInv, At
  <2>2. PICK answer \in {a, Searched(a)} :
          Becomes(c, [req[c] EXCEPT !.step = "fetch", !.answer = answer])
    BY <1>11 DEF ExpandReferences
  <2>3. QED
    BY <1>1, <1>3, <1>4, <1>5, <1>6, <1>8, <2>1, <2>2 DEF RequestInv, Steps
<1>12. CASE CountAndList(c)
  <2>1. ~Generates(c)
    BY <1>1, <1>12 DEF CountAndList, RequestInv, At
  <2>2. Searched(a).from # 0 => SearchedSince(k, Searched(a))
    BY <1>1, <1>5, <1>6, AnswerFields
  <2>3. QED
    BY <1>1, <1>3, <1>8, <1>12, <2>1, <2>2 DEF CountAndList, RequestInv, Steps
<1>13. CASE AnswerFromDatabase(c)
  <2>1. ~Generates(c)
    BY <1>1, <1>13 DEF AnswerFromDatabase, RequestInv, At
  <2>2. Fetched(a).from # 0 => SearchedSince(k, Fetched(a))
    BY <1>1, <1>4, AnswerFields DEF SearchedSince
  <2>3. QED
    BY <1>1, <1>3, <1>8, <1>13, <2>1, <2>2 DEF AnswerFromDatabase, RequestInv, Steps
<1>14. CASE FieldRowMissing(c)
  <2>1. a.from # 0
    BY <1>1, <1>14 DEF FieldRowMissing, RequestInv, At
  <2>2. [req[c] EXCEPT !.step = "fetch"] = [req[c] EXCEPT !.step = "fetch", !.answer = a]
    BY <1>1 DEF Request
  <2>3. QED
    BY <1>1, <1>3, <1>4, <1>14, <2>1, <2>2 DEF FieldRowMissing, RequestInv, Steps
<1>15. CASE FetchRows(c)
  <2>1. Fetched(a).from # 0 /\ SearchedSince(k, Fetched(a))
    BY <1>1, <1>4, <1>15, AnswerFields DEF FetchRows, RequestInv, SearchedSince, At
  <2>2. QED
    BY <1>1, <1>3, <1>7, <1>8, <1>15, <2>1 DEF FetchRows, RequestInv, Steps
<1>16. CASE Stream(c)
  <2>1. PICK ending \in {"generated", "failed"} :
          Becomes(c, [req[c] EXCEPT !.step = "finish", !.answer = Streamed(a, ending)])
    BY <1>16 DEF Stream
  <2>2. a.from # 0 /\ FetchedSince(k, a)
    BY <1>1, <1>16 DEF Stream, RequestInv, At
  <2>3. /\ Streamed(a, ending).from # 0 /\ SearchedSince(k, Streamed(a, ending))
        /\ FetchedSince(k, Streamed(a, ending)) /\ Streamed(a, ending).ending # "none"
    BY <1>1, <1>4, <2>2, AnswerFields DEF SearchedSince, FetchedSince
  <2>4. QED
    BY <1>1, <1>3, <1>8, <2>1, <2>3 DEF RequestInv, Steps
<1>17. QED
  BY <1>9, <1>10, <1>11, <1>12, <1>13, <1>14, <1>15, <1>16

\* So do the steps that start a request, look in the cache, route and end.
LEMMA OtherStepInv ==
  ASSUME CacheTypeOK, CacheInv, NEW c \in Clients,
         \/ Arrive(c) \/ CacheHit(c) \/ CacheMiss(c)
         \/ TakeIdRoute(c) \/ TakeOtherRoute(c) \/ Replay(c) \/ Abandon(c)
  PROVE  CacheInv'
<1> DEFINE a == req[c].answer
           k == req[c].key
<1>1. /\ req[c] \in Request /\ a \in Answer /\ k \in 0..MaxTime
      /\ RequestInv(c) /\ IndexInv /\ k <= live.index
  BY DEF CacheTypeOK, CacheInv, Request, RequestInv
<1>2. OnlyRequest /\ UNCHANGED <<live, built, cache>>
  BY DEF Arrive, CacheHit, CacheMiss, TakeIdRoute, TakeOtherRoute, Replay, Abandon,
         OnlyRequest, ClusterUnchanged
<1>3. /\ NoRequest.step = "idle" /\ NoRequest.key = 0 /\ NoRequest.route = "semantic"
      /\ NoRequest.answer = NoAnswer /\ NoAnswer.from = 0 /\ live.index \in 0..MaxTime
  BY DEF NoRequest, NoAnswer, AliasName, CacheTypeOK
<1>4. CASE Arrive(c)
  <2>1. PICK q \in Questions, name \in {live.index, AliasName} :
          Becomes(c, [NoRequest EXCEPT !.step = "lookup", !.question = q, !.key = name,
                                       !.since = live.index, !.sinceVer = live.ver])
    BY <1>4 DEF Arrive
  <2> DEFINE r == [NoRequest EXCEPT !.step = "lookup", !.question = q, !.key = name,
                                    !.since = live.index, !.sinceVer = live.ver]
  <2>2. /\ r.step = "lookup" /\ r.key = name /\ r.since = live.index
        /\ r.sinceVer = live.ver /\ r.route = "semantic" /\ r.answer = NoAnswer
    BY <1>3 DEF NoRequest
  <2>3. req'[c] = r => RequestInv(c)'
    BY <1>1, <1>2, <1>3, <2>2 DEF RequestInv, At, Generates, IndexInv, AliasName
  <2>4. QED
    BY <1>2, <2>1, <2>3, RequestStepInv
<1>5. CASE CacheHit(c)
  <2> DEFINE entry == cache[Key(c)]
             r == [req[c] EXCEPT !.step = "replay", !.answer = entry]
  <2>1. EntryInv(k, entry) /\ entry # NoAnswer /\ entry \in Answer
    BY <1>1, <1>5 DEF CacheHit, CacheInv, Key, Request, CacheTypeOK
  <2>2. k # 0 => k \in Indices /\ built[k] \in Nat
    BY <1>1, LiveIndexAssumption DEF CacheTypeOK, Indices
  <2>3. /\ r.step = "replay" /\ r.answer = entry /\ r.key = k /\ r.route = req[c].route
        /\ r.since = req[c].since /\ r.sinceVer = req[c].sinceVer
    BY <1>1 DEF Request
  <2>4. k # 0 => entry.from >= req[c].since /\ entry.rows >= req[c].sinceVer
    BY <1>1, <1>5, <2>1, <2>2
    DEF CacheHit, RequestInv, At, EntryInv, SearchedSince, FetchedSince, AliasName, Answer
  <2>5. req'[c] = r => RequestInv(c)'
    BY <1>1, <1>2, <2>3, <2>4 DEF RequestInv, At, Generates, AliasName
  <2>6. QED
    BY <1>2, <1>5, <2>5, RequestStepInv DEF CacheHit
<1>6. CASE CacheMiss(c)
  <2> DEFINE r == [req[c] EXCEPT !.step = IF c \in AgenticClients THEN "ids" ELSE "bm25",
                                 !.since = 0, !.sinceVer = 0]
  <2>1. /\ r.step = IF c \in AgenticClients THEN "ids" ELSE "bm25"
        /\ r.key = k /\ r.route = req[c].route /\ r.answer = a
    BY <1>1 DEF Request
  <2>2. a = NoAnswer
    BY <1>1, <1>6 DEF CacheMiss, RequestInv, At
  <2>3. req'[c] = r => RequestInv(c)'
    BY <1>1, <1>2, <1>3, <2>1, <2>2 DEF RequestInv, At, Generates
  <2>4. QED
    BY <1>2, <1>6, <2>3, RequestStepInv DEF CacheMiss
<1>7. CASE TakeIdRoute(c) \/ TakeOtherRoute(c)
  <2>1. c \in AgenticClients /\ At(c, "ids")
    BY <1>1, <1>7 DEF TakeIdRoute, TakeOtherRoute, RequestInv
  <2>2. [req[c] EXCEPT !.answer = a] = req[c]
    BY <1>1 DEF Request
  <2>3. ASSUME NEW route \in Routes, NEW answer,
               Becomes(c, [req[c] EXCEPT !.step = AfterIds(route), !.route = route,
                                         !.answer = answer]),
               answer = a \/ (answer = Searched(a) /\ live.index # 0),
               route = "field_lookup" => answer = Searched(a) /\ live.index # 0
        PROVE  CacheInv'
    <3> DEFINE r == [req[c] EXCEPT !.step = AfterIds(route), !.route = route,
                                   !.answer = answer]
    <3>1. /\ r.step = AfterIds(route) /\ r.answer = answer /\ r.key = k /\ r.route = route
      BY <1>1 DEF Request
    <3>2. /\ AfterIds(route) = "finish" => route = "unknown_id"
          /\ AfterIds(route) = "database" => route \in {"field_lookup", "error_code"}
          /\ AfterIds(route) \in {"finish", "database", "bm25"}
      BY DEF AfterIds
    <3>3. a.from # 0 => SearchedSince(k, a)
      BY <1>1, <2>1 DEF RequestInv, At
    <3>4. /\ answer.from # 0 => SearchedSince(k, answer)
          /\ answer.from = 0 => answer = a /\ a = NoAnswer
          /\ route = "field_lookup" => answer.from # 0
      BY <1>1, <2>1, <2>3, <3>3, SearchKeepsSince DEF RequestInv, At
    <3>5. req'[c] = r => RequestInv(c)'
      BY <1>1, <1>2, <2>1, <3>1, <3>2, <3>4
      DEF RequestInv, At, Generates, SearchedSince
    <3>6. QED
      BY <1>2, <2>3, <3>5, RequestStepInv
  <2>4. ASSUME NEW route PROVE
          [req[c] EXCEPT !.step = AfterIds(route), !.route = route, !.answer = a]
            = [req[c] EXCEPT !.step = AfterIds(route), !.route = route]
    BY <1>1 DEF Request
  <2>5. RoutesOf[req[c].question] \subseteq Routes
    BY <1>1, CacheAssumption DEF Request
  <2>6. CASE TakeIdRoute(c)
    <3>1. PICK route \in RoutesOf[req[c].question] \cap {"unknown_id", "pinned", "field_lookup"} :
            /\ live.index # 0
            /\ Becomes(c, [req[c] EXCEPT !.step = AfterIds(route), !.route = route,
                 !.answer = IF route = "unknown_id" THEN a ELSE Searched(a)])
      BY <2>6 DEF TakeIdRoute
    <3>2. QED
      BY <2>3, <2>5, <3>1
  <2>7. CASE TakeOtherRoute(c)
    <3>1. PICK route \in RoutesOf[req[c].question]
                           \cap {"error_code", "off_topic", "deterministic", "semantic"} :
            Becomes(c, [req[c] EXCEPT !.step = AfterIds(route), !.route = route])
      BY <2>7 DEF TakeOtherRoute
    <3>2. route \in Routes /\ route # "field_lookup"
      BY <2>5, <3>1
    <3>3. Becomes(c, [req[c] EXCEPT !.step = AfterIds(route), !.route = route, !.answer = a])
      BY <2>4, <3>1
    <3>4. QED
      BY <2>3, <3>2, <3>3
  <2>8. QED
    BY <1>7, <2>6, <2>7
<1>8. CASE Replay(c) \/ Abandon(c)
  <2>1. Becomes(c, NoRequest)
    BY <1>8 DEF Replay, Abandon, EndRequest
  <2>2. req'[c] = NoRequest => RequestInv(c)'
    BY <1>1, <1>2, <1>3 DEF RequestInv, At, Generates
  <2>3. QED
    BY <1>2, <2>1, <2>2, RequestStepInv
<1>10. QED
  BY <1>4, <1>5, <1>6, <1>7, <1>8

\* finish() and the end of event_stream() put only good entries in the cache.
LEMMA FinishInv ==
  ASSUME CacheTypeOK, CacheInv, NEW c \in Clients, Finish(c)
  PROVE  CacheInv'
<1> DEFINE a == req[c].answer
           k == req[c].key
<1>1. /\ req[c] \in Request /\ a \in Answer /\ k \in 0..MaxTime
      /\ RequestInv(c) /\ IndexInv /\ k <= live.index
  BY DEF CacheTypeOK, CacheInv, Request, RequestInv
<1>2. UNCHANGED <<history, live, built>> /\ Becomes(c, NoRequest) /\ At(c, "finish")
  BY DEF Finish, ClusterUnchanged, EndRequest
<1>3. Cacheable(c) => EntryInv(k, a)
  <2>1. Cacheable(c) => Generates(c) /\ a.ending # "failed"
    BY <1>1 DEF Cacheable, RequestInv, Generates
  <2>2. a.ending \in {"none", "generated", "failed"}
    BY <1>1 DEF Answer
  <2>3. QED
    BY <1>1, <1>2, <2>1, <2>2 DEF RequestInv, EntryInv, At
<1>4. \A q \in Questions, i \in 0..MaxTime : EntryInv(i, cache[<<q, i>>])'
  <2>1. SUFFICES ASSUME NEW q \in Questions, NEW i \in 0..MaxTime
                 PROVE  EntryInv(i, cache'[<<q, i>>])
    BY <1>2 DEF EntryInv, SearchedSince, FetchedSince
  <2>2. EntryInv(i, cache[<<q, i>>])
    BY DEF CacheInv
  <2>3. CASE UNCHANGED cache
    BY <2>2, <2>3
  <2>4. CASE Cacheable(c) /\ cache' = [cache EXCEPT ![Key(c)] = a]
    <3>1. <<q, i>> \in DOMAIN cache
      BY DEF CacheTypeOK
    <3>2. CASE <<q, i>> = Key(c)
      BY <1>3, <2>4, <3>1, <3>2 DEF Key
    <3>3. CASE <<q, i>> # Key(c)
      BY <2>2, <2>4, <3>1, <3>3
    <3>4. QED
      BY <3>2, <3>3
  <2>5. QED
    BY <2>3, <2>4 DEF Finish
<1>5. /\ NoRequest.step = "idle" /\ NoRequest.key = 0 /\ NoRequest.route = "semantic"
      /\ NoRequest.answer = NoAnswer /\ NoAnswer.from = 0 /\ live.index \in 0..MaxTime
  BY DEF NoRequest, NoAnswer, AliasName, CacheTypeOK
<1>6. ASSUME NEW d \in Clients PROVE RequestInv(d)'
  <2>1. CASE d = c
    <3>1. req'[d] = NoRequest
      BY <1>2, <2>1 DEF Becomes, CacheTypeOK
    <3>2. QED
      BY <1>2, <1>5, <3>1 DEF RequestInv, At, Generates
  <2>2. CASE d # c
    <3>1. req'[d] = req[d]
      BY <1>2, <2>2 DEF Becomes, CacheTypeOK
    <3>2. QED
      BY <1>2, <3>1 DEF CacheInv, RequestInv, At, Generates, SearchedSince, FetchedSince
  <2>3. QED
    BY <2>1, <2>2
<1>7. QED
  BY <1>1, <1>2, <1>4, <1>6 DEF CacheInv, IndexInv

\* A rebuild makes nothing older: keys, entries and outstanding answers keep
\* their relation to the indices (the alias swap, seen by the readers).
LEMMA RebuildInv == CacheTypeOK /\ CacheInv /\ Rebuild => CacheInv'
<1> SUFFICES ASSUME CacheTypeOK, CacheInv, Rebuild PROVE CacheInv'
  OBVIOUS
<1>1. PICK i \in 1..MaxTime, v \in 1..Len(history) :
        /\ i > live.index /\ v >= live.ver
        /\ live' = [index |-> i, ver |-> v, rows |-> history[v]]
  BY DEF Rebuild, Publish
<1>2. /\ live'.index = i /\ live'.ver = v /\ built' = [built EXCEPT ![i] = v]
      /\ UNCHANGED <<history, cache, req>>
  BY <1>1 DEF Rebuild, Publish
<1>3. /\ live.index \in 0..MaxTime /\ live.ver \in Nat /\ built \in [Indices -> Nat]
      /\ i \in Indices /\ i \in Nat /\ v \in Nat /\ IndexInv
  BY <1>1 DEF CacheTypeOK, Indices, CacheInv
<1>4. IndexInv'
  BY <1>1, <1>2, <1>3 DEF IndexInv
<1>5. \A key \in 0..MaxTime : key <= live.index /\ key # 0 => built'[key] = built[key]
  BY <1>1, <1>2, <1>3, LiveIndexAssumption DEF Indices
<1>6. ASSUME NEW answer \in Answer, NEW key \in 0..MaxTime, key <= live.index
      PROVE  /\ SearchedSince(key, answer) => SearchedSince(key, answer)'
             /\ FetchedSince(key, answer) <=> FetchedSince(key, answer)'
             /\ key <= live'.index
  BY <1>1, <1>2, <1>3, <1>5, <1>6 DEF SearchedSince, FetchedSince, AliasName, Answer
<1>7. ASSUME NEW q \in Questions, NEW key \in 0..MaxTime
      PROVE  EntryInv(key, cache[<<q, key>>])'
  <2>1. cache[<<q, key>>] \in Answer /\ EntryInv(key, cache[<<q, key>>])
    BY DEF CacheTypeOK, CacheInv
  <2>2. QED
    BY <1>2, <1>6, <2>1 DEF EntryInv, SearchedSince, FetchedSince
<1>8. ASSUME NEW c \in Clients PROVE RequestInv(c)'
  <2>1. /\ req[c].answer \in Answer /\ req[c].key \in 0..MaxTime
        /\ RequestInv(c) /\ req[c].key <= live.index
    BY DEF CacheTypeOK, CacheInv, RequestInv, Request
  <2>2. /\ SearchedSince(req[c].key, req[c].answer) =>
               SearchedSince(req[c].key, req[c].answer)'
        /\ FetchedSince(req[c].key, req[c].answer) =>
               FetchedSince(req[c].key, req[c].answer)'
        /\ req[c].key <= live'.index
        /\ req[c].key # 0 => built'[req[c].key] = built[req[c].key]
    BY <1>2, <1>5, <1>6, <2>1 DEF SearchedSince, FetchedSince
  <2>3. QED
    BY <1>2, <2>1, <2>2 DEF RequestInv, At, Generates, AliasName
<1>9. QED
  BY <1>4, <1>7, <1>8 DEF CacheInv

\* CacheInv is inductive, relative to the types.
LEMMA InvStep == CacheTypeOK /\ CacheInv /\ [CacheNext]_vars => CacheInv'
<1> SUFFICES ASSUME CacheTypeOK, CacheInv, [CacheNext]_vars PROVE CacheInv'
  OBVIOUS
<1>1. CASE Ingest
  BY <1>1
  DEF Ingest, Commit, CacheInv, IndexInv, EntryInv, RequestInv, At, Generates,
      SearchedSince, FetchedSince
<1>2. CASE Rebuild
  BY <1>2, RebuildInv
<1>3. CASE Evict
  <2>1. UNCHANGED <<live, built, req>>
    BY <1>3 DEF Evict, ClusterUnchanged
  <2>2. ASSUME NEW q \in Questions, NEW i \in 0..MaxTime
        PROVE  EntryInv(i, cache[<<q, i>>])'
    <3>1. EntryInv(i, cache[<<q, i>>])
      BY DEF CacheInv
    <3>2. cache'[<<q, i>>] \in {cache[<<q, i>>], NoAnswer}
      BY <1>3 DEF Evict, CacheTypeOK
    <3>3. QED
      BY <2>1, <3>1, <3>2 DEF EntryInv, SearchedSince, FetchedSince
  <2>3. QED
    BY <2>1, <2>2
    DEF CacheInv, IndexInv, RequestInv, At, Generates, SearchedSince, FetchedSince
<1>4. ASSUME NEW c \in Clients, Arrive(c) \/ Proceed(c) PROVE CacheInv'
  BY <1>4, ReadingStepInv, OtherStepInv, FinishInv DEF Proceed
<1>5. CASE UNCHANGED vars
  BY <1>5
  DEF vars, CacheInv, IndexInv, EntryInv, RequestInv, At, Generates, SearchedSince,
      FetchedSince
<1>6. QED
  BY <1>1, <1>2, <1>3, <1>4, <1>5 DEF CacheNext

\* The invariant behind the cache's promises.
THEOREM CacheInvariant == CacheSpec => [](CacheTypeOK /\ CacheInv)
<1>1. CacheInit => CacheTypeOK /\ CacheInv
  <2>1. CacheInit => CacheTypeOK
    BY Defaults, LiveIndexAssumption
    DEF CacheInit, Init, NoIndex, CacheTypeOK, Indices
  <2>2. ASSUME CacheInit PROVE CacheInv
    <3>1. live.index = 0 /\ live.ver = 0 /\ \A i \in Indices : built[i] = 0
      BY <2>2 DEF CacheInit, Init, NoIndex
    <3>2. \A q \in Questions, i \in 0..MaxTime : cache[<<q, i>>] = NoAnswer
      BY <2>2 DEF CacheInit
    <3>3. \A c \in Clients : req[c] = NoRequest
      BY <2>2 DEF CacheInit
    <3>4. /\ NoRequest.step = "idle" /\ NoRequest.key = 0 /\ NoRequest.route = "semantic"
          /\ NoRequest.answer = NoAnswer /\ NoAnswer.from = 0
      BY DEF NoRequest, NoAnswer, AliasName
    <3>5. IndexInv /\ \A q \in Questions, i \in 0..MaxTime : EntryInv(i, cache[<<q, i>>])
      BY <3>1, <3>2 DEF IndexInv, EntryInv
    <3>6. \A c \in Clients : RequestInv(c)
      BY <3>1, <3>3, <3>4 DEF RequestInv, At, Generates
    <3>7. QED
      BY <3>5, <3>6 DEF CacheInv
  <2>3. QED
    BY <2>1, <2>2
<1>2. QED
  BY <1>1, TypeStep, InvStep, PTL DEF CacheSpec

-----------------------------------------------------------------------------
(* What it means for whoever asks *)

\* No replayed answer is older than the index whose name the request got, however
\* requests, rebuilds, reloads and evictions interleave (cache.py:19-21).
THEOREM ReplaysAreFresh == CacheSpec => []NoStaleReplay
<1>1. CacheInv => NoStaleReplay
  BY DEF CacheInv, RequestInv, NoStaleReplay
<1>2. QED
  BY <1>1, CacheInvariant, PTL

\* An entry under the name of the live index was retrieved from that index alone,
\* never across an alias swap (cache.py:84-96, hybrid_search's two searches).
THEOREM LiveEntriesCorrect == CacheSpec => []LiveEntriesAreExact
<1>1. ASSUME CacheTypeOK, CacheInv PROVE LiveEntriesAreExact
  <2>1. SUFFICES ASSUME NEW q \in Questions, live.index # 0, cache[<<q, live.index>>] # NoAnswer
                 PROVE  /\ cache[<<q, live.index>>].from = live.index
                        /\ cache[<<q, live.index>>].upto = live.index
    BY DEF LiveEntriesAreExact
  <2>2. live.index \in 0..MaxTime /\ cache[<<q, live.index>>] \in Answer
    BY <1>1 DEF CacheTypeOK
  <2>3. SearchedSince(live.index, cache[<<q, live.index>>])
    BY <1>1, <2>1, <2>2 DEF CacheInv, EntryInv
  <2>4. QED
    BY <2>2, <2>3 DEF SearchedSince, Answer
<1>2. QED
  BY <1>1, CacheInvariant, PTL

\* Only text a completed generation produced ever gets into the cache: no apology,
\* rejection, looked-up field or count (generate_agentic.py:66-75).
THEOREM CacheHoldsGenerations == CacheSpec => []OnlyGeneratedCached
<1>1. CacheTypeOK /\ CacheInv => OnlyGeneratedCached
  BY DEF CacheTypeOK, CacheInv, EntryInv, OnlyGeneratedCached
<1>2. QED
  BY <1>1, CacheInvariant, PTL
=============================================================================
