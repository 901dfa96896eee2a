------------------------------ MODULE Questions ------------------------------
(***************************************************************************)
(* One question at POST /generate/agentic, from its text to its answer     *)
(* (guardrail_and_route() and the node it routes to). Every read of the    *)
(* index or of Postgres is a step of its own: `ingest.py` may commit and a *)
(* rebuild may move the alias between any two of them.                     *)
(*                                                                         *)
(* Left out: the cache (AnswerCache has it), the chat client (OllamaStream *)
(* has it), and that a reset renumbers rows (FieldLookup has it): here a   *)
(* document is read from Postgres by its ID. Texts are abstracted to what  *)
(* the patterns find in them, scores to the order they put hits in.        *)
(***************************************************************************)
EXTENDS Naturals, Sequences, FiniteSets, Functions

CONSTANTS
  Fold(_),        \* a module, status or type in lower case
  Docs,           \* documents, by external_id
  IdOrder,        \* them all, ordered by external_id
  Corpora,        \* what Postgres may hold: [docs, refs, coded], see below
  Asked,          \* the questions anyone may ask
  Replies,        \* what the model may answer: the documents it mentions and
                  \* the phrases it uses
  RetrievalSize,  \* settings.retrieval_size
  Oversample,     \* how many times as many neighbours are asked for (10)
  MaxNeighbours,  \* and at most how many (150)
  RrfK,           \* the constant of reciprocal rank fusion (60)
  ContextTopN,    \* settings.context_top_n
  MaxExpansion,   \* MAX_REFERENCE_EXPANSION (3)
  MaxIds,         \* MAX_IDS (10)
  MaxListed,      \* MAX_LISTED_IDS (100)
  MaxCommits      \* bound: committed states of the tables

RefTypes == {"test_case_citation", "duplicate_of", "related_to"}
FilterKeys == {"doc_type", "module", "status"}
Words == {"steps", "reproduce", "description", "preconditions", "expected result",
          "status", "module"}

\* Corpus: the documents' attributes, the references (whose target may not be
\* among the documents) and the documents that carry the error code. Question:
\* the IDs in its text, whether it asks which documents carry the error code,
\* whether it counts or lists, the field words in it, whether it needs reasoning,
\* and the explicit filters sent with it.
ASSUME QuestionsAssumption ==
  /\ IsFiniteSet(Docs)
  /\ IdOrder \in Seq(Docs) /\ Range(IdOrder) = Docs /\ IsInjective(IdOrder)
  /\ \A c \in Corpora :
       /\ DOMAIN c.docs \subseteq Docs /\ c.coded \subseteq DOMAIN c.docs
       /\ \A d \in DOMAIN c.docs : FilterKeys \subseteq DOMAIN c.docs[d]
       /\ c.refs \subseteq (DOMAIN c.docs) \X Docs \X RefTypes
  /\ Asked # {}
  /\ \A q \in Asked :
       /\ q.mentions \in Seq(Docs) /\ q.words \subseteq Words
       /\ DOMAIN q.filter \subseteq FilterKeys
       /\ {q.code, q.counts, q.reasons} \subseteq BOOLEAN
  /\ \A r \in Replies : r.mentions \subseteq Docs
  /\ {RetrievalSize, Oversample, MaxNeighbours, ContextTopN, MaxExpansion,
      MaxIds, MaxListed, MaxCommits} \subseteq Nat \ {0}
  /\ RrfK \in Nat

VARIABLES
  history,   \* the committed states of Postgres, oldest first
  live,      \* which of them the live index was built from
  pc,        \* what the request does next
  question,
  ids,       \* question_ids
  asOf,      \* the live index when the question came in
  pinned,    \* the named documents found that pass the filters, in question order
  text,      \* hits of the BM25 leg
  hits,      \* the documents the answer will rest on, best first
  lead,      \* how many of them were put in front of the fused ones
  both,      \* the hits both legs found
  targets,   \* fetch_reference_targets(): the documents to add
  counted,   \* count_documents()
  rows,      \* documents of the context whose fields Postgres had
  lines,     \* the recorded references the answer or the prompt states
  answer

corpusVars == <<history, live>>
requestVars == <<pc, question, ids, asOf, pinned, text, hits, lead, both, targets,
                 counted, rows, lines, answer>>
questionsVars == <<corpusVars, requestVars>>

Db == history[Len(history)]
Index == history[live]

-----------------------------------------------------------------------------
Least(m, n) == IF m <= n THEN m ELSE n
Take(s, n) == SubSeq(s, 1, Least(n, Len(s)))

\* The sequences that hold each member of D once.
Orders(D) == {s \in [1..Cardinality(D) -> D] : IsInjective(s)}
Rankings == UNION {Orders(D) : D \in SUBSET Docs}

\* s lists its members in the order old has them in.
Follows(s, old) ==
  \A i, j \in DOMAIN s : i < j =>
    \E k, l \in DOMAIN old : k < l /\ old[k] = s[i] /\ old[l] = s[j]

\* The members of old that are in D, in their order.
Kept(old, D) == {s \in Orders(Range(old) \cap D) : Follows(s, old)}

\* Mutant of Fronted: what is put in front also stays where it was.
FrontedTwice(front, old) == {front \o old}

\* The documents of front, then the others of old in their order.
Fronted(front, old) == {front \o rest : rest \in Kept(old, Docs \ Range(front))}

\* Filters match whatever the case: the index's normalizer, build_filters(),
\* passes_filters() and _passes() put both sides in lower case.
Passes(attributes, filter) ==
  \A key \in DOMAIN filter : Fold(attributes[key]) = Fold(filter[key])
Admitted(corpus, filter) == {d \in DOMAIN corpus.docs : Passes(corpus.docs[d], filter)}

\* extract_document_ids(): each ID once, by first appearance, at most MaxIds.
FirstAt(s, d) == CHOOSE i \in DOMAIN s : s[i] = d /\ \A j \in 1..(i - 1) : s[j] # d
ExtractIds(mentions) ==
  {Take(s, MaxIds) : s \in {o \in Orders(Range(mentions)) :
     \A i, j \in DOMAIN o : i < j => FirstAt(mentions, o[i]) < FirstAt(mentions, o[j])}}

-----------------------------------------------------------------------------
\* The words each field's pattern looks for, and the document type that has it.
Pattern ==
  [steps_to_reproduce |-> {"steps", "reproduce"}, description |-> {"description"},
   preconditions |-> {"preconditions"}, steps |-> {"steps"},
   expected_result |-> {"expected result"}, status |-> {"status"}, module |-> {"module"}]
OwnedBy(type) ==
  {"status", "module"} \cup IF type = "bug_report"
                            THEN {"steps_to_reproduce", "description"}
                            ELSE {"preconditions", "steps", "expected_result"}

\* Mutant of RequestedFields: the fields of the other type are passed over.
RequestedFieldsForgiving(q, type) ==
  LET asked == {f \in DOMAIN Pattern : Pattern[f] \cap q.words # {}}
  IN IF q.reasons THEN {} ELSE asked \cap OwnedBy(type)

\* requested_fields(): none unless the fields asked for are all the document's;
\* "steps" alone is a word for either type's.
RequestedFields(q, type) ==
  LET asked == {f \in DOMAIN Pattern : Pattern[f] \cap q.words # {}}
      shared == {"steps"} \cup
                (IF "reproduce" \in q.words THEN {} ELSE {"steps_to_reproduce"})
  IN IF q.reasons \/ ~(asked \subseteq OwnedBy(type) \cup shared)
     THEN {} ELSE asked \cap OwnedBy(type)

-----------------------------------------------------------------------------
\* Mutant of KnnPool: as many neighbours as hits are wanted.
KnnPoolTight == RetrievalSize

\* hybrid_search() asks for more neighbours than hits: the filters come after.
KnnPool == Least(RetrievalSize * Oversample, MaxNeighbours)

\* The documents nearest to the question, in any order of nearness.
Nearest(docs) ==
  UNION {Orders(D) : D \in {N \in SUBSET docs :
           Cardinality(N) = Least(KnnPool, Cardinality(docs))}}

Rank(s, d) == CHOOSE i \in DOMAIN s : s[i] = d

\* Mutant of RrfScore: the vector leg's share replaces the text leg's.
RrfScoreLast(t, v, d) ==
  LET x == RrfK + Rank(t, d)
      y == RrfK + Rank(v, d)
  IN IF d \in Range(v) THEN <<1, y>> ELSE <<1, x>>

\* The sum of a document's reciprocal ranks, as a numerator and a denominator.
RrfScore(t, v, d) ==
  LET x == RrfK + Rank(t, d)
      y == RrfK + Rank(v, d)
  IN IF d \notin Range(v) THEN <<1, x>>
     ELSE IF d \notin Range(t) THEN <<1, y>> ELSE <<x + y, x * y>>

\* Whether d goes before e: by score; on a tie, as they were collected (the sort
\* is stable): the text leg's documents, then those only the vector leg found.
Outranks(t, v, d, e) ==
  LET p == RrfScore(t, v, d)
      q == RrfScore(t, v, e)
  IN \/ p[1] * q[2] > q[1] * p[2]
     \/ /\ p[1] * q[2] = q[1] * p[2]
        /\ IF e \in Range(t) THEN d \in Range(t) /\ Rank(t, d) < Rank(t, e)
           ELSE d \in Range(t) \/ Rank(v, d) < Rank(v, e)

\* reciprocal_rank_fusion(): the documents of both legs (there is one such order).
ReciprocalRankFusion(t, v) ==
  {s \in Orders(Range(t) \cup Range(v)) :
     \A i, j \in DOMAIN s : i < j => Outranks(t, v, s[i], s[j])}
Fused == [p \in Rankings \X Rankings |-> ReciprocalRankFusion(p[1], p[2])]

\* Mutant of IsInDomain: neither a filter nor a countable question is trusted.
IsInDomainByScore(score, q) == score = "high"

\* is_in_domain() on the first hit's vector score that is one; a countable
\* question is trusted as an explicit filter is.
IsInDomain(score, q) ==
  \/ score = "high"
  \/ score = "low" /\ (DOMAIN q.filter # {} \/ q.counts)

\* fetch_reference_targets(): the documents the named ones refer to, by the place
\* of the naming document, then the kind of reference, then ID.
TypeRank == [test_case_citation |-> 0, duplicate_of |-> 1, related_to |-> 2]
TargetKey(named, r) ==
  (Rank(named, r[1]) * Cardinality(RefTypes) + TypeRank[r[3]]) * (Len(IdOrder) + 1)
    + Rank(IdOrder, r[2])
ReferenceTargets(corpus, named, limit) ==
  LET forward == {r \in corpus.refs : r[1] \in Range(named)
                    /\ r[2] \in DOMAIN corpus.docs \ Range(named)}
      Sooner(d, e) == \E r \in forward : r[2] = d /\ \A s \in forward :
                        s[2] = e => TargetKey(named, r) < TargetKey(named, s)
  IN {Take(o, limit) : o \in {s \in Orders({r[2] : r \in forward}) :
        \A i, j \in DOMAIN s : i < j => Sooner(s[i], s[j])}}

Shown == Take(hits, ContextTopN)

\* A reference line: its target may not be in the corpus.
Line(corpus, r) == [source |-> r[1], target |-> r[2], type |-> r[3],
                    found |-> r[2] \in DOMAIN corpus.docs]

NoAnswer == [route |-> "none", sources |-> <<>>, mentions |-> {}, says |-> {},
             number |-> 0, fields |-> {}, error |-> FALSE]

-----------------------------------------------------------------------------
QuestionsInit ==
  /\ \E c \in Corpora : history = <<c>>
  /\ live = 1 /\ pc = "idle"
  /\ question = CHOOSE q \in Asked : TRUE
  /\ ids = <<>> /\ pinned = <<>> /\ text = <<>> /\ hits = <<>> /\ targets = <<>>
  /\ asOf = 1 /\ lead = 0 /\ counted = 0
  /\ both = {} /\ rows = {} /\ lines = {}
  /\ answer = NoAnswer

\* ingest.py commits another state of the tables.
Commit(c) ==
  /\ Len(history) < MaxCommits /\ c # Db
  /\ history' = Append(history, c)
  /\ UNCHANGED <<live, requestVars>>

\* Mutant of Publish: a rebuild that read the tables earlier may finish later.
PublishAny(v) ==
  /\ v # live
  /\ live' = v
  /\ UNCHANGED <<history, requestVars>>

\* A rebuild puts an index of a later state behind the alias.
Publish(v) ==
  /\ v > live
  /\ live' = v
  /\ UNCHANGED <<history, requestVars>>

\* A question comes in: the IDs in it decide what is looked up first.
Ask(q) ==
  /\ pc = "idle"
  /\ question' = q /\ asOf' = live
  /\ ids' \in ExtractIds(q.mentions)
  /\ IF ids' = <<>> /\ q.code
     THEN pc' = "codes" /\ answer' = [NoAnswer EXCEPT !.route = "error_code"]
     ELSE pc' = (IF ids' = <<>> THEN "text" ELSE "resolve") /\ answer' = NoAnswer
  /\ pinned' = <<>>
  /\ UNCHANGED <<corpusVars, text, hits, lead, both, targets, counted, rows, lines>>

\* resolve_document_ids() and classify_id_question().
Resolve ==
  /\ pc = "resolve"
  /\ LET existing == Range(ids) \cap DOMAIN Index.docs
         pinnable == existing \cap Admitted(Index, question.filter)
         Fields(d) == IF Len(ids) # 1 THEN {}
                      ELSE RequestedFields(question, Index.docs[d].doc_type)
     IN /\ pinned' \in Kept(ids, pinnable)
        /\ \/ /\ existing = {}
              /\ pc' = "finish"
              /\ answer' = [NoAnswer EXCEPT !.route = "unknown_id",
                                            !.mentions = Range(ids), !.says = {"rejected"}]
              /\ UNCHANGED hits
           \/ /\ existing # {} /\ \A d \in pinnable : Fields(d) = {}
              /\ pc' = "text"
              /\ UNCHANGED <<hits, answer>>
           \/ \E d \in pinnable :
                /\ Fields(d) # {}
                /\ pc' = "fields" /\ hits' = pinned'
                /\ answer' = [NoAnswer EXCEPT !.route = "field_lookup",
                                              !.fields = Fields(d)]
  /\ UNCHANGED <<corpusVars, question, ids, asOf, text, lead, both, targets, counted,
                 rows, lines>>

\* hybrid_search(): the BM25 leg finds what it finds among the admitted documents.
SearchText ==
  /\ pc = "text"
  /\ text' \in {t \in Rankings : Len(t) <= RetrievalSize
                  /\ Range(t) \subseteq Admitted(Index, question.filter)}
  /\ pc' = "vector"
  /\ UNCHANGED <<corpusVars, question, ids, asOf, pinned, hits, lead, both, targets,
                 counted, rows, lines, answer>>

\* Without a named document the guardrail decides, then the count patterns.
Route(top, score) ==
  /\ pinned = <<>>
  /\ hits' = top /\ lead' = 0
  /\ \/ /\ ~IsInDomain(score, question)
        /\ pc' = "finish"
        /\ answer' = [NoAnswer EXCEPT !.route = "reject", !.says = {"rejected"}]
     \/ /\ IsInDomain(score, question) /\ question.counts
        /\ pc' = "count"
        /\ answer' = [NoAnswer EXCEPT !.route = "deterministic"]
     \/ /\ IsInDomain(score, question) /\ ~question.counts
        /\ pc' = "rows"
        /\ answer' = [NoAnswer EXCEPT !.route = "semantic"]

\* pin_resolved_hits(): named documents go first and nothing else is asked.
Pin(top) ==
  /\ pinned # <<>>
  /\ hits' \in Fronted(pinned, top) /\ lead' = Len(pinned)
  /\ pc' = IF Len(pinned) < ContextTopN THEN "targets" ELSE "rows"
  /\ answer' = [NoAnswer EXCEPT !.route = "semantic"]

\* The vector leg's hits are filtered, fused with the text leg's and cut; the
\* score is that of the first hit the vector leg found.
SearchVector ==
  /\ pc = "vector"
  /\ \E near \in Nearest(DOMAIN Index.docs) :
     \E v \in Kept(near, Admitted(Index, question.filter)) :
     \E s \in Fused[<<text, v>>] :
       LET top == Take(s, RetrievalSize)
       IN /\ both' = Range(text) \cap Range(v) \cap Range(top)
          /\ \/ Pin(top)
             \/ \E score \in IF Range(top) \cap Range(v) = {} THEN {"none"}
                             ELSE {"low", "high"} : Route(top, score)
  /\ text' = <<>>
  /\ UNCHANGED <<corpusVars, question, ids, asOf, pinned, targets, counted, rows, lines>>

\* _expand_references(): the documents the pinned ones refer to, from Postgres.
FetchTargets ==
  /\ pc = "targets"
  /\ targets' \in ReferenceTargets(Db, pinned,
                                   Least(MaxExpansion, ContextTopN - Len(pinned)))
  /\ pc' = IF targets' = <<>> THEN "rows" ELSE "place"
  /\ UNCHANGED <<corpusVars, question, ids, asOf, pinned, text, hits, lead, both,
                 counted, rows, lines, answer>>

\* Mutant of PlaceTargets: the filters are not asked again.
PlaceTargetsUnfiltered ==
  /\ pc = "place"
  /\ \E added \in Kept(targets, DOMAIN Index.docs) :
       /\ hits' \in Fronted(pinned \o added, hits)
       /\ lead' = Len(pinned) + Len(added)
  /\ pc' = "rows"
  /\ UNCHANGED <<corpusVars, question, ids, asOf, pinned, text, both, targets,
                 counted, rows, lines, answer>>

\* Mutant of PlaceTargets: they go in front of the pinned ones.
PlaceTargetsFirst ==
  /\ pc = "place"
  /\ \E added \in Kept(targets, Admitted(Index, question.filter)) :
       /\ hits' \in Fronted(added \o pinned, hits)
       /\ lead' = Len(pinned) + Len(added)
  /\ pc' = "rows"
  /\ UNCHANGED <<corpusVars, question, ids, asOf, pinned, text, both, targets,
                 counted, rows, lines, answer>>

\* Mutant of PlaceTargets: they go behind what was retrieved.
PlaceTargetsLast ==
  /\ pc = "place"
  /\ \E added \in Kept(targets, Admitted(Index, question.filter) \ Range(hits)) :
       hits' = hits \o added
  /\ pc' = "rows"
  /\ UNCHANGED <<corpusVars, question, ids, asOf, pinned, text, lead, both, targets,
                 counted, rows, lines, answer>>

\* Those the index has and the filters admit go right behind the pinned ones.
PlaceTargets ==
  /\ pc = "place"
  /\ \E added \in Kept(targets, Admitted(Index, question.filter)) :
       /\ hits' \in Fronted(pinned \o added, hits)
       /\ lead' = Len(pinned) + Len(added)
  /\ pc' = "rows"
  /\ UNCHANGED <<corpusVars, question, ids, asOf, pinned, text, both, targets,
                 counted, rows, lines, answer>>

\* fetch_structured_fields() of the documents shown to the model.
FetchRows ==
  /\ pc = "rows"
  /\ rows' = Range(Shown) \cap DOMAIN Db.docs
  /\ pc' = "lines"
  /\ UNCHANGED <<corpusVars, question, ids, asOf, pinned, text, hits, lead, both,
                 targets, counted, lines, answer>>

\* fetch_references(): what refers to or from them, dangling citations included.
FetchLines ==
  /\ pc = "lines"
  /\ lines' = {Line(Db, r) : r \in {r \in Db.refs :
                 r[1] \in Range(Shown) \/ r[2] \in Range(Shown) \cap DOMAIN Db.docs}}
  /\ pc' = "generate"
  /\ UNCHANGED <<corpusVars, question, ids, asOf, pinned, text, hits, lead, both,
                 targets, counted, rows, answer>>

\* run_semantic_generate(): the reply, with the documents shown as its sources; a
\* GenerationError leaves what had come, with no sources.
Generate(reply, failed) ==
  /\ pc = "generate"
  /\ answer' = [answer EXCEPT !.mentions = reply.mentions, !.says = reply.says,
                              !.sources = IF failed THEN <<>> ELSE Shown,
                              !.error = failed]
  /\ pc' = "finish"
  /\ UNCHANGED <<corpusVars, question, ids, asOf, pinned, text, hits, lead, both,
                 targets, counted, rows, lines>>

\* answer_countable_question(): the count, then the list, each of the live index.
CountDocuments ==
  /\ pc = "count"
  /\ counted' = Cardinality(Admitted(Index, question.filter))
  /\ pc' = IF counted' = 0 THEN "finish" ELSE "list"
  /\ UNCHANGED <<corpusVars, question, ids, asOf, pinned, text, hits, lead, both,
                 targets, rows, lines, answer>>

\* Mutant of ListDocuments: the list is not bounded by the count.
ListDocumentsUnbounded ==
  /\ pc = "list"
  /\ LET found == Admitted(Index, question.filter)
     IN \E s \in Rankings :
          /\ Range(s) \subseteq found
          /\ Len(s) = Least(MaxListed, Cardinality(found))
          /\ answer' = [answer EXCEPT !.number = counted, !.sources = s,
                                      !.mentions = Range(s)]
  /\ pc' = "finish"
  /\ UNCHANGED <<corpusVars, question, ids, asOf, pinned, text, hits, lead, both,
                 targets, counted, rows, lines>>

ListDocuments ==
  /\ pc = "list"
  /\ LET found == Admitted(Index, question.filter)
     IN \E s \in Rankings :
          /\ Range(s) \subseteq found
          /\ Len(s) = Least(Least(counted, MaxListed), Cardinality(found))
          /\ answer' = [answer EXCEPT !.number = counted, !.sources = s,
                                      !.mentions = Range(s)]
  /\ pc' = "finish"
  /\ UNCHANGED <<corpusVars, question, ids, asOf, pinned, text, hits, lead, both,
                 targets, counted, rows, lines>>

\* answer_error_code_question(): the documents that carry the code, by ID.
FindCoded ==
  /\ pc = "codes"
  /\ hits' \in Kept(IdOrder, {d \in Db.coded : Passes(Db.docs[d], question.filter)})
  /\ pc' = IF hits' = <<>> THEN "finish" ELSE "relations"
  /\ UNCHANGED <<corpusVars, question, ids, asOf, pinned, text, lead, both, targets,
                 counted, rows, lines, answer>>

\* Then the references recorded among them.
RelateCoded ==
  /\ pc = "relations"
  /\ lines' = {Line(Db, r) : r \in {r \in Db.refs :
                 {r[1], r[2]} \subseteq Range(hits) \cap DOMAIN Db.docs}}
  /\ answer' = [answer EXCEPT !.sources = hits, !.mentions = Range(hits),
                              !.number = Len(hits)]
  /\ pc' = "finish"
  /\ UNCHANGED <<corpusVars, question, ids, asOf, pinned, text, hits, lead, both,
                 targets, counted, rows>>

\* run_field_lookup(): without the row, the model is asked about the document.
LookUpFields ==
  /\ pc = "fields"
  /\ IF Range(hits) \subseteq DOMAIN Db.docs
     THEN /\ answer' = [answer EXCEPT !.sources = hits, !.mentions = Range(hits)]
          /\ pc' = "finish"
     ELSE /\ answer' = [answer EXCEPT !.fields = {}]
          /\ pc' = "rows"
  /\ UNCHANGED <<corpusVars, question, ids, asOf, pinned, text, hits, lead, both,
                 targets, counted, rows, lines>>

\* The request is over, its state gone.
Forget ==
  /\ ids' = <<>> /\ text' = <<>> /\ hits' = <<>> /\ targets' = <<>>
  /\ lead' = 0 /\ counted' = 0 /\ both' = {} /\ rows' = {} /\ lines' = {}

\* A call to OpenSearch, Postgres or Ollama that raises breaks the response off.
Raise ==
  /\ pc \notin {"idle", "finish"}
  /\ pc' = "idle" /\ answer' = NoAnswer
  /\ Forget
  /\ UNCHANGED <<corpusVars, question, asOf, pinned>>

\* finish(): the answer and its sources are sent.
Finish ==
  /\ pc = "finish"
  /\ pc' = "idle"
  /\ Forget
  /\ UNCHANGED <<corpusVars, question, asOf, pinned, answer>>

Handle ==
  \/ Resolve \/ SearchText \/ SearchVector \/ FetchTargets \/ PlaceTargets
  \/ FetchRows \/ FetchLines
  \/ \E reply \in Replies, failed \in BOOLEAN : Generate(reply, failed)
  \/ CountDocuments \/ ListDocuments \/ FindCoded \/ RelateCoded \/ LookUpFields

ChangeCorpus ==
  \/ \E c \in Corpora : Commit(c)
  \/ \E v \in 1..Len(history) : Publish(v)

QuestionsNext == ChangeCorpus \/ (\E q \in Asked : Ask(q)) \/ Handle \/ Raise \/ Finish
QuestionsSpec == QuestionsInit /\ [][QuestionsNext]_questionsVars

-----------------------------------------------------------------------------
Answered == pc = "idle" /\ answer.route # "none"

Routes == {"none", "unknown_id", "field_lookup", "error_code", "reject", "deterministic",
           "semantic"}
Phrases == {"rejected"} \cup UNION {r.says : r \in Replies}
Answers ==
  [route : Routes, sources : Seq(Docs), mentions : SUBSET Docs,
   says : SUBSET Phrases, number : Nat, fields : SUBSET DOMAIN Pattern, error : BOOLEAN]

\* The variables keep their types, and the live index is of a committed state.
QuestionsTypeOK ==
  /\ history \in Seq(Corpora) /\ live \in 1..Len(history) /\ asOf \in 1..live
  /\ pc \in {"idle", "resolve", "text", "vector", "targets", "place", "rows", "lines",
             "generate", "count", "list", "codes", "relations", "fields", "finish"}
  /\ question \in Asked /\ text \in Rankings /\ rows \subseteq Docs
  /\ {ids, pinned, hits, targets} \subseteq Seq(Docs)
  /\ {lead, counted} \subseteq Nat /\ both \subseteq Docs
  /\ answer \in Answers

\* An answer's sources name no document twice, whatever the lookup of the IDs, the
\* two legs and the references each found (pin_resolved_hits() and
\* _expand_references() take out what they put in front).
SourcesOnce == IsInjective(answer.sources)

\* The documents a question names lead the sources of the model's answer, in the
\* question's order, the references' targets behind them: nothing retrieved or
\* referred to pushes a named document out of the context.
NamedDocsLead ==
  Answered /\ answer.route = "semantic" /\ ~answer.error =>
    Take(answer.sources, Len(pinned)) = Take(pinned, ContextTopN)

\* Every source passed the question's explicit filters in some state the index or
\* the tables were in while the question was answered: no leg, pin, reference or
\* lookup goes round them (build_filters(), passes_filters(), _passes()).
SourcesPassFilter ==
  \A d \in Range(answer.sources) :
    \E k \in asOf..Len(history) : d \in Admitted(history[k], question.filter)

\* Among the hits not put in front, those both legs found come before those one
\* leg found, as far down as their lists go (the constant of the fusion, 60,
\* against lists of 10 and 100: LegsDominate is where it holds).
LegsDominate == (RetrievalSize - 1) * (KnnPool - 1) < (RrfK + 1) * (RrfK + 1)
BothLegsFirst ==
  LegsDominate =>
    \A i, j \in DOMAIN hits :
      i > lead /\ j > i /\ hits[j] \in both => hits[i] \in both

\* A count answered beside its list is never below it; when the alias did not move
\* in between, the list is of all the documents counted, or as many as it may show
\* (answer_countable_question() asks twice).
CountConsistent ==
  Answered /\ answer.route = "deterministic" =>
    /\ Len(answer.sources) <= answer.number
    /\ asOf = live =>
         /\ answer.number = Cardinality(Admitted(Index, question.filter))
         /\ Len(answer.sources) = Least(answer.number, MaxListed)

\* The largest pool of neighbours the settings allow.
MaxPool == Least(RetrievalSize * Oversample, MaxNeighbours)

\* A question that counts with an explicit filter is not turned away as out of
\* domain when documents match, as long as the index is no larger than the pool of
\* neighbours: the vector leg is filtered after the search, and with no hit of it
\* the guardrail refuses.
FilteredCountAnswered ==
  Answered /\ question.counts /\ DOMAIN question.filter # {} /\ asOf = live
    /\ Admitted(Index, question.filter) # {}
    /\ Cardinality(DOMAIN Index.docs) <= MaxPool
  => answer.route # "reject"

\* A question answered with stored fields gets every field it asks for: one that
\* asks for a field of the other document type too goes to the model.
FieldsAnswerAll ==
  Answered /\ answer.fields # {} =>
    \A word \in question.words : \E f \in answer.fields : word \in Pattern[f]
=============================================================================
