--------------------------- MODULE QuestionsProofs ---------------------------
(***************************************************************************)
(* Proofs about Questions, for any documents, corpora, questions and       *)
(* limits.                                                                 *)
(***************************************************************************)
EXTENDS Questions, FiniteSetTheorems, TLAPS

\* The first elements of a sequence (the slices hits[:n]), none for a negative n.
LEMMA TakeSeq ==
  ASSUME NEW S, NEW s \in Seq(S), NEW n \in Int
  PROVE  /\ Take(s, n) \in Seq(S)
         /\ n >= 0 => Len(Take(s, n)) = Least(n, Len(s))
         /\ \A i \in 1..Len(Take(s, n)) : i \in 1..Len(s) /\ Take(s, n)[i] = s[i]
         /\ Range(Take(s, n)) \subseteq Range(s)
         /\ IsInjective(s) => IsInjective(Take(s, n))
<1> DEFINE m == Least(n, Len(s))
           t == SubSeq(s, 1, m)
<1>1. m \in Int /\ m <= Len(s) /\ Len(s) \in Nat
  BY DEF Least
<1> HIDE DEF m
<1>2. \A i \in 1..m : i \in 1..Len(s) /\ s[i] \in S
  BY <1>1
<1>3. /\ t \in Seq(S) /\ Len(t) = (IF 1 <= m THEN m ELSE 0)
      /\ \A i \in 1..m : t[i] = s[i]
  BY <1>1, <1>2
<1>4. DOMAIN t = 1..Len(t) /\ DOMAIN s = 1..Len(s) /\ \A i \in 1..Len(t) : i \in 1..m
  BY <1>1, <1>3
<1> HIDE DEF t
<1>5. \A i \in 1..Len(t) : i \in 1..Len(s) /\ t[i] = s[i]
  BY <1>2, <1>3, <1>4
<1>6. Range(t) \subseteq Range(s)
  BY <1>4, <1>5 DEF Range
<1>7. IsInjective(s) => IsInjective(t)
  BY <1>4, <1>5 DEF IsInjective
<1>8. n >= 0 => Len(t) = m
  BY <1>1, <1>3 DEF m, Least
<1>9. QED
  BY <1>3, <1>5, <1>6, <1>7, <1>8 DEF Take, m, t

\* Every set of documents is finite.
LEMMA DocsFinite ==
  ASSUME NEW D \in SUBSET Docs
  PROVE  IsFiniteSet(D) /\ Cardinality(D) \in Nat /\ Cardinality(D) <= Cardinality(Docs)
  BY QuestionsAssumption, FS_Subset, FS_CardinalityType

\* A sequence that holds each member of a set once.
LEMMA OrderOf ==
  ASSUME NEW D \in SUBSET Docs, NEW s \in Orders(D)
  PROVE  /\ s \in Seq(Docs) /\ Len(s) = Cardinality(D) /\ DOMAIN s = 1..Len(s)
         /\ Range(s) = D /\ IsInjective(s)
<1>1. IsFiniteSet(D) /\ Cardinality(D) \in Nat
  BY DocsFinite
<1>2. s \in [1..Cardinality(D) -> D] /\ IsInjective(s)
  BY DEF Orders
<1>3. s \in Seq(Docs) /\ Len(s) = Cardinality(D) /\ DOMAIN s = 1..Len(s)
  BY <1>1, <1>2
<1>4. Range(s) = D
  <2>1. s \in Injection(1..Cardinality(D), D)
    BY <1>2 DEF Injection
  <2>2. Cardinality(1..Cardinality(D)) = Cardinality(D)
    <3>1. /\ 1 \in Int /\ Cardinality(D) \in Int
          /\ (IF 1 > Cardinality(D) THEN 0 ELSE Cardinality(D) - 1 + 1) = Cardinality(D)
      BY <1>1
    <3>2. QED
      BY <3>1, FS_Interval
  <2>3. s \in Surjection(1..Cardinality(D), D)
    BY <1>1, <2>1, <2>2, FS_Injection
  <2>4. QED
    BY <2>3, <1>2 DEF Surjection, Range
<1>5. QED
  BY <1>2, <1>3, <1>4

\* What is kept of a sequence of documents.
LEMMA KeptOf ==
  ASSUME NEW old \in Seq(Docs), NEW D, NEW s \in Kept(old, D)
  PROVE  /\ s \in Seq(Docs) /\ Range(s) = Range(old) \cap D /\ IsInjective(s)
         /\ Len(s) = Cardinality(Range(old) \cap D) /\ Follows(s, old)
<1>1. Range(old) \cap D \in SUBSET Docs
  BY DEF Range
<1>2. s \in Orders(Range(old) \cap D) /\ Follows(s, old)
  BY DEF Kept
<1>3. QED
  BY <1>1, <1>2, OrderOf

\* What pin_resolved_hits() and _expand_references() return.
LEMMA FrontedOf ==
  ASSUME NEW front \in Seq(Docs), NEW old \in Seq(Docs), NEW s \in Fronted(front, old)
  PROVE  /\ s \in Seq(Docs) /\ Len(front) <= Len(s)
         /\ \A i \in 1..Len(front) : s[i] = front[i]
         /\ Range(s) \subseteq Range(front) \cup Range(old)
         /\ IsInjective(front) => IsInjective(s)
         /\ \A i, j \in DOMAIN s : i > Len(front) /\ i < j =>
              \E k, l \in DOMAIN old : k < l /\ old[k] = s[i] /\ old[l] = s[j]
         /\ \A i \in DOMAIN s : i > Len(front) => s[i] \notin Range(front)
<1>1. PICK rest \in Kept(old, Docs \ Range(front)) : s = front \o rest
  BY DEF Fronted
<1>2. /\ rest \in Seq(Docs) /\ Range(rest) = Range(old) \cap (Docs \ Range(front))
      /\ IsInjective(rest) /\ Follows(rest, old)
  BY KeptOf
<1>3. /\ s \in Seq(Docs) /\ Len(s) = Len(front) + Len(rest)
      /\ \A i \in 1..Len(s) : s[i] = IF i <= Len(front) THEN front[i]
                                      ELSE rest[i - Len(front)]
  BY <1>1, <1>2
<1>4. /\ DOMAIN s = 1..Len(s) /\ DOMAIN front = 1..Len(front) /\ DOMAIN rest = 1..Len(rest)
      /\ Len(front) \in Nat /\ Len(rest) \in Nat
  BY <1>2, <1>3
<1>5. \A i \in 1..Len(front) : i \in 1..Len(s) /\ s[i] = front[i]
  BY <1>3, <1>4
<1>6. \A i \in DOMAIN s : i > Len(front) =>
        i - Len(front) \in DOMAIN rest /\ s[i] = rest[i - Len(front)]
  BY <1>3, <1>4
<1>7. \A i \in DOMAIN s : i > Len(front) => s[i] \in Range(rest)
  BY <1>6 DEF Range
<1>8. \A i \in DOMAIN s : ~(i > Len(front)) => i \in DOMAIN front /\ s[i] = front[i]
  BY <1>3, <1>4
<1>9. Range(s) \subseteq Range(front) \cup Range(old)
  BY <1>2, <1>7, <1>8 DEF Range
<1>10. ASSUME IsInjective(front) PROVE IsInjective(s)
  <2>1. SUFFICES ASSUME NEW i \in DOMAIN s, NEW j \in DOMAIN s, s[i] = s[j] PROVE i = j
    BY DEF IsInjective
  <2>2. CASE i > Len(front) /\ j > Len(front)
    <3>1. i - Len(front) = j - Len(front)
      BY <1>2, <1>6, <2>1, <2>2 DEF IsInjective
    <3>2. QED
      BY <3>1, <1>4
  <2>3. CASE ~(i > Len(front)) /\ ~(j > Len(front))
    BY <1>8, <1>10, <2>1, <2>3 DEF IsInjective
  <2>4. CASE (i > Len(front)) # (j > Len(front))
    BY <1>2, <1>7, <1>8, <2>1, <2>4 DEF Range
  <2>5. QED
    BY <2>2, <2>3, <2>4
<1>11. ASSUME NEW i \in DOMAIN s, NEW j \in DOMAIN s, i > Len(front), i < j
       PROVE  \E k, l \in DOMAIN old : k < l /\ old[k] = s[i] /\ old[l] = s[j]
  <2>1. j > Len(front) /\ i - Len(front) < j - Len(front)
    BY <1>4, <1>11
  <2>2. QED
    BY <1>2, <1>6, <1>11, <2>1 DEF Follows
<1>12. QED
  BY <1>2, <1>3, <1>4, <1>5, <1>7, <1>9, <1>10, <1>11
\* The IDs found in a question (extract_document_ids()).
LEMMA IdsOf ==
  ASSUME NEW mentions \in Seq(Docs), NEW s \in ExtractIds(mentions)
  PROVE  s \in Seq(Docs) /\ IsInjective(s) /\ Range(s) \subseteq Docs
<1>1. PICK o \in Orders(Range(mentions)) : s = Take(o, MaxIds)
  BY DEF ExtractIds
<1>2. Range(mentions) \in SUBSET Docs /\ MaxIds \in Nat
  BY QuestionsAssumption DEF Range
<1>3. o \in Seq(Docs) /\ IsInjective(o) /\ Range(o) \subseteq Docs
  BY <1>2, OrderOf
<1>4. QED
  BY <1>1, <1>2, <1>3, TakeSeq

\* The documents the named ones refer to (fetch_reference_targets()).
LEMMA TargetsOf ==
  ASSUME NEW corpus \in Corpora, NEW named \in Seq(Docs), NEW limit \in Int,
         NEW s \in ReferenceTargets(corpus, named, limit)
  PROVE  s \in Seq(Docs) /\ IsInjective(s) /\ Range(s) \cap Range(named) = {}
<1> DEFINE forward == {r \in corpus.refs : r[1] \in Range(named)
                         /\ r[2] \in DOMAIN corpus.docs \ Range(named)}
           D == {r[2] : r \in forward}
<1>1. PICK o \in Orders(D) : s = Take(o, limit)
  BY DEF ReferenceTargets
<1>2. D \in SUBSET Docs /\ D \cap Range(named) = {}
  BY QuestionsAssumption
<1> HIDE DEF D
<1>3. o \in Seq(Docs) /\ IsInjective(o) /\ Range(o) = D
  BY <1>2, OrderOf
<1>4. QED
  BY <1>1, <1>2, <1>3, TakeSeq

\* What the steps of a request read is a committed state of the tables.
LEMMA Reads ==
  ASSUME QuestionsTypeOK
  PROVE  /\ Db \in Corpora /\ Index \in Corpora
         /\ \A k \in 1..Len(history) : history[k] \in Corpora
         /\ DOMAIN Db.docs \subseteq Docs /\ DOMAIN Index.docs \subseteq Docs
         /\ Db.coded \subseteq DOMAIN Db.docs
         /\ live \in Nat /\ asOf \in Nat /\ Len(history) \in Nat
<1>1. /\ history \in Seq(Corpora) /\ live \in 1..Len(history) /\ asOf \in 1..live
      /\ Len(history) \in Nat
  BY DEF QuestionsTypeOK
<1>2. \A k \in 1..Len(history) : history[k] \in Corpora
  BY <1>1
<1>3. Db \in Corpora /\ Index \in Corpora
  BY <1>1, <1>2 DEF Db, Index
<1>4. QED
  BY <1>1, <1>2, <1>3, QuestionsAssumption

\* The limits are natural numbers.
LEMMA Limits ==
  /\ {RetrievalSize, Oversample, MaxNeighbours, ContextTopN, MaxExpansion, MaxIds,
      MaxListed, MaxCommits} \subseteq Nat \ {0}
  /\ KnnPool \in Nat /\ MaxPool \in Nat
<1>1. {RetrievalSize, Oversample, MaxNeighbours, ContextTopN, MaxExpansion, MaxIds,
      MaxListed, MaxCommits} \subseteq Nat \ {0}
  BY QuestionsAssumption
<1>2. RetrievalSize * Oversample \in Nat
  BY <1>1
<1>3. QED
  BY <1>1, <1>2 DEF KnnPool, MaxPool, Least

-----------------------------------------------------------------------------
\* The empty answer of a request that has just come in.
LEMMA BlankAnswer ==
  /\ NoAnswer \in Answers /\ NoAnswer.route = "none" /\ NoAnswer.sources = <<>>
  /\ NoAnswer.fields = {} /\ NoAnswer.number = 0 /\ NoAnswer.error = FALSE
<1>1. /\ <<>> \in Seq(Docs) /\ {} \in SUBSET Docs /\ {} \in SUBSET Phrases
      /\ {} \in SUBSET DOMAIN Pattern /\ 0 \in Nat /\ FALSE \in BOOLEAN
      /\ "none" \in Routes
  BY DEF Routes
<1>2. NoAnswer \in Answers
  BY <1>1 DEF NoAnswer, Answers
<1>3. QED
  BY <1>2 DEF NoAnswer

\* What the nodes of the graph make of an answer: with another route, with a
\* rejection's text, with the IDs it does not know, with fields.
LEMMA RouteUpdate ==
  ASSUME NEW a \in Answers, NEW r \in Routes
  PROVE  /\ [a EXCEPT !.route = r] \in Answers
         /\ [a EXCEPT !.route = r].route = r
         /\ [a EXCEPT !.route = r].sources = a.sources
         /\ [a EXCEPT !.route = r].fields = a.fields
         /\ [a EXCEPT !.route = r].number = a.number
  BY DEF Answers

LEMMA RejectUpdate ==
  ASSUME NEW a \in Answers, NEW r \in Routes
  PROVE  /\ [a EXCEPT !.route = r, !.says = {"rejected"}] \in Answers
         /\ [a EXCEPT !.route = r, !.says = {"rejected"}].route = r
         /\ [a EXCEPT !.route = r, !.says = {"rejected"}].sources = a.sources
         /\ [a EXCEPT !.route = r, !.says = {"rejected"}].fields = a.fields
<1>1. PICK w \in SUBSET Phrases : w = {"rejected"}
  BY DEF Phrases
<1>2. /\ [a EXCEPT !.route = r, !.says = w] \in Answers
      /\ [a EXCEPT !.route = r, !.says = w].route = r
      /\ [a EXCEPT !.route = r, !.says = w].sources = a.sources
      /\ [a EXCEPT !.route = r, !.says = w].fields = a.fields
  BY DEF Answers
<1>3. QED
  BY <1>1, <1>2

LEMMA UnknownUpdate ==
  ASSUME NEW a \in Answers, NEW r \in Routes, NEW D \in SUBSET Docs
  PROVE  LET b == [a EXCEPT !.route = r, !.mentions = D, !.says = {"rejected"}]
         IN b \in Answers /\ b.route = r /\ b.sources = a.sources /\ b.fields = a.fields
<1>1. PICK w \in SUBSET Phrases : w = {"rejected"}
  BY DEF Phrases
<1>2. LET b == [a EXCEPT !.route = r, !.mentions = D, !.says = w]
      IN b \in Answers /\ b.route = r /\ b.sources = a.sources /\ b.fields = a.fields
  BY DEF Answers
<1>3. QED
  BY <1>1, <1>2

LEMMA FieldsUpdate ==
  ASSUME NEW a \in Answers, NEW r \in Routes, NEW F \in SUBSET DOMAIN Pattern
  PROVE  /\ LET b == [a EXCEPT !.route = r, !.fields = F]
            IN b \in Answers /\ b.route = r /\ b.sources = a.sources /\ b.fields = F
         /\ LET b == [a EXCEPT !.fields = {}]
            IN /\ b \in Answers /\ b.route = a.route /\ b.sources = a.sources
               /\ b.fields = {}
  BY DEF Answers

-----------------------------------------------------------------------------
\* What is a ranking: any order of any documents, and what is kept of one.
LEMMA RankingOf ==
  /\ <<>> \in Rankings
  /\ \A D \in SUBSET Docs : \A s \in Orders(D) : s \in Rankings
  /\ \A s \in Rankings : /\ s \in Seq(Docs) /\ IsInjective(s) /\ Range(s) \in SUBSET Docs
                        /\ DOMAIN s = 1..Len(s) /\ Len(s) = Cardinality(Range(s))
<1>1. \A D \in SUBSET Docs : \A s \in Orders(D) : s \in Rankings
  BY DEF Rankings
<1>2. <<>> \in Rankings
  <2>1. {} \in SUBSET Docs /\ Cardinality({}) = 0
    BY FS_EmptySet
  <2>2. <<>> \in [1..0 -> {}] /\ IsInjective(<<>>)
    BY DEF IsInjective
  <2>3. <<>> \in Orders({})
    BY <2>1, <2>2 DEF Orders
  <2>4. QED
    BY <1>1, <2>1, <2>3
<1>3. ASSUME NEW s \in Rankings
      PROVE  /\ s \in Seq(Docs) /\ IsInjective(s) /\ Range(s) \in SUBSET Docs
             /\ DOMAIN s = 1..Len(s) /\ Len(s) = Cardinality(Range(s))
  <2>1. PICK D \in SUBSET Docs : s \in Orders(D)
    BY DEF Rankings
  <2>2. QED
    BY <2>1, OrderOf
<1>4. QED
  BY <1>1, <1>2, <1>3

\* The hits of the vector leg, and both legs' fused (hybrid_search()).
LEMMA SearchOf ==
  ASSUME NEW docs \in SUBSET Docs, NEW near \in Nearest(docs), NEW D, NEW v \in Kept(near, D),
         NEW t \in Rankings, NEW s \in Fused[<<t, v>>]
  PROVE  /\ v \in Rankings /\ Len(v) <= KnnPool /\ Range(v) \subseteq docs \cap D
         /\ Cardinality(docs) <= KnnPool => Range(v) = docs \cap D
         /\ s \in Seq(Docs) /\ IsInjective(s) /\ Range(s) = Range(t) \cup Range(v)
         /\ \A i, j \in DOMAIN s : i < j => Outranks(t, v, s[i], s[j])
<1>1. PICK N \in SUBSET docs :
        Cardinality(N) = Least(KnnPool, Cardinality(docs)) /\ near \in Orders(N)
  BY DEF Nearest
<1>2. /\ N \in SUBSET Docs /\ IsFiniteSet(N) /\ Cardinality(N) \in Nat
      /\ IsFiniteSet(docs) /\ Cardinality(docs) \in Nat
  BY DocsFinite
<1>3. near \in Seq(Docs) /\ Range(near) = N
  BY <1>1, <1>2, OrderOf
<1>4. v \in Seq(Docs) /\ Range(v) = N \cap D /\ Len(v) = Cardinality(N \cap D)
  BY <1>3, KeptOf
<1>5. v \in Rankings
  <2>1. v \in Orders(N \cap D) /\ N \cap D \in SUBSET Docs
    BY <1>2, <1>3 DEF Kept
  <2>2. QED
    BY <2>1, RankingOf
<1>6. Len(v) <= KnnPool
  <2>1. Cardinality(N \cap D) <= Cardinality(N) /\ Cardinality(N \cap D) \in Nat
    BY <1>2, FS_Subset, DocsFinite
  <2>2. Cardinality(N) <= KnnPool
    BY <1>1, <1>2, Limits DEF Least
  <2>3. QED
    BY <1>2, <1>4, <2>1, <2>2, Limits
<1>7. ASSUME Cardinality(docs) <= KnnPool PROVE N = docs
  <2>1. Cardinality(N) = Cardinality(docs)
    BY <1>1, <1>2, <1>7, Limits DEF Least
  <2>2. QED
    BY <1>2, <2>1, FS_Subset
<1>8. s \in ReciprocalRankFusion(t, v)
  BY <1>5 DEF Fused
<1>9. /\ s \in Orders(Range(t) \cup Range(v))
      /\ \A i, j \in DOMAIN s : i < j => Outranks(t, v, s[i], s[j])
  BY <1>8 DEF ReciprocalRankFusion
<1>10. Range(t) \cup Range(v) \in SUBSET Docs
  BY <1>5, RankingOf
<1>11. s \in Seq(Docs) /\ IsInjective(s) /\ Range(s) = Range(t) \cup Range(v)
  BY <1>9, <1>10, OrderOf
<1>12. QED
  BY <1>4, <1>5, <1>6, <1>7, <1>9, <1>11

-----------------------------------------------------------------------------
\* The types of the variables a step of a request leaves alone stay.
LEMMA SameCorpus ==
  ASSUME QuestionsTypeOK, UNCHANGED <<corpusVars, asOf>>
  PROVE  history' \in Seq(Corpora) /\ live' \in 1..Len(history') /\ asOf' \in 1..live'
  BY DEF QuestionsTypeOK, corpusVars

\* Changes of the corpus keep the types (Commit, Publish).
LEMMA CorpusType ==
  ASSUME QuestionsTypeOK, ChangeCorpus
  PROVE  QuestionsTypeOK'
<1>1. history \in Seq(Corpora) /\ live \in 1..Len(history) /\ asOf \in 1..live
  BY DEF QuestionsTypeOK
<1>2. history' \in Seq(Corpora) /\ live' \in 1..Len(history') /\ asOf' \in 1..live'
  <2>1. CASE \E c \in Corpora : Commit(c)
    <3>1. PICK c \in Corpora : history' = Append(history, c) /\ live' = live /\ asOf' = asOf
      BY <2>1 DEF Commit, requestVars
    <3>2. history' \in Seq(Corpora) /\ Len(history') = Len(history) + 1
      BY <1>1, <3>1
    <3>3. QED
      BY <1>1, <3>1, <3>2
  <2>2. CASE \E v \in 1..Len(history) : Publish(v)
    <3>1. PICK v \in 1..Len(history) :
            history' = history /\ v > live /\ live' = v /\ asOf' = asOf
      BY <2>2 DEF Publish, requestVars
    <3>2. QED
      BY <1>1, <3>1
  <2>3. QED
    BY <2>1, <2>2 DEF ChangeCorpus
<1>3. UNCHANGED requestVars
  BY DEF ChangeCorpus, Commit, Publish
<1>4. QED
  BY <1>2, <1>3 DEF QuestionsTypeOK, requestVars
\* The type invariant, for a step that leaves the corpus alone.
LEMMA RequestType ==
  ASSUME QuestionsTypeOK, UNCHANGED <<corpusVars, asOf>>,
         pc' \in {"idle", "resolve", "text", "vector", "targets", "place", "rows", "lines",
                 "generate", "count", "list", "codes", "relations", "fields", "finish"},
         question' \in Asked, text' \in Rankings, rows' \subseteq Docs,
         ids' \in Seq(Docs), pinned' \in Seq(Docs), hits' \in Seq(Docs),
         targets' \in Seq(Docs), lead' \in Nat, counted' \in Nat, both' \subseteq Docs,
         answer' \in Answers
  PROVE  QuestionsTypeOK'
  BY SameCorpus DEF QuestionsTypeOK

LEMMA AskType == ASSUME QuestionsTypeOK, NEW q \in Asked, Ask(q) PROVE QuestionsTypeOK'
<1>1. ids' \in Seq(Docs)
  BY IdsOf, QuestionsAssumption DEF Ask
<1>2. answer' \in Answers
  <2>1. "error_code" \in Routes
    BY DEF Routes
  <2>2. [NoAnswer EXCEPT !.route = "error_code"] \in Answers
    BY <2>1, BlankAnswer, RouteUpdate
  <2>3. QED
    BY <2>2, BlankAnswer DEF Ask
<1>3. history' = history /\ live' = live /\ asOf' = live
  BY DEF Ask, corpusVars
<1>4. live \in 1..live
  BY DEF QuestionsTypeOK
<1>5. /\ pc' \in {"codes", "text", "resolve"} /\ pinned' = <<>> /\ question' = q
      /\ UNCHANGED <<text, hits, lead, both, targets, counted, rows>>
  BY DEF Ask
<1>6. pinned' \in Seq(Docs)
  BY <1>5
<1>7. QED
  BY <1>1, <1>2, <1>3, <1>4, <1>5, <1>6 DEF QuestionsTypeOK

\* What Resolve decides.
LEMMA ResolveAnswer ==
  ASSUME QuestionsTypeOK, Resolve
  PROVE  /\ answer' \in Answers
         /\ \/ /\ pc' = "finish" /\ hits' = hits /\ answer'.route = "unknown_id"
               /\ answer'.sources = <<>> /\ answer'.fields = {}
            \/ pc' = "text" /\ hits' = hits /\ answer' = answer
            \/ /\ pc' = "fields" /\ hits' = pinned' /\ answer'.route = "field_lookup"
               /\ answer'.sources = <<>> /\ answer'.fields # {}
               /\ \E type : answer'.fields = RequestedFields(question, type)
<1> DEFINE existing == Range(ids) \cap DOMAIN Index.docs
           pinnable == existing \cap Admitted(Index, question.filter)
           Fields(d) == IF Len(ids) # 1 THEN {}
                        ELSE RequestedFields(question, Index.docs[d].doc_type)
<1>1. answer \in Answers /\ Range(ids) \in SUBSET Docs
  BY DEF QuestionsTypeOK, Range
<1>2. CASE /\ pc' = "finish" /\ UNCHANGED hits
           /\ answer' = [NoAnswer EXCEPT !.route = "unknown_id",
                                         !.mentions = Range(ids), !.says = {"rejected"}]
  <2>1. "unknown_id" \in Routes
    BY DEF Routes
  <2>2. PICK n, D, w : /\ n \in Answers /\ n.sources = <<>> /\ n.fields = {}
                      /\ D \in SUBSET Docs /\ w \in SUBSET Phrases
                      /\ answer' = [n EXCEPT !.route = "unknown_id", !.mentions = D,
                                             !.says = w]
    BY <1>1, <1>2, BlankAnswer DEF Phrases
  <2>3. /\ answer' \in Answers /\ answer'.route = "unknown_id"
        /\ answer'.sources = <<>> /\ answer'.fields = {}
    BY <2>1, <2>2 DEF Answers
  <2>4. QED
    BY <1>2, <2>3
<1>3. CASE pc' = "text" /\ UNCHANGED <<hits, answer>>
  BY <1>1, <1>3
<1>4. CASE \E d \in pinnable :
             /\ Fields(d) # {} /\ pc' = "fields" /\ hits' = pinned'
             /\ answer' = [NoAnswer EXCEPT !.route = "field_lookup", !.fields = Fields(d)]
  <2>1. PICK d \in pinnable :
          /\ Fields(d) # {} /\ pc' = "fields" /\ hits' = pinned'
          /\ answer' = [NoAnswer EXCEPT !.route = "field_lookup", !.fields = Fields(d)]
    BY <1>4
  <2>2. PICK F \in SUBSET DOMAIN Pattern : F = Fields(d)
    BY DEF RequestedFields
  <2>3. "field_lookup" \in Routes
    BY DEF Routes
  <2>4. \E type : F = RequestedFields(question, type)
    BY <2>1, <2>2
  <2>5. answer' = [NoAnswer EXCEPT !.route = "field_lookup", !.fields = F] /\ F # {}
    BY <2>1, <2>2
  <2>6. /\ answer' \in Answers /\ answer'.route = "field_lookup" /\ answer'.sources = <<>>
        /\ answer'.fields = F
    <3>1. PICK n : /\ n \in Answers /\ n.sources = <<>>
                   /\ answer' = [n EXCEPT !.route = "field_lookup", !.fields = F]
      BY <2>5, BlankAnswer
    <3>2. QED
      BY <2>2, <2>3, <3>1 DEF Answers
  <2>7. QED
    BY <2>1, <2>4, <2>5, <2>6
<1>5. QED
  BY <1>2, <1>3, <1>4 DEF Resolve

LEMMA ResolveType == ASSUME QuestionsTypeOK, Resolve PROVE QuestionsTypeOK'
<1> DEFINE pinnable == (Range(ids) \cap DOMAIN Index.docs)
                          \cap Admitted(Index, question.filter)
<1>1. pinned' \in Kept(ids, pinnable) /\ ids \in Seq(Docs)
  BY DEF Resolve, QuestionsTypeOK
<1>2. pinned' \in Seq(Docs)
  <2> HIDE DEF pinnable
  <2>1. QED
    BY <1>1, KeptOf
<1>3. answer' \in Answers /\ pc' \in {"finish", "text", "fields"} /\ hits' \in Seq(Docs)
  BY <1>2, ResolveAnswer DEF QuestionsTypeOK
<1>4. UNCHANGED <<corpusVars, question, ids, asOf, text, lead, both, targets, counted, rows>>
  BY DEF Resolve
<1>5. QED
  BY <1>1, <1>2, <1>3, <1>4, RequestType DEF QuestionsTypeOK

LEMMA SearchTextType == ASSUME QuestionsTypeOK, SearchText PROVE QuestionsTypeOK'
<1>1. text' \in Rankings /\ pc' = "vector"
  BY DEF SearchText
<1>2. UNCHANGED <<corpusVars, question, ids, asOf, pinned, hits, lead, both, targets,
                  counted, rows, answer>>
  BY DEF SearchText
<1>3. QED
  BY <1>1, <1>2, RequestType DEF QuestionsTypeOK

\* What SearchVector found before it decides.
LEMMA SearchVectorReads ==
  ASSUME QuestionsTypeOK, SearchVector
  PROVE  \E v \in Rankings, s \in Seq(Docs) :
           /\ Len(v) <= KnnPool /\ Range(v) \subseteq Admitted(Index, question.filter)
           /\ Cardinality(DOMAIN Index.docs) <= KnnPool =>
                Range(v) = Admitted(Index, question.filter)
           /\ IsInjective(s) /\ Range(s) = Range(text) \cup Range(v)
           /\ \A i, j \in DOMAIN s : i < j => Outranks(text, v, s[i], s[j])
           /\ Take(s, RetrievalSize) \in Seq(Docs)
           /\ both' = Range(text) \cap Range(v) \cap Range(Take(s, RetrievalSize))
           /\ \/ Pin(Take(s, RetrievalSize))
              \/ \E score \in IF Range(Take(s, RetrievalSize)) \cap Range(v) = {}
                              THEN {"none"} ELSE {"low", "high"} :
                   Route(Take(s, RetrievalSize), score)
<1> DEFINE D == Admitted(Index, question.filter)
<1>1. PICK near, v, s :
        /\ near \in Nearest(DOMAIN Index.docs) /\ v \in Kept(near, D)
        /\ s \in Fused[<<text, v>>]
        /\ both' = Range(text) \cap Range(v) \cap Range(Take(s, RetrievalSize))
        /\ \/ Pin(Take(s, RetrievalSize))
           \/ \E score \in IF Range(Take(s, RetrievalSize)) \cap Range(v) = {}
                           THEN {"none"} ELSE {"low", "high"} :
                Route(Take(s, RetrievalSize), score)
  BY DEF SearchVector
<1>2. DOMAIN Index.docs \in SUBSET Docs /\ text \in Rankings
  BY Reads DEF QuestionsTypeOK
<1>3. DOMAIN Index.docs \cap D = D
  BY DEF Admitted
<1> HIDE DEF D
<1>4. /\ v \in Rankings /\ Len(v) <= KnnPool /\ Range(v) \subseteq DOMAIN Index.docs \cap D
      /\ Cardinality(DOMAIN Index.docs) <= KnnPool => Range(v) = DOMAIN Index.docs \cap D
      /\ s \in Seq(Docs) /\ IsInjective(s) /\ Range(s) = Range(text) \cup Range(v)
      /\ \A i, j \in DOMAIN s : i < j => Outranks(text, v, s[i], s[j])
  BY <1>1, <1>2, SearchOf
<1>5. Take(s, RetrievalSize) \in Seq(Docs)
  BY <1>4, TakeSeq, Limits
<1>6. QED
  BY <1>1, <1>3, <1>4, <1>5 DEF D

\* What SearchVector decides.
LEMMA SearchVectorAnswer ==
  ASSUME QuestionsTypeOK, SearchVector
  PROVE  /\ answer' \in Answers /\ answer'.sources = <<>> /\ answer'.fields = {}
         /\ text' = <<>>
         /\ UNCHANGED <<corpusVars, question, ids, asOf, pinned, targets, counted, rows>>
         /\ \/ /\ pinned # <<>> /\ pc' \in {"targets", "rows"}
               /\ answer'.route = "semantic" /\ lead' = Len(pinned)
            \/ /\ pinned = <<>> /\ lead' = 0
               /\ \/ pc' = "finish" /\ answer'.route = "reject"
                  \/ /\ pc' = "count" /\ answer'.route = "deterministic"
                     /\ answer'.number = 0
                  \/ pc' = "rows" /\ answer'.route = "semantic"
<1>1. \A r \in {"reject", "deterministic", "semantic"} : r \in Routes
  BY DEF Routes
<1>2. /\ text' = <<>>
      /\ UNCHANGED <<corpusVars, question, ids, asOf, pinned, targets, counted, rows>>
      /\ (\E top : Pin(top)) \/ (\E top, score : Route(top, score))
  BY DEF SearchVector
<1>3. CASE \E top : Pin(top)
  <2>1. /\ pinned # <<>> /\ pc' \in {"targets", "rows"} /\ lead' = Len(pinned)
        /\ answer' = [NoAnswer EXCEPT !.route = "semantic"]
    BY <1>3 DEF Pin
  <2>2. QED
    BY <1>1, <1>2, <2>1, BlankAnswer, RouteUpdate
<1>4. CASE \E top, score : Route(top, score)
  <2>1. pinned = <<>> /\ lead' = 0
    BY <1>4 DEF Route
  <2>2. \/ pc' = "finish" /\ answer' = [NoAnswer EXCEPT !.route = "reject",
                                                       !.says = {"rejected"}]
        \/ pc' = "count" /\ answer' = [NoAnswer EXCEPT !.route = "deterministic"]
        \/ pc' = "rows" /\ answer' = [NoAnswer EXCEPT !.route = "semantic"]
    BY <1>4 DEF Route
  <2>3. CASE pc' = "finish" /\ answer' = [NoAnswer EXCEPT !.route = "reject",
                                                         !.says = {"rejected"}]
    BY <1>1, <1>2, <2>1, <2>3, BlankAnswer, RejectUpdate
  <2>4. CASE pc' = "count" /\ answer' = [NoAnswer EXCEPT !.route = "deterministic"]
    BY <1>1, <1>2, <2>1, <2>4, BlankAnswer, RouteUpdate
  <2>5. CASE pc' = "rows" /\ answer' = [NoAnswer EXCEPT !.route = "semantic"]
    BY <1>1, <1>2, <2>1, <2>5, BlankAnswer, RouteUpdate
  <2>6. QED
    BY <2>2, <2>3, <2>4, <2>5
<1>5. QED
  BY <1>2, <1>3, <1>4

LEMMA SearchVectorType == ASSUME QuestionsTypeOK, SearchVector PROVE QuestionsTypeOK'
<1>1. PICK v \in Rankings, s \in Seq(Docs) :
        /\ Take(s, RetrievalSize) \in Seq(Docs)
        /\ both' = Range(text) \cap Range(v) \cap Range(Take(s, RetrievalSize))
        /\ \/ Pin(Take(s, RetrievalSize))
           \/ \E score \in IF Range(Take(s, RetrievalSize)) \cap Range(v) = {}
                           THEN {"none"} ELSE {"low", "high"} :
                Route(Take(s, RetrievalSize), score)
  BY SearchVectorReads
<1> DEFINE top == Take(s, RetrievalSize)
<1> HIDE DEF top
<1>2. pinned \in Seq(Docs) /\ Len(pinned) \in Nat
  BY DEF QuestionsTypeOK
<1>3. \A r \in {"reject", "deterministic", "semantic"} :
        /\ r \in Routes /\ [NoAnswer EXCEPT !.route = r] \in Answers
        /\ [NoAnswer EXCEPT !.route = r, !.says = {"rejected"}] \in Answers
  <2>1. \A r \in {"reject", "deterministic", "semantic"} : r \in Routes
    BY DEF Routes
  <2>2. QED
    BY <2>1, BlankAnswer, RouteUpdate, RejectUpdate
<1>4. /\ hits' \in Seq(Docs) /\ lead' \in Nat /\ answer' \in Answers
      /\ pc' \in {"finish", "count", "rows", "targets"}
  <2>1. CASE Pin(top)
    <3>1. hits' \in Fronted(pinned, top) /\ lead' = Len(pinned)
      BY <2>1 DEF Pin
    <3>2. hits' \in Seq(Docs)
      BY <1>1, <1>2, <3>1, FrontedOf DEF top
    <3>3. pc' \in {"rows", "targets"} /\ answer' = [NoAnswer EXCEPT !.route = "semantic"]
      BY <2>1 DEF Pin
    <3>4. QED
      BY <1>2, <1>3, <3>1, <3>2, <3>3
  <2>2. CASE \E score : Route(top, score)
    <3>1. hits' = top /\ lead' = 0
      BY <2>2 DEF Route
    <3>2. \/ pc' = "finish" /\ answer' = [NoAnswer EXCEPT !.route = "reject",
                                                         !.says = {"rejected"}]
          \/ pc' = "count" /\ answer' = [NoAnswer EXCEPT !.route = "deterministic"]
          \/ pc' = "rows" /\ answer' = [NoAnswer EXCEPT !.route = "semantic"]
      BY <2>2 DEF Route
    <3>3. QED
      BY <1>1, <1>3, <3>1, <3>2 DEF top
  <2>3. QED
    BY <1>1, <2>1, <2>2 DEF top
<1>5. both' \subseteq Docs
  BY <1>1, RankingOf
<1>6. /\ text' \in Rankings
      /\ UNCHANGED <<corpusVars, question, ids, asOf, pinned, targets, counted, rows>>
  BY RankingOf DEF SearchVector
<1>7. QED
  BY <1>4, <1>5, <1>6, RequestType DEF QuestionsTypeOK
\* The targets FetchTargets finds.
LEMMA FetchTargetsReads ==
  ASSUME QuestionsTypeOK, FetchTargets
  PROVE  targets' \in Seq(Docs) /\ Range(targets') \cap Range(pinned) = {}
<1> DEFINE room == Least(MaxExpansion, ContextTopN - Len(pinned))
<1>1. room \in Int /\ pinned \in Seq(Docs) /\ Db \in Corpora
  BY Limits, Reads DEF Least, QuestionsTypeOK
<1>2. targets' \in ReferenceTargets(Db, pinned, room)
  BY DEF FetchTargets
<1> HIDE DEF room
<1>3. QED
  BY <1>1, <1>2, TargetsOf

LEMMA FetchTargetsType == ASSUME QuestionsTypeOK, FetchTargets PROVE QuestionsTypeOK'
<1>1. pc' \in {"rows", "place"}
  BY DEF FetchTargets
<1>2. UNCHANGED <<corpusVars, question, ids, asOf, pinned, text, hits, lead, both, counted,
                  rows, answer>>
  BY DEF FetchTargets
<1>3. QED
  BY <1>1, <1>2, FetchTargetsReads, RequestType DEF QuestionsTypeOK

\* What PlaceTargets puts in front.
LEMMA PlaceTargetsReads ==
  ASSUME QuestionsTypeOK, PlaceTargets
  PROVE  \E added \in Seq(Docs) :
           /\ Range(added) = Range(targets) \cap Admitted(Index, question.filter)
           /\ IsInjective(added) /\ pinned \o added \in Seq(Docs)
           /\ Len(pinned \o added) = Len(pinned) + Len(added)
           /\ \A i \in 1..Len(pinned) : (pinned \o added)[i] = pinned[i]
           /\ Range(pinned \o added) = Range(pinned) \cup Range(added)
           /\ hits' \in Fronted(pinned \o added, hits)
           /\ lead' = Len(pinned) + Len(added)
           /\ Range(pinned) \cap Range(targets) = {} /\ IsInjective(pinned) =>
                IsInjective(pinned \o added)
<1>1. pinned \in Seq(Docs) /\ targets \in Seq(Docs) /\ hits \in Seq(Docs)
  BY DEF QuestionsTypeOK
<1>2. PICK added \in Kept(targets, Admitted(Index, question.filter)) :
        hits' \in Fronted(pinned \o added, hits) /\ lead' = Len(pinned) + Len(added)
  BY DEF PlaceTargets
<1>3. /\ added \in Seq(Docs) /\ IsInjective(added)
      /\ Range(added) = Range(targets) \cap Admitted(Index, question.filter)
  BY <1>1, KeptOf
<1> DEFINE front == pinned \o added
<1>4. /\ front \in Seq(Docs) /\ Len(front) = Len(pinned) + Len(added)
      /\ Len(pinned) \in Nat /\ Len(added) \in Nat
      /\ \A i \in 1..Len(front) : front[i] = IF i <= Len(pinned) THEN pinned[i]
                                             ELSE added[i - Len(pinned)]
      /\ DOMAIN front = 1..Len(front) /\ DOMAIN pinned = 1..Len(pinned)
      /\ DOMAIN added = 1..Len(added)
  BY <1>1, <1>3
<1> HIDE DEF front
<1>5. \A i \in 1..Len(pinned) : i \in 1..Len(front) /\ front[i] = pinned[i]
  BY <1>4
<1>6. \A i \in 1..Len(added) :
        Len(pinned) + i \in 1..Len(front) /\ front[Len(pinned) + i] = added[i]
  BY <1>4
<1>7. ASSUME NEW i \in 1..Len(front)
      PROVE  \/ i \in 1..Len(pinned)
             \/ i - Len(pinned) \in 1..Len(added) /\ i > Len(pinned)
  <2>1. Len(front) = Len(pinned) + Len(added) /\ Len(pinned) \in Nat /\ Len(added) \in Nat
    BY <1>4
  <2>2. QED
    BY <2>1
<1>8. Range(front) = Range(pinned) \cup Range(added)
  <2>1. Range(front) \subseteq Range(pinned) \cup Range(added)
    BY <1>4, <1>7 DEF Range
  <2>2. Range(pinned) \cup Range(added) \subseteq Range(front)
    BY <1>4, <1>5, <1>6 DEF Range
  <2>3. QED
    BY <2>1, <2>2
<1>9. ASSUME Range(pinned) \cap Range(targets) = {}, IsInjective(pinned)
      PROVE  IsInjective(front)
  <2>1. Range(pinned) \cap Range(added) = {}
    BY <1>3, <1>9
  <2>2. SUFFICES ASSUME NEW i \in 1..Len(front), NEW j \in 1..Len(front), front[i] = front[j]
                 PROVE  i = j
    BY <1>4 DEF IsInjective
  <2>3. CASE i \in 1..Len(pinned) /\ j \in 1..Len(pinned)
    BY <1>4, <1>5, <1>9, <2>2, <2>3 DEF IsInjective
  <2>4. CASE i - Len(pinned) \in 1..Len(added) /\ j - Len(pinned) \in 1..Len(added)
    <3>1. added[i - Len(pinned)] = added[j - Len(pinned)]
      BY <1>4, <2>2, <2>4
    <3>2. i - Len(pinned) = j - Len(pinned)
      BY <1>3, <1>4, <2>4, <3>1 DEF IsInjective
    <3>3. QED
      BY <1>4, <3>2
  <2>5. CASE i \in 1..Len(pinned) /\ j - Len(pinned) \in 1..Len(added)
    <3>1. pinned[i] = added[j - Len(pinned)]
      BY <1>4, <2>2, <2>5
    <3>2. QED
      BY <1>4, <2>1, <2>5, <3>1 DEF Range
  <2>6. CASE j \in 1..Len(pinned) /\ i - Len(pinned) \in 1..Len(added)
    <3>1. pinned[j] = added[i - Len(pinned)]
      BY <1>4, <2>2, <2>6
    <3>2. QED
      BY <1>4, <2>1, <2>6, <3>1 DEF Range
  <2>7. QED
    BY <1>7, <2>3, <2>4, <2>5, <2>6
<1>10. QED
  BY <1>2, <1>3, <1>4, <1>5, <1>8, <1>9 DEF front

LEMMA PlaceTargetsType == ASSUME QuestionsTypeOK, PlaceTargets PROVE QuestionsTypeOK'
<1>1. PICK added \in Seq(Docs) :
        /\ pinned \o added \in Seq(Docs) /\ hits' \in Fronted(pinned \o added, hits)
        /\ lead' = Len(pinned) + Len(added)
  BY PlaceTargetsReads
<1>2. pinned \in Seq(Docs) /\ hits \in Seq(Docs)
  BY DEF QuestionsTypeOK
<1>3. hits' \in Seq(Docs) /\ lead' \in Nat
  <2>1. hits' \in Seq(Docs)
    BY <1>1, <1>2, FrontedOf
  <2>2. Len(pinned) \in Nat /\ Len(added) \in Nat
    BY <1>2
  <2>3. QED
    BY <1>1, <2>1, <2>2
<1>4. /\ pc' = "rows"
      /\ UNCHANGED <<corpusVars, question, ids, asOf, pinned, text, both, targets, counted,
                     rows, answer>>
  BY DEF PlaceTargets
<1>5. QED
  BY <1>3, <1>4, RequestType DEF QuestionsTypeOK

LEMMA FetchRowsType == ASSUME QuestionsTypeOK, FetchRows PROVE QuestionsTypeOK'
<1>1. rows' \subseteq Docs
  BY Reads DEF FetchRows
<1>2. /\ pc' = "lines"
      /\ UNCHANGED <<corpusVars, question, ids, asOf, pinned, text, hits, lead, both,
                     targets, counted, answer>>
  BY DEF FetchRows
<1>3. QED
  BY <1>1, <1>2, RequestType DEF QuestionsTypeOK

LEMMA FetchLinesType == ASSUME QuestionsTypeOK, FetchLines PROVE QuestionsTypeOK'
<1>1. /\ pc' = "generate"
      /\ UNCHANGED <<corpusVars, question, ids, asOf, pinned, text, hits, lead, both,
                     targets, counted, rows, answer>>
  BY DEF FetchLines
<1>2. QED
  BY <1>1, RequestType DEF QuestionsTypeOK

\* The documents shown to the model.
LEMMA ShownOf ==
  ASSUME QuestionsTypeOK
  PROVE  /\ Shown \in Seq(Docs) /\ Len(Shown) = Least(ContextTopN, Len(hits))
         /\ \A i \in 1..Len(Shown) : Shown[i] = hits[i]
         /\ Range(Shown) \subseteq Range(hits)
         /\ IsInjective(hits) => IsInjective(Shown)
<1>1. hits \in Seq(Docs) /\ ContextTopN \in Int /\ ContextTopN >= 0
  BY Limits DEF QuestionsTypeOK
<1>2. DOMAIN hits = 1..Len(hits)
  BY <1>1
<1>3. QED
  BY <1>1, <1>2, TakeSeq DEF Shown

\* What Generate makes of the answer.
LEMMA GenerateAnswer ==
  ASSUME QuestionsTypeOK, NEW reply \in Replies, NEW failed \in BOOLEAN, Generate(reply, failed)
  PROVE  /\ answer' \in Answers /\ answer'.route = answer.route
         /\ answer'.fields = answer.fields /\ answer'.error = failed
         /\ answer'.sources = IF failed THEN <<>> ELSE Shown
<1>1. /\ reply.mentions \in SUBSET Docs /\ reply.says \in SUBSET Phrases
      /\ answer \in Answers
  BY QuestionsAssumption DEF Phrases, QuestionsTypeOK
<1>2. PICK s \in Seq(Docs) : s = IF failed THEN <<>> ELSE Shown
  <2>1. <<>> \in Seq(Docs) /\ Shown \in Seq(Docs)
    BY ShownOf
  <2>2. (IF failed THEN <<>> ELSE Shown) \in Seq(Docs)
    BY <2>1
  <2>3. QED
    BY <2>2
<1>3. answer' = [answer EXCEPT !.mentions = reply.mentions, !.says = reply.says,
                               !.sources = s, !.error = failed]
  BY <1>2 DEF Generate
<1>4. PICK D \in SUBSET Docs, w \in SUBSET Phrases :
        answer' = [answer EXCEPT !.mentions = D, !.says = w, !.sources = s, !.error = failed]
  BY <1>1, <1>3
<1>5. QED
  BY <1>1, <1>2, <1>4 DEF Answers

LEMMA GenerateType ==
  ASSUME QuestionsTypeOK, NEW reply \in Replies, NEW failed \in BOOLEAN, Generate(reply, failed)
  PROVE  QuestionsTypeOK'
<1>1. /\ pc' = "finish"
      /\ UNCHANGED <<corpusVars, question, ids, asOf, pinned, text, hits, lead, both,
                     targets, counted, rows>>
  BY DEF Generate
<1>2. QED
  BY <1>1, GenerateAnswer, RequestType DEF QuestionsTypeOK

LEMMA CountDocumentsType == ASSUME QuestionsTypeOK, CountDocuments PROVE QuestionsTypeOK'
<1>1. Admitted(Index, question.filter) \in SUBSET Docs
  BY Reads DEF Admitted
<1>2. counted' \in Nat /\ pc' \in {"finish", "list"}
  BY <1>1, DocsFinite DEF CountDocuments
<1>3. UNCHANGED <<corpusVars, question, ids, asOf, pinned, text, hits, lead, both,
                  targets, rows, answer>>
  BY DEF CountDocuments
<1>4. QED
  BY <1>2, <1>3, RequestType DEF QuestionsTypeOK

\* The list answered with the count.
LEMMA ListDocumentsAnswer ==
  ASSUME QuestionsTypeOK, ListDocuments
  PROVE  /\ answer' \in Answers /\ answer'.route = answer.route
         /\ answer'.fields = answer.fields /\ answer'.number = counted
         /\ answer'.sources \in Rankings
         /\ Range(answer'.sources) \subseteq Admitted(Index, question.filter)
         /\ Len(answer'.sources) = Least(Least(counted, MaxListed),
                                       Cardinality(Admitted(Index, question.filter)))
<1>1. PICK s \in Rankings :
        /\ Range(s) \subseteq Admitted(Index, question.filter)
        /\ Len(s) = Least(Least(counted, MaxListed),
                         Cardinality(Admitted(Index, question.filter)))
        /\ answer' = [answer EXCEPT !.number = counted, !.sources = s, !.mentions = Range(s)]
  BY DEF ListDocuments
<1>2. /\ s \in Seq(Docs) /\ Range(s) \in SUBSET Docs /\ counted \in Nat
      /\ answer \in Answers
  BY RankingOf DEF QuestionsTypeOK
<1>3. PICK D \in SUBSET Docs, n \in Nat :
        /\ answer' = [answer EXCEPT !.number = n, !.sources = s, !.mentions = D]
        /\ n = counted
  BY <1>1, <1>2
<1>4. /\ answer' \in Answers /\ answer'.route = answer.route /\ answer'.sources = s
      /\ answer'.fields = answer.fields /\ answer'.number = counted
  BY <1>2, <1>3 DEF Answers
<1>5. QED
  BY <1>1, <1>4

LEMMA ListDocumentsType == ASSUME QuestionsTypeOK, ListDocuments PROVE QuestionsTypeOK'
<1>1. /\ pc' = "finish"
      /\ UNCHANGED <<corpusVars, question, ids, asOf, pinned, text, hits, lead, both,
                     targets, counted, rows>>
  BY DEF ListDocuments
<1>2. QED
  BY <1>1, ListDocumentsAnswer, RequestType DEF QuestionsTypeOK

LEMMA FindCodedType == ASSUME QuestionsTypeOK, FindCoded PROVE QuestionsTypeOK'
<1>1. hits' \in Seq(Docs)
  BY KeptOf, QuestionsAssumption DEF FindCoded
<1>2. /\ pc' \in {"finish", "relations"}
      /\ UNCHANGED <<corpusVars, question, ids, asOf, pinned, text, lead, both, targets,
                     counted, rows, answer>>
  BY DEF FindCoded
<1>3. QED
  BY <1>1, <1>2, RequestType DEF QuestionsTypeOK

LEMMA RelateCodedAnswer ==
  ASSUME QuestionsTypeOK, RelateCoded
  PROVE  /\ answer' \in Answers /\ answer'.route = answer.route
         /\ answer'.fields = answer.fields /\ answer'.sources = hits
<1>1. /\ hits \in Seq(Docs) /\ Range(hits) \in SUBSET Docs /\ Len(hits) \in Nat
      /\ answer \in Answers
  BY DEF QuestionsTypeOK, Range
<1>2. answer' = [answer EXCEPT !.sources = hits, !.mentions = Range(hits),
                               !.number = Len(hits)]
  BY DEF RelateCoded
<1>3. PICK s \in Seq(Docs), D \in SUBSET Docs, n \in Nat :
        answer' = [answer EXCEPT !.sources = s, !.mentions = D, !.number = n] /\ s = hits
  BY <1>1, <1>2
<1>4. QED
  BY <1>1, <1>3 DEF Answers

LEMMA RelateCodedType == ASSUME QuestionsTypeOK, RelateCoded PROVE QuestionsTypeOK'
<1>1. /\ pc' = "finish"
      /\ UNCHANGED <<corpusVars, question, ids, asOf, pinned, text, hits, lead, both,
                     targets, counted, rows>>
  BY DEF RelateCoded
<1>2. QED
  BY <1>1, RelateCodedAnswer, RequestType DEF QuestionsTypeOK

\* The answer with the stored fields, or none of them.
LEMMA LookUpFieldsAnswer ==
  ASSUME QuestionsTypeOK, LookUpFields
  PROVE  /\ answer' \in Answers /\ answer'.route = answer.route
         /\ \/ /\ pc' = "finish" /\ answer'.sources = hits
               /\ answer'.fields = answer.fields
            \/ /\ pc' = "rows" /\ answer'.sources = answer.sources
               /\ answer'.fields = {}
<1>1. /\ hits \in Seq(Docs) /\ Range(hits) \in SUBSET Docs /\ 0 \in Nat /\ answer \in Answers
      /\ "none" \in Routes /\ {} \in SUBSET DOMAIN Pattern
  BY DEF QuestionsTypeOK, Range, Routes
<1>2. \/ pc' = "finish" /\ answer' = [answer EXCEPT !.sources = hits,
                                                    !.mentions = Range(hits)]
      \/ pc' = "rows" /\ answer' = [answer EXCEPT !.fields = {}]
  BY DEF LookUpFields
<1>3. CASE pc' = "finish" /\ answer' = [answer EXCEPT !.sources = hits,
                                                     !.mentions = Range(hits)]
  <2>1. PICK s \in Seq(Docs), D \in SUBSET Docs :
          answer' = [answer EXCEPT !.sources = s, !.mentions = D] /\ s = hits
    BY <1>1, <1>3
  <2>2. QED
    BY <1>1, <1>3, <2>1 DEF Answers
<1>4. CASE pc' = "rows" /\ answer' = [answer EXCEPT !.fields = {}]
  BY <1>1, <1>4, FieldsUpdate
<1>5. QED
  BY <1>2, <1>3, <1>4

LEMMA LookUpFieldsType == ASSUME QuestionsTypeOK, LookUpFields PROVE QuestionsTypeOK'
<1>1. UNCHANGED <<corpusVars, question, ids, asOf, pinned, text, hits, lead, both,
                  targets, counted, rows>>
  BY DEF LookUpFields
<1>2. QED
  BY <1>1, LookUpFieldsAnswer, RequestType DEF QuestionsTypeOK

\* The end of a request, with its answer or without.
LEMMA ForgetType ==
  ASSUME QuestionsTypeOK, Forget, pc' = "idle", answer' \in Answers,
         UNCHANGED <<corpusVars, question, asOf, pinned>>
  PROVE  QuestionsTypeOK'
<1>1. /\ <<>> \in Seq(Docs) /\ <<>> \in Rankings /\ 0 \in Nat /\ {} \subseteq Docs
  BY RankingOf
<1>2. QED
  BY <1>1, RequestType DEF QuestionsTypeOK, Forget

\* Every step keeps the types.
LEMMA TypeStep ==
  ASSUME QuestionsTypeOK, [QuestionsNext]_questionsVars
  PROVE  QuestionsTypeOK'
<1>1. CASE ChangeCorpus
  BY <1>1, CorpusType
<1>2. CASE \E q \in Asked : Ask(q)
  BY <1>2, AskType
<1>3. CASE Handle
  BY <1>3, ResolveType, SearchTextType, SearchVectorType, FetchTargetsType, PlaceTargetsType,
     FetchRowsType, FetchLinesType, GenerateType, CountDocumentsType, ListDocumentsType,
     FindCodedType, RelateCodedType, LookUpFieldsType DEF Handle
<1>4. CASE Raise
  BY <1>4, ForgetType, BlankAnswer DEF Raise
<1>5. CASE Finish
  BY <1>5, ForgetType DEF Finish, QuestionsTypeOK
<1>6. CASE UNCHANGED questionsVars
  BY <1>6 DEF questionsVars, corpusVars, requestVars, QuestionsTypeOK
<1>7. QED
  BY <1>1, <1>2, <1>3, <1>4, <1>5, <1>6 DEF QuestionsNext

LEMMA TypeInit == QuestionsInit => QuestionsTypeOK
<1> SUFFICES ASSUME QuestionsInit PROVE QuestionsTypeOK
  OBVIOUS
<1>1. PICK c \in Corpora : history = <<c>> /\ live = 1 /\ asOf = 1
  BY DEF QuestionsInit
<1>2. history \in Seq(Corpora) /\ live \in 1..Len(history) /\ asOf \in 1..live
  BY <1>1
<1>3. question \in Asked
  BY QuestionsAssumption DEF QuestionsInit
<1>4. QED
  BY <1>2, <1>3, RankingOf, BlankAnswer DEF QuestionsInit, QuestionsTypeOK

\* The variables of a request, the committed states and the live index keep their
\* types (QuestionsTypeOK), for any corpora and limits.
THEOREM QuestionsTypeCorrect == QuestionsSpec => []QuestionsTypeOK
  BY TypeInit, TypeStep, PTL DEF QuestionsSpec
-----------------------------------------------------------------------------
\* The pinned documents, the hits and the sources each name a document once, and
\* targets not yet placed are not pinned.
Distinct ==
  /\ IsInjective(pinned) /\ IsInjective(hits) /\ IsInjective(answer.sources)
  /\ pc = "place" => Range(pinned) \cap Range(targets) = {}

LEMMA NothingTwice == IsInjective(<<>>)
  BY DEF IsInjective

\* Every step keeps them distinct.
LEMMA DistinctStep ==
  ASSUME QuestionsTypeOK, Distinct, [QuestionsNext]_questionsVars
  PROVE  Distinct'
<1>0. /\ pinned \in Seq(Docs) /\ hits \in Seq(Docs) /\ ids \in Seq(Docs)
      /\ answer \in Answers /\ RetrievalSize \in Nat
  BY Limits DEF QuestionsTypeOK
<1>1. CASE ChangeCorpus
  BY <1>1 DEF ChangeCorpus, Commit, Publish, requestVars, Distinct
<1>2. CASE \E q \in Asked : Ask(q)
  <2>1. /\ pinned' = <<>> /\ hits' = hits /\ pc' # "place"
        /\ answer'.sources = <<>>
    <3>1. "error_code" \in Routes
      BY DEF Routes
    <3>2. [NoAnswer EXCEPT !.route = "error_code"].sources = <<>> /\ NoAnswer.sources = <<>>
      BY <3>1, BlankAnswer, RouteUpdate
    <3>3. QED
      BY <1>2, <3>2 DEF Ask
  <2>2. QED
    BY <2>1, NothingTwice DEF Distinct
<1>3. CASE Resolve
  <2> DEFINE D == (Range(ids) \cap DOMAIN Index.docs) \cap Admitted(Index, question.filter)
  <2>1. pinned' \in Kept(ids, D) /\ (hits' = hits \/ hits' = pinned') /\ pc' # "place"
    BY <1>3 DEF Resolve
  <2> HIDE DEF D
  <2>2. IsInjective(pinned')
    BY <1>0, <2>1, KeptOf
  <2>3. answer'.sources = <<>> \/ answer' = answer
    BY <1>3, ResolveAnswer
  <2>4. QED
    BY <2>1, <2>2, <2>3, NothingTwice DEF Distinct
<1>4. CASE SearchText
  BY <1>4 DEF SearchText, Distinct
<1>5. CASE SearchVector
  <2>1. PICK v \in Rankings, s \in Seq(Docs) :
          /\ IsInjective(s) /\ Take(s, RetrievalSize) \in Seq(Docs)
          /\ \/ Pin(Take(s, RetrievalSize))
             \/ \E score \in IF Range(Take(s, RetrievalSize)) \cap Range(v) = {}
                             THEN {"none"} ELSE {"low", "high"} :
                  Route(Take(s, RetrievalSize), score)
    BY <1>5, SearchVectorReads
  <2> DEFINE top == Take(s, RetrievalSize)
  <2>2. IsInjective(top)
    BY <1>0, <2>1, TakeSeq
  <2> HIDE DEF top
  <2>3. hits' = top \/ hits' \in Fronted(pinned, top)
    BY <2>1 DEF Pin, Route, top
  <2>4. IsInjective(hits')
    BY <1>0, <2>1, <2>2, <2>3, FrontedOf DEF Distinct, top
  <2>5. answer'.sources = <<>> /\ pinned' = pinned /\ pc' # "place"
    BY <1>5, SearchVectorAnswer
  <2>6. QED
    BY <2>4, <2>5, NothingTwice DEF Distinct
<1>6. CASE FetchTargets
  BY <1>6, FetchTargetsReads DEF FetchTargets, Distinct
<1>7. CASE PlaceTargets
  <2>1. PICK added \in Seq(Docs) :
          /\ pinned \o added \in Seq(Docs) /\ hits' \in Fronted(pinned \o added, hits)
          /\ Range(pinned) \cap Range(targets) = {} /\ IsInjective(pinned) =>
                IsInjective(pinned \o added)
    BY <1>7, PlaceTargetsReads
  <2>2. IsInjective(pinned \o added)
    BY <1>7, <2>1 DEF PlaceTargets, Distinct
  <2>3. IsInjective(hits')
    BY <1>0, <2>1, <2>2, FrontedOf
  <2>4. QED
    BY <1>7, <2>3 DEF PlaceTargets, Distinct
<1>8. CASE FetchRows \/ FetchLines \/ CountDocuments
  BY <1>8 DEF FetchRows, FetchLines, CountDocuments, Distinct
<1>9. CASE \E reply \in Replies, failed \in BOOLEAN : Generate(reply, failed)
  <2>1. PICK reply \in Replies, failed \in BOOLEAN : Generate(reply, failed)
    BY <1>9
  <2>2. answer'.sources = <<>> \/ answer'.sources = Shown
    BY <2>1, GenerateAnswer
  <2>3. IsInjective(answer'.sources)
    BY <2>2, ShownOf, NothingTwice DEF Distinct
  <2>4. QED
    BY <2>1, <2>3 DEF Generate, Distinct
<1>10. CASE ListDocuments
  <2>1. IsInjective(answer'.sources)
    BY <1>10, ListDocumentsAnswer, RankingOf
  <2>2. QED
    BY <1>10, <2>1 DEF ListDocuments, Distinct
<1>11. CASE FindCoded
  <2>1. IsInjective(hits')
    BY <1>11, KeptOf, QuestionsAssumption DEF FindCoded
  <2>2. QED
    BY <1>11, <2>1 DEF FindCoded, Distinct
<1>12. CASE RelateCoded
  BY <1>12, RelateCodedAnswer DEF RelateCoded, Distinct
<1>13. CASE LookUpFields
  <2>1. IsInjective(answer'.sources) /\ pc' # "place"
    BY <1>13, LookUpFieldsAnswer DEF Distinct
  <2>2. QED
    BY <1>13, <2>1 DEF LookUpFields, Distinct
<1>14. CASE Raise
  BY <1>14, BlankAnswer, NothingTwice DEF Raise, Forget, Distinct
<1>15. CASE Finish
  BY <1>15, NothingTwice DEF Finish, Forget, Distinct
<1>16. CASE UNCHANGED questionsVars
  BY <1>16 DEF questionsVars, requestVars, Distinct
<1>17. QED
  BY <1>1, <1>2, <1>3, <1>4, <1>5, <1>6, <1>7, <1>8, <1>9, <1>10, <1>11, <1>12, <1>13,
     <1>14, <1>15, <1>16 DEF QuestionsNext, Handle

\* No document is named twice among an answer's sources (SourcesOnce), however the
\* lookup of IDs, the two legs and the references overlap.
THEOREM SourcesNamedOnce == QuestionsSpec => []SourcesOnce
<1>1. QuestionsInit => Distinct
  BY BlankAnswer, NothingTwice DEF QuestionsInit, Distinct
<1>2. Distinct => SourcesOnce
  BY DEF Distinct, SourcesOnce
<1>3. QED
  BY <1>1, <1>2, DistinctStep, QuestionsTypeCorrect, PTL DEF QuestionsSpec

-----------------------------------------------------------------------------
\* What a request has made of its answer when it gets to each of its steps.
Routed ==
  /\ pc \in {"resolve", "text", "vector"} => answer = NoAnswer
  /\ pc \in {"codes", "relations"} => answer.route = "error_code"
  /\ pc = "fields" => answer.route = "field_lookup" /\ hits = pinned
  /\ pc \in {"count", "list"} =>
       answer.route = "deterministic" /\ answer.number = 0 /\ answer.sources = <<>>
  /\ pc \in {"targets", "place", "rows", "lines", "generate"} =>
       answer.route \in {"semantic", "field_lookup"}

\* Every step keeps the answer what its route makes of it.
LEMMA RoutedStep ==
  ASSUME QuestionsTypeOK, Routed, [QuestionsNext]_questionsVars
  PROVE  Routed'
<1>1. CASE ChangeCorpus
  BY <1>1 DEF ChangeCorpus, Commit, Publish, requestVars, Routed
<1>2. CASE \E q \in Asked : Ask(q)
  <2>1. "error_code" \in Routes
    BY DEF Routes
  <2>2. [NoAnswer EXCEPT !.route = "error_code"].route = "error_code"
    BY <2>1, BlankAnswer, RouteUpdate
  <2>3. \/ pc' = "codes" /\ answer' = [NoAnswer EXCEPT !.route = "error_code"]
        \/ pc' \in {"text", "resolve"} /\ answer' = NoAnswer
    BY <1>2 DEF Ask
  <2>4. QED
    BY <2>2, <2>3 DEF Routed
<1>3. CASE Resolve
  BY <1>3, ResolveAnswer DEF Resolve, Routed
<1>4. CASE SearchText
  BY <1>4 DEF SearchText, Routed
<1>5. CASE SearchVector
  BY <1>5, SearchVectorAnswer DEF Routed
<1>6. CASE FetchTargets \/ PlaceTargets \/ FetchRows \/ FetchLines
  BY <1>6 DEF FetchTargets, PlaceTargets, FetchRows, FetchLines, Routed
<1>7. CASE \E reply \in Replies, failed \in BOOLEAN : Generate(reply, failed)
  BY <1>7 DEF Generate, Routed
<1>8. CASE CountDocuments
  BY <1>8 DEF CountDocuments, Routed
<1>9. CASE ListDocuments \/ RelateCoded \/ Raise \/ Finish
  BY <1>9 DEF ListDocuments, RelateCoded, Raise, Finish, Routed
<1>10. CASE FindCoded
  BY <1>10 DEF FindCoded, Routed
<1>11. CASE LookUpFields
  BY <1>11, LookUpFieldsAnswer DEF LookUpFields, Routed
<1>12. CASE UNCHANGED questionsVars
  BY <1>12 DEF questionsVars, requestVars, Routed
<1>13. QED
  BY <1>1, <1>2, <1>3, <1>4, <1>5, <1>6, <1>7, <1>8, <1>9, <1>10, <1>11, <1>12
     DEF QuestionsNext, Handle

LEMMA RoutedAlways == QuestionsSpec => []Routed
<1>1. QuestionsInit => Routed
  BY DEF QuestionsInit, Routed
<1>2. QED
  BY <1>1, RoutedStep, QuestionsTypeCorrect, PTL DEF QuestionsSpec

-----------------------------------------------------------------------------
\* The documents that passed the filters at some time since the question came in.
Passed == {d \in Docs : \E k \in asOf..Len(history) :
                          d \in Admitted(history[k], question.filter)}

\* What a request has found so far passed them.
Filtered ==
  /\ Range(pinned) \cup Range(text) \cup Range(hits) \cup Range(answer.sources)
        \subseteq Passed
  /\ pc = "idle" => text = <<>> /\ hits = <<>>

LEMMA NothingListed == Range(<<>>) = {}
  BY DEF Range

\* What a step reads from the index or from Postgres passed them just then.
LEMMA ReadsPassed ==
  ASSUME QuestionsTypeOK
  PROVE  /\ Admitted(Index, question.filter) \subseteq Passed
         /\ Admitted(Db, question.filter) \subseteq Passed
<1>1. /\ live \in asOf..Len(history) /\ Len(history) \in asOf..Len(history)
      /\ DOMAIN Index.docs \subseteq Docs /\ DOMAIN Db.docs \subseteq Docs
  <2>1. /\ history \in Seq(Corpora) /\ live \in 1..Len(history) /\ asOf \in 1..live
        /\ Len(history) \in Nat
    BY DEF QuestionsTypeOK
  <2>2. QED
    BY <2>1, Reads
<1>2. /\ Admitted(Index, question.filter) \subseteq Docs
      /\ Admitted(Db, question.filter) \subseteq Docs
  BY <1>1 DEF Admitted
<1>3. QED
  BY <1>1, <1>2 DEF Passed, Index, Db

\* What was committed stays where it was in the history.
LEMMA HistoryGrows ==
  ASSUME QuestionsTypeOK, ChangeCorpus
  PROVE  /\ Len(history) \in Nat /\ Len(history') \in Nat /\ Len(history) <= Len(history')
         /\ \A k \in 1..Len(history) : history'[k] = history[k]
<1>1. history \in Seq(Corpora) /\ Len(history) \in Nat
  BY DEF QuestionsTypeOK
<1>2. CASE \E c \in Corpora : Commit(c)
  <2>1. PICK c \in Corpora : history' = Append(history, c)
    BY <1>2 DEF Commit
  <2>2. QED
    BY <1>1, <2>1
<1>3. CASE \E v \in 1..Len(history) : Publish(v)
  BY <1>1, <1>3 DEF Publish
<1>4. QED
  BY <1>2, <1>3 DEF ChangeCorpus

\* Later states of the tables take nothing away from it.
LEMMA PassedGrows ==
  ASSUME QuestionsTypeOK, ChangeCorpus
  PROVE  Passed \subseteq Passed'
<1>1. asOf \in Nat /\ asOf >= 1
  BY Reads DEF QuestionsTypeOK
<1>2. /\ Len(history) \in Nat /\ Len(history') \in Nat /\ Len(history) <= Len(history')
      /\ \A k \in 1..Len(history) : history'[k] = history[k]
  BY HistoryGrows
<1>3. asOf' = asOf /\ question' = question
  BY DEF ChangeCorpus, Commit, Publish, requestVars
<1>4. \A k \in asOf..Len(history) : k \in 1..Len(history) /\ k \in asOf..Len(history')
  BY <1>1, <1>2
<1>5. QED
  BY <1>2, <1>3, <1>4 DEF Passed

\* Every step keeps what is found among what passed.
LEMMA FilteredStep ==
  ASSUME QuestionsTypeOK, Filtered, [QuestionsNext]_questionsVars
  PROVE  Filtered'
<1>0. /\ pinned \in Seq(Docs) /\ hits \in Seq(Docs) /\ ids \in Seq(Docs)
      /\ answer \in Answers /\ RetrievalSize \in Int
  BY Limits DEF QuestionsTypeOK
<1>1. CASE ChangeCorpus
  <2>1. UNCHANGED <<pinned, text, hits, answer, pc>>
    BY <1>1 DEF ChangeCorpus, Commit, Publish, requestVars
  <2>2. QED
    BY <1>1, <2>1, PassedGrows DEF Filtered
<1>2. CASE \E q \in Asked : Ask(q)
  <2>1. pinned' = <<>> /\ text' = <<>> /\ hits' = <<>> /\ pc' # "idle"
    BY <1>2 DEF Ask, Filtered
  <2>2. answer'.sources = <<>>
    <3>1. "error_code" \in Routes
      BY DEF Routes
    <3>2. [NoAnswer EXCEPT !.route = "error_code"].sources = <<>> /\ NoAnswer.sources = <<>>
      BY <3>1, BlankAnswer, RouteUpdate
    <3>3. QED
      BY <1>2, <3>2 DEF Ask
  <2>3. QED
    BY <2>1, <2>2, NothingListed DEF Filtered
<1>3. CASE Handle \/ Raise \/ Finish \/ UNCHANGED questionsVars
  <2>1. Passed' = Passed
    BY <1>3 DEF Handle, Resolve, SearchText, SearchVector, FetchTargets, PlaceTargets,
       FetchRows, FetchLines, Generate, CountDocuments, ListDocuments, FindCoded,
       RelateCoded, LookUpFields, Raise, Finish, questionsVars, requestVars, corpusVars,
       Passed
  <2>2. CASE Resolve
    <3> DEFINE D == (Range(ids) \cap DOMAIN Index.docs)
                       \cap Admitted(Index, question.filter)
    <3>1. pinned' \in Kept(ids, D) /\ (hits' = hits \/ hits' = pinned') /\ pc' # "idle"
      BY <2>2 DEF Resolve
    <3>2. D \subseteq Passed
      BY ReadsPassed
    <3> HIDE DEF D
    <3>3. Range(pinned') \subseteq Passed
      <4>1. Range(pinned') = Range(ids) \cap D
        BY <1>0, <3>1, KeptOf
      <4>2. QED
        BY <3>2, <4>1
    <3>4. answer'.sources = <<>> \/ answer' = answer
      BY <2>2, ResolveAnswer
    <3>5. text' = text
      BY <2>2 DEF Resolve
    <3>6. QED
      BY <2>1, <3>1, <3>3, <3>4, <3>5, NothingListed DEF Filtered
  <2>3. CASE SearchText
    <3>1. Range(text') \subseteq Passed
      BY <2>3, ReadsPassed DEF SearchText
    <3>2. QED
      BY <2>1, <2>3, <3>1 DEF SearchText, Filtered
  <2>4. CASE SearchVector
    <3>1. PICK v, s : /\ s \in Seq(Docs) /\ Take(s, RetrievalSize) \in Seq(Docs)
                      /\ Range(v) \subseteq Admitted(Index, question.filter)
                      /\ Range(s) = Range(text) \cup Range(v)
                      /\ \/ Pin(Take(s, RetrievalSize))
                         \/ \E score : Route(Take(s, RetrievalSize), score)
      BY <2>4, SearchVectorReads
    <3> DEFINE top == Take(s, RetrievalSize)
    <3>2. Range(top) \subseteq Range(s)
      BY <1>0, <3>1, TakeSeq
    <3>3. Range(top) \subseteq Passed
      BY <3>1, <3>2, ReadsPassed DEF Filtered
    <3> HIDE DEF top
    <3>4. hits' = top \/ hits' \in Fronted(pinned, top)
      BY <3>1 DEF Pin, Route, top
    <3>5. Range(hits') \subseteq Range(pinned) \cup Range(top)
      BY <1>0, <3>1, <3>4, FrontedOf DEF top
    <3>6. answer'.sources = <<>> /\ pinned' = pinned /\ text' = <<>> /\ pc' # "idle"
      BY <2>4, SearchVectorAnswer
    <3>7. QED
      BY <2>1, <3>3, <3>5, <3>6, NothingListed DEF Filtered
  <2>5. CASE PlaceTargets
    <3>1. PICK added \in Seq(Docs) :
            /\ Range(added) \subseteq Admitted(Index, question.filter)
            /\ pinned \o added \in Seq(Docs)
            /\ Range(pinned \o added) = Range(pinned) \cup Range(added)
            /\ hits' \in Fronted(pinned \o added, hits)
      BY <2>5, PlaceTargetsReads
    <3>2. Range(hits') \subseteq Range(pinned \o added) \cup Range(hits)
      <4> DEFINE front == pinned \o added
      <4>1. front \in Seq(Docs) /\ hits' \in Fronted(front, hits)
        BY <3>1
      <4> HIDE DEF front
      <4>2. Range(hits') \subseteq Range(front) \cup Range(hits)
        BY <1>0, <4>1, FrontedOf
      <4>3. QED
        BY <4>2 DEF front
    <3>3. Range(hits') \subseteq Passed
      BY <3>1, <3>2, ReadsPassed DEF Filtered
    <3>4. QED
      BY <2>1, <2>5, <3>3 DEF PlaceTargets, Filtered
  <2>6. CASE \E reply \in Replies, failed \in BOOLEAN : Generate(reply, failed)
    <3>1. PICK reply \in Replies, failed \in BOOLEAN : Generate(reply, failed)
      BY <2>6
    <3>2. answer'.sources = <<>> \/ answer'.sources = Shown
      BY <3>1, GenerateAnswer
    <3>3. Range(answer'.sources) \subseteq Passed
      BY <3>2, ShownOf, NothingListed DEF Filtered
    <3>4. QED
      BY <2>1, <3>1, <3>3 DEF Generate, Filtered
  <2>7. CASE ListDocuments
    <3>1. Range(answer'.sources) \subseteq Passed
      BY <2>7, ListDocumentsAnswer, ReadsPassed
    <3>2. QED
      BY <2>1, <2>7, <3>1 DEF ListDocuments, Filtered
  <2>8. CASE FindCoded
    <3> DEFINE D == {d \in Db.coded : Passes(Db.docs[d], question.filter)}
    <3>1. hits' \in Kept(IdOrder, D) /\ pc' # "idle"
      BY <2>8 DEF FindCoded
    <3>2. D \subseteq Passed
      <4>1. D \subseteq Admitted(Db, question.filter)
        BY Reads DEF Admitted
      <4>2. QED
        BY <4>1, ReadsPassed
    <3> HIDE DEF D
    <3>3. Range(hits') \subseteq Passed
      <4>1. IdOrder \in Seq(Docs)
        BY QuestionsAssumption
      <4>2. Range(hits') = Range(IdOrder) \cap D
        BY <3>1, <4>1, KeptOf
      <4>3. QED
        BY <3>2, <4>2
    <3>4. QED
      BY <2>1, <2>8, <3>1, <3>3 DEF FindCoded, Filtered
  <2>9. CASE RelateCoded
    BY <2>1, <2>9, RelateCodedAnswer DEF RelateCoded, Filtered
  <2>10. CASE LookUpFields
    <3>1. answer'.sources \in {hits, answer.sources} /\ pc' # "idle"
      BY <2>10, LookUpFieldsAnswer
    <3>2. QED
      BY <2>1, <2>10, <3>1 DEF LookUpFields, Filtered
  <2>11. CASE FetchTargets \/ FetchRows \/ FetchLines \/ CountDocuments
    BY <2>1, <2>11 DEF FetchTargets, FetchRows, FetchLines, CountDocuments, Filtered
  <2>12. CASE Raise \/ Finish
    <3>1. /\ pinned' = pinned /\ text' = <<>> /\ hits' = <<>>
          /\ answer' = answer \/ answer' = NoAnswer
      BY <2>12 DEF Raise, Finish, Forget
    <3>2. answer'.sources = answer.sources \/ answer'.sources = <<>>
      BY <3>1, BlankAnswer
    <3>3. QED
      BY <2>1, <3>1, <3>2, NothingListed DEF Filtered
  <2>13. CASE UNCHANGED questionsVars
    BY <2>1, <2>13 DEF questionsVars, requestVars, Filtered
  <2>14. QED
    BY <1>3, <2>2, <2>3, <2>4, <2>5, <2>6, <2>7, <2>8, <2>9, <2>10, <2>11, <2>12, <2>13
       DEF Handle
<1>4. QED
  BY <1>1, <1>2, <1>3 DEF QuestionsNext

\* Every source of an answer passed the question's filters in some state of the
\* index or the tables while it was answered (SourcesPassFilter).
THEOREM SourcesPassedFilter == QuestionsSpec => []SourcesPassFilter
<1>1. QuestionsInit => Filtered
  BY BlankAnswer, NothingListed DEF QuestionsInit, Filtered
<1>2. Filtered => SourcesPassFilter
  BY DEF Filtered, Passed, SourcesPassFilter
<1>3. QED
  BY <1>1, <1>2, FilteredStep, QuestionsTypeCorrect, PTL DEF QuestionsSpec

-----------------------------------------------------------------------------
\* The fields requested_fields() finds, if any, cover every field word.
LEMMA RequestedCover ==
  ASSUME NEW q \in Asked, NEW type, RequestedFields(q, type) # {}, NEW word \in q.words
  PROVE  \E f \in RequestedFields(q, type) : word \in Pattern[f]
<1> DEFINE asked == {f \in DOMAIN Pattern : Pattern[f] \cap q.words # {}}
           F == RequestedFields(q, type)
<1>1. word \in Words
  BY QuestionsAssumption
<1>2. /\ F = asked \cap OwnedBy(type)
      /\ asked \subseteq OwnedBy(type) \cup {"steps"} \cup
           (IF "reproduce" \in q.words THEN {} ELSE {"steps_to_reproduce"})
  BY DEF RequestedFields
<1>3. \A f \in DOMAIN Pattern : word \in Pattern[f] => f \in asked
  OBVIOUS
<1>4. /\ DOMAIN Pattern = {"steps_to_reproduce", "description", "preconditions", "steps",
                          "expected_result", "status", "module"}
      /\ Pattern["steps_to_reproduce"] = {"steps", "reproduce"}
      /\ Pattern["description"] = {"description"}
      /\ Pattern["preconditions"] = {"preconditions"} /\ Pattern["steps"] = {"steps"}
      /\ Pattern["expected_result"] = {"expected result"}
      /\ Pattern["status"] = {"status"} /\ Pattern["module"] = {"module"}
  BY DEF Pattern
<1> HIDE DEF asked, F
<1>5. CASE word = "steps"
  <2>1. {"steps", "steps_to_reproduce"} \subseteq asked
    BY <1>3, <1>4, <1>5
  <2>2. "steps" \in OwnedBy(type) \/ "steps_to_reproduce" \in OwnedBy(type)
    BY DEF OwnedBy
  <2>3. QED
    BY <1>2, <1>4, <1>5, <2>1, <2>2 DEF F
<1>6. CASE word = "reproduce"
  <2>1. "steps_to_reproduce" \in asked
    BY <1>3, <1>4, <1>6
  <2>2. "steps_to_reproduce" \in OwnedBy(type)
    BY <1>2, <1>6, <2>1
  <2>3. QED
    BY <1>2, <1>4, <1>6, <2>1, <2>2 DEF F
<1>7. CASE word \in Words \ {"steps", "reproduce"}
  <2>1. PICK f \in {"description", "preconditions", "expected_result", "status", "module"} :
          word \in Pattern[f]
    BY <1>4, <1>7 DEF Words
  <2>2. f \in asked
    BY <1>3, <1>4, <2>1
  <2>3. f \in OwnedBy(type)
    BY <1>2, <2>1, <2>2
  <2>4. QED
    BY <1>2, <2>1, <2>2, <2>3 DEF F
<1>8. QED
  BY <1>1, <1>5, <1>6, <1>7

\* The fields of the answer, from the moment they are decided.
Covered == answer.fields # {} =>
  \A word \in question.words : \E f \in answer.fields : word \in Pattern[f]

\* Every step keeps them covering the question.
LEMMA CoveredStep ==
  ASSUME QuestionsTypeOK, Routed, Covered, [QuestionsNext]_questionsVars
  PROVE  Covered'
<1>1. CASE \E q \in Asked : Ask(q)
  <2>1. "error_code" \in Routes
    BY DEF Routes
  <2>2. [NoAnswer EXCEPT !.route = "error_code"].fields = {} /\ NoAnswer.fields = {}
    BY <2>1, BlankAnswer, RouteUpdate
  <2>3. answer'.fields = {}
    BY <1>1, <2>2 DEF Ask
  <2>4. QED
    BY <2>3 DEF Covered
<1>2. CASE Resolve
  <2>1. question' = question /\ question \in Asked
    BY <1>2 DEF Resolve, QuestionsTypeOK
  <2>2. CASE answer'.fields = {} \/ answer' = answer
    BY <2>1, <2>2 DEF Covered
  <2>3. CASE answer'.fields # {} /\ \E type : answer'.fields = RequestedFields(question, type)
    <3>1. PICK type : answer'.fields = RequestedFields(question, type)
      BY <2>3
    <3>2. \A word \in question.words :
            \E f \in RequestedFields(question, type) : word \in Pattern[f]
      BY <2>1, <2>3, <3>1, RequestedCover
    <3>3. QED
      BY <2>1, <3>1, <3>2 DEF Covered
  <2>4. QED
    BY <1>2, <2>2, <2>3, ResolveAnswer
<1>3. CASE SearchVector
  <2>1. answer'.fields = {}
    BY <1>3, SearchVectorAnswer
  <2>2. QED
    BY <2>1 DEF Covered
<1>4. CASE \E reply \in Replies, failed \in BOOLEAN : Generate(reply, failed)
  <2>1. PICK reply \in Replies, failed \in BOOLEAN : Generate(reply, failed)
    BY <1>4
  <2>2. answer'.fields = answer.fields /\ question' = question
    BY <2>1, GenerateAnswer DEF Generate
  <2>3. QED
    BY <2>2 DEF Covered
<1>5. CASE ListDocuments
  <2>1. answer'.fields = answer.fields /\ question' = question
    BY <1>5, ListDocumentsAnswer DEF ListDocuments
  <2>2. QED
    BY <2>1 DEF Covered
<1>6. CASE RelateCoded
  <2>1. answer'.fields = answer.fields /\ question' = question
    BY <1>6, RelateCodedAnswer DEF RelateCoded
  <2>2. QED
    BY <2>1 DEF Covered
<1>7. CASE LookUpFields
  <2>1. answer'.fields \in {answer.fields, {}} /\ question' = question
    BY <1>7, LookUpFieldsAnswer DEF LookUpFields
  <2>2. QED
    BY <2>1 DEF Covered
<1>8. CASE Raise
  BY <1>8, BlankAnswer DEF Raise, Covered
<1>9. CASE \/ ChangeCorpus \/ SearchText \/ FetchTargets \/ PlaceTargets \/ FetchRows
           \/ FetchLines \/ CountDocuments \/ FindCoded \/ Finish
           \/ UNCHANGED questionsVars
  <2>1. UNCHANGED <<answer, question>>
    BY <1>9 DEF ChangeCorpus, Commit, Publish, SearchText, FetchTargets, PlaceTargets,
       FetchRows, FetchLines, CountDocuments, FindCoded, Finish, questionsVars, requestVars
  <2>2. QED
    BY <2>1 DEF Covered
<1>10. QED
  BY <1>1, <1>2, <1>3, <1>4, <1>5, <1>6, <1>7, <1>8, <1>9 DEF QuestionsNext, Handle

\* An answer made of stored fields leaves out no field the question asks for
\* (FieldsAnswerAll), whatever words it uses and whichever type the document is.
THEOREM FieldsAlwaysAnswerAll == QuestionsSpec => []FieldsAnswerAll
<1>1. QuestionsInit => Covered
  BY BlankAnswer DEF QuestionsInit, Covered
<1>2. Covered => FieldsAnswerAll
  BY DEF Covered, FieldsAnswerAll
<1>3. QED
  BY <1>1, <1>2, CoveredStep, QuestionsTypeCorrect, RoutedAlways, PTL DEF QuestionsSpec

-----------------------------------------------------------------------------
\* The index does not move under a step that does not publish one.
LEMMA IndexMoves ==
  ASSUME QuestionsTypeOK, ChangeCorpus
  PROVE  /\ UNCHANGED requestVars
         /\ asOf' = live' => asOf = live /\ Index' = Index
<1>1. UNCHANGED requestVars
  BY DEF ChangeCorpus, Commit, Publish
<1>2. /\ history \in Seq(Corpora) /\ live \in 1..Len(history) /\ asOf \in 1..live
      /\ Len(history) \in Nat
  BY DEF QuestionsTypeOK
<1>3. CASE \E c \in Corpora : Commit(c)
  <2>1. PICK c \in Corpora : history' = Append(history, c) /\ live' = live
    BY <1>3 DEF Commit
  <2>2. Index' = Index
    BY <1>2, <2>1 DEF Index
  <2>3. QED
    BY <1>1, <2>1, <2>2 DEF requestVars
<1>4. CASE \E v \in 1..Len(history) : Publish(v)
  <2>1. PICK v \in 1..Len(history) : v > live /\ live' = v /\ asOf' = asOf
    BY <1>1, <1>4 DEF Publish, requestVars
  <2>2. asOf' # live'
    BY <1>2, <2>1
  <2>3. QED
    BY <1>1, <2>2
<1>5. QED
  BY <1>3, <1>4 DEF ChangeCorpus

\* The number and the list of a count agree.
Tallied ==
  /\ Len(answer.sources) <= answer.number
  /\ asOf = live =>
       /\ answer.number = Cardinality(Admitted(Index, question.filter))
       /\ Len(answer.sources) = Least(answer.number, MaxListed)

\* What a count has found so far.
Counted ==
  /\ pc = "list" /\ asOf = live => counted = Cardinality(Admitted(Index, question.filter))
  /\ pc \in {"finish", "idle"} /\ answer.route = "deterministic" => Tallied

\* Every step keeps it true of the index.
LEMMA CountedStep ==
  ASSUME QuestionsTypeOK, Routed, Counted, [QuestionsNext]_questionsVars
  PROVE  Counted'
<1>1. CASE ChangeCorpus
  BY <1>1, IndexMoves DEF requestVars, Counted, Tallied
<1>2. CASE \E q \in Asked : Ask(q)
  BY <1>2 DEF Ask, Counted
<1>3. CASE Resolve
  BY <1>3, ResolveAnswer DEF Counted
<1>4. CASE SearchVector
  BY <1>4, SearchVectorAnswer DEF Counted
<1>5. CASE SearchText \/ FetchTargets \/ PlaceTargets \/ FetchRows \/ FetchLines
  BY <1>5 DEF SearchText, FetchTargets, PlaceTargets, FetchRows, FetchLines, Counted
<1>6. CASE \E reply \in Replies, failed \in BOOLEAN : Generate(reply, failed)
  <2>1. answer'.route = answer.route /\ answer.route # "deterministic" /\ pc' = "finish"
    BY <1>6, GenerateAnswer DEF Generate, Routed
  <2>2. QED
    BY <2>1 DEF Counted
<1>7. CASE CountDocuments
  <2>1. /\ counted' = Cardinality(Admitted(Index, question.filter))
        /\ answer' = answer /\ Index' = Index /\ question' = question
        /\ asOf' = asOf /\ live' = live
        /\ answer.number = 0 /\ answer.sources = <<>>
        /\ pc' = IF counted' = 0 THEN "finish" ELSE "list"
    BY <1>7 DEF CountDocuments, corpusVars, Index, Routed
  <2>2. Len(<<>>) = 0 /\ Least(0, MaxListed) = 0
    BY Limits DEF Least
  <2>3. pc' = "finish" => Tallied'
    BY <2>1, <2>2 DEF Tallied
  <2>4. QED
    BY <2>1, <2>3 DEF Counted
<1>8. CASE ListDocuments
  <2> DEFINE found == Cardinality(Admitted(Index, question.filter))
  <2>1. /\ answer'.number = counted
        /\ Len(answer'.sources) = Least(Least(counted, MaxListed), found)
    BY <1>8, ListDocumentsAnswer
  <2>2. counted \in Nat /\ MaxListed \in Nat /\ found \in Nat
    <3>1. Admitted(Index, question.filter) \in SUBSET Docs
      BY Reads DEF Admitted
    <3>2. QED
      BY <3>1, DocsFinite, Limits DEF QuestionsTypeOK
  <2>3. /\ pc = "list" /\ pc' = "finish" /\ UNCHANGED <<asOf, live, question>>
        /\ Index' = Index
    BY <1>8 DEF ListDocuments, corpusVars, Index
  <2>4. asOf = live => counted = found
    BY <2>3 DEF Counted
  <2>5. /\ Least(Least(counted, MaxListed), found) <= counted
        /\ counted = found =>
             Least(Least(counted, MaxListed), found) = Least(counted, MaxListed)
    <3> HIDE DEF found
    <3>1. QED
      BY <2>2 DEF Least
  <2>6. Tallied'
    BY <2>1, <2>3, <2>4, <2>5 DEF Tallied
  <2>7. QED
    BY <2>3, <2>6 DEF Counted
<1>9. CASE FindCoded
  BY <1>9 DEF FindCoded, Routed, Counted
<1>10. CASE RelateCoded
  <2>1. answer'.route = answer.route /\ answer.route = "error_code" /\ pc' = "finish"
    BY <1>10, RelateCodedAnswer DEF RelateCoded, Routed
  <2>2. QED
    BY <2>1 DEF Counted
<1>11. CASE LookUpFields
  <2>1. answer'.route = answer.route /\ answer.route = "field_lookup" /\ pc' # "list"
    BY <1>11, LookUpFieldsAnswer DEF LookUpFields, Routed
  <2>2. QED
    BY <2>1 DEF Counted
<1>12. CASE Raise
  BY <1>12, BlankAnswer DEF Raise, Counted
<1>13. CASE Finish
  <2>1. /\ pc = "finish" /\ pc' = "idle" /\ Index' = Index
        /\ UNCHANGED <<answer, asOf, live, question>>
    BY <1>13 DEF Finish, corpusVars, Index
  <2>2. QED
    BY <2>1 DEF Counted, Tallied
<1>14. CASE UNCHANGED questionsVars
  BY <1>14 DEF questionsVars, requestVars, corpusVars, Index, Counted, Tallied
<1>15. QED
  BY <1>1, <1>2, <1>3, <1>4, <1>5, <1>6, <1>7, <1>8, <1>9, <1>10, <1>11, <1>12, <1>13,
     <1>14 DEF QuestionsNext, Handle

\* The number of a count and the list under it agree (CountConsistent): the list is
\* never longer, and the same documents when the alias stayed where it was.
THEOREM CountAlwaysConsistent == QuestionsSpec => []CountConsistent
<1>1. QuestionsInit => Counted
  BY BlankAnswer DEF QuestionsInit, Counted
<1>2. Counted => CountConsistent
  BY DEF Counted, Tallied, CountConsistent, Answered
<1>3. QED
  BY <1>1, <1>2, CountedStep, QuestionsTypeCorrect, RoutedAlways, PTL DEF QuestionsSpec

-----------------------------------------------------------------------------
\* While documents match the filter and the vector leg cannot miss them, a filtered
\* count is in the domain.
LEMMA NotRefused ==
  ASSUME QuestionsTypeOK, SearchVector, question.counts, DOMAIN question.filter # {},
         Range(text) \subseteq Admitted(Index, question.filter),
         Admitted(Index, question.filter) # {},
         Cardinality(DOMAIN Index.docs) <= MaxPool
  PROVE  answer'.route # "reject"
<1> DEFINE D == Admitted(Index, question.filter)
<1>1. Cardinality(DOMAIN Index.docs) <= KnnPool
  BY DEF MaxPool, KnnPool
<1>2. PICK v, s : /\ Range(v) = D /\ s \in Seq(Docs) /\ Range(s) = Range(text) \cup Range(v)
                  /\ Take(s, RetrievalSize) \in Seq(Docs)
                  /\ \/ Pin(Take(s, RetrievalSize))
                     \/ \E score \in IF Range(Take(s, RetrievalSize)) \cap Range(v) = {}
                                     THEN {"none"} ELSE {"low", "high"} :
                          Route(Take(s, RetrievalSize), score)
  BY <1>1, SearchVectorReads
<1> DEFINE top == Take(s, RetrievalSize)
<1>3. Range(top) # {} /\ Range(top) \subseteq Range(v)
  <2>1. Range(s) = D /\ D # {}
    BY <1>2
  <2> HIDE DEF D
  <2>2. Len(s) \in Nat /\ Len(s) >= 1
    <3>1. DOMAIN s # {}
      BY <2>1 DEF Range
    <3>2. DOMAIN s = 1..Len(s) /\ Len(s) \in Nat
      BY <1>2
    <3>3. QED
      BY <3>1, <3>2
  <2>3. RetrievalSize \in Int /\ RetrievalSize >= 1
    BY Limits
  <2>4. /\ Len(top) = Least(RetrievalSize, Len(s)) /\ Range(top) \subseteq Range(s)
    BY <1>2, <2>3, TakeSeq
  <2>5. Len(top) >= 1 /\ Len(top) \in Nat
    BY <2>2, <2>3, <2>4 DEF Least
  <2>6. 1 \in DOMAIN top
    BY <1>2, <2>5
  <2>7. top[1] \in Range(top)
    BY <2>6 DEF Range
  <2>8. QED
    BY <1>2, <2>1, <2>4, <2>7
<1>4. Range(top) \cap Range(v) # {}
  BY <1>3
<1> HIDE DEF top, D
<1>5. Pin(top) \/ \E score \in {"low", "high"} : Route(top, score)
  BY <1>2, <1>4 DEF top
<1>6. \A r \in {"deterministic", "semantic"} : [NoAnswer EXCEPT !.route = r].route # "reject"
  <2>1. \A r \in {"deterministic", "semantic"} : r \in Routes
    BY DEF Routes
  <2>2. QED
    BY <2>1, BlankAnswer, RouteUpdate
<1>7. \A score \in {"low", "high"} : IsInDomain(score, question)
  BY DEF IsInDomain
<1>8. CASE Pin(top)
  BY <1>6, <1>8 DEF Pin
<1>9. CASE \E score \in {"low", "high"} : Route(top, score)
  BY <1>6, <1>7, <1>9 DEF Route
<1>10. QED
  BY <1>5, <1>8, <1>9

\* While the alias stays, the BM25 leg's hits are of the index, and a rejection is
\* not of a filtered count that documents match.
Refusable ==
  asOf = live =>
    /\ pc = "vector" => Range(text) \subseteq Admitted(Index, question.filter)
    /\ pc \in {"finish", "idle"} /\ answer.route = "reject" =>
         ~ (/\ question.counts /\ DOMAIN question.filter # {}
            /\ Admitted(Index, question.filter) # {}
            /\ Cardinality(DOMAIN Index.docs) <= MaxPool)

\* Every step keeps it so.
LEMMA RefusableStep ==
  ASSUME QuestionsTypeOK, Routed, Refusable, [QuestionsNext]_questionsVars
  PROVE  Refusable'
<1>1. CASE ChangeCorpus
  BY <1>1, IndexMoves DEF requestVars, Refusable
<1>2. CASE \E q \in Asked : Ask(q)
  BY <1>2 DEF Ask, Refusable
<1>3. CASE SearchText
  <2>1. /\ Range(text') \subseteq Admitted(Index, question.filter) /\ pc' = "vector"
        /\ Index' = Index /\ UNCHANGED <<question, asOf, live>>
    BY <1>3 DEF SearchText, corpusVars, Index
  <2>2. QED
    BY <2>1 DEF Refusable
<1>4. CASE SearchVector
  <2>1. Index' = Index /\ UNCHANGED <<question, asOf, live>> /\ pc' # "vector"
    BY <1>4, SearchVectorAnswer DEF corpusVars, Index
  <2>2. pc = "vector"
    BY <1>4 DEF SearchVector
  <2>3. QED
    BY <1>4, <2>1, <2>2, NotRefused DEF Refusable
<1>5. CASE Resolve
  BY <1>5, ResolveAnswer DEF Refusable
<1>6. CASE \E reply \in Replies, failed \in BOOLEAN : Generate(reply, failed)
  <2>1. answer'.route = answer.route /\ answer.route # "reject" /\ pc' = "finish"
    BY <1>6, GenerateAnswer DEF Generate, Routed
  <2>2. QED
    BY <2>1 DEF Refusable
<1>7. CASE CountDocuments \/ FindCoded
  <2>1. answer' = answer /\ answer.route # "reject" /\ pc' # "vector"
    BY <1>7 DEF CountDocuments, FindCoded, Routed
  <2>2. QED
    BY <2>1 DEF Refusable
<1>8. CASE ListDocuments
  <2>1. answer'.route = answer.route /\ answer.route # "reject" /\ pc' = "finish"
    BY <1>8, ListDocumentsAnswer DEF ListDocuments, Routed
  <2>2. QED
    BY <2>1 DEF Refusable
<1>9. CASE RelateCoded
  <2>1. answer'.route = answer.route /\ answer.route # "reject" /\ pc' = "finish"
    BY <1>9, RelateCodedAnswer DEF RelateCoded, Routed
  <2>2. QED
    BY <2>1 DEF Refusable
<1>10. CASE LookUpFields
  <2>1. answer'.route = answer.route /\ answer.route # "reject" /\ pc' # "vector"
    BY <1>10, LookUpFieldsAnswer DEF LookUpFields, Routed
  <2>2. QED
    BY <2>1 DEF Refusable
<1>11. CASE FetchTargets \/ PlaceTargets \/ FetchRows \/ FetchLines
  <2>1. pc' \in {"rows", "place", "lines", "generate"}
    BY <1>11 DEF FetchTargets, PlaceTargets, FetchRows, FetchLines
  <2>2. QED
    BY <2>1 DEF Refusable
<1>12. CASE Raise
  BY <1>12, BlankAnswer DEF Raise, Refusable
<1>13. CASE Finish
  <2>1. /\ pc = "finish" /\ pc' = "idle" /\ Index' = Index
        /\ UNCHANGED <<answer, asOf, live, question>>
    BY <1>13 DEF Finish, corpusVars, Index
  <2>2. QED
    BY <2>1 DEF Refusable
<1>14. CASE UNCHANGED questionsVars
  BY <1>14 DEF questionsVars, requestVars, corpusVars, Index, Refusable
<1>15. QED
  BY <1>1, <1>2, <1>3, <1>4, <1>5, <1>6, <1>7, <1>8, <1>9, <1>10, <1>11, <1>12, <1>13,
     <1>14 DEF QuestionsNext, Handle

\* A count under a filter that documents match is not refused (FilteredCountAnswered),
\* for any index that fits the pool of neighbours.
THEOREM FilteredCountNotRefused == QuestionsSpec => []FilteredCountAnswered
<1>1. QuestionsInit => Refusable
  BY BlankAnswer DEF QuestionsInit, Refusable
<1>2. Refusable => FilteredCountAnswered
  BY DEF Refusable, FilteredCountAnswered, Answered
<1>3. QED
  BY <1>1, <1>2, RefusableStep, QuestionsTypeCorrect, RoutedAlways, PTL DEF QuestionsSpec

-----------------------------------------------------------------------------
\* The named documents are the first of the hits the context is made of.
HitsLed ==
  /\ Len(pinned) <= Len(hits)
  /\ \A i \in 1..Len(pinned) : hits[i] = pinned[i]

\* What of it is shown is what of the named documents fits.
LEMMA LedShown ==
  ASSUME QuestionsTypeOK, HitsLed
  PROVE  Take(Shown, Len(pinned)) = Take(pinned, ContextTopN)
<1>1. /\ pinned \in Seq(Docs) /\ hits \in Seq(Docs) /\ Len(pinned) \in Nat
      /\ ContextTopN \in Nat /\ Len(hits) \in Nat /\ Shown \in Seq(Docs)
  BY Limits, ShownOf DEF QuestionsTypeOK
<1>2. Len(pinned) <= Len(hits) /\ \A i \in 1..Len(pinned) : hits[i] = pinned[i]
  BY DEF HitsLed
<1>3. Len(Shown) = Least(ContextTopN, Len(hits)) /\ \A i \in 1..Len(Shown) : Shown[i] = hits[i]
  BY ShownOf
<1> DEFINE a == Take(Shown, Len(pinned))
           b == Take(pinned, ContextTopN)
<1>4. /\ a \in Seq(Docs) /\ Len(a) = Least(Len(pinned), Len(Shown))
      /\ \A i \in 1..Len(a) : i \in 1..Len(Shown) /\ a[i] = Shown[i]
  BY <1>1, TakeSeq
<1>5. /\ b \in Seq(Docs) /\ Len(b) = Least(ContextTopN, Len(pinned))
      /\ \A i \in 1..Len(b) : i \in 1..Len(pinned) /\ b[i] = pinned[i]
  BY <1>1, TakeSeq
<1> HIDE DEF a, b
<1>6. Len(a) = Len(b)
  BY <1>1, <1>2, <1>3, <1>4, <1>5 DEF Least
<1>7. \A i \in 1..Len(a) : a[i] = b[i]
  BY <1>2, <1>3, <1>4, <1>5, <1>6
<1>8. a = b
  BY <1>4, <1>5, <1>6, <1>7
<1>9. QED
  BY <1>8 DEF a, b

\* From the search to the model's answer they stay there.
Led ==
  /\ pc \in {"targets", "place", "rows", "lines", "generate"} => HitsLed
  /\ pc \in {"finish", "idle"} /\ answer.route = "semantic" /\ ~answer.error =>
       Take(answer.sources, Len(pinned)) = Take(pinned, ContextTopN)

\* Every step keeps them there.
LEMMA LedStep ==
  ASSUME QuestionsTypeOK, Routed, Led, [QuestionsNext]_questionsVars
  PROVE  Led'
<1>0. pinned \in Seq(Docs) /\ hits \in Seq(Docs)
  BY DEF QuestionsTypeOK
<1>1. CASE ChangeCorpus \/ UNCHANGED questionsVars
  <2>1. UNCHANGED requestVars
    BY <1>1, IndexMoves DEF questionsVars
  <2>2. QED
    BY <2>1 DEF requestVars, Led, HitsLed
<1>2. CASE \E q \in Asked : Ask(q)
  BY <1>2 DEF Ask, Led
<1>3. CASE Resolve
  BY <1>3, ResolveAnswer DEF Led
<1>4. CASE SearchText \/ FindCoded
  <2>1. pc' \in {"vector", "relations"} \/ (pc' = "finish" /\ answer' = answer)
    BY <1>4 DEF SearchText, FindCoded
  <2>2. pc' = "finish" => answer.route # "semantic"
    BY <1>4 DEF SearchText, FindCoded, Routed
  <2>3. QED
    BY <2>1, <2>2 DEF Led
<1>5. CASE SearchVector
  <2>1. CASE pc' = "finish"
    BY <1>5, <2>1, SearchVectorAnswer DEF Led
  <2>2. CASE pc' # "finish"
    <3>1. PICK s : /\ Take(s, RetrievalSize) \in Seq(Docs)
                   /\ Pin(Take(s, RetrievalSize)) \/ pinned = <<>>
      BY <1>5, SearchVectorReads DEF Route
    <3> DEFINE top == Take(s, RetrievalSize)
    <3>2. pinned' = pinned /\ pc' # "idle" /\ hits' \in Seq(Docs)
      BY <1>5, SearchVectorAnswer, SearchVectorType DEF QuestionsTypeOK
    <3> HIDE DEF top
    <3>3. CASE Pin(top)
      <4>1. hits' \in Fronted(pinned, top)
        BY <3>3 DEF Pin
      <4>2. Len(pinned) <= Len(hits') /\ \A i \in 1..Len(pinned) : hits'[i] = pinned[i]
        BY <1>0, <3>1, <4>1, FrontedOf DEF top
      <4>3. QED
        BY <2>2, <3>2, <4>2 DEF Led, HitsLed
    <3>4. CASE pinned = <<>>
      <4>1. Len(pinned) = 0 /\ Len(hits') \in Nat
        BY <3>2, <3>4
      <4>2. HitsLed'
        BY <3>2, <4>1 DEF HitsLed
      <4>3. QED
        BY <2>2, <3>2, <4>2 DEF Led
    <3>5. QED
      BY <3>1, <3>3, <3>4 DEF top
  <2>3. QED
    BY <2>1, <2>2
<1>6. CASE FetchTargets \/ FetchRows \/ FetchLines
  <2>1. /\ UNCHANGED <<hits, pinned>> /\ pc' \in {"place", "rows", "lines", "generate"}
        /\ pc \in {"targets", "rows", "lines"}
    BY <1>6 DEF FetchTargets, FetchRows, FetchLines
  <2>2. QED
    BY <2>1 DEF Led, HitsLed
<1>7. CASE PlaceTargets
  <2>1. PICK added \in Seq(Docs) :
          /\ pinned \o added \in Seq(Docs) /\ hits' \in Fronted(pinned \o added, hits)
          /\ Len(pinned \o added) = Len(pinned) + Len(added)
          /\ \A i \in 1..Len(pinned) : (pinned \o added)[i] = pinned[i]
    BY <1>7, PlaceTargetsReads
  <2> DEFINE front == pinned \o added
  <2>2. /\ front \in Seq(Docs) /\ hits' \in Fronted(front, hits)
        /\ Len(front) = Len(pinned) + Len(added)
        /\ \A i \in 1..Len(pinned) : front[i] = pinned[i]
    BY <2>1
  <2> HIDE DEF front
  <2>3. /\ Len(front) <= Len(hits') /\ \A i \in 1..Len(front) : hits'[i] = front[i]
        /\ Len(hits') \in Nat
    <3>1. hits' \in Seq(Docs)
      BY <1>7, PlaceTargetsType DEF QuestionsTypeOK
    <3>2. Len(front) <= Len(hits') /\ \A i \in 1..Len(front) : hits'[i] = front[i]
      BY <1>0, <2>2, FrontedOf
    <3>3. QED
      BY <3>1, <3>2
  <2>4. Len(pinned) \in Nat /\ Len(added) \in Nat
    BY <1>0, <2>1
  <2>5. Len(pinned) <= Len(hits') /\ \A i \in 1..Len(pinned) : hits'[i] = pinned[i]
    BY <2>2, <2>3, <2>4
  <2>6. pinned' = pinned /\ pc' = "rows"
    BY <1>7 DEF PlaceTargets
  <2>7. QED
    BY <2>5, <2>6 DEF Led, HitsLed
<1>8. CASE \E reply \in Replies, failed \in BOOLEAN : Generate(reply, failed)
  <2>1. PICK reply \in Replies, failed \in BOOLEAN : Generate(reply, failed)
    BY <1>8
  <2>2. /\ answer'.error = failed /\ answer'.sources = IF failed THEN <<>> ELSE Shown
        /\ pc = "generate" /\ pc' = "finish" /\ pinned' = pinned
    BY <2>1, GenerateAnswer DEF Generate
  <2>3. Take(Shown, Len(pinned)) = Take(pinned, ContextTopN)
    BY <2>2, LedShown DEF Led
  <2>4. QED
    BY <2>2, <2>3 DEF Led
<1>9. CASE CountDocuments
  <2>1. answer' = answer /\ answer.route # "semantic" /\ pc' \in {"finish", "list"}
    BY <1>9 DEF CountDocuments, Routed
  <2>2. QED
    BY <2>1 DEF Led
<1>10. CASE ListDocuments
  <2>1. answer'.route = answer.route /\ answer.route # "semantic" /\ pc' = "finish"
    BY <1>10, ListDocumentsAnswer DEF ListDocuments, Routed
  <2>2. QED
    BY <2>1 DEF Led
<1>11. CASE RelateCoded
  <2>1. answer'.route = answer.route /\ answer.route # "semantic" /\ pc' = "finish"
    BY <1>11, RelateCodedAnswer DEF RelateCoded, Routed
  <2>2. QED
    BY <2>1 DEF Led
<1>12. CASE LookUpFields
  <2>1. /\ answer'.route = answer.route /\ answer.route = "field_lookup"
        /\ UNCHANGED <<hits, pinned>> /\ hits = pinned /\ pc' # "idle"
    BY <1>12, LookUpFieldsAnswer DEF LookUpFields, Routed
  <2>2. HitsLed'
    BY <1>0, <2>1 DEF HitsLed
  <2>3. QED
    BY <2>1, <2>2 DEF Led
<1>13. CASE Raise
  BY <1>13, BlankAnswer DEF Raise, Led
<1>14. CASE Finish
  BY <1>14 DEF Finish, Led
<1>15. QED
  BY <1>1, <1>2, <1>3, <1>4, <1>5, <1>6, <1>7, <1>8, <1>9, <1>10, <1>11, <1>12, <1>13,
     <1>14 DEF QuestionsNext, Handle

\* The documents a question names lead the sources of the model's answer
\* (NamedDocsLead), whatever was retrieved or referred to besides.
THEOREM NamedDocsAlwaysLead == QuestionsSpec => []NamedDocsLead
<1>1. QuestionsInit => Led
  BY BlankAnswer DEF QuestionsInit, Led
<1>2. Led => NamedDocsLead
  BY DEF Led, NamedDocsLead, Answered
<1>3. QED
  BY <1>1, <1>2, LedStep, QuestionsTypeCorrect, RoutedAlways, PTL DEF QuestionsSpec

-----------------------------------------------------------------------------
\* Products of natural numbers keep the order of their factors.
LEMMA ProductBound ==
  ASSUME NEW b \in Nat, NEW m \in Nat, NEW p \in Nat, NEW r \in Nat, b <= p, m <= r
  PROVE  b * m <= p * r
<1>1. b * m <= b * r
  <2>1. b * (r - m) >= 0
    BY Z3
  <2>2. b * (r - m) = b * r - b * m
    BY Z3
  <2>3. b * r \in Int /\ b * m \in Int
    BY Z3
  <2>4. QED
    BY <2>1, <2>2, <2>3, Z3
<1>2. b * r <= p * r
  <2>1. (p - b) * r >= 0
    BY Z3
  <2>2. (p - b) * r = p * r - b * r
    BY Z3
  <2>3. b * r \in Int /\ p * r \in Int
    BY Z3
  <2>4. QED
    BY <2>1, <2>2, <2>3, Z3
<1>3. b * m \in Int /\ b * r \in Int /\ p * r \in Int
  BY Z3
<1>4. QED
  BY <1>1, <1>2, <1>3

\* Two reciprocal ranks outweigh one while the ranks are small beside the constant.
LEMMA TwoRanksOutweigh ==
  ASSUME NEW a \in Nat, NEW b \in Nat, NEW m \in Nat, NEW x \in Nat, a <= x,
         b * m < a * a
  PROVE  (a + b) * (a + m) < ((a + b) + (a + m)) * x
<1> DEFINE both2 == (a + b) + (a + m)
<1>1. both2 \in Nat
  OBVIOUS
<1>2. both2 * a <= both2 * x
  BY <1>1, ProductBound
<1>3. (a + b) * (a + m) = a * a + a * m + b * a + b * m
  BY Z3
<1>4. both2 * a = a * a + b * a + a * a + m * a
  BY Z3
<1>5. /\ a * a \in Int /\ a * m \in Int /\ b * a \in Int /\ b * m \in Int /\ m * a = a * m
      /\ both2 * a \in Int /\ both2 * x \in Int
  BY Z3
<1> HIDE DEF both2
<1>6. (a + b) * (a + m) < both2 * a
  BY <1>3, <1>4, <1>5
<1>7. (a + b) * (a + m) \in Int
  BY Z3
<1>8. QED
  BY <1>2, <1>5, <1>6, <1>7 DEF both2

\* The rank of a document in a leg that found it.
LEMMA RankOf ==
  ASSUME NEW t \in Rankings, NEW d \in Range(t)
  PROVE  Rank(t, d) \in Nat /\ Rank(t, d) >= 1 /\ Rank(t, d) <= Len(t)
<1>1. \E i \in DOMAIN t : t[i] = d
  BY DEF Range
<1>2. Rank(t, d) \in DOMAIN t
  BY <1>1 DEF Rank
<1>3. DOMAIN t = 1..Len(t) /\ Len(t) \in Nat
  BY RankingOf
<1>4. QED
  BY <1>2, <1>3

\* Only a document both legs found outranks one both legs found.
LEMMA BothOutrank ==
  ASSUME LegsDominate, NEW t \in Rankings, NEW v \in Rankings,
         Len(t) <= RetrievalSize, Len(v) <= KnnPool,
         NEW d \in Range(t) \cup Range(v), NEW e \in Range(t) \cap Range(v),
         Outranks(t, v, d, e)
  PROVE  d \in Range(t) \cap Range(v)
<1> SUFFICES ASSUME d \notin Range(t) \cap Range(v) PROVE FALSE
  OBVIOUS
<1>1. /\ RrfK \in Nat /\ RetrievalSize \in Nat /\ RetrievalSize >= 1 /\ KnnPool \in Nat
      /\ Len(t) \in Nat /\ Len(v) \in Nat
  BY QuestionsAssumption, Limits, RankingOf
<1>2. PICK b, m : /\ b \in Nat /\ m \in Nat /\ b <= RetrievalSize - 1 /\ m <= KnnPool - 1
                  /\ Rank(t, e) = b + 1 /\ Rank(v, e) = m + 1
  <2>1. /\ Rank(t, e) \in Nat /\ Rank(t, e) >= 1 /\ Rank(t, e) <= Len(t)
        /\ Rank(v, e) \in Nat /\ Rank(v, e) >= 1 /\ Rank(v, e) <= Len(v)
    BY RankOf
  <2>2. /\ Rank(t, e) - 1 \in Nat /\ Rank(v, e) - 1 \in Nat
        /\ Rank(t, e) - 1 <= RetrievalSize - 1 /\ Rank(v, e) - 1 <= KnnPool - 1
        /\ Rank(t, e) = (Rank(t, e) - 1) + 1 /\ Rank(v, e) = (Rank(v, e) - 1) + 1
    BY <1>1, <2>1
  <2>3. QED
    BY <2>2
<1>3. PICK a \in Nat : a = RrfK + 1
  BY <1>1
<1>4. PICK x \in Nat : a <= x /\ RrfScore(t, v, d) = <<1, x>>
  <2>1. CASE d \in Range(t)
    <3>1. RrfScore(t, v, d) = <<1, RrfK + Rank(t, d)>>
      BY <2>1 DEF RrfScore
    <3>2. RrfK + Rank(t, d) \in Nat /\ a <= RrfK + Rank(t, d)
      BY <1>1, <1>3, <2>1, RankOf
    <3>3. QED
      BY <3>1, <3>2
  <2>2. CASE d \in Range(v) /\ d \notin Range(t)
    <3>1. RrfScore(t, v, d) = <<1, RrfK + Rank(v, d)>>
      BY <2>2 DEF RrfScore
    <3>2. RrfK + Rank(v, d) \in Nat /\ a <= RrfK + Rank(v, d)
      BY <1>1, <1>3, <2>2, RankOf
    <3>3. QED
      BY <3>1, <3>2
  <2>3. QED
    BY <2>1, <2>2
<1>5. RrfScore(t, v, e) = <<(a + b) + (a + m), (a + b) * (a + m)>>
  <2>1. RrfScore(t, v, e) = <<(RrfK + Rank(t, e)) + (RrfK + Rank(v, e)),
                             (RrfK + Rank(t, e)) * (RrfK + Rank(v, e))>>
    BY DEF RrfScore
  <2>2. RrfK + Rank(t, e) = a + b /\ RrfK + Rank(v, e) = a + m
    BY <1>1, <1>2, <1>3
  <2>3. QED
    BY <2>1, <2>2
<1>6. b * m < a * a
  <2>1. RetrievalSize - 1 \in Nat /\ KnnPool - 1 \in Nat
    BY <1>1, <1>2
  <2>2. b * m <= (RetrievalSize - 1) * (KnnPool - 1)
    BY <1>2, <2>1, ProductBound
  <2>3. (RetrievalSize - 1) * (KnnPool - 1) < a * a
    BY <1>3 DEF LegsDominate
  <2>4. /\ b * m \in Int /\ (RetrievalSize - 1) * (KnnPool - 1) \in Int /\ a * a \in Int
    BY <1>2, <2>1, Z3
  <2>5. QED
    BY <2>2, <2>3, <2>4
<1>7. (a + b) * (a + m) < ((a + b) + (a + m)) * x
  BY <1>2, <1>4, <1>6, TwoRanksOutweigh
<1> DEFINE p == (a + b) * (a + m)
           q == (a + b) + (a + m)
<1>8. p \in Int /\ q \in Int /\ q * x \in Int
  BY <1>2, Z3
<1>9. 1 * p > q * x \/ 1 * p = q * x
  <2>1. RrfScore(t, v, d) = <<1, x>> /\ RrfScore(t, v, e) = <<q, p>>
    BY <1>4, <1>5
  <2> HIDE DEF p, q
  <2>2. QED
    BY <2>1 DEF Outranks
<1>10. p < q * x
  BY <1>7
<1> HIDE DEF p, q
<1>11. QED
  BY <1>8, <1>9, <1>10

\* The hits behind the first few are in the order of the fusion.
Sorted(s, n, found) ==
  \A i, j \in DOMAIN s : i > n /\ j > i /\ s[j] \in found => s[i] \in found

\* Putting documents in front of hits in that order leaves the others in it, if
\* those already in front stay there.
LEMMA FrontedSorted ==
  ASSUME NEW front \in Seq(Docs), NEW old \in Seq(Docs), NEW s \in Fronted(front, old),
         NEW n \in Nat, NEW found, Sorted(old, n, found),
         \A i \in DOMAIN old : i <= n => old[i] \in Range(front)
  PROVE  Sorted(s, Len(front), found)
<1>1. SUFFICES ASSUME NEW i \in DOMAIN s, NEW j \in DOMAIN s, i > Len(front), j > i,
                      s[j] \in found
               PROVE  s[i] \in found
  BY DEF Sorted
<1>2. /\ s \in Seq(Docs) /\ s[i] \notin Range(front)
      /\ \E k, l \in DOMAIN old : k < l /\ old[k] = s[i] /\ old[l] = s[j]
  <2>1. DOMAIN s \subseteq Int /\ Len(front) \in Int
    <3>1. s \in Seq(Docs)
      BY FrontedOf
    <3>2. QED
      BY <3>1
  <2>2. i < j
    BY <1>1, <2>1
  <2>3. QED
    BY <1>1, <2>2, FrontedOf
<1>3. PICK k \in DOMAIN old, l \in DOMAIN old : k < l /\ old[k] = s[i] /\ old[l] = s[j]
  BY <1>2
<1>4. k \in Int /\ l \in Int
  BY <1>3
<1>5. ~(k <= n)
  BY <1>2, <1>3
<1>6. k > n /\ l > k
  BY <1>3, <1>4, <1>5
<1>7. QED
  BY <1>1, <1>3, <1>6 DEF Sorted

\* What a request has found of the two legs, and how far its hits are fused.
Ordered ==
  /\ pc \in {"idle", "resolve", "text", "vector", "codes"} => hits = <<>> /\ both = {}
  /\ pc \in {"fields", "relations"} => both = {}
  /\ pc = "vector" => Len(text) <= RetrievalSize
  /\ pc \in {"targets", "place"} => lead = Len(pinned)
  /\ Sorted(hits, lead, both)

\* The search puts what both legs found first.
LEMMA SearchSorted ==
  ASSUME QuestionsTypeOK, LegsDominate, Len(text) <= RetrievalSize, SearchVector
  PROVE  Sorted(hits', lead', both')
<1>1. PICK v \in Rankings, s \in Seq(Docs) :
        /\ Len(v) <= KnnPool /\ Range(s) = Range(text) \cup Range(v)
        /\ \A i, j \in DOMAIN s : i < j => Outranks(text, v, s[i], s[j])
        /\ Take(s, RetrievalSize) \in Seq(Docs)
        /\ both' = Range(text) \cap Range(v) \cap Range(Take(s, RetrievalSize))
        /\ \/ Pin(Take(s, RetrievalSize))
           \/ \E score : Route(Take(s, RetrievalSize), score)
  BY SearchVectorReads
<1> DEFINE top == Take(s, RetrievalSize)
<1>2. /\ text \in Rankings /\ pinned \in Seq(Docs) /\ RetrievalSize \in Int
      /\ DOMAIN s = 1..Len(s) /\ DOMAIN top = 1..Len(top) /\ Len(top) \in Nat
  BY <1>1, Limits DEF QuestionsTypeOK
<1>3. \A i \in DOMAIN top : i \in DOMAIN s /\ top[i] = s[i]
  <2>1. \A i \in 1..Len(top) : i \in 1..Len(s) /\ top[i] = s[i]
    BY <1>1, <1>2, TakeSeq
  <2> HIDE DEF top
  <2>2. QED
    BY <1>2, <2>1
<1> HIDE DEF top
<1>4. Sorted(top, 0, both')
  <2>1. SUFFICES ASSUME NEW i \in DOMAIN top, NEW j \in DOMAIN top, j > i, top[j] \in both'
                 PROVE  top[i] \in both'
    BY DEF Sorted
  <2>2. i < j
    BY <1>2, <2>1
  <2>3. Outranks(text, v, top[i], top[j])
    BY <1>1, <1>3, <2>1, <2>2
  <2>4. top[i] \in Range(s) /\ top[i] \in Range(top)
    BY <1>3, <2>1 DEF Range
  <2>5. top[j] \in Range(text) \cap Range(v)
    BY <1>1, <2>1
  <2>6. top[i] \in Range(text) \cap Range(v)
    BY <1>1, <1>2, <2>3, <2>4, <2>5, BothOutrank
  <2>7. QED
    BY <1>1, <2>4, <2>6 DEF top
<1>5. CASE Pin(top)
  <2>1. hits' \in Fronted(pinned, top) /\ lead' = Len(pinned)
    BY <1>5 DEF Pin
  <2>2. \A i \in DOMAIN top : i <= 0 => top[i] \in Range(pinned)
    BY <1>2
  <2>3. Sorted(hits', Len(pinned), both')
    BY <1>1, <1>2, <1>4, <2>1, <2>2, FrontedSorted DEF top
  <2>4. QED
    BY <2>1, <2>3
<1>6. CASE \E score : Route(top, score)
  <2>1. hits' = top /\ lead' = 0
    BY <1>6 DEF Route
  <2>2. QED
    BY <1>4, <2>1
<1>7. QED
  BY <1>1, <1>5, <1>6 DEF top

\* Every step leaves them so.
LEMMA OrderedStep ==
  ASSUME QuestionsTypeOK, LegsDominate, Led, Ordered, [QuestionsNext]_questionsVars
  PROVE  Ordered'
<1>0. pinned \in Seq(Docs) /\ hits \in Seq(Docs)
  BY DEF QuestionsTypeOK
<1>1. CASE ChangeCorpus \/ UNCHANGED questionsVars
  <2>1. UNCHANGED requestVars
    BY <1>1, IndexMoves DEF questionsVars
  <2>2. QED
    BY <2>1 DEF requestVars, Ordered
<1>2. CASE \E q \in Asked : Ask(q)
  BY <1>2 DEF Ask, Ordered
<1>3. CASE Resolve
  <2>1. /\ pc = "resolve" /\ UNCHANGED <<both, lead, text>> /\ pc' \in {"finish", "text", "fields"}
        /\ pc' = "text" => hits' = hits
    BY <1>3, ResolveAnswer DEF Resolve
  <2>2. both' = {}
    BY <2>1 DEF Ordered
  <2>3. Sorted(hits', lead', both')
    BY <2>2 DEF Sorted
  <2>4. QED
    BY <2>1, <2>2, <2>3 DEF Ordered
<1>4. CASE SearchText
  BY <1>4 DEF SearchText, Ordered
<1>5. CASE SearchVector
  <2>1. Len(text) <= RetrievalSize
    BY <1>5 DEF SearchVector, Ordered
  <2>2. Sorted(hits', lead', both')
    BY <1>5, <2>1, SearchSorted
  <2>3. /\ pc' \in {"targets", "rows", "finish", "count"} /\ pinned' = pinned
        /\ pc' = "targets" => lead' = Len(pinned)
    BY <1>5, SearchVectorAnswer
  <2>4. QED
    BY <2>2, <2>3 DEF Ordered
<1>6. CASE FetchTargets \/ FetchRows \/ FetchLines \/ CountDocuments \/ ListDocuments
  <2>1. /\ UNCHANGED <<hits, lead, both, pinned>>
        /\ pc' \in {"rows", "place", "lines", "generate", "finish", "list"}
        /\ pc' = "place" => pc = "targets"
    BY <1>6 DEF FetchTargets, FetchRows, FetchLines, CountDocuments, ListDocuments
  <2>2. QED
    BY <2>1 DEF Ordered
<1>7. CASE PlaceTargets
  <2>1. PICK added \in Seq(Docs) :
          /\ pinned \o added \in Seq(Docs) /\ hits' \in Fronted(pinned \o added, hits)
          /\ Len(pinned \o added) = Len(pinned) + Len(added)
          /\ Range(pinned \o added) = Range(pinned) \cup Range(added)
          /\ lead' = Len(pinned) + Len(added)
    BY <1>7, PlaceTargetsReads
  <2> DEFINE front == pinned \o added
  <2>2. /\ front \in Seq(Docs) /\ hits' \in Fronted(front, hits) /\ lead' = Len(front)
        /\ Range(pinned) \subseteq Range(front)
    BY <2>1
  <2> HIDE DEF front
  <2>3. lead = Len(pinned) /\ Sorted(hits, lead, both) /\ HitsLed /\ lead \in Nat
    BY <1>7 DEF PlaceTargets, Ordered, Led, QuestionsTypeOK
  <2>4. \A i \in DOMAIN hits : i <= lead => hits[i] \in Range(front)
    <3>1. /\ DOMAIN hits = 1..Len(hits) /\ DOMAIN pinned = 1..Len(pinned)
          /\ Len(hits) \in Nat /\ Len(pinned) \in Nat
      BY <1>0
    <3>2. \A i \in DOMAIN hits : i <= lead => i \in 1..Len(pinned)
      BY <2>3, <3>1
    <3>3. \A i \in 1..Len(pinned) : hits[i] \in Range(pinned)
      BY <2>3, <3>1 DEF HitsLed, Range
    <3>4. QED
      BY <2>2, <3>2, <3>3
  <2>5. Sorted(hits', Len(front), both)
    BY <1>0, <2>2, <2>3, <2>4, FrontedSorted
  <2>6. pc' = "rows" /\ both' = both
    BY <1>7 DEF PlaceTargets
  <2>7. QED
    BY <2>2, <2>5, <2>6 DEF Ordered
<1>8. CASE \E reply \in Replies, failed \in BOOLEAN : Generate(reply, failed)
  BY <1>8 DEF Generate, Ordered
<1>9. CASE FindCoded
  <2>1. pc = "codes" /\ UNCHANGED <<both, lead>> /\ pc' \in {"finish", "relations"}
    BY <1>9 DEF FindCoded
  <2>2. both' = {}
    BY <2>1 DEF Ordered
  <2>3. Sorted(hits', lead', both')
    BY <2>2 DEF Sorted
  <2>4. QED
    BY <2>1, <2>2, <2>3 DEF Ordered
<1>10. CASE RelateCoded \/ LookUpFields
  <2>1. UNCHANGED <<hits, lead, both>> /\ pc' \in {"finish", "rows"}
    BY <1>10 DEF RelateCoded, LookUpFields
  <2>2. QED
    BY <2>1 DEF Ordered
<1>11. CASE Raise \/ Finish
  <2>1. hits' = <<>> /\ both' = {} /\ pc' = "idle"
    BY <1>11 DEF Raise, Finish, Forget
  <2>2. QED
    BY <2>1 DEF Ordered, Sorted
<1>12. QED
  BY <1>1, <1>2, <1>3, <1>4, <1>5, <1>6, <1>7, <1>8, <1>9, <1>10, <1>11
     DEF QuestionsNext, Handle

\* Among the hits retrieved, those both legs found come before those one leg found
\* (BothLegsFirst), for any constant and any pools with
\* (RetrievalSize - 1) * (KnnPool - 1) < (RrfK + 1)^2, whatever the two legs find,
\* and references put in front of them leave that order alone.
THEOREM BothLegsAlwaysFirst == QuestionsSpec => []BothLegsFirst
<1>1. CASE LegsDominate
  <2>1. QuestionsInit => Ordered
    BY DEF QuestionsInit, Ordered, Sorted
  <2>2. QuestionsInit => Led
    BY BlankAnswer DEF QuestionsInit, Led
  <2>3. QuestionsTypeOK /\ Led /\ Ordered /\ [QuestionsNext]_questionsVars => Ordered'
    BY <1>1, OrderedStep
  <2>4. QuestionsTypeOK /\ Routed /\ Led /\ [QuestionsNext]_questionsVars => Led'
    BY LedStep
  <2>5. Ordered => BothLegsFirst
    BY DEF Ordered, Sorted, BothLegsFirst
  <2>6. QED
    BY <2>1, <2>2, <2>3, <2>4, <2>5, QuestionsTypeCorrect, RoutedAlways, PTL
       DEF QuestionsSpec
<1>2. CASE ~LegsDominate
  <2>1. BothLegsFirst /\ BothLegsFirst'
    BY <1>2 DEF BothLegsFirst
  <2>2. QED
    BY <2>1, PTL
<1>3. QED
  BY <1>1, <1>2
=============================================================================
