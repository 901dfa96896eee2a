------------------------------ MODULE SeedProofs ------------------------------
(***************************************************************************)
(* Proofs about Evaluation: that the questions generate_eval_seed.py makes *)
(* of the tables get, as long as these stay as they are, the answers the   *)
(* checkers of run_eval_generation.py want of the paths without a model,   *)
(* and bring what they are about before the model on the others.           *)
(***************************************************************************)
EXTENDS EvaluationProofs, WellFoundedInduction

\* An item about one document: its question names it first, asks for reasons and
\* sends no filter.
AboutOne(corpus, i) ==
  /\ i.question.reasons /\ i.question.filter = NoFilter
  /\ i.requires[1] \in DOMAIN corpus.docs
  /\ i.question.mentions = About(corpus, i.requires[1])

\* What an item made of a state of the tables says of that state.
OfCoded(corpus, i) ==
  /\ i.question.code /\ i.question.mentions = <<>> /\ i.question.filter = NoFilter
  /\ Range(i.requires) = corpus.coded
OfFilter(i) ==
  /\ i.question.counts /\ ~i.question.code /\ i.question.mentions = <<>>
  /\ \E module, status : i.question.filter = ParseModuleStatus(module, status)
OfReference(corpus, i) ==
  /\ AboutOne(corpus, i) /\ i.requires[2] \in DOMAIN corpus.docs
  /\ <<i.requires[1], i.requires[2], i.type>> \in corpus.refs
OfDangling(corpus, i) ==
  /\ AboutOne(corpus, i)
  /\ \E t : /\ <<i.requires[1], t, "test_case_citation">> \in corpus.refs
            /\ t \notin DOMAIN corpus.docs

MadeFrom(corpus, i) ==
  /\ i.type = "error_code" => OfCoded(corpus, i)
  /\ i.type = "structured_filter" => OfFilter(i)
  /\ i.type \in RefTypes => OfReference(corpus, i)
  /\ i.type = "dangling" => OfDangling(corpus, i)
  /\ i.type = "narrative" => AboutOne(corpus, i)

\* A list of such items.
AllMade(corpus, items) ==
  items \in Seq(Range(items)) /\ \A i \in Range(items) : MadeFrom(corpus, i)

LEMMA Appended ==
  ASSUME NEW corpus, NEW a, NEW b, AllMade(corpus, a), AllMade(corpus, b)
  PROVE  AllMade(corpus, a \o b)
<1> DEFINE S == Range(a) \cup Range(b)
           c == a \o b
<1>1. a \in Seq(S) /\ b \in Seq(S) /\ \A i \in S : MadeFrom(corpus, i)
  BY DEF AllMade, Range
<1> HIDE DEF S
<1>2. c \in Seq(S)
  BY <1>1
<1> HIDE DEF c
<1>3. /\ Len(c) \in Nat /\ DOMAIN c = 1..Len(c) /\ \A k \in 1..Len(c) : c[k] \in S
  BY <1>2
<1>4. \A k \in 1..Len(c) : c[k] \in Range(c)
  BY <1>3 DEF Range
<1>5. c \in Seq(Range(c))
  BY <1>2, <1>3, <1>4
<1>6. \A i \in Range(c) : i \in S
  BY <1>3 DEF Range
<1>7. QED
  BY <1>1, <1>5, <1>6 DEF AllMade, c

\* A list made of such items; and one of none, one or two.
LEMMA EachMade ==
  ASSUME NEW corpus, NEW S, NEW s \in Seq(S), NEW e, e = [k \in DOMAIN s |-> e[k]],
         \A k \in DOMAIN s : s[k] \in S => MadeFrom(corpus, e[k])
  PROVE  AllMade(corpus, e)
<1>1. DOMAIN s = 1..Len(s) /\ Len(s) \in Nat /\ \A k \in 1..Len(s) : s[k] \in S
  OBVIOUS
<1>2. e = [k \in 1..Len(s) |-> e[k]] /\ DOMAIN e = 1..Len(s)
  BY <1>1
<1>3. \A k \in 1..Len(s) : e[k] \in Range(e)
  BY <1>2 DEF Range
<1>4. e \in Seq(Range(e))
  BY <1>1, <1>2, <1>3
<1>5. \A i \in Range(e) : MadeFrom(corpus, i)
  BY <1>1, <1>2 DEF Range
<1>6. QED
  BY <1>4, <1>5 DEF AllMade

LEMMA FewMade ==
  ASSUME NEW corpus, NEW i, NEW j, MadeFrom(corpus, i), MadeFrom(corpus, j)
  PROVE  /\ AllMade(corpus, <<>>) /\ AllMade(corpus, <<i>>) /\ AllMade(corpus, <<i, j>>)
<1>1. Range(<<>>) = {} /\ <<>> \in Seq({})
  BY DEF Range
<1>2. Range(<<i>>) = {i} /\ <<i>> \in Seq({i})
  BY DEF Range
<1>3. Range(<<i, j>>) = {i, j} /\ <<i, j>> \in Seq({i, j})
  <2>1. DOMAIN <<i, j>> = {1, 2} /\ <<i, j>>[1] = i /\ <<i, j>>[2] = j
    OBVIOUS
  <2>2. QED
    BY <2>1 DEF Range
<1>4. QED
  BY <1>1, <1>2, <1>3 DEF AllMade

\* Documents by ID, and the first few of them.
LEMMA ById ==
  ASSUME NEW D \in SUBSET Docs, NEW s \in InIdOrder(D)
  PROVE  s \in Seq(D) /\ Range(s) = D
<1>1. IdOrder \in Seq(Docs) /\ Range(IdOrder) = Docs
  BY QuestionsAssumption
<1>2. s \in Kept(IdOrder, D)
  BY DEF InIdOrder
<1>3. s \in Seq(Docs) /\ Range(s) = Range(IdOrder) \cap D
  BY <1>1, <1>2, KeptOf
<1>4. Range(s) = D
  BY <1>1, <1>3
<1>5. \A k \in 1..Len(s) : s[k] \in D
  BY <1>3, <1>4 DEF Range
<1>6. QED
  BY <1>3, <1>4, <1>5

LEMMA FewOf ==
  ASSUME NEW S, NEW s \in Seq(S), NEW n \in Nat
  PROVE  Take(s, n) \in Seq(S)
<1>1. n \in Int
  OBVIOUS
<1>2. QED
  BY <1>1, TakeSeq

LEMMA TwoOf ==
  ASSUME NEW S, NEW s \in Seq(S)
  PROVE  FirstTwo(s) \in Seq(S)
<1>1. Take(s, 2) \in Seq(S)
  BY FewOf
<1>2. CASE Len(s) > 1 /\ Preferred \in Range(Tail(s))
  <2>1. Len(s) \in Nat /\ s[1] \in S /\ s # <<>>
    BY <1>2
  <2>2. Tail(s) \in Seq(S)
    BY <2>1
  <2>3. Range(Tail(s)) \subseteq S
    BY <2>2 DEF Range
  <2>4. <<s[1], Preferred>> \in Seq(S)
    BY <1>2, <2>1, <2>3
  <2>5. QED
    BY <1>2, <2>4 DEF FirstTwo
<1>3. QED
  BY <1>1, <1>2 DEF FirstTwo

\* The references of a type that lead to a document.
LEMMA ExamplesOf ==
  ASSUME NEW corpus \in Corpora, NEW type, NEW s \in ReferenceExamples(corpus, type)
  PROVE  s \in Seq({p \in (DOMAIN corpus.docs) \X (DOMAIN corpus.docs) :
                      <<p[1], p[2], type>> \in corpus.refs})
<1> DEFINE leading == {p \in (DOMAIN corpus.docs) \X (DOMAIN corpus.docs) :
                         <<p[1], p[2], type>> \in corpus.refs}
           D == Range(Pairs) \cap leading
<1>1. DOMAIN corpus.docs \in SUBSET Docs
  BY QuestionsAssumption
<1>2. IsFiniteSet(DOMAIN corpus.docs)
  BY <1>1, DocsFinite
<1>3. IsFiniteSet((DOMAIN corpus.docs) \X (DOMAIN corpus.docs))
  BY <1>2, FS_Product
<1>4. IsFiniteSet(D)
  BY <1>3, FS_Subset
<1>5. PICK o \in Kept(Pairs, leading) : s = Take(o, MaxExamples)
  BY DEF ReferenceExamples
<1>6. o \in Orders(D)
  BY <1>5 DEF Kept
<1>7. D \subseteq leading
  OBVIOUS
<1> HIDE DEF D, leading
<1>8. Cardinality(D) \in Nat
  BY <1>4, FS_CardinalityType
<1>9. o \in [1..Cardinality(D) -> D]
  BY <1>6 DEF Orders
<1>10. o \in Seq(leading)
  BY <1>7, <1>8, <1>9
<1>11. s \in Seq(leading)
  BY <1>5, <1>10, FewOf, EvaluationAssumption
<1>12. QED
  BY <1>11 DEF leading

\* What each part of build_eval_seed() makes.
LEMMA ReferencesMade ==
  ASSUME NEW corpus \in Corpora, NEW type \in RefTypes, NEW words,
         NEW items \in ReferenceItems(corpus, type, words)
  PROVE  AllMade(corpus, items)
<1> DEFINE S == {p \in (DOMAIN corpus.docs) \X (DOMAIN corpus.docs) :
                   <<p[1], p[2], type>> \in corpus.refs}
<1>1. PICK s \in ReferenceExamples(corpus, type) :
        items = [k \in DOMAIN s |-> ReferenceItem(corpus, type, words, s[k])]
  BY DEF ReferenceItems, Each
<1>2. s \in Seq(S)
  BY ExamplesOf
<1>3. ASSUME NEW p \in S, NEW i, i = ReferenceItem(corpus, type, words, p)
      PROVE  MadeFrom(corpus, i)
  <2>1. i.type = type /\ i.requires = p /\ i.question = Templated(About(corpus, p[1]), words, TRUE)
    BY <1>3 DEF ReferenceItem
  <2>2. /\ i.question.mentions = About(corpus, p[1]) /\ i.question.reasons
        /\ i.question.filter = NoFilter
    BY <2>1 DEF Templated
  <2>3. /\ p[1] \in DOMAIN corpus.docs /\ p[2] \in DOMAIN corpus.docs
        /\ <<p[1], p[2], type>> \in corpus.refs
    OBVIOUS
  <2>4. OfReference(corpus, i)
    BY <2>1, <2>2, <2>3 DEF OfReference, AboutOne
  <2>5. type \notin {"error_code", "structured_filter", "dangling", "narrative"}
    BY DEF RefTypes
  <2>6. QED
    BY <2>1, <2>4, <2>5 DEF MadeFrom
<1> HIDE DEF S
<1>4. \A k \in DOMAIN s : s[k] \in S => MadeFrom(corpus, items[k])
  BY <1>1, <1>3
<1>5. items = [k \in DOMAIN s |-> items[k]]
  BY <1>1
<1>6. QED
  BY <1>2, <1>4, <1>5, EachMade

LEMMA CodedMade ==
  ASSUME NEW corpus \in Corpora, NEW items \in ErrorCodeItems(corpus)
  PROVE  AllMade(corpus, items)
<1>1. AllMade(corpus, <<>>)
  <2>1. MadeFrom(corpus, [type |-> "none"])
    BY DEF MadeFrom, RefTypes
  <2>2. QED
    BY <2>1, FewMade
<1>2. ASSUME NEW s \in InIdOrder(corpus.coded), NEW i,
             i = [question |-> [Templated(<<>>, {}, FALSE) EXCEPT !.code = TRUE],
                  type |-> "error_code", requires |-> s]
      PROVE  AllMade(corpus, <<i>>)
  <2>1. corpus.coded \in SUBSET Docs
    BY QuestionsAssumption
  <2>2. Range(s) = corpus.coded
    BY <2>1, ById
  <2>3. /\ i.question.code /\ i.question.mentions = <<>> /\ i.question.filter = NoFilter
        /\ i.type = "error_code" /\ i.requires = s
    BY <1>2 DEF Templated
  <2>4. MadeFrom(corpus, i)
    BY <2>2, <2>3 DEF MadeFrom, OfCoded, RefTypes
  <2>5. QED
    BY <2>4, FewMade
<1>3. QED
  BY <1>1, <1>2 DEF ErrorCodeItems

LEMMA FilterMade ==
  ASSUME NEW corpus, NEW p
  PROVE  MadeFrom(corpus, FilterItem(p))
<1>1. /\ FilterItem(p).type = "structured_filter" /\ FilterItem(p).question.counts
      /\ ~FilterItem(p).question.code /\ FilterItem(p).question.mentions = <<>>
      /\ FilterItem(p).question.filter = ParseModuleStatus(p[1], p[2])
  BY DEF FilterItem, Templated
<1>2. QED
  BY <1>1 DEF MadeFrom, OfFilter, RefTypes

LEMMA FiltersMade ==
  ASSUME NEW corpus, NEW items \in FilterItems(corpus)
  PROVE  AllMade(corpus, items)
<1>1. \/ items = <<>>
      \/ \E p : items = <<FilterItem(p)>>
      \/ \E p, s : items = <<FilterItem(p), FilterItem(s)>>
  BY DEF FilterItems
<1>2. AllMade(corpus, <<>>)
  BY FilterMade, FewMade
<1>3. \A p : AllMade(corpus, <<FilterItem(p)>>)
  BY FilterMade, FewMade
<1>4. \A p, s : AllMade(corpus, <<FilterItem(p), FilterItem(s)>>)
  BY FilterMade, FewMade
<1>5. QED
  BY <1>1, <1>2, <1>3, <1>4

LEMMA FollowedMade ==
  ASSUME NEW corpus, NEW first, NEW second,
         \A a \in first : AllMade(corpus, a), \A b \in second : AllMade(corpus, b)
  PROVE  \A items \in Followed(first, second) : AllMade(corpus, items)
<1>1. TAKE items \in Followed(first, second)
<1>2. PICK a \in first, b \in second : items = a \o b
  BY DEF Followed
<1>3. AllMade(corpus, a) /\ AllMade(corpus, b)
  OBVIOUS
<1>4. QED
  BY <1>2, <1>3, Appended

LEMMA StandaloneMade ==
  ASSUME NEW corpus \in Corpora
  PROVE  \A items \in StandaloneItems(corpus) : AllMade(corpus, items)
<1> DEFINE bugs == {d \in OfType(corpus, "bug_report") :
                      ~IsTarget(corpus, d) /\ \A r \in corpus.refs : r[1] # d}
           cases == {d \in OfType(corpus, "test_case") : ~IsTarget(corpus, d)}
           Bug(d) == [question |-> Templated(About(corpus, d), {"steps", "reproduce"}, FALSE),
                      type |-> "single_doc_factual", requires |-> <<d>>]
           Case(d) == [question |-> Templated(About(corpus, d), {"preconditions"}, FALSE),
                       type |-> "single_doc_factual", requires |-> <<d>>]
           Bugs(s) == [k \in DOMAIN FirstTwo(s) |-> Bug(FirstTwo(s)[k])]
           Cases(s) == [k \in DOMAIN Take(s, 2) |-> Case(Take(s, 2)[k])]
<1>1. bugs \in SUBSET Docs /\ cases \in SUBSET Docs
  BY QuestionsAssumption DEF OfType
<1>2. StandaloneItems(corpus) = Followed({Bugs(s) : s \in InIdOrder(bugs)},
                                         {Cases(s) : s \in InIdOrder(cases)})
  BY DEF StandaloneItems, Each
<1>3. \A i : i.type = "single_doc_factual" => MadeFrom(corpus, i)
  BY DEF MadeFrom, RefTypes
<1>4. ASSUME NEW s \in InIdOrder(bugs) PROVE AllMade(corpus, Bugs(s))
  <2> DEFINE t == FirstTwo(s)
             e == Bugs(s)
  <2>1. e = [k \in DOMAIN t |-> e[k]] /\ \A k \in DOMAIN t : e[k].type = "single_doc_factual"
    OBVIOUS
  <2> HIDE DEF bugs, e
  <2>2. t \in Seq(bugs)
    BY <1>1, ById, TwoOf
  <2> HIDE DEF t
  <2>3. AllMade(corpus, e)
    BY <1>3, <2>1, <2>2, EachMade
  <2>4. QED
    BY <2>3 DEF e
<1>5. ASSUME NEW s \in InIdOrder(cases) PROVE AllMade(corpus, Cases(s))
  <2> DEFINE t == Take(s, 2)
             e == Cases(s)
  <2>1. e = [k \in DOMAIN t |-> e[k]] /\ \A k \in DOMAIN t : e[k].type = "single_doc_factual"
    OBVIOUS
  <2> HIDE DEF cases, e
  <2>2. t \in Seq(cases)
    BY <1>1, ById, FewOf
  <2> HIDE DEF t
  <2>3. AllMade(corpus, e)
    BY <1>3, <2>1, <2>2, EachMade
  <2>4. QED
    BY <2>3 DEF e
<1> HIDE DEF bugs, cases, Bugs, Cases
<1>6. QED
  BY <1>2, <1>4, <1>5, FollowedMade

LEMMA DanglingMade ==
  ASSUME NEW corpus \in Corpora, NEW items \in DanglingItems(corpus)
  PROVE  AllMade(corpus, items)
<1> DEFINE citing == {d \in DOMAIN corpus.docs : \E t \in Dangling(corpus, d) :
                        <<d, t, "test_case_citation">> \in corpus.refs}
<1>1. citing \in SUBSET Docs
  BY QuestionsAssumption
<1>2. PICK s \in InIdOrder(citing) :
        items = [k \in DOMAIN Take(s, 1) |->
                   [question |-> Templated(About(corpus, Take(s, 1)[k]), {"expected result"}, TRUE),
                    type |-> "dangling", requires |-> <<Take(s, 1)[k]>>]]
  BY DEF DanglingItems, Each
<1>3. ASSUME NEW d \in citing, NEW i,
             i = [question |-> Templated(About(corpus, d), {"expected result"}, TRUE),
                  type |-> "dangling", requires |-> <<d>>]
      PROVE  MadeFrom(corpus, i)
  <2>1. i.type = "dangling" /\ i.requires[1] = d
    BY <1>3
  <2>2. /\ i.question.mentions = About(corpus, d) /\ i.question.reasons
        /\ i.question.filter = NoFilter
    BY <1>3 DEF Templated
  <2>3. \E t : <<d, t, "test_case_citation">> \in corpus.refs /\ t \notin DOMAIN corpus.docs
    BY DEF Dangling
  <2>4. OfDangling(corpus, i)
    BY <2>1, <2>2, <2>3 DEF OfDangling, AboutOne
  <2>5. QED
    BY <2>1, <2>4 DEF MadeFrom, RefTypes
<1> DEFINE t == Take(s, 1)
<1> HIDE DEF citing
<1>4. t \in Seq(citing)
  BY <1>1, ById, FewOf
<1>5. \A k \in DOMAIN t : t[k] \in citing => MadeFrom(corpus, items[k])
  BY <1>2, <1>3
<1>6. items = [k \in DOMAIN t |-> items[k]]
  BY <1>2
<1> HIDE DEF t
<1>7. QED
  BY <1>4, <1>5, <1>6, EachMade

LEMMA NarrativeMade ==
  ASSUME NEW corpus \in Corpora, NEW items \in NarrativeItems(corpus)
  PROVE  AllMade(corpus, items)
<1> DEFINE resolved == {d \in OfType(corpus, "bug_report") :
                          corpus.docs[d].status = "Resolved"}
<1>1. resolved \in SUBSET Docs
  BY QuestionsAssumption DEF OfType
<1>2. PICK s \in InIdOrder(resolved) :
        items = [k \in DOMAIN Take(s, 1) |->
                   [question |-> Templated(About(corpus, Take(s, 1)[k]), {}, TRUE),
                    type |-> "narrative", requires |-> <<Take(s, 1)[k]>>]]
  BY DEF NarrativeItems, Each
<1>3. ASSUME NEW d \in resolved, NEW i,
             i = [question |-> Templated(About(corpus, d), {}, TRUE),
                  type |-> "narrative", requires |-> <<d>>]
      PROVE  MadeFrom(corpus, i)
  <2>1. i.type = "narrative" /\ i.requires[1] = d /\ d \in DOMAIN corpus.docs
    BY <1>3 DEF OfType
  <2>2. /\ i.question.mentions = About(corpus, d) /\ i.question.reasons
        /\ i.question.filter = NoFilter
    BY <1>3 DEF Templated
  <2>3. AboutOne(corpus, i)
    BY <2>1, <2>2 DEF AboutOne
  <2>4. QED
    BY <2>1, <2>3 DEF MadeFrom, RefTypes
<1> DEFINE t == Take(s, 1)
<1> HIDE DEF resolved
<1>4. t \in Seq(resolved)
  BY <1>1, ById, FewOf
<1>5. \A k \in DOMAIN t : t[k] \in resolved => MadeFrom(corpus, items[k])
  BY <1>2, <1>3
<1>6. items = [k \in DOMAIN t |-> items[k]]
  BY <1>2
<1> HIDE DEF t
<1>7. QED
  BY <1>4, <1>5, <1>6, EachMade

\* What generate_eval_seed.py makes, and what is asked in a run with the items added
\* by hand behind it.
LEMMA SeedMade ==
  ASSUME NEW corpus \in Corpora, NEW items \in BuildEvalSeed(corpus)
  PROVE  AllMade(corpus, items \o ByHand)
<1>1. {"test_case_citation", "duplicate_of", "related_to"} \subseteq RefTypes
  BY DEF RefTypes
<1>2. \A type \in RefTypes : \A words : \A s \in ReferenceItems(corpus, type, words) :
        AllMade(corpus, s)
  BY ReferencesMade
<1>3. /\ \A s \in ErrorCodeItems(corpus) : AllMade(corpus, s)
      /\ \A s \in FilterItems(corpus) : AllMade(corpus, s)
  BY CodedMade, FiltersMade
<1>4. \A s \in StandaloneItems(corpus) : AllMade(corpus, s)
  BY StandaloneMade
<1>5. /\ \A s \in DanglingItems(corpus) : AllMade(corpus, s)
      /\ \A s \in NarrativeItems(corpus) : AllMade(corpus, s)
  BY DanglingMade, NarrativeMade
<1> DEFINE g == Followed(DanglingItems(corpus), NarrativeItems(corpus))
           f == Followed(StandaloneItems(corpus), g)
           e == Followed(FilterItems(corpus), f)
           d == Followed(ErrorCodeItems(corpus), e)
           c == Followed(ReferenceItems(corpus, "related_to", {}), d)
           b == Followed(ReferenceItems(corpus, "duplicate_of", {"module"}), c)
           a == Followed(ReferenceItems(corpus, "test_case_citation", {"expected result"}), b)
<1>6. BuildEvalSeed(corpus) = a
  BY DEF BuildEvalSeed
<1> HIDE DEF a, b, c, d, e, f, g
<1>7. \A s \in g : AllMade(corpus, s)
  BY <1>5, FollowedMade DEF g
<1>8. \A s \in f : AllMade(corpus, s)
  BY <1>4, <1>7, FollowedMade DEF f
<1>9. \A s \in e : AllMade(corpus, s)
  BY <1>3, <1>8, FollowedMade DEF e
<1>10. \A s \in d : AllMade(corpus, s)
  BY <1>3, <1>9, FollowedMade DEF d
<1>11. \A s \in c : AllMade(corpus, s)
  BY <1>1, <1>2, <1>10, FollowedMade DEF c
<1>12. \A s \in b : AllMade(corpus, s)
  BY <1>1, <1>2, <1>11, FollowedMade DEF b
<1>13. \A s \in a : AllMade(corpus, s)
  BY <1>1, <1>2, <1>12, FollowedMade DEF a
<1>14. AllMade(corpus, items)
  BY <1>6, <1>13
<1>15. AllMade(corpus, ByHand)
  <2>1. /\ ByHand \in Seq(Range(ByHand))
        /\ \A i \in Range(ByHand) : i.type = "out_of_domain"
    BY EvaluationAssumption DEF MayBeAsked
  <2>2. \A i : i.type = "out_of_domain" => MadeFrom(corpus, i)
    BY DEF MadeFrom, RefTypes
  <2>3. QED
    BY <2>1, <2>2 DEF AllMade
<1>16. QED
  BY <1>14, <1>15, Appended

-----------------------------------------------------------------------------
\* The items of a run of generated questions are made of the tables as they were, and
\* the request the script awaits is for the item it is at.
RunSeeded ==
  /\ run.mode = "eval" =>
       /\ run.madeAt \in 1..Len(history)
       /\ \A k \in DOMAIN run.items : MadeFrom(history[run.madeAt], run.items[k])
  /\ waiting => question = Item.question

\* A question that counts, and names nothing, is counted or turned away.
CountedOrRefused ==
  question.counts /\ ~question.code /\ question.mentions = <<>> =>
    /\ pc \in {"idle", "text", "vector", "count", "list", "finish"}
    /\ pinned = <<>>
    /\ answer.route \in {"none", "reject", "deterministic"}

\* A question about the error code is answered with the documents that carry it, as
\* long as no index is built nor any state committed.
Carriers == {d \in Db.coded : Passes(Db.docs[d], question.filter)}
CodedFound ==
  question.code /\ question.mentions = <<>> =>
    /\ pc \in {"idle", "codes", "relations", "finish"}
    /\ pc \in {"codes", "relations", "finish"} => answer.route = "error_code"
    /\ answer.route \in {"none", "error_code"}
    /\ pc = "codes" => answer.mentions = {}
    /\ asOf = Len(history) =>
         /\ pc = "relations" => Range(hits) = Carriers
         /\ pc = "finish" \/ (pc = "idle" /\ answer.route = "error_code") =>
              answer.mentions = Carriers

\* A question of a template about a document, asked of an index and tables that agree.
AsksWhy ==
  /\ question.mentions # <<>> /\ question.mentions[1] \in DOMAIN Db.docs
  /\ question.reasons /\ DOMAIN question.filter = {}
  /\ asOf = Len(history)

\* Where a reference leads, if it is from a named document to one in the corpus: to a
\* named one, to one of the targets, or to none of them as these fill their room.
Room == Least(MaxExpansion, ContextTopN - Len(pinned))
TargetsFound ==
  \A r \in Db.refs : r[1] \in Range(pinned) /\ r[2] \in DOMAIN Db.docs =>
    r[2] \in Range(pinned) \cup Range(targets) \/ Len(targets) = Room

\* Its document is the first named, is among the rows, and its references' targets, as
\* far as there is room, are shown.
Reached ==
  AsksWhy =>
    /\ pc \notin {"fields", "count", "list", "codes", "relations"}
    /\ pc = "resolve" => ids # <<>> /\ ids[1] = question.mentions[1] /\ IsInjective(ids)
    /\ pc \in {"text", "vector", "targets", "place", "rows", "lines", "generate"} =>
         pinned # <<>> /\ pinned[1] = question.mentions[1]
    /\ pc = "place" => Range(targets) \subseteq DOMAIN Db.docs
    /\ pc \in {"place", "rows", "lines", "generate"} /\ Len(pinned) < ContextTopN =>
         TargetsFound /\ Len(targets) <= Room
    /\ pc \in {"rows", "lines", "generate"} /\ Len(pinned) < ContextTopN =>
         Range(targets) \subseteq Range(Shown)
    /\ pc \in {"lines", "generate"} => question.mentions[1] \in rows
    /\ pc = "generate" =>
         \A r \in Db.refs : r[1] = question.mentions[1] => Line(Db, r) \in lines

\* A state committed or an index built since the question came in is a later one.
LEMMA ChangesAreLater ==
  ASSUME QuestionsTypeOK, ChangeCorpus
  PROVE  UNCHANGED requestVars /\ asOf' # Len(history')
<1>1. UNCHANGED requestVars
  BY IndexMoves
<1>2. /\ history \in Seq(Corpora) /\ live \in 1..Len(history) /\ asOf \in 1..live
      /\ Len(history) \in Nat
  BY DEF QuestionsTypeOK
<1>3. asOf' = asOf
  BY <1>1 DEF requestVars
<1>4. CASE \E c \in Corpora : Commit(c)
  <2>1. PICK c \in Corpora : history' = Append(history, c)
    BY <1>4 DEF Commit
  <2>2. Len(history') = Len(history) + 1
    BY <1>2, <2>1
  <2>3. QED
    BY <1>1, <1>2, <1>3, <2>2
<1>5. CASE \E v \in 1..Len(history) : Publish(v)
  <2>1. PICK v \in 1..Len(history) : v > live /\ history' = history
    BY <1>5 DEF Publish
  <2>2. QED
    BY <1>1, <1>2, <1>3, <2>1
<1>6. QED
  BY <1>4, <1>5 DEF ChangeCorpus

LEMMA IndexIsCurrent ==
  ASSUME QuestionsTypeOK, asOf = Len(history)
  PROVE  live = Len(history) /\ Index = Db
<1>1. live \in 1..Len(history) /\ asOf \in 1..live /\ Len(history) \in Nat
  BY DEF QuestionsTypeOK
<1>2. live = Len(history)
  BY <1>1
<1>3. QED
  BY <1>2 DEF Index, Db

\* A question without an ID.
LEMMA NoIds == ExtractIds(<<>>) \subseteq {<<>>}
<1>1. Range(<<>>) = {} /\ {} \in SUBSET Docs /\ Cardinality({}) = 0
  BY FS_EmptySet DEF Range
<1>2. \A o \in Orders({}) : o \in Seq(Docs) /\ Len(o) = 0
  BY <1>1, OrderOf
<1>3. ASSUME NEW s \in ExtractIds(<<>>) PROVE s = <<>>
  <2>1. PICK o \in Orders({}) : s = Take(o, MaxIds)
    BY <1>1 DEF ExtractIds
  <2>2. o \in Seq(Docs) /\ Len(o) = 0 /\ MaxIds \in Int
    BY <1>2, Limits
  <2>3. s \in Seq(Docs) /\ \A i \in 1..Len(s) : i \in 1..Len(o)
    BY <2>1, <2>2, TakeSeq
  <2>4. Len(s) \in Nat /\ ~(1 \in 1..Len(s))
    BY <2>2, <2>3
  <2>5. Len(s) = 0
    BY <2>4
  <2>6. QED
    BY <2>3, <2>5
<1>4. QED
  BY <1>3

\* Every step keeps a counting question on its way.
LEMMA CountedOrRefusedStep ==
  ASSUME QuestionsTypeOK, CountedOrRefused, [QuestionsNext]_questionsVars
  PROVE  CountedOrRefused'
<1>1. CASE ChangeCorpus \/ UNCHANGED questionsVars
  <2>1. UNCHANGED requestVars
    BY <1>1, IndexMoves DEF questionsVars
  <2>2. QED
    BY <2>1 DEF requestVars, CountedOrRefused
<1>2. CASE \E q \in Asked : Ask(q)
  <2>1. PICK q \in Asked : Ask(q)
    BY <1>2
  <2>2. /\ question' = q /\ pinned' = <<>> /\ ids' \in ExtractIds(q.mentions)
        /\ IF ids' = <<>> /\ q.code THEN pc' = "codes"
           ELSE pc' = (IF ids' = <<>> THEN "text" ELSE "resolve") /\ answer' = NoAnswer
    BY <2>1 DEF Ask
  <2>3. q.mentions = <<>> /\ ~q.code => pc' = "text" /\ answer' = NoAnswer
    BY <2>2, NoIds
  <2>4. QED
    BY <2>2, <2>3, BlankAnswer DEF CountedOrRefused
<1>3. CASE /\ pc \in {"resolve", "targets", "place", "rows", "lines", "generate", "codes",
                      "relations", "fields"}
           /\ UNCHANGED question
  BY <1>3 DEF CountedOrRefused
<1>4. CASE SearchText
  BY <1>4 DEF SearchText, CountedOrRefused
<1>5. CASE SearchVector
  <2>1. question' = question /\ pinned' = pinned
    BY <1>5, SearchVectorAnswer
  <2>2. question.counts /\ pinned = <<>> => /\ pc' \in {"finish", "count"}
                                           /\ answer'.route \in {"reject", "deterministic"}
    <3>1. ASSUME pinned = <<>>, question.counts PROVE pc' # "rows"
      <4>1. PICK top, score : Route(top, score)
        BY <1>5, <3>1 DEF SearchVector, Pin
      <4>2. QED
        BY <3>1, <4>1 DEF Route
    <3>2. QED
      BY <1>5, <3>1, SearchVectorAnswer
  <2>3. QED
    BY <2>1, <2>2 DEF CountedOrRefused
<1>6. CASE CountDocuments
  BY <1>6 DEF CountDocuments, CountedOrRefused
<1>7. CASE ListDocuments
  BY <1>7, ListDocumentsAnswer DEF ListDocuments, CountedOrRefused
<1>8. CASE Raise
  BY <1>8, BlankAnswer DEF Raise, CountedOrRefused
<1>9. CASE Finish
  BY <1>9 DEF Finish, CountedOrRefused
<1>10. CASE Resolve \/ FetchTargets \/ PlaceTargets \/ FetchRows \/ FetchLines \/ FindCoded
            \/ RelateCoded \/ LookUpFields
            \/ \E reply \in Replies, failed \in BOOLEAN : Generate(reply, failed)
  <2>1. /\ pc \in {"resolve", "targets", "place", "rows", "lines", "generate", "codes",
                   "relations", "fields"}
        /\ UNCHANGED question
    BY <1>10 DEF Resolve, FetchTargets, PlaceTargets, FetchRows, FetchLines, FindCoded,
       RelateCoded, LookUpFields, Generate
  <2>2. QED
    BY <1>3, <2>1
<1>11. QED
  BY <1>1, <1>2, <1>4, <1>5, <1>6, <1>7, <1>8, <1>9, <1>10 DEF QuestionsNext, Handle

\* Every step keeps what a question about the error code has found.
LEMMA CodedFoundStep ==
  ASSUME QuestionsTypeOK, Routed, CodedFound, [QuestionsNext]_questionsVars
  PROVE  CodedFound'
<1>1. CASE ChangeCorpus
  BY <1>1, ChangesAreLater DEF requestVars, CodedFound
<1>2. CASE UNCHANGED questionsVars
  <2>1. UNCHANGED requestVars /\ history' = history /\ Carriers' = Carriers
    BY <1>2 DEF questionsVars, requestVars, corpusVars, Carriers, Db
  <2>2. QED
    BY <2>1 DEF requestVars, CodedFound
<1>3. CASE \E q \in Asked : Ask(q)
  <2>1. PICK q \in Asked : Ask(q)
    BY <1>3
  <2>2. /\ question' = q /\ pinned' = <<>> /\ ids' \in ExtractIds(q.mentions)
        /\ ids' = <<>> /\ q.code =>
             pc' = "codes" /\ answer' = [NoAnswer EXCEPT !.route = "error_code"]
    BY <2>1 DEF Ask
  <2>3. q.mentions = <<>> => ids' = <<>>
    BY <2>2, NoIds
  <2>4. /\ [NoAnswer EXCEPT !.route = "error_code"].route = "error_code"
        /\ [NoAnswer EXCEPT !.route = "error_code"].mentions = {}
    BY DEF NoAnswer
  <2>5. QED
    BY <2>2, <2>3, <2>4 DEF CodedFound
<1>4. CASE Resolve \/ SearchText \/ SearchVector \/ FetchTargets \/ PlaceTargets \/ FetchRows
           \/ FetchLines \/ CountDocuments \/ ListDocuments \/ LookUpFields
           \/ \E reply \in Replies, failed \in BOOLEAN : Generate(reply, failed)
  <2>1. /\ pc \in {"resolve", "text", "vector", "targets", "place", "rows", "lines",
                   "generate", "count", "list", "fields"}
        /\ UNCHANGED question
    BY <1>4 DEF Resolve, SearchText, SearchVector, FetchTargets, PlaceTargets, FetchRows,
       FetchLines, CountDocuments, ListDocuments, LookUpFields, Generate
  <2>2. QED
    BY <2>1 DEF CodedFound
<1>5. CASE FindCoded
  <2>1. /\ pc = "codes" /\ pc' = IF hits' = <<>> THEN "finish" ELSE "relations"
        /\ hits' \in Kept(IdOrder, Carriers)
        /\ UNCHANGED <<question, answer, asOf, history>> /\ Carriers' = Carriers
    BY <1>5 DEF FindCoded, corpusVars, Carriers, Db
  <2>2. Carriers \in SUBSET Docs
    BY Reads DEF Carriers
  <2>3. Range(hits') = Carriers
    BY <2>1, <2>2, ById DEF InIdOrder
  <2>4. Range(<<>>) = {}
    BY DEF Range
  <2>5. QED
    BY <2>1, <2>3, <2>4 DEF CodedFound, Routed
<1>6. CASE RelateCoded
  <2>1. /\ pc = "relations" /\ pc' = "finish"
        /\ answer' = [answer EXCEPT !.sources = hits, !.mentions = Range(hits),
                                    !.number = Len(hits)]
        /\ UNCHANGED <<question, asOf, history>> /\ Carriers' = Carriers
    BY <1>6 DEF RelateCoded, corpusVars, Carriers, Db
  <2>2. answer \in Answers
    BY DEF QuestionsTypeOK
  <2>3. answer'.route = answer.route /\ answer'.mentions = Range(hits)
    BY <2>1, <2>2 DEF Answers
  <2>4. QED
    BY <2>1, <2>3 DEF CodedFound, Routed
<1>7. CASE Raise
  BY <1>7, BlankAnswer DEF Raise, CodedFound
<1>8. CASE Finish
  <2>1. /\ pc = "finish" /\ pc' = "idle" /\ UNCHANGED <<question, answer, asOf, history>>
        /\ Carriers' = Carriers
    BY <1>8 DEF Finish, corpusVars, Carriers, Db
  <2>2. QED
    BY <2>1 DEF CodedFound
<1>9. QED
  BY <1>1, <1>2, <1>3, <1>4, <1>5, <1>6, <1>7, <1>8 DEF QuestionsNext, Handle

-----------------------------------------------------------------------------
\* A run's items stay made of the tables it was started on, and the script's question
\* stays the one it awaits an answer to.
LEMMA SeededStep ==
  ASSUME EvalInv, QuestionsTypeOK, RunSeeded, [EvalNext]_<<questionsVars, evalVars>>
  PROVE  RunSeeded'
<1>1. CASE StartEval
  <2>1. PICK k \in 1..Len(history) : \E items \in BuildEvalSeed(history[k]) :
          Start("eval", items \o ByHand, k)
    BY <1>1 DEF StartEval
  <2>2. PICK items \in BuildEvalSeed(history[k]) : Start("eval", items \o ByHand, k)
    BY <2>1
  <2>3. history[k] \in Corpora
    BY Reads
  <2> DEFINE all == items \o ByHand
  <2>4. AllMade(history[k], all)
    BY <2>3, SeedMade
  <2> HIDE DEF all
  <2>5. /\ run'.mode = "eval" /\ run'.items = all /\ run'.madeAt = k
        /\ ~waiting /\ waiting' = waiting /\ history' = history
    BY <1>1, <2>2 DEF StartEval, Start, Idle, EvalInv, questionsVars, corpusVars, all
  <2>6. \A j \in DOMAIN all : all[j] \in Range(all)
    BY DEF Range
  <2>7. QED
    BY <2>4, <2>5, <2>6 DEF RunSeeded, AllMade
<1>2. CASE StartHoldout
  <2>1. run'.mode = "holdout" /\ ~waiting /\ waiting' = waiting
    BY <1>2 DEF StartHoldout, Start, Idle, EvalInv
  <2>2. QED
    BY <2>1 DEF RunSeeded
<1>3. CASE SendItem
  <2>1. UNCHANGED <<run, done>> /\ question' = Item.question /\ history' = history
    BY <1>3 DEF SendItem, Ask, corpusVars
  <2>2. Item' = Item
    BY <2>1 DEF Item
  <2>3. QED
    BY <2>1, <2>2 DEF RunSeeded
<1>4. CASE GradeEval \/ GradeHoldout \/ TimeOut
  <2>1. run' = run /\ ~waiting' /\ history' = history
    BY <1>4, GradeKeeps, TimeOutKeeps DEF Raise, questionsVars, corpusVars
  <2>2. QED
    BY <2>1 DEF RunSeeded
<1>5. CASE EndRun \/ Kill
  BY <1>5 DEF EndRun, Kill, Exit, NoRun, RunSeeded
<1>6. CASE EmptyFile \/ FillFile \/ ((Handle \/ Raise \/ Finish) /\ UNCHANGED evalVars)
  <2>1. UNCHANGED <<run, done, waiting, history, question>>
    BY <1>6 DEF EmptyFile, FillFile, questionsVars, requestVars, evalVars, Handle, Finish, Resolve, SearchText,
       SearchVector, FetchTargets, PlaceTargets, FetchRows, FetchLines, Generate,
       CountDocuments, ListDocuments, FindCoded, RelateCoded, LookUpFields, Raise, corpusVars
  <2>2. Item' = Item
    BY <2>1 DEF Item
  <2>3. QED
    BY <2>1, <2>2 DEF RunSeeded
<1>7. CASE ChangeCorpus /\ UNCHANGED evalVars
  <2>1. /\ Len(history) \in Nat /\ Len(history') \in Nat /\ Len(history) <= Len(history')
        /\ \A k \in 1..Len(history) : history'[k] = history[k]
    BY <1>7, HistoryGrows
  <2>2. UNCHANGED <<run, done, waiting, question>>
    BY <1>7, IndexMoves DEF evalVars, requestVars
  <2>3. Item' = Item
    BY <2>2 DEF Item
  <2>4. run.mode = "eval" => run.madeAt \in 1..Len(history')
    BY <2>1 DEF RunSeeded
  <2>5. QED
    BY <2>1, <2>2, <2>3, <2>4 DEF RunSeeded
<1>8. CASE UNCHANGED <<questionsVars, evalVars>>
  BY <1>8 DEF questionsVars, corpusVars, requestVars, evalVars, RunSeeded, Item
<1>9. QED
  BY <1>1, <1>2, <1>3, <1>4, <1>5, <1>6, <1>7, <1>8 DEF EvalNext

\* The filters a question of the generator's may send: never an empty status.
LEMMA FilterOf ==
  ASSUME NEW module, NEW status, DOMAIN ParseModuleStatus(module, status) = {"module", "status"}
  PROVE  /\ ParseModuleStatus(module, status).module = module
         /\ ParseModuleStatus(module, status).status = Label(status)
         /\ Label(status) # ""
<1> DEFINE S == {k \in {"module", "status"} :
                   (IF k = "module" THEN module ELSE Label(status)) \in OneWord}
           f == [key \in S |-> IF key = "module" THEN module ELSE Label(status)]
<1>1. ParseModuleStatus(module, status) = f
  BY DEF ParseModuleStatus
<1>2. S = {"module", "status"}
  BY <1>1
<1> HIDE DEF S
<1>3. f["module"] = module /\ f["status"] = Label(status)
  BY <1>2
<1>4. Label(status) # ""
  BY DEF Label
<1>5. QED
  BY <1>1, <1>3, <1>4

\* With such a filter, and no case to fold, the index admits the bugs the checker
\* counts: a test case has no status.
LEMMA AdmitsBugs ==
  ASSUME NEW corpus \in Corpora, NEW f, DOMAIN f = {"module", "status"}, f.status # "",
         CaseAgrees(corpus, f)
  PROVE  Admitted(corpus, f) = BugsOf(corpus, f.module, f.status)
<1>1. \A d \in DOMAIN corpus.docs : Passes(corpus.docs[d], f) <=>
        corpus.docs[d].module = f.module /\ corpus.docs[d].status = f.status
  <2>1. TAKE d \in DOMAIN corpus.docs
  <2>2. \A key \in DOMAIN f :
          Fold(corpus.docs[d][key]) = Fold(f[key]) <=> corpus.docs[d][key] = f[key]
    BY DEF CaseAgrees
  <2>3. QED
    BY <2>2 DEF Passes
<1>2. \A d \in DOMAIN corpus.docs :
        corpus.docs[d].doc_type # "bug_report" => corpus.docs[d].status = ""
  BY EvaluationAssumption
<1>3. QED
  BY <1>1, <1>2 DEF Admitted, BugsOf, OfType

\* A filter question of the generator's, answered while nothing changed, is answered
\* with the number its checker counts.
LEMMA CountIsRight ==
  ASSUME QuestionsTypeOK, CountedOrRefused, CountConsistent, FilteredCountAnswered,
         NEW i, OfFilter(i), question = i.question, pc = "idle", answer.route # "none",
         asOf = Len(history), DOMAIN i.question.filter = {"module", "status"},
         Admitted(Db, i.question.filter) # {}, CaseAgrees(Db, i.question.filter),
         Cardinality(DOMAIN Db.docs) <= MaxPool
  PROVE  CheckStructuredFilter(i, answer, Db) = {TRUE}
<1> DEFINE f == i.question.filter
           found == Admitted(Db, f)
<1>1. /\ live = Len(history) /\ Index = Db /\ Db \in Corpora /\ DOMAIN Db.docs \subseteq Docs
  BY IndexIsCurrent, Reads
<1>2. PICK module, status : f = ParseModuleStatus(module, status)
  BY DEF OfFilter
<1>3. DOMAIN f = {"module", "status"} /\ f.status # ""
  <2>1. DOMAIN ParseModuleStatus(module, status) = {"module", "status"}
    BY <1>2
  <2>2. ParseModuleStatus(module, status).status # ""
    BY <2>1, FilterOf
  <2>3. QED
    BY <1>2, <2>1, <2>2
<1>4. found = BugsOf(Db, f.module, f.status)
  BY <1>1, <1>3, AdmitsBugs
<1>5. question.counts /\ ~question.code /\ question.mentions = <<>> /\ question.filter = f
  BY DEF OfFilter
<1>6. answer.route \in {"reject", "deterministic"}
  BY <1>5 DEF CountedOrRefused
<1>7. answer.route # "reject"
  <2>1. DOMAIN question.filter # {}
    BY <1>3, <1>5
  <2>2. QED
    BY <1>1, <1>5, <2>1 DEF FilteredCountAnswered, Answered
<1>8. answer.number = Cardinality(found)
  BY <1>1, <1>5, <1>6, <1>7 DEF CountConsistent, Answered
<1>9. Cardinality(found) > 0
  <2>1. found \in SUBSET Docs /\ found # {}
    BY <1>1 DEF Admitted
  <2> HIDE DEF found
  <2>2. IsFiniteSet(found) /\ Cardinality(found) \in Nat
    BY <2>1, DocsFinite
  <2>3. Cardinality(found) # 0
    BY <2>1, <2>2, FS_EmptySet
  <2>4. QED
    BY <2>2, <2>3
<1> HIDE DEF f, found
<1>10. i.question.filter = f
  BY DEF f
<1>11. QED
  BY <1>3, <1>4, <1>6, <1>7, <1>8, <1>9, <1>10 DEF CheckStructuredFilter

\* A question about the error code is answered with every document that carries it.
LEMMA CodesAreRight ==
  ASSUME CodedFound, NEW i, OfCoded(Db, i), question = i.question, pc = "idle",
         answer.route # "none", asOf = Len(history)
  PROVE  ContainsAllIds(answer, i.requires)
<1>1. question.code /\ question.mentions = <<>> /\ DOMAIN question.filter = {}
  BY DEF OfCoded, NoFilter
<1>2. answer.route = "error_code" /\ answer.mentions = Carriers
  BY <1>1 DEF CodedFound
<1>3. Carriers = Db.coded
  BY <1>1 DEF Carriers, Passes
<1>4. QED
  BY <1>2, <1>3 DEF OfCoded, ContainsAllIds

\* What the checkers make of it.
LEMMA GradedRight ==
  ASSUME EvalInv, QuestionsTypeOK, RunSeeded, CountedOrRefused, CodedFound, CountConsistent,
         FilteredCountAnswered, run.mode = "eval", waiting, pc = "idle", Current,
         \/ Item.type = "error_code"
         \/ /\ Item.type = "structured_filter"
            /\ DOMAIN Item.question.filter = {"module", "status"}
            /\ Admitted(Db, Item.question.filter) # {}
            /\ CaseAgrees(Db, Item.question.filter)
            /\ Cardinality(DOMAIN Db.docs) <= MaxPool
  PROVE  EvalResults(Item, answer, Db) \subseteq {"PASS", "ERROR"}
<1>1. run.madeAt = Len(history) /\ asOf = Len(history) /\ question = Item.question
  BY DEF Current, RunSeeded
<1>2. MadeFrom(Db, Item)
  <2>1. Len(run.items) \in Nat /\ DOMAIN run.items = 1..Len(run.items)
        /\ done \in 0..Len(run.items) /\ done < Len(run.items)
    BY DEF EvalInv
  <2>2. done + 1 \in DOMAIN run.items
    BY <2>1
  <2>3. QED
    BY <1>1, <2>2 DEF RunSeeded, Item, Db
<1>3. CASE answer.route = "none"
  BY <1>3 DEF EvalResults
<1>4. CASE answer.route # "none" /\ Item.type = "error_code"
  <2>1. ContainsAllIds(answer, Item.requires)
    BY <1>1, <1>2, <1>4, CodesAreRight DEF MadeFrom
  <2>2. Outcomes(Item, answer, Db) = {ContainsAllIds(answer, Item.requires)}
    BY <1>4 DEF Outcomes
  <2>3. Outcomes(Item, answer, Db) = {TRUE}
    BY <2>1, <2>2
  <2>4. QED
    BY <1>4, <2>3 DEF EvalResults, Verdict
<1>5. CASE answer.route # "none" /\ Item.type # "error_code"
  <2>1. Item.type = "structured_filter" /\ OfFilter(Item)
    BY <1>2, <1>5 DEF MadeFrom
  <2>2. CheckStructuredFilter(Item, answer, Db) = {TRUE}
    BY <1>1, <1>5, <2>1, CountIsRight
  <2>3. Outcomes(Item, answer, Db) = {TRUE}
    BY <2>1, <2>2 DEF Outcomes
  <2>4. QED
    BY <1>5, <2>1, <2>3 DEF EvalResults, Verdict
<1>6. QED
  BY <1>3, <1>4, <1>5

LEMMA DeterministicStep ==
  ASSUME EvalInv, QuestionsTypeOK, RunSeeded, CountedOrRefused, CodedFound, CountConsistent,
         FilteredCountAnswered, DeterministicAnswersPass,
         [EvalNext]_<<questionsVars, evalVars>>
  PROVE  DeterministicAnswersPass'
<1>1. CASE StartEval \/ StartHoldout
  BY <1>1, StartKeeps DEF DeterministicAnswersPass, JustGraded, EvalInv
<1>2. CASE SendItem
  BY <1>2 DEF SendItem, DeterministicAnswersPass, JustGraded
<1>3. CASE GradeEval
  <2>1. /\ run' = run /\ done' = done + 1 /\ UNCHANGED <<history, live, asOf>>
        /\ waiting /\ pc = "idle" /\ run.mode = "eval"
    BY <1>3, GradeKeeps DEF GradeEval, questionsVars, corpusVars, requestVars
  <2>2. PICK r \in EvalResults(Item, answer, Db) : last' = r
    BY <1>3 DEF GradeEval, Record
  <2>3. Graded' = Item /\ Current' = Current /\ Db' = Db
    BY <2>1 DEF Graded, Item, Current, Db
  <2>4. QED
    BY <2>1, <2>2, <2>3, GradedRight DEF DeterministicAnswersPass
<1>4. CASE GradeHoldout \/ EmptyFile \/ FillFile
  <2>1. run' = run /\ run.mode = "holdout"
    BY <1>4, GradeKeeps DEF GradeHoldout, EmptyFile, FillFile, EvalInv
  <2>2. QED
    BY <2>1 DEF DeterministicAnswersPass
<1>5. CASE EndRun \/ Kill
  BY <1>5 DEF EndRun, Kill, Exit, NoRun, DeterministicAnswersPass
<1>6. CASE (Handle \/ Raise \/ Finish) /\ UNCHANGED evalVars
  <2>1. pc # "idle"
    BY <1>6 DEF Finish, Handle, Resolve, SearchText, SearchVector,
       FetchTargets, PlaceTargets, FetchRows, FetchLines, Generate, CountDocuments,
       ListDocuments, FindCoded, RelateCoded, LookUpFields, Raise
  <2>2. run' = run /\ waiting' = waiting
    BY <1>6 DEF evalVars
  <2>3. ~JustGraded'
    BY <2>1, <2>2 DEF JustGraded, EvalInv
  <2>4. QED
    BY <2>3 DEF DeterministicAnswersPass
<1>7. CASE ChangeCorpus /\ UNCHANGED evalVars
  <2>1. asOf' # Len(history')
    BY <1>7, ChangesAreLater
  <2>2. ~Current'
    BY <2>1 DEF Current
  <2>3. QED
    BY <2>2 DEF DeterministicAnswersPass
<1>8. CASE UNCHANGED <<questionsVars, evalVars>>
  BY <1>8 DEF questionsVars, requestVars, corpusVars, evalVars, DeterministicAnswersPass,
     JustGraded, Graded, Current, Db
<1>9. CASE TimeOut
  BY <1>9 DEF TimeOut, Record, DeterministicAnswersPass
<1>10. QED
  BY <1>1, <1>2, <1>3, <1>4, <1>5, <1>6, <1>7, <1>8, <1>9 DEF EvalNext

LEMMA SeededAlways == EvalSpec => []RunSeeded
<1>1. EvalInit => RunSeeded
  BY DEF EvalInit, NoRun, RunSeeded
<1>2. QED
  BY <1>1, SeededStep, ScriptsAskQuestions, PTL DEF EvalSpec

\* As long as the corpus stays what the questions were made from, the questions answered
\* without the model pass (DeterministicAnswersPass): the error code's, and the filter's
\* whose words the harness can read, if no module or status is written like them but for
\* case (CaseAgrees: the index folds it, the SQL of the checker does not) and the index
\* is no larger than the neighbours' pool.
THEOREM DeterministicAnswersAlwaysPass == EvalSpec => []DeterministicAnswersPass
<1>1. EvalInit => DeterministicAnswersPass
  BY DEF EvalInit, NoRun, DeterministicAnswersPass
<1>2. QuestionsInit => CountedOrRefused /\ CodedFound
  BY BlankAnswer DEF QuestionsInit, CountedOrRefused, CodedFound
<1>3. QuestionsSpec => [](CountedOrRefused /\ CodedFound)
  BY <1>2, CountedOrRefusedStep, CodedFoundStep, QuestionsTypeCorrect, RoutedAlways, PTL
     DEF QuestionsSpec
<1>4. QED
  BY <1>1, <1>3, DeterministicStep, SeededAlways, ScriptsAskQuestions, AnswersOfScripts, PTL
     DEF EvalSpec

-----------------------------------------------------------------------------
\* Every set of numbers has a least one.
LEMMA LeastOf ==
  ASSUME NEW T \in SUBSET Nat, T # {}
  PROVE  \E m \in T : \A n \in T : m <= n
<1> DEFINE R == {p \in Nat \X Nat : p[1] < p[2]}
<1>1. IsWellFoundedOn(R, Nat)
  BY NatLessThanWellFounded, Zenon DEF OpToRel
<1>2. \A m, n \in Nat : n < m => <<n, m>> \in R
  OBVIOUS
<1> HIDE DEF R
<1>3. PICK m \in T : \A n \in T : ~(<<n, m>> \in R)
  BY <1>1, WFMin, Zenon
<1>4. \A n \in T : m <= n
  <2>1. TAKE n \in T
  <2>2. m \in Nat /\ n \in Nat
    OBVIOUS
  <2>3. ~(n < m)
    BY <1>2, <1>3, <2>2
  <2>4. QED
    BY <2>2, <2>3
<1>5. QED
  BY <1>4

\* Where a document is first named.
LEMMA FirstOf ==
  ASSUME NEW s \in Seq(Docs), NEW d \in Range(s)
  PROVE  /\ FirstAt(s, d) \in 1..Len(s) /\ s[FirstAt(s, d)] = d
         /\ \A j \in 1..Len(s) : s[j] = d => FirstAt(s, d) <= j
<1> DEFINE T == {i \in 1..Len(s) : s[i] = d}
           P(i) == i \in DOMAIN s /\ s[i] = d /\ \A j \in 1..(i - 1) : s[j] # d
<1>1. T \in SUBSET Nat /\ T # {} /\ DOMAIN s = 1..Len(s) /\ Len(s) \in Nat
  BY DEF Range
<1>2. PICK m \in T : \A n \in T : m <= n
  BY <1>1, LeastOf
<1>3. P(m)
  BY <1>1, <1>2
<1>4. P(CHOOSE i \in DOMAIN s : s[i] = d /\ \A j \in 1..(i - 1) : s[j] # d)
  BY <1>3
<1>5. P(FirstAt(s, d))
  BY <1>4 DEF FirstAt
<1> DEFINE k == FirstAt(s, d)
<1> HIDE DEF k
<1>6. P(k)
  BY <1>5 DEF k
<1>7. ASSUME NEW j \in 1..Len(s), s[j] = d PROVE k <= j
  <2>1. k \in Nat /\ j \in Nat /\ 1 <= j
    BY <1>1, <1>6
  <2>2. j \notin 1..(k - 1)
    BY <1>6, <1>7
  <2>3. QED
    BY <2>1, <2>2
<1>8. QED
  BY <1>1, <1>6, <1>7 DEF k

\* The first ID of a question is the first of its IDs.
LEMMA FirstId ==
  ASSUME NEW mentions \in Seq(Docs), mentions # <<>>, NEW s \in ExtractIds(mentions)
  PROVE  Len(s) >= 1 /\ s[1] = mentions[1] /\ s # <<>>
<1> DEFINE d == mentions[1]
           D == Range(mentions)
<1>1. Len(mentions) \in Nat /\ Len(mentions) >= 1 /\ DOMAIN mentions = 1..Len(mentions)
  OBVIOUS
<1>2. d \in D /\ D \in SUBSET Docs
  BY <1>1 DEF Range
<1>3. PICK o \in Orders(D) :
        /\ s = Take(o, MaxIds)
        /\ \A i, j \in DOMAIN o : i < j => FirstAt(mentions, o[i]) < FirstAt(mentions, o[j])
  BY DEF ExtractIds
<1> HIDE DEF D
<1>4. o \in Seq(Docs) /\ DOMAIN o = 1..Len(o) /\ Range(o) = D /\ Len(o) \in Nat
  BY <1>2, OrderOf
<1>5. PICK k \in 1..Len(o) : o[k] = d
  BY <1>2, <1>4 DEF Range
<1>6. Len(o) >= 1 /\ 1 \in 1..Len(o) /\ k >= 1 /\ k \in Nat
  BY <1>4, <1>5
<1>7. o[1] \in D
  BY <1>4, <1>6 DEF Range
<1>8. FirstAt(mentions, d) <= 1 /\ FirstAt(mentions, d) \in Nat
  BY <1>1, <1>2, FirstOf DEF D
<1>9. FirstAt(mentions, o[1]) >= 1 /\ FirstAt(mentions, o[1]) \in Nat
  BY <1>1, <1>7, FirstOf DEF D
<1>10. ~(1 < k)
  <2>1. 1 < k => FirstAt(mentions, o[1]) < FirstAt(mentions, o[k])
    BY <1>3, <1>4, <1>5, <1>6
  <2>2. QED
    BY <1>5, <1>8, <1>9, <2>1
<1>11. o[1] = d
  BY <1>5, <1>6, <1>10
<1>12. /\ s \in Seq(Docs) /\ Len(s) = Least(MaxIds, Len(o))
       /\ \A i \in 1..Len(s) : s[i] = o[i]
  <2>1. MaxIds \in Nat
    BY Limits
  <2>2. QED
    BY <1>3, <1>4, <2>1, TakeSeq
<1>13. Len(s) >= 1 /\ Len(s) \in Nat
  BY <1>4, <1>6, <1>12, Limits DEF Least
<1>14. QED
  BY <1>11, <1>12, <1>13
\* What is kept of a sequence without the same document twice begins with its first,
\* if that is kept.
LEMMA KeptFirst ==
  ASSUME NEW old \in Seq(Docs), old # <<>>, IsInjective(old), NEW D, old[1] \in D,
         NEW s \in Kept(old, D)
  PROVE  s # <<>> /\ s[1] = old[1]
<1>1. /\ s \in Seq(Docs) /\ Range(s) = Range(old) \cap D /\ Follows(s, old)
  BY KeptOf
<1>2. /\ Len(old) \in Nat /\ Len(old) >= 1 /\ DOMAIN old = 1..Len(old)
      /\ DOMAIN s = 1..Len(s) /\ Len(s) \in Nat
  BY <1>1
<1>3. 1 \in DOMAIN old /\ old[1] \in Range(old)
  BY <1>2 DEF Range
<1>4. PICK k \in DOMAIN s : s[k] = old[1]
  BY <1>1, <1>3 DEF Range
<1>5. k \in Nat /\ k >= 1 /\ Len(s) >= 1 /\ 1 \in DOMAIN s
  BY <1>2, <1>4
<1>6. ~(1 < k)
  <2>1. SUFFICES ASSUME 1 < k PROVE FALSE
    OBVIOUS
  <2>2. PICK a \in DOMAIN old, b \in DOMAIN old : a < b /\ old[b] = old[1]
    BY <1>1, <1>4, <1>5, <2>1 DEF Follows
  <2>3. b = 1
    BY <1>3, <2>2 DEF IsInjective
  <2>4. QED
    BY <1>2, <2>2, <2>3
<1>7. k = 1
  BY <1>5, <1>6
<1>8. QED
  BY <1>4, <1>5, <1>7

\* Sequences of documents by their length: one without the same document twice is no
\* longer than one that has all its documents.
LEMMA NoLonger ==
  ASSUME NEW s \in Seq(Docs), NEW t \in Seq(Docs), IsInjective(s), Range(s) \subseteq Range(t)
  PROVE  Len(s) <= Len(t)
<1> DEFINE S == 1..Len(s)
           T == 1..Len(t)
<1>1. DOMAIN s = S /\ DOMAIN t = T /\ Len(s) \in Nat /\ Len(t) \in Nat
  OBVIOUS
<1>2. \A n \in Nat : IsFiniteSet(1..n) /\ Cardinality(1..n) = n
  <2>1. TAKE n \in Nat
  <2>2. IsFiniteSet(1..n) /\ Cardinality(1..n) = IF 1 > n THEN 0 ELSE n - 1 + 1
    BY FS_Interval
  <2>3. QED
    BY <2>2
<1>3. \A i \in S : \E j \in T : t[j] = s[i]
  BY <1>1 DEF Range
<1> DEFINE f == [i \in S |-> CHOOSE j \in T : t[j] = s[i]]
<1>4. \A i \in S : f[i] \in T /\ t[f[i]] = s[i]
  BY <1>3
<1>5. \A i, j \in S : s[i] = s[j] => i = j
  BY <1>1 DEF IsInjective
<1>6. f \in [S -> T]
  BY <1>4
<1> HIDE DEF f
<1>7. f \in Injection(S, T)
  BY <1>4, <1>5, <1>6 DEF Injection, IsInjective
<1>8. IsFiniteSet(T) /\ Cardinality(S) = Len(s) /\ Cardinality(T) = Len(t)
  BY <1>1, <1>2
<1> HIDE DEF S, T
<1>9. Cardinality(S) <= Cardinality(T)
  BY <1>7, <1>8, FS_Injection
<1>10. QED
  BY <1>8, <1>9

\* A slice that leaves something out is as long as it may be.
LEMMA TakeLeavesOut ==
  ASSUME NEW S, NEW s \in Seq(S), NEW n \in Nat
  PROVE  /\ Len(Take(s, n)) <= n
         /\ Len(Take(s, n)) = n \/ Range(Take(s, n)) = Range(s)
<1> DEFINE t == Take(s, n)
<1>1. n \in Int /\ n >= 0 /\ Len(s) \in Nat /\ DOMAIN s = 1..Len(s)
  OBVIOUS
<1>2. /\ t \in Seq(S) /\ Len(t) = Least(n, Len(s))
      /\ \A i \in 1..Len(t) : i \in 1..Len(s) /\ t[i] = s[i]
      /\ Range(t) \subseteq Range(s)
  BY <1>1, TakeSeq
<1>3. DOMAIN t = 1..Len(t)
  BY <1>2
<1> HIDE DEF t
<1>4. Len(t) <= n /\ (Len(t) = n \/ Len(t) = Len(s))
  BY <1>1, <1>2 DEF Least
<1>5. Len(t) = Len(s) => Range(s) \subseteq Range(t)
  BY <1>1, <1>2, <1>3 DEF Range
<1>6. QED
  BY <1>2, <1>4, <1>5 DEF t

\* The targets, where the limit leaves none out.
LEMMA TargetsFill ==
  ASSUME NEW corpus \in Corpora, NEW named \in Seq(Docs), NEW limit \in Nat,
         NEW s \in ReferenceTargets(corpus, named, limit)
  PROVE  /\ Len(s) <= limit
         /\ \A r \in corpus.refs : r[1] \in Range(named) /\ r[2] \in DOMAIN corpus.docs =>
              r[2] \in Range(named) \cup Range(s) \/ Len(s) = limit
<1> DEFINE forward == {r \in corpus.refs : r[1] \in Range(named)
                         /\ r[2] \in DOMAIN corpus.docs \ Range(named)}
           D == {r[2] : r \in forward}
<1>1. PICK o \in Orders(D) : s = Take(o, limit)
  BY DEF ReferenceTargets
<1>2. D \in SUBSET Docs
  BY QuestionsAssumption
<1>3. \A r \in corpus.refs : r[1] \in Range(named) /\ r[2] \in DOMAIN corpus.docs =>
        r[2] \in Range(named) \cup D
  OBVIOUS
<1> HIDE DEF D
<1>4. o \in Seq(Docs) /\ Range(o) = D
  BY <1>2, OrderOf
<1>5. Len(s) <= limit /\ (Len(s) = limit \/ Range(s) = D)
  BY <1>1, <1>4, TakeLeavesOut
<1>6. QED
  BY <1>3, <1>5

LEMMA TargetsExist ==
  ASSUME NEW corpus \in Corpora, NEW named \in Seq(Docs), NEW limit \in Int,
         NEW s \in ReferenceTargets(corpus, named, limit)
  PROVE  Range(s) \subseteq DOMAIN corpus.docs
<1> DEFINE forward == {r \in corpus.refs : r[1] \in Range(named)
                         /\ r[2] \in DOMAIN corpus.docs \ Range(named)}
           D == {r[2] : r \in forward}
<1>1. PICK o \in Orders(D) : s = Take(o, limit)
  BY DEF ReferenceTargets
<1>2. D \in SUBSET Docs /\ D \subseteq DOMAIN corpus.docs
  BY QuestionsAssumption
<1> HIDE DEF D
<1>3. o \in Seq(Docs) /\ Range(o) = D
  BY <1>2, OrderOf
<1>4. Range(s) \subseteq Range(o)
  BY <1>1, <1>3, TakeSeq
<1>5. QED
  BY <1>2, <1>3, <1>4

\* What is in front, if it is no more than the context holds, is shown.
LEMMA FrontIsShown ==
  ASSUME NEW front \in Seq(Docs), NEW s \in Seq(Docs), Len(front) <= Len(s),
         \A i \in 1..Len(front) : s[i] = front[i]
  PROVE  \A i \in 1..Len(front) : i <= ContextTopN => front[i] \in Range(Take(s, ContextTopN))
<1> DEFINE t == Take(s, ContextTopN)
<1>1. ContextTopN \in Int /\ ContextTopN >= 0 /\ Len(s) \in Nat /\ Len(front) \in Nat
  BY Limits
<1>2. /\ t \in Seq(Docs) /\ Len(t) = Least(ContextTopN, Len(s))
      /\ \A i \in 1..Len(t) : t[i] = s[i]
  BY <1>1, TakeSeq
<1>3. DOMAIN t = 1..Len(t)
  BY <1>2
<1> HIDE DEF t
<1>4. ASSUME NEW i \in 1..Len(front), i <= ContextTopN PROVE front[i] \in Range(t)
  <2>1. i \in 1..Len(t)
    BY <1>1, <1>2, <1>4 DEF Least
  <2>2. t[i] = front[i]
    BY <1>2, <2>1
  <2>3. QED
    BY <1>3, <2>1, <2>2 DEF Range
<1>5. QED
  BY <1>4 DEF t

-----------------------------------------------------------------------------
\* A question that asks for reasons asks for no stored field; one without a filter lets
\* every document pass.
LEMMA WhyOf ==
  ASSUME QuestionsTypeOK, AsksWhy
  PROVE  /\ Index = Db /\ question.mentions[1] \in Docs
         /\ \A type : RequestedFields(question, type) = {}
         /\ Admitted(Index, question.filter) = DOMAIN Db.docs
<1>1. Index = Db /\ DOMAIN Db.docs \subseteq Docs
  BY IndexIsCurrent, Reads DEF AsksWhy
<1>2. \A type : RequestedFields(question, type) = {}
  BY DEF AsksWhy, RequestedFields
<1>3. Admitted(Index, question.filter) = DOMAIN Db.docs
  BY <1>1 DEF AsksWhy, Admitted, Passes
<1>4. QED
  BY <1>1, <1>2, <1>3 DEF AsksWhy

\* A step of the request other than its first leaves the question as it is.
LEMMA SameWhy ==
  ASSUME UNCHANGED <<history, question, asOf>>
  PROVE  AsksWhy' = AsksWhy /\ Db' = Db
  BY DEF AsksWhy, Db

LEMMA AskReached ==
  ASSUME QuestionsTypeOK, NEW q \in Asked, Ask(q)
  PROVE  Reached'
<1>1. /\ question' = q /\ ids' \in ExtractIds(q.mentions) /\ q.mentions \in Seq(Docs)
  BY QuestionsAssumption DEF Ask
<1>2. ids' # <<>> => pc' = "resolve"
  BY DEF Ask
<1>3. ASSUME q.mentions # <<>>
      PROVE  ids' # <<>> /\ ids'[1] = q.mentions[1] /\ IsInjective(ids')
  BY <1>1, <1>3, FirstId, IdsOf
<1>4. QED
  BY <1>1, <1>2, <1>3 DEF Reached, AsksWhy

LEMMA ResolveReached ==
  ASSUME QuestionsTypeOK, Reached, Resolve
  PROVE  Reached'
<1> DEFINE d == question.mentions[1]
           existing == Range(ids) \cap DOMAIN Index.docs
           pinnable == existing \cap Admitted(Index, question.filter)
<1>1. /\ pc = "resolve" /\ UNCHANGED <<history, question, asOf>>
      /\ pinned' \in Kept(ids, pinnable)
  BY DEF Resolve, corpusVars
<1>2. AsksWhy' = AsksWhy
  BY <1>1, SameWhy
<1>3. ASSUME AsksWhy
      PROVE  pc' = "text" /\ pinned' # <<>> /\ pinned'[1] = d
  <2>1. /\ ids # <<>> /\ ids[1] = d /\ IsInjective(ids) /\ ids \in Seq(Docs)
    BY <1>1, <1>3 DEF Reached, QuestionsTypeOK
  <2>2. d \in Range(ids) /\ d \in DOMAIN Db.docs
    <3>1. 1 \in DOMAIN ids
      BY <2>1
    <3>2. QED
      BY <1>3, <2>1, <3>1 DEF Range, AsksWhy
  <2>3. d \in existing /\ d \in pinnable
    BY <1>3, <2>2, WhyOf
  <2>4. \A e : (IF Len(ids) # 1 THEN {}
                ELSE RequestedFields(question, Index.docs[e].doc_type)) = {}
    BY <1>3, WhyOf
  <2>5. pc' = "text"
    BY <2>3, <2>4 DEF Resolve
  <2> HIDE DEF d, pinnable, existing
  <2>6. pinned' # <<>> /\ pinned'[1] = d
    BY <1>1, <2>1, <2>3, KeptFirst
  <2>7. QED
    BY <2>5, <2>6
<1>4. QED
  BY <1>1, <1>2, <1>3 DEF Reached

LEMMA SearchReached ==
  ASSUME QuestionsTypeOK, Reached, SearchText \/ SearchVector
  PROVE  Reached'
<1>1. CASE SearchText
  <2>1. /\ pc = "text" /\ pc' = "vector" /\ UNCHANGED <<history, question, asOf, pinned>>
    BY <1>1 DEF SearchText, corpusVars
  <2>2. QED
    BY <2>1, SameWhy DEF Reached
<1>2. CASE SearchVector
  <2>1. /\ pc = "vector" /\ UNCHANGED <<history, question, asOf, pinned>>
        /\ pinned # <<>> => pc' \in {"targets", "rows"}
    BY <1>2, SearchVectorAnswer DEF SearchVector, corpusVars
  <2>2. pinned # <<>> => pc' = IF Len(pinned) < ContextTopN THEN "targets" ELSE "rows"
    BY <1>2 DEF SearchVector, Pin, Route
  <2>3. QED
    BY <2>1, <2>2, SameWhy DEF Reached
<1>3. QED
  BY <1>1, <1>2

LEMMA TargetsReached ==
  ASSUME QuestionsTypeOK, Reached, FetchTargets
  PROVE  Reached'
<1>1. /\ pc = "targets" /\ pc' \in {"rows", "place"}
      /\ UNCHANGED <<history, question, asOf, pinned, hits>>
      /\ targets' \in ReferenceTargets(Db, pinned, Room)
      /\ pc' = "rows" => targets' = <<>>
  BY DEF FetchTargets, corpusVars, Room
<1>2. /\ pinned \in Seq(Docs) /\ Db \in Corpora /\ Len(pinned) \in Nat
      /\ ContextTopN \in Nat /\ MaxExpansion \in Nat
  BY Limits, Reads DEF QuestionsTypeOK
<1>3. Room \in Int /\ (Len(pinned) < ContextTopN => Room \in Nat)
  BY <1>2 DEF Room, Least
<1>4. Room' = Room /\ Db' = Db /\ AsksWhy' = AsksWhy
  BY <1>1, SameWhy DEF Room
<1>5. Range(targets') \subseteq DOMAIN Db.docs
  BY <1>1, <1>2, <1>3, TargetsExist
<1>6. ASSUME Len(pinned) < ContextTopN PROVE TargetsFound' /\ Len(targets') <= Room'
  <2>1. /\ Len(targets') <= Room
        /\ \A r \in Db.refs : r[1] \in Range(pinned) /\ r[2] \in DOMAIN Db.docs =>
             r[2] \in Range(pinned) \cup Range(targets') \/ Len(targets') = Room
    BY <1>1, <1>2, <1>3, <1>6, TargetsFill
  <2>2. QED
    BY <1>1, <1>4, <2>1 DEF TargetsFound
<1>7. pc' = "rows" => Range(targets') = {}
  BY <1>1 DEF Range
<1>8. QED
  BY <1>1, <1>4, <1>5, <1>6, <1>7 DEF Reached

LEMMA PlaceReached ==
  ASSUME QuestionsTypeOK, Reached, PlaceTargets
  PROVE  Reached'
<1>1. /\ pc = "place" /\ pc' = "rows"
      /\ UNCHANGED <<history, question, asOf, pinned, targets>>
  BY DEF PlaceTargets, corpusVars
<1>2. Room' = Room /\ Db' = Db /\ AsksWhy' = AsksWhy
  BY <1>1, SameWhy DEF Room
<1>3. TargetsFound' = TargetsFound
  BY <1>1, <1>2 DEF TargetsFound
<1>4. ASSUME AsksWhy, Len(pinned) < ContextTopN
      PROVE  Range(targets') \subseteq Range(Shown')
  <2>1. PICK added \in Seq(Docs) :
          /\ Range(added) = Range(targets) \cap Admitted(Index, question.filter)
          /\ IsInjective(added) /\ pinned \o added \in Seq(Docs)
          /\ Len(pinned \o added) = Len(pinned) + Len(added)
          /\ Range(pinned \o added) = Range(pinned) \cup Range(added)
          /\ hits' \in Fronted(pinned \o added, hits)
    BY PlaceTargetsReads
  <2>2. Range(added) = Range(targets)
    BY <1>1, <1>4, <2>1, WhyOf DEF Reached
  <2>3. /\ targets \in Seq(Docs) /\ hits \in Seq(Docs) /\ pinned \in Seq(Docs)
        /\ Len(pinned) \in Nat /\ Len(added) \in Nat /\ Len(targets) \in Nat
        /\ ContextTopN \in Nat /\ MaxExpansion \in Nat
    BY Limits DEF QuestionsTypeOK
  <2>4. Len(added) <= Len(targets) /\ Len(targets) <= Room
    BY <1>1, <1>4, <2>1, <2>2, <2>3, NoLonger DEF Reached
  <2>5. Room <= ContextTopN - Len(pinned) /\ Room \in Int
    BY <2>3 DEF Room, Least
  <2> DEFINE front == pinned \o added
  <2>6. front \in Seq(Docs) /\ Len(front) <= ContextTopN /\ Range(targets) \subseteq Range(front)
    BY <2>1, <2>2, <2>3, <2>4, <2>5
  <2>7. hits' \in Fronted(front, hits)
    BY <2>1
  <2> HIDE DEF front
  <2>8. /\ hits' \in Seq(Docs) /\ Len(front) <= Len(hits')
        /\ \A i \in 1..Len(front) : hits'[i] = front[i]
    BY <2>3, <2>6, <2>7, FrontedOf
  <2>9. \A i \in 1..Len(front) : front[i] \in Range(Take(hits', ContextTopN))
    <3>1. \A i \in 1..Len(front) :
            i <= ContextTopN => front[i] \in Range(Take(hits', ContextTopN))
      BY <2>6, <2>8, FrontIsShown
    <3>2. Len(front) \in Nat
      BY <2>6
    <3>3. QED
      BY <2>3, <2>6, <3>1, <3>2
  <2>10. Range(front) \subseteq Range(Take(hits', ContextTopN))
    <3>1. DOMAIN front = 1..Len(front)
      BY <2>6
    <3>2. QED
      BY <2>9, <3>1 DEF Range
  <2>11. Shown' = Take(hits', ContextTopN)
    BY DEF Shown
  <2>12. QED
    BY <1>1, <2>6, <2>10, <2>11
<1>5. QED
  BY <1>1, <1>2, <1>3, <1>4 DEF Reached

\* The first named document is shown.
LEMMA NamedIsShown ==
  ASSUME QuestionsTypeOK, HitsLed
  PROVE  \A i \in 1..Len(pinned) : i <= ContextTopN => pinned[i] \in Range(Shown)
<1>1. pinned \in Seq(Docs) /\ hits \in Seq(Docs)
  BY DEF QuestionsTypeOK
<1>2. Len(pinned) <= Len(hits) /\ \A i \in 1..Len(pinned) : hits[i] = pinned[i]
  BY DEF HitsLed
<1>3. QED
  BY <1>1, <1>2, FrontIsShown DEF Shown

LEMMA RowsReached ==
  ASSUME QuestionsTypeOK, Led, Reached, FetchRows \/ FetchLines
  PROVE  Reached'
<1> DEFINE d == question.mentions[1]
<1>1. /\ pc \in {"rows", "lines"} /\ UNCHANGED <<history, question, asOf, pinned, hits, targets>>
      /\ pc = "rows" => pc' = "lines" /\ rows' = Range(Shown) \cap DOMAIN Db.docs
      /\ pc = "lines" =>
           /\ pc' = "generate" /\ rows' = rows
           /\ lines' = {Line(Db, r) : r \in {r \in Db.refs :
                \/ r[1] \in Range(Shown)
                \/ r[2] \in Range(Shown) \cap DOMAIN Db.docs}}
  BY DEF FetchRows, FetchLines, corpusVars
<1>2. Room' = Room /\ Db' = Db /\ AsksWhy' = AsksWhy /\ Shown' = Shown
  BY <1>1, SameWhy DEF Room, Shown
<1>3. TargetsFound' = TargetsFound
  BY <1>1, <1>2 DEF TargetsFound
<1>4. ASSUME AsksWhy PROVE d \in Range(Shown) /\ d \in DOMAIN Db.docs
  <2>1. pinned # <<>> /\ pinned[1] = d /\ pinned \in Seq(Docs) /\ HitsLed
    BY <1>1, <1>4 DEF Reached, Led, QuestionsTypeOK
  <2>2. 1 \in 1..Len(pinned) /\ 1 <= ContextTopN
    BY <2>1, Limits
  <2>3. d \in Range(Shown)
    BY <2>1, <2>2, NamedIsShown
  <2>4. QED
    BY <1>4, <2>3 DEF AsksWhy
<1>5. CASE pc = "rows"
  BY <1>1, <1>2, <1>3, <1>4, <1>5 DEF Reached
<1>6. CASE pc = "lines"
  <2>1. AsksWhy => \A r \in Db.refs : r[1] = d => Line(Db, r) \in lines'
    BY <1>1, <1>4, <1>6
  <2>2. QED
    BY <1>1, <1>2, <1>3, <1>6, <2>1 DEF Reached
<1>7. QED
  BY <1>1, <1>5, <1>6

\* Every step takes the question's document, and where it refers to, on to the prompt.
LEMMA ReachedStep ==
  ASSUME QuestionsTypeOK, Led, Reached, [QuestionsNext]_questionsVars
  PROVE  Reached'
<1>1. CASE ChangeCorpus
  BY <1>1, ChangesAreLater DEF Reached, AsksWhy
<1>2. CASE UNCHANGED questionsVars
  <2>1. UNCHANGED requestVars /\ UNCHANGED <<history, question, asOf>>
    BY <1>2 DEF questionsVars, requestVars, corpusVars
  <2>2. /\ AsksWhy' = AsksWhy /\ Db' = Db /\ Shown' = Shown /\ Room' = Room
        /\ TargetsFound' = TargetsFound
    BY <2>1, SameWhy DEF requestVars, Shown, Room, TargetsFound
  <2>3. QED
    BY <2>1, <2>2 DEF requestVars, Reached
<1>3. CASE \E q \in Asked : Ask(q)
  BY <1>3, AskReached
<1>4. CASE Resolve
  BY <1>4, ResolveReached
<1>5. CASE SearchText \/ SearchVector
  BY <1>5, SearchReached
<1>6. CASE FetchTargets
  BY <1>6, TargetsReached
<1>7. CASE PlaceTargets
  BY <1>7, PlaceReached
<1>8. CASE FetchRows \/ FetchLines
  BY <1>8, RowsReached
<1>9. CASE \/ Raise \/ Finish
           \/ \E reply \in Replies, failed \in BOOLEAN : Generate(reply, failed)
  <2>1. pc' \in {"idle", "finish"}
    BY <1>9 DEF Raise, Finish, Generate
  <2>2. QED
    BY <2>1 DEF Reached
<1>10. CASE CountDocuments \/ ListDocuments \/ FindCoded \/ RelateCoded \/ LookUpFields
  <2>1. /\ pc \in {"count", "list", "codes", "relations", "fields"}
        /\ UNCHANGED <<history, question, asOf>>
    BY <1>10 DEF CountDocuments, ListDocuments, FindCoded, RelateCoded, LookUpFields,
       corpusVars
  <2>2. QED
    BY <2>1, SameWhy DEF Reached
<1>11. QED
  BY <1>1, <1>2, <1>3, <1>4, <1>5, <1>6, <1>7, <1>8, <1>9, <1>10 DEF QuestionsNext, Handle

LEMMA ReachedAlways == QuestionsSpec => [](Led /\ Reached)
<1>1. QuestionsInit => Led /\ Reached
  BY BlankAnswer DEF QuestionsInit, Led, Reached
<1>2. QED
  BY <1>1, LedStep, ReachedStep, QuestionsTypeCorrect, RoutedAlways, PTL DEF QuestionsSpec

\* What an item is about is in the prompt its question leads to.
LEMMA ItemReaches ==
  ASSUME EvalInv, QuestionsTypeOK, RunSeeded, Led, Reached
  PROVE  ReferenceReachesModel
<1> SUFFICES ASSUME pc = "generate", waiting, run.mode = "eval", Current,
                    Item.type \in RefTypes \cup {"dangling", "narrative"}
             PROVE  /\ Item.requires[1] \in rows
                    /\ Item.type \in RefTypes =>
                         /\ [source |-> Item.requires[1], target |-> Item.requires[2],
                             type |-> Item.type, found |-> TRUE] \in lines
                         /\ \/ Item.requires[2] \in Range(Shown)
                            \/ Len(pinned) >= ContextTopN
                            \/ /\ Item.requires[2] \notin Range(targets)
                               /\ Len(targets) = Least(MaxExpansion, ContextTopN - Len(pinned))
                    /\ Item.type = "dangling" =>
                         \E l \in lines : l.source = Item.requires[1] /\ ~l.found
  BY DEF ReferenceReachesModel
<1> DEFINE d == Item.requires[1]
<1>1. /\ run.madeAt = Len(history) /\ asOf = Len(history) /\ question = Item.question
      /\ Db \in Corpora
  BY Reads DEF Current, RunSeeded
<1>2. MadeFrom(Db, Item)
  <2>1. Len(run.items) \in Nat /\ DOMAIN run.items = 1..Len(run.items)
        /\ done \in 0..Len(run.items) /\ done < Len(run.items)
    BY DEF EvalInv
  <2>2. done + 1 \in DOMAIN run.items
    BY <2>1
  <2>3. QED
    BY <1>1, <2>2 DEF RunSeeded, Item, Db
<1>3. AboutOne(Db, Item)
  BY <1>2 DEF MadeFrom, OfReference, OfDangling
<1>4. question.mentions # <<>> /\ question.mentions[1] = d
  <2>1. PICK names \in Seq(Docs) : question.mentions = <<d>> \o names
    BY <1>1, <1>3, EvaluationAssumption DEF AboutOne, About
  <2>2. d \in Docs
    BY <1>1, <1>3, Reads DEF AboutOne
  <2> HIDE DEF d
  <2>3. Len(<<d>> \o names) = 1 + Len(names) /\ Len(names) \in Nat /\ (<<d>> \o names)[1] = d
    BY <2>2
  <2>4. QED
    BY <2>1, <2>3
<1>5. AsksWhy
  BY <1>1, <1>3, <1>4 DEF AsksWhy, AboutOne, NoFilter
<1>6. /\ d \in rows /\ pinned # <<>> /\ pinned[1] = d /\ pinned \in Seq(Docs)
      /\ \A r \in Db.refs : r[1] = d => Line(Db, r) \in lines
      /\ Len(pinned) < ContextTopN => TargetsFound /\ Range(targets) \subseteq Range(Shown)
  BY <1>4, <1>5 DEF Reached, QuestionsTypeOK
<1>7. ASSUME Item.type \in RefTypes
      PROVE  /\ [source |-> d, target |-> Item.requires[2],
                 type |-> Item.type, found |-> TRUE] \in lines
             /\ \/ Item.requires[2] \in Range(Shown)
                \/ Len(pinned) >= ContextTopN
                \/ /\ Item.requires[2] \notin Range(targets)
                   /\ Len(targets) = Least(MaxExpansion, ContextTopN - Len(pinned))
  <2> DEFINE t == Item.requires[2]
             r == <<d, t, Item.type>>
  <2>1. r \in Db.refs /\ t \in DOMAIN Db.docs
    BY <1>2, <1>7 DEF MadeFrom, OfReference
  <2>2. r[1] = d /\ r[2] = t /\ r[3] = Item.type
    OBVIOUS
  <2>3. Line(Db, r) = [source |-> d, target |-> t, type |-> Item.type, found |-> TRUE]
    BY <2>1, <2>2 DEF Line
  <2>4. Line(Db, r) \in lines
    BY <1>6, <2>1, <2>2
  <2>5. ASSUME Len(pinned) < ContextTopN
        PROVE  t \in Range(Shown) \/ (t \notin Range(targets) /\ Len(targets) = Room)
    <3>1. DOMAIN pinned = 1..Len(pinned) /\ 1 \in 1..Len(pinned)
      BY <1>6
    <3>2. d \in Range(pinned)
      BY <1>6, <3>1 DEF Range
    <3>3. t \in Range(pinned) \cup Range(targets) \/ Len(targets) = Room
      BY <1>6, <2>1, <2>2, <2>5, <3>2 DEF TargetsFound
    <3>4. Range(pinned) \subseteq Range(Shown)
      <4>1. HitsLed
        BY DEF Led
      <4>2. \A i \in 1..Len(pinned) : i <= ContextTopN
        BY <1>6, <2>5, Limits
      <4>3. QED
        BY <3>1, <4>1, <4>2, NamedIsShown DEF Range
    <3>5. QED
      BY <1>6, <2>5, <3>3, <3>4
  <2>6. Len(pinned) \in Nat /\ ContextTopN \in Nat
    BY <1>6, Limits
  <2>7. QED
    BY <2>3, <2>4, <2>5, <2>6 DEF Room
<1>8. ASSUME Item.type = "dangling"
      PROVE  \E l \in lines : l.source = d /\ ~l.found
  <2>1. PICK t : /\ <<d, t, "test_case_citation">> \in Db.refs /\ t \notin DOMAIN Db.docs
    BY <1>2, <1>8 DEF MadeFrom, OfDangling
  <2> DEFINE r == <<d, t, "test_case_citation">>
  <2>2. r[1] = d /\ r[2] = t
    OBVIOUS
  <2>3. Line(Db, r).source = d /\ ~Line(Db, r).found
    BY <2>1, <2>2 DEF Line
  <2>4. Line(Db, r) \in lines
    BY <1>6, <2>1, <2>2
  <2>5. QED
    BY <2>3, <2>4
<1>9. QED
  BY <1>6, <1>7, <1>8

\* As long as the corpus stays the same, what a generated question is about is in the
\* prompt (ReferenceReachesModel): the row of the bug it names, the line of the
\* reference, and its target among the documents unless others leave it no room.
THEOREM ReferenceAlwaysReaches == EvalSpec => []ReferenceReachesModel
<1>1. QED
  BY ItemReaches, ReachedAlways, SeededAlways, ScriptsAskQuestions, PTL

=============================================================================
