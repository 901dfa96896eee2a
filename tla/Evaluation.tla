----------------------------- MODULE Evaluation -----------------------------
(***************************************************************************)
(* The evaluation scripts, asking POST /generate/agentic one question at a *)
(* time: generate_eval_seed.py, which makes questions of the tables;       *)
(* eval/run_eval_generation.py, which asks them and grades the answers     *)
(* against the tables; eval/run_holdout.py, which asks hand-written ones   *)
(* and saves its results as they come. (The route and the times it looks   *)
(* up for them in the server's log are left out.)                          *)
(*                                                                         *)
(* The scripts are run by hand, one at a time and with no other traffic    *)
(* (run_holdout.py asks for that); the corpus may change under them. What  *)
(* an answer says is a set of phrases.                                     *)
(***************************************************************************)
EXTENDS Questions

CONSTANTS
  Selections,    \* the lists of items of eval/holdout.json a run may be given (--ids)
  ByHand,        \* questions added to the seed file by hand: out-of-domain ones
  OneWord,       \* the modules and statuses the question's patterns can read
  Preferred,     \* the bug the second standalone question is to be about
  MaxExamples,   \* at most so many reference questions of a kind (10)
  MaxRuns        \* bound: runs of the scripts

VARIABLES
  run,       \* what runs: its mode ("none" between runs), its items, and for
             \* generated ones the state of the tables they were made from
  waiting,   \* the script awaits an answer
  done,      \* len(results)
  last,      \* the newest result, until the next question
  saved,     \* by script, how many results its file holds
  file,      \* the holdout run's: "closed", "due" to be written, or "open", emptied
  runs       \* runs so far

evalVars == <<run, waiting, done, last, saved, file, runs>>

-----------------------------------------------------------------------------
\* A question as the templates make it: the IDs are those of the bug and of
\* whatever its title names.
NoFilter == [key \in {} |-> ""]
Templated(mentions, words, reasons) ==
  [mentions |-> mentions, words |-> words, reasons |-> reasons, code |-> FALSE,
   counts |-> FALSE, filter |-> NoFilter]
About(corpus, d) == <<d>> \o corpus.docs[d].names

OfType(corpus, type) == {d \in DOMAIN corpus.docs : corpus.docs[d].doc_type = type}
IsTarget(corpus, d) == \E r \in corpus.refs : r[2] = d
InIdOrder(D) == Kept(IdOrder, D)   \* (there is one such order)
Each(s, Make(_)) == [k \in DOMAIN s |-> Make(s[k])]
Followed(first, second) == {a \o b : a \in first, b \in second}

\* fetch_reference_examples(): the references of a type that lead to a document,
\* ordered by both ends.
Pairs == [k \in 1..(Len(IdOrder) * Len(IdOrder)) |->
            <<IdOrder[((k - 1) \div Len(IdOrder)) + 1], IdOrder[((k - 1) % Len(IdOrder)) + 1]>>]
ReferenceExamples(corpus, type) ==
  LET leading == {p \in (DOMAIN corpus.docs) \X (DOMAIN corpus.docs) :
                    <<p[1], p[2], type>> \in corpus.refs}
  IN {Take(s, MaxExamples) : s \in Kept(Pairs, leading)}
ReferenceItem(corpus, type, words, p) ==
  [question |-> Templated(About(corpus, p[1]), words, TRUE), type |-> type, requires |-> p]
ReferenceItems(corpus, type, words) ==
  LET Item(p) == ReferenceItem(corpus, type, words, p)
  IN {Each(s, Item) : s \in ReferenceExamples(corpus, type)}

\* fetch_error_code_groups(): the code, if several documents carry it.
ErrorCodeItems(corpus) ==
  IF Cardinality(corpus.coded) < 2 THEN {<<>>}
  ELSE {<< [question |-> [Templated(<<>>, {}, FALSE) EXCEPT !.code = TRUE],
            type |-> "error_code", requires |-> s] >> : s \in InIdOrder(corpus.coded)}

\* fetch_module_status_example() and its second: the module and status most bugs
\* have (on a tie, whichever Postgres returns; the order of names is not modelled).
\* The question filters by what the harness reads out of its text again.
Label(status) == IF status = "" THEN "unspecified-status" ELSE status
ParseModuleStatus(module, status) ==
  [key \in {k \in {"module", "status"} :
              (IF k = "module" THEN module ELSE Label(status)) \in OneWord}
     |-> IF key = "module" THEN module ELSE Label(status)]
BugsOf(corpus, module, status) ==
  {d \in OfType(corpus, "bug_report") :
     corpus.docs[d].module = module /\ corpus.docs[d].status = status}
Commonest(corpus, modules) ==
  LET pairs == {<<corpus.docs[d].module, corpus.docs[d].status>> :
                  d \in {b \in OfType(corpus, "bug_report") :
                           corpus.docs[b].module \in modules}}
  IN {p \in pairs : \A o \in pairs : Cardinality(BugsOf(corpus, p[1], p[2]))
                                       >= Cardinality(BugsOf(corpus, o[1], o[2]))}
ModulesOf(corpus) == {corpus.docs[d].module : d \in DOMAIN corpus.docs} \ {""}
FilterItem(p) ==
  [question |-> [Templated(<<>>, {"module"}, FALSE) EXCEPT
                   !.counts = TRUE, !.filter = ParseModuleStatus(p[1], p[2])],
   type |-> "structured_filter", requires |-> <<>>]
FilterItems(corpus) ==
  LET modules == ModulesOf(corpus)
      Second(p) == Commonest(corpus, modules \ {p[1]})
  IN IF Commonest(corpus, modules) = {} THEN {<<>>}
     ELSE UNION {IF Second(p) = {} THEN {<<FilterItem(p)>>}
                 ELSE {<<FilterItem(p), FilterItem(s)>> : s \in Second(p)} :
                   p \in Commonest(corpus, modules)}

\* fetch_standalone_bug() and _test_case(), and their seconds: documents nothing
\* refers to (and bugs that refer to nothing), by ID, Preferred before others.
FirstTwo(s) ==
  IF Len(s) > 1 /\ Preferred \in Range(Tail(s)) THEN <<s[1], Preferred>> ELSE Take(s, 2)
StandaloneItems(corpus) ==
  LET bugs == {d \in OfType(corpus, "bug_report") :
                 ~IsTarget(corpus, d) /\ \A r \in corpus.refs : r[1] # d}
      cases == {d \in OfType(corpus, "test_case") : ~IsTarget(corpus, d)}
      Bug(d) == [question |-> Templated(About(corpus, d), {"steps", "reproduce"}, FALSE),
                 type |-> "single_doc_factual", requires |-> <<d>>]
      Case(d) == [question |-> Templated(About(corpus, d), {"preconditions"}, FALSE),
                  type |-> "single_doc_factual", requires |-> <<d>>]
  IN Followed({Each(FirstTwo(s), Bug) : s \in InIdOrder(bugs)},
              {Each(Take(s, 2), Case) : s \in InIdOrder(cases)})

\* fetch_dangling_citation(): the first bug that cites a test case never loaded.
Dangling(corpus, d) ==
  {r[2] : r \in {r \in corpus.refs : r[1] = d /\ r[2] \notin DOMAIN corpus.docs}}
DanglingItems(corpus) ==
  LET citing == {d \in DOMAIN corpus.docs : \E t \in Dangling(corpus, d) :
                   <<d, t, "test_case_citation">> \in corpus.refs}
      Item(d) == [question |-> Templated(About(corpus, d), {"expected result"}, TRUE),
                  type |-> "dangling", requires |-> <<d>>]
  IN {Each(Take(s, 1), Item) : s \in InIdOrder(citing)}

\* fetch_resolved_narrative_bug(): the first resolved bug.
NarrativeItems(corpus) ==
  LET resolved == {d \in OfType(corpus, "bug_report") : corpus.docs[d].status = "Resolved"}
      Item(d) == [question |-> Templated(About(corpus, d), {}, TRUE),
                  type |-> "narrative", requires |-> <<d>>]
  IN {Each(Take(s, 1), Item) : s \in InIdOrder(resolved)}

\* build_eval_seed()
BuildEvalSeed(corpus) ==
  Followed(ReferenceItems(corpus, "test_case_citation", {"expected result"}),
  Followed(ReferenceItems(corpus, "duplicate_of", {"module"}),
  Followed(ReferenceItems(corpus, "related_to", {}),
  Followed(ErrorCodeItems(corpus),
  Followed(FilterItems(corpus),
  Followed(StandaloneItems(corpus),
  Followed(DanglingItems(corpus), NarrativeItems(corpus))))))))

\* What a script asks is among what anyone may; a test case has no status (ingest.py
\* stores none).
MayBeAsked(items) == items \in Seq(Range(items)) /\ \A i \in Range(items) : i.question \in Asked

ASSUME EvaluationAssumption ==
  /\ \A items \in Selections \cup {ByHand} : MayBeAsked(items)
  /\ \A c \in Corpora : \A items \in BuildEvalSeed(c) : MayBeAsked(items)
  /\ \A i \in Range(ByHand) : i.type = "out_of_domain"
  /\ \A c \in Corpora : \A d \in DOMAIN c.docs :
       /\ c.docs[d].names \in Seq(Docs)
       /\ c.docs[d].doc_type # "bug_report" => c.docs[d].status = ""
  /\ {MaxExamples, MaxRuns} \subseteq Nat

-----------------------------------------------------------------------------
\* The checkers of run_eval_generation.py: whether the answer passes. Phrases are
\* told apart as the patterns do; "duplicate" is in every phrase with the word.
ContainsAllIds(a, required) == Range(required) \subseteq a.mentions

CheckDuplicate(item, a) == ContainsAllIds(a, item.requires) /\ "duplicate" \in a.says
CheckRelated(item, a) ==
  /\ ContainsAllIds(a, item.requires)
  /\ "duplicate of" \in a.says => "not a duplicate" \in a.says
\* check_dangling_reference() asks for one dangling reference (LIMIT 1), any of them.
CheckDangling(item, a, corpus) ==
  LET missing == Dangling(corpus, item.requires[1])
      Named(t) == t \in a.mentions /\ "not found" \in a.says
  IN IF missing = {} THEN {FALSE} ELSE {Named(t) : t \in missing}
CheckNarrative(item, a, corpus) ==
  /\ item.requires[1] \in OfType(corpus, "bug_report")
  /\ "no resolution stated" \notin a.says /\ "its words" \in a.says
CheckOutOfDomain(a) == a.mentions = {} /\ "rejected" \in a.says

\* check_structured_filter(): the count of bugs must be in the answer's text. (SQL
\* tells upper from lower case, unlike the filters.) The digits may also be in there
\* by chance: of an ID, or in what the model says.
CheckStructuredFilter(item, a, corpus) ==
  LET f == item.question.filter
      real == Cardinality(BugsOf(corpus, f.module, f.status))
  IN IF DOMAIN f # {"module", "status"} THEN {FALSE}
     ELSE IF a.route = "deterministic" /\ a.number > 0 /\ a.number = real THEN {TRUE}
     ELSE IF a.mentions = {} /\ a.route # "semantic" THEN {FALSE}
     ELSE BOOLEAN

Outcomes(item, a, corpus) ==
  CASE item.type = "duplicate_of" -> {CheckDuplicate(item, a)}
    [] item.type = "related_to" -> {CheckRelated(item, a)}
    [] item.type \in {"test_case_citation", "error_code"} ->
         {ContainsAllIds(a, item.requires)}
    [] item.type = "dangling" -> CheckDangling(item, a, corpus)
    [] item.type = "narrative" -> {CheckNarrative(item, a, corpus)}
    [] item.type = "structured_filter" -> CheckStructuredFilter(item, a, corpus)
    [] item.type = "out_of_domain" -> {CheckOutOfDomain(a)}

Verdict(passed) == IF passed THEN "PASS" ELSE "FAIL"

\* The result of one item: a broken response is an error, and a type without a
\* checker is left to eval/manual_eval_log.py.
EvalResults(item, a, corpus) ==
  IF a.route = "none" THEN {"ERROR"}
  ELSE IF item.type = "single_doc_factual" THEN {"MANUAL_REQUIRED"}
  ELSE {Verdict(p) : p \in Outcomes(item, a, corpus)}

\* grade(): all of some IDs, one of some, so many of some, none of some, and for
\* an unanswerable question an abstention (or a rejection, when that counts too).
Grade(item, a) ==
  LET abstains == "abstains" \in a.says \/ "not found" \in a.says
  IN /\ item.all \subseteq a.mentions
     /\ item.any = {} \/ item.any \cap a.mentions # {}
     /\ Cardinality(item.someOf \cap a.mentions) >= item.atLeast
     /\ item.none \cap a.mentions = {}
     /\ item.expect = "abstain" => abstains
     /\ item.expect = "reject_or_abstain" => abstains \/ "rejected" \in a.says

-----------------------------------------------------------------------------
Idle == run.mode = "none" /\ pc = "idle"
Item == run.items[done + 1]
NoRun == [mode |-> "none", items |-> <<>>, madeAt |-> 0]

EvalInit ==
  /\ QuestionsInit
  /\ run = NoRun /\ waiting = FALSE
  /\ done = 0 /\ last = "none" /\ saved = [eval |-> 0, holdout |-> 0]
  /\ file = "closed" /\ runs = 0

Start(mode, items, madeAt) ==
  /\ run' = [mode |-> mode, items |-> items, madeAt |-> madeAt]
  /\ done' = 0 /\ last' = "none" /\ runs' = runs + 1
  /\ UNCHANGED <<waiting, saved, file, questionsVars>>

\* run_eval_generation.py, on what generate_eval_seed.py made of some state of the
\* tables, the items put in its file by hand behind it.
StartEval ==
  /\ Idle /\ runs < MaxRuns
  /\ \E k \in 1..Len(history) : \E items \in BuildEvalSeed(history[k]) :
       Start("eval", items \o ByHand, k)

\* run_holdout.py, on the items --ids lists.
StartHoldout ==
  /\ Idle /\ runs < MaxRuns
  /\ \E items \in Selections : Start("holdout", items, 0)

\* call_generate(): the next question is sent, past the cache.
SendItem ==
  /\ run.mode # "none" /\ ~waiting /\ file = "closed" /\ done < Len(run.items)
  /\ Ask(Item.question)
  /\ waiting' = TRUE /\ last' = "none"
  /\ UNCHANGED <<run, done, saved, file, runs>>

\* Mutant of Record: a question that got no answer is asked again.
RecordRetrying(result) ==
  /\ last' = result /\ waiting' = FALSE
  /\ done' = IF result = "ERROR" THEN done ELSE done + 1
  /\ file' = IF run.mode = "holdout" THEN "due" ELSE file
  /\ UNCHANGED <<run, saved, runs>>

\* Mutant of Record: the holdout run's file is written when the run ends.
RecordUnsaved(result) ==
  /\ last' = result /\ waiting' = FALSE
  /\ done' = done + 1
  /\ file' = IF run.mode = "holdout" /\ done' = Len(run.items) THEN "due" ELSE file
  /\ UNCHANGED <<run, saved, runs>>

\* results.append(): the answer awaited has its result; run_holdout.py goes on to save.
Record(result) ==
  /\ last' = result /\ waiting' = FALSE
  /\ done' = done + 1
  /\ file' = IF run.mode = "holdout" THEN "due" ELSE file
  /\ UNCHANGED <<run, saved, runs>>

\* The answer of a generated question is graded against the tables as they are.
GradeEval ==
  /\ run.mode = "eval" /\ waiting /\ pc = "idle"
  /\ \E result \in EvalResults(Item, answer, Db) : Record(result)
  /\ UNCHANGED questionsVars

\* A hand-written question's is graded by what it says.
HoldoutResult == IF answer.route = "none" THEN "ERROR" ELSE Verdict(Grade(Item, answer))
GradeHoldout ==
  /\ run.mode = "holdout" /\ waiting /\ pc = "idle"
  /\ Record(HoldoutResult)
  /\ UNCHANGED questionsVars

\* httpx's timeout: an ERROR, and on to the next question. The request goes on without
\* anyone who reads its answer, and past the cache; it is not followed any further.
TimeOut ==
  /\ waiting
  /\ Raise
  /\ Record("ERROR")

\* run_holdout.py writes all of its results again after each item: open(..., "w")
\* empties the file, and json.dump() fills it.
EmptyFile ==
  /\ file = "due"
  /\ file' = "open" /\ saved' = [saved EXCEPT !.holdout = 0]
  /\ UNCHANGED <<run, waiting, done, last, runs, questionsVars>>

FillFile ==
  /\ file = "open"
  /\ file' = "closed" /\ saved' = [saved EXCEPT !.holdout = done]
  /\ UNCHANGED <<run, waiting, done, last, runs, questionsVars>>

\* Mutant of Exit: the answer that was awaited still is.
ExitWaiting ==
  /\ run' = NoRun /\ done' = 0 /\ last' = "none" /\ file' = "closed"
  /\ UNCHANGED waiting

Exit ==
  /\ run' = NoRun /\ done' = 0 /\ last' = "none" /\ file' = "closed"
  /\ waiting' = FALSE

\* The end of a run; run_eval_generation.py writes its results only now.
EndRun ==
  /\ run.mode # "none" /\ file = "closed" /\ done = Len(run.items)
  /\ Exit
  /\ saved' = IF run.mode = "eval" THEN [saved EXCEPT !.eval = done] ELSE saved
  /\ UNCHANGED <<runs, questionsVars>>

\* The script is killed, or a check's own query raises. A file that was open stays
\* empty, or ends in the middle.
Kill ==
  /\ run.mode # "none"
  /\ Exit
  /\ UNCHANGED <<saved, runs, questionsVars>>

EvalNext ==
  \/ StartEval \/ StartHoldout \/ SendItem \/ GradeEval \/ GradeHoldout \/ TimeOut
  \/ EmptyFile \/ FillFile \/ EndRun \/ Kill
  \/ (Handle \/ Raise \/ Finish \/ ChangeCorpus) /\ UNCHANGED evalVars

\* The server goes on with a request, whose calls all have timeouts, and a script
\* with its items; nobody has to kill one, nor any call to fail or to time out.
EvalFairness ==
  /\ WF_<<questionsVars, evalVars>>((Handle \/ Finish) /\ UNCHANGED evalVars)
  /\ WF_<<questionsVars, evalVars>>(\/ SendItem \/ GradeEval \/ GradeHoldout
                                   \/ EmptyFile \/ FillFile \/ EndRun)
EvalSpec == EvalInit /\ [][EvalNext]_<<questionsVars, evalVars>> /\ EvalFairness

-----------------------------------------------------------------------------
\* The variables of the scripts keep their types, and an answer awaited is that of
\* an item of the run.
EvalTypeOK ==
  /\ run.madeAt \in 0..Len(history) /\ run.mode \in {"none", "eval", "holdout"}
  /\ waiting \in BOOLEAN /\ done \in 0..Len(run.items)
  /\ waiting => run.mode # "none" /\ done < Len(run.items)
  /\ last \in {"none", "PASS", "FAIL", "MANUAL_REQUIRED", "ERROR"}
  /\ file \in {"closed", "due", "open"} /\ (file # "closed" => run.mode = "holdout")

\* Neither the tables nor the index have changed since the questions were made.
Current == {run.madeAt, live, asOf} = {Len(history)}
JustGraded == done > 0 /\ ~waiting /\ run.mode # "none"
Graded == run.items[done]

\* No document's attribute differs from the filter's in nothing but case.
CaseAgrees(corpus, filter) ==
  \A d \in DOMAIN corpus.docs, key \in DOMAIN filter :
    Fold(corpus.docs[d][key]) = Fold(filter[key]) => corpus.docs[d][key] = filter[key]

\* As long as the corpus stays what the questions were made from, the questions
\* answered without the model pass: the generator's query, the question's wording,
\* the routing, the answering query and the checker agree. (A filter question whose
\* module and status can be read out of it, and are no other's written differently,
\* since the index folds case and SQL does not; the index within the neighbours' pool.)
DeterministicAnswersPass ==
  JustGraded /\ run.mode = "eval" /\ Current
    /\ \/ Graded.type = "error_code"
       \/ /\ Graded.type = "structured_filter"
          /\ DOMAIN Graded.question.filter = {"module", "status"}
          /\ Admitted(Db, Graded.question.filter) # {}
          /\ CaseAgrees(Db, Graded.question.filter)
          /\ Cardinality(DOMAIN Db.docs) <= MaxPool
    => last \in {"PASS", "ERROR"}

\* As long as the corpus stays the same, what a generated question is about is in
\* the prompt: the fields of the bug it names, the line of the reference, and its
\* target as one of the documents, unless documents named or referred to before it
\* leave no room.
ReferenceReachesModel ==
  pc = "generate" /\ waiting /\ run.mode = "eval" /\ Current /\ answer.route = "semantic" =>
    /\ Item.type \in RefTypes \cup {"dangling", "narrative"} => Item.requires[1] \in rows
    /\ Item.type \in RefTypes =>
         /\ [source |-> Item.requires[1], target |-> Item.requires[2],
             type |-> Item.type, found |-> TRUE] \in lines
         /\ \/ Item.requires[2] \in Range(Shown)
            \/ Len(pinned) >= ContextTopN
            \/ /\ Item.requires[2] \notin Range(targets)
               /\ Len(targets) = Least(MaxExpansion, ContextTopN - Len(pinned))
    /\ Item.type = "dangling" =>
         \E l \in lines : l.source = Item.requires[1] /\ ~l.found

\* A holdout run that is killed loses no result it had graded but the newest, if that
\* was not saved yet; only one killed in the middle of saving loses them all.
ResultsSurvive ==
  [][run.mode = "holdout" /\ run'.mode = "none" =>
       /\ file = "closed" /\ done > 0 => saved'.holdout = done
       /\ file = "due" /\ done > 1 => saved'.holdout = done - 1]_evalVars

\* A run of a script comes to an end, whatever fails: an item without an answer is
\* an ERROR and the run goes on to the next.
RunsEnd == run.mode # "none" ~> run.mode = "none"
=============================================================================
