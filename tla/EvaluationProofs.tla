-------------------------- MODULE EvaluationProofs --------------------------
(***************************************************************************)
(* Proofs about Evaluation: its requests are those of Questions, so that   *)
(* what QuestionsProofs shows holds under the scripts; and what a run of a *)
(* script leaves, however it ends.                                         *)
(***************************************************************************)
EXTENDS Evaluation, QuestionsProofs

\* The types of the scripts' variables, the questions they ask among them, and that
\* no request of a run is under way which the script does not await.
EvalInv ==
  /\ run.madeAt \in 0..Len(history) /\ run.mode \in {"none", "eval", "holdout"}
  /\ run.items \in Seq(Range(run.items))
  /\ \A k \in DOMAIN run.items : run.items[k].question \in Asked
  /\ waiting \in BOOLEAN /\ done \in 0..Len(run.items)
  /\ waiting => run.mode # "none" /\ done < Len(run.items)
  /\ run.mode # "none" /\ ~waiting => pc = "idle"
  /\ last \in {"none", "PASS", "FAIL", "MANUAL_REQUIRED", "ERROR"}
  /\ saved \in [eval : Nat, holdout : Nat]
  /\ file \in {"closed", "due", "open"}
  /\ file # "closed" => run.mode = "holdout" /\ ~waiting

\* Items put behind others may be asked as they may.
LEMMA MoreAsked ==
  ASSUME NEW a, NEW b, MayBeAsked(a), MayBeAsked(b)
  PROVE  MayBeAsked(a \o b)
<1> DEFINE S == Range(a) \cup Range(b)
           c == a \o b
<1>1. a \in Seq(S) /\ b \in Seq(S) /\ \A i \in S : i.question \in Asked
  BY DEF MayBeAsked, Range
<1> HIDE DEF S
<1>2. c \in Seq(S)
  BY <1>1
<1> HIDE DEF c
<1>3. /\ Len(c) \in Nat /\ DOMAIN c = 1..Len(c) /\ \A k \in 1..Len(c) : c[k] \in S
  BY <1>2
<1>4. \A k \in 1..Len(c) : c[k] \in Range(c)
  BY <1>3 DEF Range
<1>5. c \in Seq(Range(c))
  BY <1>2, <1>3, <1>4
<1>6. \A i \in Range(c) : i \in S
  BY <1>3 DEF Range
<1>7. QED
  BY <1>1, <1>5, <1>6 DEF MayBeAsked, c

\* A run begins with items that may be asked.
LEMMA StartAsked ==
  ASSUME EvalInv, QuestionsTypeOK, NEW mode \in {"eval", "holdout"}, NEW items,
         NEW k \in 0..Len(history), Idle, Start(mode, items, k), MayBeAsked(items)
  PROVE  EvalInv' /\ done' = 0 /\ UNCHANGED questionsVars
<1>1. /\ pc = "idle" /\ ~waiting /\ done' = 0 /\ last' = "none" /\ file = "closed"
      /\ run' = [mode |-> mode, items |-> items, madeAt |-> k]
      /\ UNCHANGED <<waiting, saved, file, questionsVars>>
  BY DEF Start, Idle, EvalInv
<1>2. /\ items \in Seq(Range(items)) /\ Len(items) \in Nat
      /\ \A j \in DOMAIN items : items[j].question \in Asked
  BY DEF MayBeAsked, Range
<1>3. /\ run'.mode = mode /\ run'.items = items /\ run'.madeAt = k
  BY <1>1
<1>4. 0 \in 0..Len(items) /\ history' = history /\ pc' = pc
  BY <1>1, <1>2 DEF questionsVars, corpusVars, requestVars
<1>5. QED
  BY <1>1, <1>2, <1>3, <1>4 DEF EvalInv

LEMMA StartKeeps ==
  ASSUME EvalInv, QuestionsTypeOK, StartEval \/ StartHoldout
  PROVE  EvalInv' /\ done' = 0 /\ UNCHANGED questionsVars
<1>1. CASE StartEval
  <2>1. PICK k \in 1..Len(history) : \E items \in BuildEvalSeed(history[k]) :
          Start("eval", items \o ByHand, k)
    BY <1>1 DEF StartEval
  <2>2. PICK items \in BuildEvalSeed(history[k]) : Start("eval", items \o ByHand, k)
    BY <2>1
  <2>3. history[k] \in Corpora /\ k \in 0..Len(history)
    BY Reads
  <2>4. MayBeAsked(items) /\ MayBeAsked(ByHand)
    BY <2>3, EvaluationAssumption
  <2>5. MayBeAsked(items \o ByHand)
    BY <2>4, MoreAsked
  <2>6. QED
    BY <1>1, <2>2, <2>3, <2>5, StartAsked DEF StartEval
<1>2. CASE StartHoldout
  <2>1. PICK items \in Selections : Start("holdout", items, 0)
    BY <1>2 DEF StartHoldout
  <2>2. 0 \in 0..Len(history)
    BY Reads
  <2>3. MayBeAsked(items)
    BY EvaluationAssumption
  <2>4. QED
    BY <1>2, <2>1, <2>2, <2>3, StartAsked DEF StartHoldout
<1>3. QED
  BY <1>1, <1>2

\* The end of a run leaves nothing awaited.
LEMMA ExitKeeps ==
  ASSUME EvalInv, QuestionsTypeOK, Exit, saved' \in [eval : Nat, holdout : Nat],
         UNCHANGED questionsVars
  PROVE  EvalInv' /\ run'.mode = "none"
<1>1. /\ run'.mode = "none" /\ run'.items = <<>> /\ run'.madeAt = 0
      /\ waiting' = FALSE /\ done' = 0 /\ last' = "none" /\ file' = "closed"
  BY DEF Exit, NoRun
<1>2. /\ run'.items \in Seq(Range(run'.items)) /\ Len(run'.items) = 0
      /\ DOMAIN run'.items = {}
  BY <1>1
<1>3. history' = history /\ Len(history) \in Nat
  BY Reads DEF questionsVars, corpusVars
<1>4. waiting' \in BOOLEAN /\ ~waiting'
  BY <1>1
<1>5. run'.madeAt \in 0..Len(history') /\ done' \in 0..Len(run'.items)
  BY <1>1, <1>2, <1>3
<1>6. QED
  BY <1>1, <1>2, <1>4, <1>5 DEF EvalInv

\* What a check says of an answer.
LEMMA ResultOf ==
  /\ \A item, a, corpus : EvalResults(item, a, corpus)
       \subseteq {"PASS", "FAIL", "MANUAL_REQUIRED", "ERROR"}
  /\ HoldoutResult \in {"PASS", "FAIL", "ERROR"}
<1>1. \A p : Verdict(p) \in {"PASS", "FAIL"}
  BY DEF Verdict
<1>2. ASSUME NEW item, NEW a, NEW corpus
      PROVE  EvalResults(item, a, corpus) \subseteq {"PASS", "FAIL", "MANUAL_REQUIRED", "ERROR"}
  <2> DEFINE O == Outcomes(item, a, corpus)
  <2> HIDE DEF O
  <2>1. {Verdict(p) : p \in O} \subseteq {"PASS", "FAIL"}
    BY <1>1
  <2>2. QED
    BY <2>1 DEF EvalResults, O
<1>3. HoldoutResult \in {"PASS", "FAIL", "ERROR"}
  BY <1>1 DEF HoldoutResult
<1>4. QED
  BY <1>2, <1>3

\* A result moves a run on by one item.
LEMMA RecordKeeps ==
  ASSUME EvalInv, QuestionsTypeOK, waiting, pc' = "idle", history' = history,
         NEW result \in {"PASS", "FAIL", "MANUAL_REQUIRED", "ERROR"}, Record(result)
  PROVE  EvalInv' /\ done' = done + 1 /\ run' = run /\ ~waiting'
<1>1. /\ last' = result /\ waiting' = FALSE /\ done' = done + 1
      /\ file' = (IF run.mode = "holdout" THEN "due" ELSE file)
      /\ UNCHANGED <<run, saved>>
  BY DEF Record
<1>2. /\ Len(run.items) \in Nat /\ done \in 0..Len(run.items) /\ done < Len(run.items)
      /\ file = "closed"
  BY DEF EvalInv
<1>3. done + 1 \in 0..Len(run.items)
  BY <1>2
<1>4. waiting' \in BOOLEAN /\ ~waiting'
  BY <1>1
<1>5. QED
  BY <1>1, <1>2, <1>3, <1>4 DEF EvalInv

LEMMA GradeKeeps ==
  ASSUME EvalInv, QuestionsTypeOK, GradeEval \/ GradeHoldout
  PROVE  EvalInv' /\ done' = done + 1 /\ ~waiting' /\ UNCHANGED <<run, questionsVars>>
<1>1. PICK result \in {"PASS", "FAIL", "MANUAL_REQUIRED", "ERROR"} : Record(result)
  BY ResultOf DEF GradeEval, GradeHoldout
<1>2. waiting /\ pc = "idle" /\ UNCHANGED questionsVars
  BY DEF GradeEval, GradeHoldout
<1>3. pc' = "idle" /\ history' = history
  BY <1>2 DEF questionsVars, corpusVars, requestVars
<1>4. QED
  BY <1>1, <1>2, <1>3, RecordKeeps

\* An item without an answer ends as one of Questions' requests that raise.
LEMMA TimeOutKeeps ==
  ASSUME EvalInv, QuestionsTypeOK, TimeOut
  PROVE  EvalInv' /\ done' = done + 1 /\ ~waiting' /\ run' = run /\ Raise
<1>1. waiting /\ Raise /\ Record("ERROR") /\ pc' = "idle" /\ history' = history
  BY DEF TimeOut, Raise, corpusVars
<1>2. QED
  BY <1>1, RecordKeeps

\* Every step of a script is one of Questions or leaves the request alone, and keeps
\* the invariant.
LEMMA EvalStep ==
  ASSUME EvalInv, QuestionsTypeOK, [EvalNext]_<<questionsVars, evalVars>>
  PROVE  EvalInv' /\ [QuestionsNext]_questionsVars
<1>1. CASE StartEval \/ StartHoldout
  BY <1>1, StartKeeps
<1>2. CASE SendItem
  <2>1. /\ run.mode # "none" /\ ~waiting /\ done < Len(run.items) /\ Ask(Item.question)
        /\ file = "closed" /\ waiting' = TRUE /\ last' = "none"
        /\ UNCHANGED <<run, done, saved, file>>
    BY <1>2 DEF SendItem
  <2>2. Item.question \in Asked
    <3>1. /\ Len(run.items) \in Nat /\ done \in 0..Len(run.items)
          /\ DOMAIN run.items = 1..Len(run.items)
      BY DEF EvalInv
    <3>2. done + 1 \in DOMAIN run.items
      BY <2>1, <3>1
    <3>3. QED
      BY <3>2 DEF EvalInv, Item
  <2>3. history' = history
    BY <2>1 DEF Ask, corpusVars
  <2>4. QED
    BY <2>1, <2>2, <2>3 DEF EvalInv, QuestionsNext
<1>3. CASE GradeEval \/ GradeHoldout \/ TimeOut
  BY <1>3, GradeKeeps, TimeOutKeeps DEF QuestionsNext
<1>4. CASE EndRun \/ Kill
  <2>1. Exit /\ UNCHANGED questionsVars
    BY <1>4 DEF EndRun, Kill
  <2>2. saved \in [eval : Nat, holdout : Nat] /\ done \in Nat
    <3>1. Len(run.items) \in Nat /\ done \in 0..Len(run.items)
      BY DEF EvalInv
    <3>2. QED
      BY <3>1 DEF EvalInv
  <2>3. saved' \in [eval : Nat, holdout : Nat]
    BY <1>4, <2>2 DEF EndRun, Kill
  <2>4. QED
    BY <2>1, <2>3, ExitKeeps
<1>5. CASE EmptyFile \/ FillFile
  <2>1. /\ UNCHANGED <<run, waiting, done, last, questionsVars>>
        /\ file \in {"due", "open"} /\ file' \in {"open", "closed"}
        /\ \/ saved' = [saved EXCEPT !.holdout = 0]
           \/ saved' = [saved EXCEPT !.holdout = done]
    BY <1>5 DEF EmptyFile, FillFile
  <2>2. saved \in [eval : Nat, holdout : Nat] /\ done \in Nat
    <3>1. Len(run.items) \in Nat /\ done \in 0..Len(run.items)
      BY DEF EvalInv
    <3>2. QED
      BY <3>1 DEF EvalInv
  <2>3. saved' \in [eval : Nat, holdout : Nat]
    BY <2>1, <2>2
  <2>4. history' = history /\ pc' = pc
    BY <2>1 DEF questionsVars, corpusVars, requestVars
  <2>5. QED
    BY <2>1, <2>3, <2>4 DEF EvalInv
<1>6. CASE (Handle \/ Raise \/ Finish) /\ UNCHANGED evalVars
  <2>1. pc # "idle" /\ history' = history
    BY <1>6 DEF Handle, Resolve, SearchText, SearchVector, FetchTargets, PlaceTargets,
       FetchRows, FetchLines, Generate, CountDocuments, ListDocuments, FindCoded,
       RelateCoded, LookUpFields, Raise, Finish, corpusVars
  <2>2. QED
    BY <1>6, <2>1 DEF evalVars, EvalInv, QuestionsNext
<1>7. CASE ChangeCorpus /\ UNCHANGED evalVars
  <2>1. Len(history) \in Nat /\ Len(history') \in Nat /\ Len(history) <= Len(history')
    BY <1>7, HistoryGrows
  <2>2. run.madeAt \in 0..Len(history')
    BY <2>1 DEF EvalInv
  <2>3. pc' = pc
    BY <1>7, IndexMoves DEF requestVars
  <2>4. QED
    BY <1>7, <2>2, <2>3 DEF evalVars, EvalInv, QuestionsNext
<1>8. CASE UNCHANGED <<questionsVars, evalVars>>
  BY <1>8 DEF questionsVars, corpusVars, requestVars, evalVars, EvalInv
<1>9. QED
  BY <1>1, <1>2, <1>3, <1>4, <1>5, <1>6, <1>7, <1>8 DEF EvalNext

LEMMA EvalStarts == EvalInit => EvalInv
<1> SUFFICES ASSUME EvalInit PROVE EvalInv
  OBVIOUS
<1>1. QuestionsTypeOK
  BY TypeInit DEF EvalInit
<1>2. /\ run.mode = "none" /\ run.items = <<>> /\ run.madeAt = 0
      /\ waiting = FALSE /\ done = 0 /\ last = "none" /\ file = "closed"
      /\ saved = [eval |-> 0, holdout |-> 0]
  BY DEF EvalInit, NoRun
<1>3. /\ run.items \in Seq(Range(run.items)) /\ Len(run.items) = 0
      /\ DOMAIN run.items = {} /\ saved \in [eval : Nat, holdout : Nat]
  BY <1>2
<1>4. waiting \in BOOLEAN /\ ~waiting
  BY <1>2
<1>5. run.madeAt \in 0..Len(history) /\ done \in 0..Len(run.items)
  BY <1>1, <1>2, <1>3, Reads
<1>6. QED
  BY <1>2, <1>3, <1>4, <1>5 DEF EvalInv

\* Under the scripts a request is one of Questions, step by step, so that every
\* theorem of QuestionsProofs holds of what the scripts are answered.
THEOREM ScriptsAskQuestions == EvalSpec => QuestionsSpec /\ []QuestionsTypeOK /\ []EvalInv
<1>1. EvalInit => QuestionsInit /\ QuestionsTypeOK /\ EvalInv
  BY EvalStarts, TypeInit DEF EvalInit
<1>2. QuestionsTypeOK /\ EvalInv /\ [EvalNext]_<<questionsVars, evalVars>>
        => QuestionsTypeOK' /\ EvalInv' /\ [QuestionsNext]_questionsVars
  BY EvalStep, TypeStep
<1>3. QED
  BY <1>1, <1>2, PTL DEF EvalSpec, QuestionsSpec

\* The scripts' variables keep their types, and an answer awaited is that of an item
\* of the run (EvalTypeOK), whatever the tables hold and whenever a run is killed.
THEOREM EvalTypeCorrect == EvalSpec => []EvalTypeOK
<1>1. EvalInv => EvalTypeOK
  BY DEF EvalInv, EvalTypeOK
<1>2. QED
  BY <1>1, ScriptsAskQuestions, PTL

-----------------------------------------------------------------------------
\* What the file of a holdout run holds between two saves, and before one.
Saved ==
  run.mode = "holdout" =>
    /\ file = "closed" /\ done > 0 => saved.holdout = done
    /\ file = "due" => done > 0 /\ (done > 1 => saved.holdout = done - 1)

LEMMA SavedStep ==
  ASSUME EvalInv, QuestionsTypeOK, Saved, [EvalNext]_<<questionsVars, evalVars>>
  PROVE  /\ Saved'
         /\ run.mode = "holdout" /\ run'.mode = "none" =>
              /\ file = "closed" /\ done > 0 => saved'.holdout = done
              /\ file = "due" /\ done > 1 => saved'.holdout = done - 1
<1> USE DEF Saved
<1>1. CASE StartEval \/ StartHoldout
  <2>1. run.mode = "none" /\ done' = 0 /\ file' = file /\ file = "closed"
    BY <1>1 DEF StartEval, StartHoldout, Start, Idle, EvalInv
  <2>2. QED
    BY <2>1
<1>2. CASE GradeEval \/ GradeHoldout \/ TimeOut
  <2>1. PICK result : waiting /\ Record(result)
    BY <1>2 DEF GradeEval, GradeHoldout, TimeOut
  <2>2. /\ file = "closed" /\ UNCHANGED <<run, saved>> /\ done' = done + 1
        /\ run.mode = "holdout" => file' = "due"
    BY <2>1 DEF EvalInv, Record
  <2>3. done \in Nat
    <3>1. Len(run.items) \in Nat /\ done \in 0..Len(run.items)
      BY DEF EvalInv
    <3>2. QED
      BY <3>1
  <2>4. QED
    BY <2>2, <2>3 DEF EvalInv
<1>3. CASE EmptyFile
  BY <1>3 DEF EmptyFile, EvalInv
<1>4. CASE FillFile
  <2>1. /\ saved' = [saved EXCEPT !.holdout = done] /\ file' = "closed"
        /\ UNCHANGED <<run, done>>
    BY <1>4 DEF FillFile
  <2>2. saved \in [eval : Nat, holdout : Nat]
    BY DEF EvalInv
  <2>3. saved'.holdout = done'
    BY <2>1, <2>2
  <2>4. run.mode = "holdout" => run'.mode # "none"
    BY <2>1
  <2>5. QED
    BY <2>1, <2>3, <2>4
<1>5. CASE EndRun \/ Kill
  <2>1. run'.mode = "none" /\ (run.mode = "holdout" => saved' = saved)
    BY <1>5 DEF EndRun, Kill, Exit, NoRun
  <2>2. QED
    BY <2>1
<1>6. CASE \/ SendItem \/ UNCHANGED <<questionsVars, evalVars>>
           \/ (Handle \/ Raise \/ Finish \/ ChangeCorpus) /\ UNCHANGED evalVars
  <2>1. UNCHANGED <<run, done, saved, file>>
    BY <1>6 DEF SendItem, evalVars
  <2>2. QED
    BY <2>1
<1>7. QED
  BY <1>1, <1>2, <1>3, <1>4, <1>5, <1>6 DEF EvalNext

\* A holdout run that is killed leaves all its results in its file, or all but the
\* newest when that was not saved yet (ResultsSurvive); what is excepted is the save
\* itself, which empties the file before it fills it.
THEOREM ResultsMostlySurvive == EvalSpec => ResultsSurvive
<1>1. EvalInit => Saved
  BY DEF EvalInit, NoRun, Saved
<1>2. EvalInv /\ QuestionsTypeOK /\ Saved /\ [EvalNext]_<<questionsVars, evalVars>> =>
        /\ Saved'
        /\ [run.mode = "holdout" /\ run'.mode = "none" =>
              /\ file = "closed" /\ done > 0 => saved'.holdout = done
              /\ file = "due" /\ done > 1 => saved'.holdout = done - 1]_evalVars
  BY SavedStep
<1>3. QED
  BY <1>1, <1>2, ScriptsAskQuestions, PTL DEF EvalSpec, ResultsSurvive

-----------------------------------------------------------------------------
\* The theorems of QuestionsProofs, of the system the scripts drive.
COROLLARY AnswersOfScripts ==
  EvalSpec => /\ []SourcesOnce /\ []NamedDocsLead /\ []SourcesPassFilter /\ []BothLegsFirst
              /\ []CountConsistent /\ []FilteredCountAnswered /\ []FieldsAnswerAll
  BY ScriptsAskQuestions, SourcesNamedOnce, NamedDocsAlwaysLead, SourcesPassedFilter,
     BothLegsAlwaysFirst, CountAlwaysConsistent, FilteredCountNotRefused,
     FieldsAlwaysAnswerAll, PTL
=============================================================================
