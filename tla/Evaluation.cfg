CHECK_DEADLOCK FALSE
CONSTANTS
  b1 = b1
  b2 = b2
  b3 = b3
  t1 = t1
  Docs <- MCDocs
  IdOrder <- MCIdOrder
  Corpora <- MCCorpora
  Asked <- MCAsked
  Replies <- MCReplies
  RetrievalSize = 2
  Oversample = 2
  MaxNeighbours = 3
  RrfK = 1
  ContextTopN = 2
  MaxExpansion = 1
  MaxIds = 2
  MaxListed = 2
  MaxCommits = 2
  Selections <- MCSelections
  ByHand <- MCByHand
  OneWord <- MCOneWord
  Fold <- MCFold
  Preferred = b3
  MaxExamples = 10
  MaxRuns = 1
SPECIFICATION EvalSpec
INVARIANTS
  QuestionsTypeOK
  EvalTypeOK
  SourcesOnce
  NamedDocsLead
  SourcesPassFilter
  BothLegsFirst
  CountConsistent
  FilteredCountAnswered
  FieldsAnswerAll
  DeterministicAnswersPass
  ReferenceReachesModel
PROPERTIES
  ResultsSurvive
  RunsEnd
