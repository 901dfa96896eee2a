SPECIFICATION FieldSpec
CONSTANTS
  bug1 = bug1
  bug2 = bug2
  case = case
  missing = missing
  Docs = {bug1, bug2, case, missing}
  Corpora <- MCCorpora
  MaxResets = 2
  MaxId = 6
INVARIANT FieldTypeOK
INVARIANT CompleteIsWhole
INVARIANT LinksResolve
PROPERTY LoadedOnce
INVARIANT FieldsRightUntilReset
