CONSTANTS
  Null = Null
  Missing = Missing
  Ids = {1, 2}
  EditedIds = {1}
  Drifts <- SomeDrifts
  MaxFields = 2
  Skew = 1
  ReadTime = 1
  Lookback = 1
  MaxWindow = 3
  MaxTime = 3
  MaxEdits = 2
SPECIFICATION Spec
INVARIANTS FieldsExplainSnapshots SeverityIsWorst EditorsAreNamed OnlyEditorsCredited
CHECK_DEADLOCK FALSE
