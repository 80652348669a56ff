SPECIFICATION FairSpec
CONSTANTS
  Versions = 5
  DocumentOf <- MCDocumentOf
  FieldId <- MCFieldId
  MaxRequests = 2
INVARIANTS
  TypeOK
  RowsMatchModel
  OncePerId
PROPERTIES
  LastStaysLast
  RefreshAnswered
  AnswerGetsShown
CHECK_DEADLOCK FALSE
