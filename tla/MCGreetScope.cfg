SPECIFICATION Spec
CONSTANTS
  Numerals <- NumeralTexts
  Requests <- AllRequests
  Documents <- AllDocuments
INVARIANTS
  TypeOK
  ExtraInherited
  PoisonOnlyByPaging
  CountedById
  GivenAsVerified
  AnswerAgrees
  
  
CHECK_DEADLOCK FALSE
