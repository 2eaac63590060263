SPECIFICATION GiftPagesSpec
CONSTANTS
  TotalSteps = 2
  Texts <- Spellings
CHECK_DEADLOCK FALSE
INVARIANTS
  GiftPagesTypeOK
  ToldDoneIsDone
  RightAnswerIsEnough
  ToldTheReason
