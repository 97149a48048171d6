SPECIFICATION FairSpec
CONSTANTS
  f1 = f1
  None = None
  Files = {f1}
  Paper = {f1}
  MaxVersion = 2
INVARIANTS
  AnswerIsWhole
  SoftOutcomeIsClean
  OneOwner
  RecoverySeesDisconnect
  AdmissionsAgree
PROPERTIES
  ReleasedCurrent
  QuestionEnds
  CancelEndsQuestion
CHECK_DEADLOCK FALSE
