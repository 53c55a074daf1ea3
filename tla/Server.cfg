SPECIFICATION FairSpec
CONSTANTS
  MaxRequests = 3
  Ids = {1, 2}
INVARIANTS TurnsInterruptible InterruptsClaimOne AnswersMatchStore
PROPERTY RequestsAnswered
CHECK_DEADLOCK FALSE
