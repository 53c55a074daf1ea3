SPECIFICATION FairSpec
CONSTANTS
  MaxCalls = 2
  MaxEvents = 1
INVARIANTS ReturnsAreTrue EventsBeforeAnswer PanicsOnlyAfterGiveUp
PROPERTY AnswersArrive
CHECK_DEADLOCK FALSE
