SPECIFICATION Spec
CONSTANTS
  MaxLength = 4
  RecordTokens = {1, 3}
  KeepTokens = 3
  MaxTokens = 4
  SummaryTokens = {1}
  NoCall = NoCall
  Turns <- MCTurns
  CallIds <- MCCallIds
  Inputs <- MCInputs
INVARIANTS KeptIsLeast NothingForgotten
PROPERTY ReturnsClosedForm
CHECK_DEADLOCK FALSE
