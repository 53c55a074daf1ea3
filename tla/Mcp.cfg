SPECIFICATION FairSpec
CONSTANTS
  c1 = c1
  c2 = c2
  NoCall = NoCall
  Calls <- TwoCalls
  Asks = {1}
  MaxLines = 2
INVARIANTS AnswersMatch ReaderNeverBlocks PanicsOnlyOnAbandonedCalls
PROPERTY CallsReturn
CHECK_DEADLOCK FALSE
