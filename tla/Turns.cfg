SPECIFICATION FairSpec
CONSTANTS
  t1 = t1
  t2 = t2
  th1 = th1
  c1 = c1
  c2 = c2
  NoCall = NoCall
  Turns <- TwoTurns
  Threads <- OneThread
  CallIds <- TwoCallIds
  Replies <- NoneOrTwo
  Sizes = {2}
  KeepTokens = 3
  MaxTokens = 4
  MaxSteps = 11
  MaxRestrictAttempts = 1
INVARIANTS
  StoredThreadsPaired ContextPaired NewMarkExact ReplyIsRecorded
  RestrictedTurnsNeverSucceed
PROPERTIES SavesKeepHistory ImplementsTransaction TurnsEnd
CHECK_DEADLOCK FALSE
