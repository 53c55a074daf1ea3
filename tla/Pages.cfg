SPECIFICATION PagesFairSpec
CONSTANTS
  NoThread = NoThread
  s1 = s1
  s2 = s2
  Ids = {1, 2, 3}
  Saves <- TwoSaves
  Asked = {0, 5}
  DefaultLimit = 1
  MaxLimit = 2
  Start = 2
  MaxFailures = 1
INVARIANTS UntouchedAreListed UntouchedListedOnce
PROPERTY PagingEnds
CHECK_DEADLOCK FALSE
