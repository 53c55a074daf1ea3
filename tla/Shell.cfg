SPECIFICATION FairSpec
CONSTANTS
  MaxOutput = 2
  MaxWritten = 3
INVARIANTS KeptUpToLimit FileHoldsAll KilledIsNotOk
PROPERTY CallReturns
CHECK_DEADLOCK FALSE
