SPECIFICATION Spec
CONSTANTS
  MaxOutput = 0
  MaxWritten = 1
INVARIANT OutputComplete
CHECK_DEADLOCK FALSE
