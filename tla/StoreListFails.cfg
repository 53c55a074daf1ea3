SPECIFICATION Spec
CONSTANTS
  o1 = o1
  o2 = o2
  o3 = o3
  NoOp = NoOp
  Ops <- ThreeOps
  Threads = {1, 2}
INVARIANT ListsSucceed
CHECK_DEADLOCK FALSE
