SPECIFICATION Spec
CONSTANTS
  HttpThreads = {h1}
  Loc = {l1, l2}
  Ops = {"store"}
  Requests = {"erase"}
  MaxTask = 2
  MaxRequest = 1
  MaxFault = 0
INVARIANT ErasedStaysErased
CHECK_DEADLOCK FALSE
