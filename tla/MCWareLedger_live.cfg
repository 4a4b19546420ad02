SPECIFICATION FairSpec
CONSTANTS
  HttpThreads = {h1, h2}
  Loc = {l1, l2}
  Ops = {"store", "move"}
  Requests = {"erase"}
  MaxTask = 2
  MaxRequest = 2
  MaxFault = 0
INVARIANT OneTransaction
PROPERTY StoresHandled
CHECK_DEADLOCK FALSE
