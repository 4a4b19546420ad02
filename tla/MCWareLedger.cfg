SPECIFICATION Spec
CONSTANTS
  HttpThreads = {h1}
  Loc = {l1, l2}
  Ops = {"store", "move", "take"}
  Requests = {"erase", "change", "look"}
  MaxTask = 2
  MaxRequest = 1
  MaxFault = 1
SYMMETRY MCSymmetry
INVARIANTS TypeOK NoneMissed
PROPERTIES Recorded
CHECK_DEADLOCK FALSE
