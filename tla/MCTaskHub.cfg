SPECIFICATION Spec
CONSTANTS
  HttpThreads = {h1, h2}
  Agvs = {a1}
  IdSpan = 4
  BootIds <- MCBootIds
  Polls = {"verdict", "status"}
  MaxIssue = 2
  MaxInbox = 1
  MaxFault = 1
SYMMETRY MCSymmetry
INVARIANTS TypeOK HeldIdsProper OverWasRun
PROPERTIES UnknownOnlyWhileMoving LifeSpec
CHECK_DEADLOCK FALSE
