SPECIFICATION Spec
CONSTANTS
  HttpThreads = {h1}
  Agvs = {a1}
  IdSpan = 4
  BootIds <- MCBootIds
  Polls = {"verdict", "status"}
  MaxIssue = 2
  MaxInbox = 1
  MaxFault = 1
INVARIANT NumbersNeverReused
CHECK_DEADLOCK FALSE
