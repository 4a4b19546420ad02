SPECIFICATION FairSpec
CONSTANTS
  HttpThreads = {h1}
  Agvs = {a1}
  IdSpan = 4
  BootIds <- MCBootIds
  Polls = {}
  MaxIssue = 2
  MaxInbox = 1
  MaxFault = 1
PROPERTY TickedTaskLeaves
CHECK_DEADLOCK FALSE
