SPECIFICATION FairSpec
CONSTANTS
  Resource = {r1}
  ReqId = {1}
  Slot = {s1, s2}
  Address = {c1, c2}
  NULL = NULL
  MaxRequests = 2
  MaxFailures = 1
PROPERTY EveryCommandRuns
\* A process that has aborted, or was shut down, has nothing left to do.
CHECK_DEADLOCK FALSE
