SPECIFICATION Spec
CONSTANTS
  Resource = {r1, r2}
  ReqId = {1, 2}
  Slot = {s1, s2, s3}
  Address = {c1, c2, c3}
  NULL = NULL
  MaxRequests = 3
  MaxFailures = 1
SYMMETRY Interchangeable
INVARIANT TypeOK
INVARIANT QueuesHoldTheElements
INVARIANT QueueOutlivesChildren
INVARIANT OneQueuedRuns
INVARIANT RequesterKnows
\* A process that has aborted, or was shut down, has nothing left to do.
CHECK_DEADLOCK FALSE
