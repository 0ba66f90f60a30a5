SPECIFICATION Spec
CONSTANTS
  Resource = {r1, r2}
  ReqId = {1, 2}
  Slot = {s1, s2}
  Address = {c1, c2}
  NULL = NULL
  MaxRequests = 2
  MaxFailures = 1
SYMMETRY Interchangeable
INVARIANT OneActionAtATime
\* A process that has aborted, or was shut down, has nothing left to do.
CHECK_DEADLOCK FALSE
