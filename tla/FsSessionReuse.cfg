SPECIFICATION Spec
CONSTANTS
  A = A
  B = B
  MaxQLen = 2
  Window = 2
  AckTries = 1
  SessStep = 3
  Duplicates = TRUE
  MaxSend <- ATwo
  MaxClose <- Nobody
  MaxRestart <- Nobody
  MaxFinalize <- EachOne
INVARIANT AckedWasRead
\* Once the bounded events are used up the two ends have nothing left to do.
CHECK_DEADLOCK FALSE
