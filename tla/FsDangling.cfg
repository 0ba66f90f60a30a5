SPECIFICATION Spec
CONSTANTS
  A = A
  B = B
  MaxQLen = 2
  Window = 2
  AckTries = 1
  SessStep = 2
  Duplicates = TRUE
  MaxSend <- OnlyA
  MaxClose <- OnlyB
  MaxRestart <- Nobody
  MaxFinalize <- OnlyB
INVARIANT NoDanglingInput
\* Once the bounded events are used up the two ends have nothing left to do.
CHECK_DEADLOCK FALSE
