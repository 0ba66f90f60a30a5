SPECIFICATION Spec
CONSTANTS
  A = A
  B = B
  MaxQLen = 2
  Window = 2
  AckTries = 1
  SessStep = 3
  Duplicates = TRUE
  MaxSend <- AThree
  MaxClose <- Nobody
  MaxRestart <- Nobody
  MaxFinalize <- Nobody
PROPERTY IsReliableChannel
\* Once the bounded events are used up the two ends have nothing left to do.
CHECK_DEADLOCK FALSE
