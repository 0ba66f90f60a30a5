SPECIFICATION Spec
CONSTANTS
  A = A
  B = B
  MaxQLen = 2
  Window = 2
  AckTries = 1
  SessStep = 2
  Duplicates = TRUE
  MaxSend <- ATwoB1
  MaxClose <- Nobody
  MaxRestart <- EachOne
  MaxFinalize <- Nobody
INVARIANT AckedWasRead
INVARIANT NoSeqnoReuse
INVARIANT ReadInOrder
\* Once the bounded events are used up the two ends have nothing left to do.
CHECK_DEADLOCK FALSE
