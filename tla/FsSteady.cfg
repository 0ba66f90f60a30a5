SPECIFICATION Spec
CONSTANTS
  A = A
  B = B
  MaxQLen = 2
  Window = 2
  AckTries = 1
  SessStep = 1
  Duplicates = TRUE
  MaxSend <- ATwoB1
  MaxClose <- Nobody
  MaxRestart <- Nobody
  MaxFinalize <- Nobody
INVARIANT TypeOK
INVARIANT ReadyAudit
PROPERTY NotShownAgain
\* Once the bounded events are used up the two ends have nothing left to do.
CHECK_DEADLOCK FALSE
