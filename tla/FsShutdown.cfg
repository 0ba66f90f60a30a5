SPECIFICATION ShutFairSpec
CONSTANTS
  A = A
  B = B
  MaxQLen = 1
  Window = 2
  AckTries = 1
  SessStep = 2
  Duplicates = TRUE
  MaxSend <- OnlyA
  MaxClose <- OnlyA
  MaxRestart <- Nobody
  MaxFinalize <- Nobody
INVARIANT TimerOnlyInShutdown
INVARIANT NoComplaint
PROPERTY ShutdownEnds
\* Once the bounded events are used up the two ends have nothing left to do.
CHECK_DEADLOCK FALSE
