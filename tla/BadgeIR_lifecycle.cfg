CONSTANTS
  FrameDepth = 2
  WordsDepth = 1
  RingHolds = 2
  TxDepth = 1
  MaxBursts = 3
SPECIFICATION FairSpec
INVARIANTS InOrder FewStale NothingHeldAsleep
PROPERTIES BoopKeepsItsFrames ComesUp GoesDown
CHECK_DEADLOCK FALSE
