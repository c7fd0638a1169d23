CONSTANTS
  Rounds = 7
  QueueDepth = 4
  Card <- MCCard
SPECIFICATION FairSpec
INVARIANTS CompleteTogether Lockstep JumpIsSafe
PROPERTIES SwapSpec FieldsGetAcross
CHECK_DEADLOCK FALSE
