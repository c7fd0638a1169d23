CONSTANTS
  Badges = {1, 2}
  Kiosks = {9}
  Card <- MCCard
  Rounds = 1
  QueueDepth = 1
  Wraps = FALSE
  MaxSessions = 1
SPECIFICATION Spec
INVARIANT OneLeader
CHECK_DEADLOCK FALSE
