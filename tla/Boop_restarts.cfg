CONSTANTS
  Badges = {1, 2}
  Kiosks = {}
  Card <- MCCard
  Rounds = 2
  QueueDepth = 1
  Wraps = TRUE
  MaxSessions = 2
SPECIFICATION Spec
INVARIANTS OneLeader MutualBoop OneBoopPerSession MisreadHasBooped
CHECK_DEADLOCK FALSE
