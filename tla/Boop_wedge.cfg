CONSTANTS
  Badges = {1, 2}
  Kiosks = {}
  Card <- MCCard
  Rounds = 1
  QueueDepth = 2
  Wraps = FALSE
  MaxSessions = 1
SPECIFICATION FairSpec
PROPERTY FollowsIntoExchange
CHECK_DEADLOCK FALSE
