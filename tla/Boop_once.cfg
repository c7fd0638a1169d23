CONSTANTS
  Badges = {1, 2}
  Kiosks = {}
  Card <- MCCard
  Rounds = 3
  QueueDepth = 4
  Wraps = FALSE
  MaxSessions = 1
SPECIFICATION TickingSpec
INVARIANT WholeCard
PROPERTIES PairSpec ExchangeEnds
