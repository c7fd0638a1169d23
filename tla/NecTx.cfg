CONSTANT Overrides = {0, 36000, 38000, 40000}
SPECIFICATION FairTxSpec
INVARIANTS SlotIdle BadgeCarrier
PROPERTY NeverMute
