CONSTANT MaxResets = 3
SPECIFICATION FairSpec
INVARIANTS NeverStranded ClaimIsOwed
PROPERTIES RollsBack BootEnds
CHECK_DEADLOCK FALSE
