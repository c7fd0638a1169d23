CONSTANTS
  a1 = a1
  a2 = a2
  None = None
  Apps = {a1, a2}
  Builtin <- MCBuiltin
  AppCalls <- AnyCall
  ScriptCalls <- Registers
  Ticks = {"draws", "ends"}
  Faults = {"write"}
  Careful = TRUE
  MaxDepth = 3
SPECIFICATION FairSpec
INVARIANTS OnlySelected HoldReleased
PROPERTIES Settles
