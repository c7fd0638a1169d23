CONSTANTS
  Uids = {me, ann, bob}
  Self = me
  Names = {n1, n2}
  MaxRecords = 1
  MaxBoops = 2
  Blank = Blank
  Absent = Absent
  Torn = Torn
  Lost = Lost
  Free = Free
  NoPeer = NoPeer
SPECIFICATION Spec
SYMMETRY Symmetric
INVARIANTS SavedIsAll WithinLimit
PROPERTY NothingForgotten
