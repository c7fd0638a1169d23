CONSTANTS
  Tasks = {irTask, gui}
  Contents = {v1, v2}
  Absent = Absent
  Torn = Torn
  Lost = Lost
  Free = Free
SPECIFICATION Spec
SYMMETRY Symmetric
INVARIANTS LiveIsWhole OldUntilUnlink
PROPERTY TrueUnlessSyncFailed
