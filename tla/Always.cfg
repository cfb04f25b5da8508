SPECIFICATION AlwaysSpec
CONSTANTS
  SleepOps = {s1, s2}
  WakeOps = {w1}
  Letters = {l1}
  Posts = {l2}
  Cancels = {}
  None = None
  MaxStarts = 2
  MaxAborts = 1
INVARIANTS
  TypesOK
  SleepSafe
  OperationsOnce
  CreatesTrue
  FeedsTrue
  PinsHold
PROPERTIES
  SleepAnswers
  RestoresTrue
  TurnsKept
SYMMETRY SleepSymmetry
CHECK_DEADLOCK FALSE
