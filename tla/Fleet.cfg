SPECIFICATION LiveSpec
CONSTANTS
  l1 = l1
  l2 = l2
  near = near
  far = far
  Daemon = Daemon
  None = None
  Letters = {l1, l2}
  AppLetters = {l2}
  Machines = {near, far}
  Dest <- ToEach
  Receivers = {r1, r2}
  MaxPerTick = 2
  Routes <- AllRoutes
  MaxFaults = 1
  MaxDeaths = 1
  MaxChanges = 1
INVARIANTS
  TypeOK
  KeptOnce
  RunsOnce
  SettledIsTrue
PROPERTIES
  IsRelay
  QueuedArrives
CHECK_DEADLOCK FALSE
