SPECIFICATION Spec
CONSTANTS
  MaxClock = 3
  Busy = 1
  MaxPrompts = 2
  MaxStops = 0
  MaxRestarts = 1
  MaxFailures = 0
  None = None
PROPERTIES
  NewTurnStaysOpen
CHECK_DEADLOCK FALSE
