SPECIFICATION LiveSpec
CONSTANTS
  MaxClock = 3
  Busy = 1
  MaxPrompts = 1
  MaxStops = 0
  MaxRestarts = 0
  MaxFailures = 1
  None = None
PROPERTIES
  AbandonedIsClosed
CHECK_DEADLOCK FALSE
