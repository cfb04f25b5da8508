SPECIFICATION Spec
CONSTANTS
  Requests = {r1}
  Interactive = {}
  None = None
  MaxFaults = 1
PROPERTIES
  CreatesAnswered
CHECK_DEADLOCK FALSE
