SPECIFICATION EventuallySpec
CONSTANTS
  None = None
PROPERTIES
  SleepEnds
  RequestsEnd
  MachineComesBack
  ReadersSettle
CHECK_DEADLOCK FALSE
