CONSTANTS
  d1 = d1
  d2 = d2
  r1 = r1
  r2 = r2
  DeviceList <- TwoDevices
  Requests = {r1}
  Hangs = {d1}
SPECIFICATION FairSpec
INVARIANTS TypeOK DrainKeepsItsWord
PROPERTIES ShutdownEnds IndependentSchedules
CHECK_DEADLOCK FALSE
