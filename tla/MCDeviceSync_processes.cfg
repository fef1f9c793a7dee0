CONSTANTS
  w1 = w1
  w2 = w2
  q1 = q1
  i1 = i1
  i2 = i2
  org = org
  blank = blank
  NoZone = NoZone
  UTC = UTC
  Instances = {i1, i2}
  Workers = {w1, w2}
  Probers = {}
  InstanceOf <- TwoProcesses
  Schedulers = {w1}
  Punches = {1, 2}
  Mappable = {1, 2}
  DayOf <- TwoDays
  CheckInPunches = {1}
  FirstInLastOut = FALSE
  ClearAfterSync = FALSE
  ClearThreshold = 1
  BatchSize = 1
  DeviceZone = org
  OrgZones = {}
  BadZones = {}
  BlankZones = {}
  ShortPulls = FALSE
  PartialAccept = FALSE
  CuttableErrors = FALSE
  MaxRestarts = 1
SPECIFICATION Spec
INVARIANTS NothingDropped
PROPERTIES SafeErase ImplementsTransfer
