CONSTANTS
  w1 = w1
  w2 = w2
  q1 = q1
  i1 = i1
  i2 = i2
  org = org
  blank = blank
  NoZone = NoZone
  UTC = UTC
  Instances = {i1}
  Workers = {w1, w2}
  Probers = {}
  InstanceOf <- OneProcess
  Schedulers = {w1}
  Punches = {1, 2}
  Mappable = {1, 2}
  DayOf <- TwoDays
  CheckInPunches = {1}
  FirstInLastOut = TRUE
  ClearAfterSync = FALSE
  ClearThreshold = 0
  BatchSize = 1
  DeviceZone = org
  OrgZones = {}
  BadZones = {}
  BlankZones = {}
  ShortPulls = FALSE
  PartialAccept = FALSE
  CuttableErrors = TRUE
  MaxRestarts = 0
SPECIFICATION FairSpec
INVARIANTS OneCheckInPerDay
PROPERTIES EventuallyDelivered KeepsSyncing EveryAttemptEnds
