SPECIFICATION FairSpec
CONSTANTS
  BatchSize = 2
  MaxRetries = 1
  MaxEvents = 3
  MaxFaults = 2
  MaxCount = 4
  OrgZones = {org}
  NoZone = nozone
  Jobs = {1, 2}
  JobKinds <- TwoJobs
  NoReport = noreport
  MaxRestarts = 1
INVARIANTS TypeOK ReportIsTrue
PROPERTIES NoRerun ImplementsForward EveryJobAnswered CallEnds
CHECK_DEADLOCK FALSE
