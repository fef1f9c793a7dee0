CONSTANTS
  Slots <- MCSlots
  Releases <- MCReleases
  Commands <- MCCommands
  Answers <- MCAnswers
  SingleDevices <- MCSingleDevices
  MaxUpsets = 1
SPECIFICATION InstallSpec
INVARIANTS TypeOK NoOrphan GoodReleaseStays SavedLoadsBack LegacyIsOneDevice
PROPERTIES UpdatedRunsNew ComesBack
CHECK_DEADLOCK FALSE
