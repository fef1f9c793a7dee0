CONSTANTS
  Slots <- MCSlots
  Releases <- MCReleases
  Commands <- MCCommands
  Answers <- MCAnswers
  SingleDevices <- MCSingleDevices
  MaxUpsets = 0
SPECIFICATION InstallSpec
INVARIANT RollbackRestores
CHECK_DEADLOCK FALSE
