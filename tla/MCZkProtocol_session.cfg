CONSTANTS
  Scripts <- AllScripts
  Transports = {"tcp", "udp"}
  Styles = {"inline", "data", "stream", "bare", "ack"}
  RecordSizes = {8, 16, 40}
  MaxChunk = 50
  Piece = 30
  Buffer = 2
  MaxRecords = 2
  MaxFaults = 1
  Prompt = {TRUE, FALSE}
  FirstField = 0
SPECIFICATION FairSpec
INVARIANTS TypeOK InStep PullIsTheLog ClearIsDone SavedIsWhole
PROPERTIES SessionEnds
CHECK_DEADLOCK FALSE
