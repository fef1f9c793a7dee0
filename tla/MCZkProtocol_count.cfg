CONSTANTS
  Scripts <- PullScripts
  Transports = {"tcp"}
  Styles = {"inline"}
  RecordSizes = {40}
  MaxChunk = 50
  Piece = 30
  Buffer = 2
  MaxRecords = 2
  MaxFaults = 0
  Prompt = {TRUE}
  FirstField = 0
SPECIFICATION Spec
INVARIANTS PullIsOfTheLog
CHECK_DEADLOCK FALSE
