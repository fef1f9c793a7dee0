CONSTANTS
  h1 = h1
  h2 = h2
  a = a
  b = b
  c = c
  Serials = {1, 2}
  LinesOf <- OwnLines
  Mappable = {a, b, c}
  Handlers = {h1}
  Limit = 2
  Rejected = {1}
  Unsavable <- OwnUnsavable
  MaxRestarts = 1
SPECIFICATION FairSpec
PROPERTIES EventuallyForwarded
CHECK_DEADLOCK FALSE
