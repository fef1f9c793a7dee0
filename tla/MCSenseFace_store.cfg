CONSTANTS
  h1 = h1
  h2 = h2
  a = a
  b = b
  c = c
  Serials = {1, 2}
  LinesOf <- SharedLine
  Mappable = {b}
  Handlers = {h1, h2}
  Limit = 2
  Rejected = {}
  Unsavable <- SharedUnsavable
  MaxRestarts = 1
SPECIFICATION Spec
INVARIANTS TypeOK MarkedIsDelivered ForwardedInOrder AcceptedIsStored
SYMMETRY HandlerSymmetry
CHECK_DEADLOCK FALSE
