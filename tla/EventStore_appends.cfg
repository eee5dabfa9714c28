CONSTANTS
  a = a
  b = b
  w1 = w1
  w2 = w2
  Writers = {w1, w2}
  Streams = {a, b}
  NoRow = NoRow
  Refused = Refused
  Ops <- MCOps
  Rows <- MCRows
  Project <- MCProject
  Requests <- AppendRequests
  MaxVersion = 4
  MaxCalls = 2
  MaxRebuilds = 1
SPECIFICATION Spec
CHECK_DEADLOCK FALSE
PROPERTIES ImplementsAtomicLog PinnedAppendsAtExpected
