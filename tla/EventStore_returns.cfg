CONSTANTS
  a = a
  b = b
  w1 = w1
  w2 = w2
  Writers = {w1, w2}
  Streams = {a, b}
  NoRow = NoRow
  Refused = Refused
  Ops <- MCOps
  Rows <- MCRows
  Project <- MCProject
  Requests <- RebuildRequests
  MaxVersion = 4
  MaxCalls = 2
  MaxRebuilds = 1
SPECIFICATION FairSpec
CHECK_DEADLOCK FALSE
PROPERTIES AppendReturns
