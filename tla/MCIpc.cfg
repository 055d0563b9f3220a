SPECIFICATION FairSpec
CONSTANTS
  c1 = c1
  c2 = c2
  c3 = c3
  None = None
  Call = {c1, c2, c3}
  Huge = {c2}
  Long = {c3}
  Attempts = 2
  MaxConn = 2
  MaxBreaks = 1
  MaxCancels = 1
INVARIANTS TypeOK NotRepeated SuccessMeansDone
PROPERTIES OwnReply CallReturns ConnectionsEnd
CHECK_DEADLOCK FALSE
