SPECIFICATION Spec
CONSTANTS
  c1 = c1
  c2 = c2
  c3 = c3
  None = None
  Call = {c1, c2, c3}
  Huge = {}
  Long = {c1}
  Attempts = 3
  MaxConn = 1
  MaxBreaks = 0
  MaxCancels = 0
INVARIANT RepliesAreOwn
CHECK_DEADLOCK FALSE
