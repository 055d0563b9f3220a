SPECIFICATION Spec
CONSTANTS
  th1 = th1
  th2 = th2
  Thread = {th1, th2}
  None = None
  Cap = 2
  Wide = {2}
  MaxMsgs = 4
  MaxErrors = 1
  MaxCrashes = 1
  MaxTimeouts = 1
SYMMETRY Threads
INVARIANTS TypeOK Kept InOrder
PROPERTIES RewriteIsCurrent AckKeepsJunk WithinCap
CHECK_DEADLOCK FALSE
