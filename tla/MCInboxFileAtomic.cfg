SPECIFICATION Spec
CONSTANTS
  th1 = th1
  th2 = th2
  Thread = {th1, th2}
  None = None
  Cap = 0
  Wide = {}
  MaxMsgs = 2
  MaxErrors = 0
  MaxCrashes = 0
  MaxTimeouts = 1
SYMMETRY Threads
PROPERTY AckIsAtomic
CHECK_DEADLOCK FALSE
