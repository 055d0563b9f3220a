CONSTANTS
  MAX_RESTARTS = 2
  MaxRuns = 4
SPECIFICATION FairSpec
INVARIANTS TypeOK KillsBounded
PROPERTIES HungIsReplaced ThreadsEnd
CHECK_DEADLOCK FALSE
