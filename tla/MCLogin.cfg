CONSTANTS
  MaxAttempts = 3
  MaxPasswords = 3
SPECIFICATION FairSpec
INVARIANTS TypeOK NoCodeLeft
PROPERTIES QrLoginEnds
CHECK_DEADLOCK FALSE
