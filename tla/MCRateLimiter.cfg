SPECIFICATION Spec
CONSTANTS
  r1 = r1
  r2 = r2
  r3 = r3
  r4 = r4
  None = None
  Req = {r1, r2, r3, r4}
  Private = {r1, r2, r3}
  Group = {r4}
  Resolve = {r1, r4}
  Search = {r2}
  GlobalLimit = 2
  GlobalWindow = 2
  ChatLimit = 1
  ChatWindow = 2
  GroupLimit = 1
  GroupWindow = 3
  DailyLimit = 1
  MaxConcurrent = 2
  MaxRetries = 1
  MaxTime = 3
  MaxCancels = 1
INVARIANTS TypeOK GlobalRate ChatRate LocksMove SlotsReturn
CHECK_DEADLOCK FALSE
