SPECIFICATION FairSpec
CONSTANTS
  c1 = c1
  c2 = c2
  c3 = c3
  Call = {c1, c2, c3}
  TwoStep = {c1}
  Plain = {c2, c3}
  MaxRetries = 1
INVARIANTS TypeOK ExactlyWhatIsSaid LoneIsUndisturbed
PROPERTIES EverythingEnds
CHECK_DEADLOCK FALSE
