SPECIFICATION FairSpec
CONSTANTS
  Jobs = {j1, j2}
  BatchSize = 2
  MaxRows = 3
  MaxRestarts = 1
INVARIANTS TypeOK DoneIsApplied PollFinds
PROPERTIES NeverGoesBack JobsEnd
CHECK_DEADLOCK FALSE
