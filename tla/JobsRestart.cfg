SPECIFICATION FairSpec
CONSTANTS
  Jobs = {j1, j2}
  BatchSize = 2
  MaxRows = 3
  MaxRestarts = 1
PROPERTY StoredJobsEnd
CHECK_DEADLOCK FALSE
