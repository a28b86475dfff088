SPECIFICATION Spec
CONSTANTS
  Jobs = {j1}
  BatchSize = 2
  MaxRows = 3
  MaxRestarts = 0
INVARIANT RunningIsFound
CHECK_DEADLOCK FALSE
