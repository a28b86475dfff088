SPECIFICATION Spec
CONSTANTS
  None = None
  d1 = d1
  d2 = d2
  d3 = d3
  Deliveries = {d1, d2, d3}
  Files <- MCFiles
  BatchSize = 1
  MaxInFlight = 2
  Upper <- MCUpper
  RowLabel <- MCRowLabel
SYMMETRY DeliverySymmetry
INVARIANTS TypeOK CopiesOnlyFromOverlap DoneIsStored RaisesOnlyOverCopies
CHECK_DEADLOCK FALSE
