SPECIFICATION Spec
CONSTANTS
  None = None
  d1 = d1
  d2 = d2
  d3 = d3
  Deliveries = {d1}
  Files <- SettlementFiles
  BatchSize = 500
  MaxInFlight = 1
  Upper <- MCUpper
  RowLabel <- MCRowLabel
INVARIANTS UploadedRowsAreKept
CHECK_DEADLOCK FALSE
