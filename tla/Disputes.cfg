SPECIFICATION Spec
CONSTANTS
  None = None
  Disputes = {d1, d2}
  Requests = {r1, r2, r3}
  Amounts = {0, 1}
  Notes = {"bank", "provider"}
SYMMETRY Symmetry
INVARIANTS TypeOK ResolutionIsWhole DirectSendsAreLogged SummaryMissesNone
CHECK_DEADLOCK FALSE
