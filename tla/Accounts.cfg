SPECIFICATION Spec
CONSTANTS
  None = None
  Absent = Absent
  Accounts = {a1}
  Phones = {p1}
  Workers = {w1, w2}
  MaxAttempts = 1
  MaxIssued = 2
  MaxTenants = 2
SYMMETRY WorkerSymmetry
INVARIANTS TypeOK EnabledIsConfirmed AcceptedOnce
PROPERTIES TenantIsKept
