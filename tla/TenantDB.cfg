SPECIFICATION Spec
CONSTANTS
  None = None
  Absent = Absent
  Shared = Shared
  Tenants = {t1}
  Tiers = {1, 2}
  Urls = {u1, bad}
  Malformed = {bad}
  Requests = {r1, r2, r3}
  MaxEngines = 3
SYMMETRY RequestSymmetry
INVARIANTS TypeOK RoutedByTheRow ClosingReachesTheEngine
CHECK_DEADLOCK FALSE
