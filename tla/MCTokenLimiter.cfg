SPECIFICATION Spec
CONSTANTS
  r1 = r1
  r2 = r2
  r3 = r3
  acme = acme
  globex = globex
  Requests = {r1, r2, r3}
  Limit = 4
  Window = 1
  Threads = 2
  NoOne = NoOne
  Tenants = {acme, globex}
  TenantOf <- TwoTenants
  Estimates = {3}
  Actuals = {1, 4}
  MaxClock = 2
SYMMETRY TenantSymmetry
INVARIANTS
  IndInv
  TableMatchesCallers
  RowIdsNeverReused
  RowsInClockOrder
  RetryAfterFrees
  CountedWithinLimit
PROPERTIES
  AdmissionsFit
  ImplementsLedger
  ForgetsOnlyExpiredOrReleased
