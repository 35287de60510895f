SPECIFICATION Spec
CONSTANTS
  r1 = r1
  r2 = r2
  r3 = r3
  acme = acme
  globex = globex
  Requests = {r1, r2, r3}
  Limit = 4
  Window = 1
  Threads = 2
  NoOne = NoOne
  Tenants = {acme}
  TenantOf <- OneTenant
  Estimates = {3}
  Actuals = {1}
  MaxClock = 3
SYMMETRY RequestSymmetry
INVARIANTS
  RetryAfterIsWhenOldestLeaves
