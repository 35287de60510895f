SPECIFICATION SpecWithFaults
CONSTANTS
  r1 = r1
  r2 = r2
  r3 = r3
  acme = acme
  Requests = {r1, r2, r3}
  Tenants = {acme}
  TenantOf <- OneTenant
  Limit = 4
  Window = 1
  Threads = 2
  NoOne = NoOne
  Estimates = {3}
  Actuals = {1}
  MaxClock = 2
  MaxSetBack = 1
SYMMETRY RequestSymmetry
INVARIANTS
  SettlementsFindTheirRow
  InFlightFitsRealTime
