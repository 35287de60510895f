\* An amount below the last digit that the decimal context keeps of the balance.
CONSTANTS
  r1 = r1
  r2 = r2
  r3 = r3
  r4 = r4
  ada = ada
  alan = alan
  nobody = nobody
  Calls = {r1, r2, r3}
  Customers = {ada}
  Strangers = {nobody}
  Malformed = Malformed
  NotFinite = NotFinite
  NoArguments = NoArguments
  Charged <- DustCharges
  Opening <- NothingYet
  Arguments <- DustArguments
  MinReason = 2
  Precision = 3
SPECIFICATION Spec
SYMMETRY CallSymmetry
INVARIANTS
  BalanceMatchesAnswers
