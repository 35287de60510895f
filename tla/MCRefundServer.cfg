\* Four calls for two customers or a stranger; any two of the amounts may be too much.
CONSTANTS
  r1 = r1
  r2 = r2
  r3 = r3
  r4 = r4
  ada = ada
  alan = alan
  nobody = nobody
  Calls = {r1, r2, r3, r4}
  Customers = {ada, alan}
  Strangers = {nobody}
  Malformed = Malformed
  NotFinite = NotFinite
  NoArguments = NoArguments
  Charged <- ExactCharges
  Opening <- ExactOpening
  Arguments <- AnyArguments
  MinReason = 2
  Precision = 3
SPECIFICATION Spec
SYMMETRY CallSymmetry
INVARIANTS
  TypeOK
  BalanceMatchesAnswers
  NeverOverRefunded
  ErrorsTellWhoseFault
  AskingAgainIsSafe
  RemainingWithinReach
