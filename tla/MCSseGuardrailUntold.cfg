\* A failure that nothing catches, once the client has its 200.
CONSTANTS
  Indexes <- OneChoice
  MaxDelta = 2
  MaxText = 4
  MaxLines = 4
SPECIFICATION Spec
CHECK_DEADLOCK FALSE
INVARIANT EveryFailureTold
