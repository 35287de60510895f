\* A finish_reason in a frame that has content too.
CONSTANTS
  Indexes <- OneChoice
  MaxDelta = 2
  MaxText = 4
  MaxLines = 4
SPECIFICATION Spec
CHECK_DEADLOCK FALSE
INVARIANT TailBeforeFinishReason
