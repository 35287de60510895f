\* A finish_reason in a frame whose content is empty or held back.
CONSTANTS
  Indexes <- OneChoice
  MaxDelta = 2
  MaxText = 4
  MaxLines = 4
SPECIFICATION Spec
CHECK_DEADLOCK FALSE
INVARIANT FinishReasonForwarded
