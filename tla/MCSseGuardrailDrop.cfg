\* A connection that breaks off with text held back.
CONSTANTS
  Indexes <- OneChoice
  MaxDelta = 2
  MaxText = 4
  MaxLines = 4
SPECIFICATION Spec
CHECK_DEADLOCK FALSE
INVARIANT DroppedStreamReleasesTail
