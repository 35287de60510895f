\* Frames with the text of another choice beside content that is held back.
CONSTANTS
  Indexes <- OneChoice
  MaxDelta = 2
  MaxText = 4
  MaxLines = 4
SPECIFICATION Spec
CHECK_DEADLOCK FALSE
INVARIANT OtherChoicesPassThrough
