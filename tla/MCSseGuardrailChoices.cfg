\* Two choices whose chunks come interleaved.
CONSTANTS
  Indexes <- TwoChoices
  MaxDelta = 2
  MaxText = 4
  MaxLines = 4
SPECIFICATION Spec
CHECK_DEADLOCK FALSE
INVARIANT ChoicesKeptApart
