\* Streams of up to four lines and four units of text, for two interleaved
\* choices, and whole answers of as many.
CONSTANTS
  Indexes <- TwoChoices
  MaxDelta = 2
  MaxText = 4
  MaxLines = 4
SPECIFICATION Spec
CHECK_DEADLOCK FALSE
INVARIANTS
  TypeOK
  TextConserved
  TailBeforeEnd
  FailureToldOnce
PROPERTIES
  KeepsThePromise
