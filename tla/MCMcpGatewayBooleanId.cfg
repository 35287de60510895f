\* A tool call that is refused, with a boolean for an id.
CONSTANTS
  q1 = q1
  q2 = q2
  Requests = {q1}
  FilterToolList = FALSE
SPECIFICATION Spec
INVARIANT ErrorsKeepTheId
