\* A body that is not text.
CONSTANTS
  q1 = q1
  q2 = q2
  Requests = {q1}
  FilterToolList = FALSE
SPECIFICATION Spec
INVARIANT AuthenticatedGets200
