\* A post that times out after the downstream ran it.
CONSTANTS
  q1 = q1
  q2 = q2
  Requests = {q1}
  FilterToolList = FALSE
SPECIFICATION Spec
INVARIANT UnreachableMeansNotRun
