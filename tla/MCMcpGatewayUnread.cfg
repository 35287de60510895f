\* A list of tools in a form that the filter does not read.
CONSTANTS
  q1 = q1
  q2 = q2
  Requests = {q1}
  FilterToolList = TRUE
SPECIFICATION Spec
INVARIANT HiddenToolsStayHidden
