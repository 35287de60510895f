\* Two requests of every kind, with the tool list filtered and a downstream that may never answer.
CONSTANTS
  q1 = q1
  q2 = q2
  Requests = {q1, q2}
  FilterToolList = TRUE
SPECIFICATION FairSpec
INVARIANTS
  TypeOK
  OnlyEntitledCallsRun
  AnswersFindTheirRequest
  ViewersSeeNoAdminTools
PROPERTIES
  RequestsAnswered
