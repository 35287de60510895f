SPECIFICATION Spec
CONSTANTS
  r1 = r1
  r2 = r2
  HeaderOf <- TwoAnonymous
  NoCredential = NoCredential
  Anonymous = Anonymous
  Unreadable = Unreadable
  CharsPerToken = 4
  MinimumReservation = 3
  TimeoutOf <- DefaultTimeouts
  ClientTimeout = 5
  TicksPerSecond = 2
  Limit = 4
  NoOne = NoOne
  Threads = 2
  Requests = {r1, r2}
  Prompts <- AnyBodies
  Reports <- AnyReports
  Window = 1
  MaxClock = 2
INVARIANTS
  SettledOnEveryPath
