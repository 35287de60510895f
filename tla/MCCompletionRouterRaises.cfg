SPECIFICATION Spec
CONSTANTS
  r1 = r1
  r2 = r2
  HeaderOf <- TwoAnonymous
  NoCredential = NoCredential
  Anonymous = Anonymous
  Unreadable = Unreadable
  CharsPerToken = 4
  MinimumReservation = 2
  TimeoutOf <- DefaultTimeouts
  ClientTimeout = 5
  TicksPerSecond = 2
  Limit = 4
  NoOne = NoOne
  Threads = 2
  Requests = {r1, r2}
  Prompts <- AnyBody
  Reports = {1}
  Window = 1
  MaxClock = 1
INVARIANTS
  RaisesGatewayErrorOnly
