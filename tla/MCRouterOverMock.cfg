SPECIFICATION SpecOverMock
CONSTANTS
  r1 = r1
  r2 = r2
  acme = acme
  HeaderOf <- OneTenant
  NoCredential = NoCredential
  Anonymous = Anonymous
  Unreadable = Unreadable
  CharsPerToken = 4
  MinimumReservation = 2
  TimeoutOf <- DefaultTimeouts
  ClientTimeout = 5
  TicksPerSecond = 2
  Limit = 4
  NoOne = NoOne
  Threads = 1
  Requests = {r1, r2}
  Prompts <- OneBody
  Scripts <- OneScriptEach
  Reports = {1}
  Window = 1
  MaxClock = 1
SYMMETRY RequestSymmetry
INVARIANTS
  FailoverMasksSaturation
