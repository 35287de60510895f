\* Cards of three or four digits, SSNs of one-digit groups, addresses of one-letter labels: the hold is 7.
CONSTANTS
  MaxText <- EveryKind
  MaxDelta <- EveryCut
  MaxLocal = 1
  MaxLabel = 1
  MaxSubdomains = 1
  MinTld = 1
  MaxTld = 1
  CardHead = 2
  CardMin = 1
  CardMax = 2
  Ssn <- SsnGroups
SPECIFICATION Spec
CHECK_DEADLOCK FALSE
INVARIANTS ChunkingInvisible HoldsOneRun BufferBounded
