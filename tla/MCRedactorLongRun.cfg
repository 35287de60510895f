\* Cards of three digits, SSNs of one-digit groups: the hold is 5.
CONSTANTS
  MaxText <- LongRuns
  MaxDelta <- LongRuns
  MaxLocal = 1
  MaxLabel = 1
  MaxSubdomains = 0
  MinTld = 1
  MaxTld = 1
  CardHead = 2
  CardMin = 1
  CardMax = 1
  Ssn <- SsnGroups
SPECIFICATION Spec
CHECK_DEADLOCK FALSE
INVARIANT ByteIdentical
