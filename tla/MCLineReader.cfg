\* Every body of six bytes, cut into chunks of up to three, with room for five characters.
CONSTANTS
  Bytes <- AllBytes
  MaxSent = 6
  MaxChunk = 3
  Cap = 5
SPECIFICATION Spec
CHECK_DEADLOCK FALSE
INVARIANTS NothingLostOrMoved PendingBounded
