\* Bodies of one-byte characters: no line passes the cap, the chunks do.
CONSTANTS
  Bytes <- OneByteBytes
  MaxSent = 6
  MaxChunk = 3
  Cap = 5
SPECIFICATION Spec
CHECK_DEADLOCK FALSE
INVARIANT OnlyLongLinesFail
