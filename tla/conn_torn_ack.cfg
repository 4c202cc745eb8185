CONSTANTS
  MaxSeq = 4
  MaxAcks = 1
  MaskBits = 2
  MaxBuffered = 4
  MaxRetries = 1
  InboxSize = 1
  RacyReads = TRUE
SPECIFICATION Spec
INVARIANT NoFalseAck
CHECK_DEADLOCK FALSE
