CONSTANTS
  MaxSeq = 4
  MaxAcks = 1
  MaskBits = 4
  MaxBuffered = 2
  MaxRetries = 1
  InboxSize = 1
  RacyReads = FALSE
SPECIFICATION Spec
INVARIANT NoSilentStall
CHECK_DEADLOCK FALSE
