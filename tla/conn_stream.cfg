CONSTANTS
  MaxSeq = 4
  MaxAcks = 1
  MaskBits = 2
  MaxBuffered = 2
  MaxRetries = 0
  InboxSize = 1
  RacyReads = TRUE
SPECIFICATION Spec
INVARIANTS InOrder AckRecordExact BufferBounded
PROPERTY StreamSpec
CHECK_DEADLOCK FALSE
