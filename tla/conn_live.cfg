CONSTANTS
  MaxSeq = 3
  MaxAcks = 1
  MaskBits = 2
  MaxBuffered = 3
  MaxRetries = 1
  InboxSize = 1
  RacyReads = FALSE
SPECIFICATION FairSpec
INVARIANTS NoFalseAck NoSilentStall
PROPERTIES PendingDrains FilledGapDelivers
CHECK_DEADLOCK FALSE
