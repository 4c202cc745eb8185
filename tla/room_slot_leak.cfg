CONSTANTS
  PlayerCount = 2
  MaxHistory = 2
  MaxIncremental = 2
  CleanupPeriod = 2
  Wrap = 64
  MaxTick = 3
  MaxCmds = 0
  MaxLimbo = 1
  Hashes = {}
  Topics = {"frames"}
  ReportTicks = 0
  NoHash = NoHash
  WindowSize = 2
  MaxAge = 1
  RTTs = {}
  TickInterval = 50
  InitialN = 3
  MinN = 2
  MaxN = 6
SPECIFICATION MCSpec
INVARIANT SlotReleased
CHECK_DEADLOCK FALSE
