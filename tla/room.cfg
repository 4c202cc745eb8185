CONSTANTS
  PlayerCount = 2
  MaxHistory = 3
  MaxIncremental = 2
  CleanupPeriod = 2
  Wrap = 64
  MaxTick = 5
  MaxCmds = 2
  MaxLimbo = 2
  Hashes = {h1}
  NoHash = NoHash
  WindowSize = 2
  MaxAge = 1
  RTTs = {0, 50, 400}
  TickInterval = 50
  InitialN = 3
  MinN = 2
  MaxN = 6
  Topics = {"frames", "hashes", "delays"}
  ReportTicks = 3
SPECIFICATION MCSpec
INVARIANTS CommandsExact HistorySuffix CaughtUp
  
CHECK_DEADLOCK FALSE
