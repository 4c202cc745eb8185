CONSTANTS
  Topics = {"hashes", "world", "numbers", "listener", "wire", "replay", "wrap"}
  Players = {p1, p2}
  Hashes = {h1, h2}
  NoHash = NoHash
  WindowSize = 2
  MaxAge = 1
  MaxTick = 5
  Width = 12
  Shift = 4
  PlayerCount = 2
  UnitsPerPlayer = 1
  MapSize = 6
  SpawnX = 1
  SpawnStep = 5
  RowStep = 3
  UnitHP = 16
  Speed = 24
  AttackDamage = 8
  AttackRange = 32
  Targets <- Corners
  MaxCmds = 2
  MaxOrders = 2
  TickWrap = 4
  MaxLag = 1
  Peers = {mover, other}
  Mover = mover
  Addrs = {a1, a2, b}
  FixedAddr = b
  AddrsOf <- MCAddrsOf
  IdWrap = 3
  MaxConns = 4
  MaxData = 1
  MaxStr = 3
  Buffer = 93
  CmdsInFrame = 4
  SnapshotBytes = 1
  MaxTicks = 2
  CmdsInRecord = 1
  SeqWrap = 16
  Mask = 3
  Ahead = 4
  MaxPackets = 36
  MaxOld = 6
SPECIFICATION MCSpec
INVARIANTS
  PartsTypeOK WindowExact VerdictExact
  InsideMap ReplicaFollows PlayersCommute SqrtExact
  FedByOpener StaleOnlyIfMoved SecondOnlyAfterRemoval
  WholeOrNothing ReadBack  
PROPERTIES TimeoutsFire MovesAsOrdered
CHECK_DEADLOCK FALSE
