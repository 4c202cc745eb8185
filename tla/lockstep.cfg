CONSTANTS
  Players = {p1, p2}
  Batches = {c1}
  NoCmds = NoCmds
  NoHash = NoHash
  WindowSize = 2
  MaxAge = 1
  MaxTick = 4
SPECIFICATION Spec
INVARIANTS ExecutesLog VerdictSound
PROPERTIES VerdictFinal LogSpec
CHECK_DEADLOCK FALSE
