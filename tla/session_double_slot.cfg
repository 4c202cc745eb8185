CONSTANTS
  Clients = {p1, p2}
  Names = {a}
  NoName = NoName
  Nobody = Nobody
  NoSeat = NoSeat
  PlayerCount = 1
  InboxSize = 1
  MaxRooms = 2
  MaxDown = 2
  MaxUp = 1
  AtomicAdd = FALSE
SPECIFICATION Spec
INVARIANT SlotOwned
CHECK_DEADLOCK FALSE
