CONSTANTS
  Clients = {p1, p2}
  Names = {a}
  NoName = NoName
  Nobody = Nobody
  NoSeat = NoSeat
  PlayerCount = 1
  InboxSize = 1
  MaxRooms = 2
  MaxDown = 2
  MaxUp = 1
  AtomicAdd = TRUE
SPECIFICATION FairSpec
INVARIANTS TypeOK OneRoomPerName NothingLeftBehind RejectionMeant
PROPERTIES   PostsGetOn
CHECK_DEADLOCK FALSE
