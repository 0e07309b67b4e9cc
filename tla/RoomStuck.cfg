CONSTANTS
  Player = {p1, p2}
  Room = {r}
  MarryRoom = {}
  SeatNum = 2
  TableNum = 1
  EnterMin = 1
  EnterMax = 0
  SitDownMin = 0
  LimitEnter = FALSE
  MaxTables = 1
  MaxPurse = 1
  None = None
SPECIFICATION SeatedSpec
INVARIANT FreeTableLetsGo
CHECK_DEADLOCK FALSE
