CONSTANTS
  Player = {p1, p2}
  Room = {m}
  MarryRoom = {m}
  SeatNum = 2
  TableNum = 0
  EnterMin = 1
  EnterMax = 0
  SitDownMin = 0
  LimitEnter = TRUE
  MaxTables = 1
  MaxPurse = 1
  None = None
SPECIFICATION Spec
SYMMETRY Players
INVARIANTS PlacesAgree
CHECK_DEADLOCK FALSE
