CONSTANTS
  Player = {p1, p2}
  Room = {m, n}
  MarryRoom = {m}
  SeatNum = 2
  TableNum = 0
  EnterMin = 1
  EnterMax = 0
  SitDownMin = 0
  LimitEnter = FALSE
  MaxTables = 1
  MaxPurse = 1
  None = None
SPECIFICATION FairSeatedSpec
INVARIANTS RoomCounts WaitingSound TablesAccounted TableKnows
PROPERTIES RoundKeepsPlayers OneChairEach MarryTableReturns
CHECK_DEADLOCK FALSE
