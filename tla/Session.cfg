CONSTANTS
  g1 = g1
  Lobby = {l1}
  Game = {g1, g2}
  Conn = {c1, c2}
  Kind <- TwoKinds
  LoginKind = "land"
  Repair = {}
  Fragile <- SomeFragile
  Central = {}
  NullRead = {"dies"}
  MaxLoads = 3
  MaxMsgs = 1
  Nobody = Nobody
SPECIFICATION Spec
INVARIANTS SessionBound GsidNotStale
PROPERTY GhostsGo
