CONSTANTS
  g1 = g1
  Lobby = {l1, l2}
  Game = {g1}
  Conn = {c1}
  Kind <- OneKind
  LoginKind = "land"
  Repair = {}
  Fragile = {}
  Central = {l1, l2}
  NullRead = {"goes on"}
  MaxLoads = 2
  MaxMsgs = 1
  Nobody = Nobody
SPECIFICATION PairSpec
CONSTRAINT OneLink
SYMMETRY Alike
INVARIANTS OneMaster LobbyKnows
