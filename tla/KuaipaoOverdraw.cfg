\* Up to two cards left, so debts of 0 to 4, and bombs of 10, against purses of up to 2 coins.
CONSTANTS
  BaseScore = 1
  EnterMin = 1
  FeeType = "ALLBASE"
  FeeValue = 10000
  PlayCardNum = 2
  MaxCoins = 2
  MaxTotal = 24
  MaxBombs = 1
  Changes <- LobbyTakes
SPECIFICATION KuaipaoSpec
INVARIANTS NobodyOverdrawn
CHECK_DEADLOCK FALSE
