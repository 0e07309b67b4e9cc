\* Stakes of 1 to 12 against purses of 3 to 6 coins: in full, short by any amount, and
\* empty purses all occur.  Half of a win is the fee.
CONSTANTS
  BaseScore = 1
  EnterMin = 2
  FeeType = "WIN"
  FeeValue = 5000
  PlayCardNum = 3
  MaxCoins = 4
  MaxTotal = 12
  MaxBombs = 1
  Changes <- LobbyChanges
SPECIFICATION LandSpec
INVARIANTS NobodyOverdrawn SettlementBalances OwedAtMost FarmersShareAlike
PROPERTIES PlayMintsNoCoins
CHECK_DEADLOCK FALSE
