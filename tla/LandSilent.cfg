CONSTANTS
  Deck <- LargeDeck
  RankOf <- LargeRanks
  NORMAL_COUNT = 2
  Deals <- LargeDeal
  BaseScore = 1
  NeedMarry = TRUE
  CardType <- TypeOfCards
  CompareCard <- Beats
  SearchOutCard <- Search
SPECIFICATION SilentSpec
PROPERTIES
  AutoAnswers
  RoundEnds
  KeepsPromise
