CONSTANTS
  Deck <- SmallDeck
  RankOf <- SmallRanks
  NORMAL_COUNT = 2
  Deals <- SmallDeal
  BaseScore = 1
  NeedMarry = FALSE
  CardType <- TypeOfCards
  CompareCard <- Beats
  SearchOutCard <- Search
SPECIFICATION PromptSpec
INVARIANTS
  CardsDealtOnce
  TurnOrder
  PlaysCounted
  BidsInOrder
  RoundSettled
PROPERTIES
  PlayDiscipline
  NoRedealAfterBid
