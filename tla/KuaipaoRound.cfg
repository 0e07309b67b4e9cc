\* One matching table and deals of six cards each.
CONSTANTS
  Deals <- MCDeals
  PlayCardNum = 6
  BaseScore = 1
  NeedMarry = TRUE
SPECIFICATION MCSpec
INVARIANTS BombBooks LeadTaken
PROPERTIES BombPaidOnce MustBeat RoundEnds
