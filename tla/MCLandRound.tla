----------------------------- MODULE MCLandRound -----------------------------
(* Two tables.  The small one deals seven cards, two to a hand and one at the   *)
(* bottom, with a pair and the two jokers; the large one nine, two to a hand    *)
(* and three at the bottom, with a pair and a bomb.                             *)
EXTENDS LandTable, TLC

Hands(a, b, c) == [i \in Chair |-> <<a, b, c>>[i + 1]]

SmallRanks == <<3, 3, 4, 5, 6, 16, 17>>
SmallDeck  == 1..7
SmallDeal  == {Hands({1, 2}, {3, 6}, {4, 5})}

LargeRanks == <<3, 4, 5, 5, 6, 6, 6, 6, 8>>
LargeDeck  == 1..9
LargeDeal  == {Hands({3, 4}, {1, 9}, {2, 5})}

\* A chair may name any two cards.
Offers == {cards \in SUBSET Deck : Cardinality(cards) <= 2}

\* The rules, in tables: combining a function with the empty one makes TLC keep its values.
Types  == [cards \in SUBSET Deck |-> GetCardType(BagOf(cards))] @@ <<>>
Known  == {cards \in SUBSET Deck : Types[cards] # "CT_ERROR"}
Beaten == {pair \in Known \X Known : CompareRanks(BagOf(pair[1]), BagOf(pair[2]))}

TypeOfCards(cards) == Types[cards]
Beats(first, next) == <<first, next>> \in Beaten
Search(hand, turn) ==
  LET found == SearchOutRanks(BagOf(hand), BagOf(turn))
  IN  CHOOSE cards \in SUBSET hand : BagOf(cards) = found

\* Seats are alike up to rotation, so one chair stands for every client that misbehaves.
\* Chair 0 changes its mind about being ready and about playing itself at any moment, and
\* lets any turn run out.
Meddle == \E b \in BOOLEAN : PlayerReady(0, b) \/ PlayerSetAuto(0, b)
GetReady == \E c \in Chair : ~readyStatus[c] /\ PlayerReady(c, TRUE)
Play(c, bids, offers) ==
  \/ \E said \in bids : CallScore(c, said)
  \/ \E cards \in offers : OutCard(c, cards)
  \/ PassCard(c)

\* Prompt opponents: chairs 1 and 2 bid two or nothing, and answer in time with every move
\* they have.
PromptNext ==
  \/ Meddle \/ GetReady \/ ResetTable \/ Tick
  \/ \E c \in Chair : Play(c, IF c = 0 THEN 0..4 ELSE {0, 2}, Offers)
  \/ curUser \in {0, INVALID_CHAIR} /\ Elapse
PromptSpec == Init /\ [][PromptNext]_vars

\* Silent opponents: chairs 1 and 2 get ready and then leave every turn to the timer; chair 0
\* bids two or nothing, and is ready or not ready between rounds.
SilentNext ==
  \/ Tick \/ Elapse \/ ResetTable \/ Play(0, {0, 2}, SUBSET handCard[0])
  \/ \E b \in BOOLEAN : PlayerSetAuto(0, b)
  \/ gameState = "FREE" /\ (GetReady \/ PlayerReady(0, FALSE))

\* FairSpec: a tick is possible for ever only when the cool-down has run out, and time passes
\* until it has.
SilentSpec ==
  Init /\ [][SilentNext]_vars
  /\ WF_vars(Elapse) /\ WF_vars(TickStart \/ TickCall \/ TickPlay \/ TickEnd)
=============================================================================
