-------------------------------- MODULE Poker --------------------------------
(***************************************************************************)
(* Cards as the rules of both games see them: CPokerLogic and the helpers  *)
(* the two games share.  Suits only tell cards apart, so a list of cards   *)
(* is a bag of ranks: how many cards it holds of each rank.  Its sorted    *)
(* order, highest rank first, is the order of the ranks themselves.        *)
(***************************************************************************)
EXTENDS Integers, Sequences, FiniteSets

\* GetCardLogicValue: 3 to K, then 14 for the aces, 15 for the twos, 16 and 17 for the jokers.
Rank == 3..17
Two  == 15

Bag  == [Rank -> 0..4]
Empty == [r \in Rank |-> 0]

Lowest(S)  == CHOOSE x \in S : \A y \in S : x <= y
Highest(S) == CHOOSE x \in S : \A y \in S : x >= y

\* AnalysebCardData: the ranks held at all, in exactly n cards, in n cards or more.
Held(cards)       == {r \in Rank : cards[r] > 0}
Exactly(cards, n) == {r \in Rank : cards[r] = n}
AtLeast(cards, n) == {r \in Rank : cards[r] >= n}

\* How many cards there are, and the cards one by one: the i-th card of rank r is <<r, i>>.
Size(cards) ==
  cards[3] + cards[4] + cards[5] + cards[6] + cards[7] + cards[8] + cards[9] + cards[10]
  + cards[11] + cards[12] + cards[13] + cards[14] + cards[15] + cards[16] + cards[17]

Single(cards) == UNION {{r} \X (1..cards[r]) : r \in Rank}
ToBag(S)      == [r \in Rank |-> Cardinality({p \in S : p[1] = r})]
SubBags(cards) == {ToBag(S) : S \in SUBSET Single(cards)}

Within(part, cards) == \A r \in Rank : part[r] \in 0..cards[r]
Plus(a, b)  == [r \in Rank |-> a[r] + b[r]]
Minus(a, b) == [r \in Rank |-> a[r] - b[r]]
Copies(S, n) == [r \in Rank |-> IF r \in S THEN n ELSE 0]

\* Ranks that follow one another without a gap.
Line(top, len) == (top - len + 1)..top
Consecutive(S) == S = Lowest(S)..Highest(S)

\* The ranks a line of len ranks can end with, n cards of each, above a rank; a line of more
\* than one rank never reaches the twos.
LineTops(cards, len, n, above) ==
  {t \in AtLeast(cards, n) :
     t > above /\ (len > 1 => t < Two) /\ Line(t, len) \subseteq AtLeast(cards, n)}

\* Ranks without a gap, or a single rank; a line of them does not hold the two.
IsLine(ranks) == Cardinality(ranks) = 1 \/ (Consecutive(ranks) /\ Two \notin ranks)

\* The order in which cards are attached to triples: single cards first, then pairs, triples
\* and fours, each from the lowest rank up or from the highest down.
AttachedBefore(cards, a, b, lowFirst) ==
  cards[a] < cards[b] \/ (cards[a] = cards[b] /\ IF lowFirst THEN a < b ELSE a > b)

\* The first n cards in that order.
Attached(cards, n, lowFirst) ==
  IF n = 0 \/ cards = Empty THEN Empty
  ELSE [r \in Rank |->
         LET earlier == [q \in Rank |-> IF AttachedBefore(cards, q, r, lowFirst) THEN cards[q] ELSE 0]
             free    == n - Size(earlier)
         IN  IF free <= 0 THEN 0 ELSE IF free > cards[r] THEN cards[r] ELSE free]
=============================================================================
