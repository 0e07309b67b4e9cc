------------------------------ MODULE LandCards ------------------------------
(***************************************************************************)
(* The rules of "dou di zhu" (CLandLogic): what a list of cards is, what   *)
(* beats what, and the answer the server finds for a chair it plays for.   *)
(***************************************************************************)
EXTENDS Poker

Missile == Copies({16, 17}, 1)      \* the two jokers

\* A four takes two cards, or two pairs, or none.
FourType(cards) ==
  IF Cardinality(Exactly(cards, 4)) # 1 THEN "CT_ERROR"
  ELSE IF Size(cards) = 4 THEN "CT_BOMB_CARD"
  ELSE IF Size(cards) = 6 THEN "CT_FOUR_TAKE_ONE"
  ELSE IF Size(cards) = 8 /\ Cardinality(Exactly(cards, 2)) = 2 THEN "CT_FOUR_TAKE_TWO"
  ELSE "CT_ERROR"

\* Each triple of a line takes nothing, a card, or a pair.
ThreeType(cards) ==
  LET triples == Exactly(cards, 3)
      many    == Cardinality(triples)
  IN  IF ~IsLine(triples) THEN "CT_ERROR"
      ELSE IF Size(cards) = 3 THEN "CT_THREE"
      ELSE IF Size(cards) = 3 * many THEN "CT_THREE_LINE"
      ELSE IF Size(cards) = 4 * many THEN "CT_THREE_TAKE_ONE"
      ELSE IF Size(cards) = 5 * many /\ Cardinality(Exactly(cards, 2)) = many
      THEN "CT_THREE_TAKE_TWO"
      ELSE "CT_ERROR"

\* Pairs or single cards and nothing else.
FlatType(cards) ==
  LET ranks == Held(cards)
      len   == Cardinality(ranks)
  IN  IF len = 1 /\ Size(cards) = 1 THEN "CT_SINGLE"
      ELSE IF len = 1 /\ Size(cards) = 2 THEN "CT_DOUBLE"
      ELSE IF cards = Missile THEN "CT_MISSILE_CARD"
      ELSE IF len >= 3 /\ ranks = Exactly(cards, 2) /\ IsLine(ranks) THEN "CT_DOUBLE_LINE"
      ELSE IF len >= 5 /\ ranks = Exactly(cards, 1) /\ IsLine(ranks) THEN "CT_SINGLE_LINE"
      ELSE "CT_ERROR"

GetCardType(cards) ==
  IF AtLeast(cards, 4) # {} THEN FourType(cards)
  ELSE IF AtLeast(cards, 3) # {} THEN ThreeType(cards)
  ELSE FlatType(cards)

\* What plays of one type are compared by: the highest of the ranks they hold most of.
Key(cards) == Highest(Exactly(cards, Highest({cards[r] : r \in Rank})))

\* CompareCard: does next beat first?  The jokers beat everything; a bomb beats all that is
\* not a bomb, the jokers included.
CompareRanks(first, next) ==
  LET firstType == GetCardType(first)
      nextType  == GetCardType(next)
  IN  /\ nextType # "CT_ERROR"
      /\ \/ nextType = "CT_MISSILE_CARD"
         \/ nextType = "CT_BOMB_CARD" /\ firstType # "CT_BOMB_CARD"
         \/ firstType = nextType /\ Size(first) = Size(next) /\ Key(next) > Key(first)

\* The pairs attached to triples: from pairs first, then from triples and fours, lowest first.
PairsAttached(cards, many) ==
  LET pairs == AtLeast(cards, 2)
  IN  Copies({r \in pairs :
               Cardinality({q \in pairs : AttachedBefore(cards, q, r, TRUE)}) < many}, 2)

\* MUTANT: a triple is not taken apart for a pair, nor a pair for a single card.
SearchSameWhole(hand, n, above) ==
  LET ranks == {r \in Exactly(hand, n) : r > above}
  IN  IF ranks = {} THEN Empty ELSE Copies({Lowest(ranks)}, n)

\* The lowest of the ranks the hand holds n cards of and no more, else n + 1, up to three.
SearchSame(hand, n, above) ==
  LET ranks(k) == {r \in Exactly(hand, k) : r > above}
      found    == {k \in n..3 : ranks(k) # {}}
  IN  IF found = {} THEN Empty ELSE Copies({Lowest(ranks(Lowest(found)))}, n)

\* A higher line of len ranks with n cards each, from the lowest up.
SearchLine(hand, len, n, above) ==
  LET tops == LineTops(hand, len, n, above)
  IN  IF tops = {} THEN Empty ELSE Copies(Line(Lowest(tops), len), n)

\* A higher line of triples with as many cards or pairs attached as it has triples.
SearchThreeLine(hand, turn, type) ==
  LET len      == Cardinality(Exactly(turn, 3))
      line(t)  == Copies(Line(t, len), 3)
      left(t)  == Minus(hand, line(t))
      taken(t) == CASE type = "CT_THREE_TAKE_ONE" -> Attached(left(t), len, TRUE)
                    [] type = "CT_THREE_TAKE_TWO" -> PairsAttached(left(t), len)
                    [] OTHER -> Empty
      tops     == {t \in LineTops(hand, len, 3, Key(turn)) :
                     3 * len + Size(taken(t)) = Size(turn)}
  IN  IF Size(hand) < Size(turn) \/ tops = {} THEN Empty
      ELSE Plus(line(Lowest(tops)), taken(Lowest(tops)))

\* The lowest higher bomb, then the jokers.
SearchBomb(hand, turn, type) ==
  LET bombs == {r \in Exactly(hand, 4) : type = "CT_BOMB_CARD" => r > Key(turn)}
  IN  IF bombs # {} /\ type # "CT_MISSILE_CARD" THEN Copies({Lowest(bombs)}, 4)
      ELSE IF Within(Missile, hand) THEN Missile
      ELSE Empty

\* SearchOutCard: an answer of the same type, else a bomb, else the jokers, else none.
SearchOutRanks(hand, turn) ==
  LET type  == GetCardType(turn)
      ranks == Cardinality(Held(turn))
      same  == CASE type \in {"CT_SINGLE", "CT_DOUBLE", "CT_THREE"} ->
                      SearchSame(hand, Size(turn), Key(turn))
                 [] type = "CT_SINGLE_LINE" -> SearchLine(hand, ranks, 1, Key(turn))
                 [] type = "CT_DOUBLE_LINE" -> SearchLine(hand, ranks, 2, Key(turn))
                 [] type \in {"CT_THREE_LINE", "CT_THREE_TAKE_ONE", "CT_THREE_TAKE_TWO"} ->
                      SearchThreeLine(hand, turn, type)
                 [] OTHER -> Empty
  IN  IF same # Empty THEN same ELSE SearchBomb(hand, turn, type)
=============================================================================
