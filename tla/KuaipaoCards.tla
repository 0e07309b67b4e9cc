----------------------------- MODULE KuaipaoCards -----------------------------
(***************************************************************************)
(* The rules of "pao de kuai" (CKuaipaoLogic): what a list of cards is,    *)
(* what beats what, and the plays the server finds for a chair.  The       *)
(* options are those CGameKuaipaoTable::Init sets: bombs may be split,     *)
(* four cards may take two or three more, and the last hand of a chair may *)
(* attach fewer cards to its triples than the rules ask for.               *)
(***************************************************************************)
EXTENDS Poker

\* Triples, the three best cards of a four included (SpiltBombToThree).
Triples(cards) == AtLeast(cards, 3)

\* GetThreeLine: how many triples follow one another, and the highest of them.  Of triples
\* that do not, two of three, or three of four or five, may still do.
GetThreeLine(cards) ==
  LET triples == Triples(cards)
      many    == Cardinality(triples)
      len     == IF many = 3 THEN 2 ELSE 3
      tops    == {t \in triples : Line(t, len) \subseteq triples}
      top     == Highest(triples)
  IN  IF IsLine(triples) THEN [len |-> many, top |-> top]
      ELSE IF top # Two /\ many \in 3..5 /\ tops # {} THEN [len |-> len, top |-> Highest(tops)]
      ELSE [len |-> 1, top |-> top]

\* Each triple takes two cards; attached triples may make the line look longer than it is.
IsThreeLine(cards, lastHand) ==
  /\ Triples(cards) # {}
  /\ LET len == GetThreeLine(cards).len
     IN  \/ lastHand /\ 5 * len >= Size(cards)
         \/ \E used \in 1..len : 5 * used = Size(cards)

\* Equal ranks, n cards of each, and nothing else.
IsLineOf(cards, n) == Held(cards) # {} /\ Held(cards) = Exactly(cards, n) /\ IsLine(Held(cards))

IsDoubleLine(cards) == IsLineOf(cards, 2)
IsSingleLine(cards) == IsLineOf(cards, 1) /\ Size(cards) >= 5

GetCardType(cards, lastHand) ==
  LET size == Size(cards)
      four == Cardinality(Exactly(cards, 4)) = 1
  IN  IF size = 1 THEN "CT_SINGLE"
      ELSE IF four /\ size = 4 THEN "CT_BOMB"
      ELSE IF four /\ size = 7 THEN "CT_FOUR_TAKE_THREE"
      ELSE IF four /\ size = 6 THEN "CT_FOUR_TAKE_TWO"
      ELSE IF size > 2 /\ IsThreeLine(cards, lastHand) THEN "CT_THREE_LINE_TAKE_DOUBLE"
      ELSE IF IsDoubleLine(cards) THEN "CT_DOUBLE_LINE"
      ELSE IF IsSingleLine(cards) THEN "CT_SINGLE_LINE"
      ELSE "CT_ERROR"

\* CompareCard of a play with the cards on the table, which are never a last hand.
CompareCard(first, next, lastHand) ==
  LET firstType == GetCardType(first, lastHand)
      nextType  == GetCardType(next, FALSE)
      line1     == GetThreeLine(first)
      line2     == GetThreeLine(next)
  IN  \/ firstType = "CT_BOMB" /\ nextType # "CT_BOMB"
      \/ /\ firstType = nextType /\ firstType # "CT_ERROR"
         /\ \/ Size(first) = Size(next)
            \/ firstType = "CT_THREE_LINE_TAKE_DOUBLE" /\ lastHand
         /\ \/ /\ firstType \in {"CT_SINGLE", "CT_SINGLE_LINE", "CT_DOUBLE_LINE", "CT_BOMB"}
               /\ Highest(Held(first)) > Highest(Held(next))
            \/ /\ firstType = "CT_THREE_LINE_TAKE_DOUBLE"
               /\ line1.len = line2.len /\ line1.top > line2.top
            \/ /\ firstType = "CT_FOUR_TAKE_THREE"
               /\ Highest(Exactly(first, 4)) > Highest(Exactly(next, 4))

\* What a play is made of: len ranks, n cards of each, the highest of them.  The search knows
\* no answer of its own to a four with two or three cards.
Shape(cards) ==
  LET type == GetCardType(cards, FALSE)
      size == Size(cards)
      line == GetThreeLine(cards)
      top  == Highest(Held(cards))
  IN  CASE type = "CT_SINGLE"      -> [len |-> 1, n |-> 1, top |-> top]
        [] type = "CT_SINGLE_LINE" -> [len |-> size, n |-> 1, top |-> top]
        [] type = "CT_DOUBLE_LINE" -> [len |-> size \div 2, n |-> 2, top |-> top]
        [] type = "CT_THREE_LINE_TAKE_DOUBLE" -> [len |-> line.len, n |-> 3, top |-> line.top]
        [] type = "CT_BOMB"        -> [len |-> 1, n |-> 4, top |-> top]
        [] OTHER                   -> [len |-> 1, n |-> 5, top |-> top]

\* A line taken from a hand, with the cards attached that make it a play of size cards.
TakeLine(hand, top, len, n, size) ==
  LET line == Copies(Line(top, len), n)
  IN  Plus(line, Attached(Minus(hand, line), size - len * n, FALSE))

\* SearchBombOutCard and the loops like it: the lowest of the ranks held n times or more.
SearchSame(hand, n, above) ==
  LET ranks == {r \in AtLeast(hand, n) : r > above}
  IN  IF ranks = {} THEN Empty ELSE Copies({Lowest(ranks)}, n)

\* SearchOutCard: the lowest line of the same shape that is higher, else the lowest bomb.
SearchOutCard(hand, turn) ==
  LET shape == Shape(turn)
      tops  == LineTops(hand, shape.len, shape.n, shape.top)
  IN  IF tops # {} /\ Size(hand) >= Size(turn)
      THEN TakeLine(hand, Lowest(tops), shape.len, shape.n, Size(turn))
      ELSE IF shape.n = 4 THEN Empty ELSE SearchSame(hand, 4, 0)

\* The leads SearchActionOutCard looks for, in this order: planes and a triple with two cards
\* each, lines of pairs, straights of more than five cards, a bomb, a pair.
Leads ==
  [i \in 1..3 |-> [len |-> 4 - i, n |-> 3]]
  \o [i \in 1..6 |-> [len |-> 8 - i, n |-> 2]]
  \o [i \in 1..11 |-> [len |-> 17 - i, n |-> 1]]
  \o <<[len |-> 1, n |-> 4], [len |-> 1, n |-> 2]>>

LeadSize(lead) == lead.len * (IF lead.n = 3 THEN 5 ELSE lead.n)

\* Straights are given up as soon as the highest card is a two.
CanLead(hand, lead) ==
  /\ Size(hand) >= LeadSize(lead)
  /\ lead.n = 1 => Two \notin Held(hand)
  /\ LineTops(hand, lead.len, lead.n, 0) # {}

\* MUTANT: the single card the next chair holds is forgotten.
SearchActionOutCardLow(hand, nextPlayerCardNum) ==
  LET found == {i \in DOMAIN Leads : CanLead(hand, Leads[i])}
      lead  == Leads[Lowest(found)]
      tops  == LineTops(hand, lead.len, lead.n, 0)
  IN  IF found # {} THEN TakeLine(hand, Lowest(tops), lead.len, lead.n, LeadSize(lead))
      ELSE Copies({Lowest(Held(hand))}, 1)

\* SearchActionOutCard; a single card only if nothing else is found, the highest one if the
\* next chair holds a single card.
SearchActionOutCard(hand, nextPlayerCardNum) ==
  LET found == {i \in DOMAIN Leads : CanLead(hand, Leads[i])}
      lead  == Leads[Lowest(found)]
      tops  == LineTops(hand, lead.len, lead.n, 0)
  IN  IF found # {} THEN TakeLine(hand, Lowest(tops), lead.len, lead.n, LeadSize(lead))
      ELSE IF nextPlayerCardNum = 1 THEN Copies({Highest(Held(hand))}, 1)
      ELSE Copies({Lowest(Held(hand))}, 1)
=============================================================================
