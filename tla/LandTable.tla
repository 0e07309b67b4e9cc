------------------------------ MODULE LandTable ------------------------------
(***************************************************************************)
(* The landlord table with its rules: what LandRound takes as parameters   *)
(* is what LandCards says of the ranks of the cards.                       *)
(***************************************************************************)
EXTENDS LandRound, LandCards

CONSTANT RankOf      (* the rank of each card, in the order of SortCardList *)

\* How many cards of each rank there are among some.
BagOf(cards) == [r \in Rank |-> Cardinality({x \in cards : RankOf[x] = r})]

\* The cards come from one pack: four of a rank, one joker of each kind.
ASSUME PackAssumption ==
  /\ RankOf \in [Deck -> Rank]
  /\ \A r \in Rank : BagOf(Deck)[r] <= IF r > Two THEN 1 ELSE 4

\* The table goes by the rules: what cards are, whether some beat others, and what the server
\* plays for a chair, which are cards of its hand of the ranks that SearchOutRanks finds.
ASSUME RulesAssumption ==
  /\ \A cards \in SUBSET Deck : CardType(cards) = GetCardType(BagOf(cards))
  /\ \A turn \in SUBSET Deck :
       CardType(turn) # "CT_ERROR" =>
         /\ \A next \in SUBSET (Deck \ turn) :
              CardType(next) # "CT_ERROR" =>
                (CompareCard(turn, next) <=> CompareRanks(BagOf(turn), BagOf(next)))
         /\ \A hand \in SUBSET (Deck \ turn) :
              LET found == SearchOutRanks(BagOf(hand), BagOf(turn))
              IN  Within(found, BagOf(hand)) =>
                    /\ SearchOutCard(hand, turn) \subseteq hand
                    /\ BagOf(SearchOutCard(hand, turn)) = found
=============================================================================
