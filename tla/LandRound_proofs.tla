--------------------------- MODULE LandRound_proofs ---------------------------
(***************************************************************************)
(* What holds at a landlord table for every deck, deal, base score and     *)
(* card ranking.  Only ServerAnswers, at the end, is about the rules of    *)
(* LandCards; nothing before it uses what LandTable assumes.               *)
(***************************************************************************)
EXTENDS LandTable, Table_proofs

\* A turn passes to one of the other two chairs.
LEMMA NextChairType == \A c \in Chair : NextChair(c) \in Chair /\ NextChair(c) # c
BY DEF Chair, NextChair

\* Sets of cards that share none add up.
LEMMA DisjointUnion ==
  ASSUME NEW S, NEW T, IsFiniteSet(S), IsFiniteSet(T), S \cap T = {}
  PROVE  /\ IsFiniteSet(S \cup T)
         /\ Cardinality(S \cup T) = Cardinality(S) + Cardinality(T)
         /\ Cardinality(S) \in Nat /\ Cardinality(T) \in Nat
<1>1. /\ IsFiniteSet(S \cup T)
      /\ Cardinality(S \cup T) = Cardinality(S) + Cardinality(T) - Cardinality(S \cap T)
  BY FS_Union
<1>2. Cardinality(S \cap T) = 0 BY FS_EmptySet
<1>3. Cardinality(S) \in Nat /\ Cardinality(T) \in Nat BY FS_CardinalityType
<1>4. QED BY <1>1, <1>2, <1>3

-----------------------------------------------------------------------------
(* The inductive invariant.  Every step changes the round through one of   *)
(* seven operators; each is shown to keep the parts it can disturb.        *)

\* The parts of the state a chair's own settings do not touch.
RoundInv == CardsDealtOnce /\ TurnOrder /\ PlaysCounted /\ BidsInOrder /\ RoundSettled

RoundTypeOK ==
  /\ gameState \in GameStates
  /\ firstUser \in ChairOrNone /\ bankerUser \in ChairOrNone
  /\ curUser \in ChairOrNone /\ turnWiner \in ChairOrNone
  /\ callScore \in [Chair -> 0..MaxCallScore] /\ callCount \in 0..4
  /\ handCard \in [Chair -> SUBSET Deck] /\ bankerCard \in SUBSET Deck
  /\ turnCard \in SUBSET Deck
  /\ outCardCount \in [Chair -> Nat] /\ bombCount \in Nat
  /\ coolLogic \in {"fresh", "late", "out"}
  /\ gameOver \in [winner : ChairOrNone, banker : ChairOrNone, score : [Chair -> Int]]

SeatTypeOK ==
  /\ readyStatus \in [Chair -> BOOLEAN] /\ autoStatus \in [Chair -> BOOLEAN]
  /\ overTimes \in [Chair -> Nat]

Good == RoundTypeOK /\ RoundInv

\* The invariant is what the round needs of itself, and the types of the seats.
LEMMA GoodIsInv == IInv <=> Good /\ SeatTypeOK
BY DEF IInv, Good, TypeOK, RoundTypeOK, SeatTypeOK, RoundInv

\* A dealt hand holds cards, and every hand is a finite set.
LEMMA HandsFinite ==
  ASSUME Good PROVE \A c \in Chair : IsFiniteSet(handCard[c]) /\ Cardinality(handCard[c]) \in Nat
BY DeckAssumption, FS_Subset, FS_CardinalityType DEF Good, RoundTypeOK

\* OnGameStart leaves nobody without cards.
LEMMA DealtHandsHoldCards ==
  ASSUME Good, gameState = "CALL" PROVE \A c \in Chair : handCard[c] # {}
BY DeckAssumption, FS_EmptySet DEF Good, RoundInv, PlaysCounted

\* The table Init of CGameLandTable leaves satisfies the invariant.
THEOREM InitGood == Init => Good /\ SeatTypeOK
<1> SUFFICES ASSUME Init PROVE Good /\ SeatTypeOK OBVIOUS
<1> USE DEF Init, Zero, Nobody, NoCards, NoResult, ChairOrNone, GameStates
<1>1. RoundTypeOK BY DEF RoundTypeOK, MaxCallScore
<1>2. SeatTypeOK BY DEF SeatTypeOK
<1>3. RoundInv
  BY DEF RoundInv, CardsDealtOnce, TurnOrder, PlaysCounted, BidsInOrder, RoundSettled
<1>4. QED BY <1>1, <1>2, <1>3 DEF Good

\* A new deal: OnGameStart after the bids were forgotten.
LEMMA StartGood ==
  ASSUME Good,
         NEW first \in ChairOrNone, OnGameStart(first),
         bankerUser' = INVALID_CHAIR, callScore' = Zero, outCardCount' = Zero,
         bombCount' \in Nat, callCount' \in 0..4
  PROVE  Good'
<1> USE DEF Good
<1>1. PICK deal \in Deals, open \in Chair :
        LET start == IF first = INVALID_CHAIR THEN open ELSE first
        IN  /\ gameState' = "CALL"
            /\ firstUser' = start /\ curUser' = start
            /\ handCard' = deal
            /\ bankerCard' = Deck \ UNION {deal[c] : c \in Chair}
            /\ turnCard' = {} /\ turnWiner' = INVALID_CHAIR
            /\ coolLogic' = "fresh"
            /\ gameOver' = gameOver
  BY DEF OnGameStart
<1>2. curUser' \in Chair /\ firstUser' = curUser'
  BY <1>1 DEF ChairOrNone
<1>3. RoundTypeOK'
  BY <1>1, <1>2, DeckAssumption DEF RoundTypeOK, GameStates, ChairOrNone, Zero, MaxCallScore
<1>4. CardsDealtOnce' BY <1>1, DeckAssumption DEF CardsDealtOnce
<1>5. TurnOrder' BY <1>1, <1>2 DEF TurnOrder
<1>6. PlaysCounted' BY <1>1, DeckAssumption DEF PlaysCounted, Zero
<1>7. BidsInOrder' BY <1>1, <1>2, NextChairType DEF BidsInOrder, Zero
<1>8. RoundSettled' BY <1>1 DEF RoundSettled
<1>9. QED BY <1>3, <1>4, <1>5, <1>6, <1>7, <1>8 DEF RoundInv

\* A bid that leaves the bidding open.
LEMMA AskNextGood ==
  ASSUME Good, gameState = "CALL", NEW c \in Chair, c = curUser,
         NEW score \in 0..MaxCallScore, firstUser # NextChair(c),
         AskNext(c, [callScore EXCEPT ![c] = score])
  PROVE  Good'
<1> USE DEF Good, AskNext
<1>1. RoundTypeOK' BY NextChairType DEF RoundTypeOK, ChairOrNone
<1>2. CardsDealtOnce' BY DEF RoundInv, CardsDealtOnce
<1>3. TurnOrder' BY NextChairType DEF RoundInv, TurnOrder
<1>4. PlaysCounted' BY DEF RoundInv, PlaysCounted
<1>5. BidsInOrder'
  BY DEF RoundInv, RoundTypeOK, BidsInOrder, TurnOrder, NextChair, Chair, Zero
<1>6. RoundSettled' BY DEF RoundInv, RoundSettled
<1>7. QED BY <1>1, <1>2, <1>3, <1>4, <1>5, <1>6 DEF RoundInv

\* The end of the bidding.
LEMMA BecomeBankerGood ==
  ASSUME Good, gameState = "CALL", NEW b \in Chair,
         NEW bids \in [Chair -> 0..MaxCallScore], bids[b] > 0, BecomeBanker(b, bids)
  PROVE  Good'
<1> USE DEF Good, BecomeBanker
<1>1. RoundTypeOK' BY DEF RoundTypeOK, ChairOrNone, GameStates
<1>2. CardsDealtOnce' BY DEF RoundInv, RoundTypeOK, CardsDealtOnce, BidsInOrder
<1>3. TurnOrder'
  BY DealtHandsHoldCards DEF RoundInv, RoundTypeOK, TurnOrder, BidsInOrder
<1>4. PlaysCounted'
  <2>1. IsFiniteSet(handCard[b]) /\ IsFiniteSet(bankerCard)
    BY HandsFinite, DeckAssumption, FS_Subset DEF RoundTypeOK
  <2>2. handCard[b] \cap bankerCard = {} BY DEF RoundInv, CardsDealtOnce
  <2>3. Cardinality(handCard[b] \cup bankerCard)
          = Cardinality(handCard[b]) + Cardinality(bankerCard)
    BY <2>1, <2>2, DisjointUnion
  <2>4. outCardCount' = Zero BY DEF RoundInv, BidsInOrder
  <2>5. \A c \in Chair : Cardinality(handCard[c]) = NORMAL_COUNT
    BY DEF RoundInv, PlaysCounted
  <2>6. \A c \in Chair :
          handCard'[c] = IF c = b THEN handCard[b] \cup bankerCard ELSE handCard[c]
    BY DEF RoundTypeOK
  <2>7. NORMAL_COUNT \in Nat BY DeckAssumption
  <2>8. \A c \in Chair :
          /\ outCardCount'[c] = 0
          /\ Cardinality(handCard'[c]) =
               NORMAL_COUNT + (IF c = b THEN Cardinality(bankerCard) ELSE 0)
    <3>1. TAKE c \in Chair
    <3>2. outCardCount'[c] = 0 BY <2>4 DEF Zero
    <3>3. CASE c = b BY <2>3, <2>5, <2>6, <3>2, <3>3
    <3>4. CASE c # b BY <2>5, <2>6, <2>7, <3>2, <3>4
    <3>5. QED BY <3>3, <3>4
  <2>9. gameState' = "PLAY" /\ bankerUser' = b /\ bankerCard' = bankerCard OBVIOUS
  <2>10. Cardinality(bankerCard) \in Nat BY <2>1, FS_CardinalityType
  <2> HIDE DEF BecomeBanker, Good
  <2>11. \A c \in Chair :
           Share(c)' = NORMAL_COUNT + (IF c = b THEN Cardinality(bankerCard) ELSE 0)
    BY <2>9 DEF Share
  <2>12. \A c \in Chair :
           /\ outCardCount'[c] = 0 => Cardinality(handCard'[c]) = Share(c)'
           /\ outCardCount'[c] <= Share(c)' - Cardinality(handCard'[c])
    BY <2>7, <2>8, <2>10, <2>11
  <2>13. QED BY <2>9, <2>12 DEF PlaysCounted
<1>5. BidsInOrder' BY DEF RoundInv, BidsInOrder
<1>6. RoundSettled' BY DEF RoundInv, RoundSettled
<1>7. QED BY <1>1, <1>2, <1>3, <1>4, <1>5, <1>6 DEF RoundInv

\* What ResetGameData leaves of the bids and the counters.
LEMMA ResetBidsFacts ==
  ResetBids => /\ bankerUser' = INVALID_CHAIR
               /\ callScore' = Zero /\ outCardCount' = Zero /\ bombCount' \in Nat
BY DEF ResetBids

\* Every outcome of a bid, the chair's own or the one the timer makes for it.
LEMMA UserCallScoreGood ==
  ASSUME Good, gameState = "CALL", NEW c \in Chair, NEW said \in Nat, UserCallScore(c, said)
  PROVE  Good'
<1> DEFINE score == IF said > MaxCallScore THEN 0 ELSE said
           bids  == [callScore EXCEPT ![c] = score]
           last  == firstUser = NextChair(c)
<1>1. score \in 0..MaxCallScore BY DEF MaxCallScore
<1>2. bids \in [Chair -> 0..MaxCallScore] /\ bids[c] = score
  BY <1>1 DEF Good, RoundTypeOK
<1>3. firstUser \in Chair /\ c = curUser
  BY DEF Good, RoundInv, TurnOrder, UserCallScore
<1>4. CASE score # MaxCallScore /\ ~last /\ AskNext(c, bids)
  BY <1>1, <1>3, <1>4, AskNextGood
<1>5. CASE (score = MaxCallScore \/ (last /\ score # 0)) /\ BecomeBanker(c, bids)
  <2>1. bids[c] > 0 BY <1>1, <1>2, <1>5 DEF MaxCallScore
  <2> HIDE DEF bids
  <2>2. QED BY <1>2, <1>5, <2>1, BecomeBankerGood
<1>6. ASSUME NEW b \in Chair, IsTopBid(bids, b), BecomeBanker(b, bids) PROVE Good'
  <2>1. bids[b] > 0 BY <1>6 DEF IsTopBid
  <2> HIDE DEF bids
  <2>2. QED BY <1>2, <1>6, <2>1, BecomeBankerGood
<1>7. CASE last /\ NoBid(bids) /\ callCount <= 3 /\ ReGameStart
  <2>1. callCount' \in 0..4 BY <1>7 DEF Good, RoundTypeOK, ReGameStart
  <2>2. NextChair(firstUser) \in ChairOrNone BY <1>3, NextChairType DEF ChairOrNone
  <2>3. QED BY <1>7, <2>1, <2>2, ResetBidsFacts, StartGood DEF ReGameStart
<1>8. CASE last /\ NoBid(bids) /\ callCount > 3
            /\ BecomeBanker(firstUser, [bids EXCEPT ![firstUser] = 1])
  <2>1. [bids EXCEPT ![firstUser] = 1] \in [Chair -> 0..MaxCallScore]
    BY <1>2, <1>3 DEF MaxCallScore
  <2>2. [bids EXCEPT ![firstUser] = 1][firstUser] > 0 BY <1>2, <1>3
  <2> HIDE DEF bids
  <2>3. QED BY <1>3, <1>8, <2>1, <2>2, BecomeBankerGood
<1>9. QED BY <1>4, <1>5, <1>6, <1>7, <1>8 DEF UserCallScore

\* The end of a round.
LEMMA OnGameEndGood ==
  ASSUME Good, gameState = "PLAY", NEW c \in Chair, NEW bombs \in Nat, OnGameEnd(c, bombs)
  PROVE  Good'
<1> USE DEF Good, OnGameEnd, ResetBids
<1> DEFINE stake == Stake(c, bombs)
           top   == MaxBeiShu * BaseScore
<1>1. stake \in 0..top /\ (BaseScore > 0 => stake > 0)
  <2>1. bankerUser \in Chair /\ callScore[bankerUser] \in 1..3
    BY DEF RoundInv, RoundTypeOK, TurnOrder, MaxCallScore
  <2>2. Spring(c) \in BOOLEAN BY DEF Spring
  <2>3. PICK t \in 1..MaxBeiShu : stake = BaseScore * t
    BY <2>1, <2>2, ScoreTimesBound DEF Stake
  <2>4. QED BY <2>3, ConfAssumption DEF MaxBeiShu
<1>2. bankerUser \in Chair BY DEF RoundInv, TurnOrder
<1> HIDE DEF stake
<1>3. stake \in Nat /\ top \in Nat BY <1>1, ConfAssumption DEF MaxBeiShu
<1>4. gameOver' = [winner |-> c, banker |-> bankerUser,
                   score |-> CalcScore(c, bankerUser, stake)]
  BY DEF stake
<1>5. RoundTypeOK'
  BY <1>2, <1>3, <1>4, CalcScoreBalanced
  DEF Balanced, RoundTypeOK, ChairOrNone, GameStates, Zero, NoCards, MaxCallScore
<1>6. CardsDealtOnce' BY DEF CardsDealtOnce, NoCards
<1>7. TurnOrder' BY DEF TurnOrder
<1>8. PlaysCounted' BY DEF PlaysCounted
<1>9. BidsInOrder' BY DEF BidsInOrder, NoCards
<1>10. RoundSettled'
  <2> DEFINE s == CalcScore(c, bankerUser, stake)
  <2>1. Balanced(s, c, bankerUser, stake) BY <1>2, <1>3, CalcScoreBalanced
  <2> HIDE DEF s
  <2>2. gameOver'.winner = c /\ gameOver'.banker = bankerUser /\ gameOver'.score = s
    BY <1>4 DEF s
  <2>3. 2 * MaxBeiShu * BaseScore = 2 * top BY ConfAssumption DEF MaxBeiShu
  <2>4. \A d \in Chair : s[d] \in -(2 * top)..(2 * top)
    BY <1>1, <1>3, <2>1 DEF Balanced
  <2> HIDE DEF top
  <2>5. QED BY <1>1, <1>2, <2>1, <2>2, <2>3, <2>4 DEF RoundSettled, Balanced, ChairOrNone
<1>11. QED BY <1>5, <1>6, <1>7, <1>8, <1>9, <1>10 DEF RoundInv

\* A play, whether it ends the round or not.
LEMMA UserOutCardGood ==
  ASSUME Good, gameState = "PLAY", NEW c \in Chair, NEW cards \in SUBSET Deck,
         UserOutCard(c, cards)
  PROVE  Good'
<1> USE DEF Good
<1> DEFINE bombs == IF IsBomb(cards) THEN bombCount + 1 ELSE bombCount
<1>1. bombs \in Nat BY DEF RoundTypeOK
<1>2. c = curUser /\ cards \subseteq handCard[c] /\ cards # {}
  BY CardTypeAssumption DEF UserOutCard, CanOutCard
<1>3. CASE OnGameEnd(c, bombs)
  <2> HIDE DEF bombs, Good
  <2>1. QED BY <1>1, <1>3, OnGameEndGood
<1>4. CASE /\ cards # handCard[c]
           /\ handCard' = [handCard EXCEPT ![c] = @ \ cards]
           /\ turnCard' = cards /\ turnWiner' = c
           /\ outCardCount' = [outCardCount EXCEPT ![c] = @ + 1]
           /\ bombCount' = bombs
           /\ curUser' = NextChair(c)
           /\ coolLogic' = "fresh"
           /\ UNCHANGED <<gameState, firstUser, bankerUser, callScore, callCount,
                          bankerCard, gameOver>>
  <2> HIDE DEF bombs
  <2>1. RoundTypeOK' BY <1>1, <1>2, <1>4, NextChairType DEF RoundTypeOK, ChairOrNone
  <2>2. CardsDealtOnce' BY <1>2, <1>4 DEF RoundInv, RoundTypeOK, CardsDealtOnce
  <2>3. TurnOrder' BY <1>2, <1>4, NextChairType DEF RoundInv, RoundTypeOK, TurnOrder
  <2>4. PlaysCounted'
    <3>1. \A x \in Chair :
            /\ Cardinality(handCard[x]) \in Nat /\ outCardCount[x] \in Nat
            /\ Share(x)' = Share(x) /\ Share(x) \in Nat
            /\ outCardCount[x] = 0 => Cardinality(handCard[x]) = Share(x)
            /\ outCardCount[x] <= Share(x) - Cardinality(handCard[x])
      <4>1. NORMAL_COUNT \in Nat /\ Cardinality(bankerCard) \in Nat
        BY DeckAssumption, FS_Subset, FS_CardinalityType DEF RoundTypeOK
      <4>2. \A x \in Chair : Share(x)' = Share(x) /\ Share(x) \in Nat
        BY <1>4, <4>1 DEF Share
      <4>3. \A x \in Chair : Cardinality(handCard[x]) \in Nat /\ outCardCount[x] \in Nat
        BY HandsFinite DEF RoundTypeOK
      <4>4. QED BY <4>2, <4>3 DEF RoundInv, PlaysCounted
    <3>2. /\ Cardinality(handCard[c] \ cards) \in Nat
          /\ Cardinality(handCard[c] \ cards) < Cardinality(handCard[c])
      <4>1. IsFiniteSet(handCard[c]) BY HandsFinite
      <4>2. handCard[c] \ cards \in SUBSET handCard[c] /\ handCard[c] \ cards # handCard[c]
        BY <1>2
      <4> HIDE DEF Good
      <4>3. QED BY <4>1, <4>2, FS_Subset, FS_CardinalityType
    <3>3. \A x \in Chair :
            /\ handCard'[x] = IF x = c THEN handCard[c] \ cards ELSE handCard[x]
            /\ outCardCount'[x] = IF x = c THEN outCardCount[c] + 1 ELSE outCardCount[x]
      BY <1>4 DEF RoundTypeOK
    <3>4. \A x \in Chair :
            /\ outCardCount'[x] = 0 => Cardinality(handCard'[x]) = Share(x)'
            /\ outCardCount'[x] <= Share(x)' - Cardinality(handCard'[x])
      <4>1. TAKE x \in Chair
      <4>2. CASE x = c
        <5>1. /\ Cardinality(handCard'[x]) = Cardinality(handCard[c] \ cards)
              /\ outCardCount'[x] = outCardCount[c] + 1
          BY <3>3, <4>2
        <5>2. /\ Cardinality(handCard[c]) \in Nat /\ outCardCount[c] \in Nat
              /\ Share(x)' = Share(c) /\ Share(c) \in Nat
              /\ outCardCount[c] <= Share(c) - Cardinality(handCard[c])
          BY <3>1, <4>2
        <5>3. QED BY <3>2, <5>1, <5>2
      <4>3. CASE x # c BY <3>1, <3>3, <4>3
      <4>4. QED BY <4>2, <4>3
    <3>5. QED BY <1>4, <3>4 DEF PlaysCounted
  <2>5. BidsInOrder' BY <1>4 DEF RoundInv, BidsInOrder
  <2>6. RoundSettled' BY <1>4 DEF RoundInv, RoundSettled
  <2>7. QED BY <2>1, <2>2, <2>3, <2>4, <2>5, <2>6 DEF RoundInv
<1>5. QED BY <1>3, <1>4 DEF UserOutCard

\* A pass.
LEMMA UserPassCardGood ==
  ASSUME Good, gameState = "PLAY", NEW c \in Chair, UserPassCard(c)
  PROVE  Good'
<1> USE DEF Good, UserPassCard
<1>1. RoundTypeOK' BY NextChairType DEF RoundTypeOK, ChairOrNone, TurnCardAfterPass
<1>2. CardsDealtOnce' BY DEF RoundInv, CardsDealtOnce, TurnCardAfterPass
<1>3. TurnOrder' BY NextChairType DEF RoundInv, TurnOrder, TurnCardAfterPass
<1>4. PlaysCounted' BY DEF RoundInv, PlaysCounted, Share
<1>5. BidsInOrder' BY DEF RoundInv, BidsInOrder
<1>6. RoundSettled' BY DEF RoundInv, RoundSettled
<1>7. QED BY <1>1, <1>2, <1>3, <1>4, <1>5, <1>6 DEF RoundInv

\* Steps of the players' settings and of time leave the round alone.
LEMMA RoundUnchangedGood ==
  ASSUME Good, UNCHANGED <<gameState, roundVars>>, coolLogic' \in {"fresh", "late", "out"}
  PROVE  Good'
BY DEF Good, roundVars, RoundTypeOK, RoundInv, CardsDealtOnce, TurnOrder, PlaysCounted, Share,
       BidsInOrder, RoundSettled

\* Leaving the settlement, or emptying the table, ends in a state with no cards in play.
LEMMA RestingGood ==
  ASSUME Good, gameState' \in {"FREE", "RECYCLE"},
         firstUser' = firstUser, callCount' = callCount,
         bankerUser' = INVALID_CHAIR, curUser' \in ChairOrNone, turnWiner' \in ChairOrNone,
         callScore' = Zero, outCardCount' = Zero, bombCount' \in Nat,
         handCard' = NoCards, turnCard' \in SUBSET Deck,
         bankerCard' \in SUBSET Deck, coolLogic' \in {"fresh", "late", "out"},
         gameOver' \in {gameOver, NoResult}
  PROVE  Good'
<1> USE DEF Good
<1>1. RoundTypeOK'
  BY DEF RoundTypeOK, GameStates, Zero, MaxCallScore, NoCards, NoResult, ChairOrNone
<1>2. CardsDealtOnce' BY DEF RoundInv, CardsDealtOnce, NoCards
<1>3. TurnOrder' /\ PlaysCounted' /\ BidsInOrder' /\ RoundSettled'
  BY DEF TurnOrder, PlaysCounted, BidsInOrder, RoundSettled
<1>4. QED BY <1>1, <1>2, <1>3 DEF RoundInv

-----------------------------------------------------------------------------
(* Every step of the table, seen as one of the operators above.            *)

\* No message of OnGameMessage, PlayerReady or PlayerSetAuto breaks the round.
LEMMA ClientGood == ASSUME Good, Client PROVE Good'
<1>1. PICK c \in Chair :
        \/ \E said \in 0..4 : CallScore(c, said)
        \/ \E cards \in SUBSET Deck : OutCard(c, cards)
        \/ PassCard(c)
        \/ \E b \in BOOLEAN : PlayerReady(c, b) \/ PlayerSetAuto(c, b)
  BY DEF Client
<1>2. ASSUME NEW said \in 0..4, CallScore(c, said) PROVE Good'
  BY <1>2, UserCallScoreGood DEF CallScore
<1>3. ASSUME NEW cards \in SUBSET Deck, OutCard(c, cards) PROVE Good'
  BY <1>3, UserOutCardGood DEF OutCard
<1>4. CASE PassCard(c) BY <1>4, UserPassCardGood DEF PassCard
<1>5. ASSUME NEW b \in BOOLEAN, PlayerReady(c, b) \/ PlayerSetAuto(c, b) PROVE Good'
  BY <1>5, RoundUnchangedGood DEF PlayerReady, PlayerSetAuto, Good, RoundTypeOK
<1>6. QED BY <1>1, <1>2, <1>3, <1>4, <1>5

\* Nor does the room when it takes the table back (ResetTable).
LEMMA ResetTableGood == ASSUME Good, ResetTable PROVE Good'
<1>1. gameOver' = gameOver /\ coolLogic' = coolLogic BY DEF ResetTable
<1>2. coolLogic \in {"fresh", "late", "out"} BY DEF Good, RoundTypeOK
<1>3. QED BY <1>1, <1>2, RestingGood DEF ResetTable, ResetBids, ChairOrNone

\* What the timer does for a chair in play is a move the chair could have made.
LEMMA TimedMove ==
  ASSUME TickPlay \/ TickAuto, curUser \in Chair, handCard[curUser] \subseteq Deck
  PROVE  \/ UserPassCard(curUser)
         \/ \E cards \in SUBSET Deck : UserOutCard(curUser, cards)
<1>1. ASSUME LeadLowest(curUser) PROVE \E cards \in SUBSET Deck : UserOutCard(curUser, cards)
  BY <1>1 DEF LeadLowest
<1>2. ASSUME NEW cards, UserOutCard(curUser, cards) PROVE cards \in SUBSET Deck
  BY <1>2 DEF UserOutCard, CanOutCard
<1>3. ASSUME AutoCard(curUser)
      PROVE  \/ UserPassCard(curUser)
             \/ \E cards \in SUBSET Deck : UserOutCard(curUser, cards)
  BY <1>1, <1>2, <1>3 DEF AutoCard
<1>4. CASE TickPlay BY <1>1, <1>4 DEF TickPlay
<1>5. CASE TickAuto BY <1>3, <1>5 DEF TickAuto
<1>6. QED BY <1>4, <1>5

\* Nor does OnTimeTick, whichever branch it takes.
LEMMA TickGood == ASSUME Good, Tick PROVE Good'
<1>1. CASE TickStart
  <2>1. callScore = Zero /\ outCardCount = Zero /\ bankerUser = INVALID_CHAIR
    BY <1>1 DEF TickStart, Good, RoundInv, BidsInOrder
  <2>2. firstUser \in ChairOrNone /\ bombCount \in Nat /\ callCount \in 0..4
    BY DEF Good, RoundTypeOK
  <2>3. QED BY <1>1, <2>1, <2>2, StartGood DEF TickStart
<1>2. CASE TickCall
  <2>1. curUser \in Chair BY <1>2 DEF TickCall, Good, RoundInv, TurnOrder
  <2>2. QED BY <1>2, <2>1, UserCallScoreGood DEF TickCall
<1>3. CASE TickPlay \/ TickAuto
  <2>1. gameState = "PLAY" BY <1>3 DEF TickPlay, TickAuto
  <2>2. curUser \in Chair /\ handCard[curUser] \subseteq Deck
    BY <2>1 DEF Good, RoundInv, RoundTypeOK, TurnOrder
  <2>3. \/ UserPassCard(curUser)
        \/ \E cards \in SUBSET Deck : UserOutCard(curUser, cards)
    BY <1>3, <2>2, TimedMove
  <2>4. QED BY <2>1, <2>2, <2>3, UserPassCardGood, UserOutCardGood
<1>4. CASE TickMark
  BY <1>4, RoundUnchangedGood DEF TickMark, Good, RoundTypeOK
<1>5. CASE TickEnd
  <2>1. /\ callScore = Zero /\ outCardCount = Zero /\ handCard = NoCards
        /\ bankerUser = INVALID_CHAIR /\ curUser \in ChairOrNone /\ turnWiner \in ChairOrNone
        /\ bombCount \in Nat /\ bankerCard \in SUBSET Deck /\ turnCard \in SUBSET Deck
    BY <1>5 DEF TickEnd, Good, RoundInv, BidsInOrder, RoundTypeOK
  <2>2. gameState' \in {"FREE", "RECYCLE"} BY <1>5 DEF TickEnd
  <2>3. /\ firstUser' = firstUser /\ callCount' = callCount
        /\ bankerUser' = bankerUser /\ curUser' = curUser /\ turnWiner' = turnWiner
        /\ callScore' = callScore /\ outCardCount' = outCardCount /\ bombCount' = bombCount
        /\ handCard' = handCard /\ turnCard' = turnCard /\ bankerCard' = bankerCard
        /\ coolLogic' = "fresh" /\ gameOver' = NoResult
    BY <1>5 DEF TickEnd
  <2>4. QED BY <2>1, <2>2, <2>3, RestingGood
<1>6. QED BY <1>1, <1>2, <1>3, <1>4, <1>5 DEF Tick

\* So no step does.
LEMMA NextGood == ASSUME Good, [Next]_vars PROVE Good'
<1>1. coolLogic \in {"fresh", "late", "out"} BY DEF Good, RoundTypeOK
<1>2. CASE Elapse BY <1>1, <1>2, RoundUnchangedGood DEF Elapse
<1>3. CASE UNCHANGED vars BY <1>1, <1>3, RoundUnchangedGood DEF vars
<1>4. QED BY <1>2, <1>3, ClientGood, ResetTableGood, TickGood DEF Next

\* The seats keep their types across a play and the end of a round.
LEMMA SeatsAfterType ==
  ASSUME SeatTypeOK, NEW auto \in [Chair -> BOOLEAN], NEW times \in [Chair -> Nat],
         SeatsAfter(auto, times)
  PROVE  SeatTypeOK'
<1>1. /\ Zero \in [Chair -> Nat] /\ Nobody \in [Chair -> BOOLEAN]
      /\ autoStatus \in [Chair -> BOOLEAN] /\ readyStatus \in [Chair -> BOOLEAN]
  BY DEF Zero, Nobody, SeatTypeOK
<1>2. CASE gameState' = "GAME_END" BY <1>1, <1>2 DEF SeatTypeOK, SeatsAfter
<1>3. CASE gameState' # "GAME_END" BY <1>1, <1>3 DEF SeatTypeOK, SeatsAfter
<1>4. QED BY <1>2, <1>3

\* The mark of OnTimeTick for the chair that let two turns run out is a flag.
LEMMA MarkAutoType ==
  ASSUME NEW auto \in [Chair -> BOOLEAN], NEW times, NEW c
  PROVE  MarkAuto(auto, times, c) \in [Chair -> BOOLEAN]
<1>1. \A x \in Chair : (auto[x] \/ (x = c /\ times[x] = 2)) \in BOOLEAN OBVIOUS
<1>2. QED BY <1>1, Zenon DEF MarkAuto

\* The settings of the seats keep their types, whatever the clients and the timer do.
LEMMA SeatsTyped == ASSUME Good, SeatTypeOK, [Next]_vars PROVE SeatTypeOK'
<1>1. ASSUME NEW times \in [Chair -> Nat], SeatsAfterTick(times) PROVE SeatTypeOK'
  <2> DEFINE auto == IF gameState' = "PLAY" THEN MarkAuto(autoStatus, times, curUser')
                     ELSE autoStatus
  <2>1. autoStatus \in [Chair -> BOOLEAN] BY DEF SeatTypeOK
  <2>2. auto \in [Chair -> BOOLEAN] BY <2>1, MarkAutoType
  <2>3. SeatsAfter(auto, times) BY <1>1 DEF SeatsAfterTick
  <2> HIDE DEF auto
  <2>4. QED BY <2>2, <2>3, SeatsAfterType
<1>2. ASSUME UNCHANGED seatVars PROVE SeatTypeOK' BY <1>2 DEF seatVars, SeatTypeOK
<1>3. CASE Client
  <2>1. ASSUME NEW c \in Chair, NEW cards, OutCard(c, cards) PROVE SeatTypeOK'
    BY <2>1, SeatsAfterType DEF OutCard, SeatTypeOK
  <2>2. ASSUME NEW c \in Chair, NEW b \in BOOLEAN, PlayerReady(c, b) \/ PlayerSetAuto(c, b)
        PROVE  SeatTypeOK'
    <3>1. \A f \in [Chair -> BOOLEAN], v \in BOOLEAN :
            [f EXCEPT ![c] = v] \in [Chair -> BOOLEAN]
      BY Zenon
    <3>2. [overTimes EXCEPT ![c] = 0] \in [Chair -> Nat] BY DEF SeatTypeOK
    <3>3. overTimes' \in [Chair -> Nat] BY <2>2, <3>2 DEF PlayerReady, PlayerSetAuto
    <3>4. readyStatus' \in [Chair -> BOOLEAN]
      BY <2>2, <3>1 DEF PlayerReady, PlayerSetAuto, SeatTypeOK
    <3>5. autoStatus' \in [Chair -> BOOLEAN]
      BY <2>2, <3>1 DEF PlayerReady, PlayerSetAuto, SeatTypeOK
    <3>6. QED BY <3>3, <3>4, <3>5 DEF SeatTypeOK
  <2>3. QED BY <1>2, <1>3, <2>1, <2>2 DEF Client, CallScore, PassCard
<1>4. CASE ResetTable BY <1>4 DEF ResetTable, SeatTypeOK, Nobody, Zero
<1>5. CASE TickStart \/ TickEnd \/ Elapse BY <1>2, <1>5 DEF TickStart, TickEnd, Elapse, seatVars
<1>6. CASE TickCall BY <1>1, <1>6 DEF TickCall, SeatTypeOK
<1>7. CASE TickPlay
  <2>1. curUser \in Chair BY <1>7 DEF TickPlay, Good, RoundInv, TurnOrder
  <2>2. [overTimes EXCEPT ![curUser] = @ + 1] \in [Chair -> Nat] BY <2>1 DEF SeatTypeOK
  <2>3. QED BY <1>1, <1>7, <2>2 DEF TickPlay
<1>8. CASE TickAuto
  <2>1. MarkAuto(autoStatus, overTimes, curUser) \in [Chair -> BOOLEAN]
    BY MarkAutoType DEF SeatTypeOK
  <2>2. QED BY <1>8, <2>1, SeatsAfterType DEF TickAuto, SeatTypeOK
<1>9. CASE TickMark
  <2>1. MarkAuto(autoStatus, overTimes, curUser) \in [Chair -> BOOLEAN]
    BY MarkAutoType DEF SeatTypeOK
  <2>2. autoStatus' \in [Chair -> BOOLEAN] BY <1>9, <2>1, Zenon DEF TickMark
  <2>3. QED BY <1>9, <2>2 DEF TickMark, SeatTypeOK
<1>10. CASE UNCHANGED vars BY <1>2, <1>10 DEF vars, seatVars
<1>11. QED BY <1>3, <1>4, <1>5, <1>6, <1>7, <1>8, <1>9, <1>10 DEF Next, Tick

-----------------------------------------------------------------------------
(* The theorems.                                                           *)

\* The inductive invariant holds in every state of every table.
THEOREM Invariant == Spec => []IInv
<1>1. Init => IInv BY InitGood, GoodIsInv
<1>2. IInv /\ [Next]_vars => IInv'
  <2> SUFFICES ASSUME IInv, [Next]_vars PROVE IInv' OBVIOUS
  <2>1. Good /\ SeatTypeOK BY GoodIsInv
  <2>2. Good' /\ SeatTypeOK' BY <2>1, NextGood, SeatsTyped
  <2>3. QED BY <2>2 DEF IInv, Good, TypeOK, RoundTypeOK, SeatTypeOK, RoundInv
<1>3. QED BY <1>1, <1>2, PTL DEF Spec

\* Every variable keeps its type; in particular no more than four deals go unbid.
THEOREM TypeCorrect == Spec => []TypeOK
<1>1. IInv => TypeOK BY DEF IInv
<1>2. QED BY <1>1, Invariant, PTL

\* However the messages and the timer interleave, no card is ever in two places.
THEOREM CardsAreDealtOnce == Spec => []CardsDealtOnce
<1>1. IInv => CardsDealtOnce BY DEF IInv
<1>2. QED BY <1>1, Invariant, PTL

\* During a round a chair that can move has the turn, and the banker's bid is to be paid.
THEOREM TurnsInOrder == Spec => []TurnOrder
<1>1. IInv => TurnOrder BY DEF IInv
<1>2. QED BY <1>1, Invariant, PTL

\* Spring and counter-spring are decided on the plays of this round.
THEOREM PlaysAreCounted == Spec => []PlaysCounted
<1>1. IInv => PlaysCounted BY DEF IInv
<1>2. QED BY <1>1, Invariant, PTL

\* No banker, bid or count of the last round is left for the next one, and in the bidding the
\* chairs that are still to be asked have bid nothing.
THEOREM BidsStayInOrder == Spec => []BidsInOrder
<1>1. IInv => BidsInOrder BY DEF IInv
<1>2. QED BY <1>1, Invariant, PTL

\* What one side wins the other loses, within the cap, for every base score.
THEOREM RoundsSettle == Spec => []RoundSettled
<1>1. IInv => RoundSettled BY DEF IInv
<1>2. QED BY <1>1, Invariant, PTL

-----------------------------------------------------------------------------
(* What a step may do, by the state of the table.                          *)

\* Between rounds only the start, the end of the settlement and the reset move the table.
LEMMA RestStep ==
  ASSUME gameState \notin {"CALL", "PLAY"}, [Next]_vars
  PROVE  TickStart \/ TickEnd \/ ResetTable \/ UNCHANGED <<gameState, roundVars>>
<1>1. CASE Client
  BY <1>1 DEF Client, CallScore, OutCard, PassCard, PlayerReady, PlayerSetAuto
<1>2. CASE Tick BY <1>2 DEF Tick, TickCall, TickPlay, TickAuto, TickMark
<1>3. CASE Elapse \/ UNCHANGED vars BY <1>3 DEF Elapse, vars
<1>4. QED BY <1>1, <1>2, <1>3 DEF Next

\* In the bidding only the chair on turn, or the timer for it, bids.
LEMMA CallStep ==
  ASSUME gameState = "CALL", [Next]_vars
  PROVE  \/ \E said \in Nat : UserCallScore(curUser, said)
         \/ UNCHANGED <<gameState, roundVars>>
<1>1. CASE Client
  <2>1. ASSUME NEW c \in Chair, NEW said \in 0..4, CallScore(c, said)
        PROVE  UserCallScore(curUser, said)
    BY <2>1 DEF CallScore, UserCallScore
  <2>2. QED BY <1>1, <2>1 DEF Client, OutCard, PassCard, PlayerReady, PlayerSetAuto
<1>2. CASE Tick
  BY <1>2 DEF Tick, TickStart, TickCall, TickPlay, TickAuto, TickMark, TickEnd
<1>3. CASE Elapse \/ UNCHANGED vars BY <1>3 DEF Elapse, vars
<1>4. CASE ResetTable BY <1>4 DEF ResetTable
<1>5. QED BY <1>1, <1>2, <1>3, <1>4 DEF Next

\* In play only the chair on turn, or the timer for it, plays or passes.
LEMMA PlayStep ==
  ASSUME Good, gameState = "PLAY", [Next]_vars
  PROVE  \/ \E cards \in SUBSET Deck : UserOutCard(curUser, cards)
         \/ UserPassCard(curUser)
         \/ UNCHANGED <<gameState, roundVars>>
<1>1. CASE Client
  <2>1. ASSUME NEW c \in Chair, NEW cards \in SUBSET Deck, OutCard(c, cards)
        PROVE  UserOutCard(curUser, cards)
    BY <2>1 DEF OutCard, UserOutCard, CanOutCard
  <2>2. ASSUME NEW c \in Chair, PassCard(c) PROVE UserPassCard(curUser)
    BY <2>2 DEF PassCard, UserPassCard
  <2>3. QED BY <1>1, <2>1, <2>2 DEF Client, CallScore, PlayerReady, PlayerSetAuto
<1>2. CASE Tick
  <2>1. curUser \in Chair /\ handCard[curUser] \subseteq Deck
    BY DEF Good, RoundInv, RoundTypeOK, TurnOrder
  <2>2. CASE TickPlay \/ TickAuto BY <2>1, <2>2, TimedMove
  <2>3. QED BY <1>2, <2>2 DEF Tick, TickStart, TickCall, TickMark, TickEnd, vars
<1>3. CASE Elapse \/ UNCHANGED vars BY <1>3 DEF Elapse, vars
<1>4. CASE ResetTable BY <1>4 DEF ResetTable
<1>5. QED BY <1>1, <1>2, <1>3, <1>4 DEF Next

\* Only the chair on turn plays, from its own hand, and what it plays beats the table.
THEOREM PlaysAreDisciplined == Spec => PlayDiscipline
<1> DEFINE Step == gameState = "PLAY" /\ gameState' = "PLAY" /\ handCard' # handCard =>
                     /\ turnWiner' = curUser /\ curUser' = NextChair(curUser)
                     /\ turnCard' = handCard[curUser] \ handCard'[curUser]
                     /\ turnCard # {} => CompareCard(turnCard, turnCard')
                     /\ \A c \in Chair : c # curUser => handCard'[c] = handCard[c]
<1>1. ASSUME IInv, [Next]_vars PROVE [Step]_vars
  <2> SUFFICES ASSUME gameState = "PLAY", gameState' = "PLAY", handCard' # handCard
               PROVE  Step
    OBVIOUS
  <2>1. Good BY <1>1, GoodIsInv
  <2>2. PICK cards \in SUBSET Deck : UserOutCard(curUser, cards)
    BY <1>1, <2>1, PlayStep DEF UserPassCard, roundVars
  <2>3. /\ curUser \in Chair /\ cards \subseteq handCard[curUser]
        /\ turnCard # {} => CompareCard(turnCard, cards)
    BY <2>1, <2>2 DEF UserOutCard, CanOutCard, Good, RoundInv, TurnOrder
  <2>4. /\ handCard' = [handCard EXCEPT ![curUser] = @ \ cards]
        /\ turnCard' = cards /\ turnWiner' = curUser /\ curUser' = NextChair(curUser)
    BY <2>2 DEF UserOutCard, OnGameEnd
  <2>5. \A c \in Chair :
          handCard'[c] = IF c = curUser THEN handCard[c] \ cards ELSE handCard[c]
    BY <2>1, <2>4 DEF Good, RoundTypeOK
  <2>6. QED BY <2>3, <2>4, <2>5
<1>2. QED BY <1>1, Invariant, PTL DEF Spec, PlayDiscipline

\* Cards are dealt again only when all three chairs were asked and none bid.
THEOREM NoRedealOnceBid == Spec => NoRedealAfterBid
<1> DEFINE Step == gameState = "CALL" /\ callCount' # callCount =>
                     /\ callCount' = callCount + 1
                     /\ curUser = (firstUser + 2) % 3
                     /\ \A c \in Chair : callScore[c] = 0
<1>1. ASSUME IInv, [Next]_vars PROVE [Step]_vars
  <2> SUFFICES ASSUME gameState = "CALL", callCount' # callCount PROVE Step
    OBVIOUS
  <2>1. Good BY <1>1, GoodIsInv
  <2>2. PICK said \in Nat : UserCallScore(curUser, said)
    BY <1>1, CallStep DEF roundVars
  <2> DEFINE bids == [callScore EXCEPT ![curUser] = IF said > MaxCallScore THEN 0 ELSE said]
  <2>3. firstUser = NextChair(curUser) /\ NoBid(bids) /\ ReGameStart
    BY <2>2 DEF UserCallScore, AskNext, BecomeBanker
  <2>4. /\ firstUser \in Chair /\ curUser \in Chair /\ callScore[curUser] = 0
        /\ callScore \in [Chair -> 0..MaxCallScore]
    BY <2>1 DEF Good, RoundTypeOK, RoundInv, TurnOrder, BidsInOrder
  <2>5. curUser = (firstUser + 2) % 3 BY <2>3, <2>4 DEF NextChair, Chair
  <2>6. \A c \in Chair : callScore[c] = 0 BY <2>3, <2>4 DEF NoBid
  <2>7. QED BY <2>3, <2>5, <2>6 DEF ReGameStart
<1>2. QED BY <1>1, Invariant, PTL DEF Spec, NoRedealAfterBid

-----------------------------------------------------------------------------
(* A landlord table does what Round.tla promises of a table: every step of *)
(* LandRound is a step of Round or leaves its variables alone.  (That the  *)
(* table also keeps the promise's fairness is checked by TLC.)             *)

left   == [c \in Chair |-> Cardinality(handCard[c])]
bottom == Cardinality(Deck) - 3 * NORMAL_COUNT

\* An empty table, as Init of CGameLandTable leaves it, is an idle promise.
LEMMA InitPromised == Init => Promise!RInit
BY FS_EmptySet DEF Init, Promise!RInit, Promise!Empty, Phase, NoCards, NoResult

\* The bottom cards are what the hands left of the deck.
LEMMA BottomSize ==
  ASSUME Good, gameState = "CALL"
  PROVE  Cardinality(bankerCard) = bottom /\ bottom \in Nat
<1> DEFINE h0 == handCard[0]  h1 == handCard[1]  h2 == handCard[2]
<1>1. IsFiniteSet(h0) /\ IsFiniteSet(h1) /\ IsFiniteSet(h2) /\ IsFiniteSet(bankerCard)
  <2>1. RoundTypeOK BY DEF Good
  <2>2. \A c \in Chair : IsFiniteSet(handCard[c])
    <3> SUFFICES ASSUME NEW c \in Chair PROVE IsFiniteSet(handCard[c]) OBVIOUS
    <3>1. QED BY <2>1, HandsFinite, DeckAssumption, FS_Subset DEF RoundTypeOK
  <2>3. IsFiniteSet(bankerCard) BY <2>1, DeckAssumption, FS_Subset DEF RoundTypeOK
  <2>4. 0 \in Chair /\ 1 \in Chair /\ 2 \in Chair BY DEF Chair
  <2>5. QED BY <2>2, <2>3, <2>4
<1>2. /\ Cardinality(h0) = NORMAL_COUNT /\ Cardinality(h1) = NORMAL_COUNT
      /\ Cardinality(h2) = NORMAL_COUNT /\ NORMAL_COUNT \in Nat
  BY DeckAssumption DEF Good, RoundInv, PlaysCounted, Chair
<1>3. /\ h0 \cap h1 = {} /\ (h0 \cup h1) \cap h2 = {}
      /\ (h0 \cup h1 \cup h2) \cap bankerCard = {}
      /\ (h0 \cup h1 \cup h2) \cup bankerCard = Deck
  BY DEF Good, RoundInv, CardsDealtOnce, Chair
<1> HIDE DEF h0, h1, h2
<1>4. IsFiniteSet(h0 \cup h1) /\ Cardinality(h0 \cup h1) = 2 * NORMAL_COUNT
  <2>1. Cardinality(h0 \cup h1) = Cardinality(h0) + Cardinality(h1)
    BY <1>1, <1>3, DisjointUnion
  <2>2. IsFiniteSet(h0 \cup h1) BY <1>1, <1>3, DisjointUnion
  <2>3. QED BY <1>2, <2>1, <2>2
<1>5. /\ IsFiniteSet((h0 \cup h1) \cup h2)
      /\ Cardinality((h0 \cup h1) \cup h2) = 3 * NORMAL_COUNT
  <2>1. Cardinality((h0 \cup h1) \cup h2) = Cardinality(h0 \cup h1) + Cardinality(h2)
    BY <1>1, <1>3, <1>4, DisjointUnion
  <2>2. IsFiniteSet((h0 \cup h1) \cup h2) BY <1>1, <1>3, <1>4, DisjointUnion
  <2>3. QED BY <1>2, <1>4, <2>1, <2>2
<1>6. /\ Cardinality(Deck) = 3 * NORMAL_COUNT + Cardinality(bankerCard)
      /\ Cardinality(bankerCard) \in Nat
  <2>1. /\ Cardinality(((h0 \cup h1) \cup h2) \cup bankerCard)
            = Cardinality((h0 \cup h1) \cup h2) + Cardinality(bankerCard)
        /\ Cardinality(bankerCard) \in Nat
    BY <1>1, <1>3, <1>5, DisjointUnion
  <2>2. QED BY <1>3, <1>5, <2>1
<1>7. QED BY <1>2, <1>6 DEF bottom

\* A deal starts a round, or repeats its bidding.
LEMMA StartPromised ==
  ASSUME NEW first, OnGameStart(first), bankerUser' = bankerUser
  PROVE  /\ Phase' = "bidding" /\ left' = [c \in Chair |-> NORMAL_COUNT]
         /\ UNCHANGED <<bankerUser, gameOver>>
BY DeckAssumption DEF OnGameStart, Phase, left

\* Naming a banker is Decide.
LEMMA BankerPromised ==
  ASSUME Good, gameState = "CALL", NEW b \in Chair, NEW bids, BecomeBanker(b, bids)
  PROVE  Promise!Decide
<1>1. Phase = "bidding" /\ Phase' = "playing" BY DEF Phase, BecomeBanker
<1>2. left' = [left EXCEPT ![b] = @ + bottom]
  <2>1. \A c \in Chair :
          handCard'[c] = IF c = b THEN handCard[c] \cup bankerCard ELSE handCard[c]
    BY DEF BecomeBanker, Good, RoundTypeOK
  <2>2. handCard[b] \cap bankerCard = {} BY DEF Good, RoundInv, CardsDealtOnce
  <2>3. IsFiniteSet(handCard[b]) /\ IsFiniteSet(bankerCard)
    BY HandsFinite, DeckAssumption, FS_Subset DEF Good, RoundTypeOK
  <2>4. Cardinality(handCard[b] \cup bankerCard)
          = Cardinality(handCard[b]) + Cardinality(bankerCard)
    BY <2>2, <2>3, DisjointUnion
  <2>5. Cardinality(handCard[b] \cup bankerCard) = Cardinality(handCard[b]) + bottom
    BY <2>4, BottomSize
  <2>6. QED BY <2>1, <2>5 DEF left
<1>3. bankerUser' = b /\ gameOver' = gameOver BY DEF BecomeBanker
<1>4. QED BY <1>1, <1>2, <1>3 DEF Promise!Decide, left, bottom

\* A play is Put, the last card's included.
LEMMA OutCardPromised ==
  ASSUME Good, gameState = "PLAY", NEW c \in Chair, NEW cards \in SUBSET Deck,
         UserOutCard(c, cards)
  PROVE  Promise!Put(c)
<1> DEFINE bombs == IF IsBomb(cards) THEN bombCount + 1 ELSE bombCount
<1>1. Phase = "playing" BY DEF Phase
<1>2. cards \subseteq handCard[c] /\ cards # {}
  BY CardTypeAssumption DEF UserOutCard, CanOutCard
<1>3. CASE OnGameEnd(c, bombs)
  <2>1. Phase' = "over" /\ gameOver'.winner = c /\ bankerUser' = INVALID_CHAIR
    BY <1>3 DEF OnGameEnd, ResetBids, Phase
  <2>2. left' = [d \in Chair |-> 0] BY <1>3, FS_EmptySet DEF OnGameEnd, left, NoCards
  <2>3. QED BY <1>1, <2>1, <2>2 DEF Promise!Put, Promise!Empty, left
<1>4. CASE /\ cards # handCard[c]
           /\ handCard' = [handCard EXCEPT ![c] = @ \ cards]
           /\ UNCHANGED <<gameState, bankerUser, gameOver>>
  <2> DEFINE rest == handCard[c] \ cards
  <2>1. /\ IsFiniteSet(handCard[c]) /\ rest \in SUBSET handCard[c]
        /\ rest # handCard[c] /\ rest # {}
    BY <1>2, <1>4, HandsFinite
  <2>2. \A x \in Chair : handCard'[x] = IF x = c THEN rest ELSE handCard[x]
    BY <1>4 DEF Good, RoundTypeOK
  <2> HIDE DEF rest
  <2>3. /\ IsFiniteSet(rest)
        /\ Cardinality(rest) \in Nat /\ Cardinality(handCard[c]) \in Nat
        /\ Cardinality(rest) < Cardinality(handCard[c])
    BY <2>1, FS_Subset, FS_CardinalityType
  <2>4. Cardinality(rest) > 0 BY <2>1, <2>3, FS_EmptySet
  <2> DEFINE n == Cardinality(handCard[c]) - Cardinality(rest)
  <2>5. n \in 1..(left[c] - 1) BY <2>3, <2>4 DEF left
  <2>6. left' = [left EXCEPT ![c] = @ - n]
    <3>1. Cardinality(rest) = left[c] - n BY <2>3 DEF left
    <3> HIDE DEF n
    <3>2. QED BY <2>2, <3>1 DEF left
  <2>7. Phase' = Phase /\ bankerUser' = bankerUser /\ gameOver' = gameOver
    BY <1>4 DEF Phase
  <2> HIDE DEF n
  <2>8. QED BY <1>1, <2>5, <2>6, <2>7 DEF Promise!Put, left
<1>5. QED BY <1>3, <1>4 DEF UserOutCard

\* Every step of the table is a step of the promise, or none.
LEMMA StepPromised ==
  ASSUME IInv, [Next]_vars
  PROVE  [Promise!RNext]_(Promise!rvars)
<1>1. Good BY GoodIsInv
<1>2. CASE UNCHANGED <<gameState, roundVars>>
  BY <1>2 DEF roundVars, Phase, Promise!rvars
<1>3. CASE gameState = "CALL"
  <2>1. SUFFICES ASSUME NEW said \in Nat, UserCallScore(curUser, said)
                 PROVE  [Promise!RNext]_(Promise!rvars)
    BY <1>2, <1>3, CallStep
  <2>2. firstUser \in Chair /\ curUser \in Chair
    BY <1>1, <1>3 DEF Good, RoundInv, TurnOrder
  <2>3. ASSUME NEW bids, AskNext(curUser, bids) PROVE UNCHANGED Promise!rvars
    BY <2>3 DEF AskNext, Phase, Promise!rvars
  <2>4. CASE ReGameStart
    <3>1. bankerUser' = bankerUser
      BY <1>1, <1>3, <2>4 DEF ReGameStart, ResetBids, Good, RoundInv, BidsInOrder
    <3>2. left = [c \in Chair |-> NORMAL_COUNT] /\ Phase = "bidding"
      BY <1>1, <1>3 DEF Good, RoundInv, PlaysCounted, left, Phase
    <3>3. QED BY <2>4, <3>1, <3>2, StartPromised DEF ReGameStart, Promise!rvars, left
  <2>5. ASSUME NEW b \in Chair, NEW bids, BecomeBanker(b, bids) PROVE Promise!RNext
    BY <1>1, <1>3, <2>5, BankerPromised DEF Promise!RNext
  <2>6. QED BY <2>1, <2>2, <2>3, <2>4, <2>5 DEF UserCallScore
<1>4. CASE gameState = "PLAY"
  <2>1. curUser \in Chair BY <1>1, <1>4 DEF Good, RoundInv, TurnOrder
  <2>2. CASE UserPassCard(curUser) BY <2>2 DEF UserPassCard, Phase, Promise!rvars
  <2>3. ASSUME NEW cards \in SUBSET Deck, UserOutCard(curUser, cards) PROVE Promise!RNext
    BY <1>1, <1>4, <2>1, <2>3, OutCardPromised DEF Promise!RNext, Promise!Play
  <2>4. QED BY <1>1, <1>2, <1>4, <2>2, <2>3, PlayStep
<1>5. CASE gameState \notin {"CALL", "PLAY"}
  <2>1. left = [c \in Chair |-> 0] /\ bankerUser = INVALID_CHAIR
    BY <1>1, <1>5, FS_EmptySet DEF Good, RoundInv, BidsInOrder, left, NoCards
  <2>2. CASE TickStart
    <3>1. Phase = "idle" BY <2>2 DEF TickStart, Phase
    <3>2. Promise!Deal
      BY <2>2, <3>1, StartPromised DEF TickStart, Promise!Deal, left
    <3>3. QED BY <3>2 DEF Promise!RNext
  <2>3. CASE TickEnd
    <3>1. Promise!Clear BY <2>3 DEF TickEnd, Promise!Clear, Phase, NoResult
    <3>2. QED BY <3>1 DEF Promise!RNext
  <2>4. CASE ResetTable
    <3>1. Phase = "idle" /\ Phase' = "idle" BY <2>4 DEF ResetTable, Phase
    <3>2. left' = left BY <2>1, <2>4, FS_EmptySet DEF ResetTable, left, NoCards
    <3>3. QED BY <2>1, <2>4, <3>1, <3>2 DEF ResetTable, ResetBids, Promise!rvars, left
  <2>5. QED BY <1>2, <1>5, <2>2, <2>3, <2>4, RestStep
<1>6. QED BY <1>3, <1>4, <1>5

\* A landlord table implements the rounds of Round.tla, for every deck and every deal.
THEOREM KeepsRounds == Spec => Promise!RInit /\ [][Promise!RNext]_(Promise!rvars)
BY InitPromised, StepPromised, Invariant, PTL DEF Spec

-----------------------------------------------------------------------------
(* The landlord's cards.                                                   *)

\* What a pack deals: up to four cards of a rank, and one joker of each kind.
Pack(cards) == cards \in Bag /\ cards[16] <= 1 /\ cards[17] <= 1

\* Some ranks, n cards of each.
LEMMA CopiesAre ==
  ASSUME NEW S \in SUBSET Rank, S # {}, NEW n \in 1..4
  PROVE  /\ Copies(S, n) \in Bag /\ Copies(S, n) # Empty
         /\ \A r \in Rank : Copies(S, n)[r] = IF r \in S THEN n ELSE 0
         /\ Held(Copies(S, n)) = S /\ Exactly(Copies(S, n), n) = S
         /\ AtLeast(Copies(S, n), n) = S
         /\ \A k \in 1..5 : k > n => AtLeast(Copies(S, n), k) = {}
<1> DEFINE c == Copies(S, n)
<1>1. \A r \in Rank : c[r] = IF r \in S THEN n ELSE 0
  BY DEF Copies
<1>2. c \in Bag
  BY DEF Copies, Bag
<1> HIDE DEF c
<1>3. c # Empty
  <2>1. PICK x \in S : TRUE
    OBVIOUS
  <2>2. c[x] = n /\ Empty[x] = 0
    BY <1>1, <2>1 DEF Empty
  <2> QED  BY <2>2
<1>4. Held(c) = S /\ Exactly(c, n) = S /\ AtLeast(c, n) = S
  BY <1>1 DEF Held, Exactly, AtLeast
<1>5. \A k \in 1..5 : k > n => AtLeast(c, k) = {}
  BY <1>1 DEF AtLeast
<1> QED  BY <1>1, <1>2, <1>3, <1>4, <1>5 DEF c

\* The key of a play is the highest of the ranks it holds n cards of, if it holds no more of any.
LEMMA KeyIs ==
  ASSUME NEW cards \in Bag, NEW n \in 1..4, Exactly(cards, n) # {},
         \A r \in Rank : cards[r] <= n
  PROVE  Key(cards) = Highest(Exactly(cards, n))
<1> DEFINE V == {cards[r] : r \in Rank}
<1>1. V \in SUBSET (0..4) /\ n \in V /\ \A v \in V : v <= n
  BY BagCounts DEF Exactly
<1> HIDE DEF V
<1>2. \E m \in V : \A v \in V : m >= v
  BY <1>1
<1>3. Highest(V) \in V /\ \A v \in V : Highest(V) >= v
  BY <1>2, Zenon DEF Highest
<1>4. Highest(V) = n
  <2>1. Highest(V) >= n /\ Highest(V) <= n /\ Highest(V) \in 0..4
    BY <1>1, <1>3, Zenon
  <2>2. \A h \in 0..4 : h >= n /\ h <= n => h = n
    OBVIOUS
  <2> QED  BY <2>1, <2>2, Zenon
<1> QED  BY <1>4 DEF Key, V

\* A set of one rank.
LEMMA HighestOne == ASSUME NEW x \in Rank PROVE Highest({x}) = x /\ Cardinality({x}) = 1
<1>1. Highest({x}) \in {x}
  BY HighestIn
<1> QED  BY <1>1, FS_Singleton

\* The ranks up to a top.
LEMMA LineIs ==
  ASSUME NEW t \in Rank, NEW len \in Nat \ {0}, Line(t, len) \in SUBSET Rank
  PROVE  /\ Highest(Line(t, len)) = t /\ Cardinality(Line(t, len)) = len
         /\ Line(t, len) # {} /\ t \in Line(t, len)
<1>1. t \in Int /\ t - len + 1 \in Int /\ t - len + 1 <= t
  BY DEF Rank
<1>2. t \in Line(t, len)
  BY <1>1 DEF Line
<1>3. Highest(Line(t, len)) = t
  <2>1. Highest(Line(t, len)) \in Line(t, len) /\ Highest(Line(t, len)) >= t
    BY <1>2, HighestIn
  <2> QED  BY <1>1, <2>1 DEF Line
<1>4. Cardinality(Line(t, len)) = len
  <2>1. Cardinality((t - len + 1)..t) = t - (t - len + 1) + 1
    BY <1>1, FS_Interval
  <2> QED  BY <1>1, <2>1 DEF Line
<1> QED  BY <1>2, <1>3, <1>4

\* Ranks that make a line are as many as there are, up to the highest.
LEMMA LineOf ==
  ASSUME NEW S \in SUBSET Rank, S # {}, IsLine(S)
  PROVE  /\ Cardinality(S) \in Nat \ {0} /\ Highest(S) \in S
         /\ S = Line(Highest(S), Cardinality(S))
         /\ Cardinality(S) > 1 => Two \notin S
<1>1. Highest(S) \in S /\ \A y \in S : Highest(S) >= y
  BY HighestIn
<1>2. CASE Cardinality(S) = 1
  <2>1. PICK x \in S : S = {x}
    BY <1>2, OneRank
  <2>2. Highest(S) = x /\ Line(x, 1) = {x}
    BY <1>1, <2>1 DEF Line, Rank
  <2> QED  BY <1>1, <1>2, <2>1, <2>2
<1>3. CASE Cardinality(S) # 1
  <2>1. S = Lowest(S)..Highest(S) /\ Two \notin S
    BY <1>3 DEF IsLine, Consecutive
  <2>2. Lowest(S) \in S
    <3>1. S \in SUBSET Nat
      BY DEF Rank
    <3> QED  BY <3>1, LowestIn
  <2>3. PICK a \in Rank, b \in Rank : a = Lowest(S) /\ b = Highest(S)
    BY <1>1, <2>2
  <2>4. a <= b /\ a \in Int /\ b \in Int
    BY <1>1, <2>2, <2>3 DEF Rank
  <2>5. Cardinality(a..b) = b - a + 1
    BY <2>4, FS_Interval
  <2>6. Cardinality(S) = b - a + 1
    BY <2>1, <2>3, <2>5, Zenon
  <2>7. b - (b - a + 1) + 1 = a /\ b - a + 1 \in Nat \ {0}
    BY <2>4
  <2>8. S = Line(b, b - a + 1)
    BY <2>1, <2>3, <2>7, Zenon DEF Line
  <2> QED  BY <1>1, <2>1, <2>3, <2>6, <2>7, <2>8
<1> QED  BY <1>2, <1>3

\* A bag that holds n cards of some ranks and none of the others.
LEMMA AllCopies ==
  ASSUME NEW cards \in Bag, NEW n \in 1..4, \A r \in Rank : cards[r] \in {0, n}
  PROVE  cards = Copies(Exactly(cards, n), n)
<1>1. cards = [r \in Rank |-> cards[r]]
  BY DEF Bag
<1>2. \A r \in Rank : cards[r] = IF r \in Exactly(cards, n) THEN n ELSE 0
  BY DEF Exactly
<1> QED  BY <1>1, <1>2, Zenon DEF Copies

\* Which cards have which type, read from the type.
LEMMA FourRead ==
  ASSUME NEW cards \in Bag, GetCardType(cards) = "CT_BOMB_CARD"
  PROVE  \E x \in Rank : cards = Copies({x}, 4) /\ Key(cards) = x /\ Size(cards) = 4
<1>1. Cardinality(Exactly(cards, 4)) = 1 /\ Size(cards) = 4
  <2>1. CASE AtLeast(cards, 4) # {}
    BY <2>1 DEF GetCardType, FourType
  <2>2. CASE AtLeast(cards, 4) = {} /\ AtLeast(cards, 3) # {}
    BY <2>2 DEF GetCardType, ThreeType
  <2>3. CASE AtLeast(cards, 4) = {} /\ AtLeast(cards, 3) = {}
    BY <2>3 DEF GetCardType, FlatType
  <2> QED  BY <2>1, <2>2, <2>3
<1>2. \A r \in Rank : cards[r] \in 0..4
  BY BagCounts
<1>3. PICK x \in Rank : Exactly(cards, 4) = {x}
  <2>1. Exactly(cards, 4) \in SUBSET Rank
    BY DEF Exactly
  <2> QED  BY <1>1, <2>1, OneRank
<1>4. cards[x] = 4
  BY <1>3 DEF Exactly
<1>5. \A r \in Rank : r # x => cards[r] = 0
  <2> TAKE r \in Rank
  <2> HAVE r # x
  <2>1. cards[x] + cards[r] <= Size(cards)
    BY TwoHeld
  <2> QED  BY <1>1, <1>2, <1>4, <2>1
<1>6. \A r \in Rank : cards[r] \in {0, 4} /\ cards[r] <= 4
  BY <1>4, <1>5
<1>7. cards = Copies({x}, 4)
  BY <1>3, <1>6, AllCopies
<1>8. Key(cards) = x
  <2>1. Key(cards) = Highest({x})
    BY <1>3, <1>6, KeyIs
  <2> QED  BY <2>1, HighestOne
<1> QED  BY <1>1, <1>7, <1>8

\* Triples: what the type says of them.
LEMMA ThreeRead ==
  ASSUME NEW cards \in Bag,
         GetCardType(cards) \in
           {"CT_THREE", "CT_THREE_LINE", "CT_THREE_TAKE_ONE", "CT_THREE_TAKE_TWO"}
  PROVE  /\ \A r \in Rank : cards[r] \in 0..3
         /\ Exactly(cards, 3) # {} /\ IsLine(Exactly(cards, 3))
         /\ Key(cards) = Highest(Exactly(cards, 3))
         /\ LET type == GetCardType(cards)
                many == Cardinality(Exactly(cards, 3))
            IN  /\ type = "CT_THREE" => Size(cards) = 3
                /\ type = "CT_THREE_LINE" => Size(cards) = 3 * many /\ Size(cards) # 3
                /\ type = "CT_THREE_TAKE_ONE" => Size(cards) = 4 * many
                /\ type = "CT_THREE_TAKE_TWO" =>
                     Size(cards) = 5 * many /\ Cardinality(Exactly(cards, 2)) = many
<1>1. AtLeast(cards, 4) = {}
  <2> SUFFICES ASSUME AtLeast(cards, 4) # {} PROVE FALSE
    OBVIOUS
  <2> QED  BY DEF GetCardType, FourType
<1>2. AtLeast(cards, 3) # {}
  <2> SUFFICES ASSUME AtLeast(cards, 3) = {} PROVE FALSE
    OBVIOUS
  <2> QED  BY <1>1 DEF GetCardType, FlatType
<1>3. GetCardType(cards) = ThreeType(cards)
  BY <1>1, <1>2 DEF GetCardType
<1>4. \A r \in Rank : cards[r] \in 0..3
  <2>1. \A r \in Rank : cards[r] \in 0..4 /\ ~(cards[r] >= 4)
    BY <1>1, BagCounts DEF AtLeast
  <2> QED  BY <2>1
<1>5. Exactly(cards, 3) # {}
  BY <1>2, <1>4 DEF Exactly, AtLeast
<1>6. IsLine(Exactly(cards, 3))
  BY <1>3 DEF ThreeType
<1>7. Key(cards) = Highest(Exactly(cards, 3))
  <2>1. \A r \in Rank : cards[r] <= 3
    BY <1>4
  <2> QED  BY <1>5, <2>1, KeyIs
<1>8. LET type == GetCardType(cards)
          many == Cardinality(Exactly(cards, 3))
      IN  /\ type = "CT_THREE" => Size(cards) = 3
          /\ type = "CT_THREE_LINE" => Size(cards) = 3 * many /\ Size(cards) # 3
          /\ type = "CT_THREE_TAKE_ONE" => Size(cards) = 4 * many
          /\ type = "CT_THREE_TAKE_TWO" =>
               Size(cards) = 5 * many /\ Cardinality(Exactly(cards, 2)) = many
  BY <1>3 DEF ThreeType
<1> QED  BY <1>4, <1>5, <1>6, <1>7, <1>8

\* Single cards and pairs: what the type says of them.
LEMMA FlatRead ==
  ASSUME NEW cards \in Bag,
         GetCardType(cards) \in
           {"CT_SINGLE", "CT_DOUBLE", "CT_SINGLE_LINE", "CT_DOUBLE_LINE"}
  PROVE  /\ \A r \in Rank : cards[r] \in 0..2
         /\ LET type == GetCardType(cards)
                held == Held(cards)
            IN  /\ type = "CT_SINGLE" => Cardinality(held) = 1 /\ Size(cards) = 1
                /\ type = "CT_DOUBLE" => Cardinality(held) = 1 /\ Size(cards) = 2
                /\ type = "CT_SINGLE_LINE" =>
                     Cardinality(held) >= 5 /\ held = Exactly(cards, 1) /\ IsLine(held)
                /\ type = "CT_DOUBLE_LINE" =>
                     Cardinality(held) >= 3 /\ held = Exactly(cards, 2) /\ IsLine(held)
<1>1. AtLeast(cards, 4) = {}
  <2> SUFFICES ASSUME AtLeast(cards, 4) # {} PROVE FALSE
    OBVIOUS
  <2> QED  BY DEF GetCardType, FourType
<1>2. AtLeast(cards, 3) = {}
  <2> SUFFICES ASSUME AtLeast(cards, 3) # {} PROVE FALSE
    OBVIOUS
  <2> QED  BY <1>1 DEF GetCardType, ThreeType
<1>3. GetCardType(cards) = FlatType(cards)
  BY <1>1, <1>2 DEF GetCardType
<1>4. \A r \in Rank : cards[r] \in 0..2
  <2>1. \A r \in Rank : cards[r] \in 0..4 /\ ~(cards[r] >= 3)
    BY <1>2, BagCounts DEF AtLeast
  <2> QED  BY <2>1
<1>5. LET type == GetCardType(cards)
          held == Held(cards)
      IN  /\ type = "CT_SINGLE" => Cardinality(held) = 1 /\ Size(cards) = 1
          /\ type = "CT_DOUBLE" => Cardinality(held) = 1 /\ Size(cards) = 2
          /\ type = "CT_SINGLE_LINE" =>
               Cardinality(held) >= 5 /\ held = Exactly(cards, 1) /\ IsLine(held)
          /\ type = "CT_DOUBLE_LINE" =>
               Cardinality(held) >= 3 /\ held = Exactly(cards, 2) /\ IsLine(held)
  BY <1>3 DEF FlatType
<1> QED  BY <1>4, <1>5

\* The jokers are known by being the jokers.
LEMMA MissileRead ==
  ASSUME NEW cards \in Bag, GetCardType(cards) = "CT_MISSILE_CARD"
  PROVE  cards = Missile
<1>1. AtLeast(cards, 4) = {}
  <2> SUFFICES ASSUME AtLeast(cards, 4) # {} PROVE FALSE
    OBVIOUS
  <2> QED  BY DEF GetCardType, FourType
<1>2. AtLeast(cards, 3) = {}
  <2> SUFFICES ASSUME AtLeast(cards, 3) # {} PROVE FALSE
    OBVIOUS
  <2> QED  BY <1>1 DEF GetCardType, ThreeType
<1>3. GetCardType(cards) = FlatType(cards)
  BY <1>1, <1>2 DEF GetCardType
<1> QED  BY <1>3 DEF FlatType

-----------------------------------------------------------------------------
(* One rank.                                                               *)

\* What n cards of one rank are called.
SameType(n) == IF n = 1 THEN "CT_SINGLE" ELSE IF n = 2 THEN "CT_DOUBLE" ELSE "CT_THREE"

\* One, two or three cards of a rank have the type of that many.
LEMMA SameBuild ==
  ASSUME NEW x \in Rank, NEW n \in 1..3
  PROVE  /\ GetCardType(Copies({x}, n)) = SameType(n)
         /\ Size(Copies({x}, n)) = n /\ Key(Copies({x}, n)) = x
<1> DEFINE c == Copies({x}, n)
<1>1. /\ c \in Bag /\ \A r \in Rank : c[r] = IF r \in {x} THEN n ELSE 0
      /\ Held(c) = {x} /\ Exactly(c, n) = {x} /\ AtLeast(c, n) = {x}
      /\ \A k \in 1..5 : k > n => AtLeast(c, k) = {}
  BY CopiesAre
<1>2. Size(c) = n
  BY SizeOne
<1>3. Highest({x}) = x /\ Cardinality({x}) = 1
  BY HighestOne
<1> HIDE DEF c
<1>4. Key(c) = x
  <2>1. \A r \in Rank : c[r] <= n
    BY <1>1
  <2> QED  BY <1>1, <1>3, <2>1, KeyIs
<1>5. AtLeast(c, 4) = {}
  BY <1>1
<1>6. CASE n = 3
  <2>1. AtLeast(c, 3) = {x} /\ Exactly(c, 3) = {x} /\ IsLine({x})
    BY <1>1, <1>3, <1>6 DEF IsLine
  <2> QED  BY <1>2, <1>4, <1>5, <1>6, <2>1 DEF GetCardType, ThreeType, SameType, c
<1>7. CASE n # 3
  <2>1. AtLeast(c, 3) = {}
    BY <1>1, <1>7
  <2>2. GetCardType(c) = FlatType(c)
    BY <1>5, <2>1 DEF GetCardType
  <2>3. FlatType(c) = SameType(n)
    BY <1>1, <1>2, <1>3, <1>7 DEF FlatType, SameType
  <2> QED  BY <1>2, <1>4, <2>2, <2>3 DEF c
<1> QED  BY <1>6, <1>7

\* Such a type says that the play is cards of one rank.
LEMMA SameRead ==
  ASSUME NEW cards \in Bag, GetCardType(cards) \in {"CT_SINGLE", "CT_DOUBLE", "CT_THREE"}
  PROVE  \E x \in Rank, n \in 1..3 :
           /\ cards = Copies({x}, n) /\ GetCardType(cards) = SameType(n)
           /\ Size(cards) = n /\ Key(cards) = x
<1>1. \A r \in Rank : cards[r] \in 0..4
  BY BagCounts
<1>2. \E x \in Rank, n \in 1..3 :
         /\ cards[x] = n /\ GetCardType(cards) = SameType(n)
         /\ \A r \in Rank : r # x => cards[r] = 0
  <2>1. CASE GetCardType(cards) = "CT_THREE"
    <3>1. /\ Size(cards) = 3 /\ Exactly(cards, 3) # {}
          /\ \A r \in Rank : cards[r] \in 0..3
      BY <2>1, ThreeRead
    <3>2. PICK x \in Rank : cards[x] = 3
      BY <3>1 DEF Exactly
    <3>3. \A r \in Rank : r # x => cards[r] = 0
      <4> TAKE r \in Rank
      <4> HAVE r # x
      <4>1. cards[x] + cards[r] <= Size(cards)
        BY TwoHeld
      <4> QED  BY <1>1, <3>1, <3>2, <4>1
    <3>4. GetCardType(cards) = SameType(3)
      BY <2>1 DEF SameType
    <3> QED  BY <3>2, <3>3, <3>4
  <2>2. CASE GetCardType(cards) \in {"CT_SINGLE", "CT_DOUBLE"}
    <3> DEFINE n == IF GetCardType(cards) = "CT_SINGLE" THEN 1 ELSE 2
    <3>1. /\ Cardinality(Held(cards)) = 1 /\ Size(cards) = n
          /\ \A r \in Rank : cards[r] \in 0..2
      BY <2>2, FlatRead
    <3>2. PICK x \in Rank : Held(cards) = {x}
      <4>1. Held(cards) \in SUBSET Rank
        BY DEF Held
      <4> QED  BY <3>1, <4>1, OneRank
    <3>3. cards[x] > 0 /\ \A r \in Rank : r # x => cards[r] = 0
      BY <1>1, <3>2 DEF Held
    <3>4. cards = Copies({x}, cards[x])
      <4>1. cards = [r \in Rank |-> cards[r]]
        BY DEF Bag
      <4>2. \A r \in Rank : cards[r] = IF r \in {x} THEN cards[x] ELSE 0
        BY <3>3
      <4> QED  BY <4>1, <4>2, Zenon DEF Copies
    <3>5. Size(Copies({x}, cards[x])) = cards[x]
      <4>1. cards[x] \in Int
        BY <1>1
      <4> QED  BY <4>1, SizeOne
    <3>6. cards[x] = n /\ n \in 1..3
      BY <3>1, <3>4, <3>5
    <3>7. GetCardType(cards) = SameType(n)
      BY <2>2 DEF SameType
    <3> QED  BY <3>3, <3>6, <3>7
  <2> QED  BY <2>1, <2>2
<1>3. PICK x \in Rank, n \in 1..3 :
         /\ cards[x] = n /\ GetCardType(cards) = SameType(n)
         /\ \A r \in Rank : r # x => cards[r] = 0
  BY <1>2
<1>4. cards = Copies({x}, n)
  <2>1. cards = [r \in Rank |-> cards[r]]
    BY DEF Bag
  <2>2. \A r \in Rank : cards[r] = IF r \in {x} THEN n ELSE 0
    BY <1>3
  <2> QED  BY <2>1, <2>2, Zenon DEF Copies
<1>5. Size(cards) = n /\ Key(cards) = x
  BY <1>4, SameBuild
<1> QED  BY <1>3, <1>4, <1>5

-----------------------------------------------------------------------------
(* Lines.                                                                  *)

\* Consecutive ranks below the twos are a line, and any rank by itself.
LEMMA LineIsLine ==
  ASSUME NEW t \in Rank, NEW len \in Nat \ {0}, Line(t, len) \in SUBSET Rank, len > 1 => t < Two
  PROVE  IsLine(Line(t, len))
<1> DEFINE hand == Copies(Line(t, len), 1)
<1>1. t \in Line(t, len) /\ Line(t, len) # {}
  BY LineIs
<1>2. hand \in Bag /\ AtLeast(hand, 1) = Line(t, len)
  BY <1>1, CopiesAre
<1> HIDE DEF hand
<1>3. t \in LineTops(hand, len, 1, 0)
  BY <1>1, <1>2 DEF LineTops, Rank
<1> QED  BY <1>2, <1>3, LineFacts

\* A line of ranks without a two that has three ranks or more ends below the twos.
LEMMA BelowTwo ==
  ASSUME NEW t \in Rank, NEW len \in Nat, len >= 3, Two \notin Line(t, len)
  PROVE  t < Two
BY DEF Line, Rank, Two

\* What a line of n cards each is called.
LineType(n) == IF n = 1 THEN "CT_SINGLE_LINE" ELSE "CT_DOUBLE_LINE"

\* Five single cards or three pairs that follow one another are a line.
LEMMA LineBuild ==
  ASSUME NEW t \in Rank, NEW len \in Nat, NEW n \in 1..2, len >= (IF n = 1 THEN 5 ELSE 3),
         Line(t, len) \in SUBSET Rank, t < Two
  PROVE  /\ GetCardType(Copies(Line(t, len), n)) = LineType(n)
         /\ Size(Copies(Line(t, len), n)) = len * n /\ Key(Copies(Line(t, len), n)) = t
<1> DEFINE S == Line(t, len)
           c == Copies(S, n)
<1>0. len \in Nat \ {0} /\ len >= 3 /\ len # 1
  OBVIOUS
<1>1. Highest(S) = t /\ Cardinality(S) = len /\ S # {} /\ IsLine(S)
  BY <1>0, LineIs, LineIsLine
<1>2. Size(c) = len * n
  BY <1>0, SizeLine
<1> HIDE DEF S
<1>3. /\ c \in Bag /\ \A r \in Rank : c[r] = IF r \in S THEN n ELSE 0
      /\ Held(c) = S /\ Exactly(c, n) = S
      /\ AtLeast(c, 3) = {} /\ AtLeast(c, 4) = {}
  <2>1. S \in SUBSET Rank
    BY DEF S
  <2> QED  BY <1>1, <2>1, CopiesAre
<1> HIDE DEF c
<1>4. Key(c) = t
  <2>1. \A r \in Rank : c[r] <= n
    BY <1>3
  <2> QED  BY <1>1, <1>3, <2>1, KeyIs
<1>5. c # Missile
  <2> SUFFICES ASSUME c = Missile PROVE FALSE
    OBVIOUS
  <2>1. Held(Missile) = {16, 17} /\ 16 \in Rank /\ 17 \in Rank
    BY DEF Held, Missile, Copies, Rank
  <2>2. Cardinality(Held(Missile)) = 2
    <3>1. Cardinality({16, 17}) = Cardinality({16}) + 1
      <4>1. {16, 17} = {16} \cup {17} /\ 17 \notin {16}
        OBVIOUS
      <4>2. IsFiniteSet({16})
        BY FS_Singleton
      <4> QED  BY <4>1, <4>2, FS_AddElement
    <3>2. Cardinality({16}) = 1
      BY FS_Singleton
    <3> QED  BY <2>1, <3>1, <3>2
  <2> QED  BY <1>0, <1>1, <1>3, <2>2
<1>6. GetCardType(c) = FlatType(c)
  BY <1>3 DEF GetCardType
<1>7. FlatType(c) = LineType(n)
  <2>1. CASE n = 1
    <3>1. len >= 5
      BY <2>1
    <3>2. S # Exactly(c, 2)
      <4>1. \A r \in Rank : c[r] # 2
        BY <1>3, <2>1
      <4> QED  BY <1>1, <4>1 DEF Exactly
    <3> QED  BY <1>0, <1>1, <1>3, <1>5, <2>1, <3>1, <3>2 DEF FlatType, LineType
  <2>2. CASE n = 2
    BY <1>0, <1>1, <1>3, <1>5, <2>2 DEF FlatType, LineType
  <2> QED  BY <2>1, <2>2
<1> QED  BY <1>2, <1>4, <1>6, <1>7 DEF S, c

\* And the type says so.
LEMMA LineRead ==
  ASSUME NEW cards \in Bag, NEW n \in 1..2, GetCardType(cards) = LineType(n)
  PROVE  LET len == Cardinality(Held(cards))
         IN  /\ len \in Nat /\ len >= (IF n = 1 THEN 5 ELSE 3)
             /\ Key(cards) \in Rank /\ Key(cards) < Two
             /\ Line(Key(cards), len) \in SUBSET Rank
             /\ cards = Copies(Line(Key(cards), len), n)
             /\ Size(cards) = len * n
<1> DEFINE S == Held(cards)
           len == Cardinality(S)
<1>1. /\ S \in SUBSET Rank /\ S = Exactly(cards, n) /\ IsLine(S)
      /\ len >= (IF n = 1 THEN 5 ELSE 3)
      /\ \A r \in Rank : cards[r] \in 0..2
  <2>1. S \in SUBSET Rank
    BY DEF Held
  <2>2. CASE n = 1
    BY <2>1, <2>2, FlatRead DEF LineType
  <2>3. CASE n = 2
    BY <2>1, <2>3, FlatRead DEF LineType
  <2> QED  BY <2>2, <2>3
<1>2. S # {}
  BY <1>1, FS_EmptySet
<1>3. /\ len \in Nat \ {0} /\ Highest(S) \in S /\ S = Line(Highest(S), len)
      /\ len > 1 => Two \notin S
  BY <1>1, <1>2, LineOf
<1>4. \A r \in Rank : cards[r] \in {0, n}
  BY <1>1 DEF Held, Exactly
<1>5. cards = Copies(S, n)
  BY <1>1, <1>4, AllCopies
<1>6. Key(cards) = Highest(S)
  <2>1. \A r \in Rank : cards[r] <= n
    BY <1>4
  <2> QED  BY <1>1, <1>2, <2>1, KeyIs
<1> HIDE DEF S, len
<1>7. Highest(S) \in Rank /\ Highest(S) < Two
  <2>1. len >= 3 /\ Two \notin S
    BY <1>1, <1>3
  <2> QED  BY <1>1, <1>3, <2>1, BelowTwo
<1>8. Size(cards) = len * n
  <2>1. Size(Copies(Line(Highest(S), len), n)) = len * n
    BY <1>1, <1>3, <1>7, SizeLine
  <2> QED  BY <1>3, <1>5, <2>1
<1> QED  BY <1>1, <1>3, <1>5, <1>6, <1>7, <1>8 DEF S, len

-----------------------------------------------------------------------------
(* Bombs.                                                                  *)

\* Four of a rank are a bomb.
LEMMA BombBuild ==
  ASSUME NEW x \in Rank
  PROVE  /\ GetCardType(Copies({x}, 4)) = "CT_BOMB_CARD"
         /\ Size(Copies({x}, 4)) = 4 /\ Key(Copies({x}, 4)) = x
<1> DEFINE c == Copies({x}, 4)
<1>1. /\ c \in Bag /\ Exactly(c, 4) = {x} /\ AtLeast(c, 4) = {x}
      /\ \A r \in Rank : c[r] = IF r \in {x} THEN 4 ELSE 0
  BY CopiesAre
<1>2. Size(c) = 4
  BY SizeOne
<1>3. Highest({x}) = x /\ Cardinality({x}) = 1
  BY HighestOne
<1> HIDE DEF c
<1>4. Key(c) = x
  <2>1. \A r \in Rank : c[r] <= 4
    BY <1>1
  <2> QED  BY <1>1, <1>3, <2>1, KeyIs
<1> QED  BY <1>1, <1>2, <1>3, <1>4 DEF GetCardType, FourType, c

\* The jokers are the missile.
LEMMA MissileBuild == GetCardType(Missile) = "CT_MISSILE_CARD"
<1>1. {16, 17} \in SUBSET Rank /\ {16, 17} # {}
  BY DEF Rank
<1>2. /\ Missile \in Bag /\ Held(Missile) = {16, 17}
      /\ AtLeast(Missile, 4) = {} /\ AtLeast(Missile, 3) = {}
  BY <1>1, CopiesAre DEF Missile
<1>3. Cardinality({16, 17}) # 1
  <2> SUFFICES ASSUME Cardinality({16, 17}) = 1 PROVE FALSE
    OBVIOUS
  <2>1. PICK x \in Rank : {16, 17} = {x}
    BY <1>1, OneRank
  <2> QED  BY <2>1
<1>4. GetCardType(Missile) = FlatType(Missile)
  BY <1>2 DEF GetCardType
<1> QED  BY <1>2, <1>3, <1>4 DEF FlatType

\* An answer the hand holds and the table is beaten by.
Answers(hand, turn, cards) == cards \in Bag /\ Within(cards, hand) /\ CompareRanks(turn, cards)

\* The search finds a bomb, or the jokers, wherever one of them beats the table; only for the
\* jokers on the table it does not look for a bomb.
LEMMA BombFound ==
  ASSUME NEW hand \in Bag, NEW turn \in Bag, GetCardType(turn) # "CT_MISSILE_CARD",
         \/ \E x \in Rank : /\ hand[x] = 4
                            /\ GetCardType(turn) = "CT_BOMB_CARD" => x > Key(turn)
         \/ Within(Missile, hand)
  PROVE  Answers(hand, turn, SearchBomb(hand, turn, GetCardType(turn)))
<1> DEFINE type == GetCardType(turn)
           bombs == {r \in Exactly(hand, 4) : type = "CT_BOMB_CARD" => r > Key(turn)}
           found == SearchBomb(hand, turn, type)
<1>1. bombs \in SUBSET Rank
  BY DEF Exactly
<1>2. CASE bombs # {}
  <2> DEFINE x == Lowest(bombs)
  <2>1. x \in bombs
    <3>1. bombs \in SUBSET Nat
      BY <1>1 DEF Rank
    <3> QED  BY <1>2, <3>1, LowestIn
  <2>2. x \in Rank /\ hand[x] = 4 /\ (type = "CT_BOMB_CARD" => x > Key(turn))
    BY <1>1, <2>1 DEF Exactly
  <2>3. found = Copies({x}, 4)
    BY <1>2 DEF SearchBomb
  <2> HIDE DEF x, found, bombs
  <2>4. /\ GetCardType(found) = "CT_BOMB_CARD" /\ Size(found) = 4 /\ Key(found) = x
        /\ found \in Bag /\ \A r \in Rank : found[r] = IF r \in {x} THEN 4 ELSE 0
    BY <2>2, <2>3, BombBuild, CopiesAre
  <2>5. Within(found, hand)
    <3>1. \A r \in Rank : hand[r] \in 0..4
      BY BagCounts
    <3> QED  BY <2>2, <2>4, <3>1 DEF Within
  <2>6. CompareRanks(turn, found)
    <3>1. CASE type = "CT_BOMB_CARD"
      <4>1. Size(turn) = 4
        BY <3>1, FourRead
      <4> QED  BY <2>2, <2>4, <3>1, <4>1 DEF CompareRanks
    <3>2. CASE type # "CT_BOMB_CARD"
      BY <2>4, <3>2 DEF CompareRanks
    <3> QED  BY <3>1, <3>2
  <2> QED  BY <2>4, <2>5, <2>6 DEF Answers, found
<1>3. CASE bombs = {}
  <2>1. Within(Missile, hand)
    BY <1>3 DEF Exactly
  <2>2. found = Missile
    BY <1>3, <2>1 DEF SearchBomb
  <2>3. Missile \in Bag
    <3>1. {16, 17} \in SUBSET Rank /\ {16, 17} # {}
      BY DEF Rank
    <3> QED  BY <3>1, CopiesAre DEF Missile
  <2>4. CompareRanks(turn, Missile)
    BY MissileBuild DEF CompareRanks
  <2> QED  BY <2>1, <2>2, <2>3, <2>4 DEF Answers
<1> QED  BY <1>2, <1>3

\* A play that beats the table is the jokers, a bomb that beats it, or a higher one of its type.
LEMMA HowBeaten ==
  ASSUME NEW hand \in Bag, NEW turn \in Bag, NEW play \in Bag, Answers(hand, turn, play)
  PROVE  \/ \E x \in Rank : /\ hand[x] = 4
                            /\ GetCardType(turn) = "CT_BOMB_CARD" => x > Key(turn)
         \/ Within(Missile, hand)
         \/ /\ GetCardType(play) = GetCardType(turn)
            /\ GetCardType(play) \notin {"CT_ERROR", "CT_BOMB_CARD", "CT_MISSILE_CARD"}
            /\ Size(play) = Size(turn) /\ Key(play) > Key(turn)
<1>1. CASE GetCardType(play) = "CT_MISSILE_CARD"
  <2>1. play = Missile
    BY <1>1, MissileRead
  <2> QED  BY <2>1 DEF Answers
<1>2. CASE GetCardType(play) = "CT_BOMB_CARD"
  <2>1. PICK x \in Rank : play = Copies({x}, 4) /\ Key(play) = x
    BY <1>2, FourRead
  <2>2. play[x] = 4
    BY <2>1 DEF Copies
  <2>3. hand[x] = 4
    <3>1. hand[x] \in 0..4 /\ play[x] \in 0..hand[x]
      BY BagCounts DEF Answers, Within
    <3> QED  BY <2>2, <3>1
  <2>4. GetCardType(turn) = "CT_BOMB_CARD" => x > Key(turn)
    BY <1>2, <2>1 DEF Answers, CompareRanks
  <2> QED  BY <2>3, <2>4
<1>3. CASE GetCardType(play) \notin {"CT_BOMB_CARD", "CT_MISSILE_CARD"}
  BY <1>3 DEF Answers, CompareRanks
<1> QED  BY <1>1, <1>2, <1>3

\* Single cards, pairs and triples: what the search finds beats the table, and if it finds
\* nothing and there was something the hand holds a four.
LEMMA SameFound ==
  ASSUME NEW hand \in Bag, NEW turn \in Bag,
         GetCardType(turn) \in {"CT_SINGLE", "CT_DOUBLE", "CT_THREE"}
  PROVE  LET found == SearchSame(hand, Size(turn), Key(turn))
         IN  /\ found # Empty => Answers(hand, turn, found)
             /\ \A play \in Bag :
                  /\ Within(play, hand) /\ GetCardType(play) = GetCardType(turn)
                  /\ Size(play) = Size(turn) /\ Key(play) > Key(turn)
                  => found # Empty \/ \E x \in Rank : hand[x] = 4
<1>1. PICK y \in Rank, n \in 1..3 :
         /\ turn = Copies({y}, n) /\ GetCardType(turn) = SameType(n)
         /\ Size(turn) = n /\ Key(turn) = y
  BY SameRead
<1> DEFINE ranks(k) == {r \in Exactly(hand, k) : r > y}
           some == {k \in n..3 : ranks(k) # {}}
           found == SearchSame(hand, n, y)
<1>2. some \in SUBSET (1..3) /\ \A k \in some : k >= n
  OBVIOUS
<1>3. found = IF some = {} THEN Empty ELSE Copies({Lowest(ranks(Lowest(some)))}, n)
  BY DEF SearchSame
<1>4. ASSUME some # {} PROVE found # Empty /\ Answers(hand, turn, found)
  <2> DEFINE k == Lowest(some)
             x == Lowest(ranks(k))
  <2>1. k \in some
    <3>1. some \in SUBSET Nat
      BY <1>2
    <3> QED  BY <1>4, <3>1, LowestIn
  <2>2. x \in ranks(k)
    <3>1. ranks(k) \in SUBSET Nat /\ ranks(k) # {}
      <4>1. Exactly(hand, k) \in SUBSET Rank /\ Rank \in SUBSET Nat
        BY DEF Exactly, Rank
      <4> QED  BY <2>1, <4>1
    <3> QED  BY <3>1, LowestIn
  <2>3. k \in 1..3 /\ k >= n /\ x \in Rank /\ hand[x] = k /\ x > y
    BY <1>2, <2>1, <2>2 DEF Exactly
  <2>4. found = Copies({x}, n)
    BY <1>3, <1>4
  <2> HIDE DEF k, x, found
  <2>5. /\ found \in Bag /\ found # Empty
        /\ \A r \in Rank : found[r] = IF r \in {x} THEN n ELSE 0
    BY <2>3, <2>4, CopiesAre
  <2>6. GetCardType(found) = SameType(n) /\ Size(found) = n /\ Key(found) = x
    BY <2>3, <2>4, SameBuild
  <2>7. Within(found, hand)
    <3>1. \A r \in Rank : hand[r] \in 0..4
      BY BagCounts
    <3> QED  BY <2>3, <2>5, <3>1 DEF Within
  <2>8. CompareRanks(turn, found)
    <3>1. SameType(n) # "CT_ERROR"
      BY DEF SameType
    <3> QED  BY <1>1, <2>3, <2>6, <3>1 DEF CompareRanks
  <2> QED  BY <2>5, <2>7, <2>8 DEF Answers
<1>5. ASSUME NEW play \in Bag, Within(play, hand), GetCardType(play) = GetCardType(turn),
             Size(play) = Size(turn), Key(play) > Key(turn)
      PROVE  some # {} \/ \E x \in Rank : hand[x] = 4
  <2>1. PICK x \in Rank, m \in 1..3 : play = Copies({x}, m) /\ Size(play) = m /\ Key(play) = x
    BY <1>1, <1>5, SameRead
  <2>2. m = n /\ x > y /\ play[x] = n
    BY <1>1, <1>5, <2>1 DEF Copies
  <2>3. hand[x] \in 0..4 /\ hand[x] >= n
    <3>1. hand[x] \in 0..4 /\ play[x] \in 0..hand[x]
      BY <1>5, BagCounts DEF Within
    <3> QED  BY <2>2, <3>1
  <2>4. CASE hand[x] = 4
    BY <2>4
  <2>5. CASE hand[x] # 4
    <3>1. hand[x] \in n..3 /\ x \in ranks(hand[x])
      BY <2>2, <2>3, <2>5 DEF Exactly
    <3> QED  BY <3>1
  <2> QED  BY <2>4, <2>5
<1> HIDE DEF some
<1>6. found # Empty => some # {}
  BY <1>3
<1> HIDE DEF found
<1>7. found = SearchSame(hand, Size(turn), Key(turn))
  BY <1>1 DEF found
<1> QED  BY <1>4, <1>5, <1>6, <1>7

\* Lines of single cards and of pairs, in the same way.
LEMMA LineFound ==
  ASSUME NEW hand \in Bag, NEW turn \in Bag, NEW n \in 1..2, GetCardType(turn) = LineType(n)
  PROVE  LET found == SearchLine(hand, Cardinality(Held(turn)), n, Key(turn))
         IN  /\ found # Empty => Answers(hand, turn, found)
             /\ \A play \in Bag :
                  /\ Within(play, hand) /\ GetCardType(play) = GetCardType(turn)
                  /\ Size(play) = Size(turn) /\ Key(play) > Key(turn)
                  => found # Empty
<1> DEFINE len == Cardinality(Held(turn))
           y == Key(turn)
           tops == LineTops(hand, len, n, y)
           found == SearchLine(hand, len, n, y)
<1>1. /\ len \in Nat /\ len >= (IF n = 1 THEN 5 ELSE 3) /\ y \in Rank
      /\ Size(turn) = len * n
  BY LineRead
<1>2. len \in Nat \ {0} /\ len > 1 /\ len >= 3
  BY <1>1
<1>3. found = IF tops = {} THEN Empty ELSE Copies(Line(Lowest(tops), len), n)
  BY DEF SearchLine
<1>4. \A r \in Rank : hand[r] \in 0..4
  BY BagCounts
<1> HIDE DEF len, y
<1>5. ASSUME tops # {} PROVE found # Empty /\ Answers(hand, turn, found)
  <2> DEFINE t == Lowest(tops)
  <2>1. t \in tops
    <3>1. tops \in SUBSET Nat
      BY DEF LineTops, AtLeast, Rank
    <3> QED  BY <1>5, <3>1, LowestIn
  <2>2. /\ t \in Rank /\ t > y /\ t < Two
        /\ Line(t, len) \in SUBSET Rank /\ \A r \in Line(t, len) : hand[r] >= n
    BY <1>2, <2>1 DEF LineTops, AtLeast
  <2>3. found = Copies(Line(t, len), n)
    BY <1>3, <1>5
  <2> HIDE DEF t, found, tops
  <2>4. Line(t, len) # {}
    BY <1>2, <2>2, LineIs
  <2>5. /\ found \in Bag /\ found # Empty
        /\ \A r \in Rank : found[r] = IF r \in Line(t, len) THEN n ELSE 0
    BY <2>2, <2>3, <2>4, CopiesAre
  <2>6. GetCardType(found) = LineType(n) /\ Size(found) = len * n /\ Key(found) = t
    BY <1>1, <2>2, <2>3, LineBuild
  <2>7. Within(found, hand)
    BY <1>4, <2>2, <2>5 DEF Within
  <2>8. CompareRanks(turn, found)
    <3>1. LineType(n) \notin {"CT_ERROR"}
      BY DEF LineType
    <3> QED  BY <1>1, <2>2, <2>6, <3>1 DEF CompareRanks, y
  <2> QED  BY <2>5, <2>7, <2>8 DEF Answers
<1>6. ASSUME NEW play \in Bag, Within(play, hand), GetCardType(play) = GetCardType(turn),
             Size(play) = Size(turn), Key(play) > Key(turn)
      PROVE  tops # {}
  <2> DEFINE m == Cardinality(Held(play))
             x == Key(play)
  <2>1. /\ m \in Nat /\ x \in Rank /\ x < Two /\ Line(x, m) \in SUBSET Rank
        /\ play = Copies(Line(x, m), n) /\ Size(play) = m * n
    BY <1>6, LineRead
  <2>2. x > y
    BY <1>6 DEF y
  <2> HIDE DEF m, x
  <2>3. m = len
    BY <1>1, <1>6, <2>1
  <2>4. \A r \in Line(x, len) : hand[r] >= n
    <3> TAKE r \in Line(x, len)
    <3>1. r \in Rank /\ play[r] = n
      BY <2>1, <2>3 DEF Copies
    <3>2. hand[r] \in 0..4 /\ play[r] \in 0..hand[r]
      BY <1>4, <1>6, <3>1 DEF Within
    <3> QED  BY <3>1, <3>2
  <2>5. x \in Line(x, len)
    BY <1>2, <2>1, <2>3, LineIs
  <2>6. x \in tops
    BY <2>1, <2>2, <2>3, <2>4, <2>5 DEF LineTops, AtLeast
  <2> QED  BY <2>6
<1> HIDE DEF tops, found
<1>7. found # Empty => tops # {}
  BY <1>3
<1> QED  BY <1>5, <1>6, <1>7 DEF found, len, y

-----------------------------------------------------------------------------
(* Triples.                                                                *)

\* k cards each of some ranks, however many ranks there are.
LEMMA SizeSet ==
  ASSUME NEW S \in SUBSET Rank, NEW k \in Int
  PROVE  Cardinality(S) \in Nat /\ Size(Copies(S, k)) = Cardinality(S) * k
<1> DEFINE wrong == {n \in Nat : \E T \in SUBSET Rank :
                        Cardinality(T) = n /\ Size(Copies(T, k)) # Cardinality(T) * k}
<1>1. ASSUME NEW T \in SUBSET Rank PROVE IsFiniteSet(T) /\ Cardinality(T) \in Nat
  BY RanksFinite, FS_CardinalityType
<1>2. wrong = {}
  <2> SUFFICES ASSUME wrong # {} PROVE FALSE
    OBVIOUS
  <2>1. PICK m \in wrong : \A i \in wrong : m <= i
    BY LeastNumber
  <2>2. PICK T \in SUBSET Rank : Cardinality(T) = m /\ Size(Copies(T, k)) # Cardinality(T) * k
    BY <2>1
  <2>3. CASE T = {}
    <3>1. Copies(T, k) = Empty
      BY <2>3 DEF Copies, Empty
    <3>2. Cardinality(T) = 0
      BY <2>3, FS_EmptySet
    <3> QED  BY <2>2, <3>1, <3>2, SizeEmpty
  <2>4. CASE T # {}
    <3>1. PICK q \in T : TRUE
      BY <2>4
    <3> DEFINE U == T \ {q}
    <3>2. U \in SUBSET Rank /\ q \in Rank \ U /\ T = U \cup {q}
      OBVIOUS
    <3> HIDE DEF U
    <3>3. Cardinality(T) = Cardinality(U) + 1
      BY <1>1, <3>2, FS_AddElement
    <3>4. Cardinality(U) \in Nat
      BY <1>1, <3>2
    <3>5. Size(Copies(U, k)) = Cardinality(U) * k
      <4>1. Cardinality(U) \notin wrong
        BY <2>1, <2>2, <3>3, <3>4
      <4> QED  BY <3>2, <3>4, <4>1
    <3>6. Size(Copies(T, k)) = Size(Copies(U, k)) + k
      BY <3>2, SizeCopies
    <3>7. Cardinality(U) * k + k = (Cardinality(U) + 1) * k
      BY <3>4
    <3> QED  BY <2>2, <3>3, <3>5, <3>6, <3>7
  <2> QED  BY <2>3, <2>4
<1> QED  BY <1>1, <1>2

\* The first so many ranks, in the order in which cards are attached, are so many.
LEMMA FirstOf ==
  ASSUME NEW cards \in Bag, NEW S \in SUBSET Rank, NEW many \in Nat, many <= Cardinality(S)
  PROVE  Cardinality({r \in S :
           Cardinality({q \in S : AttachedBefore(cards, q, r, TRUE)}) < many}) = many
<1> DEFINE ahead(r) == {q \in S : AttachedBefore(cards, q, r, TRUE)}
           first(n) == {r \in S : Cardinality(ahead(r)) < n}
           place(r) == Order(cards, r, TRUE)
           wrong == {n \in Nat : n <= Cardinality(S) /\ Cardinality(first(n)) # n}
<1>1. ASSUME NEW T \in SUBSET Rank PROVE IsFiniteSet(T) /\ Cardinality(T) \in Nat
  BY RanksFinite, FS_CardinalityType
<1>2. /\ \A r \in Rank : place(r) \in 0..97
      /\ \A q, r \in Rank : AttachedBefore(cards, q, r, TRUE) <=> place(q) < place(r)
      /\ \A q, r \in Rank : place(q) = place(r) => q = r
  BY OrderPlace
<1>3. \A r \in S : ahead(r) \in SUBSET Rank /\ ahead(r) = {q \in S : place(q) < place(r)}
  BY <1>2
<1> HIDE DEF place, ahead
<1>4. \A n \in Nat : first(n) \in SUBSET S /\ first(n) \in SUBSET Rank
  OBVIOUS
<1>5. first(0) = {}
  <2>1. \A r \in S : Cardinality(ahead(r)) \in Nat
    BY <1>1, <1>3
  <2> QED  BY <2>1
<1>6. ASSUME NEW n \in Nat, n < Cardinality(S), Cardinality(first(n)) = n
      PROVE  Cardinality(first(n + 1)) = n + 1
  <2> DEFINE F == first(n)
             G == first(n + 1)
             rest == S \ F
  <2>1. rest # {}
    <3> SUFFICES ASSUME rest = {} PROVE FALSE
      OBVIOUS
    <3>1. F = S
      BY <1>4
    <3> QED  BY <1>6, <3>1
  <2>2. PICK m \in rest : \A r \in rest : place(m) <= place(r)
    <3> DEFINE W == {place(r) : r \in rest}
    <3>1. W \in SUBSET Nat /\ W # {}
      BY <1>2, <2>1
    <3>2. PICK w \in W : \A v \in W : w <= v
      BY <3>1, LeastNumber
    <3> QED  BY <3>2
  <2>3. \A r \in S : r \in F <=> Cardinality(ahead(r)) < n
    OBVIOUS
  <2>4. \A r \in S : r \in G <=> Cardinality(ahead(r)) < n + 1
    OBVIOUS
  <2>5. F \in SUBSET S /\ G \in SUBSET S /\ m \in S /\ m \notin F /\ Cardinality(F) = n
    BY <1>4, <1>6, <2>2
  <2>6. \A r \in S : r \notin F => place(m) <= place(r)
    BY <2>2
  <2> HIDE DEF F, G, rest
  <2>7. \A r \in S : Cardinality(ahead(r)) \in Nat /\ IsFiniteSet(ahead(r))
    BY <1>1, <1>3
  <2>8. ahead(m) = F
    <3>1. ASSUME NEW q \in ahead(m) PROVE q \in F
      <4>1. q \in S /\ place(q) < place(m)
        BY <1>3, <2>5, <3>1
      <4>2. place(q) \in 0..97 /\ place(m) \in 0..97
        BY <1>2, <2>5, <4>1
      <4> QED  BY <2>6, <4>1, <4>2
    <3>2. ASSUME NEW q \in F PROVE q \in ahead(m)
      <4>1. q \in S /\ place(q) \in 0..97 /\ place(m) \in 0..97
        BY <1>2, <2>5
      <4>2. CASE place(q) < place(m)
        BY <1>3, <2>5, <4>1, <4>2
      <4>3. CASE place(q) = place(m)
        BY <1>2, <2>5, <4>1, <4>3
      <4>4. CASE place(q) > place(m)
        <5>1. ahead(m) \subseteq ahead(q)
          <6> SUFFICES ASSUME NEW x \in ahead(m) PROVE x \in ahead(q)
            OBVIOUS
          <6>1. x \in S /\ place(x) < place(m)
            BY <1>3, <2>5
          <6>2. place(x) \in 0..97
            BY <1>2, <6>1
          <6>3. place(x) < place(q)
            BY <4>1, <4>4, <6>1, <6>2
          <6> QED  BY <1>3, <4>1, <6>1, <6>3
        <5>2. Cardinality(ahead(m)) <= Cardinality(ahead(q))
          BY <2>7, <4>1, <5>1, FS_Subset
        <5>3. Cardinality(ahead(q)) < n
          BY <2>3, <4>1
        <5>4. Cardinality(ahead(m)) < n
          BY <2>5, <2>7, <4>1, <5>2, <5>3
        <5> QED  BY <2>3, <2>5, <5>4
      <4> QED  BY <4>1, <4>2, <4>3, <4>4
    <3> QED  BY <3>1, <3>2
  <2>9. G = F \cup {m}
    <3>1. ASSUME NEW r \in F PROVE r \in G
      <4>1. Cardinality(ahead(r)) < n /\ Cardinality(ahead(r)) \in Nat /\ r \in S
        BY <2>3, <2>5, <2>7
      <4> QED  BY <2>4, <4>1
    <3>2. m \in G
      BY <2>4, <2>5, <2>8
    <3>3. ASSUME NEW r \in G, r \notin F, r # m PROVE FALSE
      <4>1. r \in S /\ place(r) \in 0..97 /\ place(m) \in 0..97 /\ place(m) # place(r)
        BY <1>2, <2>5, <3>3
      <4>2. place(m) < place(r)
        BY <2>6, <3>3, <4>1
      <4>3. F \cup {m} \subseteq ahead(r)
        <5>1. m \in ahead(r)
          BY <1>3, <2>5, <4>1, <4>2
        <5>2. ASSUME NEW q \in F PROVE q \in ahead(r)
          <6>1. q \in S /\ place(q) < place(m) /\ place(q) \in 0..97
            BY <1>2, <1>3, <2>5, <2>8
          <6>2. place(q) < place(r)
            BY <4>1, <4>2, <6>1
          <6> QED  BY <1>3, <4>1, <6>1, <6>2
        <5> QED  BY <5>1, <5>2
      <4>4. IsFiniteSet(F) /\ Cardinality(F \cup {m}) = n + 1
        <5>1. IsFiniteSet(F)
          BY <1>1, <2>5
        <5> QED  BY <2>5, <5>1, FS_AddElement
      <4>5. Cardinality(F \cup {m}) <= Cardinality(ahead(r))
        BY <2>7, <4>1, <4>3, FS_Subset
      <4>6. Cardinality(ahead(r)) < n + 1
        BY <2>4, <3>3, <4>1
      <4> QED  BY <2>7, <4>1, <4>4, <4>5, <4>6
    <3> QED  BY <3>1, <3>2, <3>3
  <2>10. IsFiniteSet(F)
    BY <1>1, <2>5
  <2>11. Cardinality(G) = n + 1
    BY <2>5, <2>9, <2>10, FS_AddElement
  <2> QED  BY <2>11 DEF G
<1> HIDE DEF first
<1>7. wrong = {}
  <2> SUFFICES ASSUME wrong # {} PROVE FALSE
    OBVIOUS
  <2>1. PICK m \in wrong : \A i \in wrong : m <= i
    BY LeastNumber
  <2>2. m # 0
    BY <1>5, <2>1, FS_EmptySet
  <2>3. m - 1 \in Nat /\ m - 1 \notin wrong /\ m <= Cardinality(S) /\ Cardinality(S) \in Nat
    BY <1>1, <2>1, <2>2
  <2>4. Cardinality(first(m - 1)) = m - 1 /\ m - 1 < Cardinality(S)
    BY <2>3
  <2>5. Cardinality(first((m - 1) + 1)) = (m - 1) + 1
    BY <1>6, <2>3, <2>4
  <2>6. (m - 1) + 1 = m
    BY <2>3
  <2> QED  BY <2>1, <2>5, <2>6
<1>8. Cardinality(first(many)) = many
  BY <1>7
<1> QED  BY <1>8 DEF first, ahead

\* The triples of a line taken out of a hand.
LEMMA TripleLine ==
  ASSUME NEW hand \in Bag, NEW len \in Nat \ {0}, NEW y \in Nat,
         NEW t \in LineTops(hand, len, 3, y)
  PROVE  LET L    == Line(t, len)
             line == Copies(L, 3)
             spare == Minus(hand, line)
         IN  /\ t \in Rank /\ t > y /\ L \in SUBSET Rank /\ IsLine(L)
             /\ \A r \in L : hand[r] >= 3
             /\ line \in Bag /\ spare \in Bag
             /\ \A r \in Rank : line[r] = (IF r \in L THEN 3 ELSE 0) /\ spare[r] = hand[r] - line[r]
             /\ \A r \in L : spare[r] \in 0..1
             /\ Size(line) = 3 * len /\ Size(hand) = 3 * len + Size(spare)
<1> DEFINE L    == Line(t, len)
           line == Copies(L, 3)
           spare == Minus(hand, line)
<1>1. /\ t \in Rank /\ t > y /\ (len > 1 => t < Two)
      /\ L \in SUBSET Rank /\ \A r \in L : hand[r] >= 3
  BY DEF LineTops, AtLeast
<1>2. L # {} /\ IsLine(L)
  BY <1>1, LineIs, LineIsLine
<1>3. line \in Bag /\ \A r \in Rank : line[r] = IF r \in L THEN 3 ELSE 0
  BY <1>1, <1>2, CopiesAre
<1>4. Size(line) = len * 3
  BY <1>1, SizeLine
<1> HIDE DEF L
<1>5. \A r \in Rank : hand[r] \in 0..4
  BY BagCounts
<1>6. line = [r \in Rank |-> line[r]]
  BY <1>3, Zenon DEF Bag
<1> HIDE DEF line
<1>7. Within(line, hand)
  BY <1>1, <1>3, <1>5 DEF Within
<1>8. spare \in Bag
  BY <1>3, <1>6, <1>7, TakeType
<1>9. \A r \in Rank : spare[r] = hand[r] - line[r]
  BY DEF Minus
<1> HIDE DEF spare
<1>10. \A r \in L : spare[r] \in 0..1
  BY <1>1, <1>3, <1>5, <1>9
<1>11. Size(hand) = Size(line) + Size(spare)
  <2>1. hand \in Counts /\ line \in Counts /\ spare \in Counts
    BY <1>3, <1>8, BagCounts
  <2>2. \A r \in Rank : hand[r] = line[r] + spare[r]
    <3> TAKE r \in Rank
    <3>1. hand[r] \in 0..4 /\ line[r] \in {0, 3} /\ spare[r] = hand[r] - line[r]
      BY <1>3, <1>5, <1>9
    <3> QED  BY <3>1
  <2> QED  BY <2>1, <2>2, SizeAdds
<1>12. Size(line) = 3 * len /\ Size(hand) = 3 * len + Size(spare)
  BY <1>4, <1>11
<1> QED  BY <1>1, <1>2, <1>3, <1>8, <1>9, <1>10, <1>12 DEF L, line, spare

\* Three cards of each rank of a line and no three of any other: the type goes by how many
\* cards there are.
LEMMA ThreeBuild ==
  ASSUME NEW cards \in Bag, NEW t \in Rank, NEW len \in Nat \ {0}, Line(t, len) \in SUBSET Rank,
         IsLine(Line(t, len)),
         \A r \in Rank : IF r \in Line(t, len) THEN cards[r] = 3 ELSE cards[r] <= 2
  PROVE  /\ Exactly(cards, 3) = Line(t, len) /\ Key(cards) = t
         /\ len > 1 /\ Size(cards) = 3 * len => GetCardType(cards) = "CT_THREE_LINE"
         /\ Size(cards) = 4 * len => GetCardType(cards) = "CT_THREE_TAKE_ONE"
         /\ Size(cards) = 5 * len /\ Cardinality(Exactly(cards, 2)) = len
            => GetCardType(cards) = "CT_THREE_TAKE_TWO"
<1> DEFINE L == Line(t, len)
<1>1. \A r \in Rank : cards[r] \in 0..4
  BY BagCounts
<1>2. Highest(L) = t /\ Cardinality(L) = len /\ t \in L
  BY LineIs
<1> HIDE DEF L
<1>3. \A r \in Rank : cards[r] \in 0..3 /\ (cards[r] = 3 <=> r \in L)
  BY <1>1 DEF L
<1>4. Exactly(cards, 3) = L
  BY <1>3 DEF Exactly, L
<1>5. AtLeast(cards, 4) = {} /\ AtLeast(cards, 3) # {}
  <2>1. t \in AtLeast(cards, 3)
    BY <1>2, <1>3 DEF AtLeast
  <2>2. \A r \in Rank : ~(cards[r] >= 4)
    BY <1>3
  <2> QED  BY <2>1, <2>2 DEF AtLeast
<1>6. Key(cards) = t
  <2>1. \A r \in Rank : cards[r] <= 3
    BY <1>3
  <2> QED  BY <1>2, <1>4, <2>1, KeyIs
<1>7. GetCardType(cards) = ThreeType(cards)
  BY <1>5 DEF GetCardType
<1>8. IsLine(L)
  BY DEF L
<1>9. CASE len > 1 /\ Size(cards) = 3 * len
  <2>1. Size(cards) # 3
    BY <1>9
  <2>2. ThreeType(cards) = "CT_THREE_LINE"
    BY <1>2, <1>4, <1>8, <1>9, <2>1 DEF ThreeType
  <2>3. 3 * len # 4 * len /\ 3 * len # 5 * len
    OBVIOUS
  <2> QED  BY <1>4, <1>6, <1>7, <1>9, <2>2, <2>3 DEF L
<1>10. CASE Size(cards) = 4 * len
  <2>1. Size(cards) # 3 /\ Size(cards) # 3 * len /\ 4 * len # 5 * len
    BY <1>10
  <2>2. ThreeType(cards) = "CT_THREE_TAKE_ONE"
    BY <1>2, <1>4, <1>8, <1>10, <2>1 DEF ThreeType
  <2> QED  BY <1>4, <1>6, <1>7, <1>10, <2>1, <2>2 DEF L
<1>11. CASE Size(cards) = 5 * len /\ Cardinality(Exactly(cards, 2)) = len
  <2>1. Size(cards) # 3 /\ Size(cards) # 3 * len /\ Size(cards) # 4 * len
    BY <1>11
  <2>2. ThreeType(cards) = "CT_THREE_TAKE_TWO"
    BY <1>2, <1>4, <1>8, <1>11, <2>1 DEF ThreeType
  <2> QED  BY <1>4, <1>6, <1>7, <1>11, <2>1, <2>2 DEF L
<1> QED  BY <1>4, <1>6, <1>9, <1>10, <1>11 DEF L

\* The triples of a play of which there is one joker of each kind are a line that ends below
\* the twos, or a single triple.
LEMMA TriplesOf ==
  ASSUME NEW cards \in Bag, cards[16] <= 1, cards[17] <= 1,
         GetCardType(cards) \in {"CT_THREE_LINE", "CT_THREE_TAKE_ONE", "CT_THREE_TAKE_TWO"}
  PROVE  LET len == Cardinality(Exactly(cards, 3))
         IN  /\ len \in Nat \ {0} /\ Key(cards) \in Rank
             /\ Exactly(cards, 3) = Line(Key(cards), len)
             /\ len > 1 => Key(cards) < Two
             /\ GetCardType(cards) = "CT_THREE_LINE" => len > 1 /\ Size(cards) = 3 * len
             /\ GetCardType(cards) = "CT_THREE_TAKE_ONE" => Size(cards) = 4 * len
             /\ GetCardType(cards) = "CT_THREE_TAKE_TWO" =>
                  Size(cards) = 5 * len /\ Cardinality(Exactly(cards, 2)) = len
<1> DEFINE S == Exactly(cards, 3)
           len == Cardinality(S)
<1>1. /\ S # {} /\ IsLine(S) /\ Key(cards) = Highest(S)
      /\ GetCardType(cards) = "CT_THREE_LINE" => Size(cards) = 3 * len /\ Size(cards) # 3
      /\ GetCardType(cards) = "CT_THREE_TAKE_ONE" => Size(cards) = 4 * len
      /\ GetCardType(cards) = "CT_THREE_TAKE_TWO" =>
           Size(cards) = 5 * len /\ Cardinality(Exactly(cards, 2)) = len
  BY ThreeRead
<1>2. S \in SUBSET Rank /\ \A r \in S : cards[r] = 3
  BY DEF Exactly
<1> HIDE DEF S
<1>3. /\ len \in Nat \ {0} /\ Highest(S) \in S /\ S = Line(Highest(S), len)
      /\ len > 1 => Two \notin S
  BY <1>1, <1>2, LineOf
<1>4. len > 1 => Key(cards) < Two
  <2>1. \A r \in S : r # 16 /\ r # 17
    BY <1>2
  <2>2. \A r \in Rank : r # 16 /\ r # 17 /\ r # Two => r < Two
    BY DEF Rank, Two
  <2> QED  BY <1>1, <1>2, <1>3, <2>1, <2>2
<1>5. GetCardType(cards) = "CT_THREE_LINE" => len > 1
  <2>1. len = 1 => 3 * len = 3
    OBVIOUS
  <2> QED  BY <1>1, <1>3, <2>1
<1> QED  BY <1>1, <1>2, <1>3, <1>4, <1>5 DEF S

\* The search for triples with what they take: how many triples there are, a line of as many,
\* what is attached to it, and the tops of the lines that find enough.
ThreeLen(turn)   == Cardinality(Exactly(turn, 3))
Tripled(turn, t) == Copies(Line(t, ThreeLen(turn)), 3)
Rest(hand, turn, t) == Minus(hand, Tripled(turn, t))

Taken(hand, turn, type, t) ==
  IF type = "CT_THREE_TAKE_ONE" THEN Attached(Rest(hand, turn, t), ThreeLen(turn), TRUE)
  ELSE IF type = "CT_THREE_TAKE_TWO" THEN PairsAttached(Rest(hand, turn, t), ThreeLen(turn))
  ELSE Empty

Tops(hand, turn, type) ==
  {t \in LineTops(hand, ThreeLen(turn), 3, Key(turn)) :
     3 * ThreeLen(turn) + Size(Taken(hand, turn, type, t)) = Size(turn)}

\* That is what SearchThreeLine does.
LEMMA ThreeSearch ==
  ASSUME NEW hand, NEW turn, NEW type
  PROVE  SearchThreeLine(hand, turn, type) =
           IF Size(hand) < Size(turn) \/ Tops(hand, turn, type) = {} THEN Empty
           ELSE Plus(Tripled(turn, Lowest(Tops(hand, turn, type))),
                     Taken(hand, turn, type, Lowest(Tops(hand, turn, type))))
BY DEF SearchThreeLine, Tops, Taken, Rest, Tripled, ThreeLen

\* What is attached is in what is left of the hand: for a single triple one card at most, for
\* pairs two cards each of some ranks.
LEMMA TakenIs ==
  ASSUME NEW hand \in Bag, NEW turn \in Bag, NEW type, NEW t, ThreeLen(turn) \in Nat \ {0},
         Rest(hand, turn, t) \in Bag
  PROVE  LET spare == Rest(hand, turn, t)
             more == Taken(hand, turn, type, t)
         IN  /\ more \in Bag /\ \A r \in Rank : more[r] \in 0..spare[r]
             /\ type = "CT_THREE_TAKE_ONE" /\ ThreeLen(turn) = 1 => \A r \in Rank : more[r] \in 0..1
             /\ type = "CT_THREE_TAKE_TWO" =>
                  \E P \in SUBSET AtLeast(spare, 2) : more = Copies(P, 2)
             /\ type = "CT_THREE_LINE" => more = Empty
<1> DEFINE spare == Rest(hand, turn, t)
           len  == ThreeLen(turn)
           more == Taken(hand, turn, type, t)
<1>1. \A r \in Rank : spare[r] \in 0..4
  BY BagCounts
<1>2. CASE type = "CT_THREE_TAKE_ONE"
  <2>1. more = Attached(spare, len, TRUE)
    BY <1>2 DEF Taken
  <2>2. /\ more \in Counts /\ \A r \in Rank : more[r] \in 0..spare[r]
        /\ \A r \in Rank : more[r] = LET free == len - Ahead(spare, r, TRUE)
                                     IN  IF free <= 0 THEN 0 ELSE IF free > spare[r] THEN spare[r] ELSE free
    BY <2>1, AttachedAt
  <2>3. \A r \in Rank : Ahead(spare, r, TRUE) \in Nat
    BY EarlyType
  <2> HIDE DEF spare, more, len
  <2>4. more \in Bag
    <3>1. more = [r \in Rank |-> more[r]]
      BY <2>2 DEF Counts
    <3>2. \A r \in Rank : more[r] \in 0..4
      BY <1>1, <2>2
    <3> QED  BY <3>1, <3>2 DEF Bag
  <2>5. len = 1 => \A r \in Rank : more[r] \in 0..1
    <3> SUFFICES ASSUME len = 1, NEW r \in Rank PROVE more[r] \in 0..1
      OBVIOUS
    <3>1. PICK a \in Nat, b \in 0..4 : a = Ahead(spare, r, TRUE) /\ b = spare[r]
      BY <1>1, <2>3
    <3>2. more[r] = IF 1 - a <= 0 THEN 0 ELSE IF 1 - a > b THEN b ELSE 1 - a
      BY <2>2, <3>1
    <3>3. (IF 1 - a <= 0 THEN 0 ELSE IF 1 - a > b THEN b ELSE 1 - a) \in 0..1
      <4>1. CASE a = 0
        BY <4>1
      <4>2. CASE a >= 1
        BY <4>2
      <4> QED  BY <4>1, <4>2
    <3> QED  BY <3>2, <3>3, Zenon
  <2> QED  BY <1>2, <2>2, <2>4, <2>5 DEF spare, more, len
<1>3. CASE type = "CT_THREE_TAKE_TWO"
  <2> DEFINE pairs == AtLeast(spare, 2)
             P == {r \in pairs : Cardinality({q \in pairs : AttachedBefore(spare, q, r, TRUE)}) < len}
  <2>1. more = Copies(P, 2)
    BY <1>3 DEF Taken, PairsAttached
  <2>2. P \in SUBSET AtLeast(spare, 2)
    OBVIOUS
  <2> HIDE DEF P, spare, more, len
  <2>3. \A r \in Rank : more[r] = IF r \in P THEN 2 ELSE 0
    BY <2>1 DEF Copies
  <2>4. \A r \in Rank : more[r] \in 0..spare[r]
    BY <1>1, <2>2, <2>3 DEF AtLeast
  <2>5. more \in Bag
    BY <2>1 DEF Copies, Bag
  <2> QED  BY <1>3, <2>1, <2>2, <2>4, <2>5 DEF spare, more, len
<1>4. CASE type \notin {"CT_THREE_TAKE_ONE", "CT_THREE_TAKE_TWO"}
  <2>1. more = Empty /\ Empty \in Bag
    BY <1>4, EmptyType DEF Taken
  <2>2. \A r \in Rank : Empty[r] \in 0..spare[r]
    BY <1>1 DEF Empty
  <2> HIDE DEF spare, more, len
  <2> QED  BY <1>4, <2>1, <2>2 DEF spare, more, len
<1> QED  BY <1>2, <1>3, <1>4

\* What the search finds beats the table.
LEMMA ThreeSound ==
  ASSUME NEW hand \in Bag, NEW turn \in Bag, turn[16] <= 1, turn[17] <= 1,
         NEW type, type = GetCardType(turn),
         type \in {"CT_THREE_LINE", "CT_THREE_TAKE_ONE", "CT_THREE_TAKE_TWO"},
         type = "CT_THREE_TAKE_ONE" => Size(turn) = 4,
         NEW t \in Tops(hand, turn, type)
  PROVE  Answers(hand, turn, Plus(Tripled(turn, t), Taken(hand, turn, type, t)))
<1> DEFINE len   == ThreeLen(turn)
           y     == Key(turn)
           L     == Line(t, len)
           line  == Tripled(turn, t)
           spare == Rest(hand, turn, t)
           more  == Taken(hand, turn, type, t)
           found == Plus(line, more)
<1>1. /\ len \in Nat \ {0} /\ y \in Rank
      /\ type = "CT_THREE_LINE" => len > 1 /\ Size(turn) = 3 * len
      /\ type = "CT_THREE_TAKE_ONE" => len = 1 /\ Size(turn) = 4 * len
      /\ type = "CT_THREE_TAKE_TWO" => Size(turn) = 5 * len
  BY TriplesOf DEF ThreeLen
<1>2. t \in LineTops(hand, len, 3, y) /\ 3 * len + Size(more) = Size(turn)
  BY DEF Tops
<1>3. /\ t \in Rank /\ t > y /\ L \in SUBSET Rank /\ IsLine(L)
      /\ \A r \in L : hand[r] >= 3
      /\ line \in Bag /\ spare \in Bag
      /\ \A r \in Rank : line[r] = (IF r \in L THEN 3 ELSE 0) /\ spare[r] = hand[r] - line[r]
      /\ \A r \in L : spare[r] \in 0..1
      /\ Size(line) = 3 * len
  <2>1. y \in Nat
    BY <1>1 DEF Rank
  <2> QED  BY <1>1, <1>2, <2>1, TripleLine DEF Tripled, Rest
<1>4. /\ more \in Bag /\ \A r \in Rank : more[r] \in 0..spare[r]
      /\ type = "CT_THREE_TAKE_ONE" => \A r \in Rank : more[r] \in 0..1
      /\ type = "CT_THREE_TAKE_TWO" => \E P \in SUBSET AtLeast(spare, 2) : more = Copies(P, 2)
      /\ type = "CT_THREE_LINE" => more = Empty
  BY <1>1, <1>3, TakenIs
<1>5. t \in L /\ L # {}
  BY <1>1, <1>3, LineIs
<1> HIDE DEF y, L, line, spare, more
<1>6. \A r \in Rank : found[r] = line[r] + more[r]
  BY DEF Plus
<1>7. \A r \in Rank : found[r] \in 0..hand[r] /\ hand[r] \in 0..4
  <2> TAKE r \in Rank
  <2>1. hand[r] \in 0..4 /\ line[r] \in {0, 3} /\ spare[r] = hand[r] - line[r] /\ more[r] \in 0..spare[r]
    BY <1>3, <1>4, BagCounts
  <2> QED  BY <1>6, <2>1
<1>8. found \in Bag
  <2>1. \A r \in Rank : found[r] \in 0..4
    BY <1>7
  <2>2. found = [r \in Rank |-> found[r]]
    BY DEF Plus
  <2> QED  BY <2>1, <2>2 DEF Bag
<1> HIDE DEF found
<1>9. Within(found, hand)
  BY <1>7 DEF Within
<1>10. Size(found) = Size(turn)
  <2>1. line \in Counts /\ more \in Counts /\ found \in Counts
    BY <1>3, <1>4, <1>8, BagCounts
  <2>2. Size(found) = Size(line) + Size(more)
    BY <1>6, <2>1, SizeAdds
  <2> QED  BY <1>2, <1>3, <2>2
<1>11. SUFFICES CompareRanks(turn, found)
  BY <1>8, <1>9 DEF Answers, found, line, more
<1>12. ASSUME \A r \in Rank : IF r \in L THEN found[r] = 3 ELSE found[r] <= 2,
              type = "CT_THREE_TAKE_TWO" => Cardinality(Exactly(found, 2)) = len
       PROVE  CompareRanks(turn, found)
  <2> HIDE DEF len
  <2>1. /\ Key(found) = t
        /\ len > 1 /\ Size(found) = 3 * len => GetCardType(found) = "CT_THREE_LINE"
        /\ Size(found) = 4 * len => GetCardType(found) = "CT_THREE_TAKE_ONE"
        /\ Size(found) = 5 * len /\ Cardinality(Exactly(found, 2)) = len
            => GetCardType(found) = "CT_THREE_TAKE_TWO"
    BY <1>1, <1>3, <1>8, <1>12, ThreeBuild DEF L
  <2>2. GetCardType(found) = type
    BY <1>1, <1>10, <1>12, <2>1
  <2> QED  BY <1>3, <1>10, <2>1, <2>2 DEF CompareRanks, y
<1>13. CASE type = "CT_THREE_LINE"
  <2>1. \A r \in Rank : more[r] = 0
    BY <1>4, <1>13 DEF Empty
  <2>2. \A r \in Rank : IF r \in L THEN found[r] = 3 ELSE found[r] <= 2
    BY <1>3, <1>6, <2>1
  <2> QED  BY <1>12, <1>13, <2>2
<1>14. CASE type = "CT_THREE_TAKE_TWO"
  <2>1. PICK P \in SUBSET AtLeast(spare, 2) : more = Copies(P, 2)
    BY <1>4, <1>14
  <2>2. \A r \in Rank : more[r] = IF r \in P THEN 2 ELSE 0
    BY <2>1 DEF Copies
  <2>3. P \in SUBSET Rank /\ \A r \in P : r \notin L
    BY <1>3, <2>1 DEF AtLeast
  <2>4. \A r \in Rank : found[r] = IF r \in L THEN 3 ELSE IF r \in P THEN 2 ELSE 0
    BY <1>3, <1>6, <2>2, <2>3
  <2>5. Exactly(found, 2) = P
    BY <2>3, <2>4 DEF Exactly
  <2>6. Cardinality(P) \in Nat /\ Size(more) = Cardinality(P) * 2
    BY <2>1, <2>3, SizeSet
  <2>7. Cardinality(P) = len
    BY <1>1, <1>2, <1>14, <2>6
  <2> QED  BY <1>12, <2>4, <2>5, <2>7
<1>15. CASE type = "CT_THREE_TAKE_ONE"
  <2>1. len = 1 /\ L = {t} /\ \A r \in Rank : more[r] \in 0..1
    <3>1. Line(t, 1) = {t}
      BY <1>3 DEF Line, Rank
    <3> QED  BY <1>1, <1>4, <1>15, <3>1 DEF L
  <2>2. Size(more) = 1
    <3>1. Size(more) \in Nat
      BY <1>4, SizeType
    <3>2. 3 * 1 + Size(more) = 4
      BY <1>1, <1>2, <1>15
    <3> QED  BY <3>1, <3>2
  <2>3. PICK x \in Rank : Held(more) = {x}
    BY <1>4, <2>2, OneCard
  <2>4. \A r \in Rank : more[r] = IF r = x THEN 1 ELSE 0
    BY <2>1, <2>3 DEF Held
  <2>5. CASE x = t
    <3>1. \A r \in Rank : found[r] = IF r \in {t} THEN 4 ELSE 0
      BY <1>3, <1>6, <2>1, <2>4, <2>5
    <3>2. found = Copies({t}, 4)
      <4>1. found = [r \in Rank |-> found[r]]
        BY <1>8 DEF Bag
      <4> QED  BY <3>1, <4>1, Zenon DEF Copies
    <3> QED  BY <1>3, <1>15, <3>2, BombBuild DEF CompareRanks
  <2>6. CASE x # t
    <3>1. \A r \in Rank : IF r \in L THEN found[r] = 3 ELSE found[r] <= 2
      BY <1>3, <1>6, <2>1, <2>4, <2>6
    <3> QED  BY <1>12, <1>15, <3>1
  <2> QED  BY <2>5, <2>6
<1> QED  BY <1>13, <1>14, <1>15

\* And if a hand that holds one joker of each kind has a higher play of the type, it finds one.
LEMMA ThreeComplete ==
  ASSUME NEW hand \in Bag, NEW turn \in Bag, hand[16] <= 1, hand[17] <= 1,
         turn[16] <= 1, turn[17] <= 1,
         NEW type, type = GetCardType(turn),
         type \in {"CT_THREE_LINE", "CT_THREE_TAKE_ONE", "CT_THREE_TAKE_TWO"},
         type = "CT_THREE_TAKE_ONE" => Size(turn) = 4,
         NEW play \in Bag, Within(play, hand), GetCardType(play) = type,
         Size(play) = Size(turn), Key(play) > Key(turn)
  PROVE  Size(turn) <= Size(hand) /\ Key(play) \in Tops(hand, turn, type)
<1> DEFINE len  == ThreeLen(turn)
           y    == Key(turn)
           x    == Key(play)
           L    == Line(x, len)
           spare == Rest(hand, turn, x)
           more == Taken(hand, turn, type, x)
<1>1. /\ len \in Nat \ {0} /\ y \in Rank
      /\ type = "CT_THREE_LINE" => len > 1 /\ Size(turn) = 3 * len
      /\ type = "CT_THREE_TAKE_ONE" => len = 1 /\ Size(turn) = 4 * len
      /\ type = "CT_THREE_TAKE_TWO" => Size(turn) = 5 * len
  BY TriplesOf DEF ThreeLen
<1>2. \A r \in Rank : hand[r] \in 0..4 /\ play[r] \in 0..4 /\ play[r] <= hand[r]
  BY BagCounts DEF Within
<1>3. play[16] <= 1 /\ play[17] <= 1
  <2>1. 16 \in Rank /\ 17 \in Rank
    BY DEF Rank
  <2>2. /\ hand[16] \in 0..4 /\ play[16] \in 0..4 /\ play[16] <= hand[16]
        /\ hand[17] \in 0..4 /\ play[17] \in 0..4 /\ play[17] <= hand[17]
    BY <1>2, <2>1
  <2> QED  BY <2>2
<1>4. LET m == Cardinality(Exactly(play, 3))
      IN  /\ m \in Nat \ {0} /\ x \in Rank
          /\ Exactly(play, 3) = Line(x, m)
          /\ m > 1 => x < Two
          /\ type = "CT_THREE_LINE" => Size(play) = 3 * m
          /\ type = "CT_THREE_TAKE_ONE" => Size(play) = 4 * m
          /\ type = "CT_THREE_TAKE_TWO" => Size(play) = 5 * m /\ Cardinality(Exactly(play, 2)) = m
  BY <1>3, TriplesOf
<1>5. Cardinality(Exactly(play, 3)) = len
  <2>1. PICK m \in Nat : m = Cardinality(Exactly(play, 3))
    BY <1>4
  <2>2. /\ type = "CT_THREE_LINE" => Size(play) = 3 * m
        /\ type = "CT_THREE_TAKE_ONE" => Size(play) = 4 * m
        /\ type = "CT_THREE_TAKE_TWO" => Size(play) = 5 * m
    BY <1>4, <2>1
  <2> HIDE DEF len
  <2>3. m = len
    BY <1>1, <2>2
  <2> QED  BY <2>1, <2>3
<1>6. /\ x \in Rank /\ x > y /\ L = Exactly(play, 3) /\ (len > 1 => x < Two)
      /\ type = "CT_THREE_TAKE_TWO" => Cardinality(Exactly(play, 2)) = len
  BY <1>4, <1>5
<1>7. x \in L /\ L \in SUBSET Rank /\ \A r \in L : play[r] = 3 /\ hand[r] >= 3
  <2>1. L \in SUBSET Rank /\ \A r \in L : play[r] = 3
    BY <1>6 DEF Exactly
  <2>2. x \in L
    BY <1>1, <1>6, <2>1, LineIs
  <2>3. \A r \in L : hand[r] >= 3
    BY <1>2, <2>1
  <2> QED  BY <2>1, <2>2, <2>3
<1>8. x \in LineTops(hand, len, 3, y)
  BY <1>6, <1>7 DEF LineTops, AtLeast
<1>9. /\ spare \in Bag /\ Size(hand) = 3 * len + Size(spare)
      /\ \A r \in Rank : spare[r] = hand[r] - (IF r \in L THEN 3 ELSE 0)
  <2>1. y \in Nat
    BY <1>1 DEF Rank
  <2>2. /\ spare \in Bag /\ Size(hand) = 3 * len + Size(spare)
        /\ \A r \in Rank : /\ Copies(L, 3)[r] = (IF r \in L THEN 3 ELSE 0)
                           /\ spare[r] = hand[r] - Copies(L, 3)[r]
    BY <1>1, <1>8, <2>1, TripleLine DEF Tripled, Rest
  <2> QED  BY <2>2
<1>10. Size(spare) \in Nat /\ Size(hand) \in Nat /\ Size(turn) \in Nat
  BY <1>9, SizeType
<1>11. Size(turn) <= Size(hand)
  <2>1. \A r \in Rank : play[r] <= hand[r]
    BY <1>2
  <2>2. play \in Counts /\ hand \in Counts
    BY BagCounts
  <2>3. Size(play) <= Size(hand)
    BY <2>1, <2>2, SizeGrows
  <2> QED  BY <2>3
<1> HIDE DEF L, spare, x, y
<1>12. 3 * len + Size(more) = Size(turn)
  <2>1. CASE type = "CT_THREE_LINE"
    <3>1. more = Empty
      BY <2>1 DEF Taken
    <3> QED  BY <1>1, <2>1, <3>1, SizeEmpty
  <2>2. CASE type = "CT_THREE_TAKE_ONE"
    <3>1. more = Attached(spare, 1, TRUE)
      BY <1>1, <2>2 DEF Taken, spare, x
    <3>2. 1 <= Size(spare)
      BY <1>1, <1>9, <1>10, <1>11, <2>2
    <3>3. Size(more) = 1
      BY <1>9, <3>1, <3>2, AttachedSize
    <3> QED  BY <1>1, <2>2, <3>3
  <2>3. CASE type = "CT_THREE_TAKE_TWO"
    <3> DEFINE pairs == AtLeast(spare, 2)
               P == {r \in pairs : Cardinality({q \in pairs : AttachedBefore(spare, q, r, TRUE)}) < len}
    <3>1. more = Copies(P, 2)
      BY <2>3 DEF Taken, PairsAttached, spare, x
    <3>2. pairs \in SUBSET Rank /\ P \in SUBSET Rank
      BY DEF AtLeast
    <3>3. Exactly(play, 2) \in SUBSET pairs
      <4> SUFFICES ASSUME NEW r \in Exactly(play, 2) PROVE r \in pairs
        OBVIOUS
      <4>1. r \in Rank /\ play[r] = 2 /\ r \notin L
        BY <1>7 DEF Exactly
      <4>2. hand[r] >= 2 /\ spare[r] = hand[r] - 0 /\ hand[r] \in 0..4
        BY <1>2, <1>9, <4>1
      <4> QED  BY <4>1, <4>2 DEF AtLeast
    <3>4. len <= Cardinality(pairs)
      <4>1. IsFiniteSet(pairs)
        BY <3>2, RanksFinite
      <4>2. Cardinality(Exactly(play, 2)) <= Cardinality(pairs)
        BY <3>3, <4>1, FS_Subset
      <4> QED  BY <1>6, <2>3, <4>2
    <3>5. Cardinality(P) = len
      BY <1>1, <1>9, <3>2, <3>4, FirstOf
    <3> HIDE DEF P
    <3>6. Size(more) = len * 2
      BY <3>1, <3>2, <3>5, SizeSet
    <3> QED  BY <1>1, <2>3, <3>6
  <2> QED  BY <2>1, <2>2, <2>3
<1> QED  BY <1>8, <1>11, <1>12 DEF Tops, x, y

\* No cards have no type.
LEMMA EmptyHasNoType == GetCardType(Empty) = "CT_ERROR"
<1>1. \A r \in Rank : Empty[r] = 0
  BY DEF Empty
<1>2. AtLeast(Empty, 4) = {} /\ AtLeast(Empty, 3) = {} /\ Held(Empty) = {}
  BY <1>1 DEF AtLeast, Held
<1>3. Cardinality({}) = 0
  BY FS_EmptySet
<1>4. Empty # Missile
  <2>1. 16 \in Rank /\ Missile[16] = 1
    BY DEF Missile, Copies, Rank
  <2> QED  BY <1>1, <2>1
<1>5. GetCardType(Empty) = FlatType(Empty)
  BY <1>2 DEF GetCardType
<1> QED  BY <1>2, <1>3, <1>4, <1>5 DEF FlatType

\* Triples: what the search finds beats the table, and it finds something where there is something.
LEMMA ThreeFound ==
  ASSUME NEW hand \in Bag, NEW turn \in Bag, hand[16] <= 1, hand[17] <= 1,
         turn[16] <= 1, turn[17] <= 1,
         NEW type, type = GetCardType(turn),
         type \in {"CT_THREE_LINE", "CT_THREE_TAKE_ONE", "CT_THREE_TAKE_TWO"},
         type = "CT_THREE_TAKE_ONE" => Size(turn) = 4
  PROVE  LET found == SearchThreeLine(hand, turn, type)
         IN  /\ found # Empty => Answers(hand, turn, found)
             /\ \A play \in Bag :
                  /\ Within(play, hand) /\ GetCardType(play) = type
                  /\ Size(play) = Size(turn) /\ Key(play) > Key(turn)
                  => found # Empty
<1> DEFINE found == SearchThreeLine(hand, turn, type)
           tops  == Tops(hand, turn, type)
           low   == Lowest(tops)
<1>1. found = IF Size(hand) < Size(turn) \/ tops = {} THEN Empty
              ELSE Plus(Tripled(turn, low), Taken(hand, turn, type, low))
  BY ThreeSearch
<1>2. Size(hand) \in Nat /\ Size(turn) \in Nat
  BY SizeType
<1> HIDE DEF found
<1>3. ASSUME tops # {} PROVE Answers(hand, turn, Plus(Tripled(turn, low), Taken(hand, turn, type, low)))
  <2>1. low \in tops
    <3>1. tops \in SUBSET Nat
      BY DEF Tops, LineTops, AtLeast, Rank
    <3> QED  BY <1>3, <3>1, LowestIn
  <2> HIDE DEF low, tops
  <2> QED  BY <2>1, ThreeSound DEF tops
<1>4. found # Empty => Answers(hand, turn, found)
  BY <1>1, <1>3
<1>5. ASSUME NEW play \in Bag, Within(play, hand), GetCardType(play) = type,
             Size(play) = Size(turn), Key(play) > Key(turn)
      PROVE  found # Empty
  <2>1. Size(turn) <= Size(hand) /\ Key(play) \in tops
    BY <1>5, ThreeComplete
  <2>2. found = Plus(Tripled(turn, low), Taken(hand, turn, type, low))
    BY <1>1, <1>2, <2>1
  <2>3. CompareRanks(turn, found)
    BY <1>3, <2>1, <2>2 DEF Answers
  <2>4. GetCardType(Empty) = "CT_ERROR"
    BY EmptyHasNoType
  <2> QED  BY <2>3, <2>4 DEF CompareRanks
<1> QED  BY <1>4, <1>5 DEF found

-----------------------------------------------------------------------------
(* The whole search.                                                       *)

\* The types there are.
LEMMA TypesAre ==
  ASSUME NEW cards
  PROVE  GetCardType(cards) \in
           {"CT_ERROR", "CT_SINGLE", "CT_DOUBLE", "CT_THREE", "CT_SINGLE_LINE", "CT_DOUBLE_LINE",
            "CT_THREE_LINE", "CT_THREE_TAKE_ONE", "CT_THREE_TAKE_TWO", "CT_FOUR_TAKE_ONE",
            "CT_FOUR_TAKE_TWO", "CT_BOMB_CARD", "CT_MISSILE_CARD"}
<1> DEFINE All == {"CT_ERROR", "CT_SINGLE", "CT_DOUBLE", "CT_THREE", "CT_SINGLE_LINE",
            "CT_DOUBLE_LINE", "CT_THREE_LINE", "CT_THREE_TAKE_ONE", "CT_THREE_TAKE_TWO",
            "CT_FOUR_TAKE_ONE", "CT_FOUR_TAKE_TWO", "CT_BOMB_CARD", "CT_MISSILE_CARD"}
<1>1. FourType(cards) \in All
  BY DEF FourType
<1>2. ThreeType(cards) \in All
  BY DEF ThreeType
<1>3. FlatType(cards) \in All
  BY DEF FlatType
<1> HIDE DEF All
<1>4. GetCardType(cards) \in All
  BY <1>1, <1>2, <1>3 DEF GetCardType
<1> QED  BY <1>4 DEF All

\* Where a play of the hand beats the table, what the search finds does.
LEMMA SearchBeats ==
  ASSUME NEW hand \in Bag, NEW turn \in Bag, NEW play \in Bag,
         hand[16] <= 1, hand[17] <= 1, turn[16] <= 1, turn[17] <= 1,
         GetCardType(turn) \notin {"CT_MISSILE_CARD", "CT_FOUR_TAKE_ONE", "CT_FOUR_TAKE_TWO"},
         GetCardType(turn) = "CT_THREE_TAKE_ONE" => Size(turn) = 4,
         Answers(hand, turn, play)
  PROVE  Answers(hand, turn, SearchOutRanks(hand, turn))
<1> DEFINE type == GetCardType(turn)
           bomb == SearchBomb(hand, turn, type)
           same == CASE type \in {"CT_SINGLE", "CT_DOUBLE", "CT_THREE"} ->
                          SearchSame(hand, Size(turn), Key(turn))
                     [] type = "CT_SINGLE_LINE" -> SearchLine(hand, Cardinality(Held(turn)), 1, Key(turn))
                     [] type = "CT_DOUBLE_LINE" -> SearchLine(hand, Cardinality(Held(turn)), 2, Key(turn))
                     [] type \in {"CT_THREE_LINE", "CT_THREE_TAKE_ONE", "CT_THREE_TAKE_TWO"} ->
                          SearchThreeLine(hand, turn, type)
                     [] OTHER -> Empty
           Four == \E x \in Rank : hand[x] = 4 /\ (type = "CT_BOMB_CARD" => x > Key(turn))
           Higher == /\ GetCardType(play) = type
                     /\ type \notin {"CT_ERROR", "CT_BOMB_CARD", "CT_MISSILE_CARD"}
                     /\ Size(play) = Size(turn) /\ Key(play) > Key(turn)
<1>1. SearchOutRanks(hand, turn) = IF same # Empty THEN same ELSE bomb
  BY DEF SearchOutRanks
<1>2. Four \/ Within(Missile, hand) \/ Higher
  <2>1. Answers(hand, turn, play) => Four \/ Within(Missile, hand) \/ Higher
    BY HowBeaten
  <2> QED  BY <2>1
<1>3. Four \/ Within(Missile, hand) => Answers(hand, turn, bomb)
  BY BombFound
<1>4. Within(play, hand)
  BY DEF Answers
<1> HIDE DEF bomb
<1>5. /\ same # Empty => Answers(hand, turn, same)
      /\ Higher => same # Empty \/ Four
  <2>1. CASE type \in {"CT_SINGLE", "CT_DOUBLE", "CT_THREE"}
    <3>1. same = SearchSame(hand, Size(turn), Key(turn))
      BY <2>1
    <3>2. type # "CT_BOMB_CARD"
      BY <2>1
    <3> HIDE DEF same
    <3>3. /\ same # Empty => Answers(hand, turn, same)
          /\ Higher => same # Empty \/ \E x \in Rank : hand[x] = 4
      BY <1>4, <2>1, <3>1, SameFound
    <3> QED  BY <3>2, <3>3
  <2>2. CASE type = "CT_SINGLE_LINE"
    <3>1. same = SearchLine(hand, Cardinality(Held(turn)), 1, Key(turn)) /\ type = LineType(1)
      BY <2>2 DEF LineType
    <3> HIDE DEF same
    <3> QED  BY <1>4, <3>1, LineFound
  <2>3. CASE type = "CT_DOUBLE_LINE"
    <3>1. same = SearchLine(hand, Cardinality(Held(turn)), 2, Key(turn)) /\ type = LineType(2)
      BY <2>3 DEF LineType
    <3> HIDE DEF same
    <3> QED  BY <1>4, <3>1, LineFound
  <2>4. CASE type \in {"CT_THREE_LINE", "CT_THREE_TAKE_ONE", "CT_THREE_TAKE_TWO"}
    <3>1. same = SearchThreeLine(hand, turn, type)
      BY <2>4
    <3> HIDE DEF same
    <3> QED  BY <1>4, <2>4, <3>1, ThreeFound
  <2>5. CASE type \notin {"CT_SINGLE", "CT_DOUBLE", "CT_THREE", "CT_SINGLE_LINE", "CT_DOUBLE_LINE",
                          "CT_THREE_LINE", "CT_THREE_TAKE_ONE", "CT_THREE_TAKE_TWO"}
    <3>1. same = Empty
      BY <2>5
    <3>2. type \in {"CT_ERROR", "CT_BOMB_CARD"}
      BY <2>5, TypesAre
    <3> QED  BY <3>1, <3>2
  <2> QED  BY <2>1, <2>2, <2>3, <2>4, <2>5
<1> HIDE DEF same, Four, Higher
<1> QED  BY <1>1, <1>2, <1>3, <1>5

-----------------------------------------------------------------------------
(* The server's answers.                                                   *)

\* The cards of the deck are bags of ranks with one joker of each kind, and a part of them
\* holds no more of any rank.
LEMMA BagOfIs ==
  ASSUME NEW cards \in SUBSET Deck
  PROVE  /\ BagOf(cards) \in Bag /\ BagOf(cards)[16] <= 1 /\ BagOf(cards)[17] <= 1
         /\ \A part \in SUBSET cards : Within(BagOf(part), BagOf(cards))
<1> DEFINE of(S, r) == {x \in S : RankOf[x] = r}
<1>1. ASSUME NEW S \in SUBSET Deck, NEW T \in SUBSET S, NEW r
      PROVE  /\ Cardinality(of(T, r)) \in Nat /\ Cardinality(of(S, r)) \in Nat
             /\ Cardinality(of(T, r)) <= Cardinality(of(S, r))
  <2>1. IsFiniteSet(of(S, r))
    <3>1. of(S, r) \in SUBSET Deck
      OBVIOUS
    <3> QED  BY <3>1, DeckAssumption, FS_Subset
  <2>2. of(T, r) \in SUBSET of(S, r)
    OBVIOUS
  <2> HIDE DEF of
  <2>3. IsFiniteSet(of(T, r)) /\ Cardinality(of(T, r)) <= Cardinality(of(S, r))
    BY <2>1, <2>2, FS_Subset
  <2> QED  BY <2>1, <2>3, FS_CardinalityType
<1>2. \A S \in SUBSET Deck, r \in Rank : BagOf(S)[r] = Cardinality(of(S, r))
  BY DEF BagOf
<1> HIDE DEF of
<1>3. \A r \in Rank : Cardinality(of(Deck, r)) <= IF r > Two THEN 1 ELSE 4
  BY <1>2, PackAssumption
<1>4. ASSUME NEW r \in Rank
      PROVE  BagOf(cards)[r] \in Nat /\ BagOf(cards)[r] <= IF r > Two THEN 1 ELSE 4
  <2>1. PICK a \in Nat, b \in Nat :
           a = Cardinality(of(cards, r)) /\ b = Cardinality(of(Deck, r)) /\ a <= b
    BY <1>1
  <2>2. b <= IF r > Two THEN 1 ELSE 4
    BY <1>3, <2>1
  <2>3. BagOf(cards)[r] = a
    BY <1>2, <2>1
  <2>4. CASE r > Two
    BY <2>1, <2>2, <2>3, <2>4
  <2>5. CASE ~(r > Two)
    BY <2>1, <2>2, <2>3, <2>5
  <2> QED  BY <2>4, <2>5
<1>5. \A r \in Rank : BagOf(cards)[r] \in 0..4
  <2> TAKE r \in Rank
  <2>1. CASE r > Two
    BY <1>4, <2>1
  <2>2. CASE ~(r > Two)
    BY <1>4, <2>2
  <2> QED  BY <2>1, <2>2
<1>6. BagOf(cards) \in Bag
  <2>1. BagOf(cards) = [r \in Rank |-> BagOf(cards)[r]]
    BY DEF BagOf
  <2> QED  BY <1>5, <2>1 DEF Bag
<1>7. BagOf(cards)[16] <= 1 /\ BagOf(cards)[17] <= 1
  <2>1. 16 \in Rank /\ 17 \in Rank /\ 16 > Two /\ 17 > Two
    BY DEF Rank, Two
  <2> QED  BY <1>4, <2>1
<1>8. \A part \in SUBSET cards : Within(BagOf(part), BagOf(cards))
  <2> TAKE part \in SUBSET cards
  <2>1. ASSUME NEW r \in Rank PROVE BagOf(part)[r] \in 0..BagOf(cards)[r]
    <3>1. PICK a \in Nat, b \in Nat :
             a = Cardinality(of(part, r)) /\ b = Cardinality(of(cards, r)) /\ a <= b
      BY <1>1
    <3>2. BagOf(part)[r] = a /\ BagOf(cards)[r] = b
      BY <1>2, <3>1
    <3> QED  BY <3>1, <3>2
  <2> QED  BY <2>1 DEF Within
<1> QED  BY <1>6, <1>7, <1>8

\* A bag of cards holds as many as there are.
LEMMA BagOfSize ==
  ASSUME NEW cards \in SUBSET Deck PROVE Size(BagOf(cards)) = Cardinality(cards)
<1> DEFINE wrong == {n \in Nat : \E S \in SUBSET Deck :
                        Cardinality(S) = n /\ Size(BagOf(S)) # Cardinality(S)}
<1>1. ASSUME NEW S \in SUBSET Deck PROVE IsFiniteSet(S) /\ Cardinality(S) \in Nat
  BY DeckAssumption, FS_Subset, FS_CardinalityType
<1>2. wrong = {}
  <2> SUFFICES ASSUME wrong # {} PROVE FALSE
    OBVIOUS
  <2>1. PICK m \in wrong : \A i \in wrong : m <= i
    BY LeastNumber
  <2>2. PICK S \in SUBSET Deck : Cardinality(S) = m /\ Size(BagOf(S)) # Cardinality(S)
    BY <2>1
  <2>3. CASE S = {}
    <3>1. \A r \in Rank : {x \in S : RankOf[x] = r} = {}
      BY <2>3
    <3>2. BagOf(S) = Empty
      BY <3>1, FS_EmptySet, Zenon DEF BagOf, Empty
    <3> QED  BY <2>2, <2>3, <3>2, SizeEmpty, FS_EmptySet
  <2>4. CASE S # {}
    <3>1. PICK q \in S : TRUE
      BY <2>4
    <3> DEFINE U   == S \ {q}
               one == Copies({RankOf[q]}, 1)
    <3>2. U \in SUBSET Deck /\ q \notin U /\ S = U \cup {q}
      OBVIOUS
    <3>3. RankOf[q] \in Rank
      BY PackAssumption
    <3>4. one \in Counts /\ Size(one) = 1 /\ \A r \in Rank : one[r] = IF r = RankOf[q] THEN 1 ELSE 0
      BY <3>3, SizeOne DEF Copies
    <3> HIDE DEF U, one
    <3>5. Cardinality(S) = Cardinality(U) + 1 /\ Cardinality(U) \in Nat
      BY <1>1, <3>2, FS_AddElement
    <3>6. Size(BagOf(U)) = Cardinality(U)
      <4>1. Cardinality(U) \notin wrong
        BY <2>1, <2>2, <3>5
      <4> QED  BY <3>2, <3>5, <4>1
    <3>7. \A r \in Rank : BagOf(S)[r] = BagOf(U)[r] + one[r]
      <4> TAKE r \in Rank
      <4> DEFINE before == {x \in U : RankOf[x] = r}
                 after  == {x \in S : RankOf[x] = r}
      <4>1. BagOf(U)[r] = Cardinality(before) /\ BagOf(S)[r] = Cardinality(after)
        BY DEF BagOf
      <4>2. before \in SUBSET Deck
        BY <3>2
      <4>3. IsFiniteSet(before) /\ Cardinality(before) \in Nat
        BY <1>1, <4>2
      <4>4. CASE RankOf[q] = r
        <5>1. after = before \cup {q} /\ q \notin before
          BY <3>2, <4>4
        <5> HIDE DEF before, after
        <5>2. Cardinality(after) = Cardinality(before) + 1
          BY <4>3, <5>1, FS_AddElement
        <5> QED  BY <3>4, <4>1, <4>4, <5>2
      <4>5. CASE RankOf[q] # r
        <5>1. after = before
          BY <3>2, <4>5
        <5> HIDE DEF before, after
        <5> QED  BY <3>4, <4>1, <4>3, <4>5, <5>1
      <4> QED  BY <4>4, <4>5
    <3>8. BagOf(S) \in Counts /\ BagOf(U) \in Counts
      BY <3>2, BagOfIs, BagCounts
    <3>9. Size(BagOf(S)) = Size(BagOf(U)) + 1
      BY <3>4, <3>7, <3>8, SizeAdds
    <3> QED  BY <2>2, <3>5, <3>6, <3>9
  <2> QED  BY <2>3, <2>4
<1> QED  BY <1>1, <1>2

\* What lies on the table was played, so it has a type.
TurnTyped == turnCard # {} => CardType(turnCard) # "CT_ERROR"

\* A play is what puts cards on the table, and a new deal or the winning of a trick takes them away.
LEMMA TableTyped == Spec => []TurnTyped
<1>1. Init => TurnTyped
  BY DEF Init, TurnTyped
<1>2. IInv /\ TurnTyped /\ [Next]_vars => TurnTyped'
  <2> SUFFICES ASSUME IInv, TurnTyped, [Next]_vars PROVE TurnTyped'
    OBVIOUS
  <2>1. Good
    BY GoodIsInv
  <2>2. \/ turnCard' = turnCard \/ turnCard' = {}
        \/ \E cards \in SUBSET Deck : turnCard' = cards /\ CardType(cards) # "CT_ERROR"
    <3>1. CASE UNCHANGED <<gameState, roundVars>>
      BY <3>1 DEF roundVars
    <3>2. CASE gameState = "CALL"
      <4>1. SUFFICES ASSUME NEW said \in Nat, UserCallScore(curUser, said)
                     PROVE  turnCard' = turnCard \/ turnCard' = {}
        BY <3>1, <3>2, CallStep
      <4> QED  BY <4>1 DEF UserCallScore, AskNext, BecomeBanker, ReGameStart, OnGameStart
    <3>3. CASE gameState = "PLAY"
      <4>1. CASE UserPassCard(curUser)
        BY <4>1 DEF UserPassCard, TurnCardAfterPass
      <4>2. ASSUME NEW cards \in SUBSET Deck, UserOutCard(curUser, cards)
            PROVE  turnCard' = {} \/ (turnCard' = cards /\ CardType(cards) # "CT_ERROR")
        BY <4>2 DEF UserOutCard, CanOutCard, OnGameEnd
      <4> QED  BY <2>1, <3>1, <3>3, <4>1, <4>2, PlayStep
    <3>4. CASE gameState \notin {"CALL", "PLAY"}
      <4>1. TickStart => turnCard' = {}
        BY DEF TickStart, OnGameStart
      <4>2. TickEnd => turnCard' = turnCard
        BY DEF TickEnd
      <4>3. ResetTable => turnCard' = {} \/ turnCard' = turnCard
        BY DEF ResetTable
      <4> QED  BY <3>1, <3>4, <4>1, <4>2, <4>3, RestStep
    <3> QED  BY <3>2, <3>3, <3>4
  <2> QED  BY <2>2 DEF TurnTyped
<1> QED  BY <1>1, <1>2, Invariant, PTL DEF Spec

\* A move the chair could make is found: the server's own move is then one it can make.
LEMMA AnswerTaken ==
  ASSUME Good, TurnTyped, gameState = "PLAY", turnCard # {},
         CardType(turnCard) \notin {"CT_MISSILE_CARD", "CT_FOUR_TAKE_ONE", "CT_FOUR_TAKE_TWO"},
         CardType(turnCard) = "CT_THREE_TAKE_ONE" => Cardinality(turnCard) = 4,
         NEW cards \in SUBSET handCard[curUser], CanOutCard(curUser, cards)
  PROVE  CanOutCard(curUser, SearchOutCard(handCard[curUser], turnCard))
<1> DEFINE hand   == handCard[curUser]
           answer == SearchOutCard(hand, turnCard)
           found  == SearchOutRanks(BagOf(hand), BagOf(turnCard))
<1>1. /\ hand \in SUBSET (Deck \ turnCard) /\ turnCard \in SUBSET Deck
      /\ CardType(turnCard) # "CT_ERROR"
  BY DEF Good, RoundInv, RoundTypeOK, TurnOrder, CardsDealtOnce, TurnTyped
<1>2. CardType(cards) # "CT_ERROR" /\ CompareCard(turnCard, cards)
  BY DEF CanOutCard
<1> HIDE DEF hand, answer, found
<1>3. cards \in SUBSET hand /\ hand \in SUBSET Deck /\ cards \in SUBSET Deck
  BY <1>1 DEF hand
<1>4. /\ CardType(turnCard) = GetCardType(BagOf(turnCard))
      /\ CompareRanks(BagOf(turnCard), BagOf(cards))
      /\ Within(found, BagOf(hand)) => answer \subseteq hand /\ BagOf(answer) = found
  <2>1. cards \in SUBSET (Deck \ turnCard)
    BY <1>1, <1>3
  <2> QED  BY <1>1, <1>2, <2>1, RulesAssumption DEF answer, found
<1>5. /\ BagOf(hand) \in Bag /\ BagOf(hand)[16] <= 1 /\ BagOf(hand)[17] <= 1
      /\ BagOf(turnCard) \in Bag /\ BagOf(turnCard)[16] <= 1 /\ BagOf(turnCard)[17] <= 1
      /\ BagOf(cards) \in Bag /\ Within(BagOf(cards), BagOf(hand))
  BY <1>1, <1>3, BagOfIs
<1>6. Size(BagOf(turnCard)) = Cardinality(turnCard)
  BY <1>1, BagOfSize
<1>7. Answers(BagOf(hand), BagOf(turnCard), BagOf(cards))
  BY <1>4, <1>5 DEF Answers
<1>8. Answers(BagOf(hand), BagOf(turnCard), found)
  BY <1>4, <1>5, <1>6, <1>7, SearchBeats DEF found
<1>9. answer \in SUBSET hand /\ BagOf(answer) = found
  BY <1>4, <1>8 DEF Answers
<1>10. CardType(answer) # "CT_ERROR"
  <2>1. answer \in SUBSET Deck
    BY <1>3, <1>9
  <2>2. CardType(answer) = GetCardType(found)
    BY <1>9, <2>1, RulesAssumption
  <2> QED  BY <1>8, <2>2 DEF Answers, CompareRanks
<1>11. CompareCard(turnCard, answer)
  <2>1. answer \in SUBSET (Deck \ turnCard)
    BY <1>1, <1>9
  <2>2. CompareCard(turnCard, answer) <=> CompareRanks(BagOf(turnCard), BagOf(answer))
    BY <1>1, <1>10, <2>1, RulesAssumption
  <2> QED  BY <1>8, <1>9, <2>2 DEF Answers
<1> QED  BY <1>9, <1>10, <1>11 DEF CanOutCard, hand, answer

\* The server passes for a chair only when no play of its hand would be taken, for every deck,
\* every deal and every way the table got there (outside the plays AutoAnswers names, for
\* which the search looks too narrowly).
THEOREM ServerAnswers == Spec => AutoAnswers
<1> DEFINE Step ==
      TickAuto /\ turnCard # {} /\ handCard' = handCard
      /\ CardType(turnCard) \notin {"CT_MISSILE_CARD", "CT_FOUR_TAKE_ONE", "CT_FOUR_TAKE_TWO"}
      /\ (CardType(turnCard) = "CT_THREE_TAKE_ONE" => Cardinality(turnCard) = 4)
        => \A cards \in SUBSET handCard[curUser] : ~CanOutCard(curUser, cards)
<1>1. ASSUME IInv, TurnTyped PROVE Step
  <2> SUFFICES ASSUME TickAuto, turnCard # {}, handCard' = handCard,
                      CardType(turnCard) \notin
                        {"CT_MISSILE_CARD", "CT_FOUR_TAKE_ONE", "CT_FOUR_TAKE_TWO"},
                      CardType(turnCard) = "CT_THREE_TAKE_ONE" => Cardinality(turnCard) = 4,
                      NEW cards \in SUBSET handCard[curUser], CanOutCard(curUser, cards)
               PROVE  FALSE
    OBVIOUS
  <2> DEFINE answer == SearchOutCard(handCard[curUser], turnCard)
  <2>1. Good /\ gameState = "PLAY"
    BY <1>1, GoodIsInv DEF TickAuto
  <2>2. CanOutCard(curUser, answer)
    BY <1>1, <2>1, AnswerTaken
  <2>3. UserOutCard(curUser, answer)
    BY <2>2 DEF TickAuto, AutoCard
  <2>4. answer # {} /\ answer \subseteq handCard[curUser]
    BY <2>2, CardTypeAssumption DEF CanOutCard
  <2>5. curUser \in Chair /\ handCard \in [Chair -> SUBSET Deck]
    BY <2>1 DEF Good, RoundInv, RoundTypeOK, TurnOrder
  <2> HIDE DEF answer
  <2>6. handCard'[curUser] # handCard[curUser]
    BY <2>3, <2>4, <2>5 DEF UserOutCard, OnGameEnd, NoCards
  <2> QED  BY <2>6
<1>2. IInv /\ TurnTyped /\ [Next]_vars => [Step]_vars
  BY <1>1
<1> QED  BY <1>2, Invariant, TableTyped, PTL DEF Spec, AutoAnswers
===============================================================================
