------------------------- MODULE KuaipaoRound_proofs -------------------------
(***************************************************************************)
(* Proofs about the kuaipao table, for all deals, stakes and both kinds of *)
(* room: every variable keeps its type, and the books of the bombs are     *)
(* right, the two together inductive; hands stay hands of the deck, so the *)
(* lead the search finds is one the table takes; and who can beat the      *)
(* table is found an answer, so nobody passes who need not.                *)
(***************************************************************************)
EXTENDS KuaipaoRound, Table_proofs, SequenceTheorems

-----------------------------------------------------------------------------
(* Chairs and cards.                                                       *)

\* There are three chairs, no chair is none of them, and after each comes one.
LEMMA ChairFacts ==
  /\ Chair = {0, 1, 2} /\ INVALID_CHAIR \notin Chair
  /\ \A c \in Chair : NextChair(c) \in Chair
BY DEF Chair, INVALID_CHAIR, NextChair

\* What the searches return is a list of cards, whatever the hand.
LEMMA SearchSameIsList ==
  ASSUME NEW hand, NEW n, NEW above
  PROVE  SearchSame(hand, n, above) = [r \in Rank |-> SearchSame(hand, n, above)[r]]
BY DEF SearchSame, Copies, Empty

\* What the line search takes says of each rank how many.
LEMMA TakeLineIsList ==
  ASSUME NEW hand, NEW top, NEW len, NEW n, NEW size
  PROVE  TakeLine(hand, top, len, n, size) = [r \in Rank |-> TakeLine(hand, top, len, n, size)[r]]
BY DEF TakeLine, Plus

\* What the search finds says of each rank how many.
LEMMA SearchIsList ==
  ASSUME NEW hand, NEW turn
  PROVE  SearchOutCard(hand, turn) = [r \in Rank |-> SearchOutCard(hand, turn)[r]]
BY TakeLineIsList, SearchSameIsList DEF SearchOutCard, Empty

\* What the search for a lead finds says of each rank how many.
LEMMA LeadIsList ==
  ASSUME NEW hand, NEW num
  PROVE  SearchActionOutCard(hand, num) = [r \in Rank |-> SearchActionOutCard(hand, num)[r]]
BY TakeLineIsList DEF SearchActionOutCard, Copies

\* Whether cards are a bomb does not depend on their being a last hand.
LEMMA BombAnyHand ==
  ASSUME NEW cards, NEW lastHand \in BOOLEAN
  PROVE  BombTaken(GetCardType(cards, lastHand)) = IsBomb(cards)
BY DEF BombTaken, IsBomb, GetCardType

-----------------------------------------------------------------------------
(* Sums.                                                                   *)

\* A bomb scores a number.
LEMMA BombScoreType == BombScore(BaseScore) \in Nat
BY KuaipaoConfAssumption DEF BombScore

\* The books of a round: what bombs have scored follows from whose bombs they were.
Books(score, count) ==
  \A c \in Chair : score[c] = BombScore(BaseScore) * (3 * count[c] - Sum3(count))

\* Paying for one more bomb of a chair keeps the books.
LEMMA BombPaysBooks ==
  ASSUME NEW score \in [Chair -> Int], NEW count \in [Chair -> Nat], NEW w \in Chair,
         Books(score, count)
  PROVE  /\ BombPays(score, w, BaseScore) \in [Chair -> Int]
         /\ Books(BombPays(score, w, BaseScore), [count EXCEPT ![w] = @ + 1])
<1> DEFINE k == BombScore(BaseScore)
           more == [count EXCEPT ![w] = @ + 1]
           paid == BombPays(score, w, BaseScore)
<1>1. k \in Int /\ \A c \in Chair : score[c] \in Int /\ count[c] \in Int
  BY BombScoreType
<1>2. Sum3(count) \in Int /\ Sum3(more) = Sum3(count) + 1
  BY <1>1, ChairFacts DEF Sum3
<1>3. \A c \in Chair : paid[c] = IF c = w THEN score[c] + 2 * k ELSE score[c] - k
  BY DEF BombPays
<1>4. paid \in [Chair -> Int]
  BY <1>1 DEF BombPays
<1>5. \A c \in Chair : score[c] = k * (3 * count[c] - Sum3(count))
  BY DEF Books
<1>6. ASSUME NEW c \in Chair PROVE paid[c] = k * (3 * more[c] - Sum3(more))
  <2> DEFINE x == 3 * count[c] - Sum3(count)
  <2>1. x \in Int /\ score[c] = k * x
    BY <1>1, <1>2, <1>5
  <2>2. k * (x + 2) = k * x + 2 * k /\ k * (x - 1) = k * x - k
    BY <1>1, <2>1
  <2>3. CASE c = w
    <3>1. more[c] = count[c] + 1
      BY <2>3
    <3>2. 3 * more[c] - Sum3(more) = x + 2
      BY <3>1, <1>1, <1>2
    <3> QED  BY <3>2, <2>1, <2>2, <2>3, <1>3
  <2>4. CASE c # w
    <3>1. more[c] = count[c]
      BY <2>4
    <3>2. 3 * more[c] - Sum3(more) = x - 1
      BY <3>1, <1>1, <1>2
    <3> QED  BY <3>2, <2>1, <2>2, <2>4, <1>3
  <2> QED  BY <2>3, <2>4
<1> QED  BY <1>4, <1>6 DEF Books

\* What bombs give one chair they take from the others.
LEMMA BooksSum ==
  ASSUME NEW score \in [Chair -> Int], NEW count \in [Chair -> Nat], Books(score, count)
  PROVE  Sum3(score) = 0
<1> DEFINE k == BombScore(BaseScore)
           x == 3 * count[0] - Sum3(count)
           y == 3 * count[1] - Sum3(count)
           z == 3 * count[2] - Sum3(count)
<1>1. k \in Int /\ count[0] \in Int /\ count[1] \in Int /\ count[2] \in Int
  BY BombScoreType, ChairFacts
<1>2. x \in Int /\ y \in Int /\ z \in Int /\ x + y + z = 0
  BY <1>1 DEF Sum3
<1>3. score[0] = k * x /\ score[1] = k * y /\ score[2] = k * z
  BY ChairFacts DEF Books
<1>4. k * x + k * y + k * z = k * (x + y + z)
  BY <1>1, <1>2
<1>5. k * 0 = 0
  BY <1>1
<1> QED  BY <1>2, <1>3, <1>4, <1>5 DEF Sum3

\* What the cards cost the losers is what they pay the winner.
LEMMA RoundScoreSum ==
  ASSUME NEW w \in Chair, NEW left \in [Chair -> Nat], NEW score \in [Chair -> Int],
         Sum3(score) = 0
  PROVE  LET want == RoundScore(w, left, PlayCardNum, BaseScore, score)
         IN  want \in [Chair -> Int] /\ Sum3(want) = 0
<1> DEFINE pays == [c \in Chair |-> IF c = w THEN 0 ELSE CardScore(left[c], PlayCardNum, BaseScore)]
           want == RoundScore(w, left, PlayCardNum, BaseScore, score)
<1>1. ASSUME NEW c \in Chair PROVE CardScore(left[c], PlayCardNum, BaseScore) \in Int
  <2>1. left[c] * BaseScore \in Int
    BY KuaipaoConfAssumption
  <2> QED  BY <2>1 DEF CardScore
<1>2. pays[0] \in Int /\ pays[1] \in Int /\ pays[2] \in Int /\ pays[w] = 0
  BY <1>1, ChairFacts
<1>3. score[0] \in Int /\ score[1] \in Int /\ score[2] \in Int
  BY ChairFacts
<1>4. want = [c \in Chair |-> (IF c = w THEN Sum3(pays) ELSE -pays[c]) + score[c]]
  BY DEF RoundScore
<1> HIDE DEF pays, want
<1>7. ASSUME NEW c \in Chair
      PROVE  (IF c = w THEN Sum3(pays) ELSE -pays[c]) + score[c] \in Int
  BY <1>2, <1>3, ChairFacts DEF Sum3
<1>5. want \in [Chair -> Int]
  BY <1>4, <1>7
<1>6. Sum3(want) = 0
  BY <1>2, <1>3, <1>4, ChairFacts DEF Sum3
<1> QED  BY <1>5, <1>6 DEF want

-----------------------------------------------------------------------------
(* The invariant: what the table keeps, and what the seats keep.           *)

TableType ==
  /\ gameState \in GameStates
  /\ bankerUser \in ChairOrNone /\ curUser \in ChairOrNone /\ turnWiner \in ChairOrNone
  /\ handCard \in [Chair -> Bag] /\ turnCard \in Bag
  /\ opened \in BOOLEAN /\ autoOutCard \in BOOLEAN
  /\ eachBombCount \in [Chair -> Nat] /\ gameScore \in [Chair -> Int]
  /\ coolLogic \in {"fresh", "half", "late", "long", "out"}
  /\ gameOver.winner \in ChairOrNone /\ gameOver.want \in [Chair -> Int]
  /\ gameState = "PLAY" => curUser \in Chair
  /\ gameState = "WAIT" => turnWiner \in Chair

SeatType ==
  /\ readyStatus \in [Chair -> BOOLEAN] /\ autoStatus \in [Chair -> BOOLEAN]
  /\ overTimes \in [Chair -> Nat]

TableInv == TableType /\ BombBooks

\* The type invariant in two parts: the table's, and that of the settings of the chairs.
LEMMA TypeParts == TypeOK <=> TableType /\ SeatType
BY DEF TypeOK, TableType, SeatType

\* Books in which nothing was written are in order.
LEMMA ZeroBooks == Books(Zero, Zero) /\ Sum3(Zero) = 0 /\ Zero \in [Chair -> Nat] /\ Zero \in [Chair -> Int]
<1>1. \A c \in Chair : Zero[c] = 0
  BY DEF Zero
<1>2. Sum3(Zero) = 0
  BY <1>1, ChairFacts DEF Sum3
<1>3. BombScore(BaseScore) * 0 = 0
  BY BombScoreType
<1>4. Books(Zero, Zero)
  BY <1>1, <1>2, <1>3 DEF Books
<1> QED  BY <1>2, <1>4 DEF Zero

\* What happens outside a round leaves the books closed.
LEMMA InitTable == Init => TableInv
<1> SUFFICES ASSUME Init PROVE TableInv
  OBVIOUS
<1>1. handCard \in [Chair -> Bag] /\ turnCard \in Bag
  BY EmptyType DEF Init, NoCards
<1>2. gameOver.winner = INVALID_CHAIR /\ gameOver.want = Zero
  BY DEF Init, NoResult
<1>3. Books(gameScore, eachBombCount)
  BY ZeroBooks DEF Init
<1>4. TableType
  BY <1>1, <1>2, ZeroBooks DEF Init, TableType, GameStates, ChairOrNone
<1>5. BombBooks
  BY <1>2, <1>3, ZeroBooks DEF Init, BombBooks, Books
<1> QED  BY <1>4, <1>5 DEF TableInv

\* What ResetGameData leaves behind has the right types, and empty books.
LEMMA ResetKeeps ==
  ASSUME NEW banker \in ChairOrNone, ResetGameData(banker)
  PROVE  /\ bankerUser' \in ChairOrNone /\ curUser' \in ChairOrNone /\ turnWiner' \in ChairOrNone
         /\ handCard' \in [Chair -> Bag] /\ turnCard' \in Bag
         /\ opened' \in BOOLEAN /\ autoOutCard' \in BOOLEAN
         /\ eachBombCount' = Zero /\ gameScore' = Zero
<1>1. NoCards \in [Chair -> Bag]
  BY EmptyType DEF NoCards
<1> QED  BY <1>1, EmptyType DEF ResetGameData, ResetRound, ChairOrNone

\* The settlement, with any hands of cards: its amounts come to nothing.
LEMMA OnGameEndKeeps ==
  ASSUME TableInv, NEW w \in Chair, NEW hands \in [Chair -> Bag], OnGameEnd(w, hands)
  PROVE  TableInv'
<1> DEFINE left == [c \in Chair |-> Size(hands[c])]
           want == RoundScore(w, left, PlayCardNum, BaseScore, gameScore)
<1>1. left \in [Chair -> Nat]
  BY SizeType
<1>2. Sum3(gameScore) = 0
  BY BooksSum DEF TableInv, TableType, BombBooks, Books
<1>3. want \in [Chair -> Int] /\ Sum3(want) = 0
  BY <1>1, <1>2, RoundScoreSum DEF TableInv, TableType
<1>4. gameOver'.winner = w /\ gameOver'.want = want
  BY DEF OnGameEnd
<1> HIDE DEF want, left
<1>5. gameState' = "GAME_END" /\ coolLogic' = "fresh" /\ ResetGameData(w) /\ w \in ChairOrNone
  BY DEF OnGameEnd, ChairOrNone
<1>6. TableType'
  BY <1>3, <1>4, <1>5, ResetKeeps, ZeroBooks DEF TableType, GameStates
<1>7. BombBooks'
  BY <1>3, <1>4, <1>5, ResetKeeps, ZeroBooks DEF BombBooks, Books
<1> QED  BY <1>6, <1>7 DEF TableInv

\* CheckBombCalc keeps the books in order, bomb or not.
LEMMA CheckBombCalcKeeps ==
  ASSUME TableInv, NEW w \in Chair, NEW type, CheckBombCalc(w, type)
  PROVE  /\ eachBombCount' \in [Chair -> Nat] /\ gameScore' \in [Chair -> Int]
         /\ Books(gameScore', eachBombCount')
<1>1. /\ eachBombCount \in [Chair -> Nat] /\ gameScore \in [Chair -> Int]
      /\ Books(gameScore, eachBombCount)
  BY DEF TableInv, TableType, BombBooks, Books
<1>2. CASE BombTaken(type)
  <2>1. [eachBombCount EXCEPT ![w] = @ + 1] \in [Chair -> Nat]
    BY <1>1
  <2>2. /\ eachBombCount' = [eachBombCount EXCEPT ![w] = @ + 1]
        /\ gameScore' = BombPays(gameScore, w, BaseScore)
    BY <1>2 DEF CheckBombCalc
  <2>3. /\ BombPays(gameScore, w, BaseScore) \in [Chair -> Int]
        /\ Books(BombPays(gameScore, w, BaseScore), [eachBombCount EXCEPT ![w] = @ + 1])
    BY <1>1, BombPaysBooks
  <2> QED  BY <2>1, <2>2, <2>3
<1>3. CASE ~BombTaken(type)
  BY <1>1, <1>3 DEF CheckBombCalc, bombVars
<1> QED  BY <1>2, <1>3

\* A play keeps the table and the books, whoever makes it, as long as it is a list of cards.
LEMMA UserOutCardKeeps ==
  ASSUME TableInv, gameState = "PLAY", NEW c \in Chair, NEW cards,
         cards = [r \in Rank |-> cards[r]], UserOutCard(c, cards)
  PROVE  TableInv'
<1> DEFINE type == GetCardType(cards, LastHand(c, cards))
           left == [handCard EXCEPT ![c] = Minus(@, cards)]
<1>1. cards \in Bag /\ left \in [Chair -> Bag]
  <2>1. handCard \in [Chair -> Bag] /\ Within(cards, handCard[c])
    BY DEF TableInv, TableType, UserOutCard, CanOutCard
  <2>2. cards \in Bag /\ Minus(handCard[c], cards) \in Bag
    BY <2>1, TakeType
  <2> QED  BY <2>1, <2>2
<1>2. BombTaken(type) = IsBomb(cards)
  BY BombAnyHand DEF LastHand
<1>3. NextChair(c) \in Chair
  BY ChairFacts
<1>4. PutDown(c, cards) =>
        /\ turnCard' = cards /\ turnCardType' = type /\ turnWiner' = c
        /\ opened' = TRUE /\ handCard' = left
  BY DEF PutDown
<1> HIDE DEF type, left
<1>5. CASE /\ PutDown(c, cards)
           /\ curUser' = NextChair(c)
           /\ coolLogic' = "fresh" /\ autoOutCard' = FALSE
           /\ UNCHANGED <<gameState, bankerUser, bombVars, gameOver>>
  <2>1. TableType'
    BY <1>1, <1>3, <1>4, <1>5 DEF TableInv, TableType, ChairOrNone, bombVars
  <2>2. BombBooks'
    BY <1>2, <1>4, <1>5 DEF TableInv, BombBooks, bombVars, IsBomb
  <2> QED  BY <2>1, <2>2 DEF TableInv
<1>6. CASE /\ PutDown(c, cards)
           /\ curUser' = INVALID_CHAIR
           /\ CheckBombCalc(c, type)
           /\ gameState' = "WAIT" /\ coolLogic' = "fresh" /\ autoOutCard' = FALSE
           /\ UNCHANGED <<bankerUser, gameOver>>
  <2>1. /\ eachBombCount' \in [Chair -> Nat] /\ gameScore' \in [Chair -> Int]
        /\ Books(gameScore', eachBombCount')
    BY <1>6, CheckBombCalcKeeps
  <2>2. TableType'
    BY <1>1, <1>4, <1>6, <2>1 DEF TableInv, TableType, ChairOrNone, GameStates
  <2>3. BombBooks'
    BY <1>2, <1>4, <1>6, <2>1 DEF TableInv, BombBooks, IsBomb, Books
  <2> QED  BY <2>2, <2>3 DEF TableInv
<1>7. CASE OnGameEnd(c, left)
  BY <1>1, <1>7, OnGameEndKeeps
<1> QED  BY <1>5, <1>6, <1>7 DEF UserOutCard, type, left

\* A pass pays for a bomb when it hands the trick to its owner.
LEMMA UserPassCardKeeps ==
  ASSUME TableInv, gameState = "PLAY", NEW c \in Chair, UserPassCard(c)
  PROVE  TableInv'
<1>1. NextChair(c) \in Chair
  BY ChairFacts
<1>2. /\ curUser' = NextChair(c) /\ coolLogic' = "fresh" /\ autoOutCard' = FALSE
      /\ UNCHANGED <<gameState, bankerUser, handCard, turnCardType, turnWiner, opened, gameOver>>
      /\ WinTrick(c)
  BY DEF UserPassCard
<1>3. /\ eachBombCount' \in [Chair -> Nat] /\ gameScore' \in [Chair -> Int]
      /\ Books(gameScore', eachBombCount')
      /\ turnCard' \in {turnCard, Empty}
  <2>1. CASE TrickWon(c)
    BY <1>1, <1>2, <2>1, CheckBombCalcKeeps DEF WinTrick, TrickWon
  <2>2. CASE ~TrickWon(c)
    BY <1>2, <2>2 DEF WinTrick, bombVars, TableInv, TableType, BombBooks, Books
  <2> QED  BY <2>1, <2>2
<1>4. TableType'
  BY <1>1, <1>2, <1>3, EmptyType DEF TableInv, TableType, ChairOrNone
<1>5. BombBooks'
  BY <1>2, <1>3 DEF TableInv, BombBooks, Books, IsBomb
<1> QED  BY <1>4, <1>5 DEF TableInv

\* A play or pass of the server keeps types and books.
LEMMA AutoCardKeeps ==
  ASSUME TableInv, gameState = "PLAY", NEW c \in Chair, AutoCard(c)
  PROVE  TableInv'
<1>1. Found(c) = [r \in Rank |-> Found(c)[r]]
  BY SearchIsList DEF Found
<1>2. Lead(c) = [r \in Rank |-> Lead(c)[r]]
  BY LeadIsList DEF Lead
<1>3. UserOutCard(c, Lead(c)) \/ UserOutCard(c, Found(c)) \/ UserPassCard(c)
  BY DEF AutoCard
<1> QED  BY <1>1, <1>2, <1>3, UserOutCardKeeps, UserPassCardKeeps

\* The look at a last hand keeps types and books.
LEMMA LastHandMoveKeeps ==
  ASSUME TableInv, gameState = "PLAY", NEW c \in Chair, LastHandMove(c)
  PROVE  TableInv'
<1>1. handCard[c] = [r \in Rank |-> handCard[c][r]]
  BY DEF TableInv, TableType, Bag
<1>2. UserOutCard(c, handCard[c]) \/ UserPassCard(c)
  BY DEF LastHandMove
<1> QED  BY <1>1, <1>2, UserOutCardKeeps, UserPassCardKeeps

-----------------------------------------------------------------------------
(* Steps outside the turns.                                                *)

\* Dealing keeps types and books.
LEMMA OnGameStartKeeps ==
  ASSUME TableInv, gameState = "FREE", OnGameStart
  PROVE  TableInv'
<1> PICK deal \in Deals, any \in Chair :
      LET first == IF bankerUser = INVALID_CHAIR THEN any ELSE bankerUser
      IN  /\ gameState' = "PLAY"
          /\ bankerUser' = first /\ curUser' = first
          /\ handCard' = deal
          /\ turnCard' = Empty /\ turnWiner' = INVALID_CHAIR
          /\ coolLogic' = "fresh"
          /\ UNCHANGED <<turnCardType, opened, bombVars, autoOutCard, gameOver>>
  BY DEF OnGameStart
<1>1. bankerUser' \in Chair /\ curUser' \in Chair
  BY DEF TableInv, TableType, ChairOrNone
<1>2. handCard' \in [Chair -> Bag]
  BY DealsAssumption
<1>3. TableType'
  BY <1>1, <1>2, EmptyType DEF TableInv, TableType, ChairOrNone, GameStates, bombVars
<1>4. BombBooks'
  BY DEF TableInv, BombBooks, bombVars
<1> QED  BY <1>3, <1>4 DEF TableInv

\* The table is as it was, but for the time, the look at the turn, and leaving GAME_END.
LEMMA IdleKeeps ==
  ASSUME TableInv,
         UNCHANGED <<bankerUser, curUser, handCard, trickVars, opened, bombVars>>,
         autoOutCard' \in BOOLEAN,
         coolLogic' \in {"fresh", "half", "late", "long", "out"},
         \/ UNCHANGED <<gameState, gameOver>>
         \/ gameState = "GAME_END" /\ gameState' \in {"FREE", "RECYCLE"} /\ gameOver' = NoResult
  PROVE  TableInv'
<1>1. /\ gameOver'.winner \in ChairOrNone /\ gameOver'.want \in [Chair -> Int]
      /\ Sum3(gameOver'.want) = 0
  BY ZeroBooks DEF TableInv, TableType, BombBooks, NoResult, ChairOrNone
<1>2. TableType'
  BY <1>1 DEF TableInv, TableType, GameStates, trickVars, bombVars
<1>3. BombBooks'
  BY <1>1 DEF TableInv, BombBooks, IsBomb, trickVars, bombVars
<1> QED  BY <1>2, <1>3 DEF TableInv

\* The room's reset keeps types and books.
LEMMA ResetTableKeeps ==
  ASSUME TableInv, ResetTable
  PROVE  TableInv'
<1>1. INVALID_CHAIR \in ChairOrNone
  BY DEF ChairOrNone
<1>2. /\ gameState' = "FREE" /\ ResetGameData(INVALID_CHAIR)
      /\ UNCHANGED <<coolLogic, gameOver>>
  BY DEF ResetTable
<1>3. TableType'
  BY <1>1, <1>2, ResetKeeps, ZeroBooks DEF TableInv, TableType, GameStates
<1>4. BombBooks'
  BY <1>1, <1>2, ResetKeeps, ZeroBooks DEF TableInv, BombBooks, Books
<1> QED  BY <1>3, <1>4 DEF TableInv

-----------------------------------------------------------------------------
(* The seats.                                                              *)

\* Marking a silent chair changes the mark of a chair.
LEMMA MarkAutoType ==
  ASSUME NEW auto \in [Chair -> BOOLEAN], NEW times, NEW c
  PROVE  MarkAuto(auto, times, c) \in [Chair -> BOOLEAN]
BY Zenon DEF MarkAuto

\* What a message does to the settings of the chairs keeps their types.
LEMMA SeatsAfterType ==
  ASSUME SeatType, NEW auto \in [Chair -> BOOLEAN], NEW times \in [Chair -> Nat],
         SeatsAfter(auto, times)
  PROVE  SeatType'
<1>1. Nobody \in [Chair -> BOOLEAN]
  BY Zenon DEF Nobody
<1>2. CASE gameState' = "GAME_END"
  <2>1. readyStatus' = Nobody /\ autoStatus' = Nobody /\ overTimes' = Zero
    BY <1>2 DEF SeatsAfter
  <2> QED  BY <1>1, <2>1, ZeroBooks DEF SeatType
<1>3. CASE gameState' # "GAME_END"
  <2>1. autoStatus' = auto /\ overTimes' = times /\ readyStatus' = readyStatus
    BY <1>3 DEF SeatsAfter
  <2> QED  BY <2>1 DEF SeatType
<1> QED  BY <1>2, <1>3

\* What the tail of a tick does to the settings of the chairs keeps their types.
LEMMA SeatsAfterTickType ==
  ASSUME SeatType, NEW times \in [Chair -> Nat], SeatsAfterTick(times)
  PROVE  SeatType'
<1> DEFINE auto == IF gameState' = "PLAY" THEN MarkAuto(autoStatus, times, curUser') ELSE autoStatus
<1>1. auto \in [Chair -> BOOLEAN]
  BY MarkAutoType DEF SeatType
<1>2. SeatsAfter(auto, times)
  BY DEF SeatsAfterTick
<1> HIDE DEF auto
<1> QED  BY <1>1, <1>2, SeatsAfterType

-----------------------------------------------------------------------------
(* The theorems.                                                           *)

\* The settings of the chairs have the right types at the start.
LEMMA InitSeats == Init => SeatType
<1>1. Nobody \in [Chair -> BOOLEAN]
  BY Zenon DEF Nobody
<1>2. Init => readyStatus = Nobody /\ autoStatus = Nobody /\ overTimes = Zero
  BY DEF Init
<1> QED  BY <1>1, <1>2, ZeroBooks DEF SeatType

\* Every message keeps types and books.
LEMMA ClientKeeps ==
  ASSUME TableInv, SeatType, Client
  PROVE  TableInv' /\ SeatType'
<1> PICK c \in Chair :
      \/ \E cards \in Bag : OutCard(c, cards)
      \/ PassCard(c)
      \/ SendGameScene(c)
      \/ \E b \in BOOLEAN : PlayerReady(c, b) \/ PlayerSetAuto(c, b)
  BY DEF Client
<1>1. autoStatus \in [Chair -> BOOLEAN] /\ overTimes \in [Chair -> Nat]
  BY DEF SeatType
<1>2. ASSUME NEW cards \in Bag, OutCard(c, cards) PROVE TableInv' /\ SeatType'
  <2>1. gameState = "PLAY" /\ UserOutCard(c, cards) /\ SeatsAfter(autoStatus, overTimes)
    BY <1>2 DEF OutCard
  <2>2. cards = [r \in Rank |-> cards[r]]
    BY <1>2 DEF Bag
  <2> QED  BY <1>1, <2>1, <2>2, UserOutCardKeeps, SeatsAfterType
<1>3. ASSUME PassCard(c) PROVE TableInv' /\ SeatType'
  <2>1. gameState = "PLAY" /\ AutoCard(c) /\ SeatsAfter(autoStatus, overTimes)
    BY <1>3 DEF PassCard
  <2> QED  BY <1>1, <2>1, AutoCardKeeps, SeatsAfterType
<1>4. ASSUME SendGameScene(c) PROVE TableInv' /\ SeatType'
  <2>1. TableInv'
    BY <1>4, IdleKeeps DEF SendGameScene, roundVars, TableInv, TableType
  <2> QED  BY <1>4, <2>1 DEF SendGameScene, SeatType, seatVars
<1>5. ASSUME NEW b \in BOOLEAN, PlayerReady(c, b) PROVE TableInv' /\ SeatType'
  <2>1. TableInv'
    BY <1>5, IdleKeeps DEF PlayerReady, roundVars, TableInv, TableType
  <2>2. SeatType'
    BY <1>5 DEF PlayerReady, SeatType
  <2> QED  BY <2>1, <2>2
<1>6. ASSUME NEW b \in BOOLEAN, PlayerSetAuto(c, b) PROVE TableInv' /\ SeatType'
  <2>1. TableInv'
    BY <1>6, IdleKeeps DEF PlayerSetAuto, roundVars, TableInv, TableType
  <2>2. SeatType'
    BY <1>6 DEF PlayerSetAuto, SeatType
  <2> QED  BY <2>1, <2>2
<1> QED  BY <1>2, <1>3, <1>4, <1>5, <1>6

\* Every tick keeps types and books.
LEMMA TickKeeps ==
  ASSUME TableInv, SeatType, Tick
  PROVE  TableInv' /\ SeatType'
<1>1. autoStatus \in [Chair -> BOOLEAN] /\ overTimes \in [Chair -> Nat]
  BY DEF SeatType
<1>2. gameState = "PLAY" => curUser \in Chair
  BY DEF TableInv, TableType
<1>3. MarkAuto(autoStatus, overTimes, curUser) \in [Chair -> BOOLEAN]
  BY <1>1, MarkAutoType
<1>4. CASE TickStart
  <2>1. TableInv'
    BY <1>4, OnGameStartKeeps DEF TickStart
  <2> QED  BY <1>4, <2>1 DEF TickStart, SeatType, seatVars
<1>5. CASE TickPlay
  <2>1. gameState = "PLAY" /\ AutoCard(curUser)
        /\ SeatsAfterTick([overTimes EXCEPT ![curUser] = @ + 1])
    BY <1>5 DEF TickPlay
  <2>2. curUser \in Chair
    BY <1>2, <2>1
  <2>3. overTimes[curUser] + 1 \in Nat
    BY <1>1, <2>2
  <2>4. [overTimes EXCEPT ![curUser] = @ + 1] \in [Chair -> Nat]
    BY <1>1, <2>2, <2>3
  <2> QED  BY <2>1, <2>2, <2>4, AutoCardKeeps, SeatsAfterTickType
<1>6. CASE TickCheck
  <2>1. gameState = "PLAY" /\ LastHandMove(curUser) /\ SeatsAfterTick(overTimes)
    BY <1>6 DEF TickCheck
  <2> QED  BY <1>1, <1>2, <2>1, LastHandMoveKeeps, SeatsAfterTickType
<1>7. CASE TickAuto
  <2>1. /\ gameState = "PLAY" /\ AutoCard(curUser)
        /\ SeatsAfter(MarkAuto(autoStatus, overTimes, curUser), overTimes)
    BY <1>7 DEF TickAuto
  <2> QED  BY <1>1, <1>2, <1>3, <2>1, AutoCardKeeps, SeatsAfterType
<1>8. CASE TickMark
  <2>1. autoOutCard' \in BOOLEAN
    BY <1>8 DEF TickMark
  <2>2. coolLogic' \in {"fresh", "half", "late", "long", "out"}
    BY <1>8 DEF TickMark, TableInv, TableType
  <2>3. TableInv'
    BY <1>8, <2>1, <2>2, IdleKeeps DEF TickMark, roundVars
  <2>4. SeatType'
    BY <1>3, <1>8 DEF TickMark, SeatType
  <2> QED  BY <2>3, <2>4
<1>9. CASE TickWait
  <2>1. gameState = "WAIT" /\ OnGameEnd(turnWiner, handCard) /\ SeatsAfter(autoStatus, overTimes)
    BY <1>9 DEF TickWait
  <2>2. turnWiner \in Chair /\ handCard \in [Chair -> Bag]
    BY <2>1 DEF TableInv, TableType
  <2> QED  BY <1>1, <2>1, <2>2, OnGameEndKeeps, SeatsAfterType
<1>10. CASE TickEnd
  <2>1. autoOutCard' \in BOOLEAN
    BY <1>10 DEF TickEnd, TableInv, TableType
  <2>2. TableInv'
    BY <1>10, <2>1, IdleKeeps DEF TickEnd
  <2> QED  BY <1>10, <2>2 DEF TickEnd, SeatType, seatVars
<1> QED  BY <1>4, <1>5, <1>6, <1>7, <1>8, <1>9, <1>10 DEF Tick

\* The invariant of the table is inductive.
THEOREM Invariant == Spec => [](TypeOK /\ BombBooks)
<1> DEFINE Inv == TableInv /\ SeatType
<1>1. Init => Inv
  BY InitTable, InitSeats
<1>2. Inv /\ [Next]_vars => Inv'
  <2> SUFFICES ASSUME TableInv, SeatType, [Next]_vars PROVE TableInv' /\ SeatType'
    OBVIOUS
  <2>1. CASE Client
    BY <2>1, ClientKeeps
  <2>2. CASE ResetTable
    <3>1. Nobody \in [Chair -> BOOLEAN]
      BY Zenon DEF Nobody
    <3>2. readyStatus' = Nobody /\ autoStatus' = Nobody /\ overTimes' = Zero
      BY <2>2 DEF ResetTable
    <3> QED  BY <2>2, <3>1, <3>2, ResetTableKeeps, ZeroBooks DEF SeatType
  <2>3. CASE Tick
    BY <2>3, TickKeeps
  <2>4. CASE Elapse
    <3>1. coolLogic' \in {"fresh", "half", "late", "long", "out"}
      BY <2>4 DEF Elapse, Later, TableInv, TableType
    <3>2. autoOutCard' \in BOOLEAN
      BY <2>4 DEF Elapse, TableInv, TableType
    <3>3. TableInv'
      BY <2>4, <3>1, <3>2, IdleKeeps DEF Elapse, roundVars
    <3> QED  BY <2>4, <3>3 DEF Elapse, SeatType, seatVars
  <2>5. CASE UNCHANGED vars
    <3>1. TableInv'
      BY <2>5, IdleKeeps DEF vars, roundVars, TableInv, TableType
    <3> QED  BY <2>5, <3>1 DEF vars, SeatType, seatVars
  <2> QED  BY <2>1, <2>2, <2>3, <2>4, <2>5 DEF Next
<1>3. Inv => TypeOK /\ BombBooks
  BY TypeParts DEF TableInv
<1> QED  BY <1>1, <1>2, <1>3, PTL DEF Spec

\* Every variable of the kuaipao table keeps its type; in play somebody has the turn.
THEOREM TypeCorrect == Spec => []TypeOK
BY Invariant, PTL

\* The books of the bombs agree with the bombs that were won, and a settlement asks for as
\* much as it gives.
THEOREM BombsAreBooked == Spec => []BombBooks
BY Invariant, PTL

-----------------------------------------------------------------------------
(* A bomb is paid once.                                                    *)

PaidStep ==
  gameState = "PLAY" /\ gameState' \in {"PLAY", "WAIT"} =>
    eachBombCount' =
      IF \/ turnCard # Empty /\ turnCard' = Empty /\ IsBomb(turnCard)
         \/ gameState' = "WAIT" /\ IsBomb(turnCard')
      THEN [eachBombCount EXCEPT ![turnWiner'] = @ + 1]
      ELSE eachBombCount

\* A step that leaves cards and books alone pays for nothing.
LEMMA QuietStep ==
  ASSUME UNCHANGED <<gameState, turnCard, eachBombCount>>
  PROVE  PaidStep
BY DEF PaidStep

\* A play pays for no bomb but the one its last hand won.
LEMMA UserOutCardPays ==
  ASSUME gameState = "PLAY", NEW c \in Chair, NEW cards, UserOutCard(c, cards)
  PROVE  PaidStep
<1> DEFINE type == GetCardType(cards, LastHand(c, cards))
<1>1. BombTaken(type) = IsBomb(cards) /\ cards # Empty
  BY BombAnyHand DEF LastHand, UserOutCard, CanOutCard
<1>2. PutDown(c, cards) => turnCard' = cards /\ turnWiner' = c
  BY DEF PutDown
<1> HIDE DEF type
<1>3. CASE PutDown(c, cards) /\ UNCHANGED <<gameState, bankerUser, bombVars, gameOver>>
  BY <1>1, <1>2, <1>3 DEF PaidStep, bombVars
<1>4. CASE BombTaken(type) /\ PutDown(c, cards) /\ CheckBombCalc(c, type) /\ gameState' = "WAIT"
  BY <1>1, <1>2, <1>4 DEF PaidStep, CheckBombCalc
<1>5. CASE gameState' = "GAME_END"
  BY <1>5 DEF PaidStep
<1> QED  BY <1>3, <1>4, <1>5 DEF UserOutCard, OnGameEnd, type

\* A pass pays for no bomb but the one of the trick it ends.
LEMMA UserPassCardPays ==
  ASSUME TableInv, gameState = "PLAY", NEW c \in Chair, UserPassCard(c)
  PROVE  PaidStep
<1>1. /\ turnCard # Empty /\ gameState' = "PLAY" /\ turnWiner' = turnWiner
      /\ WinTrick(c)
  BY DEF UserPassCard
<1>2. BombTaken(turnCardType) = IsBomb(turnCard)
  BY <1>1 DEF TableInv, BombBooks
<1>3. CASE TrickWon(c)
  BY <1>1, <1>2, <1>3 DEF WinTrick, CheckBombCalc, PaidStep, bombVars
<1>4. CASE ~TrickWon(c)
  BY <1>1, <1>4 DEF WinTrick, PaidStep, bombVars
<1> QED  BY <1>3, <1>4

\* No step pays for another bomb.
LEMMA NextPays == TableInv /\ [Next]_vars => PaidStep
<1> SUFFICES ASSUME TableInv, [Next]_vars, gameState = "PLAY" PROVE PaidStep
  BY DEF PaidStep
<1>1. curUser \in Chair
  BY DEF TableInv, TableType
<1>2. ASSUME NEW c \in Chair, AutoCard(c) PROVE PaidStep
  BY <1>2, UserOutCardPays, UserPassCardPays DEF AutoCard
<1>3. ASSUME NEW c \in Chair, LastHandMove(c) PROVE PaidStep
  BY <1>3, UserOutCardPays, UserPassCardPays DEF LastHandMove
<1>4. CASE Client
  <2> PICK c \in Chair :
        \/ \E cards \in Bag : OutCard(c, cards)
        \/ PassCard(c)
        \/ SendGameScene(c)
        \/ \E b \in BOOLEAN : PlayerReady(c, b) \/ PlayerSetAuto(c, b)
    BY <1>4 DEF Client
  <2>1. ASSUME NEW cards \in Bag, OutCard(c, cards) PROVE PaidStep
    BY <2>1, UserOutCardPays DEF OutCard
  <2>2. CASE PassCard(c)
    BY <2>2, <1>2 DEF PassCard
  <2>3. CASE SendGameScene(c)
    BY <2>3, QuietStep DEF SendGameScene, roundVars, trickVars, bombVars
  <2>4. ASSUME NEW b \in BOOLEAN, PlayerReady(c, b) \/ PlayerSetAuto(c, b) PROVE PaidStep
    BY <2>4, QuietStep DEF PlayerReady, PlayerSetAuto, roundVars, trickVars, bombVars
  <2> QED  BY <2>1, <2>2, <2>3, <2>4
<1>5. CASE Tick
  <2>1. CASE TickPlay
    BY <2>1, <1>1, <1>2 DEF TickPlay
  <2>2. CASE TickCheck
    BY <2>2, <1>1, <1>3 DEF TickCheck
  <2>3. CASE TickAuto
    BY <2>3, <1>1, <1>2 DEF TickAuto
  <2>4. CASE TickMark
    BY <2>4, QuietStep DEF TickMark, roundVars, trickVars, bombVars
  <2> QED  BY <1>5, <2>1, <2>2, <2>3, <2>4 DEF Tick, TickStart, TickWait, TickEnd
<1>6. CASE Elapse
  BY <1>6, QuietStep DEF Elapse, roundVars, trickVars, bombVars
<1>7. CASE UNCHANGED vars
  BY <1>7, QuietStep DEF vars, roundVars, trickVars, bombVars
<1> QED  BY <1>4, <1>5, <1>6, <1>7 DEF Next, ResetTable

\* Bombs are paid for once each, and only by the trick or the last hand they won.
THEOREM BombsArePaidOnce == Spec => BombPaidOnce
<1>1. TypeOK /\ BombBooks => TableInv
  BY TypeParts DEF TableInv
<1>2. (TypeOK /\ BombBooks) /\ [Next]_vars => [PaidStep]_vars
  BY <1>1, NextPays
<1>3. Spec => [][PaidStep]_vars
  BY Invariant, <1>2, PTL DEF Spec
<1> QED  BY <1>3 DEF BombPaidOnce, PaidStep

-----------------------------------------------------------------------------
(* The leads: what they are, and that each is a play.                      *)

LeadSet ==
  [len : 1..3, n : {3}] \cup [len : 1..7, n : {2}] \cup [len : 6..16, n : {1}] \cup [len : {1}, n : {4}]

\* The leads looked for are planes of up to three triples, up to seven pairs, straights of
\* six cards or more, and a bomb.
LEMMA LeadsAre == \A i \in DOMAIN Leads : Leads[i] \in LeadSet /\ i \in Nat
<1> DEFINE planes == [i \in 1..3 |-> [len |-> 4 - i, n |-> 3]]
           pairs == [i \in 1..6 |-> [len |-> 8 - i, n |-> 2]]
           straights == [i \in 1..11 |-> [len |-> 17 - i, n |-> 1]]
           rest == <<[len |-> 1, n |-> 4], [len |-> 1, n |-> 2]>>
<1>1. planes \in Seq(LeadSet)
  <2>1. \A i \in 1..3 : [len |-> 4 - i, n |-> 3] \in LeadSet
    BY DEF LeadSet
  <2>2. planes \in [1..3 -> LeadSet]
    BY <2>1
  <2> QED  BY <2>2, SeqDef
<1>2. pairs \in Seq(LeadSet)
  <2>1. \A i \in 1..6 : [len |-> 8 - i, n |-> 2] \in LeadSet
    BY DEF LeadSet
  <2>2. pairs \in [1..6 -> LeadSet]
    BY <2>1
  <2> QED  BY <2>2, SeqDef
<1>3. straights \in Seq(LeadSet)
  <2>1. \A i \in 1..11 : [len |-> 17 - i, n |-> 1] \in LeadSet
    BY DEF LeadSet
  <2>2. straights \in [1..11 -> LeadSet]
    BY <2>1
  <2> QED  BY <2>2, SeqDef
<1>4. rest \in Seq(LeadSet)
  <2>1. [len |-> 1, n |-> 4] \in LeadSet /\ [len |-> 1, n |-> 2] \in LeadSet
    BY DEF LeadSet
  <2> QED  BY <2>1
<1>5. Leads = planes \o pairs \o straights \o rest
  BY DEF Leads
<1> HIDE DEF planes, pairs, straights, rest
<1>6. planes \o pairs \in Seq(LeadSet)
  BY <1>1, <1>2, ConcatProperties
<1>7. planes \o pairs \o straights \in Seq(LeadSet)
  BY <1>3, <1>6, ConcatProperties
<1>8. Leads \in Seq(LeadSet)
  BY <1>4, <1>5, <1>7, ConcatProperties
<1>9. \A i \in DOMAIN Leads : i \in 1..Len(Leads) /\ Leads[i] \in LeadSet
  BY <1>8, ElementOfSeq, LenProperties
<1> QED  BY <1>9

\* What a deck leaves in a hand: at most one card of rank two, and no jokers.
FromDeck(hand) == hand \in Bag /\ \A r \in Rank : hand[r] <= Deck[r]

\* A hand of the deck has a single two, no jokers, and no more than four of a rank.
LEMMA DeckFacts ==
  ASSUME NEW hand, FromDeck(hand)
  PROVE  /\ hand \in Bag /\ hand[15] <= 1 /\ hand[16] = 0 /\ hand[17] = 0
         /\ \A r \in Rank : hand[r] \in 0..4 /\ (r >= Two => hand[r] < 2)
<1>1. hand \in Bag /\ \A r \in Rank : hand[r] \in 0..4 /\ hand[r] <= Deck[r]
  BY BagCounts DEF FromDeck
<1>2. \A r \in Rank : r > Two => Deck[r] = 0
  BY DEF Deck
<1>3. Deck[15] = 1
  BY DEF Deck, Two, Rank
<1>4. 15 \in Rank /\ 16 \in Rank /\ 17 \in Rank /\ Two = 15
  BY DEF Rank, Two
<1>5. hand[15] <= 1 /\ hand[16] = 0 /\ hand[17] = 0
  BY <1>1, <1>2, <1>3, <1>4
<1>6. \A r \in Rank : r >= Two => hand[r] < 2
  BY <1>1, <1>4, <1>5 DEF Rank
<1> QED  BY <1>1, <1>5, <1>6

\* A play out of a hand that is no single card, whether it is the last of the hand or not.
Playable(cards, hand) ==
  /\ Within(cards, hand) /\ Size(cards) \in Nat /\ Size(cards) > 1
  /\ \A last \in BOOLEAN : GetCardType(cards, last) # "CT_ERROR"

\* A line without anything attached.
LEMMA BareLine ==
  ASSUME NEW hand \in Bag, NEW len \in Nat \ {0}, NEW n \in 1..4, NEW t \in LineTops(hand, len, n, 0),
         NEW cards, cards = TakeLine(hand, t, len, n, len * n)
  PROVE  /\ cards \in Counts /\ Within(cards, hand)
         /\ \A r \in Rank : cards[r] = IF r \in Line(t, len) THEN n ELSE 0
         /\ Held(cards) = Line(t, len) /\ Exactly(cards, n) = Line(t, len)
         /\ \A m \in 1..4 : m # n => Exactly(cards, m) = {}
         /\ n < 3 => Triples(cards) = {}
<1> DEFINE L == Line(t, len)
<1>1. Attached(Minus(hand, Copies(L, n)), len * n - len * n, FALSE) = Empty
  BY DEF Attached
<1>2. cards = Plus(Copies(L, n), Empty)
  BY <1>1 DEF TakeLine
<1>3. \A r \in Rank : cards[r] = Copies(L, n)[r] + Empty[r]
  BY <1>2 DEF Plus
<1>4. \A r \in Rank : Copies(L, n)[r] = (IF r \in L THEN n ELSE 0) /\ Empty[r] = 0
  BY DEF Copies, Empty
<1>5. \A r \in Rank : cards[r] = IF r \in L THEN n ELSE 0
  BY <1>3, <1>4
<1>6. cards \in Counts
  <2>1. \A r \in Rank : Copies(L, n)[r] + Empty[r] \in Int
    BY <1>4
  <2> QED  BY <1>2, <2>1 DEF Plus, Counts
<1>7. L \in SUBSET Rank /\ \A r \in L : hand[r] >= n
  BY LineFacts
<1>8. Within(cards, hand)
  <2>1. \A r \in Rank : hand[r] \in Nat
    BY BagCounts
  <2> QED  BY <1>5, <1>7, <2>1 DEF Within
<1> HIDE DEF L
<1>9. Held(cards) = L /\ Exactly(cards, n) = L
  BY <1>5, <1>7 DEF Held, Exactly
<1>10. \A m \in 1..4 : m # n => Exactly(cards, m) = {}
  BY <1>5 DEF Exactly
<1>11. n < 3 => Triples(cards) = {}
  BY <1>5 DEF Triples, AtLeast
<1> QED  BY <1>5, <1>6, <1>8, <1>9, <1>10, <1>11 DEF L

\* A bare line is the line it looks like: pairs, a single card, or five cards and more.
LineType(len, n) ==
  IF n = 2 THEN "CT_DOUBLE_LINE" ELSE IF len = 1 THEN "CT_SINGLE" ELSE "CT_SINGLE_LINE"

\* A row of cards or pairs the search takes is a play of the type it was looked for as.
LEMMA LinePlay ==
  ASSUME NEW hand \in Bag, NEW len \in Nat \ {0}, NEW n \in {1, 2}, n = 1 => len = 1 \/ len >= 5,
         NEW t \in LineTops(hand, len, n, 0), NEW cards, cards = TakeLine(hand, t, len, n, len * n)
  PROVE  /\ Within(cards, hand) /\ Size(cards) = len * n
         /\ Highest(Held(cards)) = t
         /\ \A last \in BOOLEAN : GetCardType(cards, last) = LineType(len, n)
<1>1. /\ cards \in Counts /\ Within(cards, hand)
      /\ \A r \in Rank : cards[r] = IF r \in Line(t, len) THEN n ELSE 0
      /\ Held(cards) = Line(t, len) /\ Exactly(cards, n) = Line(t, len)
      /\ Exactly(cards, 4) = {} /\ Triples(cards) = {}
      /\ \A m \in 1..4 : m # n => Exactly(cards, m) = {}
  BY BareLine
<1>2. t \in Rank /\ t \in Line(t, len) /\ IsLine(Line(t, len)) /\ Line(t, len) \in SUBSET Rank
  BY LineFacts
<1>3. Size(cards) = len * n
  <2>1. cards = Copies(Line(t, len), n)
    BY <1>1 DEF Counts, Copies
  <2>2. Size(Copies(Line(t, len), n)) = len * n
    <3>1. n \in Int
      OBVIOUS
    <3> QED  BY <1>2, <3>1, SizeLine
  <2> QED  BY <2>1, <2>2
<1>4. Highest(Held(cards)) = t
  <2>1. \A r \in Line(t, len) : r <= t
    BY DEF Line
  <2>2. Highest(Line(t, len)) \in Line(t, len) /\ Highest(Line(t, len)) >= t
    BY <1>2, HighestIn
  <2> QED  BY <1>1, <1>2, <2>1, <2>2 DEF Rank
<1>5. Cardinality(Exactly(cards, 4)) # 1
  BY <1>1, FS_EmptySet
<1>6. ASSUME NEW last \in BOOLEAN PROVE GetCardType(cards, last) = LineType(len, n)
  <2>1. ~IsThreeLine(cards, last)
    BY <1>1 DEF IsThreeLine
  <2>2. CASE n = 2
    <3>1. IsDoubleLine(cards)
      BY <1>1, <1>2, <2>2 DEF IsDoubleLine, IsLineOf
    <3>2. Size(cards) # 1
      BY <1>3, <2>2
    <3>3. LineType(len, n) = "CT_DOUBLE_LINE"
      BY <2>2 DEF LineType
    <3> QED  BY <1>5, <2>1, <3>1, <3>2, <3>3, Zenon DEF GetCardType
  <2>3. CASE n = 1 /\ len = 1
    <3>1. Size(cards) = 1
      BY <1>3, <2>3
    <3>2. LineType(len, n) = "CT_SINGLE"
      BY <2>3 DEF LineType
    <3> QED  BY <3>1, <3>2 DEF GetCardType
  <2>4. CASE n = 1 /\ len >= 5
    <3>1. Size(cards) = len
      BY <1>3, <2>4
    <3>2. IsSingleLine(cards)
      BY <1>1, <1>2, <2>4, <3>1 DEF IsSingleLine, IsLineOf
    <3>3. ~IsDoubleLine(cards)
      BY <1>1, <2>4 DEF IsDoubleLine, IsLineOf
    <3>4. Size(cards) # 1
      BY <2>4, <3>1
    <3>5. LineType(len, n) = "CT_SINGLE_LINE"
      BY <2>4 DEF LineType
    <3> QED  BY <1>5, <2>1, <3>2, <3>3, <3>4, <3>5, Zenon DEF GetCardType
  <2> QED  BY <2>2, <2>3, <2>4
<1> QED  BY <1>1, <1>3, <1>4, <1>6

\* Pairs, one or several in a row, and six cards or more in a row.
LEMMA RowPlay ==
  ASSUME NEW hand \in Bag, NEW len \in Nat \ {0}, NEW n \in {1, 2}, n = 1 => len >= 6,
         NEW t \in LineTops(hand, len, n, 0)
  PROVE  Playable(TakeLine(hand, t, len, n, len * n), hand)
<1>1. PICK cards : cards = TakeLine(hand, t, len, n, len * n)
  OBVIOUS
<1>2. n = 1 => len = 1 \/ len >= 5
  OBVIOUS
<1>3. /\ Within(cards, hand) /\ Size(cards) = len * n
      /\ \A last \in BOOLEAN : GetCardType(cards, last) = LineType(len, n)
  BY <1>1, <1>2, LinePlay
<1>4. LineType(len, n) # "CT_ERROR"
  BY DEF LineType
<1>5. Size(cards) \in Nat /\ Size(cards) > 1
  BY <1>3
<1> QED  BY <1>1, <1>3, <1>4, <1>5 DEF Playable

\* Four of a kind.
LEMMA BombPlay ==
  ASSUME NEW hand \in Bag, NEW t \in LineTops(hand, 1, 4, 0)
  PROVE  Playable(TakeLine(hand, t, 1, 4, 1 * 4), hand)
<1>1. PICK cards : cards = TakeLine(hand, t, 1, 4, 1 * 4)
  OBVIOUS
<1>2. t \in Rank /\ Line(t, 1) = {t}
  BY LineFacts
<1>3. /\ cards \in Counts /\ Within(cards, hand)
      /\ \A r \in Rank : cards[r] = IF r = t THEN 4 ELSE 0
      /\ Exactly(cards, 4) = {t}
  BY <1>1, <1>2, BareLine
<1>4. Copies({t}, 4) \in Counts /\ Size(Copies({t}, 4)) = 4
  BY <1>2, SizeOne
<1>5. cards = Copies({t}, 4)
  BY <1>3 DEF Counts, Copies
<1>6. Cardinality(Exactly(cards, 4)) = 1 /\ Size(cards) = 4
  BY <1>3, <1>4, <1>5, FS_Singleton
<1>7. ASSUME NEW last PROVE GetCardType(cards, last) = "CT_BOMB"
  BY <1>6 DEF GetCardType
<1> QED  BY <1>1, <1>3, <1>6, <1>7 DEF Playable

\* A line of len triples, the only ones or with one more beside two, one or two beside three,
\* and no twos.
HoldsLine(T, L, len) ==
  /\ L \subseteq T /\ \A r \in T : r < Two
  /\ \/ T = L
     \/ len # 1 /\ \E p \in T \ L : T = L \cup {p}
     \/ len = 3 /\ \E p \in T \ L : \E q \in T \ L : p # q /\ T = L \cup {p} \cup {q}

\* Triples beside a line do not make it look shorter.
LEMMA LineStays ==
  ASSUME NEW cards, NEW len \in 1..3, NEW t \in Rank, NEW L, L = Line(t, len), IsLine(L),
         Triples(cards) \in SUBSET Rank, HoldsLine(Triples(cards), L, len)
  PROVE  GetThreeLine(cards).len \in Nat /\ GetThreeLine(cards).len >= len
<1> DEFINE T == Triples(cards)
           many == Cardinality(T)
           l == IF many = 3 THEN 2 ELSE 3
           tops == {x \in T : Line(x, l) \subseteq T}
<1>1. PICK g : g = GetThreeLine(cards)
  OBVIOUS
<1>2. g = IF IsLine(T) THEN [len |-> many, top |-> Highest(T)]
          ELSE IF Highest(T) # Two /\ many \in 3..5 /\ tops # {} THEN [len |-> l, top |-> Highest(tops)]
          ELSE [len |-> 1, top |-> Highest(T)]
  BY <1>1, Zenon DEF GetThreeLine
<1>3. /\ T \in SUBSET Rank /\ L \subseteq T /\ \A r \in T : r < Two
      /\ \/ T = L
         \/ len # 1 /\ \E p \in T \ L : T = L \cup {p}
         \/ len = 3 /\ \E p \in T \ L : \E q \in T \ L : p # q /\ T = L \cup {p} \cup {q}
  BY DEF HoldsLine
<1> HIDE DEF T
<1>4. IsFiniteSet(L) /\ Cardinality(L) = len
  <2>1. t - len + 1 \in Int /\ t \in Int /\ t - (t - len + 1) + 1 = len /\ ~(t - len + 1 > t)
    BY DEF Rank
  <2>2. L = (t - len + 1)..t
    BY DEF Line
  <2> QED  BY <2>1, <2>2, FS_Interval
<1>5. \/ T = L /\ many = len
      \/ T # L /\ many = len + 1
      \/ T # L /\ len = 3 /\ many = 5
  <2>1. CASE T = L
    BY <1>4, <2>1
  <2>2. ASSUME NEW p \in T \ L, T = L \cup {p} PROVE T # L /\ many = len + 1
    BY <1>4, <2>2, FS_AddElement
  <2>3. ASSUME len = 3, NEW p \in T \ L, NEW q \in T \ L, p # q, T = L \cup {p} \cup {q}
        PROVE  T # L /\ many = 5
    <3>1. IsFiniteSet(L \cup {p}) /\ Cardinality(L \cup {p}) = 4
      BY <1>4, <2>3, FS_AddElement
    <3>2. q \notin L \cup {p}
      BY <2>3
    <3> QED  BY <2>3, <3>1, <3>2, FS_AddElement
  <2> QED  BY <1>3, <2>1, <2>2, <2>3
<1>6. t \in L /\ T # {}
  <2>1. t \in (t - len + 1)..t
    BY DEF Rank
  <2> QED  BY <1>3, <2>1 DEF Line
<1>7. Highest(T) # Two
  <2>1. Highest(T) \in T
    BY <1>3, <1>6, HighestIn
  <2> QED  BY <1>3, <2>1 DEF Two
<1>8. CASE IsLine(T)
  BY <1>5, <1>1, <1>2, <1>8
<1>9. CASE ~IsLine(T)
  <2>1. T # L
    BY <1>9
  <2>2. CASE len = 1
    <3>1. g.len \in {1, l} /\ l \in {2, 3}
      BY <1>2, <1>9
    <3> QED  BY <1>1, <2>2, <3>1
  <2>3. CASE len # 1
    <3>1. l = len /\ many \in 3..5
      BY <1>5, <2>1, <2>3
    <3>2. t \in tops
      BY <1>3, <1>6, <3>1
    <3>3. g.len = l
      BY <1>7, <1>2, <1>9, <3>1, <3>2
    <3> QED  BY <1>1, <3>1, <3>3
  <2> QED  BY <2>2, <2>3
<1> QED  BY <1>8, <1>9

\* Triples in a row with two cards each: what is attached to them is too little to spoil them.
LEMMA PlaneFacts ==
  ASSUME NEW hand, FromDeck(hand), NEW len \in 1..3, NEW t \in LineTops(hand, len, 3, 0),
         Size(hand) >= len * 5
  PROVE  LET cards == TakeLine(hand, t, len, 3, len * 5)
         IN  /\ cards \in Counts /\ Within(cards, hand) /\ Size(cards) = 5 * len
             /\ Triples(cards) \in SUBSET Rank /\ IsLine(Line(t, len)) /\ t \in Line(t, len)
             /\ HoldsLine(Triples(cards), Line(t, len), len)
<1> DEFINE L == Line(t, len)
           line == Copies(L, 3)
           rest == Minus(hand, line)
           more == Attached(rest, 2 * len, FALSE)
<1>1. PICK cards : cards = TakeLine(hand, t, len, 3, len * 5)
  OBVIOUS
<1>2. cards = Plus(line, more)
  <2>1. len * 5 - len * 3 = 2 * len
    OBVIOUS
  <2> QED  BY <1>1, <2>1 DEF TakeLine
<1>3. /\ hand \in Bag /\ hand \in Counts
      /\ \A r \in Rank : hand[r] \in 0..4 /\ (r >= Two => hand[r] < 2)
  BY DeckFacts, BagCounts
<1>4. /\ t \in Rank /\ t \in L /\ L \in SUBSET Rank /\ IsLine(L)
      /\ \A r \in L : hand[r] >= 3
  BY <1>3, LineFacts
<1>5. line \in Counts /\ \A r \in Rank : line[r] = IF r \in L THEN 3 ELSE 0
  BY DEF Copies, Counts
<1>6. Size(line) = 3 * len
  <2>1. CASE len = 1
    <3>1. L = {t}
      BY <1>4, <2>1 DEF Line, Rank
    <3> QED  BY <1>4, <2>1, <3>1, SizeOne
  <2>2. CASE len = 2
    <3>1. t - 1 \in L /\ L = {t - 1, t} /\ t - 1 # t
      BY <1>4, <2>2 DEF Line, Rank
    <3>2. Size(Copies({t - 1, t}, 3)) = 2 * 3
      BY <1>4, <3>1, SizeTwo
    <3> QED  BY <2>2, <3>1, <3>2
  <2>3. CASE len = 3
    <3>1. /\ t - 2 \in L /\ t - 1 \in L /\ L = {t - 2, t - 1, t}
          /\ t - 2 # t - 1 /\ t # t - 2 /\ t # t - 1
      BY <1>4, <2>3 DEF Line, Rank
    <3>2. Size(Copies({t - 2, t - 1, t}, 3)) = 3 * 3
      BY <1>4, <3>1, SizeThree
    <3> QED  BY <2>3, <3>1, <3>2
  <2> QED  BY <2>1, <2>2, <2>3
<1> HIDE DEF L
<1>7. Within(line, hand)
  BY <1>3, <1>4, <1>5 DEF Within
<1>8. rest \in Bag /\ rest \in Counts /\ \A r \in Rank : rest[r] = hand[r] - line[r]
  <2>1. line = [r \in Rank |-> line[r]]
    BY DEF Copies
  <2>2. rest \in Bag
    BY <1>3, <1>7, <2>1, TakeType
  <2> QED  BY <2>2, BagCounts DEF Minus
<1> HIDE DEF line, rest
<1>9. Size(hand) = Size(line) + Size(rest)
  <2>1. \A r \in Rank : hand[r] = line[r] + rest[r]
    <3> TAKE r \in Rank
    <3>1. hand[r] \in 0..4 /\ line[r] \in {0, 3} /\ rest[r] = hand[r] - line[r]
      BY <1>3, <1>5, <1>8
    <3> QED  BY <3>1
  <2> QED  BY <1>3, <1>5, <1>8, <2>1, SizeAdds
<1>10. 2 * len \in Nat /\ 2 * len <= Size(rest)
  <2>1. Size(rest) \in Nat
    BY <1>8, SizeType
  <2> QED  BY <1>6, <1>9, <2>1
<1>11. /\ more \in Counts /\ Size(more) = 2 * len
       /\ \A r \in Rank : more[r] \in 0..rest[r]
  BY <1>8, <1>10, AttachedAt, AttachedSize
<1> HIDE DEF more
<1>12. \A r \in Rank : /\ cards[r] = line[r] + more[r] /\ line[r] \in {0, 3}
                       /\ cards[r] \in 0..hand[r] /\ more[r] \in Nat
  <2> TAKE r \in Rank
  <2>1. cards[r] = line[r] + more[r]
    BY <1>2 DEF Plus
  <2>2. hand[r] \in 0..4 /\ line[r] \in {0, 3} /\ rest[r] = hand[r] - line[r] /\ rest[r] \in 0..4
    BY <1>3, <1>5, <1>8, BagCounts
  <2>3. more[r] \in 0..rest[r]
    BY <1>11
  <2> QED  BY <2>1, <2>2, <2>3
<1>13. cards \in Counts
  <2>1. \A r \in Rank : line[r] + more[r] \in Int
    BY <1>12
  <2> QED  BY <1>2, <2>1, Zenon DEF Plus, Counts
<1>14. Size(cards) = 5 * len
  <2>1. Size(cards) = Size(line) + Size(more)
    BY <1>5, <1>11, <1>12, <1>13, SizeAdds
  <2> QED  BY <1>6, <1>11, <2>1
<1>15. PICK T \in SUBSET Rank : T = Triples(cards)
  BY DEF Triples, AtLeast
<1>16. \A r \in Rank : r \in T <=> cards[r] >= 3
  BY <1>15 DEF Triples, AtLeast
<1>17. L \subseteq T
  <2> SUFFICES ASSUME NEW r \in L PROVE r \in T
    OBVIOUS
  <2>1. r \in Rank /\ line[r] = 3 /\ cards[r] = line[r] + more[r] /\ more[r] \in Nat
    BY <1>4, <1>5, <1>12
  <2> QED  BY <1>16, <2>1
<1>18. \A r \in T : r < Two
  <2> SUFFICES ASSUME NEW r \in T, ~(r < Two) PROVE FALSE
    OBVIOUS
  <2>1. r \in Rank /\ cards[r] >= 3 /\ cards[r] \in 0..hand[r] /\ hand[r] \in 0..4
    BY <1>3, <1>12, <1>16
  <2>2. hand[r] < 2
    BY <1>3, <2>1 DEF Two, Rank
  <2> QED  BY <2>1, <2>2
<1>19. \A p \in T \ L : p \in Rank /\ more[p] >= 3
  <2> TAKE p \in T \ L
  <2>1. p \in Rank /\ cards[p] >= 3 /\ line[p] = 0 /\ cards[p] = line[p] + more[p] /\ more[p] \in Nat
    BY <1>5, <1>12, <1>16
  <2> QED  BY <2>1
<1>20. ASSUME NEW p \in T \ L PROVE len # 1
  <2>1. Copies({p}, 3) \in Counts /\ Size(Copies({p}, 3)) = 3
    BY <1>19, <1>20, SizeOne
  <2>2. \A r \in Rank : Copies({p}, 3)[r] <= more[r]
    BY <1>12, <1>19 DEF Copies
  <2>3. Size(Copies({p}, 3)) <= Size(more)
    BY <1>11, <2>1, <2>2, SizeGrows
  <2> QED  BY <1>11, <2>1, <2>3
<1>21. ASSUME NEW p \in T \ L, NEW q \in T \ L, p # q PROVE len = 3
  <2>1. Copies({p, q}, 3) \in Counts /\ Size(Copies({p, q}, 3)) = 2 * 3
    BY <1>19, <1>21, SizeTwo
  <2>2. \A r \in Rank : Copies({p, q}, 3)[r] <= more[r]
    BY <1>12, <1>19 DEF Copies
  <2>3. Size(Copies({p, q}, 3)) <= Size(more)
    BY <1>11, <2>1, <2>2, SizeGrows
  <2> QED  BY <1>11, <2>1, <2>3
<1>22. ASSUME NEW p \in T \ L, NEW q \in T \ L, NEW u \in T \ L, p # q, u # p, u # q PROVE FALSE
  <2>1. Copies({p, q, u}, 3) \in Counts /\ Size(Copies({p, q, u}, 3)) = 3 * 3
    BY <1>19, <1>22, SizeThree
  <2>2. \A r \in Rank : Copies({p, q, u}, 3)[r] <= more[r]
    BY <1>12, <1>19 DEF Copies
  <2>3. Size(Copies({p, q, u}, 3)) <= Size(more)
    BY <1>11, <2>1, <2>2, SizeGrows
  <2> QED  BY <1>11, <2>1, <2>3
<1>23. \/ T = L
       \/ len # 1 /\ \E p \in T \ L : T = L \cup {p}
       \/ len = 3 /\ \E p \in T \ L : \E q \in T \ L : p # q /\ T = L \cup {p} \cup {q}
  <2>1. CASE T \ L = {}
    BY <1>17, <2>1
  <2>2. CASE \E p \in T \ L : T \ L = {p}
    BY <1>17, <1>20, <2>2
  <2>3. CASE \E p \in T \ L : \E q \in T \ L : p # q
    <3>1. PICK p \in T \ L, q \in T \ L : p # q
      BY <2>3
    <3>2. T = L \cup {p} \cup {q}
      BY <1>17, <1>22, <3>1
    <3> QED  BY <1>21, <3>1, <3>2
  <2> QED  BY <2>1, <2>2, <2>3
<1>24. HoldsLine(Triples(cards), L, len)
  BY <1>15, <1>17, <1>18, <1>23 DEF HoldsLine
<1>25. Within(cards, hand)
  BY <1>12 DEF Within
<1> QED  BY <1>1, <1>4, <1>13, <1>14, <1>15, <1>24, <1>25 DEF L

\* Triples the search takes, with what it attaches to them, are a play the table takes.
LEMMA PlanePlay ==
  ASSUME NEW hand, FromDeck(hand), NEW len \in 1..3, NEW t \in LineTops(hand, len, 3, 0),
         Size(hand) >= len * 5
  PROVE  Playable(TakeLine(hand, t, len, 3, len * 5), hand)
<1>1. PICK cards : cards = TakeLine(hand, t, len, 3, len * 5)
  OBVIOUS
<1>2. /\ cards \in Counts /\ Within(cards, hand) /\ Size(cards) = 5 * len
      /\ Triples(cards) \in SUBSET Rank /\ IsLine(Line(t, len)) /\ t \in Line(t, len)
      /\ HoldsLine(Triples(cards), Line(t, len), len)
  BY <1>1, PlaneFacts
<1>3. GetThreeLine(cards).len \in Nat /\ GetThreeLine(cards).len >= len
  <2>1. t \in Rank
    BY DEF LineTops, AtLeast
  <2> QED  BY <1>2, <2>1, LineStays
<1>4. Triples(cards) # {}
  BY <1>2 DEF HoldsLine
<1>5. Size(cards) > 2 /\ \E used \in 1..GetThreeLine(cards).len : 5 * used = Size(cards)
  BY <1>2, <1>3
<1>6. ASSUME NEW last \in BOOLEAN PROVE GetCardType(cards, last) # "CT_ERROR"
  <2>1. IsThreeLine(cards, last)
    BY <1>4, <1>5, Zenon DEF IsThreeLine
  <2> QED  BY <1>5, <2>1 DEF GetCardType
<1> QED  BY <1>1, <1>2, <1>6 DEF Playable

\* A single card, taken when nothing else is found.
SingleOf(cards, x, hand) == x \in Held(hand) /\ cards = Copies({x}, 1)

\* The search finds a play, or a single card, the highest one if it may be the last of a trick.
LEMMA LeadIsPlay ==
  ASSUME NEW hand, FromDeck(hand), hand # Empty, NEW num
  PROVE  LET cards == SearchActionOutCard(hand, num)
         IN  \/ Playable(cards, hand)
             \/ \E x \in Held(hand) : SingleOf(cards, x, hand) /\ (num = 1 => x = Highest(Held(hand)))
<1> DEFINE found == {i \in DOMAIN Leads : CanLead(hand, Leads[i])}
           lead == Leads[Lowest(found)]
           tops == LineTops(hand, lead.len, lead.n, 0)
           t == Lowest(tops)
<1>1. hand \in Bag
  BY DEF FromDeck
<1>2. PICK cards : cards = SearchActionOutCard(hand, num)
  OBVIOUS
<1>3. cards = IF found # {} THEN TakeLine(hand, t, lead.len, lead.n, LeadSize(lead))
              ELSE IF num = 1 THEN Copies({Highest(Held(hand))}, 1)
              ELSE Copies({Lowest(Held(hand))}, 1)
  BY <1>2, Zenon DEF SearchActionOutCard
<1>4. CASE found # {}
  <2>1. found \in SUBSET Nat
    BY LeadsAre
  <2>2. Lowest(found) \in found
    BY <1>4, <2>1, LowestIn
  <2>3. PICK one \in LeadSet : one = lead
    BY <2>2, LeadsAre
  <2>4. CanLead(hand, one)
    BY <2>2, <2>3
  <2>5. cards = TakeLine(hand, Lowest(LineTops(hand, one.len, one.n, 0)), one.len, one.n, LeadSize(one))
    BY <1>3, <1>4, <2>3
  <2> HIDE DEF found, lead, tops, t
  <2>6. LineTops(hand, one.len, one.n, 0) # {} /\ Size(hand) >= LeadSize(one)
    BY <2>4 DEF CanLead
  <2>7. PICK u \in LineTops(hand, one.len, one.n, 0) : u = Lowest(LineTops(hand, one.len, one.n, 0))
    <3>1. LineTops(hand, one.len, one.n, 0) \in SUBSET Nat
      BY DEF LineTops, AtLeast, Rank
    <3> QED  BY <2>6, <3>1, LowestIn
  <2>8. CASE one \in [len : 1..3, n : {3}]
    <3>1. PICK len \in 1..3 : one.len = len /\ one.n = 3
      BY <2>8
    <3>2. LeadSize(one) = len * 5
      BY <3>1 DEF LeadSize
    <3> QED  BY <1>2, <2>5, <2>6, <2>7, <3>1, <3>2, PlanePlay
  <2>9. CASE one \in [len : 1..7, n : {2}]
    <3>1. PICK len \in 1..7 : one.len = len /\ one.n = 2
      BY <2>9
    <3>2. LeadSize(one) = len * 2
      BY <3>1 DEF LeadSize
    <3> QED  BY <1>1, <1>2, <2>5, <2>7, <3>1, <3>2, RowPlay
  <2>10. CASE one \in [len : 6..16, n : {1}]
    <3>1. PICK len \in 6..16 : one.len = len /\ one.n = 1
      BY <2>10
    <3>2. LeadSize(one) = len * 1
      BY <3>1 DEF LeadSize
    <3> QED  BY <1>1, <1>2, <2>5, <2>7, <3>1, <3>2, RowPlay
  <2>11. CASE one \in [len : {1}, n : {4}]
    <3>1. one.len = 1 /\ one.n = 4
      BY <2>11
    <3>2. LeadSize(one) = 1 * 4
      BY <3>1 DEF LeadSize
    <3> QED  BY <1>1, <1>2, <2>5, <2>7, <3>1, <3>2, BombPlay
  <2> QED  BY <2>3, <2>8, <2>9, <2>10, <2>11 DEF LeadSet
<1>5. CASE found = {}
  <2>1. Held(hand) \in SUBSET Rank /\ Held(hand) \in SUBSET Nat
    BY DEF Held, Rank
  <2>2. Held(hand) # {}
    <3> SUFFICES ASSUME Held(hand) = {} PROVE hand = Empty
      OBVIOUS
    <3>1. \A r \in Rank : hand[r] = 0
      BY <1>1, BagCounts DEF Held
    <3> QED  BY <1>1, <3>1 DEF Bag, Empty
  <2>3. Highest(Held(hand)) \in Held(hand) /\ Lowest(Held(hand)) \in Held(hand)
    BY <2>1, <2>2, HighestIn, LowestIn
  <2> HIDE DEF found
  <2>4. CASE num = 1
    BY <1>2, <1>3, <1>5, <2>3, <2>4 DEF SingleOf
  <2>5. CASE num # 1
    BY <1>2, <1>3, <1>5, <2>3, <2>5 DEF SingleOf
  <2> QED  BY <2>4, <2>5
<1> QED  BY <1>4, <1>5

\* Whoever leads with what the search finds is not refused.
LEMMA LeadGoes ==
  ASSUME NEW c \in Chair, c = curUser, turnCard = Empty, FromDeck(handCard[c]), handCard[c] # Empty
  PROVE  CanOutCard(c, Lead(c))
<1>1. PICK hand : hand = handCard[c]
  OBVIOUS
<1>2. PICK next : next = Size(handCard[NextChair(c)])
  OBVIOUS
<1>3. PICK cards : cards = Lead(c) /\ cards = SearchActionOutCard(hand, next)
  BY <1>1, <1>2 DEF Lead
<1>4. \/ Playable(cards, hand)
      \/ \E x \in Held(hand) : SingleOf(cards, x, hand) /\ (next = 1 => x = Highest(Held(hand)))
  BY <1>1, <1>3, LeadIsPlay
<1>5. LastHand(c, cards) \in BOOLEAN
  BY DEF LastHand
<1>6. LetsGo(c, cards) => /\ Size(cards) = 1 /\ next = 1
                          /\ Highest(Held(hand)) > Highest(Held(cards))
  BY <1>1, <1>2 DEF LetsGo
<1>7. CASE Playable(cards, hand)
  <2>1. cards # Empty
    BY <1>7, SizeEmpty DEF Playable
  <2>2. ~LetsGo(c, cards)
    BY <1>6, <1>7 DEF Playable
  <2>3. GetCardType(cards, LastHand(c, cards)) # "CT_ERROR" /\ Within(cards, handCard[c])
    BY <1>1, <1>5, <1>7 DEF Playable
  <2> QED  BY <1>3, <2>1, <2>2, <2>3 DEF CanOutCard
<1>8. ASSUME NEW x \in Held(hand), SingleOf(cards, x, hand), next = 1 => x = Highest(Held(hand))
      PROVE  CanOutCard(c, cards)
  <2>1. x \in Rank /\ hand \in Bag /\ hand[x] > 0
    BY <1>1 DEF Held, FromDeck
  <2>2. cards \in Counts /\ Size(cards) = 1 /\ \A r \in Rank : cards[r] = IF r = x THEN 1 ELSE 0
    BY <1>8, <2>1, SizeOne DEF SingleOf, Copies
  <2>3. Held(cards) = {x}
    BY <2>1, <2>2 DEF Held
  <2>4. Highest({x}) = x
    BY <2>1, HighestIn
  <2>5. ~LetsGo(c, cards)
    BY <1>6, <1>8, <2>1, <2>3, <2>4 DEF Rank
  <2>6. cards # Empty
    BY <2>2, SizeEmpty
  <2>7. GetCardType(cards, LastHand(c, cards)) # "CT_ERROR"
    BY <2>2 DEF GetCardType
  <2>8. Within(cards, handCard[c])
    BY <1>1, <2>1, <2>2, BagCounts DEF Within
  <2> QED  BY <2>5, <2>6, <2>7, <2>8 DEF CanOutCard
<1> QED  BY <1>3, <1>4, <1>7, <1>8

-----------------------------------------------------------------------------
(* The hands of a round.                                                   *)

\* Every chair holds cards of the deck, and in play at least one.
HandsKept == \A c \in Chair : FromDeck(handCard[c]) /\ (gameState = "PLAY" => handCard[c] # Empty)

\* No cards are a part of the deck.
LEMMA EmptyFromDeck == FromDeck(Empty)
<1>1. \A r \in Rank : Empty[r] = 0 /\ Deck[r] \in {0, 1, 3, 4}
  BY DEF Empty, Deck
<1>2. \A r \in Rank : Empty[r] <= Deck[r]
  BY <1>1
<1> QED  BY <1>2, EmptyType DEF FromDeck

\* Outside a round, empty hands will do.
LEMMA NoCardsKept ==
  ASSUME handCard' = NoCards, gameState' # "PLAY"
  PROVE  HandsKept'
<1>1. \A c \in Chair : handCard'[c] = Empty
  BY DEF NoCards
<1> QED  BY <1>1, EmptyFromDeck DEF HandsKept

\* Hands that stay as they are will do, unless a round starts.
LEMMA SameHandsKept ==
  ASSUME HandsKept, handCard' = handCard, gameState' = "PLAY" => gameState = "PLAY"
  PROVE  HandsKept'
BY DEF HandsKept

\* A play leaves cards of the deck, and some unless it was the last hand.
LEMMA UserOutCardHands ==
  ASSUME TableInv, HandsKept, gameState = "PLAY", NEW c \in Chair, NEW cards,
         cards = [r \in Rank |-> cards[r]], UserOutCard(c, cards)
  PROVE  HandsKept'
<1>1. FromDeck(handCard[c]) /\ handCard[c] \in Bag /\ handCard \in [Chair -> Bag]
  BY DEF HandsKept, TableInv, TableType, FromDeck
<1>2. Within(cards, handCard[c])
  BY DEF UserOutCard, CanOutCard
<1>3. PICK left : left = Minus(handCard[c], cards)
  OBVIOUS
<1>4. FromDeck(left)
  <2>1. left \in Bag
    BY <1>1, <1>2, <1>3, TakeType
  <2>2. \A r \in Rank : left[r] <= Deck[r]
    <3> TAKE r \in Rank
    <3>1. left[r] = handCard[c][r] - cards[r]
      BY <1>3 DEF Minus
    <3>2. handCard[c][r] \in 0..4 /\ cards[r] \in 0..handCard[c][r] /\ handCard[c][r] <= Deck[r]
      BY <1>1, <1>2, BagCounts DEF Within, FromDeck
    <3>3. Deck[r] \in Nat
      BY DEF Deck
    <3> QED  BY <3>1, <3>2, <3>3
  <2> QED  BY <2>1, <2>2 DEF FromDeck
<1>5. ~LastHand(c, cards) => left # Empty
  <2> SUFFICES ASSUME left = Empty PROVE cards = handCard[c]
    BY DEF LastHand
  <2>1. \A r \in Rank : handCard[c][r] - cards[r] = 0
    BY <1>3 DEF Minus, Empty
  <2>2. \A r \in Rank : handCard[c][r] \in 0..4 /\ cards[r] \in 0..handCard[c][r]
    BY <1>1, <1>2, BagCounts DEF Within
  <2>3. \A r \in Rank : handCard[c][r] = cards[r]
    BY <2>1, <2>2
  <2>4. handCard[c] = [r \in Rank |-> handCard[c][r]]
    BY <1>1 DEF Bag
  <2> QED  BY <2>3, <2>4
<1>6. ASSUME handCard' = [handCard EXCEPT ![c] = Minus(@, cards)],
             gameState' = "PLAY" => ~LastHand(c, cards)
      PROVE  HandsKept'
  <2>1. \A d \in Chair : handCard'[d] = IF d = c THEN left ELSE handCard[d]
    BY <1>1, <1>3, <1>6
  <2> QED  BY <1>4, <1>5, <1>6, <2>1 DEF HandsKept
<1>7. CASE ~LastHand(c, cards)
  BY <1>6, <1>7 DEF UserOutCard, PutDown
<1>8. CASE LastHand(c, cards)
  <2>1. \/ handCard' = [handCard EXCEPT ![c] = Minus(@, cards)] /\ gameState' = "WAIT"
        \/ handCard' = NoCards /\ gameState' = "GAME_END"
    BY <1>8 DEF UserOutCard, PutDown, OnGameEnd, ResetGameData, ResetRound
  <2> QED  BY <1>6, <2>1, NoCardsKept
<1> QED  BY <1>7, <1>8

\* A move of the server leaves hands of the deck.
LEMMA AutoCardHands ==
  ASSUME TableInv, HandsKept, gameState = "PLAY", NEW c \in Chair, AutoCard(c)
  PROVE  HandsKept'
<1>1. Found(c) = [r \in Rank |-> Found(c)[r]]
  BY SearchIsList DEF Found
<1>2. Lead(c) = [r \in Rank |-> Lead(c)[r]]
  BY LeadIsList DEF Lead
<1>3. UserOutCard(c, Lead(c)) \/ UserOutCard(c, Found(c)) \/ UserPassCard(c)
  BY DEF AutoCard
<1>4. CASE UserPassCard(c)
  BY <1>4, SameHandsKept DEF UserPassCard
<1> QED  BY <1>1, <1>2, <1>3, <1>4, UserOutCardHands

\* The look at a last hand leaves hands of the deck.
LEMMA LastHandMoveHands ==
  ASSUME TableInv, HandsKept, gameState = "PLAY", NEW c \in Chair, LastHandMove(c)
  PROVE  HandsKept'
<1>1. handCard[c] = [r \in Rank |-> handCard[c][r]]
  BY DEF TableInv, TableType, Bag
<1>2. UserOutCard(c, handCard[c]) \/ UserPassCard(c)
  BY DEF LastHandMove
<1>3. CASE UserPassCard(c)
  BY <1>3, SameHandsKept DEF UserPassCard
<1> QED  BY <1>1, <1>2, <1>3, UserOutCardHands

\* Dealing gives every chair a hand of the deck.
LEMMA OnGameStartHands == ASSUME OnGameStart PROVE HandsKept'
<1>1. PICK deal \in Deals : handCard' = deal
  BY DEF OnGameStart
<1>2. /\ deal \in [Chair -> Bag] /\ \A c \in Chair : Size(deal[c]) = PlayCardNum
      /\ \A r \in Rank : deal[0][r] + deal[1][r] + deal[2][r] <= Deck[r]
  BY DealsAssumption
<1>3. \A c \in Chair : deal[c] # Empty
  BY <1>2, SizeEmpty, KuaipaoConfAssumption
<1>4. \A r \in Rank : /\ deal[0][r] \in 0..4 /\ deal[1][r] \in 0..4 /\ deal[2][r] \in 0..4
                      /\ Deck[r] \in Nat
  <2>1. deal[0] \in Bag /\ deal[1] \in Bag /\ deal[2] \in Bag
    BY <1>2, ChairFacts
  <2> QED  BY <2>1, BagCounts DEF Deck
<1>5. \A r \in Rank : deal[0][r] <= Deck[r] /\ deal[1][r] <= Deck[r] /\ deal[2][r] <= Deck[r]
  BY <1>2, <1>4
<1>6. \A c \in Chair : FromDeck(deal[c])
  BY <1>2, <1>5, ChairFacts DEF FromDeck
<1> QED  BY <1>1, <1>3, <1>6 DEF HandsKept

\* There are no hands at the start.
LEMMA InitHands == Init => HandsKept
<1> SUFFICES ASSUME Init PROVE HandsKept
  OBVIOUS
<1>1. \A c \in Chair : handCard[c] = Empty
  BY DEF Init, NoCards
<1> QED  BY <1>1, EmptyFromDeck DEF Init, HandsKept

\* Every step leaves hands of the deck.
LEMMA NextHands == TableInv /\ HandsKept /\ [Next]_vars => HandsKept'
<1> SUFFICES ASSUME TableInv, HandsKept, [Next]_vars PROVE HandsKept'
  OBVIOUS
<1>1. gameState = "PLAY" => curUser \in Chair
  BY DEF TableInv, TableType
<1>2. ASSUME NEW c \in Chair, NEW cards \in Bag, OutCard(c, cards) PROVE HandsKept'
  <2>1. cards = [r \in Rank |-> cards[r]]
    BY DEF Bag
  <2> QED  BY <1>2, <2>1, UserOutCardHands DEF OutCard
<1>3. ASSUME NEW c \in Chair, PassCard(c) PROVE HandsKept'
  BY <1>3, AutoCardHands DEF PassCard
<1>4. ASSUME NEW c \in Chair, NEW b, SendGameScene(c) \/ PlayerReady(c, b) \/ PlayerSetAuto(c, b)
      PROVE  HandsKept'
  BY <1>4, SameHandsKept DEF SendGameScene, PlayerReady, PlayerSetAuto, roundVars
<1>5. CASE ResetTable
  BY <1>5, NoCardsKept DEF ResetTable, ResetGameData, ResetRound
<1>6. CASE TickStart
  BY <1>6, OnGameStartHands DEF TickStart
<1>7. CASE TickPlay
  BY <1>1, <1>7, AutoCardHands DEF TickPlay
<1>8. CASE TickCheck
  BY <1>1, <1>8, LastHandMoveHands DEF TickCheck
<1>9. CASE TickAuto
  BY <1>1, <1>9, AutoCardHands DEF TickAuto
<1>10. CASE TickMark
  BY <1>10, SameHandsKept DEF TickMark, roundVars
<1>11. CASE TickWait
  BY <1>11, NoCardsKept DEF TickWait, OnGameEnd, ResetGameData, ResetRound
<1>12. CASE TickEnd
  BY <1>12, SameHandsKept DEF TickEnd
<1>13. CASE Elapse
  BY <1>13, SameHandsKept DEF Elapse, roundVars
<1>14. CASE UNCHANGED vars
  BY <1>14, SameHandsKept DEF vars, roundVars
<1> QED  BY <1>2, <1>3, <1>4, <1>5, <1>6, <1>7, <1>8, <1>9, <1>10, <1>11, <1>12, <1>13, <1>14
         DEF Next, Client, Tick

\* The hands of a round stay cards of the deck, and no chair in play is without cards.
THEOREM HandsStay == Spec => []HandsKept
<1>1. TypeOK /\ BombBooks => TableInv
  BY TypeParts DEF TableInv
<1>2. HandsKept /\ (TypeOK /\ BombBooks) /\ [Next]_vars => HandsKept'
  BY <1>1, NextHands
<1> QED  BY InitHands, <1>2, Invariant, PTL DEF Spec

\* Whatever is dealt and however it is played, the lead the search finds for the chair to move
\* is a play the table takes, so the server can always lead for a silent chair.
THEOREM LeadsAreTaken == Spec => []LeadTaken
<1>1. TypeOK /\ HandsKept => LeadTaken
  BY LeadGoes DEF LeadTaken, HandsKept, TypeOK
<1> QED  BY <1>1, HandsStay, TypeCorrect, PTL

-----------------------------------------------------------------------------
(* What plays are made of.                                                 *)

\* A bomb is four of a kind and nothing else.
LEMMA BombOne ==
  ASSUME NEW b \in Bag, Cardinality(Exactly(b, 4)) = 1, Size(b) = 4
  PROVE  \E x \in Rank : b[x] = 4 /\ Held(b) = {x}
<1>1. \A r \in Rank : b[r] \in 0..4
  BY BagCounts
<1>2. PICK x \in Exactly(b, 4) : Exactly(b, 4) = {x}
  <2>1. Exactly(b, 4) \in SUBSET Rank
    BY DEF Exactly
  <2> QED  BY <2>1, OneRank
<1>3. x \in Rank /\ b[x] = 4
  BY DEF Exactly
<1>4. ASSUME NEW q \in Rank, q # x PROVE b[q] = 0
  <2>1. b[x] + b[q] <= 4
    BY <1>3, <1>4, TwoHeld
  <2> QED  BY <1>1, <1>3, <2>1
<1> QED  BY <1>3, <1>4 DEF Held

\* A line is what its size and its highest rank say.
LEMMA RowOf ==
  ASSUME NEW b \in Bag, NEW n \in {1, 2}, IsLineOf(b, n)
  PROVE  \E y \in Rank : \E m \in Nat \ {0} :
           /\ y = Highest(Held(b)) /\ Held(b) = Line(y, m) /\ Size(b) = m * n
           /\ m > 1 => Two \notin Held(b)
<1>1. /\ Held(b) # {} /\ Held(b) = Exactly(b, n) /\ IsLine(Held(b))
      /\ Held(b) \in SUBSET Rank /\ Held(b) \in SUBSET Nat
  BY DEF IsLineOf, Held, Rank
<1>2. PICK y \in Held(b) : y = Highest(Held(b)) /\ \A r \in Held(b) : r <= y
  BY <1>1, HighestIn
<1>3. PICK x \in Held(b) : x = Lowest(Held(b)) /\ \A r \in Held(b) : x <= r
  BY <1>1, LowestIn
<1>4. \E m \in Nat \ {0} : Held(b) = Line(y, m) /\ (m > 1 => Two \notin Held(b))
  <2>1. CASE Cardinality(Held(b)) = 1
    <3>1. Held(b) = {y}
      BY <1>1, <2>1, OneRank
    <3>2. {y} = Line(y, 1)
      BY <1>1 DEF Line, Rank
    <3> QED  BY <3>1, <3>2
  <2>2. CASE Consecutive(Held(b)) /\ Two \notin Held(b)
    <3>1. Held(b) = x..y
      BY <1>2, <1>3, <2>2 DEF Consecutive
    <3>2. y - x + 1 \in Nat \ {0} /\ x..y = Line(y, y - x + 1)
      BY <1>1, <1>2 DEF Line, Rank
    <3> QED  BY <2>2, <3>1, <3>2
  <2> QED  BY <1>1, <2>1, <2>2 DEF IsLine
<1>5. PICK m \in Nat \ {0} : Held(b) = Line(y, m) /\ (m > 1 => Two \notin Held(b))
  BY <1>4
<1>6. b = Copies(Line(y, m), n)
  <2>1. \A r \in Rank : b[r] \in 0..4
    BY BagCounts
  <2>2. \A r \in Rank : b[r] = IF r \in Line(y, m) THEN n ELSE 0
    <3> TAKE r \in Rank
    <3>1. r \in Held(b) <=> b[r] > 0
      BY DEF Held
    <3>2. r \in Held(b) => b[r] = n
      BY <1>1 DEF Exactly
    <3> QED  BY <1>5, <2>1, <3>1, <3>2
  <2> QED  BY <2>2 DEF Bag, Copies
<1>7. Size(b) = m * n
  <2>1. y \in Rank /\ Line(y, m) \in SUBSET Rank /\ n \in Int
    BY <1>1, <1>5
  <2>2. Size(Copies(Line(y, m), n)) = m * n
    BY <2>1, SizeLine
  <2> QED  BY <1>6, <2>2
<1> QED  BY <1>1, <1>2, <1>5, <1>7

\* A single triple is a line of length one.
LEMMA OneTriple ==
  ASSUME NEW b, NEW x, Triples(b) = {x}
  PROVE  GetThreeLine(b).len = 1 /\ (x \in Rank => GetThreeLine(b).top = x)
<1>1. Cardinality({x}) = 1
  BY FS_Singleton
<1>2. GetThreeLine(b) = [len |-> 1, top |-> Highest({x})]
  BY <1>1 DEF GetThreeLine, IsLine
<1>3. x \in Rank => Highest({x}) = x
  BY HighestIn
<1> QED  BY <1>2, <1>3

\* Five cards hold one triple at most.
LEMMA FiveCards ==
  ASSUME NEW b \in Bag, Size(b) = 5, Triples(b) # {}
  PROVE  \E x \in Rank : b[x] >= 3 /\ Triples(b) = {x}
<1>1. PICK x \in Triples(b) : TRUE
  OBVIOUS
<1>2. x \in Rank /\ b[x] >= 3
  BY DEF Triples, AtLeast
<1>3. ASSUME NEW q \in Triples(b), q # x PROVE FALSE
  <2>1. q \in Rank /\ b[q] >= 3
    BY DEF Triples, AtLeast
  <2>2. b[x] + b[q] <= 5
    BY <1>2, <1>3, <2>1, TwoHeld
  <2>3. b[x] \in 0..4 /\ b[q] \in 0..4
    BY <1>2, <2>1, BagCounts
  <2> QED  BY <1>2, <2>1, <2>2, <2>3
<1> QED  BY <1>2, <1>3

\* What the name of a play says of its cards.
LEMMA TypeSays ==
  ASSUME NEW b, NEW last \in BOOLEAN
  PROVE  LET type == GetCardType(b, last)
             four == Cardinality(Exactly(b, 4)) = 1
         IN  /\ type = "CT_SINGLE" => Size(b) = 1
             /\ type = "CT_BOMB" => four /\ Size(b) = 4
             /\ type = "CT_THREE_LINE_TAKE_DOUBLE" => IsThreeLine(b, last)
             /\ type = "CT_DOUBLE_LINE" => IsDoubleLine(b)
             /\ type = "CT_SINGLE_LINE" => IsSingleLine(b)
             /\ type \in {"CT_SINGLE", "CT_BOMB", "CT_FOUR_TAKE_THREE", "CT_FOUR_TAKE_TWO",
                          "CT_THREE_LINE_TAKE_DOUBLE", "CT_DOUBLE_LINE", "CT_SINGLE_LINE", "CT_ERROR"}
BY DEF GetCardType

\* What a play has to be answered with.
LEMMA ShapeIs ==
  ASSUME NEW b, NEW type, type = GetCardType(b, FALSE)
  PROVE  /\ type = "CT_SINGLE" => Shape(b) = [len |-> 1, n |-> 1, top |-> Highest(Held(b))]
         /\ type = "CT_SINGLE_LINE" => Shape(b) = [len |-> Size(b), n |-> 1, top |-> Highest(Held(b))]
         /\ type = "CT_DOUBLE_LINE" =>
              Shape(b) = [len |-> Size(b) \div 2, n |-> 2, top |-> Highest(Held(b))]
         /\ type = "CT_THREE_LINE_TAKE_DOUBLE" =>
              Shape(b) = [len |-> GetThreeLine(b).len, n |-> 3, top |-> GetThreeLine(b).top]
         /\ type = "CT_BOMB" => Shape(b) = [len |-> 1, n |-> 4, top |-> Highest(Held(b))]
         /\ type = "CT_FOUR_TAKE_TWO" => Shape(b) = [len |-> 1, n |-> 5, top |-> Highest(Held(b))]
BY DEF Shape

-----------------------------------------------------------------------------
(* Whoever can beat the table is found an answer.                          *)

\* An answer to the cards on the table, as the last hand of a chair or not.
Beats(cards, turn, hand) ==
  /\ Within(cards, hand) /\ cards # Empty
  /\ Size(cards) = 1 => Size(turn) = 1
  /\ \A last \in BOOLEAN : GetCardType(cards, last) # "CT_ERROR" /\ CompareCard(cards, turn, last)

\* Four of a kind.
LEMMA BombCards ==
  ASSUME NEW hand \in Bag, NEW t \in Rank, hand[t] >= 4, NEW cards, cards = Copies({t}, 4)
  PROVE  /\ Within(cards, hand) /\ Size(cards) = 4 /\ Held(cards) = {t} /\ Highest(Held(cards)) = t
         /\ \A last \in BOOLEAN : GetCardType(cards, last) = "CT_BOMB"
<1>1. cards \in Counts /\ Size(cards) = 4 /\ \A r \in Rank : cards[r] = IF r = t THEN 4 ELSE 0
  BY SizeOne DEF Copies
<1>2. Within(cards, hand)
  BY <1>1, BagCounts DEF Within
<1>3. Held(cards) = {t} /\ Exactly(cards, 4) = {t}
  BY <1>1 DEF Held, Exactly
<1>4. Highest({t}) = t
  BY HighestIn
<1>5. Cardinality(Exactly(cards, 4)) = 1
  BY <1>3, FS_Singleton
<1>6. ASSUME NEW last \in BOOLEAN PROVE GetCardType(cards, last) = "CT_BOMB"
  BY <1>1, <1>5 DEF GetCardType
<1> QED  BY <1>1, <1>2, <1>3, <1>4, <1>6

\* A bomb in the hand beats whatever is no bomb.
LEMMA BombBeats ==
  ASSUME NEW hand \in Bag, NEW x \in Rank, hand[x] >= 4,
         NEW turn, GetCardType(turn, FALSE) # "CT_BOMB"
  PROVE  Beats(SearchSame(hand, 4, 0), turn, hand)
<1> DEFINE ranks == {r \in AtLeast(hand, 4) : r > 0}
           t == Lowest(ranks)
           cards == Copies({t}, 4)
<1>1. x \in ranks /\ ranks \in SUBSET Nat
  BY DEF AtLeast, Rank
<1>2. t \in ranks
  BY <1>1, LowestIn
<1>3. SearchSame(hand, 4, 0) = cards
  BY <1>1 DEF SearchSame
<1>4. t \in Rank /\ hand[t] >= 4
  BY <1>2 DEF AtLeast
<1> HIDE DEF t
<1>5. /\ Within(cards, hand) /\ Size(cards) = 4
      /\ \A last \in BOOLEAN : GetCardType(cards, last) = "CT_BOMB"
  BY <1>4, BombCards
<1> HIDE DEF cards
<1>6. cards # Empty
  BY <1>5, SizeEmpty
<1>7. ASSUME NEW last \in BOOLEAN PROVE CompareCard(cards, turn, last)
  BY <1>5 DEF CompareCard
<1> QED  BY <1>3, <1>5, <1>6, <1>7 DEF Beats

\* The plays the search knows an answer of their own to, and have been put on the table.
Answerable(turn) ==
  /\ GetCardType(turn, FALSE) \in {"CT_SINGLE", "CT_SINGLE_LINE", "CT_DOUBLE_LINE",
                                   "CT_THREE_LINE_TAKE_DOUBLE", "CT_BOMB"}
  /\ Cardinality(Triples(turn)) <= 1

\* One triple takes two cards.
LEMMA OnePlane ==
  ASSUME NEW turn, GetCardType(turn, FALSE) = "CT_THREE_LINE_TAKE_DOUBLE",
         Cardinality(Triples(turn)) <= 1
  PROVE  \E x \in Rank : Triples(turn) = {x} /\ Size(turn) = 5
<1>1. IsThreeLine(turn, FALSE)
  BY TypeSays
<1>2. PICK x \in Rank : Triples(turn) = {x}
  <2>1. Triples(turn) # {} /\ Triples(turn) \in SUBSET Rank
    BY <1>1 DEF IsThreeLine, Triples, AtLeast
  <2>2. IsFiniteSet(Triples(turn))
    BY <2>1, RanksFinite
  <2>3. Cardinality(Triples(turn)) \in Nat /\ Cardinality(Triples(turn)) # 0
    BY <2>1, <2>2, FS_CardinalityType, FS_EmptySet
  <2>4. Cardinality(Triples(turn)) = 1
    BY <2>3
  <2> QED  BY <2>1, <2>4, OneRank
<1>3. GetThreeLine(turn).len = 1
  BY <1>2, OneTriple
<1>4. Size(turn) = 5
  BY <1>1, <1>3 DEF IsThreeLine
<1> QED  BY <1>2, <1>4

\* A line of the shape of the cards on the table is a play that beats them.
LEMMA LineBeats ==
  ASSUME NEW hand, FromDeck(hand), NEW turn \in Bag, Answerable(turn), Size(hand) >= Size(turn),
         NEW t \in LineTops(hand, Shape(turn).len, Shape(turn).n, Shape(turn).top)
  PROVE  Beats(TakeLine(hand, t, Shape(turn).len, Shape(turn).n, Size(turn)), turn, hand)
<1>1. PICK type : type = GetCardType(turn, FALSE)
  OBVIOUS
<1>2. PICK shape : shape = Shape(turn)
  OBVIOUS
<1>3. PICK cards : cards = TakeLine(hand, t, shape.len, shape.n, Size(turn))
  OBVIOUS
<1>4. /\ t \in Rank /\ t > shape.top
      /\ t \in LineTops(hand, shape.len, shape.n, 0)
  BY <1>2 DEF LineTops, AtLeast, Rank
<1>5. hand \in Bag
  BY DEF FromDeck
<1>6. Size(turn) \in Nat
  BY SizeType
\* A row of cards or of pairs, or a single card.
<1>7. ASSUME NEW len \in Nat \ {0}, NEW n \in {1, 2}, n = 1 => len = 1 \/ len >= 5,
             shape = [len |-> len, n |-> n, top |-> Highest(Held(turn))],
             Size(turn) = len * n, type = LineType(len, n)
      PROVE  Beats(cards, turn, hand)
  <2>1. t \in LineTops(hand, len, n, 0) /\ cards = TakeLine(hand, t, len, n, len * n)
    BY <1>3, <1>4, <1>7
  <2>2. /\ Within(cards, hand) /\ Size(cards) = len * n /\ Highest(Held(cards)) = t
        /\ \A last \in BOOLEAN : GetCardType(cards, last) = type
    BY <1>5, <1>7, <2>1, LinePlay
  <2>3. cards # Empty
    BY <1>7, <2>2, SizeEmpty
  <2>4. type \in {"CT_SINGLE", "CT_SINGLE_LINE", "CT_DOUBLE_LINE"}
    BY <1>7 DEF LineType
  <2>5. Highest(Held(cards)) > Highest(Held(turn))
    BY <1>4, <1>7, <2>2
  <2>6. ASSUME NEW last \in BOOLEAN PROVE CompareCard(cards, turn, last)
    BY <1>1, <1>7, <2>2, <2>4, <2>5 DEF CompareCard
  <2> QED  BY <1>7, <2>2, <2>3, <2>4, <2>6 DEF Beats
<1>8. CASE type = "CT_SINGLE"
  <2>1. Size(turn) = 1 * 1 /\ type = LineType(1, 1)
    <3>1. Size(turn) = 1
      BY <1>1, <1>8, TypeSays
    <3> QED  BY <1>8, <3>1 DEF LineType
  <2>2. shape = [len |-> 1, n |-> 1, top |-> Highest(Held(turn))]
    BY <1>1, <1>2, <1>8, ShapeIs
  <2>3. 1 \in Nat \ {0} /\ 1 \in {1, 2}
    OBVIOUS
  <2>4. Beats(cards, turn, hand)
    BY <1>7, <2>1, <2>2, <2>3
  <2> QED  BY <1>2, <1>3, <2>4
<1>9. CASE type = "CT_SINGLE_LINE"
  <2>1. Size(turn) >= 5
    BY <1>1, <1>9, TypeSays DEF IsSingleLine
  <2>2. Size(turn) = Size(turn) * 1 /\ type = LineType(Size(turn), 1)
    BY <1>6, <1>9, <2>1 DEF LineType
  <2>3. shape = [len |-> Size(turn), n |-> 1, top |-> Highest(Held(turn))]
    BY <1>1, <1>2, <1>9, ShapeIs
  <2>4. Size(turn) \in Nat \ {0} /\ 1 \in {1, 2}
    BY <1>6, <2>1
  <2>5. Beats(cards, turn, hand)
    BY <1>7, <2>1, <2>2, <2>3, <2>4
  <2> QED  BY <1>2, <1>3, <2>5
<1>10. CASE type = "CT_DOUBLE_LINE"
  <2>1. IsLineOf(turn, 2)
    BY <1>1, <1>10, TypeSays DEF IsDoubleLine
  <2>2. PICK m \in Nat \ {0} : Size(turn) = m * 2
    BY <2>1, RowOf
  <2>3. Size(turn) \div 2 = m /\ type = LineType(m, 2)
    BY <1>10, <2>2 DEF LineType
  <2>4. shape = [len |-> m, n |-> 2, top |-> Highest(Held(turn))]
    BY <1>1, <1>2, <1>10, <2>3, ShapeIs
  <2>5. 2 \in {1, 2} /\ 2 # 1
    OBVIOUS
  <2>6. Beats(cards, turn, hand)
    BY <1>7, <2>2, <2>3, <2>4, <2>5
  <2> QED  BY <1>2, <1>3, <2>6
<1>11. CASE type = "CT_THREE_LINE_TAKE_DOUBLE"
  <2>1. Cardinality(Triples(turn)) <= 1
    BY DEF Answerable
  <2>2. PICK x \in Rank : Triples(turn) = {x} /\ Size(turn) = 5
    BY <1>1, <1>11, <2>1, OnePlane
  <2>3. GetThreeLine(turn).len = 1 /\ GetThreeLine(turn).top = x
    BY <2>2, OneTriple
  <2>4. Size(turn) = 5
    BY <2>2
  <2>5. shape = [len |-> 1, n |-> 3, top |-> x]
    BY <1>1, <1>2, <1>11, <2>3, ShapeIs
  <2>6. cards = TakeLine(hand, t, 1, 3, 1 * 5) /\ t \in LineTops(hand, 1, 3, 0)
    BY <1>3, <1>4, <2>4, <2>5
  <2>7. /\ Within(cards, hand) /\ Size(cards) = 5
        /\ HoldsLine(Triples(cards), Line(t, 1), 1)
    <3>1. Size(hand) >= 1 * 5
      BY <2>4
    <3> QED  BY <2>6, <3>1, PlaneFacts
  <2>8. Triples(cards) = {t}
    <3>1. Line(t, 1) = {t}
      BY <1>4 DEF Line, Rank
    <3> QED  BY <2>7, <3>1 DEF HoldsLine
  <2>9. GetThreeLine(cards).len = 1 /\ GetThreeLine(cards).top = t
    BY <1>4, <2>8, OneTriple
  <2>10. ASSUME NEW last \in BOOLEAN PROVE GetCardType(cards, last) = "CT_THREE_LINE_TAKE_DOUBLE"
    <3>1. IsThreeLine(cards, last)
      BY <2>7, <2>8, <2>9 DEF IsThreeLine
    <3> QED  BY <2>7, <3>1 DEF GetCardType
  <2>11. ASSUME NEW last \in BOOLEAN PROVE CompareCard(cards, turn, last)
    <3>1. GetThreeLine(cards).top > GetThreeLine(turn).top
      BY <1>4, <2>3, <2>5, <2>9
    <3> QED  BY <1>1, <1>11, <2>3, <2>4, <2>7, <2>9, <2>10, <3>1 DEF CompareCard
  <2>12. cards # Empty
    BY <2>7, SizeEmpty
  <2> QED  BY <1>2, <1>3, <2>7, <2>10, <2>11, <2>12 DEF Beats
<1>12. CASE type = "CT_BOMB"
  <2>0. Size(turn) = 4
    BY <1>1, <1>12, TypeSays
  <2>1. shape = [len |-> 1, n |-> 4, top |-> Highest(Held(turn))] /\ Size(turn) = 1 * 4
    <3>1. shape = [len |-> 1, n |-> 4, top |-> Highest(Held(turn))]
      BY <1>1, <1>2, <1>12, ShapeIs
    <3> QED  BY <2>0, <3>1
  <2>2. cards = TakeLine(hand, t, 1, 4, 1 * 4) /\ t \in LineTops(hand, 1, 4, 0)
    BY <1>3, <1>4, <2>1
  <2>3. Line(t, 1) = {t} /\ \A r \in Line(t, 1) : hand[r] >= 4
    BY <1>5, <2>2, LineFacts
  <2>4. cards \in Counts /\ \A r \in Rank : cards[r] = IF r \in Line(t, 1) THEN 4 ELSE 0
    BY <1>5, <2>2, BareLine
  <2>5. cards = Copies({t}, 4)
    BY <2>3, <2>4 DEF Counts, Copies
  <2>6. /\ Within(cards, hand) /\ Size(cards) = 4 /\ Highest(Held(cards)) = t
        /\ \A last \in BOOLEAN : GetCardType(cards, last) = "CT_BOMB"
    BY <1>4, <1>5, <2>3, <2>5, BombCards
  <2>7. Highest(Held(cards)) > Highest(Held(turn))
    BY <1>4, <2>1, <2>6
  <2>8. ASSUME NEW last \in BOOLEAN PROVE CompareCard(cards, turn, last)
    <3>1. GetCardType(cards, last) = "CT_BOMB" /\ GetCardType(turn, FALSE) = "CT_BOMB"
      BY <1>1, <1>12, <2>6
    <3>2. Size(cards) = Size(turn)
      BY <2>0, <2>6
    <3> QED  BY <2>7, <3>1, <3>2 DEF CompareCard
  <2>9. cards # Empty
    BY <2>6, SizeEmpty
  <2> QED  BY <1>2, <1>3, <2>6, <2>8, <2>9 DEF Beats
<1> QED  BY <1>1, <1>8, <1>9, <1>10, <1>11, <1>12 DEF Answerable

\* A line that is played out of a hand is found in it.
LEMMA RowTops ==
  ASSUME NEW hand, FromDeck(hand), NEW cards \in Bag, Within(cards, hand), NEW n \in {1, 2},
         IsLineOf(cards, n), NEW above \in Int, Highest(Held(cards)) > above
  PROVE  \E m \in Nat \ {0} : Size(cards) = m * n /\ Highest(Held(cards)) \in LineTops(hand, m, n, above)
<1>1. PICK y \in Rank : \E m \in Nat \ {0} :
           /\ y = Highest(Held(cards)) /\ Held(cards) = Line(y, m) /\ Size(cards) = m * n
           /\ m > 1 => Two \notin Held(cards)
  BY RowOf
<1>2. PICK m \in Nat \ {0} :
           /\ y = Highest(Held(cards)) /\ Held(cards) = Line(y, m) /\ Size(cards) = m * n
           /\ m > 1 => Two \notin Held(cards)
  BY <1>1
<1>3. ASSUME NEW r \in Held(cards) PROVE r \in Rank /\ cards[r] = n /\ hand[r] >= n
  <2>1. r \in Rank /\ cards[r] = n
    BY DEF IsLineOf, Exactly
  <2>2. hand[r] \in 0..4 /\ cards[r] \in 0..hand[r]
    BY <2>1, DeckFacts DEF Within
  <2> QED  BY <2>1, <2>2
<1>4. y \in Held(cards)
  <2>1. Held(cards) # {} /\ Held(cards) \in SUBSET Rank
    BY DEF IsLineOf, Held
  <2> QED  BY <1>2, <2>1, HighestIn
<1>5. y <= Two
  <2>1. hand[y] >= 1
    <3>1. hand[y] >= n /\ n \in {1, 2} /\ hand[y] \in 0..4
      BY <1>3, <1>4, DeckFacts
    <3> QED  BY <3>1
  <2>2. y # 16 /\ y # 17
    BY <2>1, DeckFacts
  <2> QED  BY <2>2 DEF Rank, Two
<1>6. m > 1 => y < Two
  BY <1>2, <1>4, <1>5 DEF Two, Rank
<1>7. Line(y, m) \subseteq AtLeast(hand, n) /\ y \in AtLeast(hand, n)
  BY <1>2, <1>3, <1>4 DEF AtLeast
<1>8. y \in LineTops(hand, m, n, above)
  BY <1>2, <1>6, <1>7 DEF LineTops
<1> QED  BY <1>2, <1>8

\* Who can beat the cards on the table is found a play that does.
LEMMA Answers ==
  ASSUME NEW hand, FromDeck(hand), NEW turn \in Bag,
         GetCardType(turn, FALSE) \notin {"CT_ERROR", "CT_FOUR_TAKE_THREE"},
         Cardinality(Triples(turn)) <= 1,
         NEW cards \in Bag, Within(cards, hand), CompareCard(cards, turn, FALSE)
  PROVE  Beats(SearchOutCard(hand, turn), turn, hand)
<1>1. PICK type : type = GetCardType(turn, FALSE)
  OBVIOUS
<1>2. PICK shape : shape = Shape(turn)
  OBVIOUS
<1>3. PICK tops : tops = LineTops(hand, shape.len, shape.n, shape.top)
  OBVIOUS
<1>4. PICK answer : answer = SearchOutCard(hand, turn)
  OBVIOUS
<1>5. /\ hand \in Bag /\ hand \in Counts /\ cards \in Counts
      /\ \A r \in Rank : hand[r] \in 0..4 /\ cards[r] \in 0..4 /\ cards[r] <= hand[r]
  <2>1. hand \in Bag /\ \A r \in Rank : hand[r] \in 0..4 /\ cards[r] \in 0..hand[r]
    BY DeckFacts DEF Within
  <2> QED  BY <2>1, BagCounts
<1>6. Size(cards) <= Size(hand)
  BY <1>5, SizeGrows
<1>7. answer = IF tops # {} /\ Size(hand) >= Size(turn)
               THEN TakeLine(hand, Lowest(tops), shape.len, shape.n, Size(turn))
               ELSE IF shape.n = 4 THEN Empty ELSE SearchSame(hand, 4, 0)
  BY <1>2, <1>3, <1>4 DEF SearchOutCard
<1>8. ASSUME Answerable(turn), tops # {}, Size(hand) >= Size(turn)
      PROVE  Beats(answer, turn, hand)
  <2>1. tops \in SUBSET Nat
    BY <1>3 DEF LineTops, AtLeast, Rank
  <2>2. PICK t \in tops : t = Lowest(tops)
    BY <1>8, <2>1, LowestIn
  <2>3. t \in LineTops(hand, Shape(turn).len, Shape(turn).n, Shape(turn).top)
    BY <1>2, <1>3
  <2>4. answer = TakeLine(hand, t, Shape(turn).len, Shape(turn).n, Size(turn))
    BY <1>2, <1>7, <1>8, <2>2
  <2> QED  BY <1>8, <2>3, <2>4, LineBeats
<1>9. type \in {"CT_SINGLE", "CT_SINGLE_LINE", "CT_DOUBLE_LINE", "CT_THREE_LINE_TAKE_DOUBLE",
                "CT_BOMB", "CT_FOUR_TAKE_TWO"}
  BY <1>1, TypeSays
\* A bomb against what is none.
<1>10. ASSUME NEW x \in Rank, hand[x] >= 4, type # "CT_BOMB"
       PROVE  Beats(answer, turn, hand)
  <2>1. Beats(SearchSame(hand, 4, 0), turn, hand)
    BY <1>1, <1>5, <1>10, BombBeats
  <2>2. CASE type = "CT_FOUR_TAKE_TWO"
    <3>1. shape = [len |-> 1, n |-> 5, top |-> Highest(Held(turn))]
      BY <1>1, <1>2, <2>2, ShapeIs
    <3>2. tops = {}
      BY <1>3, <1>5, <3>1 DEF LineTops, AtLeast
    <3> QED  BY <1>7, <2>1, <3>1, <3>2
  <2>3. CASE type # "CT_FOUR_TAKE_TWO"
    <3>1. Answerable(turn)
      BY <1>1, <1>9, <2>3 DEF Answerable
    <3>2. shape.n # 4
      <4>1. \E n \in 1..3 : \E len, top : shape = [len |-> len, n |-> n, top |-> top]
        <5>1. /\ type = "CT_SINGLE" \/ type = "CT_SINGLE_LINE" => \E len, top : shape = [len |-> len, n |-> 1, top |-> top]
              /\ type = "CT_DOUBLE_LINE" => \E len, top : shape = [len |-> len, n |-> 2, top |-> top]
              /\ type = "CT_THREE_LINE_TAKE_DOUBLE" => \E len, top : shape = [len |-> len, n |-> 3, top |-> top]
          BY <1>1, <1>2, ShapeIs, Zenon
        <5> QED  BY <1>9, <1>10, <2>3, <5>1
      <4> QED  BY <4>1
    <3> QED  BY <1>7, <1>8, <2>1, <3>1, <3>2
  <2> QED  BY <2>2, <2>3
\* A line of the same shape.
<1>11. ASSUME Answerable(turn), Size(cards) = Size(turn), NEW y \in tops
       PROVE  Beats(answer, turn, hand)
  BY <1>6, <1>8, <1>11
<1>12. CASE GetCardType(cards, FALSE) = "CT_BOMB" /\ type # "CT_BOMB"
  <2>1. Cardinality(Exactly(cards, 4)) = 1 /\ Size(cards) = 4
    BY <1>12, TypeSays
  <2>2. PICK x \in Rank : cards[x] = 4
    BY <2>1, BombOne
  <2>3. hand[x] >= 4
    BY <1>5, <2>2
  <2> QED  BY <1>4, <1>10, <1>12, <2>3
<1>13. CASE GetCardType(cards, FALSE) = type
  <2>1. /\ Size(cards) = Size(turn)
        /\ \/ /\ type \in {"CT_SINGLE", "CT_SINGLE_LINE", "CT_DOUBLE_LINE", "CT_BOMB"}
              /\ Highest(Held(cards)) > Highest(Held(turn))
           \/ /\ type = "CT_THREE_LINE_TAKE_DOUBLE"
              /\ GetThreeLine(cards).top > GetThreeLine(turn).top
    BY <1>1, <1>13, <1>9 DEF CompareCard
  <2>2. Answerable(turn)
    BY <1>1, <2>1 DEF Answerable
  <2>3. type # "CT_THREE_LINE_TAKE_DOUBLE" => Highest(Held(turn)) \in Int
    <3> SUFFICES ASSUME type # "CT_THREE_LINE_TAKE_DOUBLE" PROVE Held(turn) # {}
      <4>1. Held(turn) \in SUBSET Rank
        BY DEF Held
      <4> QED  BY <4>1, HighestIn DEF Rank
    <3>1. CASE type = "CT_SINGLE"
      BY <1>1, <3>1, TypeSays, OneCard
    <3>2. CASE type = "CT_BOMB"
      BY <1>1, <3>2, TypeSays, BombOne
    <3>3. CASE type \in {"CT_SINGLE_LINE", "CT_DOUBLE_LINE"}
      BY <1>1, <3>3, TypeSays DEF IsSingleLine, IsDoubleLine, IsLineOf
    <3> QED  BY <2>1, <3>1, <3>2, <3>3
  <2>4. CASE type = "CT_SINGLE"
    <3>1. shape = [len |-> 1, n |-> 1, top |-> Highest(Held(turn))]
      BY <1>1, <1>2, <2>4, ShapeIs
    <3>2. Size(cards) = 1
      BY <1>13, <2>4, TypeSays
    <3>3. PICK x \in Rank : Held(cards) = {x}
      BY <3>2, OneCard
    <3>4. Highest(Held(cards)) = x /\ cards[x] > 0
      <4>1. Highest({x}) = x
        BY HighestIn
      <4>2. x \in Held(cards)
        BY <3>3
      <4> QED  BY <3>3, <4>1, <4>2 DEF Held
    <3>5. hand[x] >= 1 /\ Line(x, 1) = {x}
      BY <1>5, <3>4 DEF Line, Rank
    <3>6. x \in tops
      BY <1>3, <2>1, <2>4, <3>1, <3>4, <3>5 DEF LineTops, AtLeast
    <3> QED  BY <1>4, <1>11, <2>1, <2>2, <3>6
  <2>5. CASE type = "CT_SINGLE_LINE"
    <3>1. shape = [len |-> Size(turn), n |-> 1, top |-> Highest(Held(turn))]
      BY <1>1, <1>2, <2>5, ShapeIs
    <3>2. IsLineOf(cards, 1)
      BY <1>13, <2>5, TypeSays DEF IsSingleLine
    <3>3. PICK m \in Nat \ {0} : Size(cards) = m * 1
             /\ Highest(Held(cards)) \in LineTops(hand, m, 1, Highest(Held(turn)))
      BY <2>1, <2>3, <2>5, <3>2, RowTops
    <3>4. Highest(Held(cards)) \in tops
      BY <1>3, <2>1, <3>1, <3>3
    <3> QED  BY <1>4, <1>11, <2>1, <2>2, <3>4
  <2>6. CASE type = "CT_DOUBLE_LINE"
    <3>1. shape = [len |-> Size(turn) \div 2, n |-> 2, top |-> Highest(Held(turn))]
      BY <1>1, <1>2, <2>6, ShapeIs
    <3>2. IsLineOf(cards, 2)
      BY <1>13, <2>6, TypeSays DEF IsDoubleLine
    <3>3. PICK m \in Nat \ {0} : Size(cards) = m * 2
             /\ Highest(Held(cards)) \in LineTops(hand, m, 2, Highest(Held(turn)))
      BY <2>1, <2>3, <2>6, <3>2, RowTops
    <3>4. Size(turn) \div 2 = m
      BY <2>1, <3>3
    <3>5. Highest(Held(cards)) \in tops
      BY <1>3, <3>1, <3>3, <3>4
    <3> QED  BY <1>4, <1>11, <2>1, <2>2, <3>5
  <2>7. CASE type = "CT_THREE_LINE_TAKE_DOUBLE"
    <3>1. PICK x \in Rank : Triples(turn) = {x} /\ Size(turn) = 5
      BY <1>1, <2>7, OnePlane
    <3>2. GetThreeLine(turn).len = 1
      BY <3>1, OneTriple
    <3>3. shape = [len |-> 1, n |-> 3, top |-> GetThreeLine(turn).top]
      BY <1>1, <1>2, <2>7, <3>2, ShapeIs
    <3>4. Size(cards) = 5 /\ Triples(cards) # {}
      BY <1>13, <2>1, <2>7, <3>1, TypeSays DEF IsThreeLine
    <3>5. PICK y \in Rank : cards[y] >= 3 /\ Triples(cards) = {y}
      BY <3>4, FiveCards
    <3>6. GetThreeLine(cards).top = y
      BY <3>5, OneTriple
    <3>7. hand[y] >= 3 /\ Line(y, 1) = {y}
      BY <1>5, <3>5 DEF Line, Rank
    <3>8. y \in tops
      BY <1>3, <2>1, <2>7, <3>3, <3>6, <3>7 DEF LineTops, AtLeast
    <3> QED  BY <1>4, <1>11, <2>1, <2>2, <3>8
  <2>8. CASE type = "CT_BOMB"
    <3>1. shape = [len |-> 1, n |-> 4, top |-> Highest(Held(turn))]
      BY <1>1, <1>2, <2>8, ShapeIs
    <3>2. Cardinality(Exactly(cards, 4)) = 1 /\ Size(cards) = 4
      BY <1>13, <2>8, TypeSays
    <3>3. PICK x \in Rank : cards[x] = 4 /\ Held(cards) = {x}
      BY <3>2, BombOne
    <3>4. Highest(Held(cards)) = x
      BY <3>3, HighestIn
    <3>5. hand[x] >= 4 /\ Line(x, 1) = {x}
      BY <1>5, <3>3 DEF Line, Rank
    <3>6. x \in tops
      BY <1>3, <2>1, <2>8, <3>1, <3>4, <3>5 DEF LineTops, AtLeast
    <3> QED  BY <1>4, <1>11, <2>1, <2>2, <3>6
  <2> QED  BY <1>9, <2>1, <2>4, <2>5, <2>6, <2>7, <2>8
<1> QED  BY <1>1, <1>12, <1>13 DEF CompareCard

-----------------------------------------------------------------------------
(* Who passes had no play that is taken.                                   *)

\* The type kept beside the trick on the table is the type of its cards, which are a play.
TrickKept ==
  gameState = "PLAY" /\ turnCard # Empty =>
    turnCardType = GetCardType(turnCard, FALSE) /\ turnCardType # "CT_ERROR"

\* Cards are a last hand or not.
LEMMA LastHandIs == \A c \in Chair : \A cards : LastHand(c, cards) \in BOOLEAN
BY DEF LastHand

\* A play keeps the type of what it puts down.
LEMMA UserOutCardTrick ==
  ASSUME NEW c \in Chair, NEW cards, UserOutCard(c, cards)
  PROVE  TrickKept'
<1>1. CASE ~LastHand(c, cards)
  <2>1. LastHand(c, cards) = FALSE
    BY <1>1, LastHandIs
  <2>2. turnCard' = cards /\ turnCardType' = GetCardType(cards, FALSE)
    BY <1>1, <2>1 DEF UserOutCard, PutDown
  <2>3. GetCardType(cards, FALSE) # "CT_ERROR"
    BY <2>1 DEF UserOutCard, CanOutCard
  <2>4. GetCardType(turnCard, FALSE)' = GetCardType(cards, FALSE)
    BY <2>2
  <2> QED  BY <2>2, <2>3 DEF TrickKept
<1>2. CASE LastHand(c, cards)
  <2>1. gameState' = "WAIT" \/ gameState' = "GAME_END"
    BY <1>2 DEF UserOutCard, OnGameEnd
  <2> QED  BY <2>1 DEF TrickKept
<1> QED  BY <1>1, <1>2

\* A pass leaves the trick, or clears it.
LEMMA SameTrickKept ==
  ASSUME TrickKept, turnCard' = Empty \/ (turnCard' = turnCard /\ turnCardType' = turnCardType),
         gameState' = "PLAY" => gameState = "PLAY"
  PROVE  TrickKept'
BY DEF TrickKept

\* A pass keeps the type beside the trick.
LEMMA UserPassCardTrick ==
  ASSUME TrickKept, NEW c, UserPassCard(c)
  PROVE  TrickKept'
<1>1. (turnCard' = Empty \/ turnCard' = turnCard) /\ turnCardType' = turnCardType /\ gameState' = gameState
  BY DEF UserPassCard, WinTrick
<1> QED  BY <1>1, SameTrickKept

\* A move of the server keeps the type beside the trick.
LEMMA AutoCardTrick == ASSUME TrickKept, NEW c \in Chair, AutoCard(c) PROVE TrickKept'
<1>1. UserOutCard(c, Lead(c)) \/ UserOutCard(c, Found(c)) \/ UserPassCard(c)
  BY DEF AutoCard
<1> QED  BY <1>1, UserOutCardTrick, UserPassCardTrick

\* The look at a last hand keeps the type beside the trick.
LEMMA LastHandMoveTrick == ASSUME TrickKept, NEW c \in Chair, LastHandMove(c) PROVE TrickKept'
<1>1. UserOutCard(c, handCard[c]) \/ UserPassCard(c)
  BY DEF LastHandMove
<1> QED  BY <1>1, UserOutCardTrick, UserPassCardTrick

\* Every step keeps the type beside the trick.
LEMMA NextTrick ==
  ASSUME TableInv, TrickKept, [Next]_vars
  PROVE  TrickKept'
<1>1. gameState = "PLAY" => curUser \in Chair
  BY DEF TableInv, TableType
<1>2. ASSUME NEW c \in Chair, NEW cards \in Bag, OutCard(c, cards) PROVE TrickKept'
  BY <1>2, UserOutCardTrick DEF OutCard
<1>3. ASSUME NEW c \in Chair, PassCard(c) PROVE TrickKept'
  BY <1>3, AutoCardTrick DEF PassCard
<1>4. ASSUME NEW c \in Chair, NEW b, SendGameScene(c) \/ PlayerReady(c, b) \/ PlayerSetAuto(c, b)
      PROVE  TrickKept'
  BY <1>4, SameTrickKept DEF SendGameScene, PlayerReady, PlayerSetAuto, roundVars, trickVars
<1>5. CASE ResetTable
  BY <1>5 DEF ResetTable, TrickKept
<1>6. CASE TickStart
  BY <1>6 DEF TickStart, OnGameStart, TrickKept
<1>7. CASE TickPlay
  BY <1>1, <1>7, AutoCardTrick DEF TickPlay
<1>8. CASE TickCheck
  BY <1>1, <1>8, LastHandMoveTrick DEF TickCheck
<1>9. CASE TickAuto
  BY <1>1, <1>9, AutoCardTrick DEF TickAuto
<1>10. CASE TickMark
  BY <1>10, SameTrickKept DEF TickMark, roundVars, trickVars
<1>11. CASE TickWait
  BY <1>11 DEF TickWait, OnGameEnd, TrickKept
<1>12. CASE TickEnd
  BY <1>12 DEF TickEnd, TrickKept
<1>13. CASE Elapse
  BY <1>13, SameTrickKept DEF Elapse, roundVars, trickVars
<1>14. CASE UNCHANGED vars
  BY <1>14, SameTrickKept DEF vars, roundVars, trickVars
<1> QED  BY <1>2, <1>3, <1>4, <1>5, <1>6, <1>7, <1>8, <1>9, <1>10, <1>11, <1>12, <1>13, <1>14
         DEF Next, Client, Tick

\* In play the kept type is the type of the cards on the table.
THEOREM TricksAreKept == Spec => []TrickKept
<1>1. Init => TrickKept
  BY DEF Init, TrickKept
<1>2. TrickKept /\ (TypeOK /\ BombBooks) /\ [Next]_vars => TrickKept'
  BY TypeParts, NextTrick DEF TableInv
<1> QED  BY <1>1, <1>2, Invariant, PTL DEF Spec

\* Cards picked out of a hand are a bag within it.
LEMMA SubBagsList ==
  ASSUME NEW hand, NEW cards \in SubBags(hand)
  PROVE  cards = [r \in Rank |-> cards[r]]
BY DEF SubBags, ToBag

\* A chair that could beat the table is found an answer that the table takes.
LEMMA AnswerTaken ==
  ASSUME TableInv, HandsKept, TrickKept, gameState = "PLAY", turnCard # Empty, Searched,
         NEW cards \in SubBags(handCard[curUser]), cards # Empty, ~LastHand(curUser, cards),
         CanOutCard(curUser, cards)
  PROVE  CanOutCard(curUser, Found(curUser))
<1>1. PICK c \in Chair : c = curUser
  BY DEF TableInv, TableType
<1>2. PICK hand : hand = handCard[c]
  OBVIOUS
<1>3. FromDeck(hand) /\ hand \in Bag /\ turnCard \in Bag
  BY <1>2 DEF HandsKept, FromDeck, TableInv, TableType
<1>4. LastHand(c, cards) = FALSE
  BY <1>1, LastHandIs
<1>5. Within(cards, hand) /\ CompareCard(cards, turnCard, FALSE)
  BY <1>1, <1>2, <1>4 DEF CanOutCard
<1>6. cards \in Bag
  <2>1. cards = [r \in Rank |-> cards[r]]
    BY SubBagsList
  <2> QED  BY <1>3, <1>5, <2>1, TakeType
<1>7. /\ GetCardType(turnCard, FALSE) \notin {"CT_ERROR", "CT_FOUR_TAKE_THREE"}
      /\ Cardinality(Triples(turnCard)) <= 1
      /\ Size(turnCard) = 1 => Size(handCard[NextChair(c)]) # 1
  BY <1>1 DEF TrickKept, Searched
<1>8. Beats(SearchOutCard(hand, turnCard), turnCard, hand)
  BY <1>3, <1>5, <1>6, <1>7, Answers
<1>9. PICK answer : answer = Found(c) /\ answer = SearchOutCard(hand, turnCard)
  BY <1>2 DEF Found
<1>10. /\ Within(answer, hand) /\ answer # Empty
       /\ Size(answer) = 1 => Size(turnCard) = 1
       /\ GetCardType(answer, LastHand(c, answer)) # "CT_ERROR"
       /\ CompareCard(answer, turnCard, LastHand(c, answer))
  BY <1>8, <1>9, LastHandIs DEF Beats
<1>11. ~LetsGo(c, answer)
  BY <1>7, <1>10 DEF LetsGo
<1> QED  BY <1>1, <1>2, <1>9, <1>10, <1>11 DEF CanOutCard

\* What MustBeat says of one step.
Passes ==
  /\ gameState = "PLAY" /\ gameState' = "PLAY" /\ turnCard # Empty
  /\ handCard' = handCard /\ curUser' # curUser /\ Searched

\* A play takes cards out of the hand, so it is no pass.
LEMMA PlayIsNoPass ==
  ASSUME TableInv, NEW c \in Chair, NEW cards, cards = [r \in Rank |-> cards[r]],
         UserOutCard(c, cards), gameState' = "PLAY", handCard' = handCard
  PROVE  FALSE
<1>1. cards # Empty /\ Within(cards, handCard[c]) /\ handCard \in [Chair -> Bag]
  BY DEF UserOutCard, CanOutCard, TableInv, TableType
<1>2. handCard' = [handCard EXCEPT ![c] = Minus(@, cards)]
  BY DEF UserOutCard, PutDown, OnGameEnd
<1>3. handCard[c] = Minus(handCard[c], cards)
  BY <1>1, <1>2
<1>4. PICK hand \in Bag : hand = handCard[c]
  BY <1>1
<1>5. \A r \in Rank : hand[r] = hand[r] - cards[r] /\ hand[r] \in 0..4 /\ cards[r] \in 0..hand[r]
  <2>1. \A r \in Rank : hand[r] = hand[r] - cards[r]
    BY <1>3, <1>4 DEF Minus
  <2> QED  BY <1>1, <1>4, <2>1, BagCounts DEF Within
<1>6. \A r \in Rank : cards[r] = 0
  BY <1>5
<1>7. cards = Empty
  BY <1>6 DEF Empty
<1> QED  BY <1>1, <1>7

\* The server passes for a chair only if the table takes no answer of its.
LEMMA AutoCardPass ==
  ASSUME TableInv, AutoCard(curUser), Passes
  PROVE  ~CanOutCard(curUser, Found(curUser))
<1>1. curUser \in Chair /\ turnCard # Empty
  BY DEF TableInv, TableType, Passes
<1>2. Found(curUser) = [r \in Rank |-> Found(curUser)[r]]
  BY SearchIsList DEF Found
<1>3. ~UserOutCard(curUser, Found(curUser))
  BY <1>1, <1>2, PlayIsNoPass DEF Passes
<1> QED  BY <1>1, <1>3 DEF AutoCard

\* The look at a last hand passes only when the table refuses what the search finds.
LEMMA LastHandMovePass ==
  ASSUME TableInv, LastHandMove(curUser), Passes
  PROVE  ~CanOutCard(curUser, Found(curUser))
<1>1. curUser \in Chair /\ handCard[curUser] \in Bag
  BY DEF TableInv, TableType, Passes
<1>2. handCard[curUser] = [r \in Rank |-> handCard[curUser][r]]
  BY <1>1 DEF Bag
<1>3. ~UserOutCard(curUser, handCard[curUser])
  BY <1>1, <1>2, PlayIsNoPass DEF Passes
<1>4. Found(curUser) = Empty
  BY <1>3 DEF LastHandMove, NoAnswer
<1> QED  BY <1>4 DEF CanOutCard

\* Whoever passes, the table refuses what the search finds for that chair.
LEMMA NextPasses ==
  ASSUME TableInv, Next, Passes
  PROVE  ~CanOutCard(curUser, Found(curUser))
<1>1. ASSUME NEW c \in Chair, NEW cards \in Bag, OutCard(c, cards) PROVE FALSE
  <2>1. cards = [r \in Rank |-> cards[r]]
    BY DEF Bag
  <2> QED  BY <1>1, <2>1, PlayIsNoPass DEF OutCard, Passes
<1>2. ASSUME NEW c \in Chair, PassCard(c) PROVE ~CanOutCard(curUser, Found(curUser))
  BY <1>2, AutoCardPass DEF PassCard
<1>3. ASSUME NEW c \in Chair, NEW b, SendGameScene(c) \/ PlayerReady(c, b) \/ PlayerSetAuto(c, b)
      PROVE  FALSE
  BY <1>3 DEF SendGameScene, PlayerReady, PlayerSetAuto, roundVars, Passes
<1>4. ~(ResetTable \/ TickStart \/ TickWait \/ TickEnd)
  BY DEF ResetTable, TickStart, TickWait, TickEnd, Passes
<1>5. ~(TickMark \/ Elapse)
  BY DEF TickMark, Elapse, roundVars, Passes
<1>6. TickPlay \/ TickAuto => ~CanOutCard(curUser, Found(curUser))
  BY AutoCardPass DEF TickPlay, TickAuto
<1>7. TickCheck => ~CanOutCard(curUser, Found(curUser))
  BY LastHandMovePass DEF TickCheck
<1> QED  BY <1>1, <1>2, <1>3, <1>4, <1>5, <1>6, <1>7 DEF Next, Client, Tick

\* Whoever can beat the table does: no chair passes, by its client, by the server at the end of
\* its time, or because it was found no answer, while a play of its hand would be taken (outside
\* the cases Searched names, where the search itself falls short).
THEOREM WhoCanMust == Spec => MustBeat
<1> DEFINE Must ==
      Passes => \A cards \in SubBags(handCard[curUser]) :
                  cards # Empty /\ ~LastHand(curUser, cards) => ~CanOutCard(curUser, cards)
<1>1. ASSUME TypeOK, BombBooks, HandsKept, TrickKept, Next PROVE Must
  <2>1. TableInv
    BY <1>1, TypeParts DEF TableInv
  <2> SUFFICES ASSUME Passes, NEW cards \in SubBags(handCard[curUser]), cards # Empty,
                      ~LastHand(curUser, cards), CanOutCard(curUser, cards)
               PROVE  FALSE
    OBVIOUS
  <2>2. CanOutCard(curUser, Found(curUser))
    BY <1>1, <2>1, AnswerTaken DEF Passes
  <2> QED  BY <1>1, <2>1, <2>2, NextPasses
<1>2. UNCHANGED vars => Must
  BY DEF vars, roundVars, Passes
<1>3. (TypeOK /\ BombBooks) /\ HandsKept /\ TrickKept /\ [Next]_vars
      => [gameState = "PLAY" /\ gameState' = "PLAY" /\ turnCard # Empty /\ handCard' = handCard
          /\ curUser' # curUser /\ Searched
            => \A cards \in SubBags(handCard[curUser]) :
                 cards # Empty /\ ~LastHand(curUser, cards) => ~CanOutCard(curUser, cards)]_vars
  BY <1>1, <1>2 DEF Passes
<1> QED  BY <1>3, Invariant, HandsStay, TricksAreKept, PTL DEF Spec, MustBeat
================================================================================
