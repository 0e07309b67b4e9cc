----------------------------- MODULE KuaipaoRound -----------------------------
(***************************************************************************)
(* One table of "pao de kuai" from the deal to the settlement:             *)
(* CGameKuaipaoTable of game_logic/kuaipao/game_kuaipao_table.cpp.  Three  *)
(* chairs play until one runs out of cards; who can beat the table has to. *)
(* A client that passes is played for, a client that stays silent too, and *)
(* a chair that has no choice left is moved for after half a second.       *)
(*                                                                         *)
(* Suits decide nothing here (Init switches the ten of hearts off), so a   *)
(* hand is a bag of ranks.  Init leaves the drift score closed, so the     *)
(* table never enters TABLE_STATE_CALL.                                    *)
(***************************************************************************)
EXTENDS KuaipaoCards, KuaipaoScore

CONSTANTS
  Deals,        (* the hands a shuffle and CountDispBomb can leave           *)
  PlayCardNum,  (* m_playCardNum: how many cards each chair is dealt         *)
  BaseScore,    (* m_conf.baseScore                                          *)
  NeedMarry     (* m_pHostRoom->IsNeedMarry()                                *)

INVALID_CHAIR == 255
NextChair(c) == (c + 1) % 3

\* GetInitCardList: no jokers, a single two, three aces; the game with fifteen cards takes two
\* more aces and a king out.  Exchanged bombs (CountDispBomb) stay in the deck.
Deck == [r \in Rank |-> IF r > Two THEN 0 ELSE IF r = Two THEN 1 ELSE IF r = 14 THEN 3 ELSE 4]

ASSUME DealsAssumption ==
  /\ Deals # {}
  /\ \A d \in Deals :
       /\ d \in [Chair -> Bag] /\ \A c \in Chair : Size(d[c]) = PlayCardNum
       /\ \A r \in Rank : d[0][r] + d[1][r] + d[2][r] <= Deck[r]

ASSUME KuaipaoConfAssumption == BaseScore \in Nat /\ PlayCardNum \in Nat \ {0} /\ NeedMarry \in BOOLEAN

VARIABLES
  gameState,     (* m_gameState                                             *)
  bankerUser,    (* m_bankerUser: who leads the next round                  *)
  curUser,       (* m_curUser: whose turn it is                             *)
  handCard,      (* m_handCardData, m_handCardCount                         *)
  turnCard,      (* m_turnCardData, m_turnCardCount: the cards to beat      *)
  turnCardType,  (* m_turnCardType: of the last play, kept when it is won   *)
  turnWiner,     (* m_turnWiner                                             *)
  opened,        (* m_outCardTotal # 0                                      *)
  eachBombCount, (* m_eachBombCount                                         *)
  gameScore,     (* m_gameScore: what bombs won and lost this round         *)
  autoOutCard,   (* m_autoOutCard: this turn was looked at already          *)
  readyStatus,   (* seat.readyStatus                                        *)
  autoStatus,    (* seat.autoStatus: the server plays for the chair         *)
  overTimes,     (* seat.overTimes: turns the chair let run out             *)
  coolLogic,     (* m_coolLogic: "fresh", "half" (over 0.5 s), "late" (1 s),*)
                 (* "long" (4 s), "out"                                     *)
  gameOver       (* while GAME_END: who won, what each chair is to get      *)

trickVars == <<turnCard, turnCardType, turnWiner>>
bombVars  == <<eachBombCount, gameScore>>
roundVars == <<bankerUser, curUser, handCard, trickVars, opened, bombVars, gameOver>>
seatVars  == <<readyStatus, autoStatus, overTimes>>
vars      == <<gameState, roundVars, autoOutCard, seatVars, coolLogic>>

Zero     == [c \in Chair |-> 0]
Nobody   == [c \in Chair |-> FALSE]
NoCards  == [c \in Chair |-> Empty]
NoResult == [winner |-> INVALID_CHAIR, want |-> Zero]

\* The constructor sets everything but m_autoOutCard, which the first round then reads.
Init ==
  /\ gameState = "FREE"
  /\ bankerUser = INVALID_CHAIR /\ curUser = INVALID_CHAIR
  /\ handCard = NoCards
  /\ turnCard = Empty /\ turnCardType = "NONE" /\ turnWiner = INVALID_CHAIR
  /\ opened = FALSE
  /\ eachBombCount = Zero /\ gameScore = Zero
  /\ autoOutCard \in BOOLEAN
  /\ readyStatus = Nobody /\ autoStatus = Nobody /\ overTimes = Zero
  /\ coolLogic = "out"
  /\ gameOver = NoResult

-----------------------------------------------------------------------------
(* The end of a round.                                                     *)

ResetRound ==
  /\ curUser' = INVALID_CHAIR
  /\ handCard' = NoCards
  /\ turnCard' = Empty /\ turnCardType' = "NONE" /\ turnWiner' = INVALID_CHAIR
  /\ opened' = FALSE

\* ResetGameData; OnGameEnd then makes the winner the next banker.
ResetGameData(banker) ==
  /\ bankerUser' = banker
  /\ ResetRound
  /\ eachBombCount' = Zero /\ gameScore' = Zero
  /\ autoOutCard' = FALSE

\* OnGameEnd(GER_NORMAL) with what each chair holds and what bombs have scored by then.
OnGameEnd(winner, hands) ==
  /\ gameState' = "GAME_END"
  /\ gameOver' = [winner |-> winner,
                  want |-> RoundScore(winner, [c \in Chair |-> Size(hands[c])],
                                      PlayCardNum, BaseScore, gameScore)]
  /\ ResetGameData(winner)
  /\ coolLogic' = "fresh"

\* A trick, or the last hand, is a bomb by the type kept beside it.
BombTaken(type) == type = "CT_BOMB"

\* CheckBombCalc for the chair that holds the trick, if a bomb won it.
CheckBombCalc(winner, type) ==
  IF BombTaken(type)
  THEN /\ eachBombCount' = [eachBombCount EXCEPT ![winner] = @ + 1]
       /\ gameScore' = BombPays(gameScore, winner, BaseScore)
  ELSE UNCHANGED bombVars

-----------------------------------------------------------------------------
(* Playing and passing.                                                    *)

\* IsCanLessOutCard: the play is as long as the hand.
LastHand(c, cards) == Size(cards) = Size(handCard[c])

\* The chair behind may hold one card: a single card has to be the highest of the hand.
LetsGo(c, cards) ==
  /\ Size(cards) = 1 /\ Size(handCard[NextChair(c)]) = 1
  /\ Highest(Held(handCard[c])) > Highest(Held(cards))

\* The tests of OnUserOutCard: my turn, a card type, nobody let go, beats the table, in hand.
CanOutCard(c, cards) ==
  /\ c = curUser
  /\ cards # Empty /\ GetCardType(cards, LastHand(c, cards)) # "CT_ERROR"
  /\ ~LetsGo(c, cards)
  /\ turnCard # Empty => CompareCard(cards, turnCard, LastHand(c, cards))
  /\ Within(cards, handCard[c])

PutDown(c, cards) ==
  /\ turnCard' = cards
  /\ turnCardType' = GetCardType(cards, LastHand(c, cards))
  /\ turnWiner' = c
  /\ opened' = TRUE
  /\ handCard' = [handCard EXCEPT ![c] = Minus(@, cards)]

\* OnUserOutCard.  Who plays his last cards ends the round, two seconds later if they are a
\* bomb (m_autoOutCard is not read again before ResetGameData).
UserOutCard(c, cards) ==
  LET type == GetCardType(cards, LastHand(c, cards))
      left == [handCard EXCEPT ![c] = Minus(@, cards)]
  IN  /\ CanOutCard(c, cards)
      /\ \/ /\ ~LastHand(c, cards)
            /\ PutDown(c, cards)
            /\ curUser' = NextChair(c)
            /\ coolLogic' = "fresh" /\ autoOutCard' = FALSE
            /\ UNCHANGED <<gameState, bankerUser, bombVars, gameOver>>
         \/ /\ LastHand(c, cards) /\ BombTaken(type)
            /\ PutDown(c, cards)
            /\ curUser' = INVALID_CHAIR
            /\ CheckBombCalc(c, type)
            /\ gameState' = "WAIT" /\ coolLogic' = "fresh" /\ autoOutCard' = FALSE
            /\ UNCHANGED <<bankerUser, gameOver>>
         \/ LastHand(c, cards) /\ ~BombTaken(type) /\ OnGameEnd(c, left)

\* Once the turn is back at the chair nobody beat, the trick is won.
TrickWon(c) == NextChair(c) = turnWiner

\* MUTANT: a won bomb is paid for by every pass.
WinTrickEachPass(c) ==
  /\ CheckBombCalc(turnWiner, turnCardType)
  /\ turnCard' = IF TrickWon(c) THEN Empty ELSE turnCard

WinTrick(c) ==
  IF TrickWon(c) THEN CheckBombCalc(turnWiner, turnCardType) /\ turnCard' = Empty
  ELSE UNCHANGED <<bombVars, turnCard>>

\* OnUserPassCard: the type of the cards stays when the trick is cleared.
UserPassCard(c) ==
  /\ c = curUser /\ turnCard # Empty
  /\ curUser' = NextChair(c)
  /\ WinTrick(c)
  /\ coolLogic' = "fresh" /\ autoOutCard' = FALSE
  /\ UNCHANGED <<gameState, bankerUser, handCard, turnCardType, turnWiner, opened, gameOver>>

Found(c) == SearchOutCard(handCard[c], turnCard)
Lead(c)  == SearchActionOutCard(handCard[c], Size(handCard[NextChair(c)]))

\* MUTANT: only who has fewer cards than the table shows passes.
AutoCardShy(c) ==
  LET answer == Found(c)
  IN  IF turnCard = Empty THEN UserOutCard(c, Lead(c))
      ELSE IF CanOutCard(c, answer) /\ Size(handCard[c]) > Size(turnCard) + 1
      THEN UserOutCard(c, answer)
      ELSE UserPassCard(c)

\* OnUserAutoCard: the lead the search finds, or the answer; without one that the table
\* takes, a pass.
AutoCard(c) ==
  LET answer == Found(c)
  IN  IF turnCard = Empty THEN UserOutCard(c, Lead(c))
      ELSE IF CanOutCard(c, answer) THEN UserOutCard(c, answer)
      ELSE UserPassCard(c)

\* CheckLastHandAutoCard: a hand that can go down whole does, unless it holds a bomb and
\* more; a chair that has no answer passes.
WholeHand(c) ==
  /\ SearchSame(handCard[c], 4, 0) = Empty \/ Size(handCard[c]) <= 4
  /\ CanOutCard(c, handCard[c])

NoAnswer(c) == turnCard # Empty /\ Found(c) = Empty

LastHandMove(c) ==
  \/ WholeHand(c) /\ UserOutCard(c, handCard[c])
  \/ ~WholeHand(c) /\ NoAnswer(c) /\ UserPassCard(c)

-----------------------------------------------------------------------------
(* The clients.  A refused message changes nothing.                        *)

\* What a play or a pass leaves of the seats: OnGameRoundOver clears them, any other outcome
\* keeps what the caller set.
SeatsAfter(auto, times) ==
  IF gameState' = "GAME_END"
  THEN readyStatus' = Nobody /\ autoStatus' = Nobody /\ overTimes' = Zero
  ELSE autoStatus' = auto /\ overTimes' = times /\ UNCHANGED readyStatus

OutCard(c, cards) ==
  /\ gameState = "PLAY"
  /\ UserOutCard(c, cards)
  /\ SeatsAfter(autoStatus, overTimes)

\* A client that passes is played for like one the server plays for.
PassCard(c) ==
  /\ gameState = "PLAY" /\ c = curUser
  /\ AutoCard(c)
  /\ SeatsAfter(autoStatus, overTimes)

\* PlayerReady, at any moment of a round; sitting down and leaving write the same fields.
PlayerReady(c, ready) ==
  /\ readyStatus' = [readyStatus EXCEPT ![c] = ready]
  /\ autoStatus' = [autoStatus EXCEPT ![c] = FALSE]
  /\ overTimes' = [overTimes EXCEPT ![c] = 0]
  /\ UNCHANGED <<gameState, roundVars, autoOutCard, coolLogic>>

PlayerSetAuto(c, auto) ==
  /\ autoStatus[c] # auto
  /\ autoStatus' = [autoStatus EXCEPT ![c] = auto]
  /\ overTimes' = [overTimes EXCEPT ![c] = 0]
  /\ UNCHANGED <<gameState, roundVars, autoOutCard, readyStatus, coolLogic>>

\* A client that comes back in time for a turn that has run out gets two seconds more.
SendGameScene(c) ==
  /\ gameState = "PLAY" /\ c = curUser /\ coolLogic = "out"
  /\ coolLogic' = "fresh"
  /\ UNCHANGED <<gameState, roundVars, autoOutCard, seatVars>>

\* The room empties a table of a matching room, then resets it for its next players.
ResetTable ==
  /\ NeedMarry /\ gameState \in {"FREE", "RECYCLE"}
  /\ \A c \in Chair : ~readyStatus[c]
  /\ gameState' = "FREE"
  /\ ResetGameData(INVALID_CHAIR)
  /\ readyStatus' = Nobody /\ autoStatus' = Nobody /\ overTimes' = Zero
  /\ UNCHANGED <<coolLogic, gameOver>>

-----------------------------------------------------------------------------
(* The table timer: OnTimeTick, one action per branch it can take.         *)

\* OnGameStart: the winner of the last round leads, at a new table any chair.  It resets
\* neither the books nor whether the table was opened.
OnGameStart ==
  \E deal \in Deals, any \in Chair :
    LET first == IF bankerUser = INVALID_CHAIR THEN any ELSE bankerUser
    IN  /\ gameState' = "PLAY"
        /\ bankerUser' = first /\ curUser' = first
        /\ handCard' = deal
        /\ turnCard' = Empty /\ turnWiner' = INVALID_CHAIR
        /\ coolLogic' = "fresh"
        /\ UNCHANGED <<turnCardType, opened, bombVars, autoOutCard, gameOver>>

TickStart ==
  /\ gameState = "FREE" /\ coolLogic = "out"
  /\ \A c \in Chair : readyStatus[c]
  /\ OnGameStart
  /\ UNCHANGED seatVars

\* A chair that let two turns run out is played for as soon as it is its turn.
MarkAuto(auto, times, c) == [x \in Chair |-> auto[x] \/ (x = c /\ times[x] = 2)]

\* What the tail of OnTimeTick leaves of the seats after a move.
SeatsAfterTick(times) ==
  SeatsAfter(IF gameState' = "PLAY" THEN MarkAuto(autoStatus, times, curUser') ELSE autoStatus,
             times)

\* OnOutCardTimeOut.
TickPlay ==
  /\ gameState = "PLAY" /\ coolLogic = "out"
  /\ AutoCard(curUser)
  /\ SeatsAfterTick([overTimes EXCEPT ![curUser] = @ + 1])

\* The turn is looked at half a second in, the first turn of a round only after four.
Checks == ~autoOutCard /\ coolLogic \in (IF opened THEN {"half", "late", "long"} ELSE {"long"})

TickCheck ==
  /\ gameState = "PLAY" /\ Checks
  /\ LastHandMove(curUser)
  /\ SeatsAfterTick(overTimes)

Looked == Checks => ~WholeHand(curUser) /\ ~NoAnswer(curUser)

\* A second into the turn of a chair the server plays for.
TickAuto ==
  LET auto == MarkAuto(autoStatus, overTimes, curUser)
  IN  /\ gameState = "PLAY" /\ coolLogic \in {"late", "long"} /\ Looked
      /\ auto[curUser]
      /\ AutoCard(curUser)
      /\ SeatsAfter(auto, overTimes)

\* A tick that moves for nobody may still mark the turn and the chair.
TickMark ==
  /\ gameState = "PLAY" /\ coolLogic # "out" /\ Looked
  /\ autoOutCard' = (autoOutCard \/ Checks)
  /\ autoStatus' = MarkAuto(autoStatus, overTimes, curUser)
  /\ coolLogic \in {"late", "long"} => ~autoStatus'[curUser]
  /\ <<autoOutCard, autoStatus>>' # <<autoOutCard, autoStatus>>
  /\ UNCHANGED <<gameState, roundVars, readyStatus, overTimes, coolLogic>>

\* MUTANT: a last bomb waits until the players are ready.
TickWaitReady ==
  /\ gameState = "WAIT" /\ coolLogic = "out" /\ \A c \in Chair : readyStatus[c]
  /\ OnGameEnd(turnWiner, handCard)
  /\ SeatsAfter(autoStatus, overTimes)

\* Two seconds after a last bomb.
TickWait ==
  /\ gameState = "WAIT" /\ coolLogic = "out"
  /\ OnGameEnd(turnWiner, handCard)
  /\ SeatsAfter(autoStatus, overTimes)

\* The result has been shown for a second; a matching room now recycles the table.
TickEnd ==
  /\ gameState = "GAME_END" /\ coolLogic = "out"
  /\ gameState' = IF NeedMarry THEN "RECYCLE" ELSE "FREE"
  /\ coolLogic' = "fresh"
  /\ gameOver' = NoResult
  /\ UNCHANGED <<bankerUser, curUser, handCard, trickVars, opened, bombVars, autoOutCard, seatVars>>

Tick == TickStart \/ TickPlay \/ TickCheck \/ TickAuto \/ TickMark \/ TickWait \/ TickEnd

\* Time passes.  Half a second, a second and four are told apart only where they matter.
Later ==
  CASE coolLogic = "fresh" -> IF gameState = "PLAY" THEN {"half"} ELSE {"out"}
    [] coolLogic = "half"  -> {"late"}
    [] coolLogic = "late"  -> IF opened THEN {"out"} ELSE {"long", "out"}
    [] coolLogic = "long"  -> {"out"}

Elapse ==
  /\ coolLogic # "out"
  /\ coolLogic' \in Later
  /\ UNCHANGED <<gameState, roundVars, autoOutCard, seatVars>>

Client ==
  \E c \in Chair :
    \/ \E cards \in Bag : OutCard(c, cards)
    \/ PassCard(c)
    \/ SendGameScene(c)
    \/ \E b \in BOOLEAN : PlayerReady(c, b) \/ PlayerSetAuto(c, b)

Next == Client \/ ResetTable \/ Tick \/ Elapse

Spec == Init /\ [][Next]_vars

\* The timer reschedules itself every 200 ms and time passes.  A client is not so quick that
\* it comes back, each time, between the moment its turn runs out and the next tick.
FairSpec == Spec /\ WF_vars(Tick) /\ WF_vars(Elapse) /\ SF_vars(TickPlay)

-----------------------------------------------------------------------------
(* Properties.                                                             *)

GameStates == {"FREE", "PLAY", "WAIT", "GAME_END", "RECYCLE"}
ChairOrNone == Chair \cup {INVALID_CHAIR}

TypeOK ==
  /\ gameState \in GameStates
  /\ bankerUser \in ChairOrNone /\ curUser \in ChairOrNone /\ turnWiner \in ChairOrNone
  /\ handCard \in [Chair -> Bag] /\ turnCard \in Bag
  /\ opened \in BOOLEAN /\ autoOutCard \in BOOLEAN
  /\ eachBombCount \in [Chair -> Nat] /\ gameScore \in [Chair -> Int]
  /\ readyStatus \in [Chair -> BOOLEAN] /\ autoStatus \in [Chair -> BOOLEAN]
  /\ overTimes \in [Chair -> Nat]
  /\ coolLogic \in {"fresh", "half", "late", "long", "out"}
  /\ gameOver.winner \in ChairOrNone /\ gameOver.want \in [Chair -> Int]
  /\ gameState = "PLAY" => curUser \in Chair
  /\ gameState = "WAIT" => turnWiner \in Chair

IsBomb(cards) == GetCardType(cards, FALSE) = "CT_BOMB"

\* The books of the bombs: a chair has won twice the price of each bomb of its own and lost
\* the price of each other one, nothing is left of an earlier round, and what the settlement
\* asks of the chairs comes to nothing.  The trick on the table is paid for by its type, so
\* the type kept beside it must be the type of these cards.
BombBooks ==
  /\ \A c \in Chair :
       gameScore[c] = BombScore(BaseScore) * (3 * eachBombCount[c] - Sum3(eachBombCount))
  /\ gameState \notin {"PLAY", "WAIT"} => eachBombCount = Zero
  /\ Sum3(gameOver.want) = 0
  /\ gameState \in {"PLAY", "WAIT"} /\ turnCard # Empty =>
       BombTaken(turnCardType) = IsBomb(turnCard)

\* A bomb is paid once: when nobody beat it and the turn came back to its owner, or when it
\* was his last hand; never by a trick it did not win, though its type outlives the trick.
BombPaidOnce ==
  [][gameState = "PLAY" /\ gameState' \in {"PLAY", "WAIT"} =>
       eachBombCount' =
         IF \/ turnCard # Empty /\ turnCard' = Empty /\ IsBomb(turnCard)
            \/ gameState' = "WAIT" /\ IsBomb(turnCard')
         THEN [eachBombCount EXCEPT ![turnWiner'] = @ + 1]
         ELSE eachBombCount]_vars

\* Who can beat the table must: a chair passes, on its own account or by the server, only if
\* no play of its hand that leaves it cards is taken; a whole hand, which no search looks for,
\* may be short of the cards its triples take along.  The search finds no answer to a four with
\* three cards; its answer to planes can be refused for the triples it attaches; and its answer
\* to a single card is refused when it would let the last card of the next chair go.
Searched ==
  /\ turnCardType # "CT_FOUR_TAKE_THREE"
  /\ Cardinality(Triples(turnCard)) <= 1
  /\ Size(turnCard) = 1 => Size(handCard[NextChair(curUser)]) # 1

MustBeat ==
  [][gameState = "PLAY" /\ gameState' = "PLAY" /\ turnCard # Empty /\ handCard' = handCard
     /\ curUser' # curUser /\ Searched
       => \A cards \in SubBags(handCard[curUser]) :
            cards # Empty /\ ~LastHand(curUser, cards) => ~CanOutCard(curUser, cards)]_vars

\* A lead the search finds is always taken, so a silent chair never stops the table.
LeadTaken == gameState = "PLAY" /\ turnCard = Empty => CanOutCard(curUser, Lead(curUser))

\* A round that was dealt is played to its end, whoever stays silent.
RoundEnds == gameState = "PLAY" ~> gameState = "GAME_END"
=============================================================================
