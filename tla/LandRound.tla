------------------------------ MODULE LandRound ------------------------------
(***************************************************************************)
(* One landlord ("dou di zhu") table from the deal to the settlement:      *)
(* CGameLandTable of game_server/src/game_logic/landlord/game_land_table.  *)
(* Three chairs bid for the bottom cards, the banker plays against the     *)
(* other two, the first chair to run out of cards ends the round.  Client  *)
(* messages and the 200 ms table timer interleave; a silent client is      *)
(* answered for by the timer.                                              *)
(*                                                                         *)
(* A card is its position in the order of SortCardList, a hand is a set of *)
(* cards: RandCardList shuffles distinct cards and RemoveCardList refuses  *)
(* a list that names one card twice.  What a set of cards is worth         *)
(* (GetCardType, CompareCard, SearchOutCard) is a parameter; LandCards has *)
(* the rules themselves.                                                   *)
(***************************************************************************)
EXTENDS LandScore, FiniteSets

CONSTANTS
  Deck,             (* the cards that are dealt                              *)
  NORMAL_COUNT,     (* how many of them each chair is dealt                  *)
  Deals,            (* the hands a shuffle can deal: chair -> set of cards   *)
  BaseScore,        (* m_conf.baseScore                                      *)
  NeedMarry,        (* m_pHostRoom->IsNeedMarry()                            *)
  CardType(_),      (* CLandLogic::GetCardType of a set of cards             *)
  CompareCard(_, _),  (* CLandLogic::CompareCard(table, next)                *)
  SearchOutCard(_, _) (* CLandLogic::SearchOutCard(hand, table); {} if none  *)

INVALID_CHAIR == 255
MaxCallScore == 3

NextChair(c) == (c + 1) % 3

ASSUME DeckAssumption ==
  /\ Deck \subseteq Nat /\ IsFiniteSet(Deck)
  /\ NORMAL_COUNT \in Nat \ {0}
  /\ Deals # {}
  /\ \A d \in Deals :
       /\ d \in [Chair -> SUBSET Deck]
       /\ \A c \in Chair : Cardinality(d[c]) = NORMAL_COUNT
       /\ \A a, b \in Chair : a # b => d[a] \cap d[b] = {}

ASSUME ConfAssumption == BaseScore \in Nat /\ NeedMarry \in BOOLEAN

\* A single card is always a legal lead (land_logic.cpp:29) and no card never is.
ASSUME CardTypeAssumption ==
  /\ CardType({}) = "CT_ERROR"
  /\ \A x \in Deck : CardType({x}) = "CT_SINGLE"

VARIABLES
  gameState,     (* m_gameState                                             *)
  firstUser,     (* m_firstUser: who bids first                             *)
  bankerUser,    (* m_bankerUser                                            *)
  curUser,       (* m_curUser: whose turn it is                             *)
  callScore,     (* m_callScore                                             *)
  callCount,     (* m_callCount: deals nobody bid on                        *)
  handCard,      (* m_handCardData, m_handCardCount                         *)
  bankerCard,    (* m_bankerCard: the bottom cards                          *)
  turnCard,      (* m_turnCardData, m_turnCardCount: the cards to beat      *)
  turnWiner,     (* m_turnWiner: who put them there                         *)
  outCardCount,  (* m_outCardCount: plays made by each chair                *)
  bombCount,     (* m_bombCount                                             *)
  readyStatus,   (* seat.readyStatus                                        *)
  autoStatus,    (* seat.autoStatus: the server plays for the chair         *)
  overTimes,     (* seat.overTimes: turns the chair let run out             *)
  coolLogic,     (* m_coolLogic: "fresh", "late" (over 1 s), "out"          *)
  gameOver       (* while GAME_END: who won, the banker, the scores          *)

roundVars == <<firstUser, bankerUser, curUser, callScore, callCount, handCard, bankerCard,
               turnCard, turnWiner, outCardCount, bombCount, gameOver>>
seatVars  == <<readyStatus, autoStatus, overTimes>>
vars      == <<gameState, roundVars, seatVars, coolLogic>>

Zero     == [c \in Chair |-> 0]
NoResult == [winner |-> INVALID_CHAIR, banker |-> INVALID_CHAIR, score |-> Zero]
Nobody   == [c \in Chair |-> FALSE]
NoCards  == [c \in Chair |-> {}]

Init ==
  /\ gameState = "FREE"
  /\ firstUser = INVALID_CHAIR /\ bankerUser = INVALID_CHAIR /\ curUser = INVALID_CHAIR
  /\ callScore = Zero /\ callCount = 0
  /\ handCard = NoCards /\ bankerCard = {}
  /\ turnCard = {} /\ turnWiner = INVALID_CHAIR
  /\ outCardCount = Zero /\ bombCount = 0
  /\ readyStatus = Nobody /\ autoStatus = Nobody /\ overTimes = Zero
  /\ coolLogic = "out"
  /\ gameOver = NoResult

-----------------------------------------------------------------------------
(* The deal.                                                               *)

\* OnGameStart: deal, and let `first` bid first; on a table's first deal the chair
\* that holds the open card does.  It resets no bid and no counter itself.
OnGameStart(first) ==
  \E deal \in Deals, open \in Chair :
    LET start == IF first = INVALID_CHAIR THEN open ELSE first
    IN  /\ gameState' = "CALL"
        /\ firstUser' = start /\ curUser' = start
        /\ handCard' = deal
        /\ bankerCard' = Deck \ UNION {deal[c] : c \in Chair}
        /\ turnCard' = {} /\ turnWiner' = INVALID_CHAIR
        /\ coolLogic' = "fresh"
        /\ UNCHANGED gameOver

\* MUTANT: the plays of the last round are still counted.
ResetBidsOnly ==
  /\ bankerUser' = INVALID_CHAIR
  /\ callScore' = Zero
  /\ bombCount' = 0 /\ UNCHANGED outCardCount

\* MUTANT: the banker of the last round stays.
ResetBidsNotBanker ==
  /\ UNCHANGED bankerUser
  /\ callScore' = Zero
  /\ outCardCount' = Zero /\ bombCount' = 0

\* The part of ResetGameData a following OnGameStart does not overwrite.
ResetBids ==
  /\ bankerUser' = INVALID_CHAIR
  /\ callScore' = Zero
  /\ outCardCount' = Zero /\ bombCount' = 0

\* MUTANT: a deal nobody bid on is not counted.
ReGameStartUncounted ==
  /\ ResetBids
  /\ OnGameStart(NextChair(firstUser))
  /\ UNCHANGED callCount

\* ReGameStart: nobody bid, the next chair opens a new deal.
ReGameStart ==
  /\ callCount' = callCount + 1
  /\ ResetBids
  /\ OnGameStart(NextChair(firstUser))

-----------------------------------------------------------------------------
(* Bidding.                                                                *)

AskNext(c, bids) ==
  /\ callScore' = bids
  /\ curUser' = NextChair(c)
  /\ coolLogic' = "fresh"
  /\ UNCHANGED <<gameState, firstUser, bankerUser, callCount, handCard, bankerCard,
                 turnCard, turnWiner, outCardCount, bombCount, gameOver>>

\* The banker takes the bottom cards and leads.
BecomeBanker(b, bids) ==
  /\ gameState' = "PLAY"
  /\ callScore' = bids
  /\ bankerUser' = b /\ turnWiner' = b /\ curUser' = b
  /\ handCard' = [handCard EXCEPT ![b] = @ \cup bankerCard]
  /\ coolLogic' = "fresh"
  /\ UNCHANGED <<firstUser, callCount, bankerCard, turnCard, outCardCount, bombCount, gameOver>>

\* The loop that keeps the first chair of the highest bid.
IsTopBid(bids, b) ==
  /\ bids[b] > 0
  /\ \A o \in Chair : bids[o] < bids[b] \/ (bids[o] = bids[b] /\ b <= o)

\* MUTANT: the last chair's silence is taken for everybody's.
NoBidLast(bids) == \E c \in Chair : bids[c] = 0 /\ NextChair(c) = firstUser

NoBid(bids) == \A c \in Chair : bids[c] = 0

\* OnUserCallScore.  A bid of 3, or the bid of the last chair, ends the bidding; the
\* last chair takes the bank with any bid, lower ones included.
UserCallScore(c, said) ==
  LET score == IF said > MaxCallScore THEN 0 ELSE said
      bids  == [callScore EXCEPT ![c] = score]
      last  == firstUser = NextChair(c)
  IN  /\ c = curUser
      /\ \/ score # MaxCallScore /\ ~last /\ AskNext(c, bids)
         \/ (score = MaxCallScore \/ (last /\ score # 0)) /\ BecomeBanker(c, bids)
         \/ score = 0 /\ last /\ \E b \in Chair : IsTopBid(bids, b) /\ BecomeBanker(b, bids)
         \/ last /\ NoBid(bids) /\ callCount <= 3 /\ ReGameStart
         \/ last /\ NoBid(bids) /\ callCount > 3
            /\ BecomeBanker(firstUser, [bids EXCEPT ![firstUser] = 1])

-----------------------------------------------------------------------------
(* Settlement and play.                                                    *)

\* Spring: the farmers never played.  Counter-spring: the banker only led once.
Spring(winner) ==
  IF winner = bankerUser
  THEN \A c \in Chair \ {bankerUser} : outCardCount[c] = 0
  ELSE outCardCount[bankerUser] = 1

Stake(winner, bombs) ==
  BaseScore * ScoreTimes(bombs, Spring(winner), callScore[bankerUser])

\* OnGameEnd(GER_NORMAL), with the ResetGameData it runs; the winner bids first next.
OnGameEnd(winner, bombs) ==
  /\ gameState' = "GAME_END"
  /\ gameOver' = [winner |-> winner, banker |-> bankerUser,
                   score |-> CalcScore(winner, bankerUser, Stake(winner, bombs))]
  /\ firstUser' = winner
  /\ curUser' = INVALID_CHAIR
  /\ ResetBids
  /\ handCard' = NoCards /\ bankerCard' = {}
  /\ turnCard' = {} /\ turnWiner' = INVALID_CHAIR
  /\ coolLogic' = "fresh"
  /\ UNCHANGED callCount

IsBomb(cards) == CardType(cards) \in {"CT_BOMB_CARD", "CT_MISSILE_CARD"}

\* MUTANT: the cards are never looked for in the hand.
CanOutCardUnheld(c, cards) ==
  /\ c = curUser
  /\ CardType(cards) # "CT_ERROR"
  /\ turnCard # {} => CompareCard(turnCard, cards)

\* MUTANT: the cards on the table need not be beaten.
CanOutCardUnbeaten(c, cards) ==
  /\ c = curUser
  /\ CardType(cards) # "CT_ERROR"
  /\ cards \subseteq handCard[c]

\* The tests of OnUserOutCard: my turn, a card type, beats the table, cards in hand.
CanOutCard(c, cards) ==
  /\ c = curUser
  /\ CardType(cards) # "CT_ERROR"
  /\ turnCard # {} => CompareCard(turnCard, cards)
  /\ cards \subseteq handCard[c]

UserOutCard(c, cards) ==
  LET bombs == IF IsBomb(cards) THEN bombCount + 1 ELSE bombCount
  IN  /\ CanOutCard(c, cards)
      /\ \/ /\ cards = handCard[c]
            /\ OnGameEnd(c, bombs)
         \/ /\ cards # handCard[c]
            /\ handCard' = [handCard EXCEPT ![c] = @ \ cards]
            /\ turnCard' = cards /\ turnWiner' = c
            /\ outCardCount' = [outCardCount EXCEPT ![c] = @ + 1]
            /\ bombCount' = bombs
            /\ curUser' = NextChair(c)
            /\ coolLogic' = "fresh"
            /\ UNCHANGED <<gameState, firstUser, bankerUser, callScore, callCount,
                           bankerCard, gameOver>>

\* MUTANT: the winner of the trick is looked for before the turn moves on.
TurnCardAfterPassEarly(c) == IF c = turnWiner THEN {} ELSE turnCard

TurnCardAfterPass(c) == IF NextChair(c) = turnWiner THEN {} ELSE turnCard

\* OnUserPassCard: once the turn is back at the chair nobody beat, it leads anew.
UserPassCard(c) ==
  /\ c = curUser /\ turnCard # {}
  /\ curUser' = NextChair(c)
  /\ turnCard' = TurnCardAfterPass(c)
  /\ coolLogic' = "fresh"
  /\ UNCHANGED <<gameState, firstUser, bankerUser, callScore, callCount, handCard,
                 bankerCard, turnWiner, outCardCount, bombCount, gameOver>>

-----------------------------------------------------------------------------
(* The clients.  A refused message changes nothing.                        *)

CallScore(c, said) ==
  /\ gameState = "CALL"
  /\ UserCallScore(c, said)
  /\ UNCHANGED seatVars

\* What a call of OnUserOutCard or OnUserPassCard leaves of the seats: OnGameRoundOver
\* clears them (ResetPlayerReady), any other outcome keeps what the caller set.
SeatsAfter(auto, times) ==
  IF gameState' = "GAME_END"
  THEN readyStatus' = Nobody /\ autoStatus' = Nobody /\ overTimes' = Zero
  ELSE autoStatus' = auto /\ overTimes' = times /\ UNCHANGED readyStatus

OutCard(c, cards) ==
  /\ gameState = "PLAY"
  /\ UserOutCard(c, cards)
  /\ SeatsAfter(autoStatus, overTimes)

PassCard(c) ==
  /\ gameState = "PLAY"
  /\ UserPassCard(c)
  /\ UNCHANGED seatVars

\* PlayerReady, at any moment of a round; sitting down and leaving write the same fields.
PlayerReady(c, ready) ==
  /\ readyStatus' = [readyStatus EXCEPT ![c] = ready]
  /\ autoStatus' = [autoStatus EXCEPT ![c] = FALSE]
  /\ overTimes' = [overTimes EXCEPT ![c] = 0]
  /\ UNCHANGED <<gameState, roundVars, coolLogic>>

PlayerSetAuto(c, auto) ==
  /\ autoStatus[c] # auto
  /\ autoStatus' = [autoStatus EXCEPT ![c] = auto]
  /\ overTimes' = [overTimes EXCEPT ![c] = 0]
  /\ UNCHANGED <<gameState, roundVars, readyStatus, coolLogic>>

\* The room empties a table of a matching room, then resets it for its next players.
ResetTable ==
  /\ NeedMarry /\ gameState \in {"FREE", "RECYCLE"}
  /\ \A c \in Chair : ~readyStatus[c]
  /\ gameState' = "FREE"
  /\ curUser' = INVALID_CHAIR
  /\ ResetBids
  /\ handCard' = NoCards /\ bankerCard' = {}
  /\ turnCard' = {} /\ turnWiner' = INVALID_CHAIR
  /\ readyStatus' = Nobody /\ autoStatus' = Nobody /\ overTimes' = Zero
  /\ UNCHANGED <<firstUser, callCount, coolLogic, gameOver>>

-----------------------------------------------------------------------------
(* The table timer: OnTimeTick, one action per branch it can take.         *)

\* A chair that let two turns run out is played for as soon as it is its turn.
MarkAuto(auto, times, c) == [x \in Chair |-> auto[x] \/ (x = c /\ times[x] = 2)]

\* What the tail of OnTimeTick leaves of the seats after a timeout was handled.
SeatsAfterTick(times) ==
  SeatsAfter(IF gameState' = "PLAY" THEN MarkAuto(autoStatus, times, curUser') ELSE autoStatus,
             times)

TickStart ==
  /\ gameState = "FREE" /\ coolLogic = "out"
  /\ \A c \in Chair : readyStatus[c]
  /\ OnGameStart(firstUser)
  /\ UNCHANGED <<bankerUser, callScore, callCount, outCardCount, bombCount, seatVars>>

\* OnCallScoreTimeOut: silence is no bid.
TickCall ==
  /\ gameState = "CALL" /\ coolLogic = "out"
  /\ UserCallScore(curUser, 0)
  /\ SeatsAfterTick(overTimes)

\* The last card of the sorted hand.
LeadLowest(c) ==
  \E x \in handCard[c] :
    /\ \A y \in handCard[c] : x <= y
    /\ UserOutCard(c, {x})

\* OnOutCardTimeOut: lead the lowest card, or pass.
TickPlay ==
  /\ gameState = "PLAY" /\ coolLogic = "out"
  /\ (turnCard = {} /\ LeadLowest(curUser)) \/ UserPassCard(curUser)
  /\ SeatsAfterTick([overTimes EXCEPT ![curUser] = @ + 1])

\* OnUserAutoCard: lead the lowest card, or answer with what the search finds, or pass.
AutoCard(c) ==
  LET answer == SearchOutCard(handCard[c], turnCard)
  IN  \/ turnCard = {} /\ LeadLowest(c)
      \/ turnCard # {} /\ UserOutCard(c, answer)
      \/ ~CanOutCard(c, answer) /\ UserPassCard(c)

\* A second into the turn of a chair the server plays for.
TickAuto ==
  LET auto == MarkAuto(autoStatus, overTimes, curUser)
  IN  /\ gameState = "PLAY" /\ coolLogic = "late" /\ auto[curUser]
      /\ AutoCard(curUser)
      /\ SeatsAfter(auto, overTimes)

\* A tick in a turn that neither ran out nor is played for only marks the chair.
TickMark ==
  /\ gameState = "PLAY" /\ coolLogic = "fresh"
  /\ autoStatus' = MarkAuto(autoStatus, overTimes, curUser)
  /\ autoStatus' # autoStatus
  /\ UNCHANGED <<gameState, roundVars, readyStatus, overTimes, coolLogic>>

\* The result has been shown for a second; a matching room now recycles the table.
TickEnd ==
  /\ gameState = "GAME_END" /\ coolLogic = "out"
  /\ gameState' = IF NeedMarry THEN "RECYCLE" ELSE "FREE"
  /\ coolLogic' = "fresh"
  /\ gameOver' = NoResult
  /\ UNCHANGED <<firstUser, bankerUser, curUser, callScore, callCount, handCard, bankerCard,
                 turnCard, turnWiner, outCardCount, bombCount, seatVars>>

Tick == TickStart \/ TickCall \/ TickPlay \/ TickAuto \/ TickMark \/ TickEnd

\* The cool-down passes one second, then runs out.
Elapse ==
  /\ coolLogic # "out"
  /\ coolLogic' = IF coolLogic = "fresh" THEN "late" ELSE "out"
  /\ UNCHANGED <<gameState, roundVars, seatVars>>

Client ==
  \E c \in Chair :
    \/ \E said \in 0..4 : CallScore(c, said)
    \/ \E cards \in SUBSET Deck : OutCard(c, cards)
    \/ PassCard(c)
    \/ \E b \in BOOLEAN : PlayerReady(c, b) \/ PlayerSetAuto(c, b)

Next == Client \/ ResetTable \/ Tick \/ Elapse

Spec == Init /\ [][Next]_vars

\* The timer reschedules itself every 200 ms and time passes: both are fair.  Nothing
\* is assumed of the clients.
FairSpec == Spec /\ WF_vars(Tick) /\ WF_vars(Elapse)

-----------------------------------------------------------------------------
(* Properties.                                                             *)

GameStates == {"FREE", "CALL", "PLAY", "GAME_END", "RECYCLE"}
ChairOrNone == Chair \cup {INVALID_CHAIR}

TypeOK ==
  /\ gameState \in GameStates
  /\ firstUser \in ChairOrNone /\ bankerUser \in ChairOrNone
  /\ curUser \in ChairOrNone /\ turnWiner \in ChairOrNone
  /\ callScore \in [Chair -> 0..MaxCallScore] /\ callCount \in 0..4
  /\ handCard \in [Chair -> SUBSET Deck] /\ bankerCard \in SUBSET Deck
  /\ turnCard \in SUBSET Deck
  /\ outCardCount \in [Chair -> Nat] /\ bombCount \in Nat
  /\ readyStatus \in [Chair -> BOOLEAN] /\ autoStatus \in [Chair -> BOOLEAN]
  /\ overTimes \in [Chair -> Nat]
  /\ coolLogic \in {"fresh", "late", "out"}
  /\ gameOver \in [winner : ChairOrNone, banker : ChairOrNone, score : [Chair -> Int]]

\* No card is in two places: not in two hands, and not in a hand and on the table, whatever
\* the clients asked to play; while the chairs bid no card of the deck is missing.
CardsDealtOnce ==
  /\ \A a, b \in Chair : a # b => handCard[a] \cap handCard[b] = {}
  /\ \A c \in Chair : handCard[c] \cap turnCard = {}
  /\ gameState = "CALL" =>
       /\ \A c \in Chair : handCard[c] \cap bankerCard = {}
       /\ bankerCard \cup UNION {handCard[c] : c \in Chair} = Deck

\* During a round somebody has the turn.  In play that is a chair with cards; the banker has
\* a bid to be paid for; and the table is clear exactly when the turn is back at the chair
\* that led the last trick (who may then lead, and may not pass).
TurnOrder ==
  /\ gameState \in {"CALL", "PLAY"} => firstUser \in Chair /\ curUser \in Chair
  /\ gameState = "PLAY" =>
       /\ bankerUser \in Chair /\ callScore[bankerUser] > 0
       /\ turnWiner \in Chair
       /\ turnCard = {} <=> curUser = turnWiner
       /\ \A c \in Chair : handCard[c] # {}

\* The counters behind spring and counter-spring are those of this round: a chair that has
\* made no play holds every card it got, and every counted play cost it at least one.
Share(c) == NORMAL_COUNT + (IF c = bankerUser THEN Cardinality(bankerCard) ELSE 0)

PlaysCounted ==
  /\ gameState = "CALL" =>
       \A c \in Chair : outCardCount[c] = 0 /\ Cardinality(handCard[c]) = NORMAL_COUNT
  /\ gameState = "PLAY" =>
       \A c \in Chair :
         /\ outCardCount[c] = 0 => Cardinality(handCard[c]) = Share(c)
         /\ outCardCount[c] <= Share(c) - Cardinality(handCard[c])

\* What the next round and the next bid rely on: nothing is left of the last round (a stale
\* banker would make a deal nobody bid on look decided), and the chairs still to be asked
\* have bid nothing.
BidsInOrder ==
  /\ gameState # "PLAY" => bankerUser = INVALID_CHAIR /\ outCardCount = Zero
  /\ gameState \notin {"CALL", "PLAY"} => callScore = Zero /\ handCard = NoCards
  /\ gameState = "CALL" =>
       /\ turnCard = {}
       /\ curUser = firstUser => callScore = Zero
       /\ callScore[curUser] = 0
       /\ NextChair(curUser) # firstUser => callScore[NextChair(curUser)] = 0

\* A settled round moves coins from one side to the other: the banker wins or loses what the
\* farmers together lose or win, never more than the cap, and only the winner's side wins.
RoundSettled ==
  gameState = "GAME_END" =>
    /\ gameOver.winner \in Chair /\ gameOver.banker \in Chair
    /\ gameOver.score[0] + gameOver.score[1] + gameOver.score[2] = 0
    /\ \A c \in Chair :
         /\ gameOver.score[c] \in -(2 * MaxBeiShu * BaseScore)..(2 * MaxBeiShu * BaseScore)
         /\ BaseScore > 0 =>
              (gameOver.score[c] > 0 <=>
                 (c = gameOver.banker) = (gameOver.winner = gameOver.banker))

\* The inductive invariant behind the above.
IInv == TypeOK /\ CardsDealtOnce /\ TurnOrder /\ PlaysCounted /\ BidsInOrder /\ RoundSettled

\* A step of play costs cards to the chair whose turn it was and to no other chair; what it
\* loses is what now lies on the table, which beats what lay there before.  It holds for the
\* clients' messages, the timeouts and the moves the server makes for a chair.
PlayDiscipline ==
  [][gameState = "PLAY" /\ gameState' = "PLAY" /\ handCard' # handCard =>
       /\ turnWiner' = curUser /\ curUser' = NextChair(curUser)
       /\ turnCard' = handCard[curUser] \ handCard'[curUser]
       /\ turnCard # {} => CompareCard(turnCard, turnCard')
       /\ \A c \in Chair : c # curUser => handCard'[c] = handCard[c]]_vars

\* Cards are dealt again in a round only after every chair was asked and none bid.
NoRedealAfterBid ==
  [][gameState = "CALL" /\ callCount' # callCount =>
       /\ callCount' = callCount + 1
       /\ curUser = (firstUser + 2) % 3
       /\ \A c \in Chair : callScore[c] = 0]_vars

\* The server plays for a chair as well as the rules allow: it passes only if no play of the
\* hand is taken.  A bomb that would beat the jokers and the plays that answer a four with two
\* cards or two pairs are never looked for, and an answer to several triples with a card each
\* can hold a four or one triple too many and be refused.
AutoAnswers ==
  [][TickAuto /\ turnCard # {} /\ handCard' = handCard
     /\ CardType(turnCard) \notin {"CT_MISSILE_CARD", "CT_FOUR_TAKE_ONE", "CT_FOUR_TAKE_TWO"}
     /\ (CardType(turnCard) = "CT_THREE_TAKE_ONE" => Cardinality(turnCard) = 4)
       => \A cards \in SUBSET handCard[curUser] : ~CanOutCard(curUser, cards)]_vars

\* A round that was dealt is played to its end, whoever stays silent: redeals stop, a trick
\* ends, hands run out.
RoundEnds == gameState = "CALL" ~> gameState = "GAME_END"

\* The table does what a table promises: the rounds of Round.tla, its fairness included.
Phase ==
  CASE gameState = "CALL" -> "bidding"
    [] gameState = "PLAY" -> "playing"
    [] gameState = "GAME_END" -> "over"
    [] OTHER -> "idle"

Promise ==
  INSTANCE Round WITH
    NoChair <- INVALID_CHAIR,
    Dealt <- NORMAL_COUNT, Bottom <- Cardinality(Deck) - 3 * NORMAL_COUNT,
    phase <- Phase, banker <- bankerUser, winner <- gameOver.winner,
    left <- [c \in Chair |-> Cardinality(handCard[c])]

KeepsPromise == Promise!RSpec
=============================================================================
