----------------------------- MODULE TableCoins -----------------------------
(***************************************************************************)
(* The coins of the players at a table over many rounds: entering, start   *)
(* fee, settlement, end fee, standing up without coins, and the changes    *)
(* the lobby makes at any moment.  Two specifications: the landlord table, *)
(* where one chair is the banker, and the kuaipao table, where none is and *)
(* where a bomb is paid at once.  How a round is played is LandRound's     *)
(* subject; here it ends with any result it can have.                      *)
(***************************************************************************)
EXTENDS KuaipaoScore

CONSTANTS
  BaseScore,   (* m_conf.baseScore                                          *)
  EnterMin,    (* m_conf.enterMin                                           *)
  FeeType,     (* m_conf.feeType: "NO", "ALLBASE" or "WIN"                  *)
  FeeValue,    (* m_conf.feeValue, in ten thousandths                       *)
  PlayCardNum, (* m_playCardNum of the kuaipao table                        *)
  MaxCoins,    (* bound: the most coins a player brings                     *)
  MaxTotal,    (* bound: the most coins that are brought to a table          *)
  MaxBombs,    (* bound: bombs in one round                                 *)
  Changes      (* bound: what one change made by the lobby can be           *)

ASSUME CoinsAssumption ==
  /\ BaseScore \in Nat /\ EnterMin \in Nat /\ MaxCoins \in Nat /\ MaxTotal \in Nat
  /\ FeeType \in {"NO", "ALLBASE", "WIN"}
  /\ FeeValue \in 0..PRO_DENO_10000
  /\ PlayCardNum \in Nat /\ MaxBombs \in Nat
  /\ Changes \subseteq Int

VARIABLES
  stage,      (* "idle", "bidding", "playing", "over"                       *)
  coins,      (* the coins of the player in each chair                      *)
  ready,      (* seat.readyStatus                                           *)
  gameScore,  (* m_gameScore: what bombs won and lost this round            *)
  bill        (* the settlement of the last step, if it made one             *)

vars == <<stage, coins, ready, gameScore, bill>>

Vacant == -1                  \* an empty seat
Seated == {c \in Chair : coins[c] # Vacant}
TotalCoins == SumOf(Seated, coins)
Zero   == [c \in Chair |-> 0]
Nobody == [c \in Chair |-> FALSE]
NoBill == [want |-> Zero, held |-> Zero, real |-> Zero]

Init ==
  /\ stage = "idle"
  /\ coins = [c \in Chair |-> Vacant]
  /\ ready = Nobody
  /\ gameScore = Zero
  /\ bill = NoBill

-----------------------------------------------------------------------------
(* The seats.                                                              *)

\* EnterTable: only with the coins the table asks for.
EnterTable(c, held) ==
  /\ stage = "idle" /\ coins[c] = Vacant
  /\ held >= EnterMin /\ TotalCoins + held <= MaxTotal
  /\ coins' = [coins EXCEPT ![c] = held]
  /\ bill' = NoBill /\ UNCHANGED <<stage, ready, gameScore>>

\* PlayerReady does not look at the state of the table.
PlayerReady(c, b) ==
  /\ c \in Seated /\ coins[c] >= EnterMin
  /\ ready' = [ready EXCEPT ![c] = b]
  /\ bill' = NoBill /\ UNCHANGED <<stage, coins, gameScore>>

\* msg_flush_change_account_data: the lobby changed the account, whatever the table does.
FlushChangeAcc(c, value) ==
  /\ c \in Seated
  /\ value > 0 => TotalCoins + value <= MaxTotal
  /\ coins' = [coins EXCEPT ![c] = ChangeAccountValue(@, value)]
  /\ bill' = NoBill /\ UNCHANGED <<stage, ready, gameScore>>

-----------------------------------------------------------------------------
(* A round.                                                                *)

\* OnGameRoundStart: the chairs that still say they are ready pay the start fee.
DeductStartFee ==
  LET fee == StartFee(FeeType, BaseScore, FeeValue)
  IN  coins' = [c \in Chair |-> IF ready[c] THEN ChangeAccountValue(coins[c], -fee)
                                ELSE coins[c]]

\* CalcPlayerGameInfo for every chair, then OnGameRoundOver.
Settlement(want, bankers) ==
  LET real == DevideByWeight(want, coins, bankers)
  IN  /\ stage' = "over"
      /\ bill' = [want |-> want, held |-> coins, real |-> real]
      /\ coins' = [c \in Chair |->
                    ChangeAccountValue(coins[c], DeducEndFee(FeeType, FeeValue, real[c]))]
      /\ ready' = Nobody
      /\ gameScore' = Zero

\* OnGameRoundFlush: who cannot pay the entrance any more is stood up.
RoundFlush ==
  /\ stage = "over"
  /\ stage' = "idle"
  /\ coins' = [c \in Chair |-> IF coins[c] < EnterMin THEN Vacant ELSE coins[c]]
  /\ ready' = [c \in Chair |-> ready[c] /\ coins[c] >= EnterMin]
  /\ bill' = NoBill
  /\ UNCHANGED gameScore

Common ==
  \/ \E c \in Chair :
       \/ \E held \in 0..MaxCoins : EnterTable(c, held)
       \/ \E b \in BOOLEAN : PlayerReady(c, b)
       \/ \E value \in Changes : FlushChangeAcc(c, value)
  \/ RoundFlush

-----------------------------------------------------------------------------
(* The landlord table.                                                     *)

LandStart ==
  /\ stage = "idle" /\ \A c \in Chair : ready[c]
  /\ stage' = "bidding"
  /\ bill' = NoBill /\ UNCHANGED <<coins, ready, gameScore>>

\* A banker is found: only now does the round start for the books.
LandBanker ==
  /\ stage = "bidding"
  /\ stage' = "playing"
  /\ DeductStartFee
  /\ bill' = NoBill /\ UNCHANGED <<ready, gameScore>>

LandEnd(winner, banker, bombs, spring, bid) ==
  /\ stage = "playing"
  /\ Settlement(CalcScore(winner, banker, BaseScore * ScoreTimes(bombs, spring, bid)), {banker})

LandNext ==
  \/ Common \/ LandStart \/ LandBanker
  \/ \E winner, banker \in Chair, bombs \in 0..MaxBombs, spring \in BOOLEAN, bid \in 1..3 :
       LandEnd(winner, banker, bombs, spring, bid)

LandSpec == Init /\ [][LandNext]_vars

-----------------------------------------------------------------------------
(* The kuaipao table.                                                      *)

KuaipaoStart ==
  /\ stage = "idle" /\ \A c \in Chair : ready[c]
  /\ TotalCoins <= MaxTotal
  /\ stage' = "playing"
  /\ DeductStartFee
  /\ bill' = NoBill /\ UNCHANGED <<ready, gameScore>>

\* CheckBombCalc: the winner of a bomb is credited at once, once for each other chair; the
\* losers are only marked.
KuaipaoBomb(c) ==
  LET won == DeducEndFee(FeeType, FeeValue, BombScore(BaseScore))
  IN  /\ stage = "playing"
      /\ gameScore[c] < 2 * BombScore(BaseScore) * MaxBombs
      /\ TotalCoins + 2 * BombScore(BaseScore) <= MaxTotal
      /\ gameScore' = BombPays(gameScore, c, BaseScore)
      /\ coins' = [coins EXCEPT ![c] = ChangeAccountValue(ChangeAccountValue(@, won), won)]
      /\ bill' = NoBill /\ UNCHANGED <<stage, ready>>

\* OnGameEnd: no chair is marked as the banker, yet the division is told there is one.
KuaipaoEnd(winner, left) ==
  /\ stage = "playing"
  /\ Settlement(RoundScore(winner, left, PlayCardNum, BaseScore, gameScore), {})

KuaipaoNext ==
  \/ Common \/ KuaipaoStart
  \/ \E c \in Chair : KuaipaoBomb(c)
  \/ \E winner \in Chair, left \in [Chair -> 1..PlayCardNum] : KuaipaoEnd(winner, left)

KuaipaoSpec == Init /\ [][KuaipaoNext]_vars

-----------------------------------------------------------------------------
(* Properties.                                                             *)

TypeOK ==
  /\ stage \in {"idle", "bidding", "playing", "over"}
  /\ coins \in [Chair -> Nat \cup {Vacant}]
  /\ stage # "idle" => Seated = Chair
  /\ ready \in [Chair -> BOOLEAN]
  /\ gameScore \in [Chair -> Int]
  /\ bill \in [want : [Chair -> Int], held : [Chair -> Int], real : [Chair -> Int]]

\* Nobody is made to pay more than he holds when the round is settled, whatever fees and
\* changes came before: the comment of the division says a loser loses until he has nothing.
NobodyOverdrawn ==
  stage = "over" => \A c \in Chair : bill.held[c] + bill.real[c] >= 0

\* What one side of a settlement gets is what the other side gives.
SettlementBalances == stage = "over" => Sum3(bill.real) = 0

\* A settlement never takes more from a chair, nor gives it more, than the round asked.
OwedAtMost ==
  stage = "over" =>
    \A c \in Chair : IF bill.want[c] >= 0 THEN bill.real[c] \in 0..bill.want[c]
                     ELSE bill.real[c] \in bill.want[c]..0

\* Two farmers who win the same amount get the same, to a coin, when the banker cannot pay.
FarmersShareAlike ==
  stage = "over" =>
    \A a, b \in Chair : bill.want[a] = bill.want[b] /\ bill.want[a] > 0
                          => bill.real[a] - bill.real[b] \in -1..1

\* Playing makes no coins: only the lobby or a new player brings any to the table.
PlayMintsNoCoins ==
  [][stage # "idle" /\ stage' # stage => TotalCoins' <= TotalCoins]_vars

=============================================================================
