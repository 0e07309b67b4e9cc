-------------------------- MODULE TableCoins_proofs --------------------------
(***************************************************************************)
(* What the coins at a landlord table do, for every base score, fee, purse *)
(* and change made by the lobby.                                           *)
(***************************************************************************)
EXTENDS TableCoins, Table_proofs

\* The inductive invariant: who is ready is seated, and the last settlement was fair.  A round
\* needs three ready chairs, so nobody is charged from an empty seat.
IInv ==
  /\ TypeOK
  /\ \A c \in Chair : ready[c] => coins[c] # Vacant
  /\ bill.held \in [Chair -> Nat]
  /\ Fair(bill.real, bill.want, bill.held)

\* An account that is changed stays an account.
LEMMA AccountType ==
  ASSUME NEW n \in Nat, NEW v \in Int PROVE ChangeAccountValue(n, v) \in Nat
BY DEF ChangeAccountValue

\* The end fee is a part of the win.
LEMMA EndFeeBound ==
  ASSUME NEW w \in Int
  PROVE  LET d == DeducEndFee(FeeType, FeeValue, w)
         IN  d \in Int /\ d <= w /\ (w >= 0 => d >= 0) /\ (w <= 0 => d = w)
<1> DEFINE fee == (w * FeeValue) \div PRO_DENO_10000
<1>1. FeeValue \in Nat /\ FeeValue <= 10000 BY CoinsAssumption DEF PRO_DENO_10000
<1>2. CASE FeeType = "WIN" /\ w > 0
  <2>1. w * FeeValue \in Nat /\ w * FeeValue <= w * 10000 BY <1>1, <1>2
  <2>2. fee \in Int /\ 10000 * fee <= w * FeeValue /\ w * FeeValue < 10000 * fee + 10000
    BY <2>1, Quotient DEF PRO_DENO_10000
  <2> HIDE DEF fee
  <2>3. fee >= 0 /\ fee <= w BY <1>2, <2>1, <2>2
  <2>4. DeducEndFee(FeeType, FeeValue, w) = w - fee BY <1>2 DEF DeducEndFee, fee
  <2>5. QED BY <1>2, <2>2, <2>3, <2>4
<1>3. CASE ~(FeeType = "WIN" /\ w > 0)
  BY <1>3 DEF DeducEndFee
<1>4. QED BY <1>2, <1>3

\* The start fee is no gift.
LEMMA StartFeeType == StartFee(FeeType, BaseScore, FeeValue) \in Nat
<1> DEFINE fee == (BaseScore * FeeValue) \div PRO_DENO_10000
<1>1. BaseScore \in Nat /\ FeeValue \in Nat BY CoinsAssumption DEF PRO_DENO_10000
<1>2. BaseScore * FeeValue \in Nat BY <1>1
<1>3. fee \in Int /\ BaseScore * FeeValue < 10000 * fee + 10000
  BY <1>2, Quotient DEF PRO_DENO_10000
<1> HIDE DEF fee
<1>4. fee \in Nat BY <1>2, <1>3
<1>5. QED BY <1>4 DEF StartFee, fee

\* An empty bill is a fair one.
LEMMA NoBillFair == Fair(NoBill.real, NoBill.want, NoBill.held) /\ NoBill.held \in [Chair -> Nat]
  /\ NoBill \in [want : [Chair -> Int], held : [Chair -> Int], real : [Chair -> Int]]
<1>1. Sum3(Zero) = 0 BY SumZero DEF Zero
<1>2. Zero \in [Chair -> Int] /\ Zero \in [Chair -> Nat] BY DEF Zero
<1>3. \A c \in Chair : Zero[c] = 0 BY DEF Zero
<1>4. NoBill.real = Zero /\ NoBill.want = Zero /\ NoBill.held = Zero BY DEF NoBill
<1>5. NoBill \in [want : [Chair -> Int], held : [Chair -> Int], real : [Chair -> Int]]
  BY <1>2 DEF NoBill
<1>6. Fair(Zero, Zero, Zero) BY <1>1, <1>2, <1>3 DEF Fair
<1>7. QED BY <1>2, <1>4, <1>5, <1>6

\* A table nobody has sat down at (the constructor of CGameCoinTable) satisfies the invariant.
THEOREM CoinsInit == Init => IInv
<1> SUFFICES ASSUME Init PROVE IInv OBVIOUS
<1>1. bill = NoBill /\ stage = "idle" BY DEF Init
<1>2. coins \in [Chair -> Nat \cup {Vacant}] /\ ready \in [Chair -> BOOLEAN]
      /\ gameScore \in [Chair -> Int]
  BY DEF Init, Nobody, Zero
<1>3. \A c \in Chair : ~ready[c] BY DEF Init, Nobody
<1>4. QED BY <1>1, <1>2, <1>3, NoBillFair DEF IInv, TypeOK

\* A round under way has three players, each with an account.
LEMMA PlayersHold ==
  ASSUME IInv, stage # "idle" PROVE coins \in [Chair -> Nat] /\ \A c \in Chair : coins[c] # Vacant
<1>1. \A c \in Chair : coins[c] # Vacant BY DEF IInv, TypeOK, Seated
<1>2. \A c \in Chair : coins[c] \in Nat BY <1>1 DEF IInv, TypeOK
<1>3. QED BY <1>1, <1>2 DEF IInv, TypeOK

\* The steps of the seats, all but the settlement in fact, leave no bill behind.
LEMMA NoBillStep ==
  ASSUME IInv, bill' = NoBill,
         stage' \in {"idle", "bidding", "playing", "over"},
         coins' \in [Chair -> Nat \cup {Vacant}],
         stage' # "idle" => \A c \in Chair : coins'[c] # Vacant,
         ready' \in [Chair -> BOOLEAN], gameScore' = gameScore,
         \A c \in Chair : ready'[c] => coins'[c] # Vacant
  PROVE  IInv'
<1>1. gameScore' \in [Chair -> Int] BY DEF IInv, TypeOK
<1>2. stage' # "idle" => Seated' = Chair BY DEF Seated
<1>3. TypeOK' BY <1>1, <1>2, NoBillFair DEF TypeOK
<1>4. QED BY <1>3, NoBillFair DEF IInv

\* Entering, PlayerReady, the changes of the lobby and OnGameRoundFlush keep it.
LEMMA CommonStep == ASSUME IInv, Common PROVE IInv'
<1>1. ASSUME NEW c \in Chair, NEW held \in 0..MaxCoins, EnterTable(c, held) PROVE IInv'
  <2>1. held \in Nat BY CoinsAssumption
  <2>2. coins' \in [Chair -> Nat \cup {Vacant}] BY <1>1, <2>1 DEF EnterTable, IInv, TypeOK
  <2>3. \A d \in Chair : ready'[d] => coins'[d] # Vacant
    BY <1>1, <2>1 DEF EnterTable, IInv, TypeOK, Vacant
  <2>4. stage' = "idle" BY <1>1 DEF EnterTable
  <2>5. QED BY <1>1, <2>2, <2>3, <2>4, NoBillStep DEF EnterTable, IInv, TypeOK
<1>2. ASSUME NEW c \in Chair, NEW b \in BOOLEAN, PlayerReady(c, b) PROVE IInv'
  <2>1. ready' \in [Chair -> BOOLEAN] BY <1>2 DEF PlayerReady, IInv, TypeOK
  <2>2. \A d \in Chair : ready'[d] => d = c \/ ready[d] BY <1>2 DEF PlayerReady, IInv, TypeOK
  <2>3. \A d \in Chair : ready'[d] => coins'[d] # Vacant
    BY <1>2, <2>2 DEF PlayerReady, Seated, IInv
  <2>4. stage # "idle" => \A d \in Chair : coins[d] # Vacant BY DEF IInv, TypeOK, Seated
  <2>5. QED BY <1>2, <2>1, <2>3, <2>4, NoBillStep DEF PlayerReady, IInv, TypeOK
<1>3. ASSUME NEW c \in Chair, NEW value \in Changes, FlushChangeAcc(c, value) PROVE IInv'
  <2>1. value \in Int BY CoinsAssumption
  <2>2. coins[c] \in Nat BY <1>3 DEF FlushChangeAcc, Seated, IInv, TypeOK
  <2>3. ChangeAccountValue(coins[c], value) \in Nat BY <2>1, <2>2, AccountType
  <2>4. coins' = [coins EXCEPT ![c] = ChangeAccountValue(coins[c], value)]
    BY <1>3 DEF FlushChangeAcc
  <2>5. coins' \in [Chair -> Nat \cup {Vacant}] BY <2>3, <2>4 DEF IInv, TypeOK
  <2>6. \A d \in Chair : coins[d] # Vacant => coins'[d] # Vacant
    BY <2>3, <2>4 DEF IInv, TypeOK, Vacant
  <2>7. stage # "idle" => \A d \in Chair : coins[d] # Vacant BY DEF IInv, TypeOK, Seated
  <2>8. stage' = stage /\ ready' = ready /\ gameScore' = gameScore /\ bill' = NoBill
    BY <1>3 DEF FlushChangeAcc
  <2>9. QED BY <2>5, <2>6, <2>7, <2>8, NoBillStep DEF IInv, TypeOK
<1>4. ASSUME RoundFlush PROVE IInv'
  <2>1. coins \in [Chair -> Nat] BY <1>4, PlayersHold DEF RoundFlush
  <2>2. coins' \in [Chair -> Nat \cup {Vacant}] BY <1>4, <2>1 DEF RoundFlush
  <2>3. ready' \in [Chair -> BOOLEAN] BY <1>4 DEF RoundFlush, IInv, TypeOK
  <2>4. ASSUME NEW d \in Chair, ready'[d] PROVE coins'[d] # Vacant
    <3>1. coins[d] >= EnterMin BY <1>4, <2>4 DEF RoundFlush
    <3>2. coins[d] \in Nat /\ EnterMin \in Nat BY <2>1, CoinsAssumption
    <3>3. coins'[d] = coins[d] BY <1>4, <3>1, <3>2 DEF RoundFlush
    <3>4. QED BY <3>2, <3>3 DEF Vacant
  <2>5. QED BY <1>4, <2>2, <2>3, <2>4, NoBillStep DEF RoundFlush
<1>5. QED BY <1>1, <1>2, <1>3, <1>4 DEF Common

\* Three ready chairs are three seated players.
LEMMA LandStartStep == ASSUME IInv, LandStart PROVE IInv'
<1>1. \A d \in Chair : coins[d] # Vacant BY DEF LandStart, IInv
<1>2. QED BY <1>1, NoBillStep DEF LandStart, IInv, TypeOK

\* The start fee leaves everybody an account.
LEMMA StartFeeStep ==
  ASSUME IInv, stage # "idle", DeductStartFee
  PROVE  /\ coins' \in [Chair -> Nat]
         /\ \A c \in Chair : coins'[c] <= coins[c]
<1> DEFINE fee == StartFee(FeeType, BaseScore, FeeValue)
<1>1. fee \in Nat BY StartFeeType
<1> HIDE DEF fee
<1>2. coins \in [Chair -> Nat] BY PlayersHold
<1>3. ASSUME NEW c \in Chair
      PROVE  /\ ChangeAccountValue(coins[c], -fee) \in Nat
             /\ ChangeAccountValue(coins[c], -fee) <= coins[c]
  <2>1. coins[c] \in Nat BY <1>2
  <2>2. QED BY <1>1, <2>1 DEF ChangeAccountValue
<1>4. coins' = [c \in Chair |-> IF ready[c] THEN ChangeAccountValue(coins[c], -fee) ELSE coins[c]]
  BY DEF DeductStartFee, fee
<1>5. \A c \in Chair : coins[c] \in Nat /\ coins[c] <= coins[c] BY <1>2
<1>6. QED BY <1>3, <1>4, <1>5

\* Naming the banker charges the start fee and nothing else.
LEMMA LandBankerStep == ASSUME IInv, LandBanker PROVE IInv'
<1>1. coins' \in [Chair -> Nat] BY StartFeeStep DEF LandBanker
<1>2. \A c \in Chair : coins'[c] \in Nat BY <1>1
<1>3. \A c \in Chair : coins'[c] # Vacant BY <1>2 DEF Vacant
<1>4. QED BY <1>1, <1>3, NoBillStep DEF LandBanker, IInv, TypeOK

\* A settlement: fair for what was asked and held, and nobody gets more than it gives him.
LEMMA LandEndStep ==
  ASSUME IInv, NEW winner \in Chair, NEW banker \in Chair, NEW bombs \in 0..MaxBombs,
         NEW spring \in BOOLEAN, NEW bid \in 1..3, LandEnd(winner, banker, bombs, spring, bid)
  PROVE  /\ IInv'
         /\ coins \in [Chair -> Nat] /\ coins' \in [Chair -> Nat]
         /\ Sum3(bill'.real) = 0 /\ bill'.real \in [Chair -> Int]
         /\ \A c \in Chair : coins'[c] <= coins[c] + bill'.real[c]
<1> DEFINE stake == BaseScore * ScoreTimes(bombs, spring, bid)
           want  == CalcScore(winner, banker, stake)
           real  == DevideByWeight(want, coins, {banker})
<1>1. bombs \in Nat BY CoinsAssumption
<1>2. ScoreTimes(bombs, spring, bid) \in Nat BY <1>1, ScoreTimesBound DEF MaxBeiShu
<1>3. stake \in Nat BY <1>2, CoinsAssumption
<1> HIDE DEF stake
<1>4. want \in [Chair -> Int] BY <1>3 DEF CalcScore
<1>5. coins \in [Chair -> Nat] BY PlayersHold DEF LandEnd
<1>6. Fair(real, want, coins) BY <1>3, <1>5, LandDevideFair
<1>7. /\ stage' = "over" /\ ready' = Nobody /\ gameScore' = Zero
      /\ bill' = [want |-> want, held |-> coins, real |-> real]
      /\ coins' = [c \in Chair |->
                    ChangeAccountValue(coins[c], DeducEndFee(FeeType, FeeValue, real[c]))]
  BY DEF LandEnd, Settlement, stake
<1> HIDE DEF want, real
<1>8. /\ real \in [Chair -> Int] /\ Sum3(real) = 0
      /\ \A c \in Chair : coins[c] + real[c] >= 0
  BY <1>6 DEF Fair
<1>9. ASSUME NEW c \in Chair
      PROVE  coins'[c] \in Nat /\ coins'[c] <= coins[c] + real[c]
  <2> DEFINE d == DeducEndFee(FeeType, FeeValue, real[c])
  <2>1. real[c] \in Int /\ coins[c] \in Nat /\ coins[c] + real[c] >= 0 BY <1>5, <1>8
  <2>2. d \in Int /\ d <= real[c] /\ (real[c] >= 0 => d >= 0) /\ (real[c] <= 0 => d = real[c])
    BY <2>1, EndFeeBound
  <2>3. coins'[c] = ChangeAccountValue(coins[c], d) BY <1>7
  <2> HIDE DEF d
  <2>4. coins[c] + d >= 0 BY <2>1, <2>2
  <2>5. coins'[c] = coins[c] + d BY <2>1, <2>2, <2>3, <2>4 DEF ChangeAccountValue
  <2>6. QED BY <2>1, <2>2, <2>4, <2>5
<1>10. coins' \in [Chair -> Nat] BY <1>7, <1>9
<1>11. \A c \in Chair : coins'[c] # Vacant
  <2>1. \A c \in Chair : coins'[c] \in Nat BY <1>10
  <2>2. QED BY <2>1 DEF Vacant
<1>12. bill' \in [want : [Chair -> Int], held : [Chair -> Int], real : [Chair -> Int]]
  <2>1. coins \in [Chair -> Int] BY <1>5
  <2>2. QED BY <1>4, <1>7, <1>8, <2>1
<1>13. TypeOK'
  <2>1. ready' \in [Chair -> BOOLEAN] /\ gameScore' \in [Chair -> Int]
    BY <1>7 DEF Nobody, Zero
  <2>2. coins' \in [Chair -> Nat \cup {Vacant}] BY <1>10
  <2>3. Seated' = Chair BY <1>11 DEF Seated
  <2>4. QED BY <1>7, <1>12, <2>1, <2>2, <2>3 DEF TypeOK
<1>14. bill'.held = coins /\ bill'.real = real /\ bill'.want = want BY <1>7
<1>15. IInv' BY <1>5, <1>6, <1>11, <1>13, <1>14 DEF IInv
<1>16. QED BY <1>5, <1>8, <1>9, <1>10, <1>14, <1>15

\* Every step of the landlord table keeps the invariant: each settlement of OnGameEnd is fair.
THEOREM CoinsStep == IInv /\ [LandNext]_vars => IInv'
<1> SUFFICES ASSUME IInv, [LandNext]_vars PROVE IInv' OBVIOUS
<1>1. CASE Common BY <1>1, CommonStep
<1>2. CASE LandStart BY <1>2, LandStartStep
<1>3. CASE LandBanker BY <1>3, LandBankerStep
<1>4. CASE \E winner, banker \in Chair, bombs \in 0..MaxBombs, spring \in BOOLEAN, bid \in 1..3 :
             LandEnd(winner, banker, bombs, spring, bid)
  BY <1>4, LandEndStep
<1>5. CASE UNCHANGED vars
  BY <1>5 DEF vars, IInv, TypeOK, Seated
<1>6. QED BY <1>1, <1>2, <1>3, <1>4, <1>5 DEF LandNext

\* The inductive invariant holds in every state of every landlord table.
THEOREM CoinsInvariant == LandSpec => []IInv
BY CoinsInit, CoinsStep, PTL DEF LandSpec

\* At a landlord table the settlement keeps what it promises, whatever
\* the lobby, the fees and the earlier rounds did to the purses.
LEMMA InvSettles ==
  IInv => TypeOK /\ NobodyOverdrawn /\ SettlementBalances /\ OwedAtMost /\ FarmersShareAlike
BY DEF IInv, Fair, NobodyOverdrawn, SettlementBalances, OwedAtMost, FarmersShareAlike

\* The types: accounts never go below zero, and a round that was started keeps its players.
THEOREM CoinsTypeCorrect == LandSpec => []TypeOK
BY CoinsInvariant, InvSettles, PTL

\* NobodyOverdrawn: no loser is made to pay more than he holds.
THEOREM LosersPayWhatTheyHold == LandSpec => []NobodyOverdrawn
BY CoinsInvariant, InvSettles, PTL

\* SettlementBalances: what one side gets is what the other gives.
THEOREM SettlementsBalance == LandSpec => []SettlementBalances
BY CoinsInvariant, InvSettles, PTL

\* OwedAtMost: the round's score bounds what it costs and what it brings.
THEOREM NobodyPaysExtra == LandSpec => []OwedAtMost
BY CoinsInvariant, InvSettles, PTL

\* FarmersShareAlike: an insolvent banker's coins are shared evenly.
THEOREM FarmersShare == LandSpec => []FarmersShareAlike
BY CoinsInvariant, InvSettles, PTL

-----------------------------------------------------------------------------
(* Coins are not made at the table.                                        *)

\* What a chair's seat holds, nothing if nobody sits there.
AccountOf(f) == [c \in Chair |-> IF f[c] # Vacant THEN f[c] ELSE 0]

\* The coins at the table, empty seats counting for nothing.
LEMMA TotalHeld ==
  /\ TotalCoins = Sum3(AccountOf(coins))
  /\ TotalCoins' = Sum3(AccountOf(coins'))
<1>1. [c \in Chair |-> IF c \in Seated THEN coins[c] ELSE 0] = AccountOf(coins)
  BY DEF AccountOf, Seated
<1>2. [c \in Chair |-> IF c \in Seated' THEN coins'[c] ELSE 0] = AccountOf(coins')
  BY DEF AccountOf, Seated
<1>3. QED BY <1>1, <1>2 DEF TotalCoins, SumOf

\* Less in each chair is less together.
LEMMA SumMonotone ==
  ASSUME NEW f \in [Chair -> Int], NEW g \in [Chair -> Int], \A c \in Chair : f[c] <= g[c]
  PROVE  Sum3(f) <= Sum3(g)
<1>1. \A c \in Chair : f[c] \in Int /\ g[c] \in Int OBVIOUS
<1>2. QED BY <1>1 DEF Sum3, Chair

\* Accounts that only shrink hold less together.
LEMMA TotalShrinks ==
  ASSUME coins \in [Chair -> Nat], coins' \in [Chair -> Nat \cup {Vacant}],
         \A c \in Chair : coins'[c] = Vacant \/ coins'[c] <= coins[c]
  PROVE  TotalCoins' <= TotalCoins
<1>1. ASSUME NEW c \in Chair
      PROVE  /\ AccountOf(coins)[c] \in Int /\ AccountOf(coins')[c] \in Int
             /\ AccountOf(coins')[c] <= AccountOf(coins)[c]
  <2>1. coins[c] \in Nat /\ coins'[c] \in Nat \cup {Vacant}
        /\ (coins'[c] = Vacant \/ coins'[c] <= coins[c])
    OBVIOUS
  <2>2. AccountOf(coins)[c] = coins[c] BY <2>1 DEF AccountOf, Vacant
  <2>3. AccountOf(coins')[c] = IF coins'[c] # Vacant THEN coins'[c] ELSE 0 BY DEF AccountOf
  <2>4. QED BY <2>1, <2>2, <2>3 DEF Vacant
<1>2. AccountOf(coins) \in [Chair -> Int] /\ AccountOf(coins') \in [Chair -> Int] BY <1>1 DEF AccountOf
<1>3. QED BY <1>1, <1>2, SumMonotone, TotalHeld

\* A balanced settlement, less fees, leaves no more than there was.
LEMMA EndTotal ==
  ASSUME NEW real \in [Chair -> Int], Sum3(real) = 0,
         coins \in [Chair -> Nat], coins' \in [Chair -> Nat],
         \A c \in Chair : coins'[c] <= coins[c] + real[c]
  PROVE  TotalCoins' <= TotalCoins
<1> DEFINE after == [c \in Chair |-> coins[c] + real[c]]
<1>1. \A c \in Chair : coins[c] \in Nat /\ coins'[c] \in Nat /\ real[c] \in Int OBVIOUS
<1>2. AccountOf(coins) = coins /\ AccountOf(coins') = coins'
  <2>1. \A c \in Chair : coins[c] # Vacant /\ coins'[c] # Vacant BY <1>1 DEF Vacant
  <2>2. QED BY <2>1 DEF AccountOf
<1>3. coins' \in [Chair -> Int] /\ after \in [Chair -> Int] BY <1>1
<1>4. \A c \in Chair : coins'[c] <= after[c] OBVIOUS
<1>5. Sum3(after) = Sum3(coins)
  <2>1. Sum3(after) = Sum3(coins) + Sum3(real) BY <1>1 DEF Sum3, Chair
  <2>2. Sum3(coins) \in Int BY <1>1 DEF Sum3, Chair
  <2>3. QED BY <2>1, <2>2
<1> HIDE DEF after
<1>6. Sum3(coins') <= Sum3(after) BY <1>3, <1>4, SumMonotone
<1>7. QED BY <1>2, <1>5, <1>6, TotalHeld

\* PlayMintsNoCoins: from the first card of a round to the moment the table is free again,
\* fees, settlement and standing up only take coins from the table.
THEOREM PlayMakesNoCoins == LandSpec => PlayMintsNoCoins
<1> DEFINE Mints == stage # "idle" /\ stage' # stage => TotalCoins' <= TotalCoins
<1>1. ASSUME IInv, [LandNext]_vars PROVE [Mints]_vars
  <2>1. ASSUME NEW c \in Chair, NEW held \in 0..MaxCoins, EnterTable(c, held) PROVE Mints
    BY <2>1 DEF EnterTable
  <2>2. ASSUME NEW c \in Chair, NEW b \in BOOLEAN, PlayerReady(c, b) PROVE Mints
    BY <2>2 DEF PlayerReady
  <2>3. ASSUME NEW c \in Chair, NEW value \in Changes, FlushChangeAcc(c, value) PROVE Mints
    BY <2>3 DEF FlushChangeAcc
  <2>4. ASSUME RoundFlush PROVE Mints
    <3>1. coins \in [Chair -> Nat] BY <1>1, <2>4, PlayersHold DEF RoundFlush
    <3>2. coins' \in [Chair -> Nat \cup {Vacant}] BY <2>4, <3>1 DEF RoundFlush
    <3>3. \A c \in Chair : coins[c] \in Nat /\ coins[c] <= coins[c] BY <3>1
    <3>4. \A c \in Chair : coins'[c] = Vacant \/ coins'[c] <= coins[c]
      BY <2>4, <3>3 DEF RoundFlush
    <3>5. QED BY <3>1, <3>2, <3>4, TotalShrinks
  <2>5. ASSUME LandStart PROVE Mints BY <2>5 DEF LandStart
  <2>6. ASSUME LandBanker PROVE Mints
    <3>1. stage # "idle" /\ DeductStartFee BY <2>6 DEF LandBanker
    <3>2. coins \in [Chair -> Nat] BY <1>1, <3>1, PlayersHold
    <3>3. coins' \in [Chair -> Nat] /\ \A c \in Chair : coins'[c] <= coins[c]
      BY <1>1, <3>1, StartFeeStep
    <3>4. coins' \in [Chair -> Nat \cup {Vacant}] BY <3>3
    <3>5. QED BY <3>2, <3>3, <3>4, TotalShrinks
  <2>7. ASSUME NEW winner \in Chair, NEW banker \in Chair, NEW bombs \in 0..MaxBombs,
               NEW spring \in BOOLEAN, NEW bid \in 1..3,
               LandEnd(winner, banker, bombs, spring, bid)
        PROVE  Mints
    <3>1. PICK real : /\ real \in [Chair -> Int] /\ Sum3(real) = 0
                      /\ coins \in [Chair -> Nat] /\ coins' \in [Chair -> Nat]
                      /\ \A c \in Chair : coins'[c] <= coins[c] + real[c]
      BY <1>1, <2>7, LandEndStep
    <3>2. QED BY <3>1, EndTotal
  <2> HIDE DEF Mints
  <2>8. QED BY <1>1, <2>1, <2>2, <2>3, <2>4, <2>5, <2>6, <2>7 DEF LandNext, Common
<1>2. QED BY <1>1, CoinsInvariant, PTL DEF LandSpec, PlayMintsNoCoins
=============================================================================
