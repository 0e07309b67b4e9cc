------------------------------- MODULE Settle -------------------------------
(***************************************************************************)
(* How the coins of a table change hands: the division of CGameTable that  *)
(* fits what a round asks of the players to the coins they hold, and the   *)
(* fees of CGameCoinTable.  Amounts are functions of the chair; a round    *)
(* asks want[c] of chair c (to pay if negative), who holds cur[c].         *)
(***************************************************************************)
EXTENDS LandScore

PRO_DENO_10000 == 10000

Sum3(f) == f[0] + f[1] + f[2]
SumOf(S, f) == Sum3([c \in Chair |-> IF c \in S THEN f[c] ELSE 0])

\* Where the division looks for the banker: chair 0 when no chair is marked.
BankerPos(bankers) == IF bankers = {} THEN 0 ELSE CHOOSE b \in bankers : \A o \in bankers : o <= b

\* MUTANT: a loser pays all he owes.
PaidInFull(want, cur, c) == want[c]

\* What a loser pays: what he owes, or all he holds.
Paid(want, cur, c) == IF want[c] + cur[c] >= 0 THEN want[c] ELSE -cur[c]

\* The division of DevideByOrder: each winner in turn takes what is left of the pot.
SharesInOrder(want, winning, pot) ==
  [c \in Chair |->
    LET rest == pot - SumOf({w \in winning : w < c}, want)
    IN  IF rest > want[c] THEN want[c] ELSE IF rest < 0 THEN 0 ELSE rest]

\* MUTANT: each winner is handed the whole pot.
SharesWhole(want, winning, pot) == [c \in Chair |-> pot]

\* MUTANT: what the rounding leaves is nobody's.
SharesRounded(want, winning, pot) ==
  [c \in Chair |-> (want[c] * pot) \div SumOf(winning, want)]

\* The division of DevideByWeight: the pot in proportion to what the winners are due,
\* what the rounding leaves goes to the first of them.
SharesByWeight(want, winning, pot) ==
  LET share == [c \in Chair |-> (want[c] * pot) \div SumOf(winning, want)]
      first == CHOOSE w \in winning : \A o \in winning : w <= o
  IN  [share EXCEPT ![first] = @ + (pot - SumOf(winning, share))]

\* Can the banker pay the winners in full?
Enough(held, collected, asked) == held + collected > asked

Winners(want, bankers) == {c \in Chair : c \notin bankers /\ want[c] > 0}

\* What each loser brings to the pot, as a negative amount.
Losses(want, cur, bankers) ==
  [c \in Chair |-> IF c \notin bankers /\ want[c] < 0 THEN Paid(want, cur, c) ELSE 0]

\* DevideByWeight with isHaveBanker: the losers pay the banker, the banker pays the winners.
DevideByWeight(want, cur, bankers) ==
  LET pos       == BankerPos(bankers)
      winning   == Winners(want, bankers)
      paid      == Losses(want, cur, bankers)
      collected == -Sum3(paid)
      moved     == [c \in Chair |-> IF c \in winning THEN want[c] ELSE paid[c]]
      share     == SharesByWeight(want, winning, cur[pos] + collected)
  IN  IF Enough(cur[pos], collected, SumOf(winning, want))
      THEN [moved EXCEPT ![pos] = -(Sum3(moved) - @)]
      ELSE [c \in Chair |-> IF c \in winning THEN share[c]
                            ELSE IF c = pos THEN -cur[c] ELSE paid[c]]

\* ChangeAccountValue: an account never goes below zero.
ChangeAccountValue(cur, value) == IF cur + value < 0 THEN 0 ELSE cur + value

\* DeductStartFee, for one chair.
StartFee(feeType, base, feeValue) ==
  IF feeType = "ALLBASE" THEN (base * feeValue) \div PRO_DENO_10000 ELSE 0

\* MUTANT: the fee is paid out.
DeducEndFeeAdded(feeType, feeValue, winScore) ==
  IF feeType = "WIN" /\ winScore > 0
  THEN winScore + (winScore * feeValue) \div PRO_DENO_10000 ELSE winScore

\* DeducEndFee: what a chair is credited with once the fee is taken from a win.
DeducEndFee(feeType, feeValue, winScore) ==
  IF feeType = "WIN" /\ winScore > 0
  THEN winScore - (winScore * feeValue) \div PRO_DENO_10000 ELSE winScore
=============================================================================
