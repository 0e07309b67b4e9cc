----------------------------- MODULE KuaipaoScore -----------------------------
(***************************************************************************)
(* What a round of "pao de kuai" asks of the chairs: the arithmetic of     *)
(* CGameKuaipaoTable::CheckBombCalc and OnGameEnd, before DevideByWeight   *)
(* fits the amounts to the coins the players hold.                         *)
(***************************************************************************)
EXTENDS Settle

\* CheckBombCalc: what a bomb nobody beat costs each other chair.
BombScore(base) == 10 * base

\* MUTANT: the bomb is charged to its owner too.
BombPaysAll(score, c, base) ==
  [o \in Chair |-> IF o = c THEN score[o] + BombScore(base) ELSE score[o] - BombScore(base)]

BombPays(score, c, base) ==
  [o \in Chair |-> IF o = c THEN score[o] + 2 * BombScore(base) ELSE score[o] - BombScore(base)]

\* A chair pays for each card it holds, double if it never played, nothing for one card.
\* (Init switches the doubling for the ten of hearts off, and nothing opens the drift score.)
CardScore(left, dealt, base) ==
  IF left > 1 THEN left * base * (IF left = dealt THEN 2 ELSE 1) ELSE 0

\* What each chair is to win or lose: the cards pay the winner, the bombs are added.
RoundScore(winner, left, dealt, base, bombs) ==
  LET pays == [c \in Chair |-> IF c = winner THEN 0 ELSE CardScore(left[c], dealt, base)]
  IN  [c \in Chair |-> (IF c = winner THEN Sum3(pays) ELSE -pays[c]) + bombs[c]]
=============================================================================
