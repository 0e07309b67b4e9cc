------------------------------ MODULE LandScore ------------------------------
(***************************************************************************)
(* What a finished landlord round is worth: the arithmetic at the head of  *)
(* CGameLandTable::OnGameEnd, before DevideByWeight fits the amounts to    *)
(* the coins the players hold.                                             *)
(***************************************************************************)
EXTENDS Integers

Chair == 0..2                        \* GAME_LAND_PLAYER = 3
MaxBeiShu == 32                      \* m_maxBeiShu

\* 1 doubled `bombs` times; past the cap of MaxBeiShu the exact value is never seen.
BombTimes(bombs) == IF bombs >= 5 THEN MaxBeiShu ELSE <<1, 2, 4, 8, 16>>[bombs + 1]

ScoreTimes(bombs, spring, bid) ==
  LET times == BombTimes(bombs) * (IF spring THEN 2 ELSE 1) * bid
  IN  IF times > MaxBeiShu THEN MaxBeiShu ELSE times

\* MUTANT: the banker stakes no more than a farmer.
CalcScoreFlat(winner, banker, stake) ==
  [c \in Chair |-> IF (c = banker) = (winner = banker) THEN stake ELSE -stake]

\* The banker wins or loses two stakes, each farmer one.
CalcScore(winner, banker, stake) ==
  [c \in Chair |-> IF c = banker THEN IF winner = banker THEN 2 * stake ELSE -(2 * stake)
                   ELSE IF winner = banker THEN -stake ELSE stake]
=============================================================================
