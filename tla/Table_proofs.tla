------------------------------ MODULE Table_proofs ------------------------------
(***************************************************************************)
(* What the tables of both games rest on.  The money of a round, for every *)
(* stake and every purse: what a finished round asks of the chairs, and    *)
(* what the division makes of it.  The cards of a hand: how many there     *)
(* are, which of them are attached to others, what a line is made of.      *)
(***************************************************************************)
EXTENDS Settle, Poker, FiniteSetTheorems, WellFoundedInduction, TLAPS


\* However many bombs fell, a bid is multiplied by something between 1 and 32.
LEMMA ScoreTimesBound ==
  ASSUME NEW bombs \in Nat, NEW spring \in BOOLEAN, NEW bid \in 1..3
  PROVE  ScoreTimes(bombs, spring, bid) \in 1..MaxBeiShu
<1>1. BombTimes(bombs) \in 1..MaxBeiShu
  <2>1. CASE bombs >= 5 BY <2>1 DEF BombTimes, MaxBeiShu
  <2>2. CASE bombs = 0 BY <2>2 DEF BombTimes, MaxBeiShu
  <2>3. CASE bombs = 1 BY <2>3 DEF BombTimes, MaxBeiShu
  <2>4. CASE bombs = 2 BY <2>4 DEF BombTimes, MaxBeiShu
  <2>5. CASE bombs = 3 BY <2>5 DEF BombTimes, MaxBeiShu
  <2>6. CASE bombs = 4 BY <2>6 DEF BombTimes, MaxBeiShu
  <2>7. QED BY <2>1, <2>2, <2>3, <2>4, <2>5, <2>6
<1>2. CASE bid = 1 BY <1>1, <1>2 DEF ScoreTimes, MaxBeiShu
<1>3. CASE bid = 2 BY <1>1, <1>3 DEF ScoreTimes, MaxBeiShu
<1>4. CASE bid = 3 BY <1>1, <1>4 DEF ScoreTimes, MaxBeiShu
<1>5. QED BY <1>2, <1>3, <1>4

\* The two sides' scores cancel out and are bounded by two stakes.
Balanced(s, winner, banker, stake) ==
  /\ s \in [Chair -> Int]
  /\ s[0] + s[1] + s[2] = 0
  /\ \A c \in Chair :
       /\ s[c] \in -(2 * stake)..(2 * stake)
       /\ stake > 0 => (s[c] > 0 <=> (c = banker) = (winner = banker))

\* What OnGameEnd asks of the three chairs sums to nothing, and the winner's side wins.
LEMMA CalcScoreBalanced ==
  ASSUME NEW winner \in Chair, NEW banker \in Chair, NEW stake \in Nat
  PROVE  Balanced(CalcScore(winner, banker, stake), winner, banker, stake)
BY DEF CalcScore, Chair, Balanced
-----------------------------------------------------------------------------
(* The division.                                                           *)

\* What an integer division loses is less than the divisor.
LEMMA Quotient ==
  ASSUME NEW a \in Int, NEW d \in Nat \ {0}
  PROVE  /\ a \div d \in Int
         /\ d * (a \div d) <= a /\ a < d * (a \div d) + d
OBVIOUS

\* Half a pot, computed as the division computes a share of one of two equal debts.
LEMMA HalfShare ==
  ASSUME NEW s \in Nat \ {0}, NEW pot \in Nat
  PROVE  LET q == (s * pot) \div (2 * s)
         IN  q \in Nat /\ 2 * q <= pot /\ pot <= 2 * q + 1
<1> DEFINE q == (s * pot) \div (2 * s)
<1>1. /\ q \in Int
      /\ (2 * s) * q <= s * pot /\ s * pot < (2 * s) * q + 2 * s
  BY Quotient
<1> HIDE DEF q
<1>2. s * (2 * q) <= s * pot /\ s * pot < s * (2 * q + 2)
  BY <1>1
<1>3. 2 * q <= pot
  <2> SUFFICES ASSUME pot + 1 <= 2 * q PROVE FALSE BY <1>1
  <2>1. s * (pot + 1) <= s * (2 * q) BY <1>1
  <2>2. s * (pot + 1) = s * pot + s OBVIOUS
  <2>3. QED BY <1>1, <1>2, <2>1, <2>2
<1>4. pot < 2 * q + 2
  <2> SUFFICES ASSUME 2 * q + 2 <= pot PROVE FALSE BY <1>1
  <2>1. s * (2 * q + 2) <= s * pot BY <1>1
  <2>2. QED BY <1>1, <1>2, <2>1
<1>5. q \in Nat
  BY <1>1, <1>4
<1>6. QED BY <1>3, <1>4, <1>5 DEF q

\* What a settlement owes everybody: no coin appears or is lost, nobody pays what he does not
\* hold, nobody pays or gets more than the round asked, equal wins get equal shares.
Fair(real, want, cur) ==
  /\ real \in [Chair -> Int]
  /\ Sum3(real) = 0
  /\ \A c \in Chair : cur[c] + real[c] >= 0
  /\ \A c \in Chair : IF want[c] >= 0 THEN real[c] \in 0..want[c] ELSE real[c] \in want[c]..0
  /\ \A a, b \in Chair : want[a] = want[b] /\ want[a] > 0 => real[a] - real[b] \in -1..1


\* Sums over the chairs.
LEMMA SumInt ==
  ASSUME NEW f \in [Chair -> Int] PROVE Sum3(f) \in Int
BY DEF Sum3, Chair

\* Nothing three times is nothing.
LEMMA SumZero ==
  ASSUME NEW f, \A c \in Chair : f[c] = 0 PROVE Sum3(f) = 0
BY DEF Sum3, Chair

\* Facts about zero the provers need spelt out.
LEMMA Negation ==
  ASSUME NEW x \in Int PROVE -x = 0 - x
OBVIOUS

\* Minus nothing is nothing.
LEMMA NegZero ==
  ASSUME NEW x \in Int, x = 0 PROVE -x = 0
<1>1. -x = 0 - x BY Negation
<1>2. 0 - x = 0 OBVIOUS
<1>3. QED BY Zenon, <1>1, <1>2

\* Naturals are integers.
LEMMA NatIsInt == \A n \in Nat : n \in Int
OBVIOUS

\* Nothing is within a coin of nothing.
LEMMA NoGap == 0 - 0 = 0 /\ 0 \in -1..1
OBVIOUS

\* The banker won: each farmer pays what he can, the banker takes it.
LEMMA BankerWins ==
  ASSUME NEW b \in Chair, NEW s \in Nat, NEW cur \in [Chair -> Nat],
         NEW want \in [Chair -> Int],
         \A c \in Chair : want[c] = IF c = b THEN 2 * s ELSE -s
  PROVE  Fair(DevideByWeight(want, cur, {b}), want, cur)
<1> DEFINE paid == Losses(want, cur, {b})
           real == DevideByWeight(want, cur, {b})
<1>2. Winners(want, {b}) = {}
  <2>1. ASSUME NEW c \in Chair, c # b PROVE ~(want[c] > 0)
    <3>1. want[c] = -s BY <2>1
    <3>2. QED BY <3>1
  <2>2. QED BY <2>1 DEF Winners
<1>3. ASSUME NEW c \in Chair
      PROVE  paid[c] = IF c = b THEN 0 ELSE IF cur[c] >= s THEN -s ELSE -cur[c]
  <2>1. CASE c = b BY <2>1 DEF Losses
  <2>2. CASE c # b
    <3>1. want[c] = -s BY <2>2
    <3>2. cur[c] \in Nat OBVIOUS
    <3>3. Paid(want, cur, c) = IF -s + cur[c] >= 0 THEN -s ELSE -cur[c] BY <3>1 DEF Paid
    <3>4. paid[c] = IF -s < 0 THEN Paid(want, cur, c) ELSE 0 BY <2>2, <3>1 DEF Losses
    <3>5. QED BY <2>2, <3>2, <3>3, <3>4
  <2>3. QED BY <2>1, <2>2
<1> HIDE DEF paid, real
<1>3a. ASSUME NEW c \in Chair
       PROVE  paid[c] \in Int /\ -s <= paid[c] /\ paid[c] <= 0
  <2>1. paid[c] = IF c = b THEN 0 ELSE IF cur[c] >= s THEN -s ELSE -cur[c] BY <1>3
  <2>2. cur[c] \in Nat OBVIOUS
  <2>3. QED BY <2>1, <2>2
<1>4. paid \in [Chair -> Int]
  <2>1. \A c \in Chair : paid[c] \in Int BY <1>3a
  <2>2. QED BY <2>1 DEF paid, Losses
<1>5. Sum3(paid) \in Int BY <1>4, SumInt
<1>6. real = IF cur[b] + -Sum3(paid) > 0
             THEN [paid EXCEPT ![b] = -(Sum3(paid) - @)]
             ELSE [c \in Chair |-> IF c = b THEN -cur[c] ELSE paid[c]]
  <2>1. [c \in Chair |-> IF c \in Winners(want, {b}) THEN want[c] ELSE paid[c]] = paid
    BY <1>2, <1>4
  <2>2. SumOf(Winners(want, {b}), want) = 0
    <3>1. \A c \in Chair : c \notin Winners(want, {b}) BY <1>2
    <3>2. QED BY <3>1, SumZero DEF SumOf
  <2>3. BankerPos({b}) = b BY DEF BankerPos, Chair
  <2>4. QED BY <1>2, <2>1, <2>2, <2>3 DEF DevideByWeight, Enough, real, paid
<1>7. /\ real \in [Chair -> Int]
      /\ \A c \in Chair : real[c] = IF c = b THEN -Sum3(paid) ELSE paid[c]
  <2>1. CASE cur[b] + -Sum3(paid) > 0
    <3>1. paid[b] = 0 BY <1>3
    <3>2. QED BY <1>4, <1>5, <1>6, <2>1, <3>1
  <2>2. CASE ~(cur[b] + -Sum3(paid) > 0)
    <3>1. \A c \in Chair : paid[c] \in Int /\ paid[c] <= 0 BY <1>3a
    <3>2. cur[b] = 0 /\ Sum3(paid) = 0
      <4>1. Sum3(paid) <= 0 BY <3>1 DEF Sum3, Chair
      <4>2. QED BY <1>5, <2>2, <4>1
    <3>3. real = [c \in Chair |-> IF c = b THEN -cur[c] ELSE paid[c]] BY <1>6, <2>2
    <3>4. QED BY <1>4, <3>2, <3>3
  <2>3. QED BY <2>1, <2>2
<1>8. Sum3(real) = 0
  <2>1. paid[b] = 0 BY <1>3
  <2>2. QED BY <1>4, <1>7, <2>1 DEF Sum3, Chair
<1>9. -Sum3(paid) \in 0..(2 * s)
  <2>1. \A c \in Chair : paid[c] \in Int /\ -s <= paid[c] /\ paid[c] <= 0 BY <1>3a
  <2>2. paid[b] = 0 BY <1>3
  <2>3. QED BY <2>1, <2>2 DEF Sum3, Chair
<1>10. ASSUME NEW c \in Chair
       PROVE  /\ cur[c] + real[c] >= 0
              /\ IF want[c] >= 0 THEN real[c] \in 0..want[c] ELSE real[c] \in want[c]..0
  <2>1. cur[c] \in Nat OBVIOUS
  <2>2. CASE c = b
    <3>1. want[c] = 2 * s /\ real[c] = -Sum3(paid) BY <1>7, <2>2
    <3>2. QED BY <1>9, <2>1, <3>1
  <2>3. CASE c # b
    <3>1. want[c] = -s /\ real[c] = IF cur[c] >= s THEN -s ELSE -cur[c] BY <1>3, <1>7, <2>3
    <3>2. QED BY <2>1, <3>1
  <2>4. QED BY <2>2, <2>3
<1>11. ASSUME NEW x \in Chair, NEW y \in Chair, want[x] = want[y], want[x] > 0
       PROVE  real[x] - real[y] \in -1..1
  <2>1. \A c \in Chair : want[c] > 0 => c = b
    <3>1. \A c \in Chair : c # b => want[c] = -s OBVIOUS
    <3>2. -s <= 0 OBVIOUS
    <3>3. QED BY <3>1, <3>2
  <2>2. x = b /\ y = b BY <1>11, <2>1
  <2>3. real[b] \in Int BY <1>7
  <2>4. QED BY <2>2, <2>3
<1>12. QED BY <1>7, <1>8, <1>10, <1>11 DEF Fair, real

\* The farmers won: they are paid in full, or share all the banker holds half and half, the
\* odd coin going to the first of them.
LEMMA FarmersWin ==
  ASSUME NEW b \in Chair, NEW s \in Nat, NEW cur \in [Chair -> Nat],
         NEW want \in [Chair -> Int],
         \A c \in Chair : want[c] = IF c = b THEN -(2 * s) ELSE s
  PROVE  Fair(DevideByWeight(want, cur, {b}), want, cur)
<1> DEFINE W == Winners(want, {b})
           paid == Losses(want, cur, {b})
           moved == [c \in Chair |-> IF c \in W THEN want[c] ELSE paid[c]]
           share == SharesByWeight(want, W, cur[b])
           real == DevideByWeight(want, cur, {b})
<1>1. /\ want[b] = -(2 * s) /\ cur[b] \in Nat
      /\ \A c \in Chair : c # b => want[c] = s
  OBVIOUS
<1>2. \A c \in Chair : c \in W <=> c # b /\ s > 0
  BY <1>1 DEF Winners
<1>3. \A c \in Chair : paid[c] = 0
  <2>1. ASSUME NEW c \in Chair PROVE ~(c \notin {b} /\ want[c] < 0)
    <3>1. CASE c = b BY <3>1
    <3>2. CASE c # b
      <4>1. want[c] = s BY <1>1, <3>2
      <4>2. QED BY <4>1
    <3>3. QED BY <3>1, <3>2
  <2>2. QED BY <2>1 DEF Losses
<1> HIDE DEF paid
<1>4. Sum3(paid) = 0 BY <1>3, SumZero
<1>5. SumOf(W, want) = 2 * s
  <2> DEFINE f == [c \in Chair |-> IF c \in W THEN want[c] ELSE 0]
  <2>1. ASSUME NEW c \in Chair PROVE f[c] = IF c = b THEN 0 ELSE s
    <3>1. CASE c = b BY <1>2, <3>1
    <3>2. CASE c # b /\ s > 0 BY <1>1, <1>2, <3>2
    <3>3. CASE c # b /\ s = 0 BY <1>1, <1>2, <3>3
    <3>4. QED BY <3>1, <3>2, <3>3
  <2> HIDE DEF f
  <2>2. Sum3(f) = 2 * s BY <2>1 DEF Sum3, Chair
  <2>3. QED BY <2>2 DEF SumOf, f
<1>6. BankerPos({b}) = b BY DEF BankerPos, Chair
<1>7. real = IF cur[b] > 2 * s
             THEN [moved EXCEPT ![b] = -(Sum3(moved) - @)]
             ELSE [c \in Chair |-> IF c \in W THEN share[c] ELSE IF c = b THEN -cur[c] ELSE paid[c]]
  <2>1. -Sum3(paid) = 0
    <3>1. Sum3(paid) \in Int BY <1>4
    <3>2. QED BY Zenon, <1>4, <3>1, NegZero
  <2>2. cur[b] + 0 = cur[b] BY <1>1
  <2>3. QED BY <1>5, <1>6, <2>1, <2>2 DEF DevideByWeight, Enough, paid
<1> HIDE DEF real, W, share
<1>8. ASSUME NEW c \in Chair PROVE moved[c] = IF c = b THEN 0 ELSE s
  <2>1. CASE c = b BY <1>2, <1>3, <2>1
  <2>2. CASE c # b /\ s > 0 BY <1>1, <1>2, <2>2
  <2>3. CASE c # b /\ s = 0 BY <1>1, <1>2, <1>3, <2>3
  <2>4. QED BY <2>1, <2>2, <2>3
<1> HIDE DEF moved
<1>9. CASE cur[b] > 2 * s
  <2>1. moved[b] = 0 /\ Sum3(moved) = 2 * s
    <3>1. \A c \in Chair : moved[c] = IF c = b THEN 0 ELSE s BY <1>8
    <3>2. moved[b] = 0 BY <3>1
    <3>3. Sum3(moved) = 2 * s BY <3>1 DEF Sum3, Chair
    <3>4. QED BY <3>2, <3>3
  <2>2. real = [moved EXCEPT ![b] = -(2 * s)]
    <3>1. -(2 * s - 0) = -(2 * s) OBVIOUS
    <3>2. QED BY <1>7, <1>9, <2>1, <3>1
  <2>3. \A c \in Chair : real[c] = want[c]
    <3>1. real[b] = -(2 * s) BY <2>2 DEF moved
    <3>2. \A c \in Chair : c # b => real[c] = s BY <1>8, <2>2 DEF moved
    <3>3. QED BY <1>1, <3>1, <3>2
  <2>4. real = want BY <2>2, <2>3 DEF moved
  <2>5. Sum3(want) = 0 BY <1>1 DEF Sum3, Chair
  <2>6. ASSUME NEW c \in Chair PROVE cur[c] + want[c] >= 0
    <3>1. cur[c] \in Nat OBVIOUS
    <3>2. CASE c = b BY <1>1, <1>9, <3>2
    <3>3. CASE c # b
      <4>1. want[c] = s BY <1>1, <3>3
      <4>2. QED BY <3>1, <4>1
    <3>4. QED BY <3>2, <3>3
  <2>7. ASSUME NEW c \in Chair
        PROVE  IF want[c] >= 0 THEN want[c] \in 0..want[c] ELSE want[c] \in want[c]..0
    <3>1. want[c] \in Int OBVIOUS
    <3>2. QED BY <3>1
  <2>8. ASSUME NEW x \in Chair, NEW y \in Chair, want[x] = want[y] PROVE want[x] - want[y] \in -1..1
    <3>1. want[x] \in Int OBVIOUS
    <3>2. QED BY <2>8, <3>1
  <2>9. QED BY <2>4, <2>5, <2>6, <2>7, <2>8 DEF Fair, real
<1>10. CASE ~(cur[b] > 2 * s) /\ s = 0
  <2>1. cur[b] = 0 BY <1>1, <1>10
  <2>2. real = [c \in Chair |-> IF c \in W THEN share[c] ELSE IF c = b THEN -cur[c] ELSE paid[c]]
    BY <1>7, <1>10
  <2>3. ASSUME NEW c \in Chair PROVE real[c] = 0
    <3>1. c \notin W BY <1>2, <1>10
    <3>2. paid[c] = 0 BY <1>3
    <3>3. -cur[b] = 0 BY Zenon, <1>1, <2>1, NegZero, NatIsInt
    <3>4. QED BY <2>1, <2>2, <3>1, <3>2, <3>3
  <2>4. Sum3(real) = 0 BY <2>3, SumZero
  <2>5. ASSUME NEW c \in Chair PROVE want[c] = 0
    <3>1. CASE c = b
      <4>1. 2 * s \in Int /\ 2 * s = 0 BY <1>10
      <4>2. -(2 * s) = 0 BY Zenon, <4>1, NegZero
      <4>3. QED BY <1>1, <3>1, <4>2
    <3>2. CASE c # b BY <1>1, <1>10, <3>2
    <3>3. QED BY <3>1, <3>2
  <2>6. real \in [Chair -> Int] BY <2>2, <2>3
  <2>7. ASSUME NEW c \in Chair
        PROVE  /\ cur[c] + real[c] >= 0
               /\ IF want[c] >= 0 THEN real[c] \in 0..want[c] ELSE real[c] \in want[c]..0
    <3>1. cur[c] \in Nat OBVIOUS
    <3>2. QED BY <2>3, <2>5, <3>1
  <2>8. ASSUME NEW x \in Chair, NEW y \in Chair PROVE real[x] - real[y] \in -1..1
    <3>1. real[x] = 0 /\ real[y] = 0 BY <2>3
    <3>2. 0 - 0 = 0 /\ 0 \in -1..1 BY NoGap
    <3>3. QED BY Zenon, <3>1, <3>2
  <2>9. QED BY <2>4, <2>6, <2>7, <2>8 DEF Fair, real
<1>11. CASE ~(cur[b] > 2 * s) /\ s > 0
  <2> DEFINE q == (s * cur[b]) \div (2 * s)
             first == CHOOSE x \in W : \A o \in W : x <= o
             part == [c \in Chair |-> (want[c] * cur[b]) \div SumOf(W, want)]
  <2>1. q \in Nat /\ 2 * q <= cur[b] /\ cur[b] <= 2 * q + 1 /\ cur[b] <= 2 * s
    BY <1>1, <1>11, HalfShare
  <2>2. first \in Chair /\ first # b
    <3>1. \A c \in Chair : c \in W <=> c # b BY <1>2, <1>11
    <3>2. W \subseteq Chair BY DEF W, Winners
    <3>3. \E x \in W : \A o \in W : x <= o
      <4>1. CASE b = 0
        <5>1. 1 \in W /\ \A o \in W : 1 <= o BY <3>1, <3>2, <4>1 DEF Chair
        <5>2. QED BY <5>1
      <4>2. CASE b # 0
        <5>1. 0 \in W /\ \A o \in W : 0 <= o BY <3>1, <3>2, <4>2 DEF Chair
        <5>2. QED BY <5>1
      <4>3. QED BY <4>1, <4>2
    <3>4. first \in W BY <3>3
    <3> HIDE DEF first
    <3>5. QED BY <3>1, <3>2, <3>4
  <2>3. \A c \in Chair : c # b => part[c] = q BY <1>1, <1>5
  <2> HIDE DEF q
  <2>4. SumOf(W, part) = 2 * q
    <3> DEFINE f == [c \in Chair |-> IF c \in W THEN part[c] ELSE 0]
    <3> HIDE DEF part
    <3>1. \A c \in Chair : f[c] = IF c = b THEN 0 ELSE q BY <1>2, <1>11, <2>3
    <3> HIDE DEF f
    <3>2. Sum3(f) = 2 * q BY <2>1, <3>1 DEF Sum3, Chair
    <3>3. QED BY <3>2 DEF SumOf, f
  <2>5. share = [part EXCEPT ![first] = @ + (cur[b] - 2 * q)]
    BY <2>4 DEF SharesByWeight, share
  <2> HIDE DEF first
  <2>6. ASSUME NEW c \in Chair, c # b
        PROVE  share[c] = IF c = first THEN cur[b] - q ELSE q
    <3>1. share[c] = IF c = first THEN part[c] + (cur[b] - 2 * q) ELSE part[c]
      BY <2>5
    <3>2. part[c] = q BY <2>3, <2>6
    <3> HIDE DEF part
    <3>3. q + (cur[b] - 2 * q) = cur[b] - q BY <1>1, <2>1
    <3>4. QED BY <3>1, <3>2, <3>3
  <2> HIDE DEF part
  <2>7. real = [c \in Chair |-> IF c \in W THEN share[c] ELSE IF c = b THEN -cur[c] ELSE paid[c]]
    BY <1>7, <1>11
  <2>8. \A c \in Chair : real[c] = IF c = b THEN -cur[b] ELSE IF c = first THEN cur[b] - q ELSE q
    BY <1>2, <1>11, <2>6, <2>7
  <2>9. -cur[b] \in Int /\ cur[b] - q \in Nat /\ q \in Nat /\ cur[b] - q <= q + 1
        /\ q <= cur[b] - q
    BY <1>1, <2>1
  <2>10. real \in [Chair -> Int]
    <3>1. ASSUME NEW c \in Chair PROVE real[c] \in Int
      <4>1. real[c] = IF c = b THEN -cur[b] ELSE IF c = first THEN cur[b] - q ELSE q BY <2>8
      <4>2. QED BY <2>9, <4>1
    <3>2. QED BY <2>7, <3>1
  <2>11. Sum3(real) = 0 BY <1>1, <2>1, <2>2, <2>8 DEF Sum3, Chair
  <2>12. cur[b] - q <= s /\ q <= s BY <1>1, <2>1
  <2>13. ASSUME NEW c \in Chair
         PROVE  /\ cur[c] + real[c] >= 0
                /\ IF want[c] >= 0 THEN real[c] \in 0..want[c] ELSE real[c] \in want[c]..0
    <3>1. cur[c] \in Nat OBVIOUS
    <3>2. CASE c = b
      <4>1. real[c] = -cur[b] /\ want[c] = -(2 * s) BY <1>1, <2>8, <3>2
      <4>2. QED BY <1>1, <1>11, <2>1, <3>2, <4>1
    <3>3. CASE c # b
      <4>1. want[c] = s BY <1>1, <3>3
      <4>2. real[c] \in Nat /\ real[c] <= s BY <2>8, <2>9, <2>12, <3>3
      <4>3. QED BY <3>1, <4>1, <4>2
    <3>4. QED BY <3>2, <3>3
  <2>14. ASSUME NEW x \in Chair, NEW y \in Chair, want[x] = want[y], want[x] > 0
         PROVE  real[x] - real[y] \in -1..1
    <3>1. ~(want[b] > 0) BY <1>1
    <3>2. x # b /\ y # b BY <2>14, <3>1
    <3>3. real[x] \in {q, cur[b] - q} /\ real[y] \in {q, cur[b] - q} BY <2>8, <3>2
    <3>4. QED BY <1>1, <2>9, <3>3
  <2>15. QED BY <2>10, <2>11, <2>13, <2>14 DEF Fair, real
<1>12. QED BY <1>1, <1>9, <1>10, <1>11

\* However a landlord round ends and whatever the chairs hold, its settlement is fair.
LEMMA LandDevideFair ==
  ASSUME NEW w \in Chair, NEW b \in Chair, NEW s \in Nat, NEW cur \in [Chair -> Nat]
  PROVE  Fair(DevideByWeight(CalcScore(w, b, s), cur, {b}), CalcScore(w, b, s), cur)
<1> DEFINE want == CalcScore(w, b, s)
<1>0. want \in [Chair -> Int] BY DEF CalcScore
<1>1. CASE w = b
  <2>1. \A c \in Chair : want[c] = IF c = b THEN 2 * s ELSE -s BY <1>1 DEF CalcScore
  <2> HIDE DEF want
  <2>2. Fair(DevideByWeight(want, cur, {b}), want, cur) BY <1>0, <2>1, BankerWins
  <2>3. QED BY <2>2 DEF want
<1>2. CASE w # b
  <2>1. \A c \in Chair : want[c] = IF c = b THEN -(2 * s) ELSE s BY <1>2 DEF CalcScore
  <2> HIDE DEF want
  <2>2. Fair(DevideByWeight(want, cur, {b}), want, cur) BY <1>0, <2>1, FarmersWin
  <2>3. QED BY <2>2 DEF want
<1>3. QED BY <1>1, <1>2

-----------------------------------------------------------------------------
(* Cards and how many there are.                                           *)

\* A bag holds a natural number of cards.
LEMMA SizeType == ASSUME NEW cards \in Bag PROVE Size(cards) \in Nat
<1>1. \A r \in Rank : cards[r] \in Nat
  BY DEF Bag
<1>2. /\ cards[3] \in Nat /\ cards[4] \in Nat /\ cards[5] \in Nat /\ cards[6] \in Nat
      /\ cards[7] \in Nat /\ cards[8] \in Nat /\ cards[9] \in Nat /\ cards[10] \in Nat
      /\ cards[11] \in Nat /\ cards[12] \in Nat /\ cards[13] \in Nat /\ cards[14] \in Nat
      /\ cards[15] \in Nat /\ cards[16] \in Nat /\ cards[17] \in Nat
  BY <1>1 DEF Rank
<1>3. cards[3] + cards[4] + cards[5] + cards[6] + cards[7] \in Nat
  BY <1>2
<1>4. cards[3] + cards[4] + cards[5] + cards[6] + cards[7] + cards[8] + cards[9] + cards[10] \in Nat
  BY <1>2, <1>3
<1> QED  BY <1>2, <1>4 DEF Size

\* No cards are a hand.
LEMMA EmptyType == Empty \in Bag
BY DEF Empty, Bag

\* Cards taken out of a hand are cards, and leave cards.
LEMMA TakeType ==
  ASSUME NEW hand \in Bag, NEW cards, cards = [r \in Rank |-> cards[r]], Within(cards, hand)
  PROVE  cards \in Bag /\ Minus(hand, cards) \in Bag
<1>1. \A r \in Rank : hand[r] \in 0..4 /\ cards[r] \in 0..hand[r]
  BY DEF Bag, Within
<1>2. \A r \in Rank : cards[r] \in 0..4 /\ hand[r] - cards[r] \in 0..4
  BY <1>1
<1> QED  BY <1>2 DEF Bag, Minus

\* A set of numbers that is not empty has a least one.
LEMMA LeastNumber ==
  ASSUME NEW S \in SUBSET Nat, S # {} PROVE \E i \in S : \A j \in S : i <= j
<1>1. PICK m \in S : \A k \in S : <<k, m>> \notin OpToRel(<, Nat)
  BY NatLessThanWellFounded, WFMin, Zenon
<1>2. \A k \in S : ~ (k < m)
  BY <1>1, Zenon DEF OpToRel
<1> QED  BY <1>2

\* The lowest and the highest of some ranks are among them.
LEMMA LowestIn ==
  ASSUME NEW S \in SUBSET Nat, S # {}
  PROVE  Lowest(S) \in S /\ \A y \in S : Lowest(S) <= y
<1>1. \E x \in S : \A y \in S : x <= y
  BY LeastNumber
<1> QED  BY <1>1, Zenon DEF Lowest

\* The highest of some ranks is one of them, and none is higher.
LEMMA HighestIn ==
  ASSUME NEW S \in SUBSET Rank, S # {}
  PROVE  Highest(S) \in S /\ \A y \in S : Highest(S) >= y
<1> DEFINE T == {17 - x : x \in S}
<1>1. \A x \in S : 17 - x \in Nat
  BY DEF Rank
<1>2. T \in SUBSET Nat /\ T # {}
  BY <1>1
<1>3. PICK t \in T : \A u \in T : t <= u
  BY <1>2, LeastNumber
<1>4. PICK x \in S : t = 17 - x
  BY <1>3
<1>5. \A y \in S : x >= y
  <2> TAKE y \in S
  <2>1. 17 - x <= 17 - y
    BY <1>3, <1>4
  <2> QED  BY <2>1 DEF Rank
<1>6. \E m \in S : \A y \in S : m >= y
  BY <1>5
<1> QED  BY <1>6, Zenon DEF Highest

\* Where cards are counted, rank by rank.
Counts == [Rank -> Int]

\* The same, rank by rank.
AllCounted(a) ==
  /\ a[3] \in Int /\ a[4] \in Int /\ a[5] \in Int /\ a[6] \in Int /\ a[7] \in Int
  /\ a[8] \in Int /\ a[9] \in Int /\ a[10] \in Int /\ a[11] \in Int /\ a[12] \in Int
  /\ a[13] \in Int /\ a[14] \in Int /\ a[15] \in Int /\ a[16] \in Int /\ a[17] \in Int

\* A function of ranks has a value at each of them.
LEMMA RankCounts == ASSUME NEW a \in Counts PROVE AllCounted(a)
BY DEF AllCounted, Counts, Rank

\* Cards put together are as many as both were.
LEMMA SizeAdds ==
  ASSUME NEW a \in Counts, NEW b \in Counts, NEW c \in Counts, \A r \in Rank : c[r] = a[r] + b[r]
  PROVE  Size(c) = Size(a) + Size(b)
<1>1. \A r \in 3..17 : c[r] = a[r] + b[r]
  BY DEF Rank
<1>2. /\ c[3] = a[3] + b[3] /\ c[4] = a[4] + b[4] /\ c[5] = a[5] + b[5]
      /\ c[6] = a[6] + b[6] /\ c[7] = a[7] + b[7] /\ c[8] = a[8] + b[8]
      /\ c[9] = a[9] + b[9] /\ c[10] = a[10] + b[10] /\ c[11] = a[11] + b[11]
      /\ c[12] = a[12] + b[12] /\ c[13] = a[13] + b[13] /\ c[14] = a[14] + b[14]
      /\ c[15] = a[15] + b[15] /\ c[16] = a[16] + b[16] /\ c[17] = a[17] + b[17]
  BY <1>1
<1>3. AllCounted(a) /\ AllCounted(b)
  BY RankCounts
<1> QED  BY <1>2, <1>3 DEF Size, AllCounted

\* How many cards there are is a number.
LEMMA SizeInt == ASSUME NEW a \in Counts PROVE Size(a) \in Int
<1>1. AllCounted(a)
  BY RankCounts
<1>2. a[3] + a[4] + a[5] + a[6] + a[7] \in Int
  BY <1>1 DEF AllCounted
<1>3. a[3] + a[4] + a[5] + a[6] + a[7] + a[8] + a[9] + a[10] + a[11] + a[12] \in Int
  BY <1>1, <1>2 DEF AllCounted
<1> QED  BY <1>1, <1>3 DEF Size, AllCounted

\* Who has no fewer of each rank has no fewer.
LEMMA SizeGrows ==
  ASSUME NEW a \in Counts, NEW b \in Counts, \A r \in Rank : a[r] <= b[r]
  PROVE  Size(a) <= Size(b)
<1> DEFINE c == [r \in Rank |-> b[r] - a[r]]
<1>1. c \in Counts /\ \A r \in Rank : c[r] \in Nat /\ b[r] = a[r] + c[r]
  BY DEF Counts
<1> HIDE DEF c
<1>2. \A r \in 3..17 : c[r] \in Nat
  BY <1>1 DEF Rank
<1>3. /\ c[3] \in Nat /\ c[4] \in Nat /\ c[5] \in Nat /\ c[6] \in Nat /\ c[7] \in Nat
      /\ c[8] \in Nat /\ c[9] \in Nat /\ c[10] \in Nat /\ c[11] \in Nat /\ c[12] \in Nat
      /\ c[13] \in Nat /\ c[14] \in Nat /\ c[15] \in Nat /\ c[16] \in Nat /\ c[17] \in Nat
  BY <1>2
<1>4. c[3] + c[4] + c[5] + c[6] + c[7] \in Nat
  BY <1>3
<1>5. c[3] + c[4] + c[5] + c[6] + c[7] + c[8] + c[9] + c[10] + c[11] + c[12] \in Nat
  BY <1>3, <1>4
<1>6. Size(c) \in Nat
  BY <1>3, <1>5 DEF Size
<1>7. Size(b) = Size(a) + Size(c)
  BY <1>1, SizeAdds
<1> QED  BY <1>6, <1>7, SizeInt

\* k cards of one rank.
LEMMA SizeOne ==
  ASSUME NEW t \in Rank, NEW k \in Int
  PROVE  Copies({t}, k) \in Counts /\ Size(Copies({t}, k)) = k
<1>1. Copies({t}, k) \in Counts
  BY DEF Copies, Counts
<1>2. \A r \in 3..17 : Copies({t}, k)[r] = IF r = t THEN k ELSE 0
  BY DEF Copies, Rank
<1> DEFINE a == Copies({t}, k)
<1>3. \A r \in 3..17 : a[r] = IF r = t THEN k ELSE 0
  BY <1>2
<1> HIDE DEF a
<1>4. /\ a[3] = (IF 3 = t THEN k ELSE 0) /\ a[4] = (IF 4 = t THEN k ELSE 0)
      /\ a[5] = (IF 5 = t THEN k ELSE 0) /\ a[6] = (IF 6 = t THEN k ELSE 0)
      /\ a[7] = (IF 7 = t THEN k ELSE 0) /\ a[8] = (IF 8 = t THEN k ELSE 0)
      /\ a[9] = (IF 9 = t THEN k ELSE 0) /\ a[10] = (IF 10 = t THEN k ELSE 0)
      /\ a[11] = (IF 11 = t THEN k ELSE 0) /\ a[12] = (IF 12 = t THEN k ELSE 0)
      /\ a[13] = (IF 13 = t THEN k ELSE 0) /\ a[14] = (IF 14 = t THEN k ELSE 0)
      /\ a[15] = (IF 15 = t THEN k ELSE 0) /\ a[16] = (IF 16 = t THEN k ELSE 0)
      /\ a[17] = (IF 17 = t THEN k ELSE 0)
  BY <1>3
<1>5. Size(a) = k
  BY <1>4 DEF Size, Rank
<1> QED  BY <1>1, <1>5 DEF a

\* A bag counts up to four cards of a rank.
LEMMA BagCounts == ASSUME NEW a \in Bag PROVE a \in Counts /\ \A r \in Rank : a[r] \in 0..4
BY DEF Bag, Counts

\* No cards are none.
LEMMA SizeEmpty == Empty \in Counts /\ Size(Empty) = 0
<1>1. Empty \in Counts /\ \A r \in 3..17 : Empty[r] = 0
  BY DEF Empty, Counts, Rank
<1> QED  BY <1>1 DEF Size

-----------------------------------------------------------------------------
(* Attached cards: as many as asked for, out of those that are there.      *)

\* The place of a rank in the order in which cards are attached.
Order(cards, r, low) == 20 * cards[r] + (IF low THEN r ELSE 17 - r)

\* The cards that are attached before those of rank r, and how many there are.
Early(cards, r, low) == [q \in Rank |-> IF Order(cards, q, low) < Order(cards, r, low) THEN cards[q] ELSE 0]
Ahead(cards, r, low) == Size(Early(cards, r, low))

\* The order in which cards are attached is that of the places, which differ from rank to rank.
LEMMA OrderPlace ==
  ASSUME NEW cards \in Bag, NEW low \in BOOLEAN
  PROVE  /\ \A r \in Rank : Order(cards, r, low) \in 0..97
         /\ \A q, r \in Rank : AttachedBefore(cards, q, r, low) <=> Order(cards, q, low) < Order(cards, r, low)
         /\ \A q, r \in Rank : Order(cards, q, low) = Order(cards, r, low) => q = r
<1>1. \A r \in Rank : cards[r] \in 0..4
  BY BagCounts
<1>2. \A r \in Rank : Order(cards, r, low) \in 0..97
  BY <1>1 DEF Order, Rank
<1>3. \A q, r \in Rank : AttachedBefore(cards, q, r, low) <=> Order(cards, q, low) < Order(cards, r, low)
  <2> TAKE q \in Rank, r \in Rank
  <2>1. PICK a \in 0..4, b \in 0..4 : a = cards[q] /\ b = cards[r]
    BY <1>1
  <2>2. q \in 3..17 /\ r \in 3..17
    BY DEF Rank
  <2>3. /\ (a < b \/ (a = b /\ q > r)) <=> 20 * a + (17 - q) < 20 * b + (17 - r)
        /\ (a < b \/ (a = b /\ q < r)) <=> 20 * a + q < 20 * b + r
    <3>1. CASE a < b
      BY <2>2, <3>1
    <3>2. CASE a = b
      BY <2>2, <3>2
    <3>3. CASE a > b
      BY <2>2, <3>3
    <3> QED  BY <3>1, <3>2, <3>3
  <2>4. CASE low
    BY <2>1, <2>3, <2>4, Zenon DEF AttachedBefore, Order
  <2>5. CASE ~low
    BY <2>1, <2>3, <2>5, Zenon DEF AttachedBefore, Order
  <2> QED  BY <2>4, <2>5
<1>4. \A q, r \in Rank : Order(cards, q, low) = Order(cards, r, low) => q = r
  <2> TAKE q \in Rank, r \in Rank
  <2>1. PICK a \in 0..4, b \in 0..4 : a = cards[q] /\ b = cards[r]
    BY <1>1
  <2> QED  BY <2>1 DEF Order, Rank
<1> QED  BY <1>2, <1>3, <1>4

\* What is attached earlier is a part of the cards.
LEMMA EarlyType ==
  ASSUME NEW cards \in Bag, NEW low \in BOOLEAN, NEW r \in Rank
  PROVE  Early(cards, r, low) \in Counts /\ Early(cards, r, low) \in Bag /\ Ahead(cards, r, low) \in Nat
<1>1. \A q \in Rank : cards[q] \in 0..4
  BY BagCounts
<1>2. \A q \in Rank : (IF Order(cards, q, low) < Order(cards, r, low) THEN cards[q] ELSE 0) \in 0..4
  BY <1>1
<1>3. Early(cards, r, low) \in Bag
  BY <1>2, Zenon DEF Early, Bag
<1> QED  BY <1>3, SizeType, BagCounts DEF Ahead

\* How many cards of rank r are attached.
LEMMA AttachedAt ==
  ASSUME NEW cards \in Bag, NEW low \in BOOLEAN, NEW n \in Nat
  PROVE  /\ Attached(cards, n, low) \in Counts
         /\ \A r \in Rank : Attached(cards, n, low)[r] \in 0..cards[r]
         /\ n # 0 => \A r \in Rank :
              LET free == n - Ahead(cards, r, low)
              IN  Attached(cards, n, low)[r] =
                    IF free <= 0 THEN 0 ELSE IF free > cards[r] THEN cards[r] ELSE free
<1> DEFINE free(r) == n - Ahead(cards, r, low)
           got(r) == IF free(r) <= 0 THEN 0 ELSE IF free(r) > cards[r] THEN cards[r] ELSE free(r)
<1>1. \A r \in Rank : cards[r] \in 0..4 /\ Ahead(cards, r, low) \in Nat
  BY BagCounts, EarlyType
<1>2. \A r \in Rank : got(r) \in 0..cards[r]
  BY <1>1
<1>3. CASE n = 0
  BY <1>1, <1>3 DEF Attached, Empty, Counts
<1>4. CASE n # 0 /\ cards = Empty
  <2>1. Attached(cards, n, low) = Empty
    BY <1>4 DEF Attached
  <2>2. \A r \in Rank : cards[r] = 0
    BY <1>4 DEF Empty
  <2>3. \A r \in Rank : got(r) = 0
    BY <1>2, <2>2
  <2>4. \A r \in Rank : Empty[r] = 0
    BY DEF Empty
  <2> HIDE DEF got
  <2>5. \A r \in Rank : Attached(cards, n, low)[r] = 0 /\ 0 \in 0..cards[r]
    <3> TAKE r \in Rank
    <3>1. Attached(cards, n, low)[r] = 0 /\ cards[r] = 0
      BY <2>1, <2>2, <2>4, Zenon
    <3>2. 0 \in 0..0
      OBVIOUS
    <3> QED  BY <3>1, <3>2, Zenon
  <2>6. \A r \in Rank : Attached(cards, n, low)[r] = got(r)
    BY <2>3, <2>5
  <2> QED  BY <2>1, <2>5, <2>6, SizeEmpty DEF got
<1>5. CASE n # 0 /\ cards # Empty
  <2>0. \A q, r \in Rank : AttachedBefore(cards, q, r, low) <=> Order(cards, q, low) < Order(cards, r, low)
    BY OrderPlace
  <2>1. Attached(cards, n, low) = [r \in Rank |-> got(r)]
    <3>1. \A r \in Rank : Early(cards, r, low) =
            [q \in Rank |-> IF AttachedBefore(cards, q, r, low) THEN cards[q] ELSE 0]
      BY <2>0, Zenon DEF Early
    <3> QED  BY <1>5, <3>1, Zenon DEF Attached, Ahead
  <2>2. \A r \in Rank : got(r) \in Int
    BY <1>1
  <2> QED  BY <1>2, <2>1, <2>2 DEF Counts
<1> QED  BY <1>3, <1>4, <1>5

\* All that is asked for is attached, if there is as much.
LEMMA AttachedSize ==
  ASSUME NEW cards \in Bag, NEW low \in BOOLEAN, NEW n \in Nat, n <= Size(cards)
  PROVE  Size(Attached(cards, n, low)) = n
<1>1. CASE n = 0
  BY <1>1, SizeEmpty DEF Attached
<1>2. CASE n # 0
  <2> DEFINE got == Attached(cards, n, low)
             S == {r \in Rank : Ahead(cards, r, low) < n}
             T == {97 - Order(cards, r, low) : r \in S}
             U(r) == {q \in Rank : Order(cards, q, low) > Order(cards, r, low)}
  <2>1. \A r \in Rank : /\ cards[r] \in 0..4 /\ Ahead(cards, r, low) \in Nat
                        /\ Order(cards, r, low) \in 0..97
    BY BagCounts, EarlyType, OrderPlace
  <2>2. \E r \in Rank : \A q \in Rank : Order(cards, r, low) <= Order(cards, q, low)
    <3> DEFINE W == {Order(cards, r, low) : r \in Rank}
    <3>1. W \in SUBSET Nat /\ W # {}
      <4>1. 3 \in Rank
        BY DEF Rank
      <4> QED  BY <2>1, <4>1
    <3>2. \E w \in W : \A v \in W : w <= v
      BY <3>1, LeastNumber
    <3> QED  BY <3>2
  <2>3. S # {}
    <3>1. PICK r \in Rank : \A q \in Rank : Order(cards, r, low) <= Order(cards, q, low)
      BY <2>2
    <3>2. \A q \in Rank : ~(Order(cards, q, low) < Order(cards, r, low))
      BY <2>1, <3>1
    <3>3. Early(cards, r, low) = Empty
      BY <3>2 DEF Early, Empty
    <3>4. Ahead(cards, r, low) = 0
      BY <3>3, SizeEmpty DEF Ahead
    <3> QED  BY <1>2, <3>4
  <2>4. PICK s \in S : \A r \in S : Order(cards, r, low) <= Order(cards, s, low)
    <3>1. T \in SUBSET Nat /\ T # {}
      <4>1. \A r \in S : 97 - Order(cards, r, low) \in Nat
        BY <2>1
      <4> QED  BY <2>3, <4>1
    <3>2. \E t \in T : \A u \in T : t <= u
      BY <3>1, LeastNumber
    <3>3. PICK s \in S : \A r \in S : 97 - Order(cards, s, low) <= 97 - Order(cards, r, low)
      BY <3>2
    <3> QED  BY <2>1, <3>3
  <2>5. ASSUME NEW q \in Rank, NEW r \in Rank, Order(cards, q, low) < Order(cards, r, low)
        PROVE  Ahead(cards, q, low) + cards[q] <= Ahead(cards, r, low)
    <3> DEFINE one == Copies({q}, cards[q])
               both == [x \in Rank |-> Early(cards, q, low)[x] + one[x]]
    <3>0. cards[q] \in Int /\ \A x \in Rank : one[x] = IF x = q THEN cards[q] ELSE 0
      BY <2>1 DEF Copies
    <3> HIDE DEF one
    <3>1. one \in Counts /\ Size(one) = cards[q]
      BY <3>0, SizeOne DEF one
    <3>2. Early(cards, q, low) \in Counts /\ Early(cards, r, low) \in Counts
      BY EarlyType
    <3>3. both \in Counts /\ \A x \in Rank : both[x] = Early(cards, q, low)[x] + one[x]
      <4>1. \A x \in Rank : Early(cards, q, low)[x] \in Int /\ one[x] \in Int
        BY <3>1, <3>2 DEF Counts
      <4>2. \A x \in Rank : Early(cards, q, low)[x] + one[x] \in Int
        BY <4>1
      <4>3. both \in Counts
        BY <4>2, Zenon DEF Counts
      <4> QED  BY <4>3
    <3> HIDE DEF both
    <3>4. \A x \in Rank : both[x] <= Early(cards, r, low)[x]
      <4> TAKE x \in Rank
      <4>1. /\ Early(cards, q, low)[x] = IF Order(cards, x, low) < Order(cards, q, low) THEN cards[x] ELSE 0
            /\ Early(cards, r, low)[x] = IF Order(cards, x, low) < Order(cards, r, low) THEN cards[x] ELSE 0
        BY DEF Early
      <4>2. Early(cards, q, low)[x] \in Int /\ both[x] = Early(cards, q, low)[x] + one[x] /\ cards[x] \in 0..4
        BY <2>1, <3>2, <3>3 DEF Counts
      <4>3. /\ Order(cards, x, low) \in 0..97 /\ Order(cards, q, low) \in 0..97 /\ Order(cards, r, low) \in 0..97
            /\ Order(cards, q, low) < Order(cards, r, low)
        BY <2>1, <2>5
      <4>4. one[x] = IF x = q THEN cards[q] ELSE 0
        BY <3>0
      <4>5. CASE x = q
        BY <4>1, <4>2, <4>3, <4>4, <4>5
      <4>6. CASE x # q
        BY <4>1, <4>2, <4>3, <4>4, <4>6
      <4> QED  BY <4>5, <4>6
    <3>5. Size(both) = Ahead(cards, q, low) + cards[q]
      BY <3>1, <3>2, <3>3, SizeAdds DEF Ahead
    <3>6. Size(both) <= Ahead(cards, r, low)
      BY <3>2, <3>3, <3>4, SizeGrows DEF Ahead
    <3> QED  BY <3>5, <3>6
  <2>6. \A r \in Rank : got[r] =
          LET free == n - Ahead(cards, r, low)
          IN  IF free <= 0 THEN 0 ELSE IF free > cards[r] THEN cards[r] ELSE free
    BY <1>2, AttachedAt
  <2>7. got \in Counts
    BY AttachedAt
  <2> HIDE DEF got
  <2>8. \A q \in Rank : Order(cards, q, low) < Order(cards, s, low) => got[q] = cards[q]
    <3> SUFFICES ASSUME NEW q \in Rank, Order(cards, q, low) < Order(cards, s, low) PROVE got[q] = cards[q]
      OBVIOUS
    <3>1. Ahead(cards, q, low) + cards[q] <= Ahead(cards, s, low) /\ Ahead(cards, s, low) < n
      BY <2>5
    <3>2. cards[q] \in Nat /\ Ahead(cards, q, low) \in Nat /\ Ahead(cards, s, low) \in Nat
      BY <2>1
    <3>3. n - Ahead(cards, q, low) > cards[q] \/ n - Ahead(cards, q, low) = cards[q]
      BY <3>1, <3>2
    <3> QED  BY <2>6, <3>2, <3>3
  <2>9. \A q \in Rank : Order(cards, q, low) > Order(cards, s, low) => got[q] = 0
    <3> SUFFICES ASSUME NEW q \in Rank, Order(cards, q, low) > Order(cards, s, low) PROVE got[q] = 0
      OBVIOUS
    <3>1. ~(Ahead(cards, q, low) < n)
      BY <2>1, <2>4
    <3> QED  BY <2>1, <2>6, <3>1
  <2>10. ASSUME NEW all \in Counts, NEW k \in Int, all[s] = k,
                \A q \in Rank : /\ Order(cards, q, low) < Order(cards, s, low) => all[q] = cards[q]
                                /\ Order(cards, q, low) > Order(cards, s, low) => all[q] = 0
         PROVE  Size(all) = Ahead(cards, s, low) + k
    <3> DEFINE one == Copies({s}, k)
    <3>1. /\ one \in Counts /\ Size(one) = k
          /\ Early(cards, s, low) \in Counts
      BY SizeOne, EarlyType
    <3>2. \A x \in Rank : one[x] = IF x = s THEN k ELSE 0
      BY DEF Copies
    <3> HIDE DEF one
    <3>3. \A x \in Rank : all[x] = Early(cards, s, low)[x] + one[x]
      <4> TAKE x \in Rank
      <4>1. Early(cards, s, low)[x] = IF Order(cards, x, low) < Order(cards, s, low) THEN cards[x] ELSE 0
        BY DEF Early
      <4>2. /\ Order(cards, x, low) \in 0..97 /\ Order(cards, s, low) \in 0..97
            /\ Order(cards, x, low) = Order(cards, s, low) => x = s
            /\ cards[x] \in 0..4
        BY <2>1, OrderPlace
      <4>3. CASE Order(cards, x, low) < Order(cards, s, low)
        BY <2>10, <3>2, <4>1, <4>2, <4>3
      <4>4. CASE Order(cards, x, low) > Order(cards, s, low)
        BY <2>10, <3>2, <4>1, <4>2, <4>4
      <4>5. CASE x = s
        BY <2>10, <3>2, <4>1, <4>2, <4>5
      <4> QED  BY <4>2, <4>3, <4>4, <4>5
    <3>4. Size(all) = Size(Early(cards, s, low)) + Size(one)
      BY <2>10, <3>1, <3>3, SizeAdds
    <3> QED  BY <3>1, <3>4 DEF Ahead
  <2>11. got[s] \in Int /\ Size(got) = Ahead(cards, s, low) + got[s]
    <3>1. got[s] \in Int
      BY <2>7 DEF Counts
    <3> QED  BY <2>7, <2>8, <2>9, <2>10, <3>1
  <2>12. Ahead(cards, s, low) + cards[s] >= n
    <3> SUFFICES ASSUME Ahead(cards, s, low) + cards[s] < n PROVE FALSE
      BY <2>1
    <3>1. CASE U(s) = {}
      <4>1. \A q \in Rank : ~(Order(cards, q, low) > Order(cards, s, low))
        BY <3>1
      <4>2. cards \in Counts
        BY BagCounts
      <4>3. Size(cards) = Ahead(cards, s, low) + cards[s]
        BY <2>1, <2>10, <4>1, <4>2
      <4> QED  BY <2>1, <4>3
    <3>2. CASE U(s) # {}
      <4> DEFINE W == {Order(cards, q, low) : q \in U(s)}
      <4>1. W \in SUBSET Nat /\ W # {}
        BY <2>1, <3>2
      <4>2. \E w \in W : \A v \in W : w <= v
        BY <4>1, LeastNumber
      <4>3. PICK u \in U(s) : \A q \in U(s) : Order(cards, u, low) <= Order(cards, q, low)
        BY <4>2
      <4>4. /\ Early(cards, u, low) \in Counts
            /\ \A q \in Rank : Early(cards, u, low)[q] =
                  IF Order(cards, q, low) < Order(cards, u, low) THEN cards[q] ELSE 0
        BY EarlyType DEF Early
      <4>5. Early(cards, u, low)[s] = cards[s] /\ cards[s] \in Int
        BY <2>1, <4>3, <4>4
      <4>6. \A q \in Rank :
              /\ Order(cards, q, low) < Order(cards, s, low) => Early(cards, u, low)[q] = cards[q]
              /\ Order(cards, q, low) > Order(cards, s, low) => Early(cards, u, low)[q] = 0
        <5> TAKE q \in Rank
        <5>1. /\ Order(cards, q, low) \in 0..97 /\ Order(cards, s, low) \in 0..97
              /\ Order(cards, u, low) \in 0..97 /\ Order(cards, u, low) > Order(cards, s, low)
          BY <2>1, <4>3
        <5>2. Order(cards, q, low) > Order(cards, s, low) => Order(cards, u, low) <= Order(cards, q, low)
          BY <4>3
        <5> QED  BY <4>4, <5>1, <5>2
      <4>7. Ahead(cards, u, low) = Ahead(cards, s, low) + cards[s]
        BY <2>10, <4>4, <4>5, <4>6 DEF Ahead
      <4>8. u \in S
        BY <4>3, <4>7
      <4> QED  BY <2>1, <2>4, <4>3, <4>8
    <3> QED  BY <3>1, <3>2
  <2>13. got[s] = n - Ahead(cards, s, low)
    BY <2>1, <2>4, <2>6, <2>12
  <2>14. Ahead(cards, s, low) \in Nat
    BY <2>1
  <2>15. Size(got) = n
    BY <2>11, <2>13, <2>14
  <2> QED  BY <2>15 DEF got
<1> QED  BY <1>1, <1>2

-----------------------------------------------------------------------------
(* Lines, and a few ranks.                                                 *)

\* The ranks of a line: all of them held, none of them a two if there are several.
LEMMA LineFacts ==
  ASSUME NEW hand \in Bag, NEW len \in Nat \ {0}, NEW n \in 1..4, NEW t \in LineTops(hand, len, n, 0)
  PROVE  /\ t \in Rank /\ t \in Line(t, len) /\ Line(t, len) \in SUBSET Rank
         /\ \A r \in Line(t, len) : hand[r] >= n
         /\ Line(t, 1) = {t}
         /\ IsLine(Line(t, len))
<1>1. /\ t \in Rank /\ Line(t, len) \subseteq AtLeast(hand, n)
      /\ len > 1 => t < Two
  BY DEF LineTops, AtLeast
<1>2. Line(t, len) \in SUBSET Rank /\ \A r \in Line(t, len) : hand[r] >= n
  BY <1>1 DEF AtLeast
<1>3. t \in Line(t, len) /\ Line(t, 1) = {t}
  BY <1>1 DEF Line, Rank
<1>4. IsLine(Line(t, len))
  <2>1. CASE len = 1
    BY <1>3, <2>1, FS_Singleton DEF IsLine
  <2>2. CASE len > 1
    <3> DEFINE a == t - len + 1
    <3>1. a \in Int /\ a <= t /\ Line(t, len) = a..t
      BY <1>1 DEF Line, Rank
    <3>2. a \in a..t /\ a..t \in SUBSET Rank
      BY <1>1, <1>2, <3>1 DEF Rank
    <3> HIDE DEF a
    <3>3. a..t \in SUBSET Nat /\ a..t # {} /\ t \in a..t
      <4>1. Rank \in SUBSET Nat
        BY DEF Rank
      <4> QED  BY <1>3, <3>1, <3>2, <4>1
    <3>4. Lowest(a..t) \in a..t /\ Lowest(a..t) <= a
      BY <3>2, <3>3, LowestIn
    <3>5. Highest(a..t) \in a..t /\ Highest(a..t) >= t
      BY <3>2, <3>3, HighestIn
    <3>6. Lowest(a..t) = a /\ Highest(a..t) = t
      BY <1>1, <3>1, <3>4, <3>5 DEF Rank
    <3>7. Two \notin a..t
      BY <1>1, <2>2, <3>1 DEF Rank, Two
    <3> QED  BY <3>1, <3>6, <3>7 DEF IsLine, Consecutive
  <2> QED  BY <2>1, <2>2
<1> QED  BY <1>1, <1>2, <1>3, <1>4

\* k cards each of some ranks.
LEMMA SizeCopies ==
  ASSUME NEW S \in SUBSET Rank, NEW q \in Rank \ S, NEW k \in Int
  PROVE  /\ Copies(S, k) \in Counts /\ Copies(S \cup {q}, k) \in Counts
         /\ Size(Copies(S \cup {q}, k)) = Size(Copies(S, k)) + k
<1> DEFINE a == Copies(S, k)
           b == Copies({q}, k)
           c == Copies(S \cup {q}, k)
<1>1. a \in Counts /\ b \in Counts /\ c \in Counts
  BY DEF Copies, Counts
<1>2. \A r \in Rank : /\ a[r] = IF r \in S THEN k ELSE 0
                      /\ b[r] = IF r = q THEN k ELSE 0
                      /\ c[r] = IF r \in S \/ r = q THEN k ELSE 0
  BY DEF Copies
<1>3. Size(b) = k
  BY SizeOne
<1> HIDE DEF a, b, c
<1>4. \A r \in Rank : c[r] = a[r] + b[r]
  BY <1>2
<1>5. Size(c) = Size(a) + Size(b)
  BY <1>1, <1>4, SizeAdds
<1>6. Size(c) = Size(a) + k
  BY <1>3, <1>5
<1> QED  BY <1>1, <1>6 DEF a, c

\* k cards of each of two ranks.
LEMMA SizeTwo ==
  ASSUME NEW p \in Rank, NEW q \in Rank, p # q, NEW k \in Int
  PROVE  Copies({p, q}, k) \in Counts /\ Size(Copies({p, q}, k)) = 2 * k
<1>1. Size(Copies({p}, k)) = k
  BY SizeOne
<1>2. {p, q} = {p} \cup {q}
  OBVIOUS
<1>3. Copies({p, q}, k) \in Counts /\ Size(Copies({p, q}, k)) = Size(Copies({p}, k)) + k
  BY <1>2, SizeCopies
<1> QED  BY <1>1, <1>3

\* k cards of each of three.
LEMMA SizeThree ==
  ASSUME NEW p \in Rank, NEW q \in Rank, NEW r \in Rank, p # q, r # p, r # q, NEW k \in Int
  PROVE  Copies({p, q, r}, k) \in Counts /\ Size(Copies({p, q, r}, k)) = 3 * k
<1>1. Size(Copies({p, q}, k)) = 2 * k
  BY SizeTwo
<1>2. {p, q, r} = {p, q} \cup {r} /\ {p, q} \in SUBSET Rank /\ r \in Rank \ {p, q}
  OBVIOUS
<1>3. Copies({p, q, r}, k) \in Counts /\ Size(Copies({p, q, r}, k)) = Size(Copies({p, q}, k)) + k
  BY <1>2, SizeCopies
<1> QED  BY <1>1, <1>3

\* How many cards a line is made of.
LEMMA SizeLine ==
  ASSUME NEW t \in Rank, NEW len \in Nat \ {0}, Line(t, len) \in SUBSET Rank, NEW n \in Int
  PROVE  Copies(Line(t, len), n) \in Counts /\ Size(Copies(Line(t, len), n)) = len * n
<1> DEFINE C(i) == Copies(Line(t, i), n)
           wrong == {i \in 1..len : Size(C(i)) # i * n}
<1>1. \A i \in 1..len : Line(t, i) \in SUBSET Rank /\ Line(t, i) \subseteq Line(t, len)
  <2> TAKE i \in 1..len
  <2>1. Line(t, i) \subseteq Line(t, len)
    BY DEF Line, Rank
  <2> QED  BY <2>1
<1>2. Size(C(1)) = 1 * n
  <2>1. Line(t, 1) = {t}
    BY DEF Line, Rank
  <2> QED  BY <2>1, SizeOne
<1>3. ASSUME NEW i \in 2..len PROVE Size(C(i)) = Size(C(i - 1)) + n
  <2>1. Line(t, i) = Line(t, i - 1) \cup {t - i + 1} /\ t - i + 1 \notin Line(t, i - 1)
    BY DEF Line, Rank
  <2>2. Line(t, i - 1) \in SUBSET Rank /\ t - i + 1 \in Rank
    BY <1>1, <2>1
  <2> QED  BY <2>1, <2>2, SizeCopies
<1>4. wrong = {}
  <2> SUFFICES ASSUME wrong # {} PROVE FALSE
    OBVIOUS
  <2>1. PICK m \in wrong : \A i \in wrong : m <= i
    <3>1. wrong \in SUBSET Nat
      OBVIOUS
    <3> QED  BY <3>1, LeastNumber
  <2>2. m \in 2..len /\ m - 1 \in 1..len /\ m - 1 \notin wrong
    BY <1>2, <2>1
  <2> HIDE DEF C
  <2>3. Size(C(m - 1)) = (m - 1) * n /\ Size(C(m)) = Size(C(m - 1)) + n
    BY <1>3, <2>2
  <2>4. (m - 1) * n + n = m * n
    BY <2>2
  <2> QED  BY <2>1, <2>3, <2>4
<1>5. Copies(Line(t, len), n) \in Counts
  BY DEF Copies, Counts
<1> QED  BY <1>4, <1>5

\* There are finitely many ranks.
LEMMA RanksFinite == ASSUME NEW S \in SUBSET Rank PROVE IsFiniteSet(S)
<1>1. 3 \in Int /\ 17 \in Int
  OBVIOUS
<1>2. IsFiniteSet(3..17)
  BY <1>1, FS_Interval
<1> QED  BY <1>2, FS_Subset DEF Rank

\* A single rank.
LEMMA OneRank ==
  ASSUME NEW S \in SUBSET Rank, Cardinality(S) = 1
  PROVE  \E x \in S : S = {x}
<1>1. \E x : S = {x}
  BY RanksFinite, FS_Singleton
<1> QED  BY <1>1

\* Two ranks that are held take their cards.
LEMMA TwoHeld ==
  ASSUME NEW b \in Bag, NEW p \in Rank, NEW q \in Rank, p # q
  PROVE  b[p] + b[q] <= Size(b)
<1> DEFINE one == Copies({p}, b[p])
           two == Copies({q}, b[q])
           both == [r \in Rank |-> one[r] + two[r]]
<1>1. b \in Counts /\ \A r \in Rank : b[r] \in 0..4
  BY BagCounts
<1>2. /\ one \in Counts /\ Size(one) = b[p]
      /\ two \in Counts /\ Size(two) = b[q]
  <2>1. b[p] \in Int /\ b[q] \in Int
    BY <1>1
  <2> QED  BY <2>1, SizeOne
<1>3. \A r \in Rank : one[r] = (IF r = p THEN b[p] ELSE 0) /\ two[r] = (IF r = q THEN b[q] ELSE 0)
  BY DEF Copies
<1> HIDE DEF one, two
<1>4. \A r \in Rank : one[r] + two[r] \in Int /\ one[r] + two[r] <= b[r]
  <2> TAKE r \in Rank
  <2>1. b[r] \in 0..4 /\ b[p] \in 0..4 /\ b[q] \in 0..4
    BY <1>1
  <2>2. CASE r = p
    BY <1>3, <2>1, <2>2
  <2>3. CASE r = q
    BY <1>3, <2>1, <2>3
  <2>4. CASE r # p /\ r # q
    BY <1>3, <2>1, <2>4
  <2> QED  BY <2>2, <2>3, <2>4
<1>5. both \in Counts /\ \A r \in Rank : both[r] = one[r] + two[r]
  BY <1>4, Zenon DEF Counts
<1> HIDE DEF both
<1>6. Size(both) = Size(one) + Size(two)
  BY <1>2, <1>5, SizeAdds
<1>7. Size(both) <= Size(b)
  BY <1>1, <1>4, <1>5, SizeGrows
<1> QED  BY <1>2, <1>6, <1>7

\* One card is of one rank.
LEMMA OneCard ==
  ASSUME NEW b \in Bag, Size(b) = 1
  PROVE  \E x \in Rank : Held(b) = {x}
<1>1. \A r \in Rank : b[r] \in 0..4
  BY BagCounts
<1>2. \E x \in Rank : b[x] > 0
  <2> SUFFICES ASSUME \A x \in Rank : ~(b[x] > 0) PROVE FALSE
    OBVIOUS
  <2>1. \A x \in Rank : b[x] = 0
    BY <1>1
  <2>2. b = Empty
    BY <2>1 DEF Bag, Empty
  <2> QED  BY <2>2, SizeEmpty
<1>3. PICK x \in Rank : b[x] > 0
  BY <1>2
<1>4. ASSUME NEW q \in Rank, q # x PROVE b[q] = 0
  <2>1. b[x] + b[q] <= 1
    BY <1>4, TwoHeld
  <2> QED  BY <1>1, <1>3, <2>1
<1> QED  BY <1>3, <1>4 DEF Held
=============================================================================
