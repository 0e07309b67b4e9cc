---------------------------- MODULE MCKuaipaoRound ----------------------------
(* Hands of six cards out of 3 to 8: a bomb beside two cards, a triple with two *)
(* cards, a straight, pairs.                                                    *)
EXTENDS KuaipaoRound

Cards(seq) == [r \in Rank |-> Cardinality({i \in DOMAIN seq : seq[i] = r})]
Hands(a, b, c) == [i \in Chair |-> Cards(<<a, b, c>>[i + 1])]

MCDeals ==
  {Hands(<<3, 3, 3, 3, 5, 6>>, <<4, 4, 4, 5, 7, 9>>, <<8, 8, 8, 8, 5, 7>>),
   Hands(<<3, 4, 5, 6, 7, 12>>, <<9, 9, 10, 10, 3, 14>>, <<4, 5, 6, 7, 8, 13>>),
   Hands(<<3, 3, 3, 4, 4, 10>>, <<5, 5, 5, 7, 7, 11>>, <<8, 9, 9, 9, 9, 13>>)}

\* Chair 0 changes its mind about being ready and about playing itself at any moment, plays what
\* it holds, passes and comes back; the others only get ready; every turn may run out.
Meddle == \E b \in BOOLEAN : PlayerReady(0, b) \/ PlayerSetAuto(0, b)
GetReady == gameState = "FREE" /\ \E c \in Chair : ~readyStatus[c] /\ PlayerReady(c, TRUE)
Play(c) ==
  \/ c = curUser /\ \E cards \in SubBags(handCard[c]) : OutCard(c, cards)
  \/ PassCard(c) \/ SendGameScene(c)

MCNext == Meddle \/ GetReady \/ ResetTable \/ Tick \/ Elapse \/ Play(0)

\* FairSpec, with the states in which TickPlay can move spelled out (LeadTaken says that the
\* chair whose turn ran out always can): TLC would search its hand anew to find out.
RanOut == gameState = "PLAY" /\ coolLogic = "out"

MCSpec ==
  /\ Init /\ [][MCNext]_vars
  /\ WF_vars(Elapse) /\ WF_vars(TickStart \/ TickWait \/ TickEnd)
  /\ <>[]~RanOut \/ []<><<TickPlay>>_vars
=============================================================================
