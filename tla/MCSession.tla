------------------------------- MODULE MCSession -------------------------------
EXTENDS Session, TLC

CONSTANT g1

OneKind == [g \in Game |-> "land"]
TwoKinds == [g \in Game |-> IF g = g1 THEN "land" ELSE "kuaipao"]
SomeFragile == {<<l, g1>> : l \in Lobby}
\* Two lobbies that talk to each other through the center before a game server registers, or
\* else to a game server that has registered at both: one link at a time.
PairInit == Init /\ servers \in {[l \in Lobby |-> Game], [l \in Lobby |-> {}]}
PairNext ==
  \/ \E c \in Conn, l \in Lobby : Client(c, l)
  \/ \E l \in Lobby : LobbyStep(l) \/ CenterStep(l)
  \/ \E l \in Lobby, g \in Game : EnterHandled(l, g) \/ BackHandled(l, g) \/ LeaveNoticed(l, g)
  \/ \E g \in Game : GameRecovers(g)
PairSpec == PairInit /\ [][PairNext]_vars
OneLink == \A l \in Lobby : servers[l] = {} \/ center[l] = "down"

Alike == Permutations(Lobby) \cup Permutations(Conn)
================================================================================
