---------------------------- MODULE MCTableCoins ----------------------------
EXTENDS TableCoins

LobbyChanges == {-2, 1}
LobbyTakes   == {-2}
=============================================================================
