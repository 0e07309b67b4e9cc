------------------------------ MODULE MCGameRoom ------------------------------
EXTENDS GameRoom, TLC

Players == Permutations(Player)
===============================================================================
