------------------------------ MODULE MCMissions ------------------------------
(* A daily mission to play, and a weekly one to win twice in a row.  From six  *)
(* in the morning of a day to after six of the second next, with the turn of   *)
(* a week on the next day and that of a month and a year on the last.          *)
EXTENDS Missions, TLC

MCCfg ==
  (1 :> [type |-> "play", straight |-> FALSE, autoprize |-> TRUE, cycle |-> "day",
         mtimes |-> 1, cycletimes |-> 1])
  @@ (2 :> [type |-> "win", straight |-> TRUE, autoprize |-> TRUE, cycle |-> "week",
            mtimes |-> 2, cycletimes |-> 1])
===============================================================================
