-------------------------------- MODULE Round --------------------------------
(***************************************************************************)
(* What a card table promises its players, whatever they do: a round that  *)
(* is dealt gets a banker, cards leave the hands a play at a time, the     *)
(* first hand to run out wins and ends the round, and the table is then    *)
(* free for the next one.  Who may bid, lead, answer or pass, what beats   *)
(* what, and who moves for a silent player is left to the implementation.  *)
(***************************************************************************)
EXTENDS Naturals

CONSTANTS
  Chair,    (* the seats of the table              *)
  NoChair,  (* none of them                        *)
  Dealt,    (* cards dealt to each seat            *)
  Bottom    (* cards the banker gets on top        *)

VARIABLES
  phase,   (* "idle", "bidding", "playing", "over" *)
  banker,
  left,    (* cards each seat holds                *)
  winner

rvars == <<phase, banker, left, winner>>

Empty == [c \in Chair |-> 0]

RInit == phase = "idle" /\ banker = NoChair /\ left = Empty /\ winner = NoChair

Deal ==
  /\ phase = "idle"
  /\ phase' = "bidding" /\ left' = [c \in Chair |-> Dealt]
  /\ UNCHANGED <<banker, winner>>

Decide ==
  /\ phase = "bidding"
  /\ phase' = "playing"
  /\ \E b \in Chair :
       /\ banker' = b
       /\ left' = [left EXCEPT ![b] = @ + Bottom]
  /\ UNCHANGED winner

Put(c) ==
  /\ phase = "playing"
  /\ \/ /\ \E n \in 1..(left[c] - 1) : left' = [left EXCEPT ![c] = @ - n]
        /\ UNCHANGED <<phase, banker, winner>>
     \/ /\ phase' = "over"
        /\ winner' = c
        /\ banker' = NoChair /\ left' = Empty

Clear ==
  /\ phase = "over"
  /\ phase' = "idle" /\ winner' = NoChair
  /\ UNCHANGED <<banker, left>>

Play == \E c \in Chair : Put(c)

RNext == Deal \/ Decide \/ Play \/ Clear

\* Nobody has to come and play; a round under way goes on to its end.
RSpec ==
  RInit /\ [][RNext]_rvars /\ WF_rvars(Decide) /\ WF_rvars(Play) /\ WF_rvars(Clear)
=============================================================================
