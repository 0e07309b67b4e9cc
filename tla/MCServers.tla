------------------------------ MODULE MCServers ------------------------------
(* Two servers and three connections, which are alike.  One server changes     *)
(* its status, loses connections and restarts as it likes; the other one stays *)
(* connected unless the registry restarts, and is told what happens.           *)
EXTENDS Servers, TLC

CONSTANT Restless

Alike == Permutations(Conn)

MCNext ==
  \/ \E s \in Server : (\E c \in Conn : OnConnect(s, c)) \/ OnServerMsg(s)
  \/ ChangeStatus(Restless) \/ OnTimer(Restless) \/ OnCloseClient(Restless) \/ Restart(Restless)
  \/ \E s \in Server \ {Restless} : link[s] \notin open /\ OnCloseClient(s)
  \/ \E c \in Conn : Register(c) \/ ChangeInfo(c) \/ (owner[c] = Restless /\ Close(c))
  \/ RegistryRestart

MCSpec == Init /\ [][MCNext]_vars
==============================================================================
