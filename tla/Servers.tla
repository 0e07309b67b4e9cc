-------------------------------- MODULE Servers --------------------------------
(***************************************************************************)
(* The registry of servers that the center and every lobby keep            *)
(* (CServerClientMgr), and the connectors by which the servers register    *)
(* (CSvrConnectorMgr).  A server connects, registers, reports a change of  *)
(* its status; the registry sends everybody the list whenever it changes.  *)
(* A connection is closed on its two sides at two moments: neither side    *)
(* waits for the other, there is no heartbeat on these ports, and a server *)
(* may connect again before the registry has seen its last connection go.  *)
(***************************************************************************)
EXTENDS Naturals, Sequences, FiniteSets

CONSTANTS
  Server,      (* the ids of the servers (svrid)                            *)
  Conn,        (* connections; one is used once                             *)
  Nobody,      (* uid 0, and a null connection                              *)
  MaxMsgs      (* bound: messages under way on one connection               *)

ASSUME ServersAssumption == Nobody \notin Server \cup Conn /\ MaxMsgs \in Nat

VARIABLES
  link,      (* m_pClientPtr of a server: its connection                    *)
  isRun,     (* m_isRun                                                     *)
  status,    (* CApplication::GetStatus of a server                         *)
  curInfo,   (* m_curSvrInfo: the status it last reported                   *)
  allSvr,    (* m_allSvrList: the list a server last received               *)
  open,      (* the connections the registry has not seen close             *)
  uid,       (* the uid a connection bears at the registry                  *)
  servers,   (* m_mpServers: svrid -> connection and status                 *)
  toReg,     (* messages under way to the registry, by connection           *)
  toSvr,     (* messages under way to a server                              *)
  owner,     (* which server opened a connection                            *)
  overlap    (* history: the connections that registered while an older one of the
                same server was open at the registry                       *)

serverVars == <<link, isRun, status, curInfo, allSvr>>
vars == <<serverVars, open, uid, servers, toReg, toSvr, owner, overlap>>

Statuses == {"normal", "repair"}
Requests == [kind : {"register", "change"}, svrid : Server, status : Statuses]
NoList == [s \in {} |-> "normal"]

Init ==
  /\ link = [s \in Server |-> Nobody] /\ isRun = [s \in Server |-> FALSE]
  /\ status = [s \in Server |-> "normal"] /\ curInfo = status
  /\ allSvr = [s \in Server |-> NoList]
  /\ open = {} /\ uid = [c \in Conn |-> Nobody] /\ servers = [s \in {} |-> Nobody]
  /\ toReg = [c \in Conn |-> <<>>] /\ toSvr = [c \in Conn |-> <<>>]
  /\ owner = [c \in Conn |-> Nobody] /\ overlap = {}

--------------------------------------------------------------------------------
(* The connector of a server.                                              *)

Message(kind, s) == [kind |-> kind, svrid |-> s, status |-> curInfo'[s]]

\* SendMsg2Svr drops the message when the connector is not running; so does the network when
\* the registry has closed the connection.
SendMsg2Svr(c, running, msg) ==
  IF running /\ c \in open'
  THEN Len(toReg[c]) < MaxMsgs /\ toReg' = [toReg EXCEPT ![c] = Append(@, msg)]
  ELSE UNCHANGED toReg

\* OnConnect: the connector runs from now on, and registers.
OnConnect(s, c) ==
  /\ link[s] = Nobody /\ owner[c] = Nobody
  /\ link' = [link EXCEPT ![s] = c] /\ owner' = [owner EXCEPT ![c] = s]
  /\ open' = open \cup {c}
  /\ isRun' = [isRun EXCEPT ![s] = TRUE]
  /\ UNCHANGED <<status, curInfo, allSvr, uid, servers, toSvr, overlap>>
  /\ SendMsg2Svr(c, isRun'[s], Message("register", s))

ChangeStatus(s) ==
  /\ status' = [status EXCEPT ![s] = IF @ = "normal" THEN "repair" ELSE "normal"]
  /\ UNCHANGED <<link, isRun, curInfo, allSvr, open, uid, servers, toReg, toSvr, owner, overlap>>

\* MUTANT: the message is filled before the new status is noted.
OnTimerEarly(s) ==
  /\ status[s] # curInfo[s]
  /\ curInfo' = [curInfo EXCEPT ![s] = status[s]]
  /\ UNCHANGED <<link, isRun, status, allSvr, open, uid, servers, toSvr, owner, overlap>>
  /\ SendMsg2Svr(link[s], isRun[s], [Message("change", s) EXCEPT !.status = curInfo[s]])

\* OnTimer: a status that changed is noted, then reported.
OnTimer(s) ==
  /\ status[s] # curInfo[s]
  /\ curInfo' = [curInfo EXCEPT ![s] = status[s]]
  /\ UNCHANGED <<link, isRun, status, allSvr, open, uid, servers, toSvr, owner, overlap>>
  /\ SendMsg2Svr(link[s], isRun[s], Message("change", s))

\* handle_msg_register_svr_rep, handle_msg_server_list_rep.
OnServerMsg(s) ==
  LET c == link[s]
  IN  /\ c # Nobody /\ toSvr[c] # <<>>
      /\ toSvr' = [toSvr EXCEPT ![c] = Tail(@)]
      /\ \/ /\ Head(toSvr[c]).kind = "registered"
            /\ isRun' = [isRun EXCEPT ![s] = TRUE] /\ UNCHANGED allSvr
         \/ /\ Head(toSvr[c]).kind = "list"
            /\ allSvr' = [allSvr EXCEPT ![s] = Head(toSvr[c]).list] /\ UNCHANGED isRun
      /\ UNCHANGED <<link, status, curInfo, open, uid, servers, toReg, owner, overlap>>

\* OnCloseClient.
OnCloseClient(s) ==
  /\ link[s] # Nobody
  /\ toSvr' = [toSvr EXCEPT ![link[s]] = <<>>]
  /\ link' = [link EXCEPT ![s] = Nobody] /\ isRun' = [isRun EXCEPT ![s] = FALSE]
  /\ UNCHANGED <<status, curInfo, allSvr, open, uid, servers, toReg, owner, overlap>>

\* The process of a server ends and starts again.
Restart(s) ==
  /\ toSvr' = [c \in Conn |-> IF c = link[s] THEN <<>> ELSE toSvr[c]]
  /\ link' = [link EXCEPT ![s] = Nobody] /\ isRun' = [isRun EXCEPT ![s] = FALSE]
  /\ status' = [status EXCEPT ![s] = "normal"] /\ curInfo' = [curInfo EXCEPT ![s] = "normal"]
  /\ allSvr' = [allSvr EXCEPT ![s] = NoList]
  /\ UNCHANGED <<open, uid, servers, toReg, owner, overlap>>

--------------------------------------------------------------------------------
(* The registry.                                                           *)

\* What reaches a server: what is sent on the connection it still has.
Reaches(c) == owner[c] # Nobody /\ link[owner[c]] = c

\* UpdateServerList of reg, then `more` on c: to whom it goes, and what they get.
Receivers(reg) == {reg[s].conn : s \in DOMAIN reg}
ListOf(reg) == [kind |-> "list", list |-> [s \in DOMAIN reg |-> reg[s].status]]
UpdateServerList(reg, c, more) ==
  LET news(d) == (IF d \in Receivers(reg) THEN <<ListOf(reg)>> ELSE <<>>)
                 \o (IF d = c THEN more ELSE <<>>)
  IN  /\ \A d \in Conn : Reaches(d) => Len(toSvr[d]) + Len(news(d)) <= MaxMsgs
      /\ toSvr' = [d \in Conn |-> IF Reaches(d) THEN toSvr[d] \o news(d) ELSE toSvr[d]]

\* m_mpServers.insert, which leaves an entry that is there already alone.
Entered(c, info) ==
  IF info.svrid \in DOMAIN servers THEN servers
  ELSE [s \in DOMAIN servers \cup {info.svrid} |->
          IF s = info.svrid THEN [conn |-> c, status |-> info.status] ELSE servers[s]]

\* handle_msg_register_svr: AddServer, and the reply.
Register(c) ==
  LET info == Head(toReg[c])
  IN  /\ toReg[c] # <<>> /\ info.kind = "register"
      /\ toReg' = [toReg EXCEPT ![c] = Tail(@)]
      /\ uid' = [uid EXCEPT ![c] = info.svrid]
      /\ servers' = Entered(c, info)
      /\ UpdateServerList(servers', c, <<[kind |-> "registered"]>>)
      /\ overlap' = IF \E d \in open \ {c} : owner[d] = owner[c]
                    THEN overlap \cup {c} ELSE overlap
      /\ UNCHANGED <<serverVars, open, owner>>

\* handle_msg_change_server_info.
ChangeInfo(c) ==
  LET info == Head(toReg[c])
  IN  /\ toReg[c] # <<>> /\ info.kind = "change"
      /\ toReg' = [toReg EXCEPT ![c] = Tail(@)]
      /\ IF info.svrid \in DOMAIN servers
         THEN /\ servers' = [servers EXCEPT ![info.svrid].status = info.status]
              /\ UpdateServerList(servers', c, <<>>)
         ELSE UNCHANGED <<servers, toSvr>>
      /\ UNCHANGED <<serverVars, open, uid, owner, overlap>>

Without(reg, s) == [t \in DOMAIN reg \ {s} |-> reg[t]]

\* MUTANT: the servers are told before the one that went is taken out.
RemoveServerLate(c) ==
  /\ \/ \E s \in DOMAIN servers :
          /\ uid[servers[s].conn] = uid[c]
          /\ servers' = Without(servers, s) /\ uid' = [uid EXCEPT ![c] = Nobody]
     \/ /\ \A s \in DOMAIN servers : uid[servers[s].conn] # uid[c]
        /\ UNCHANGED <<servers, uid>>
  /\ UpdateServerList(servers, c, <<>>)

\* MUTANT: the connection loses its uid before the server is looked for.
RemoveServerUnnamed(c) ==
  /\ uid' = [uid EXCEPT ![c] = Nobody]
  /\ \/ \E s \in DOMAIN servers :
          uid'[servers[s].conn] = Nobody /\ servers[s].conn # c /\ servers' = Without(servers, s)
     \/ (\A s \in DOMAIN servers : uid'[servers[s].conn] # Nobody \/ servers[s].conn = c)
        /\ UNCHANGED servers
  /\ UpdateServerList(servers', c, <<>>)

\* RemoveServer: the server whose connection bears the uid of the one that closed is taken
\* out, whichever connection it registered on, and the others are told.
RemoveServer(c) ==
  /\ \/ \E s \in DOMAIN servers :
          /\ uid[servers[s].conn] = uid[c]
          /\ servers' = Without(servers, s) /\ uid' = [uid EXCEPT ![c] = Nobody]
     \/ /\ \A s \in DOMAIN servers : uid[servers[s].conn] # uid[c]
        /\ UNCHANGED <<servers, uid>>
  /\ UpdateServerList(servers', c, <<>>)

\* The registry sees a connection close, whether its server has or not.
Close(c) ==
  /\ c \in open
  /\ open' = open \ {c}
  /\ RemoveServer(c)
  /\ toReg' = [toReg EXCEPT ![c] = <<>>]
  /\ UNCHANGED <<serverVars, owner, overlap>>

\* The registry's process ends and starts again.
RegistryRestart ==
  /\ open' = {} /\ servers' = [s \in {} |-> Nobody]
  /\ uid' = [c \in Conn |-> Nobody] /\ toReg' = [c \in Conn |-> <<>>]
  /\ UNCHANGED <<serverVars, toSvr, owner, overlap>>

Next ==
  \/ \E s \in Server :
       \/ \E c \in Conn : OnConnect(s, c)
       \/ ChangeStatus(s) \/ OnTimer(s) \/ OnServerMsg(s) \/ OnCloseClient(s) \/ Restart(s)
  \/ \E c \in Conn : Register(c) \/ ChangeInfo(c) \/ Close(c)
  \/ RegistryRestart

Spec == Init /\ [][Next]_vars

--------------------------------------------------------------------------------
(* Properties.                                                             *)

Lists == UNION {[S -> Statuses] : S \in SUBSET Server}

TypeOK ==
  /\ link \in [Server -> Conn \cup {Nobody}] /\ isRun \in [Server -> BOOLEAN]
  /\ status \in [Server -> Statuses] /\ curInfo \in [Server -> Statuses]
  /\ allSvr \in [Server -> Lists]
  /\ open \in SUBSET Conn /\ uid \in [Conn -> Server \cup {Nobody}]
  /\ servers \in UNION {[S -> [conn : Conn, status : Statuses]] : S \in SUBSET Server}
  /\ toReg \in [Conn -> Seq(Requests)]
  /\ toSvr \in [Conn -> Seq([kind : {"registered"}] \cup [kind : {"list"}, list : Lists])]
  /\ owner \in [Conn -> Server \cup {Nobody}] /\ overlap \in SUBSET Conn

\* An entry is under an open connection that its own server opened and named itself on.
EntriesLive ==
  \A s \in DOMAIN servers :
    servers[s].conn \in open /\ owner[servers[s].conn] = s /\ uid[servers[s].conn] = s

\* What is sent to a server goes to an open connection of its own; and a server that
\* registered is found under its connection for as long as it has it - unless an older
\* connection of it was still open when it registered: then the entry of the old connection
\* stays, and goes when that closes, with the new connection never entered.
Named(s) == link[s] \in open \ overlap /\ uid[link[s]] = s

Registered ==
  /\ EntriesLive
  /\ \A s \in Server : Named(s) => s \in DOMAIN servers /\ servers[s].conn = link[s]

\* Once nothing is under way to a registered server, it has the list of the registry.
ListsAgree ==
  \A s \in DOMAIN servers :
    servers[s].conn = link[s] /\ toSvr[link[s]] = <<>> =>
      allSvr[s] = ListOf(servers).list

\* Once nothing is under way from a registered server, the registry has the status it noted,
\* also when that changed while its connection was down and the report was dropped.  (A report
\* still under way on an older connection can overtake the registration on the new one.)
StatusKnown ==
  \A s \in DOMAIN servers :
    servers[s].conn = link[s] /\ link[s] \notin overlap /\ toReg[link[s]] = <<>> =>
      servers[s].status = curInfo[s]
================================================================================
