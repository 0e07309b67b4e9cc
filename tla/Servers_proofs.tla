----------------------------- MODULE Servers_proofs -----------------------------
(***************************************************************************)
(* A server that registers on a connection whose predecessors are closed   *)
(* stays in the registry for as long as it has the connection; and what    *)
(* the registry and such a server know of each other agrees as soon as     *)
(* nothing is under way between them.                                      *)
(***************************************************************************)
EXTENDS Servers, TLAPS

\* A connection is opened by one server, bears its uid or none, and carries its registrations.
\* A server that is named on its only open connection has no other one to lose its entry by.
RegType ==
  /\ link \in [Server -> Conn \cup {Nobody}] /\ open \in SUBSET Conn
  /\ uid \in [Conn -> Server \cup {Nobody}] /\ owner \in [Conn -> Server \cup {Nobody}]
  /\ toReg \in [Conn -> Seq(Requests)]
  /\ curInfo \in [Server -> Statuses] /\ status \in [Server -> Statuses]
  /\ DOMAIN servers \subseteq Server

Owned ==
  /\ \A s \in Server : link[s] # Nobody => owner[link[s]] = s
  /\ \A c \in open : owner[c] # Nobody
  /\ \A c \in Conn : uid[c] # Nobody => uid[c] = owner[c]
  /\ \A c \in Conn : \A i \in DOMAIN toReg[c] : toReg[c][i].svrid = owner[c]
  /\ \A c \in Conn : toReg[c] # <<>> => c \in open

OnlyOne == \A s \in Server : Named(s) => \A d \in open : owner[d] = s => d = link[s]

IInv == RegType /\ Owned /\ OnlyOne /\ Registered

\* A request names a server.
LEMMA RequestNames == \A m \in Requests : m.svrid \in Server
BY DEF Requests

\* What SendMsg2Svr leaves of the messages to the registry.
LEMMA SentByOwner ==
  ASSUME RegType, Owned, NEW c \in Conn, NEW s \in Server, NEW run,
         NEW msg \in Requests,
         msg.svrid = s, owner'[c] = s, owner[c] \in {s, Nobody},
         \A d \in Conn \ {c} : owner'[d] = owner[d],
         SendMsg2Svr(c, run, msg)
  PROVE  /\ toReg' \in [Conn -> Seq(Requests)]
         /\ \A d \in Conn : \A i \in DOMAIN toReg'[d] : toReg'[d][i].svrid = owner'[d]
<1>0. toReg \in [Conn -> Seq(Requests)] BY DEF RegType
<1>1. \A i \in DOMAIN toReg[c] : toReg[c][i].svrid = s
  <2> SUFFICES ASSUME NEW i \in DOMAIN toReg[c] PROVE toReg[c][i].svrid = s OBVIOUS
  <2>1. toReg[c][i] \in Requests BY <1>0
  <2>2. toReg[c][i].svrid \in Server BY <2>1, RequestNames
  <2>3. toReg[c][i].svrid = owner[c] BY DEF Owned
  <2>4. QED BY <2>2, <2>3, ServersAssumption
<1>2. CASE UNCHANGED toReg BY <1>1, <1>2 DEF RegType, Owned
<1>3. CASE toReg' = [toReg EXCEPT ![c] = Append(@, msg)]
  <2>1. toReg'[c] = Append(toReg[c], msg) /\ \A d \in Conn \ {c} : toReg'[d] = toReg[d]
    BY <1>3 DEF RegType
  <2>2. Append(toReg[c], msg) \in Seq(Requests) BY <1>0
  <2>3. \A i \in DOMAIN Append(toReg[c], msg) : Append(toReg[c], msg)[i].svrid = s
    BY <1>0, <1>1
  <2>4. toReg' \in [Conn -> Seq(Requests)] BY <1>3, <2>2, <1>0
  <2>5. \A d \in Conn \ {c} : \A i \in DOMAIN toReg'[d] : toReg'[d][i].svrid = owner'[d]
    <3> SUFFICES ASSUME NEW d \in Conn \ {c}
                 PROVE  \A i \in DOMAIN toReg'[d] : toReg'[d][i].svrid = owner'[d]
      OBVIOUS
    <3>1. toReg'[d] = toReg[d] /\ owner'[d] = owner[d] BY <2>1
    <3>2. \A i \in DOMAIN toReg[d] : toReg[d][i].svrid = owner[d] BY DEF Owned
    <3>3. QED BY <3>1, <3>2
  <2>6. \A i \in DOMAIN toReg'[c] : toReg'[c][i].svrid = owner'[c] BY <2>1, <2>3
  <2>7. QED BY <2>4, <2>5, <2>6
<1>4. QED BY <1>2, <1>3 DEF SendMsg2Svr

\* What is left of a channel when its first message was read or all were lost.
LEMMA ReadByRegistry ==
  ASSUME RegType, Owned, NEW c \in Conn,
         \/ toReg' = [toReg EXCEPT ![c] = Tail(@)] /\ toReg[c] # <<>>
         \/ toReg' = [toReg EXCEPT ![c] = <<>>],
         UNCHANGED owner
  PROVE  /\ toReg' \in [Conn -> Seq(Requests)]
         /\ \A d \in Conn : \A i \in DOMAIN toReg'[d] : toReg'[d][i].svrid = owner'[d]
<1>0. toReg \in [Conn -> Seq(Requests)] BY DEF RegType
<1>1. \A i \in DOMAIN toReg[c] : toReg[c][i].svrid = owner[c] BY DEF Owned
<1>2. CASE toReg' = [toReg EXCEPT ![c] = Tail(@)] /\ toReg[c] # <<>>
  <2>1. Tail(toReg[c]) \in Seq(Requests)
        /\ \A i \in DOMAIN Tail(toReg[c]) : Tail(toReg[c])[i].svrid = owner[c]
    BY <1>0, <1>1, <1>2
  <2>2. toReg'[c] = Tail(toReg[c]) /\ \A d \in Conn \ {c} : toReg'[d] = toReg[d]
    BY <1>2 DEF RegType
  <2>3. toReg' \in [Conn -> Seq(Requests)] BY <1>0, <1>2, <2>1
  <2>4. QED BY <2>1, <2>2, <2>3 DEF Owned
<1>3. CASE toReg' = [toReg EXCEPT ![c] = <<>>]
  <2>1. toReg' \in [Conn -> Seq(Requests)] BY <1>0, <1>3
  <2>2. toReg'[c] = <<>> /\ \A d \in Conn \ {c} : toReg'[d] = toReg[d]
    BY <1>3 DEF RegType
  <2>3. QED BY <2>1, <2>2 DEF Owned
<1>4. QED BY <1>2, <1>3

\* A step that touches neither connections nor entries keeps what depends on them.
LEMMA KeptByOthers ==
  ASSUME IInv, UNCHANGED <<open, uid, owner, overlap>>,
         /\ DOMAIN servers' = DOMAIN servers
         /\ \A s \in DOMAIN servers : servers'[s].conn = servers[s].conn,
         \A s \in Server : link'[s] \in {link[s], Nobody}
  PROVE  OnlyOne' /\ Registered'
<1>1. \A s \in Server : Named(s)' => Named(s) /\ link'[s] = link[s]
  BY ServersAssumption DEF Named, IInv, RegType
<1>2. OnlyOne' BY <1>1 DEF IInv, OnlyOne
<1>3. EntriesLive' BY DEF IInv, Registered, EntriesLive
<1>4. QED BY <1>1, <1>2, <1>3 DEF IInv, Registered

\* A new connection is nobody's second one until the server registers on it.
LEMMA ConnectKeeps ==
  ASSUME IInv, NEW s \in Server, NEW c \in Conn, OnConnect(s, c) PROVE IInv'
<1> USE ServersAssumption
<1>1. RegType' /\ Owned'
  <2>1. Message("register", s) \in Requests
        /\ Message("register", s).svrid = s
    BY DEF Message, OnConnect, IInv, RegType, Requests
  <2>2. owner'[c] = s /\ owner[c] = Nobody /\ (\A d \in Conn \ {c} : owner'[d] = owner[d])
    BY DEF OnConnect, IInv, RegType
  <2>3. /\ toReg' \in [Conn -> Seq(Requests)]
        /\ \A d \in Conn : \A i \in DOMAIN toReg'[d] : toReg'[d][i].svrid = owner'[d]
    BY <2>1, <2>2, SentByOwner DEF OnConnect, IInv
  <2>4. RegType' BY <2>3 DEF OnConnect, IInv, RegType
  <2>5. /\ \A t \in Server : link'[t] # Nobody => owner'[link'[t]] = t
        /\ \A d \in open' : owner'[d] # Nobody
        /\ \A d \in Conn : uid'[d] # Nobody => uid'[d] = owner'[d]
    BY <2>2 DEF OnConnect, IInv, RegType, Owned
  <2>6. \A d \in Conn : toReg'[d] # <<>> => d \in open'
    <3>1. \A d \in Conn \ {c} : toReg'[d] = toReg[d]
      BY DEF OnConnect, SendMsg2Svr, IInv, RegType
    <3>2. QED BY <3>1 DEF OnConnect, IInv, Owned
  <2>7. QED BY <2>3, <2>4, <2>5, <2>6 DEF Owned
<1>2. uid[c] = Nobody /\ c \notin open BY DEF OnConnect, IInv, RegType, Owned
<1>3. \A t \in Server : Named(t)' => Named(t) /\ t # s /\ link'[t] = link[t]
  BY <1>2 DEF Named, OnConnect, IInv, RegType, Owned
<1>4. OnlyOne' BY <1>2, <1>3 DEF OnlyOne, OnConnect, IInv, RegType
<1>5. EntriesLive' BY <1>2 DEF EntriesLive, Registered, OnConnect, IInv, RegType
<1>6. QED BY <1>1, <1>3, <1>4, <1>5 DEF IInv, Registered, OnConnect

\* A registration enters the server, or finds an entry of the same connection, or overlaps.
LEMMA RegisterKeeps ==
  ASSUME IInv, NEW c \in Conn, Register(c) PROVE IInv'
<1> USE ServersAssumption
<1> DEFINE s == owner[c]
<1>1. c \in Conn /\ Head(toReg[c]).svrid = s /\ s \in Server
  <2>1. toReg[c] \in Seq(Requests)
        /\ toReg[c] # <<>>
    BY DEF Register, IInv, RegType
  <2>2. 1 \in DOMAIN toReg[c] /\ Head(toReg[c]) = toReg[c][1] BY <2>1
  <2>3. Head(toReg[c]).svrid \in Server BY <2>1, <2>2, RequestNames
  <2>4. QED BY <2>2, <2>3 DEF IInv, Owned
<1>2. /\ uid' = [uid EXCEPT ![c] = s] /\ UNCHANGED <<link, open, owner, curInfo, status>>
      /\ toReg' = [toReg EXCEPT ![c] = Tail(@)] /\ toReg[c] # <<>>
      /\ overlap' = IF \E d \in open \ {c} : owner[d] = s THEN overlap \cup {c} ELSE overlap
  BY <1>1 DEF Register, serverVars
<1>3. /\ DOMAIN servers' = DOMAIN servers \cup {s}
      /\ \A t \in DOMAIN servers : servers'[t] = servers[t]
      /\ s \notin DOMAIN servers => servers'[s].conn = c
  BY <1>1 DEF Register, Entered
<1>4. RegType' BY <1>1, <1>2, <1>3, ReadByRegistry DEF IInv, RegType
<1>5. Owned' BY <1>1, <1>2, ReadByRegistry DEF IInv, RegType, Owned
<1>6. c \in open BY <1>2 DEF IInv, Owned
<1>7. \A t \in Server : Named(t)' /\ ~(t = s /\ link[t] = c) => Named(t) /\ link[t] # c
  BY <1>1, <1>2, <1>6 DEF Named, IInv, RegType, Owned, OnlyOne
<1>8. OnlyOne'
  <2>1. CASE link[s] = c /\ Named(s)'
    <3>1. \A d \in open : owner[d] = s => d = c BY <1>2, <2>1 DEF Named
    <3>2. QED BY <1>2, <1>7, <2>1, <3>1 DEF OnlyOne, IInv
  <2>2. CASE ~(link[s] = c /\ Named(s)') BY <1>2, <1>7, <2>2 DEF OnlyOne, IInv
  <2>3. QED BY <2>1, <2>2
<1>9. EntriesLive'
  BY <1>1, <1>2, <1>3, <1>6 DEF EntriesLive, Registered, IInv, RegType
<1>10. ASSUME NEW t \in Server, Named(t)' PROVE t \in DOMAIN servers' /\ servers'[t].conn = link'[t]
  <2>1. CASE t = s /\ link[t] = c
    <3>1. CASE s \in DOMAIN servers
      <4>1. \A d \in open : owner[d] = s => d = c BY <1>2, <1>10, <2>1 DEF Named
      <4>2. servers[s].conn = c BY <3>1, <4>1 DEF IInv, Registered, EntriesLive
      <4>3. QED BY <1>2, <1>3, <2>1, <3>1, <4>2
    <3>2. CASE s \notin DOMAIN servers BY <1>2, <1>3, <2>1, <3>2
    <3>3. QED BY <3>1, <3>2
  <2>2. CASE ~(t = s /\ link[t] = c)
    BY <1>2, <1>3, <1>7, <1>10, <2>2 DEF IInv, Registered
  <2>3. QED BY <2>1, <2>2
<1>11. QED BY <1>4, <1>5, <1>8, <1>9, <1>10 DEF IInv, Registered

\* The connection that closes is not the only one of a server that is named on another.
LEMMA CloseKeeps ==
  ASSUME IInv, NEW c \in Conn, Close(c) PROVE IInv'
<1> USE ServersAssumption
<1>1. /\ c \in open /\ open' = open \ {c} /\ toReg' = [toReg EXCEPT ![c] = <<>>]
      /\ UNCHANGED <<link, curInfo, status, owner, overlap>>
  BY DEF Close, serverVars
<1>2. \/ \E s \in DOMAIN servers :
           /\ uid[servers[s].conn] = uid[c]
           /\ servers' = Without(servers, s) /\ uid' = [uid EXCEPT ![c] = Nobody]
      \/ /\ \A s \in DOMAIN servers : uid[servers[s].conn] # uid[c]
         /\ UNCHANGED <<servers, uid>>
  BY DEF Close, RemoveServer
<1>3. \A t \in DOMAIN servers' :
        t \in DOMAIN servers /\ servers'[t] = servers[t] /\ servers[t].conn # c
  <2>1. CASE \E s \in DOMAIN servers : uid[servers[s].conn] = uid[c] /\ servers' = Without(servers, s)
    BY <2>1 DEF Without, IInv, Registered, EntriesLive
  <2>2. QED BY <1>2, <2>1
<1>4. \A d \in Conn \ {c} : uid'[d] = uid[d] BY <1>2 DEF IInv, RegType
<1>5. uid' \in [Conn -> Server \cup {Nobody}] /\ uid'[c] \in {uid[c], Nobody}
  BY <1>2 DEF IInv, RegType
<1>6. RegType' BY <1>1, <1>3, <1>5, ReadByRegistry DEF IInv, RegType
<1>7. Owned'
  <2>1. \A d \in Conn : \A i \in DOMAIN toReg'[d] : toReg'[d][i].svrid = owner'[d]
    BY <1>1, ReadByRegistry DEF IInv
  <2>2. toReg'[c] = <<>> /\ \A d \in Conn \ {c} : toReg'[d] = toReg[d]
    BY <1>1 DEF IInv, RegType
  <2>3. QED BY <1>1, <1>4, <1>5, <2>1, <2>2 DEF IInv, Owned
<1>8. \A t \in Server : Named(t)' => Named(t) /\ link[t] # c
  BY <1>1, <1>4 DEF Named, IInv, RegType
<1>9. OnlyOne' BY <1>1, <1>8 DEF OnlyOne, IInv
<1>10. EntriesLive' BY <1>1, <1>3, <1>4 DEF EntriesLive, Registered, IInv, RegType
<1>11. ASSUME NEW t \in Server, Named(t)' PROVE t \in DOMAIN servers' /\ servers'[t].conn = link'[t]
  <2>1. t \in DOMAIN servers /\ servers[t].conn = link[t] /\ uid[link[t]] = t /\ link[t] # c
    BY <1>8, <1>11 DEF Named, IInv, Registered
  <2>2. uid[c] # t BY <1>1, <1>8, <1>11, <2>1 DEF IInv, Owned, OnlyOne
  <2>3. t \in DOMAIN servers' BY <1>2, <2>1, <2>2 DEF Without
  <2>4. QED BY <1>1, <1>3, <2>1, <2>3
<1>12. QED BY <1>6, <1>7, <1>9, <1>10, <1>11 DEF IInv, Registered

\* The invariant holds in every state, of any servers and connections.
THEOREM ServersInvariant == Spec => []IInv
<1> USE ServersAssumption
<1>1. Init => IInv
  BY DEF Init, IInv, RegType, Owned, OnlyOne, Registered, EntriesLive, Named, Statuses
<1>2. ASSUME IInv, [Next]_vars PROVE IInv'
  <2>1. CASE \E s \in Server, c \in Conn : OnConnect(s, c) BY <1>2, <2>1, ConnectKeeps
  <2>2. ASSUME NEW s \in Server, ChangeStatus(s) PROVE IInv'
    <3>1. OnlyOne' /\ Registered' BY <1>2, <2>2, KeptByOthers DEF ChangeStatus
    <3>2. QED BY <1>2, <2>2, <3>1 DEF ChangeStatus, IInv, RegType, Owned, Statuses
  <2>3. ASSUME NEW s \in Server, OnTimer(s) PROVE IInv'
    <3>1. OnlyOne' /\ Registered' BY <1>2, <2>3, KeptByOthers DEF OnTimer
    <3>2. curInfo' \in [Server -> Statuses] BY <1>2, <2>3 DEF OnTimer, IInv, RegType
    <3>3. CASE UNCHANGED toReg
      BY <1>2, <2>3, <3>1, <3>2, <3>3 DEF OnTimer, IInv, RegType, Owned
    <3>4. CASE toReg' # toReg
      <4>1. link[s] \in open /\ SendMsg2Svr(link[s], isRun[s], Message("change", s))
        BY <2>3, <3>4 DEF OnTimer, SendMsg2Svr
      <4>2. /\ Message("change", s) \in Requests
            /\ Message("change", s).svrid = s
        BY <3>2 DEF Message, Requests
      <4>3. link[s] \in Conn /\ owner[link[s]] = s /\ UNCHANGED owner
        BY <1>2, <2>3, <4>1 DEF OnTimer, IInv, RegType, Owned
      <4>4. /\ toReg' \in [Conn -> Seq(Requests)]
            /\ \A d \in Conn : \A i \in DOMAIN toReg'[d] : toReg'[d][i].svrid = owner'[d]
        BY <1>2, <4>1, <4>2, <4>3, SentByOwner DEF IInv
      <4>5. \A d \in Conn \ {link[s]} : toReg'[d] = toReg[d]
        BY <1>2, <3>4, <4>1 DEF SendMsg2Svr, IInv, RegType
      <4>6. QED BY <1>2, <2>3, <3>1, <3>2, <4>1, <4>4, <4>5 DEF OnTimer, IInv, RegType, Owned
    <3>5. QED BY <3>3, <3>4
  <2>4. ASSUME NEW s \in Server, OnServerMsg(s) PROVE IInv'
    <3>1. UNCHANGED <<link, status, curInfo, open, uid, servers, toReg, owner, overlap>>
      BY <2>4 DEF OnServerMsg
    <3>2. OnlyOne' /\ Registered' BY <1>2, <3>1, KeptByOthers
    <3>3. QED BY <1>2, <3>1, <3>2 DEF IInv, RegType, Owned
  <2>5. ASSUME NEW s \in Server, OnCloseClient(s) \/ Restart(s) PROVE IInv'
    <3>1. /\ link' = [link EXCEPT ![s] = Nobody] /\ curInfo' \in [Server -> Statuses]
          /\ status' \in [Server -> Statuses]
          /\ UNCHANGED <<open, uid, servers, toReg, owner, overlap>>
      BY <1>2, <2>5 DEF OnCloseClient, Restart, IInv, RegType, Statuses
    <3>2. \A t \in Server : link'[t] \in {link[t], Nobody} BY <1>2, <3>1 DEF IInv, RegType
    <3>3. OnlyOne' /\ Registered' BY <1>2, <3>1, <3>2, KeptByOthers
    <3>4. QED BY <1>2, <3>1, <3>2, <3>3 DEF IInv, RegType, Owned
  <2>6. ASSUME NEW c \in Conn, ChangeInfo(c) PROVE IInv'
    <3>1. /\ UNCHANGED <<link, status, curInfo, open, uid, owner, overlap>>
          /\ toReg' = [toReg EXCEPT ![c] = Tail(@)] /\ toReg[c] # <<>>
          /\ DOMAIN servers' = DOMAIN servers
          /\ \A s \in DOMAIN servers : servers'[s].conn = servers[s].conn
      <4>1. PICK info : IF info.svrid \in DOMAIN servers
                        THEN servers' = [servers EXCEPT ![info.svrid].status = info.status]
                        ELSE UNCHANGED servers
        BY <2>6 DEF ChangeInfo
      <4>2. CASE info.svrid \in DOMAIN servers
        <5>1. servers' = [servers EXCEPT ![info.svrid].status = info.status] BY <4>1, <4>2
        <5>2. DOMAIN servers' = DOMAIN servers BY <5>1
        <5>3. ASSUME NEW s \in DOMAIN servers PROVE servers'[s].conn = servers[s].conn
          BY <5>1
        <5>4. QED BY <2>6, <5>2, <5>3 DEF ChangeInfo, serverVars
      <4>3. CASE info.svrid \notin DOMAIN servers
        BY <2>6, <4>1, <4>3 DEF ChangeInfo, serverVars
      <4>4. QED BY <4>2, <4>3
    <3>2. OnlyOne' /\ Registered' BY <1>2, <3>1, KeptByOthers
    <3>3. RegType' BY <1>2, <3>1, ReadByRegistry DEF IInv, RegType
    <3>4. c \in open /\ \A d \in Conn \ {c} : toReg'[d] = toReg[d]
      BY <1>2, <3>1 DEF IInv, RegType, Owned
    <3>5. \A d \in Conn : \A i \in DOMAIN toReg'[d] : toReg'[d][i].svrid = owner'[d]
      BY <1>2, <3>1, ReadByRegistry DEF IInv
    <3>6. Owned' BY <1>2, <3>1, <3>4, <3>5 DEF IInv, Owned
    <3>7. QED BY <3>2, <3>3, <3>6 DEF IInv
  <2>7. CASE \E c \in Conn : Register(c) BY <1>2, <2>7, RegisterKeeps
  <2>8. CASE \E c \in Conn : Close(c) BY <1>2, <2>8, CloseKeeps
  <2>9. CASE RegistryRestart
    BY <1>2, <2>9 DEF RegistryRestart, serverVars, IInv, RegType, Owned, OnlyOne, Registered,
                      EntriesLive, Named
  <2>10. CASE UNCHANGED vars
    <3>1. OnlyOne' /\ Registered' BY <1>2, <2>10, KeptByOthers DEF vars, serverVars
    <3>2. QED BY <1>2, <2>10, <3>1 DEF vars, serverVars, IInv, RegType, Owned
  <2>11. QED
    BY <1>2, <2>1, <2>2, <2>3, <2>4, <2>5, <2>6, <2>7, <2>8, <2>9, <2>10 DEF Next
<1>3. QED BY <1>1, <1>2, PTL DEF Spec

\* A server that registered when no older connection of it was open stays in the registry, under
\* its connection, until one of the two sides closes that; and no message for a server goes to
\* a connection that is another's.
THEOREM RegisteredStay == Spec => []Registered
<1>1. IInv => Registered BY DEF IInv
<1>2. QED BY <1>1, ServersInvariant, PTL

--------------------------------------------------------------------------------
(* What the registry and a server know of each other.                      *)

Messages == [kind : {"registered"}] \cup [kind : {"list"}, list : Lists]

\* Who has the list `have` and reads the messages `sent` has the list `l` in the end.
Leaves(sent, have, l) ==
  \/ \E i \in DOMAIN sent :
       /\ sent[i] = [kind |-> "list", list |-> l]
       /\ \A j \in DOMAIN sent : j > i => sent[j].kind # "list"
  \/ have = l /\ \A j \in DOMAIN sent : sent[j].kind # "list"

\* A registered server has the list of the registry, or it is the last one on its way.
ListsReach ==
  \A s \in DOMAIN servers :
    servers[s].conn = link[s] => Leaves(toSvr[link[s]], allSvr[s], ListOf(servers).list)

\* A connector with a connection runs: nothing it sends is dropped.
Running == \A s \in Server : link[s] # Nobody => isRun[s]

\* A registration is the first message on its connection.
RegisterFirst ==
  \A c \in Conn : \A i \in DOMAIN toReg[c] :
    toReg[c][i].kind = "register" => i = 1 /\ uid[c] = Nobody

\* The last message on the connection of a server has the status it noted.
LastReport ==
  \A s \in Server : link[s] # Nobody /\ toReg[link[s]] # <<>> =>
    toReg[link[s]][Len(toReg[link[s]])].status = curInfo[s]

KInv == TypeOK /\ ListsReach /\ Running /\ RegisterFirst /\ LastReport /\ StatusKnown

\* The messages to a server, of which the first is read or to which the registry adds.
LEMMA LeavesAfterNews ==
  ASSUME NEW sent \in Seq(Messages), NEW have, NEW l \in Lists, NEW L, L = [kind |-> "list", list |-> l],
         NEW more, more \in {<<>>, <<[kind |-> "registered"]>>}
  PROVE  Leaves(sent \o (<<L>> \o more), have, l)
<1> DEFINE all == sent \o (<<L>> \o more)
           n == Len(sent) + 1
<1>0. L \in Messages /\ [kind |-> "registered"] \in Messages BY DEF Messages
<1>1. <<L>> \o more \in Seq(Messages)
  <2>1. <<L>> \in Seq(Messages) BY <1>0
  <2>2. more \in Seq(Messages)
    <3>1. <<>> \in Seq(Messages) OBVIOUS
    <3>2. <<[kind |-> "registered"]>> \in Seq(Messages) BY <1>0
    <3>3. QED BY <3>1, <3>2
  <2>3. QED BY <2>1, <2>2
<1>2. Len(<<L>> \o more) = 1 + Len(more) /\ (<<L>> \o more)[1] = L OBVIOUS
<1>3. \A j \in DOMAIN more : more[j].kind = "registered" OBVIOUS
<1>4. n \in DOMAIN all /\ all[n] = L BY <1>1, <1>2
<1>5. ASSUME NEW j \in DOMAIN all, j > n PROVE all[j].kind # "list"
  <2>1. CASE more = <<>> BY <1>5, <2>1
  <2>2. CASE more = <<[kind |-> "registered"]>>
    <3>1. j = n + 1 /\ all[j] = [kind |-> "registered"] BY <1>5, <2>2
    <3>2. QED BY <3>1
  <2>3. QED BY <2>1, <2>2
<1>6. QED BY <1>4, <1>5 DEF Leaves

\* Reading the first message leaves the same list at the end.
LEMMA LeavesAfterRead ==
  ASSUME NEW sent \in Seq(Messages), NEW have, NEW l, Leaves(sent, have, l), sent # <<>>
  PROVE  /\ Head(sent).kind = "registered" => Leaves(Tail(sent), have, l)
         /\ Head(sent).kind = "list" => Leaves(Tail(sent), Head(sent).list, l)
<1>1. /\ Head(sent) = sent[1] /\ Len(sent) \in Nat /\ Len(sent) > 0
      /\ \A i \in DOMAIN Tail(sent) : i + 1 \in DOMAIN sent /\ Tail(sent)[i] = sent[i + 1]
      /\ DOMAIN sent = 1..Len(sent) /\ DOMAIN Tail(sent) = 1..(Len(sent) - 1)
  OBVIOUS
<1>2. ASSUME NEW i \in DOMAIN sent, sent[i] = [kind |-> "list", list |-> l], i # 1,
             \A j \in DOMAIN sent : j > i => sent[j].kind # "list", NEW any
      PROVE  Leaves(Tail(sent), any, l)
  <2>1. i - 1 \in DOMAIN Tail(sent) /\ Tail(sent)[i - 1] = sent[i] BY <1>1, <1>2
  <2>2. \A j \in DOMAIN Tail(sent) : j > i - 1 => Tail(sent)[j].kind # "list" BY <1>1, <1>2
  <2>3. QED BY <1>2, <2>1, <2>2 DEF Leaves
<1>3. ASSUME NEW any, any = l, \A j \in DOMAIN sent : j > 1 => sent[j].kind # "list"
      PROVE  Leaves(Tail(sent), any, l)
  BY <1>1, <1>3 DEF Leaves
<1>4. CASE \E i \in DOMAIN sent :
             /\ sent[i] = [kind |-> "list", list |-> l]
             /\ \A j \in DOMAIN sent : j > i => sent[j].kind # "list"
  <2>1. PICK i \in DOMAIN sent :
               /\ sent[i] = [kind |-> "list", list |-> l]
               /\ \A j \in DOMAIN sent : j > i => sent[j].kind # "list"
    BY <1>4
  <2>2. CASE i = 1 BY <1>1, <1>3, <2>1, <2>2
  <2>3. CASE i # 1 BY <1>1, <1>2, <2>1, <2>3
  <2>4. QED BY <2>2, <2>3
<1>5. CASE have = l /\ \A j \in DOMAIN sent : sent[j].kind # "list" BY <1>1, <1>3, <1>5
<1>6. QED BY <1>4, <1>5 DEF Leaves

\* The list of a registry of typed entries is one of the lists.
LEMMA ListTyped ==
  ASSUME NEW reg \in UNION {[S -> [conn : Conn, status : Statuses]] : S \in SUBSET Server}
  PROVE  ListOf(reg) \in Messages /\ ListOf(reg).list \in Lists
<1>1. DOMAIN reg \in SUBSET Server /\ \A s \in DOMAIN reg : reg[s].status \in Statuses OBVIOUS
<1>2. [s \in DOMAIN reg |-> reg[s].status] \in [DOMAIN reg -> Statuses] BY <1>1
<1>3. [s \in DOMAIN reg |-> reg[s].status] \in Lists BY <1>1, <1>2 DEF Lists
<1>4. QED BY <1>3 DEF ListOf, Messages

\* The parts of TypeOK a step leaves alone need no more than that it does.
LEMMA TypeKept ==
  ASSUME TypeOK, RegType',
         /\ isRun' \in [Server -> BOOLEAN] /\ allSvr' \in [Server -> Lists]
         /\ servers' \in UNION {[S -> [conn : Conn, status : Statuses]] : S \in SUBSET Server}
         /\ toSvr' \in [Conn -> Seq(Messages)]
         /\ overlap' \in SUBSET Conn
  PROVE  TypeOK'
BY DEF TypeOK, RegType, Messages

\* UpdateServerList: what everybody who is reached has under way afterwards.
LEMMA Told ==
  ASSUME TypeOK, NEW reg \in UNION {[S -> [conn : Conn, status : Statuses]] : S \in SUBSET Server},
         NEW c \in Conn, NEW more, more \in {<<>>, <<[kind |-> "registered"]>>},
         UpdateServerList(reg, c, more), UNCHANGED <<link, allSvr, owner>>, Owned,
         \A s \in DOMAIN reg : owner[reg[s].conn] = s
  PROVE  /\ toSvr' \in [Conn -> Seq(Messages)]
         /\ servers' = reg => ListsReach'
<1> USE ServersAssumption
<1>0. /\ toSvr \in [Conn -> Seq(Messages)] /\ link \in [Server -> Conn \cup {Nobody}]
  BY DEF TypeOK, Messages
<1>1. ListOf(reg) \in Messages /\ ListOf(reg).list \in Lists BY ListTyped
<1>2. [kind |-> "registered"] \in Messages BY DEF Messages
<1> DEFINE news(d) == (IF d \in Receivers(reg) THEN <<ListOf(reg)>> ELSE <<>>)
                      \o (IF d = c THEN more ELSE <<>>)
<1>3. toSvr' = [d \in Conn |-> IF Reaches(d) THEN toSvr[d] \o news(d) ELSE toSvr[d]]
  BY DEF UpdateServerList
<1>4. \A d \in Conn : news(d) \in Seq(Messages)
  <2> SUFFICES ASSUME NEW d \in Conn PROVE news(d) \in Seq(Messages) OBVIOUS
  <2>1. (IF d \in Receivers(reg) THEN <<ListOf(reg)>> ELSE <<>>) \in Seq(Messages) BY <1>1
  <2>2. (IF d = c THEN more ELSE <<>>) \in Seq(Messages)
    <3>1. <<>> \in Seq(Messages) /\ <<[kind |-> "registered"]>> \in Seq(Messages) BY <1>2
    <3>2. QED BY <3>1
  <2>3. QED BY <2>1, <2>2
<1>5. \A d \in Conn : toSvr[d] \o news(d) \in Seq(Messages) BY <1>0, <1>4
<1>6. toSvr' \in [Conn -> Seq(Messages)] BY <1>0, <1>3, <1>5
<1>7. ASSUME servers' = reg, NEW s \in DOMAIN reg, reg[s].conn = link[s]
      PROVE  Leaves(toSvr'[link[s]], allSvr[s], ListOf(reg).list)
  <2> DEFINE d == link[s]
             end == IF d = c THEN more ELSE <<>>
  <2>1. d \in Conn /\ s \in Server /\ d \in Receivers(reg) BY <1>7 DEF Receivers
  <2>2. Reaches(d) BY <1>7, <2>1 DEF Reaches
  <2>3. toSvr'[d] = toSvr[d] \o (<<ListOf(reg)>> \o end) BY <1>3, <2>1, <2>2
  <2>4. ListOf(reg) = [kind |-> "list", list |-> ListOf(reg).list] BY DEF ListOf
  <2>5. end \in {<<>>, <<[kind |-> "registered"]>>} OBVIOUS
  <2>6. toSvr[d] \in Seq(Messages) BY <1>0, <2>1
  <2> HIDE DEF end, d
  <2>7. Leaves(toSvr[d] \o (<<ListOf(reg)>> \o end), allSvr[s], ListOf(reg).list)
    BY <1>1, <2>4, <2>5, <2>6, LeavesAfterNews
  <2>8. QED BY <2>3, <2>7 DEF d
<1>8. QED BY <1>6, <1>7 DEF ListsReach

\* No two servers have the same connection.
LEMMA LinksDiffer ==
  ASSUME Owned, NEW s \in Server, NEW t \in Server, link[s] # Nobody, link[s] = link[t]
  PROVE  s = t
BY DEF Owned

\* The connector: a new connection carries nothing but the registration.
LEMMA ConnectKnows ==
  ASSUME IInv, KInv, NEW s \in Server, NEW c \in Conn, OnConnect(s, c), RegType', Registered'
  PROVE  KInv'
<1> USE ServersAssumption
<1>1. c \notin open /\ toReg[c] = <<>> /\ uid[c] = Nobody
  BY DEF OnConnect, IInv, RegType, Owned
<1>2. /\ link' = [link EXCEPT ![s] = c] /\ isRun' = [isRun EXCEPT ![s] = TRUE] /\ c \in open'
      /\ UNCHANGED <<status, curInfo, allSvr, uid, servers, toSvr, overlap>>
  BY DEF OnConnect
<1>3. toReg' = [toReg EXCEPT ![c] = Append(@, Message("register", s))]
  BY <1>2 DEF OnConnect, SendMsg2Svr, KInv, TypeOK
<1>4. Message("register", s) = [kind |-> "register", svrid |-> s, status |-> curInfo[s]]
  BY <1>2 DEF Message
<1>5. /\ toReg'[c] = <<[kind |-> "register", svrid |-> s, status |-> curInfo[s]]>>
      /\ \A d \in Conn \ {c} : toReg'[d] = toReg[d]
  BY <1>1, <1>3, <1>4 DEF IInv, RegType
<1>6. TypeOK' BY <1>2, TypeKept DEF KInv, TypeOK, Messages
<1>7. \A t \in DOMAIN servers : servers[t].conn = link'[t] => servers[t].conn = link[t] /\ link[t] # c
  BY <1>1, <1>2 DEF IInv, RegType, Registered, EntriesLive
<1>8. ListsReach' BY <1>2, <1>7 DEF ListsReach, KInv
<1>9. Running' BY <1>2 DEF Running, KInv, TypeOK
<1>10. RegisterFirst' BY <1>1, <1>2, <1>5 DEF RegisterFirst, KInv
<1>11. LastReport'
  <2> SUFFICES ASSUME NEW t \in Server, link'[t] # Nobody, toReg'[link'[t]] # <<>>
               PROVE  toReg'[link'[t]][Len(toReg'[link'[t]])].status = curInfo'[t]
    BY DEF LastReport
  <2>1. CASE t = s BY <1>2, <1>5, <2>1 DEF IInv, RegType
  <2>2. CASE t # s
    <3>1. link'[t] = link[t] /\ link[t] # c /\ link[t] \in Conn
      BY <1>2, <2>2 DEF OnConnect, IInv, RegType, Owned
    <3>2. QED BY <1>2, <1>5, <3>1 DEF LastReport, KInv
  <2>3. QED BY <2>1, <2>2
<1>12. StatusKnown'
  <2> SUFFICES ASSUME NEW t \in DOMAIN servers, servers[t].conn = link'[t], link'[t] \notin overlap,
                      toReg'[link'[t]] = <<>>
               PROVE  servers[t].status = curInfo[t]
    BY <1>2 DEF StatusKnown
  <2>1. link'[t] = link[t] /\ link[t] \in Conn \ {c}
    BY <1>7 DEF IInv, RegType, Registered, EntriesLive
  <2>2. toReg[link[t]] = <<>> BY <1>5, <2>1
  <2>3. QED BY <2>1, <2>2 DEF StatusKnown, KInv
<1>13. QED BY <1>6, <1>8, <1>9, <1>10, <1>11, <1>12 DEF KInv

\* A status that is noted is on its way as soon as it is.
LEMMA TimerKnows ==
  ASSUME IInv, KInv, NEW s \in Server, OnTimer(s), RegType'
  PROVE  KInv'
<1> USE ServersAssumption
<1> DEFINE c == link[s]
<1>1. /\ curInfo' = [curInfo EXCEPT ![s] = status[s]]
      /\ UNCHANGED <<link, isRun, status, allSvr, open, uid, servers, toSvr, owner, overlap>>
      /\ SendMsg2Svr(c, isRun[s], Message("change", s))
  BY DEF OnTimer
<1>2. Message("change", s) = [kind |-> "change", svrid |-> s, status |-> curInfo'[s]]
  BY DEF Message
<1>3. TypeOK' BY <1>1, TypeKept DEF KInv, TypeOK, Messages
<1>4. ListsReach' /\ Running' BY <1>1 DEF ListsReach, Running, KInv
<1>5. \A t \in Server : t # s => curInfo'[t] = curInfo[t] BY <1>1 DEF IInv, RegType
<1>6. CASE c \in open
  <2>1. c \in Conn /\ owner[c] = s /\ isRun[s]
    BY <1>6 DEF IInv, RegType, Owned, KInv, Running
  <2>2. toReg' = [toReg EXCEPT ![c] = Append(@, Message("change", s))]
    BY <1>1, <1>6, <2>1 DEF SendMsg2Svr
  <2>3. /\ toReg'[c] = Append(toReg[c], Message("change", s)) /\ toReg[c] \in Seq(Requests)
        /\ \A d \in Conn \ {c} : toReg'[d] = toReg[d]
    BY <2>1, <2>2 DEF IInv, RegType
  <2>4. /\ toReg'[c] # <<>> /\ toReg'[c][Len(toReg'[c])] = Message("change", s)
        /\ \A i \in DOMAIN toReg'[c] : \/ i \in DOMAIN toReg[c] /\ toReg'[c][i] = toReg[c][i]
                                       \/ toReg'[c][i] = Message("change", s)
    BY <2>3
  <2>5. Message("change", s).kind = "change" /\ Message("change", s).status = curInfo'[s]
    BY <1>2
  <2>6. RegisterFirst'
    <3> SUFFICES ASSUME NEW d \in Conn, NEW i \in DOMAIN toReg'[d], toReg'[d][i].kind = "register"
                 PROVE  i = 1 /\ uid[d] = Nobody
      BY <1>1 DEF RegisterFirst
    <3>1. i \in DOMAIN toReg[d] /\ toReg'[d][i] = toReg[d][i]
      <4>1. CASE d = c
        <5>1. toReg'[d][i] # Message("change", s) BY <2>5
        <5>2. QED BY <2>4, <4>1, <5>1
      <4>2. CASE d # c
        <5>1. toReg'[d] = toReg[d] BY <2>3, <4>2
        <5>2. QED BY <5>1
      <4>3. QED BY <4>1, <4>2
    <3>2. QED BY <3>1 DEF RegisterFirst, KInv
  <2>7. \A t \in Server : t # s => link[t] # c BY <2>1 DEF IInv, Owned, RegType
  <2>8. LastReport' BY <1>1, <1>5, <2>3, <2>4, <2>5, <2>7 DEF LastReport, KInv, IInv, RegType
  <2>9. StatusKnown'
    BY <1>1, <1>5, <2>3, <2>4, <2>7 DEF StatusKnown, KInv, IInv, RegType, Registered, EntriesLive
  <2>10. QED BY <1>3, <1>4, <2>6, <2>8, <2>9 DEF KInv
<1>7. CASE c \notin open
  <2>1. UNCHANGED toReg BY <1>1, <1>7 DEF SendMsg2Svr
  <2>2. RegisterFirst' BY <1>1, <2>1 DEF RegisterFirst, KInv
  <2>3. link[s] # Nobody => toReg[link[s]] = <<>> BY <1>7 DEF IInv, RegType, Owned
  <2>4. LastReport' BY <1>1, <1>5, <2>1, <2>3 DEF LastReport, KInv
  <2>5. StatusKnown'
    <3> SUFFICES ASSUME NEW t \in DOMAIN servers, servers[t].conn = link[t], link[t] \notin overlap,
                        toReg[link[t]] = <<>>
                 PROVE  servers[t].status = curInfo'[t]
      BY <1>1, <2>1 DEF StatusKnown
    <3>1. t # s /\ t \in Server BY <1>7 DEF IInv, RegType, Registered, EntriesLive
    <3>2. curInfo'[t] = curInfo[t] BY <1>5, <3>1
    <3>3. QED BY <3>2 DEF StatusKnown, KInv
  <2>6. QED BY <1>3, <1>4, <2>2, <2>4, <2>5 DEF KInv
<1>8. QED BY <1>6, <1>7

\* A message that a server reads leaves it with what the others bring.
LEMMA ReadKnows ==
  ASSUME IInv, KInv, NEW s \in Server, OnServerMsg(s), RegType'
  PROVE  KInv'
<1> USE ServersAssumption
<1> DEFINE c == link[s]
<1>1. /\ c # Nobody /\ toSvr[c] # <<>> /\ toSvr' = [toSvr EXCEPT ![c] = Tail(@)]
      /\ \/ /\ Head(toSvr[c]).kind = "registered"
            /\ isRun' = [isRun EXCEPT ![s] = TRUE] /\ UNCHANGED allSvr
         \/ /\ Head(toSvr[c]).kind = "list"
            /\ allSvr' = [allSvr EXCEPT ![s] = Head(toSvr[c]).list] /\ UNCHANGED isRun
      /\ UNCHANGED <<link, status, curInfo, open, uid, servers, toReg, owner, overlap>>
  BY DEF OnServerMsg
<1>2. /\ c \in Conn /\ toSvr[c] \in Seq(Messages) /\ toSvr \in [Conn -> Seq(Messages)]
      /\ allSvr \in [Server -> Lists] /\ isRun \in [Server -> BOOLEAN]
  BY <1>1 DEF KInv, TypeOK, Messages
<1>3. toSvr'[c] = Tail(toSvr[c]) /\ \A d \in Conn \ {c} : toSvr'[d] = toSvr[d] BY <1>1, <1>2
<1>4. Head(toSvr[c]) \in Messages /\ Tail(toSvr[c]) \in Seq(Messages) BY <1>1, <1>2
<1>5. Head(toSvr[c]).kind = "list" => Head(toSvr[c]).list \in Lists BY <1>4 DEF Messages
<1>6. TypeOK'
  <2>1. toSvr' \in [Conn -> Seq(Messages)] BY <1>1, <1>2, <1>4
  <2>2. allSvr' \in [Server -> Lists] /\ isRun' \in [Server -> BOOLEAN] BY <1>1, <1>2, <1>5
  <2>3. QED BY <1>1, <2>1, <2>2, TypeKept DEF KInv, TypeOK
<1>7. Running' BY <1>1, <1>2 DEF Running, KInv
<1>8. RegisterFirst' /\ LastReport' /\ StatusKnown'
  BY <1>1 DEF RegisterFirst, LastReport, StatusKnown, KInv
<1>9. ListsReach'
  <2> SUFFICES ASSUME NEW t \in DOMAIN servers, servers[t].conn = link[t]
               PROVE  Leaves(toSvr'[link[t]], allSvr'[t], ListOf(servers).list)
    BY <1>1 DEF ListsReach
  <2>1. Leaves(toSvr[link[t]], allSvr[t], ListOf(servers).list) /\ t \in Server /\ link[t] \in Conn
    BY DEF KInv, ListsReach, IInv, RegType, Registered, EntriesLive
  <2>2. CASE t = s
    <3>1. CASE Head(toSvr[c]).kind = "registered"
      <4>1. allSvr'[s] = allSvr[s] BY <1>1, <3>1
      <4>2. QED BY <1>1, <1>2, <1>3, <2>1, <2>2, <3>1, <4>1, LeavesAfterRead
    <3>2. CASE Head(toSvr[c]).kind = "list"
      <4>1. allSvr'[s] = Head(toSvr[c]).list BY <1>1, <1>2, <3>2
      <4>2. QED BY <1>1, <1>2, <1>3, <2>1, <2>2, <3>2, <4>1, LeavesAfterRead
    <3>3. QED BY <1>1, <3>1, <3>2
  <2>3. CASE t # s
    <3>1. link[t] # c BY <1>1, <2>3, <2>1, LinksDiffer DEF IInv
    <3>2. allSvr'[t] = allSvr[t] BY <1>1, <1>2, <2>1, <2>3
    <3>3. QED BY <1>3, <2>1, <3>1, <3>2
  <2>4. QED BY <2>2, <2>3
<1>10. QED BY <1>6, <1>7, <1>8, <1>9 DEF KInv

\* A server that has no connection any more is owed nothing.
LEMMA UnlinkKnows ==
  ASSUME IInv, KInv, NEW s \in Server, OnCloseClient(s) \/ Restart(s), RegType'
  PROVE  KInv'
<1> USE ServersAssumption
<1>1. /\ link' = [link EXCEPT ![s] = Nobody] /\ isRun' = [isRun EXCEPT ![s] = FALSE]
      /\ UNCHANGED <<open, uid, servers, toReg, owner, overlap>>
      /\ \A t \in Server \ {s} : curInfo'[t] = curInfo[t] /\ allSvr'[t] = allSvr[t]
      /\ allSvr' \in [Server -> Lists]
  <2>1. NoList \in Lists
    <3>1. NoList \in [{} -> Statuses] BY DEF NoList
    <3>2. QED BY <3>1 DEF Lists
  <2>2. allSvr \in [Server -> Lists] /\ curInfo \in [Server -> Statuses] BY DEF KInv, TypeOK
  <2>3. CASE OnCloseClient(s) BY <2>2, <2>3 DEF OnCloseClient
  <2>4. CASE Restart(s) BY <2>1, <2>2, <2>4 DEF Restart
  <2>5. QED BY <2>3, <2>4
<1>2. toSvr \in [Conn -> Seq(Messages)] /\ <<>> \in Seq(Messages)
  BY DEF KInv, TypeOK, Messages
<1>3. /\ toSvr' \in [Conn -> Seq(Messages)]
      /\ \A d \in Conn : toSvr'[d] = IF d = link[s] THEN <<>> ELSE toSvr[d]
  <2>1. CASE toSvr' = [toSvr EXCEPT ![link[s]] = <<>>] BY <1>2, <2>1
  <2>2. CASE toSvr' = [d \in Conn |-> IF d = link[s] THEN <<>> ELSE toSvr[d]] BY <1>2, <2>2
  <2>3. QED BY <2>1, <2>2 DEF OnCloseClient, Restart
<1>4. TypeOK' BY <1>1, <1>3, TypeKept DEF KInv, TypeOK
<1>5. \A t \in Server : link'[t] # Nobody => t # s /\ link'[t] = link[t] /\ link[t] # link[s]
  BY <1>1, LinksDiffer DEF IInv, RegType
<1>6. \A t \in DOMAIN servers : servers[t].conn # Nobody /\ t \in Server
  BY DEF IInv, Registered, EntriesLive, RegType
<1>7. ListsReach'
  <2> SUFFICES ASSUME NEW t \in DOMAIN servers, servers[t].conn = link'[t]
               PROVE  Leaves(toSvr'[link'[t]], allSvr'[t], ListOf(servers).list)
    BY <1>1 DEF ListsReach
  <2>1. t \in Server \ {s} /\ link'[t] = link[t] /\ link[t] # link[s] /\ link[t] \in Conn
    BY <1>5, <1>6 DEF KInv, TypeOK
  <2>2. QED BY <1>1, <1>3, <2>1 DEF KInv, ListsReach
<1>8. Running' BY <1>1, <1>5 DEF Running, KInv, TypeOK
<1>9. RegisterFirst' BY <1>1 DEF RegisterFirst, KInv
<1>10. LastReport' BY <1>1, <1>5 DEF LastReport, KInv
<1>11. StatusKnown' BY <1>1, <1>5, <1>6 DEF StatusKnown, KInv
<1>12. QED BY <1>4, <1>7, <1>8, <1>9, <1>10, <1>11 DEF KInv

\* The first message on a connection was read.
LEMMA FirstRead ==
  ASSUME IInv, KInv, NEW c \in Conn, toReg[c] # <<>>, toReg' = [toReg EXCEPT ![c] = Tail(@)],
         UNCHANGED <<link, curInfo>>, \A d \in Conn \ {c} : uid'[d] = uid[d]
  PROVE  /\ Head(toReg[c]) \in Requests /\ Head(toReg[c]).svrid = owner[c] /\ owner[c] \in Server
         /\ c \in open
         /\ Head(toReg[c]).kind = "register" => uid[c] = Nobody
         /\ \A d \in Conn \ {c} : toReg'[d] = toReg[d]
         /\ \A s \in Server : link[s] = c /\ toReg'[c] = <<>> => Head(toReg[c]).status = curInfo[s]
         /\ RegisterFirst' /\ LastReport'
<1> USE ServersAssumption
<1> DEFINE q == toReg[c]
<1>1. q \in Seq(Requests) /\ toReg \in [Conn -> Seq(Requests)] BY DEF IInv, RegType
<1>2. /\ Head(q) = q[1] /\ q[1] \in Requests /\ 1 \in DOMAIN q /\ Len(q) \in Nat
      /\ DOMAIN Tail(q) = 1..(Len(q) - 1) /\ DOMAIN q = 1..Len(q) /\ Len(Tail(q)) = Len(q) - 1
      /\ \A i \in DOMAIN Tail(q) : i + 1 \in DOMAIN q /\ Tail(q)[i] = q[i + 1]
  BY <1>1
<1>3. toReg'[c] = Tail(q) /\ \A d \in Conn \ {c} : toReg'[d] = toReg[d] BY <1>1
<1>4. q[1].svrid = owner[c] /\ c \in open BY <1>2 DEF IInv, Owned
<1>5. owner[c] \in Server BY <1>2, <1>4, RequestNames
<1>6. q[1].kind = "register" => uid[c] = Nobody BY <1>2 DEF KInv, RegisterFirst
<1>7. ASSUME NEW s \in Server, link[s] = c PROVE q[Len(q)].status = curInfo[s]
  BY <1>7 DEF KInv, LastReport
<1>8. ASSUME NEW s \in Server, link[s] = c, toReg'[c] = <<>> PROVE q[1].status = curInfo[s]
  <2>1. Len(q) = 1
    <3>1. Tail(q) = <<>> BY <1>3, <1>8
    <3>2. DOMAIN Tail(q) = {} BY <3>1
    <3>3. 1 \notin 1..(Len(q) - 1) BY <1>2, <3>2
    <3>4. Len(q) >= 1 BY <1>2
    <3>5. \A n \in Nat : n >= 1 /\ 1 \notin 1..(n - 1) => n = 1 OBVIOUS
    <3>6. Len(q) \in Nat BY <1>2
    <3>7. QED BY <3>3, <3>4, <3>5, <3>6
  <2>2. QED BY <1>7, <1>8, <2>1
<1>9. RegisterFirst'
  <2> SUFFICES ASSUME NEW d \in Conn, NEW i \in DOMAIN toReg'[d], toReg'[d][i].kind = "register"
               PROVE  i = 1 /\ uid'[d] = Nobody
    BY DEF RegisterFirst
  <2>1. CASE d = c
    <3>0. i \in DOMAIN Tail(q) /\ Tail(q)[i].kind = "register" BY <1>3, <2>1
    <3>1. i + 1 \in DOMAIN q /\ q[i + 1].kind = "register" /\ i \in Nat /\ i >= 1
      BY <1>2, <3>0
    <3>2. i + 1 = 1 BY <3>1 DEF KInv, RegisterFirst
    <3>3. QED BY <3>1, <3>2
  <2>2. CASE d # c BY <1>3, <2>2 DEF KInv, RegisterFirst
  <2>3. QED BY <2>1, <2>2
<1>10. LastReport'
  <2> SUFFICES ASSUME NEW s \in Server, link[s] # Nobody, toReg'[link[s]] # <<>>
               PROVE  toReg'[link[s]][Len(toReg'[link[s]])].status = curInfo[s]
    BY DEF LastReport
  <2>1. CASE link[s] = c
    <3>1. Len(Tail(q)) \in DOMAIN Tail(q) BY <1>1, <1>2, <1>3, <2>1
    <3>2. Tail(q)[Len(Tail(q))] = q[Len(q)] BY <1>2, <3>1
    <3>3. QED BY <1>3, <1>7, <2>1, <3>2
  <2>2. CASE link[s] # c BY <1>3, <2>2 DEF KInv, LastReport, IInv, RegType
  <2>3. QED BY <2>1, <2>2
<1>11. QED BY <1>2, <1>3, <1>4, <1>5, <1>6, <1>8, <1>9, <1>10

\* A server is entered with the status of its registration, which is the last one it noted
\* unless more is under way.
LEMMA RegisterKnows ==
  ASSUME IInv, KInv, NEW c \in Conn, Register(c), RegType', Registered'
  PROVE  KInv'
<1> USE ServersAssumption
<1> DEFINE info == Head(toReg[c])
           s    == owner[c]
<1>1. /\ toReg[c] # <<>> /\ info.kind = "register" /\ toReg' = [toReg EXCEPT ![c] = Tail(@)]
      /\ uid' = [uid EXCEPT ![c] = info.svrid] /\ servers' = Entered(c, info)
      /\ UpdateServerList(servers', c, <<[kind |-> "registered"]>>)
      /\ overlap' \in SUBSET Conn /\ overlap \subseteq overlap'
      /\ UNCHANGED <<link, isRun, status, curInfo, allSvr, open, owner>>
  BY DEF Register, serverVars, KInv, TypeOK
<1>2. \A d \in Conn \ {c} : uid'[d] = uid[d] BY <1>1 DEF IInv, RegType
<1>3. /\ info \in Requests /\ info.svrid = s /\ s \in Server /\ uid[c] = Nobody
      /\ \A d \in Conn \ {c} : toReg'[d] = toReg[d]
      /\ \A t \in Server : link[t] = c /\ toReg'[c] = <<>> => info.status = curInfo[t]
      /\ RegisterFirst' /\ LastReport'
  BY <1>1, <1>2, FirstRead
<1>4. /\ DOMAIN servers' = DOMAIN servers \cup {s}
      /\ \A t \in DOMAIN servers : servers'[t] = servers[t]
      /\ s \notin DOMAIN servers => servers'[s].conn = c /\ servers'[s].status = info.status
  BY <1>1, <1>3 DEF Entered
<1>5. servers' \in UNION {[S -> [conn : Conn, status : Statuses]] : S \in SUBSET Server}
  <2>1. servers \in [DOMAIN servers -> [conn : Conn, status : Statuses]] /\ DOMAIN servers \subseteq Server
    BY DEF KInv, TypeOK
  <2>2. CASE s \in DOMAIN servers BY <1>1, <1>3, <2>2 DEF Entered, KInv, TypeOK
  <2>3. CASE s \notin DOMAIN servers
    <3>1. info.status \in Statuses BY <1>3 DEF Requests
    <3>2. servers' = [t \in DOMAIN servers \cup {s} |->
                        IF t = s THEN [conn |-> c, status |-> info.status] ELSE servers[t]]
      BY <1>1, <1>3, <2>3 DEF Entered
    <3>3. servers' \in [DOMAIN servers \cup {s} -> [conn : Conn, status : Statuses]]
      BY <2>1, <3>1, <3>2
    <3>4. DOMAIN servers \cup {s} \in SUBSET Server BY <1>3, <2>1
    <3>5. QED BY <3>3, <3>4
  <2>4. QED BY <2>2, <2>3
<1>6. \A t \in DOMAIN servers' : owner[servers'[t].conn] = t
  BY <1>1 DEF Registered, EntriesLive
<1>7. toSvr' \in [Conn -> Seq(Messages)] /\ ListsReach'
  BY <1>1, <1>5, <1>6, Told DEF KInv, IInv
<1>8. TypeOK' BY <1>1, <1>5, <1>7, TypeKept DEF KInv, TypeOK
<1>9. Running' BY <1>1 DEF Running, KInv
<1>10. StatusKnown'
  <2> SUFFICES ASSUME NEW t \in DOMAIN servers', servers'[t].conn = link[t], link[t] \notin overlap',
                      toReg'[link[t]] = <<>>
               PROVE  servers'[t].status = curInfo[t]
    BY <1>1 DEF StatusKnown
  <2>1. link[t] \in Conn /\ t \in Server BY <1>5
  <2>2. CASE link[t] = c
    <3>1. t = s BY <1>6, <2>2
    <3>2. s \notin DOMAIN servers
      <4>1. s \in DOMAIN servers => uid[c] = s BY <1>4, <2>2, <3>1 DEF IInv, Registered, EntriesLive
      <4>2. QED BY <1>3, <4>1
    <3>3. QED BY <1>3, <1>4, <2>2, <3>1, <3>2
  <2>3. CASE link[t] # c
    <3>1. t \in DOMAIN servers /\ servers'[t] = servers[t] BY <1>4, <2>3
    <3>2. toReg[link[t]] = <<>> /\ link[t] \notin overlap BY <1>1, <1>3, <2>1, <2>3
    <3>3. QED BY <3>1, <3>2 DEF StatusKnown, KInv
  <2>4. QED BY <2>2, <2>3
<1>11. QED BY <1>3, <1>7, <1>8, <1>9, <1>10 DEF KInv

\* A report on the connection a server is entered under is its own; on another one it comes
\* only while the two overlap.
LEMMA ChangeKnows ==
  ASSUME IInv, KInv, NEW c \in Conn, ChangeInfo(c), RegType', Registered'
  PROVE  KInv'
<1> USE ServersAssumption
<1> DEFINE info == Head(toReg[c])
           s    == owner[c]
<1>1. /\ toReg[c] # <<>> /\ toReg' = [toReg EXCEPT ![c] = Tail(@)]
      /\ IF info.svrid \in DOMAIN servers
         THEN /\ servers' = [servers EXCEPT ![info.svrid].status = info.status]
              /\ UpdateServerList(servers', c, <<>>)
         ELSE UNCHANGED <<servers, toSvr>>
      /\ UNCHANGED <<link, isRun, status, curInfo, allSvr, open, uid, owner, overlap>>
  BY DEF ChangeInfo, serverVars
<1>2. /\ info \in Requests /\ info.svrid = s /\ s \in Server /\ c \in open
      /\ \A d \in Conn \ {c} : toReg'[d] = toReg[d]
      /\ \A t \in Server : link[t] = c /\ toReg'[c] = <<>> => info.status = curInfo[t]
      /\ RegisterFirst' /\ LastReport'
  BY <1>1, FirstRead
<1>3. servers \in [DOMAIN servers -> [conn : Conn, status : Statuses]] /\ DOMAIN servers \in SUBSET Server
  BY DEF KInv, TypeOK
<1>4. /\ DOMAIN servers' = DOMAIN servers
      /\ \A t \in DOMAIN servers : t # s => servers'[t] = servers[t]
      /\ s \in DOMAIN servers => servers'[s] = [conn |-> servers[s].conn, status |-> info.status]
  <2>1. CASE s \in DOMAIN servers
    <3>1. servers' = [servers EXCEPT ![s].status = info.status] BY <1>1, <1>2, <2>1
    <3>2. servers[s] \in [conn : Conn, status : Statuses] BY <1>3, <2>1
    <3>3. [servers[s] EXCEPT !.status = info.status] = [conn |-> servers[s].conn, status |-> info.status]
      BY <3>2
    <3>4. servers'[s] = [servers[s] EXCEPT !.status = info.status] BY <3>1, <2>1
    <3>5. DOMAIN servers' = DOMAIN servers /\ \A t \in DOMAIN servers : t # s => servers'[t] = servers[t]
      BY <3>1
    <3>6. QED BY <3>3, <3>4, <3>5
  <2>2. CASE s \notin DOMAIN servers BY <1>1, <1>2, <2>2
  <2>3. QED BY <2>1, <2>2
<1>5. servers' \in UNION {[S -> [conn : Conn, status : Statuses]] : S \in SUBSET Server}
  <2>1. CASE s \in DOMAIN servers
    <3>1. info.status \in Statuses BY <1>2 DEF Requests
    <3>2. \A t \in DOMAIN servers : servers'[t] \in [conn : Conn, status : Statuses]
      BY <1>3, <1>4, <3>1
    <3>3. servers' = [t \in DOMAIN servers |-> servers'[t]]
      <4>1. servers' = [servers EXCEPT ![s].status = info.status] BY <1>1, <1>2, <2>1
      <4>2. QED BY <4>1
    <3>4. servers' \in [DOMAIN servers -> [conn : Conn, status : Statuses]] BY <3>2, <3>3
    <3>5. QED BY <1>3, <3>4
  <2>2. CASE s \notin DOMAIN servers BY <1>1, <1>2, <2>2 DEF KInv, TypeOK
  <2>3. QED BY <2>1, <2>2
<1>6. \A t \in DOMAIN servers' : owner[servers'[t].conn] = t
  BY <1>1 DEF Registered, EntriesLive
<1>7. toSvr' \in [Conn -> Seq(Messages)] /\ ListsReach'
  <2>1. CASE s \in DOMAIN servers
    BY <1>1, <1>2, <1>5, <1>6, <2>1, Told DEF KInv, IInv
  <2>2. CASE s \notin DOMAIN servers
    BY <1>1, <1>2, <2>2 DEF KInv, TypeOK, Messages, ListsReach
  <2>3. QED BY <2>1, <2>2
<1>8. TypeOK' BY <1>1, <1>5, <1>7, TypeKept DEF KInv, TypeOK
<1>9. Running' BY <1>1 DEF Running, KInv
<1>10. StatusKnown'
  <2> SUFFICES ASSUME NEW t \in DOMAIN servers, servers'[t].conn = link[t], link[t] \notin overlap,
                      toReg'[link[t]] = <<>>
               PROVE  servers'[t].status = curInfo[t]
    BY <1>1, <1>4 DEF StatusKnown
  <2>1. t \in Server /\ servers[t].conn = link[t] /\ link[t] \in open /\ uid[link[t]] = t /\ owner[link[t]] = t
    BY <1>3, <1>4 DEF IInv, Registered, EntriesLive
  <2>2. CASE t = s
    <3>1. link[t] = c
      <4>1. Named(s) BY <2>1, <2>2 DEF Named
      <4>2. QED BY <1>2, <2>2, <4>1 DEF IInv, OnlyOne
    <3>2. info.status = curInfo[t] BY <1>2, <2>1, <3>1
    <3>3. QED BY <1>4, <2>2, <3>2
  <2>3. CASE t # s
    <3>1. link[t] # c BY <2>1, <2>3
    <3>2. toReg[link[t]] = <<>> BY <1>2, <2>1, <3>1 DEF IInv, RegType
    <3>3. QED BY <1>4, <2>1, <2>3, <3>2 DEF StatusKnown, KInv
  <2>4. QED BY <2>2, <2>3
<1>11. QED BY <1>2, <1>7, <1>8, <1>9, <1>10 DEF KInv

\* A connection that closes takes its messages along, and the entry under it.
LEMMA CloseKnows ==
  ASSUME IInv, KInv, NEW c \in Conn, Close(c), RegType', Registered'
  PROVE  KInv'
<1> USE ServersAssumption
<1>1. /\ open' = open \ {c} /\ toReg' = [toReg EXCEPT ![c] = <<>>]
      /\ UpdateServerList(servers', c, <<>>)
      /\ UNCHANGED <<link, isRun, status, curInfo, allSvr, owner, overlap>>
  BY DEF Close, RemoveServer, serverVars
<1>2. /\ DOMAIN servers' \subseteq DOMAIN servers
      /\ \A t \in DOMAIN servers' : servers'[t] = servers[t]
      /\ servers' \in UNION {[S -> [conn : Conn, status : Statuses]] : S \in SUBSET Server}
  <2>1. CASE UNCHANGED servers BY <2>1 DEF KInv, TypeOK
  <2>2. CASE \E s \in DOMAIN servers : servers' = Without(servers, s)
    <3>1. PICK s \in DOMAIN servers : servers' = [t \in DOMAIN servers \ {s} |-> servers[t]]
      BY <2>2 DEF Without
    <3>2. servers \in [DOMAIN servers -> [conn : Conn, status : Statuses]] /\ DOMAIN servers \in SUBSET Server
      BY DEF KInv, TypeOK
    <3>3. servers' \in [DOMAIN servers \ {s} -> [conn : Conn, status : Statuses]] BY <3>1, <3>2
    <3>4. QED BY <3>1, <3>2, <3>3
  <2>3. QED BY <2>1, <2>2 DEF Close, RemoveServer
<1>3. \A d \in Conn : uid'[d] \in {uid[d], Nobody}
  BY DEF Close, RemoveServer, IInv, RegType
<1>4. toReg'[c] = <<>> /\ \A d \in Conn \ {c} : toReg'[d] = toReg[d] BY <1>1 DEF IInv, RegType
<1>5. \A t \in DOMAIN servers' : owner[servers'[t].conn] = t /\ servers'[t].conn # c
  BY <1>1 DEF Registered, EntriesLive
<1>6. toSvr' \in [Conn -> Seq(Messages)] /\ ListsReach'
  BY <1>1, <1>2, <1>5, Told DEF KInv, IInv
<1>7. TypeOK' BY <1>1, <1>2, <1>6, TypeKept DEF KInv, TypeOK
<1>8. Running' BY <1>1 DEF Running, KInv
<1>9. RegisterFirst' BY <1>3, <1>4 DEF RegisterFirst, KInv
<1>10. LastReport' BY <1>1, <1>4 DEF LastReport, KInv, IInv, RegType
<1>11. StatusKnown'
  <2> SUFFICES ASSUME NEW t \in DOMAIN servers', servers'[t].conn = link[t], link[t] \notin overlap,
                      toReg'[link[t]] = <<>>
               PROVE  servers'[t].status = curInfo[t]
    BY <1>1 DEF StatusKnown
  <2>1. link[t] \in Conn /\ link[t] # c BY <1>2, <1>5
  <2>2. QED BY <1>2, <1>4, <2>1 DEF StatusKnown, KInv
<1>12. QED BY <1>6, <1>7, <1>8, <1>9, <1>10, <1>11 DEF KInv

\* The registry that starts again knows nobody.
LEMMA RegistryKnows ==
  ASSUME IInv, KInv, RegistryRestart, RegType'
  PROVE  KInv'
<1> USE ServersAssumption
<1>1. /\ servers' = [s \in {} |-> Nobody]
      /\ uid' = [c \in Conn |-> Nobody] /\ toReg' = [c \in Conn |-> <<>>]
      /\ UNCHANGED <<link, isRun, status, curInfo, allSvr, toSvr, owner, overlap>>
  BY DEF RegistryRestart, serverVars
<1>2. servers' \in UNION {[S -> [conn : Conn, status : Statuses]] : S \in SUBSET Server}
  <2>1. servers' \in [{} -> [conn : Conn, status : Statuses]] BY <1>1
  <2>2. QED BY <2>1
<1>3. TypeOK' BY <1>1, <1>2, TypeKept DEF KInv, TypeOK, Messages
<1>4. ListsReach' /\ Running' /\ RegisterFirst' /\ LastReport' /\ StatusKnown'
  BY <1>1 DEF ListsReach, Running, RegisterFirst, LastReport, StatusKnown, KInv, IInv, RegType
<1>5. QED BY <1>3, <1>4 DEF KInv

\* What the registry and the servers know of each other, in every state.
THEOREM ServersKnow == Spec => []KInv
<1> USE ServersAssumption
<1>1. Init => KInv
  <2> SUFFICES ASSUME Init PROVE KInv OBVIOUS
  <2>1. [s \in {} |-> Nobody] \in [{} -> [conn : Conn, status : Statuses]]
        /\ NoList \in [{} -> Statuses]
    BY DEF NoList
  <2>2. NoList \in Lists BY <2>1 DEF Lists
  <2>3. servers \in UNION {[S -> [conn : Conn, status : Statuses]] : S \in SUBSET Server}
    BY <2>1 DEF Init
  <2>4. TypeOK BY <2>2, <2>3 DEF Init, TypeOK, Statuses
  <2>5. QED BY <2>4 DEF Init, KInv, ListsReach, Running, RegisterFirst, LastReport, StatusKnown
<1>2. ASSUME IInv, IInv', KInv, [Next]_vars PROVE KInv'
  <2>0. RegType' /\ Registered' BY <1>2 DEF IInv
  <2>1. ASSUME NEW s \in Server, NEW c \in Conn, OnConnect(s, c) PROVE KInv'
    BY <1>2, <2>0, <2>1, ConnectKnows
  <2>2. ASSUME NEW s \in Server, ChangeStatus(s) PROVE KInv'
    <3>1. UNCHANGED <<link, isRun, curInfo, allSvr, open, uid, servers, toReg, toSvr, owner, overlap>>
      BY <2>2 DEF ChangeStatus
    <3>2. TypeOK' BY <1>2, <2>0, <3>1, TypeKept DEF KInv, TypeOK, Messages
    <3>3. QED BY <1>2, <3>1, <3>2
          DEF KInv, ListsReach, Running, RegisterFirst, LastReport, StatusKnown
  <2>3. ASSUME NEW s \in Server, OnTimer(s) PROVE KInv' BY <1>2, <2>0, <2>3, TimerKnows
  <2>4. ASSUME NEW s \in Server, OnServerMsg(s) PROVE KInv' BY <1>2, <2>0, <2>4, ReadKnows
  <2>5. ASSUME NEW s \in Server, OnCloseClient(s) \/ Restart(s) PROVE KInv'
    BY <1>2, <2>0, <2>5, UnlinkKnows
  <2>6. ASSUME NEW c \in Conn, Register(c) PROVE KInv' BY <1>2, <2>0, <2>6, RegisterKnows
  <2>7. ASSUME NEW c \in Conn, ChangeInfo(c) PROVE KInv' BY <1>2, <2>0, <2>7, ChangeKnows
  <2>8. ASSUME NEW c \in Conn, Close(c) PROVE KInv' BY <1>2, <2>0, <2>8, CloseKnows
  <2>9. CASE RegistryRestart BY <1>2, <2>0, <2>9, RegistryKnows
  <2>10. CASE UNCHANGED vars
    BY <1>2, <2>10 DEF vars, serverVars, KInv, TypeOK, ListsReach, Running, RegisterFirst, LastReport,
                       StatusKnown
  <2>11. QED BY <1>2, <2>1, <2>2, <2>3, <2>4, <2>5, <2>6, <2>7, <2>8, <2>9, <2>10 DEF Next
<1>3. QED BY <1>1, <1>2, ServersInvariant, PTL DEF Spec

\* A registered server that has read all there is for it has the registry's list, whatever
\* connections were lost and whoever restarted meanwhile.
THEOREM ListsReachServers == Spec => []ListsAgree
<1>1. KInv /\ IInv => ListsAgree
  BY DEF KInv, IInv, RegType, ListsReach, ListsAgree, Leaves
<1>2. QED BY <1>1, ServersKnow, ServersInvariant, PTL

\* A registered server all of whose reports were read is known with the status it noted.
THEOREM ReportsReachRegistry == Spec => []StatusKnown
<1>1. KInv => StatusKnown BY DEF KInv
<1>2. QED BY <1>1, ServersKnow, PTL

\* The variables keep their types, the channels and the entries of the registry included.
THEOREM ServersTyped == Spec => []TypeOK
<1>1. KInv => TypeOK BY DEF KInv
<1>2. QED BY <1>1, ServersKnow, PTL
================================================================================
