-------------------------------- MODULE Session --------------------------------
(***************************************************************************)
(* The session of one account across the lobbies and the game servers: it  *)
(* logs in at any lobby over any connection, its data are loaded, it       *)
(* enters game servers and leaves them, logs in again elsewhere, is kept   *)
(* for a while when its connection breaks, and is recovered in the end.    *)
(* Four places say where it is: the player objects of the lobbies, those   *)
(* of the game servers, the messages between them, and the gsid in redis.  *)
(* Lobbies tell each other of logins through the center, as long as they   *)
(* have connections to it.  Game servers stay alive here.                  *)
(* Nothing of one account's session is read by another's, so one is        *)
(* followed.  Handlers of one process run one after the other.             *)
(***************************************************************************)
EXTENDS Naturals, Sequences, FiniteSets

CONSTANTS
  Lobby, Game,   (* server ids                                              *)
  Conn,          (* the client's connections                                *)
  Kind,          (* Kind[g]: the game type a game server runs               *)
  LoginKind,     (* the type OnGetAllData enters by itself                  *)
  Repair,        (* the servers under repair                                *)
  Fragile,       (* the lobby and game pairs whose connection may break     *)
  Central,       (* the lobbies that can reach the center                   *)
  NullRead,      (* what reading through a null pointer can do              *)
  MaxLoads,      (* bound: answers of the database under way to one lobby   *)
  MaxMsgs,       (* bound: messages of one kind of channel under way        *)
  Nobody         (* a null pointer, or server id 0                          *)

ASSUME SessionAssumption ==
  /\ Nobody \notin Lobby \cup Game \cup Conn
  /\ Fragile \subseteq Lobby \X Game /\ Central \subseteq Lobby
  /\ NullRead \subseteq {"dies", "goes on"}
  /\ MaxLoads \in Nat /\ MaxMsgs \in Nat

Kinds == {Kind[g] : g \in Game} \cup {LoginKind}
Parts == {"base", "miss"}            \* emACCDATA_TYPE_BASE, emACCDATA_TYPE_MISS

VARIABLES
  player,   (* the CPlayer of a lobby                                       *)
  loads,    (* answers a lobby's database thread owes: base and miss, in turn *)
  center,   (* a lobby's connection to the center: down, up, or up and in   *)
            (* the center's list of servers by this connection              *)
  told,     (* login notices of a lobby on their way to the center          *)
  kicks,    (* login notices of other lobbies on their way to a lobby       *)
  missed,   (* history: the lobbies whose player a notice was meant for     *)
            (* that got lost                                                *)
  servers,  (* the game servers registered at a lobby (m_mpServers)         *)
  conn,     (* the connections that bear the account's uid: lobby, closing  *)
  game,     (* the CGamePlayer of a game server: there or not, its lobby    *)
  toGame,   (* messages from a lobby to a game server                       *)
  leaves,   (* leave_svr notices on their way to a lobby, by game server    *)
  gsid,     (* the account's gsid in redis                                  *)
  asker     (* history: the lobby whose enter a game server handled last    *)

centerVars == <<center, told, kicks, missed>>
vars == <<player, loads, centerVars, servers, conn, game, toGame, leaves, gsid, asker>>

(* "none": not in m_mpPlayers.  waited: how long it has been loading, or    *)
(* without a session ("no": m_disconnectTime is 0).                         *)
NoPlayer == [state |-> "none", session |-> Nobody, svr |-> Nobody, loaded |-> {},
             need |-> FALSE, waited |-> "no"]

(* A connection whose uid is not set, or is cleared again: whatever it does *)
(* or its closing does finds no player, so it is as good as none.           *)
Unnamed == [at |-> Nobody, closing |-> FALSE]

TypeOK ==
  /\ player \in [Lobby -> [state : {"none", "load", "playing"}, session : Conn \cup {Nobody},
                           svr : Game \cup {Nobody}, loaded : SUBSET Parts, need : BOOLEAN,
                           waited : {"no", "fresh", "old"}]]
  /\ loads \in [Lobby -> 0..MaxLoads]
  /\ center \in [Lobby -> {"down", "up", "listed"}]
  /\ told \in [Lobby -> Nat]
  /\ kicks \in [Lobby -> Nat]
  /\ missed \subseteq Lobby
  /\ servers \in [Lobby -> SUBSET Game]
  /\ conn \in [Conn -> [at : Lobby \cup {Nobody}, closing : BOOLEAN]]
  /\ game \in [Game -> [on : BOOLEAN, home : Lobby \cup {Nobody}]]
  /\ toGame \in [Lobby \X Game -> Seq({"enter", "back"})]
  /\ leaves \in [Lobby \X Game -> Nat]
  /\ gsid \in Game \cup {Nobody}
  /\ asker \in [Game -> Lobby \cup {Nobody}]

Init ==
  /\ player = [l \in Lobby |-> NoPlayer]
  /\ loads = [l \in Lobby |-> 0]
  /\ center = [l \in Lobby |-> "down"]
  /\ told = [l \in Lobby |-> 0]
  /\ kicks = [l \in Lobby |-> 0]
  /\ missed = {}
  /\ servers \in [Lobby -> SUBSET Game]
  /\ conn = [c \in Conn |-> Unnamed]
  /\ game = [g \in Game |-> [on |-> FALSE, home |-> Nobody]]
  /\ toGame = [e \in Lobby \X Game |-> <<>>]
  /\ leaves = [e \in Lobby \X Game |-> 0]
  /\ gsid = Nobody
  /\ asker = [g \in Game |-> Nobody]

Exists(l) == player[l].state # "none"
Playing(l) == player[l].state = "playing"

Bears(c, l) == conn[c].at = l /\ ~conn[c].closing
InGame(c, l) == Bears(c, l) /\ Playing(l)

--------------------------------------------------------------------------------
(* Entering a game server *)

Send(l, g, msg) ==
  /\ Len(toGame[<<l, g>>]) < MaxMsgs
  /\ toGame' = [toGame EXCEPT ![<<l, g>>] = Append(@, msg)]

(* SelectGameTypeServer, for a player whose server id is 0. *)
Selectable(l, k) == {g \in servers[l] : Kind[g] = k /\ g \notin Repair}

(* EnterGameSvr of the player p of lobby l: back to the server it is on, if *)
(* that is still registered, else to one of the kind asked for.             *)
EnterGameSvr(l, k, p) ==
  \/ /\ p.svr \in servers[l]
     /\ Send(l, p.svr, "enter")
     /\ player' = [player EXCEPT ![l] = p]
     /\ UNCHANGED gsid
  \/ /\ p.svr \notin servers[l]
     /\ gsid' = IF p.svr = Nobody THEN gsid ELSE Nobody
     /\ \/ /\ Selectable(l, k) = {}
           /\ player' = [player EXCEPT ![l] = [p EXCEPT !.svr = Nobody]]
           /\ UNCHANGED toGame
        \/ \E g \in Selectable(l, k) :
             /\ Send(l, g, "enter")
             /\ player' = [player EXCEPT ![l] = [p EXCEPT !.svr = g]]

ClientEnter(c, l, k) ==
  /\ InGame(c, l)
  /\ EnterGameSvr(l, k, player[l])
  /\ UNCHANGED <<loads, centerVars, servers, conn, game, leaves, asker>>

(* Any other message of the client goes to the server the player is on; of  *)
(* these only the request to return to the lobby matters here.              *)
ClientBack(c, l) ==
  /\ InGame(c, l)
  /\ player[l].svr \in servers[l]
  /\ Send(l, player[l].svr, "back")
  /\ UNCHANGED <<player, loads, centerVars, servers, conn, game, leaves, gsid, asker>>

--------------------------------------------------------------------------------
(* The center, which passes login notices on *)

(* A notice some lobbies do not get, for the history: those missed it that  *)
(* have the account in play; who has it in play later says so himself.      *)
Misses(lobbies) == missed' = missed \cup {o \in lobbies : Playing(o)}

(* OnRouteDispMsg: to the lobbies in the list.  (The sender gets its own    *)
(* notice back and does nothing of it.)                                     *)
CenterPasses(l) ==
  LET others == Lobby \ {l}
      listed == {o \in others : center[o] = "listed"}
  IN  /\ told[l] > 0 /\ \A o \in listed : kicks[o] < MaxMsgs
      /\ told' = [told EXCEPT ![l] = @ - 1]
      /\ kicks' = [o \in Lobby |-> IF o \in listed THEN kicks[o] + 1 ELSE kicks[o]]
      /\ Misses(others \ listed)
      /\ UNCHANGED <<player, loads, center, servers, conn, game, toGame, leaves, gsid, asker>>

(* The connection closes: what the center sent and the lobby has not read   *)
(* is lost, and of what the lobby sent whatever the center has not read.    *)
CloseCenter(l) ==
  /\ center' = [center EXCEPT ![l] = "down"]
  /\ \E read \in 0..told[l] :
       /\ told' = [told EXCEPT ![l] = read]
       /\ Misses((IF read < told[l] THEN Lobby \ {l} ELSE {}) \cup
                 (IF kicks[l] > 0 THEN {l} ELSE {}))
  /\ kicks' = [kicks EXCEPT ![l] = 0]

CenterCloses(l) ==
  /\ center[l] # "down"
  /\ CloseCenter(l)
  /\ UNCHANGED <<player, loads, servers, conn, game, toGame, leaves, gsid, asker>>

(* OnConnect; the center enters the lobby, unless it still has it by an     *)
(* older connection, and takes it out when one of the same uid closes.      *)
CenterMoves(l) ==
  /\ \/ center[l] = "down" /\ l \in Central /\ center' = [center EXCEPT ![l] = "up"]
     \/ center[l] = "up" /\ center' = [center EXCEPT ![l] = "listed"]
     \/ center[l] = "listed" /\ center' = [center EXCEPT ![l] = "up"]
  /\ UNCHANGED <<player, loads, told, kicks, missed, servers, conn, game, toGame, leaves, gsid,
                 asker>>

--------------------------------------------------------------------------------
(* Logging in *)

SetSession(l, old, new) ==
  conn' = [c \in Conn |-> IF c = new THEN [at |-> l, closing |-> FALSE]
                          ELSE IF c = old THEN Unnamed ELSE conn[c]]

(* OnLogin asks for both parts of the data, whatever is there already. *)
OnLogin(l, p) ==
  /\ loads[l] + 2 <= MaxLoads
  /\ loads' = [loads EXCEPT ![l] = @ + 2]
  /\ player' = [player EXCEPT ![l] = [p EXCEPT !.state = "load", !.waited = "fresh"]]

LoginNew(c, l) ==
  /\ conn[c] = Unnamed \/ Bears(c, l)
  /\ ~Exists(l) /\ l \notin Repair
  /\ SetSession(l, Nobody, c)
  /\ OnLogin(l, [NoPlayer EXCEPT !.session = c])
  /\ missed' = missed \ {l}
  /\ UNCHANGED <<center, told, kicks, servers, game, toGame, leaves, gsid, asker>>

(* The connection bears the uid already: a login while loading loads again. *)
LoginRepeated(c, l) ==
  /\ Bears(c, l) /\ player[l].state = "load"
  /\ OnLogin(l, player[l])
  /\ UNCHANGED <<centerVars, servers, conn, game, toGame, leaves, gsid, asker>>

\* MUTANT: who logs in again is no longer to be recovered.
LoginOverForgives(c, l) ==
  /\ conn[c] = Unnamed /\ Exists(l)
  /\ player[l].session = Nobody => "goes on" \in NullRead
  /\ SetSession(l, player[l].session, c)
  /\ \/ /\ Playing(l)
        /\ player' = [player EXCEPT ![l].session = c, ![l].need = FALSE]
        /\ UNCHANGED loads
     \/ /\ ~Playing(l)
        /\ OnLogin(l, [player[l] EXCEPT !.session = c])
  /\ UNCHANGED <<centerVars, servers, game, toGame, leaves, gsid, asker>>

(* The player is there and the connection new to it: the old connection, if *)
(* there is one, is closed.  (A login within a second of the last is        *)
(* refused; how far apart two logins are is left open here.)  The log line  *)
(* before reads the old connection's address without looking whether there  *)
(* is one.                                                                  *)
LoginOver(c, l) ==
  /\ conn[c] = Unnamed /\ Exists(l)
  /\ player[l].session = Nobody => "goes on" \in NullRead
  /\ SetSession(l, player[l].session, c)
  /\ \/ /\ Playing(l)                                              \* ReLogin
        /\ player' = [player EXCEPT ![l].session = c]
        /\ UNCHANGED loads
     \/ /\ ~Playing(l)
        /\ OnLogin(l, [player[l] EXCEPT !.session = c])
  /\ UNCHANGED <<centerVars, servers, game, toGame, leaves, gsid, asker>>

(* The process of the lobby dies of it and is started again; what it had    *)
(* sent may still arrive.                                                   *)
LoginKills(c, l) ==
  /\ conn[c] = Unnamed /\ Exists(l)
  /\ player[l].session = Nobody /\ "dies" \in NullRead
  /\ player' = [player EXCEPT ![l] = NoPlayer]
  /\ conn' = [d \in Conn |-> IF conn[d].at = l THEN Unnamed ELSE conn[d]]
  /\ loads' = [loads EXCEPT ![l] = 0]
  /\ CloseCenter(l)
  /\ servers' = [servers EXCEPT ![l] = {}]
  /\ leaves' = [e \in Lobby \X Game |-> IF e[1] = l THEN 0 ELSE leaves[e]]
  /\ \E lost \in SUBSET Game :
       toGame' = [e \in Lobby \X Game |-> IF e[1] = l /\ e[2] \in lost THEN <<>> ELSE toGame[e]]
  /\ UNCHANGED <<game, gsid, asker>>

(* CPlayer::NotifyLobbyLogin, by SendMsg2Svr: dropped when the connector    *)
(* does not run.                                                            *)
NotifyLobbyLogin(l) ==
  \/ /\ center[l] # "down" /\ told[l] < MaxMsgs
     /\ told' = [told EXCEPT ![l] = @ + 1]
     /\ UNCHANGED <<center, kicks, missed>>
  \/ /\ center[l] = "down"
     /\ Misses(Lobby \ {l})
     /\ UNCHANGED <<center, told, kicks>>

NextPart(l) == IF loads[l] % 2 = 0 THEN "base" ELSE "miss"

(* OnGetAllData: the gsid is read from redis, the other lobbies are told,   *)
(* and the player enters a game server.                                     *)
OnGetAllData(l, p) ==
  /\ NotifyLobbyLogin(l)
  /\ EnterGameSvr(l, LoginKind, [p EXCEPT !.state = "playing", !.svr = gsid, !.waited = "no"])

(* An answer of the database fills whatever player has the uid now, if it   *)
(* is loading; there may be no row for the base part.                       *)
LoadAnswered(l) ==
  /\ loads[l] > 0
  /\ loads' = [loads EXCEPT ![l] = @ - 1]
  /\ LET p == [player[l] EXCEPT !.loaded = @ \cup {NextPart(l)}] IN
     \/ /\ player[l].state # "load" \/ NextPart(l) = "base"
        /\ UNCHANGED <<player, centerVars, toGame, gsid>>
     \/ /\ player[l].state = "load" /\ p.loaded # Parts
        /\ player' = [player EXCEPT ![l] = p]
        /\ UNCHANGED <<centerVars, toGame, gsid>>
     \/ /\ player[l].state = "load" /\ p.loaded = Parts
        /\ OnGetAllData(l, p)
  /\ UNCHANGED <<servers, conn, game, leaves, asker>>

--------------------------------------------------------------------------------
(* Connections, time and recovery *)

\* MUTANT: only a player in play loses its session.
DisconnectPlaying(c, l) ==
  /\ conn[c].at = l
  /\ player' = IF Playing(l) THEN [player EXCEPT ![l].session = Nobody] ELSE player
  /\ conn' = [conn EXCEPT ![c] = Unnamed,
                          ![player[l].session] = Unnamed]
  /\ UNCHANGED <<loads, centerVars, servers, game, toGame, leaves, gsid, asker>>

(* The connection's close callback: the player with its uid loses its       *)
(* session, and the uid is taken from that session's connection.            *)
Disconnect(c, l) ==
  /\ conn[c].at = l
  /\ player' = IF Exists(l) THEN [player EXCEPT ![l].session = Nobody] ELSE player
  /\ conn' = [conn EXCEPT ![c] = Unnamed,
                          ![player[l].session] = Unnamed]
  /\ UNCHANGED <<loads, centerVars, servers, game, toGame, leaves, gsid, asker>>

(* The platform throws the account out. *)
PlatKill(l) ==
  /\ Exists(l)
  /\ player' = [player EXCEPT ![l].need = TRUE]
  /\ conn' = [c \in Conn |-> [conn[c] EXCEPT !.closing = @ \/ c = player[l].session]]
  /\ UNCHANGED <<loads, centerVars, servers, game, toGame, leaves, gsid, asker>>

(* Another lobby says the account has logged in there. *)
LoginNoticed(l) ==
  /\ kicks[l] > 0
  /\ kicks' = [kicks EXCEPT ![l] = @ - 1]
  /\ player' = IF Exists(l) THEN [player EXCEPT ![l].need = TRUE] ELSE player
  /\ UNCHANGED <<loads, center, told, missed, servers, conn, game, toGame, leaves, gsid, asker>>

(* A minute of loading, or ten minutes without a session, have passed. *)
TimePasses(l) ==
  /\ Exists(l) /\ player[l].waited = "fresh"
  /\ player' = [player EXCEPT ![l].waited = "old"]
  /\ UNCHANGED <<loads, centerVars, servers, conn, game, toGame, leaves, gsid, asker>>

\* MUTANT: m_disconnectTime is set anew every second.
OnTimeTickAnew(p) ==
  IF p.state # "playing" THEN p
  ELSE [p EXCEPT !.waited = IF p.session # Nobody THEN "no" ELSE "fresh"]

(* CPlayer::OnTimeTick: m_disconnectTime follows the session of a player    *)
(* whose data are there.                                                    *)
OnTimeTick(p) ==
  IF p.state # "playing" THEN p
  ELSE [p EXCEPT !.waited = IF p.session # Nobody THEN "no" ELSE IF @ = "no" THEN "fresh" ELSE @]

NeedRecover(l, p) ==
  \/ l \in Repair /\ p.svr = Nobody
  \/ p.need
  \/ p.state = "load" /\ p.waited = "old"
  \/ p.session = Nobody /\ (p.state = "load" \/ p.waited # "fresh")

(* The second's timer.  A recovered player keeps its connection: the object *)
(* is never destroyed, because its mission manager holds it.                *)
OnTimer(l) ==
  /\ Exists(l)
  /\ LET p == OnTimeTick(player[l]) IN
       player' = [player EXCEPT ![l] = IF NeedRecover(l, p) THEN NoPlayer ELSE p]
  /\ UNCHANGED <<loads, centerVars, servers, conn, game, toGame, leaves, gsid, asker>>

--------------------------------------------------------------------------------
(* The game servers and their connections to the lobbies *)

\* MUTANT: a player who is there already keeps the lobby he first came from.
EnterHandledOldHome(l, g) ==
  /\ toGame[<<l, g>>] # <<>> /\ Head(toGame[<<l, g>>]) = "enter"
  /\ toGame' = [toGame EXCEPT ![<<l, g>>] = Tail(@)]
  /\ game' = [game EXCEPT ![g] = [on |-> TRUE, home |-> IF @.on THEN @.home ELSE l]]
  /\ gsid' = g
  /\ asker' = [asker EXCEPT ![g] = l]
  /\ UNCHANGED <<player, loads, centerVars, servers, conn, leaves>>

EnterHandled(l, g) ==
  /\ toGame[<<l, g>>] # <<>> /\ Head(toGame[<<l, g>>]) = "enter"
  /\ toGame' = [toGame EXCEPT ![<<l, g>>] = Tail(@)]
  /\ game' = [game EXCEPT ![g] = [on |-> TRUE, home |-> l]]
  /\ gsid' = g
  /\ asker' = [asker EXCEPT ![g] = l]
  /\ UNCHANGED <<player, loads, centerVars, servers, conn, leaves>>

Notify(l, g) ==
  IF g \in servers[l]
  THEN /\ leaves[<<l, g>>] < MaxMsgs
       /\ leaves' = [leaves EXCEPT ![<<l, g>>] = @ + 1]
  ELSE UNCHANGED leaves

\* MUTANT: redis keeps the server the player was on.
RecoverPlayerKeepsGsid(g) ==
  /\ Notify(game[g].home, g)
  /\ game' = [game EXCEPT ![g] = [on |-> FALSE, home |-> Nobody]]
  /\ UNCHANGED gsid

(* CGamePlayer::OnLoginOut, told to the lobby it came from. *)
RecoverPlayer(g) ==
  /\ Notify(game[g].home, g)
  /\ game' = [game EXCEPT ![g] = [on |-> FALSE, home |-> Nobody]]
  /\ gsid' = Nobody

(* A request to return to the lobby: refused while a table holds the player; *)
(* without a player the notice is sent if the client asks for it.            *)
BackHandled(l, g) ==
  /\ toGame[<<l, g>>] # <<>> /\ Head(toGame[<<l, g>>]) = "back"
  /\ toGame' = [toGame EXCEPT ![<<l, g>>] = Tail(@)]
  /\ \/ game[g].on /\ RecoverPlayer(g)
     \/ ~game[g].on /\ Notify(l, g) /\ UNCHANGED <<game, gsid>>
     \/ UNCHANGED <<game, leaves, gsid>>
  /\ UNCHANGED <<player, loads, centerVars, servers, conn, asker>>

(* The game server recovers a player that was silent for minutes. *)
GameRecovers(g) ==
  /\ game[g].on
  /\ RecoverPlayer(g)
  /\ UNCHANGED <<player, loads, centerVars, servers, conn, toGame, asker>>

(* handle_msg_leave_svr: BackLobby, whichever server sent it. *)
LeaveNoticed(l, g) ==
  /\ leaves[<<l, g>>] > 0
  /\ leaves' = [leaves EXCEPT ![<<l, g>>] = @ - 1]
  /\ \/ /\ Exists(l)
        /\ player' = [player EXCEPT ![l].svr = Nobody]
        /\ gsid' = Nobody
     \/ ~Exists(l) /\ UNCHANGED <<player, gsid>>
  /\ UNCHANGED <<loads, centerVars, servers, conn, game, toGame, asker>>

Break(l, g) ==
  /\ g \in servers[l] /\ <<l, g>> \in Fragile
  /\ servers' = [servers EXCEPT ![l] = @ \ {g}]
  /\ toGame' \in {toGame, [toGame EXCEPT ![<<l, g>>] = <<>>]}
  /\ leaves' = [leaves EXCEPT ![<<l, g>>] = 0]
  /\ UNCHANGED <<player, loads, centerVars, conn, game, gsid, asker>>

Register(l, g) ==
  /\ g \notin servers[l]
  /\ servers' = [servers EXCEPT ![l] = @ \cup {g}]
  /\ UNCHANGED <<player, loads, centerVars, conn, game, toGame, leaves, gsid, asker>>

--------------------------------------------------------------------------------
Client(c, l) ==
  \/ Disconnect(c, l)
  \/ LoginNew(c, l) \/ LoginRepeated(c, l) \/ LoginOver(c, l) \/ LoginKills(c, l)
  \/ \E k \in Kinds : ClientEnter(c, l, k)
  \/ ClientBack(c, l)

LobbyStep(l) ==
  \/ LoadAnswered(l) \/ LoginNoticed(l) \/ PlatKill(l) \/ TimePasses(l) \/ OnTimer(l)

CenterStep(l) == CenterPasses(l) \/ CenterCloses(l) \/ CenterMoves(l)

GameStep(l, g) ==
  \/ EnterHandled(l, g) \/ BackHandled(l, g) \/ LeaveNoticed(l, g)
  \/ Break(l, g) \/ Register(l, g)

Next ==
  \/ \E c \in Conn, l \in Lobby : Client(c, l)
  \/ \E l \in Lobby : LobbyStep(l) \/ CenterStep(l)
  \/ \E l \in Lobby, g \in Game : GameStep(l, g)
  \/ \E g \in Game : GameRecovers(g)

(* The timers run, and time goes on; nobody has to log in, speak or answer. *)
Fairness == \A l \in Lobby : WF_vars(OnTimer(l)) /\ WF_vars(TimePasses(l))

Spec == Init /\ [][Next]_vars /\ Fairness

--------------------------------------------------------------------------------
(* Of two lobbies that have the account in play, one is to recover it, or a *)
(* notice is still on its way from or to one of them; both keep it for good *)
(* only if a notice of one's login was lost that the other, with the        *)
(* account in play, should have had: the link to the center was down or     *)
(* closed, or the center did not have the lobby in its list                 *)
(* (CPlayer::NotifyLobbyLogin, CSvrConnectorMgr::SendMsg2Svr,               *)
(* SendMsg2AllGameServer, CCenterClientMgr::handle_msg_player_login_lobby). *)
OneMaster ==
  \A l, o \in Lobby : l # o /\ Playing(l) /\ Playing(o) =>
    \E x \in {l, o} : player[x].need \/ told[x] > 0 \/ kicks[x] > 0 \/ x \in missed

(* What a lobby believes of the game server its player is on is true or     *)
(* about to be: unless another lobby has entered there since, the player is *)
(* there, or his entering or the notice of his leaving is under way         *)
(* (EnterGameSvr, OnLoginOut and handle_msg_leave_svr together).            *)
LobbyKnows ==
  \A l \in Lobby, g \in Game :
    player[l].svr = g /\ asker[g] \in {l, Nobody} /\ <<l, g>> \notin Fragile =>
      \/ game[g].on
      \/ leaves[<<l, g>>] > 0
      \/ \E i \in DOMAIN toGame[<<l, g>>] : toGame[<<l, g>>][i] = "enter"

(* The session of a player is a connection of that lobby that bears his     *)
(* uid, so that its messages reach him and its closing frees him (SetSession *)
(* and the close callback).                                                 *)
SessionBound ==
  \A l \in Lobby : player[l].session # Nobody => conn[player[l].session].at = l

(* redis never names a game server, of those that stay alive, that the      *)
(* player is not on: what a lobby reads there at login leads to the         *)
(* player's table (SetGameSvrID and OnLoginOut).                            *)
GsidNotStale == gsid # Nobody => game[gsid].on

(* A player without a connection is not kept for ever: it comes back or is  *)
(* recovered (NeedRecover).                                                 *)
GhostsGo ==
  \A l \in Lobby :
    Exists(l) /\ player[l].session = Nobody ~> ~Exists(l) \/ player[l].session # Nobody

================================================================================
