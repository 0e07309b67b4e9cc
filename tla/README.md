# chess_gold: specifications of the card game servers

TLA+ models of the servers under `src/server/servers`, their TLC configurations, and
theorems checked with TLAPS. Paths below are relative to `src/server/servers`.

`PROJECT.json` lists the components, the runs, the source lines behind every definition
(`map`), the hazards and the theorems.

## The system

A **center server** keeps the list of servers and routes between them. A **lobby server**
owns player accounts: login, items and coins, missions, the database. A **game server** runs
rooms and tables for the players the lobby sends it. Clients talk to the lobby only; the
lobby forwards game messages. Every server is one thread: timers and messages are handled
one at a time, each to its end, so the hard interleavings are between *handlers* - and,
across servers, between connections that keep order but may break.

| Component | Source | State | Operations | Modelled by |
|---|---|---|---|---|
| Landlord table | `game_server/src/game_logic/landlord/game_land_table.cpp` | game state, turn, bids, banker, hands, trick, counters, cool-down | deal, bid, redeal, play, pass, time out, play for a silent chair, settle, reset | `LandRound`, `LandScore`, `Round` |
| Settlement and fees | `game_frame/src/game_table/game_table.cpp`, `game_table_coin.cpp` | account of each chair | start fee, division, end fee, stand up without coins | `Settle`, `TableCoins` |
| Kuaipao table | `game_server/src/game_logic/kuaipao/game_kuaipao_table.cpp` | turn, hands, trick and its type, books of the bombs, cool-down | deal, play, pass, move for silent chairs and last hands, bombs, settle, reset | `KuaipaoRound`, `KuaipaoScore`, `KuaipaoCards`; its coins in `TableCoins` |
| Tables, seats | `game_table_coin.cpp`, `game_table.cpp/.h` | seats, lookers, ready and play status, clear timer | enter, leave, sit down, stand up, ready, flush, clear | `GameRoom` |
| Rooms, matching | `game_table/game_room.cpp`, `game_room_mgr.cpp` | tables, free tables, waiting list, player count | enter, leave, quick join, `MarryTable`, `CheckRecover`, `CheckNewTable` | `GameRoom` |
| Game server's players | `game_frame/src/game_player.cpp`, `net/msg_lobby_handle.cpp` | connection, room and table pointers, coins | enter and leave server, connection lost and back, recovery, one handler per message | `GameRoom` |
| Lobby player, session | `lobby_server/src/player.cpp`, `client_msg/`, `game_server.cpp` | state of play, game server id, session, loads under way, clock of a lost connection | login of every kind, load result, enter a game server, connection lost, throw out, recover | `Session`; missions in `Missions` |
| Lobby to game messages | `net/game_server_mgr.cpp`, `net/center_client.cpp`, `net/lobby_mgr.cpp` | messages under way, coins on both sides, gsid in redis | enter, back to the lobby, leave notice, login notice of another lobby; change of accounts | `Session`; not the changes of accounts, see the end |
| Server registry | `common/src/server_connect/` | map of servers, uid of each connection, connector state, messages under way | connect, register, report a status, close on either side, send lists, restart | `Servers` |
| Player registry | `common/src/player_mgr.cpp`, `player_base.cpp` | players by uid, recover list | recover, change account | partly, in `Session`, `GameRoom`, `Settle` |
| Missions, daily reset | `lobby_server/src/mission/mission_mgr.cpp`, `player.cpp`, `common/src/common_logic.cpp` | progress, rewards, login times, statements under way | load, act, reward, save, reset online and at login, log out, crash | `Missions` |
| Card rules | `landlord/land_logic.cpp`, `kuaipao_logic.cpp`, `poker_logic.cpp` | none | card types, comparison, search | `Poker`, `LandCards`, `KuaipaoCards` |
| Database, cache, configuration, robots, scripts, web back end, process start | `common/`, `lobby_server/`, `game_frame/src/robot` | | input and output, wiring | not modelled: see the end |

How they interact: a client's message reaches a game server through the lobby and
`CHandleLobbyMsg`, which calls player, room and table. The 200 ms timer of a table, the
timers of a room (1, 2 and 5 s) and the one-second timer of the players call the same
objects. A table pays by `ChangeAccountValue` on the player, which also tells the lobby; the
lobby writes to the same account by `msg_flush_change_account_data` at any moment.

What makes each part correct:

- *Landlord table.* No card in two places; a chair that can move always has the turn; a
  trick is cleared exactly when it was won; spring is decided on this round's plays; a deal is
  repeated only when nobody bid; every dealt round ends although clients stay silent.
- *Settlement.* Nobody pays more than he holds or owes, what one side gives the other
  gets, equal winners get equal shares, playing makes no coins.
- *Rooms and tables.* A player is kept in five places - his room and table pointers, a seat,
  the lookers, the waiting list - and they agree; a table is in use or free; a round keeps its
  players; matching returns.
- *Session.* Of two lobbies that both have the account in play one is to let it go, unless the notice to it was lost;
  what a lobby believes of a game server is true or about to be; the gsid in redis leads to a server that has the player;
  a session's connection bears the player's uid, so that its closing is noticed; a player without a
  connection does not stay for ever.
- *Kuaipao table.* Who can beat the table must; a bomb is paid for once, by the trick or the last hand it
  won; the server finds a lead that the table takes; every dealt round ends.
- *Registry.* A server that registered stays in the list while it is connected; everybody has the list; a
  change of status is not lost with a connection.
- *Missions.* They start again when their day, week or month does and not before, for a player who is online as
  for one who comes back later; a prize is paid, once, although paying and noting it are two statements and the
  process may die between.

## Modules

| Module | Subject |
|---|---|
| `LandScore` | arithmetic at the head of `CGameLandTable::OnGameEnd` |
| `LandRound` | one landlord table; extends `LandScore` |
| `LandTable` | the landlord table and its rules: `LandRound` with what `LandCards` says of the cards; extends both |
| `Round` | abstract: what a card table promises its players |
| `Poker` | bags of ranks: what holds how many of what, lines, attached cards |
| `LandCards`, `KuaipaoCards` | card types, comparison and search of the two games; extend `Poker` |
| `KuaipaoRound` | one kuaipao table; extends `KuaipaoCards` and `KuaipaoScore` |
| `Settle` | `DevideByWeight`, fees, `ChangeAccountValue`; extends `LandScore` |
| `KuaipaoScore` | what kuaipao cards and bombs score; extends `Settle` |
| `TableCoins` | coins at a table over many rounds, landlord and kuaipao; extends `KuaipaoScore` |
| `GameRoom` | rooms, tables, seats, players of one game server |
| `Session` | one account across lobbies, game servers, connections, the database and redis |
| `Servers` | the registry of servers and the connectors by which they register |
| `Missions` | the missions of one player, the calendar, the queue of statements |
| `MCLandRound`, `MCKuaipaoRound`, `MCTableCoins`, `MCGameRoom`, `MCSession`, `MCServers`, `MCMissions` | constants and restricted clients for TLC |
| `Table_proofs` (shared by the next three), `LandRound_proofs`, `TableCoins_proofs`, `KuaipaoRound_proofs`, `GameRoom_proofs`, `Session_proofs`, `Servers_proofs`, `Missions_proofs` | proofs |

The modules meet at narrow seams: `LandRound` produces a score by `CalcScore`, which
`TableCoins` takes for every winner, banker, bid and number of bombs; `GameRoom` lets a round
start and end with any change of coins in which the winner loses none, and it drives
the `ready` and `ResetTable` calls that `LandRound` accepts at any time; `Session` sees of a game
server only whether it has the player, and lets it keep or recover him as it likes, which is what
`GameRoom` decides; `LandTable` ties the parameters of `LandRound` to the rules of `LandCards`, and `MCLandRound` computes them from those rules; `Missions` begins where `Session` loads a
player's missions. Operators that end in
`Not`, `Kept`, `Early`, `Unheld` and the like, under a comment `MUTANT`, are wrong variants: each
property is violated when the definition after it is replaced by one of them.

### LandRound and the code

Variables have the names of the members (`m_gameState`, `m_curUser`, `m_turnWiner`, ...). A card is
its rank in the order of `SortCardList`, a hand a set of cards; `CardType`, `CompareCard` and `SearchOutCard` are
parameters, of which only what the table relies on is assumed (a single card is a lead,
no card is none; a search that finds nothing the table takes ends in a pass). `LandTable` composes the table with its rules:
the cards are of one pack (`PackAssumption`), and what they are, what beats what and which ranks the server plays is what `LandCards` says of
their ranks (`RulesAssumption`). The cool-down `m_coolLogic` has three values: just started, over a second
(when an automatic chair moves), run out. Each branch of `OnTimeTick` is an action (`TickStart`,
`TickCall`, `TickPlay`, `TickAuto`, `TickMark`, `TickEnd`); the marking of silent chairs at the tail of
the tick is part of the action before it. Messages: `CallScore`, `OutCard`, `PassCard`,
`PlayerReady`, `PlayerSetAuto`. `ResetTable` is the room's. As in the code, `OnGameStart` resets no
counter, `callCount` is never reset, and the last chair may take the bank with a bid lower than
another's (`OnUserCallScore`, line 536). After four unbid deals the fifth forces a banker.

### Cards and the code

A hand is a bag of ranks: suits decide nothing in either game as `Init` configures it. Where the code walks a sorted
array, the model says what the walk finds - the lowest rank of which there are enough, the top of the
lowest line - and which cards it attaches. `LandCards!SearchOutRanks` and `KuaipaoCards!SearchOutCard` have one case for
each branch of the `switch` in the search, in its order, with the cases it has no branch for left out as they are
there. `MCLandRound` tabulates types and comparison once for all sets of cards of
its deck, and TLC checks `RulesAssumption` of these tables.

### KuaipaoRound and the code

As for the landlord: variables have the members' names, each branch of `OnTimeTick` is an action, the marks at its tail
belong to the action before. The cool-down distinguishes half a second (`CheckLastHandAutoCard` looks at the turn), one (an
automatic chair moves), four (the first turn of a round is looked at) and out. `AutoCard` is `OnUserAutoCard`, which a
client's pass also calls (line 243): a player who can beat the table plays when he passes. A play the table refuses
becomes a pass (`:747`, `:762`). `m_autoOutCard` is uninitialised when the first table is made (`Init` chooses);
`turnCardType` keeps the type of the last play when a trick is won, as in the code. `Init` leaves the drift score closed, so
`TABLE_STATE_CALL` is never entered.

### TableCoins and the code

`Settlement` is `DevideByWeight` followed by `CalcPlayerGameInfo` for every chair (end fee,
`ChangeAccountValue`). `bill` remembers what a settlement asked, what the chairs held and what they got.
The start fee is charged when a banker is found, and only to chairs that *still* say they
are ready: a player who takes it back while the chairs bid pays none. `KuaipaoBomb` is
`CheckBombCalc`. The doubling for the ten of hearts and the drift score (`piao`) are switched off
by `Init` and by the lack of a caller, so they are left out. `DevideByOrder` has no caller and appears
as a mutant.

### GameRoom and the code

Handlers are compositions of operators on one record of places (`room`, `table`, `waiting`, `num`,
`seat`, `lookers`), in the order of the calls in the code: `LeaveRoom` = `TryLeaveCurTable`, then
`LeaveMarry`, then the room pointer; `FastJoinTable` leaves a table first and then waits or enters. Only
`MarryTable` is cut into steps (`MarryTable`, `MarryJoin`, `MarryMalloc`, `MarryEnter`, `MarryDone`), so that "the loop
returns" is a property; nothing else may happen while `marrying` is set. `OnLoginOut` deletes the
object: seats that still point to it hold `Gone`, and lookers, which are kept by uid, stay. A used
null pointer sets `crashed`, after which nothing happens.

### Session and the code

One account is followed: nothing of one account's session is read by another's. `player[l]` is the `CPlayer` of
lobby `l` (state, `m_pSession`, `m_curSvrID`, which parts of the data are there, `m_needRecover`, and one
clock, `waited`, for `m_loadTime` while loading and `m_disconnectTime` afterwards); `game[g]` says whether game
server `g` has a `CGamePlayer` and which lobby it answers to (`SetLoginLobbySvrID`); `toGame` and `leaves` are the messages
between them, in order; `center[l]` the lobby's connection to the center (down, up, or in the center's list);
`told` and `kicks` the login notices on their way to the center and from it; `loads` the answers a
lobby's database thread still owes, base data and missions in turn; `conn[c]` the lobby at which connection `c`
bears the uid. The uid of a connection that was replaced is cleared, so nothing it does finds a player:
it counts as none (`Unnamed`).

`handle_msg_login` has five outcomes: `LoginNew`, `LoginRepeated` (the connection bears the uid, and loading starts
again), `LoginOver` (another connection takes the session), `LoginKills` (below), and refusals, which change nothing.
`LoadAnswered` is the pair of callbacks in `OnLogin`: an answer fills whichever player has the uid by
then, if it is loading. `OnGetAllData` reads gsid, tells the other lobbies and enters a game server
by itself (`EnterGameSvr(1)`). `EnterGameSvr`, `RecoverPlayer` and `Notify` are called from several handlers, as in the code.
`Break` and `Register` are a link between a lobby and a game server closing and opening; they are known to
both sides at once, messages under way are lost or, towards the game server, may still arrive. Which game servers are
registered at the start is free. Game servers do not die here, so `GsidNotStale` speaks of those that stay alive.

A login notice takes two hops. `NotifyLobbyLogin` puts it on its way to the center, or drops it when the connector does not
run (`server_connector.cpp:119-123`); `CenterPasses` sends it on to the lobbies in the center's list
(`server_client.cpp:174-184`). `CenterCloses` closes a lobby's connection, with whatever the center had sent and the lobby not read, and
any part of what the lobby had sent. `CenterMoves` opens it, enters it in the list and takes it out again: with overlapping connections
a lobby that is connected can be missing there, as `Servers` shows, so here it can be at any time. `missed` is history: the lobbies
for which a notice was lost while they had the account in play.

Line 145 of `msg_client_handle.cpp` reads the address of the old connection through a pointer that is null when
the player had lost it. What that does is the build's choice: `NullRead` says whether the lobby dies (`LoginKills`: it
starts again with nothing, and its servers register again) or goes on.

Left out: the wrong key and the second login within one second, which change no state kept here; `NotifyNetState2GameSvr`,
which only tells the table; the day after which redis forgets; the login timer that tests the database with
uid 110 (`game_server.cpp:181`); the orderly stop of a process.

### Servers and the code

`link[s]`, `isRun[s]`, `curInfo[s]` and `allSvr[s]` are the connector's members at server `s`; `servers`, `uid` and `open` the
registry's map, the uid of each connection (`SetUID`) and the connections whose closing it has not seen. A close is
seen on the two sides at two moments. Messages of a connection keep their order and die with it. `Entered` is
`insert`, which leaves an existing entry alone; `RemoveServer` looks for a server whose connection bears the uid of the one that closed,
any of them if there are several. Routing and lookups change nothing and are left out.

### Missions and the code

A slot of time is what the code tells apart: a day until six in the morning, and the rest of it; no slot passes without a
tick (`Later`), since the lobby ticks every second. `OnTimeTick` is `CPlayerMgr`'s and `CPlayer`'s together: the reset at
six, the time the player was last seen, the new day, week and month. `BuildInit` does the same for one who
comes back. `queue` is what `CDBOperator`'s thread still has to write, in order; `ReportGameResult` puts the prizes into it as
`RewardMission` pays them, then the rows as `SaveMiss` saves them. A crash empties it. `DbLoad` is the answer to
whichever question for missions is first in the queue: the callback tests the state and the uid of the player and not which login
asked (`player.cpp:107`), so a player who logs in, out and in again is filled with rows from before whatever he left
behind in the queue. Three histories name what a crash or such an answer can cost: `lost`, the missions with a change nobody
remembers; `torn`, those whose prize and row came apart; and how many prizes a row stands for (`given`).

## Runs

| Run | Config | Shows |
|---|---|---|
| `land_round` | `LandRound.cfg` | with one chair that meddles and lets turns run out and two that answer in time with every move they have, five invariants and two action properties hold over any number of rounds |
| `land_silent` | `LandSilent.cfg` | with two chairs that never answer and the rules of `LandCards`, the server's answer beats the table where one exists (`AutoAnswers`), every dealt round ends (`RoundEnds`), and `LandRound` implements `Round` with its fairness (`KeepsPromise`) |
| `land_coins` | `LandCoins.cfg` | landlord settlements never overdraw, balance, respect what is owed, share evenly and make no coins |
| `kuaipao_round` | `KuaipaoRound.cfg` | one chair that plays, passes, comes back late and meddles against two the server moves for: bombs are booked (`BombBooks`) and paid once, who can beat the table must (`MustBeat`), a lead is found (`LeadTaken`), rounds end |
| `room_match` | `RoomMatch.cfg` | a matching room and an ordinary one, clients that do not stand up: counts, waiting list, tables, seats agree; rounds keep their players; matching returns |
| `room_desk` | `RoomDesk.cfg` | a matching room with every message and a server under repair: the places a player is kept in agree (`PlacesAgree`) |
| `session` | `Session.cfg` | one lobby, a landlord and a kuaipao server, two connections, a link that breaks, late answers of the database, a lobby that dies and restarts: sessions stay bound, gsid is not stale, ghosts go |
| `session_lobbies` | `SessionLobbies.cfg` | two lobbies, the center and a game server: one lobby lets go unless a notice to it was lost, and lobbies know where their player is |
| `servers` | `Servers.cfg` | a server that loses connections, restarts and changes its status beside one that watches, and a registry that restarts: registered servers stay found, lists and status agree when nothing is under way |
| `missions` | `Missions.cfg` | a daily and a weekly mission from a morning to the second next, over the end of a week, a month and a year, with a slow database and a crash: resets in time and not before, prizes paid once |
| `kuaipao_overdraw`, `room_stuck` | `KuaipaoOverdraw.cfg`, `RoomStuck.cfg` | the two findings below: each ends in a counterexample |

Type invariants of the modules with a proof module are theorems and not run again; `GameRoom`'s is a theorem and the first part of `PlacesAgree`.

Bounds, and why they are enough:

- `Deck` in `LandRound.cfg`: seven cards, two a hand and one at the bottom. There is a pair, a missile, cards that beat
  each other and cards that do not. Rounds with spring, counter-spring, passes that clear
  a trick, and five unbid deals occur. `LandSilent.cfg` deals nine, three at the bottom, so that a banker can hold a
  bomb. One deal suffices since which hand holds what only
  chooses among these; who opens is free. The proofs lift all of it.
- `MCDeals`: three deals of six cards a hand, with bombs that beat bombs, a bomb as a last hand, triples with two
  cards, a straight, pairs, and a chair left with one card. Larger hands add longer lines, not other branches of the table.
- Chairs: three, as in the code (`GAME_LAND_PLAYER`). The runs give the freedom to chair 0; seats are alike up
  to rotation, and any chair may open. The restricted clients (`PromptSpec`, where the prompt chairs bid two or
  nothing, `SilentSpec`, and `MCKuaipaoRound`) are
  sub-behaviours of `Spec`; the safety theorems are about `Spec`.
- `MaxCoins`, `MaxTotal`: purses of 0 to 12 against stakes of 1 to 12 in `LandCoins`, so a
  chair can pay in full, in part and not at all, banker and farmer alike. `MaxBombs` = 1: a second
  bomb only doubles again. `Changes`: the lobby takes 2 or gives 1.
- `MaxTables` = 1 or 2 and two seats a table with two or three players: full, half full and empty
  tables, a table freed and used again. `WithinBound` keeps `MarryTable` from starting when it would
  need a table above the bound, so it never stops in the middle for the bound's sake.
  `MaxPurse` = 1 with `EnterMin` = 1: rich and poor are told apart, nothing else is.
- `Servers.cfg`: two servers, three connections that are alike (`SYMMETRY`): an old one, its successor, and that of the
  server that watches. `MaxMsgs` = 3 holds a registration, a report and one more; only one server is `Restless`.
- `Missions.cfg`: slots 3 to 7, weeks of two days, months and years of three, so that each turn falls into the
  window and a day turns alone, with a week, and with a year. Missions need one game, and two wins in a row. `MaxQueue` = 3 holds the
  statements of one handler and waiting ones behind them; one crash. An answer to an older login that brings old rows needs seven
  statements in the queue; that case is left to the proofs, whose queue has any length.
- `MaxLoads` = 3 in `Session.cfg`: while one answer of a given up login is still owed, a new
  login may ask for its two. `MaxMsgs` = 1: one message of each kind between each pair of servers, which is enough
  for a late notice to meet a new entering. Two connections: an old one and its successor. Two
  game servers of different kinds; two of one kind differ only in the choice made on entering. `SessionLobbies.cfg` has one
  connection, that moves between two lobbies which are alike (`SYMMETRY`); its `PairSpec`, with the constraint `OneLink`, takes two parts of the system one at a time: no
  game server has registered yet and the links to the center open, are entered, close and lose notices as they like; or both lobbies have the
  game server and every notice is dropped. Notices change only `m_needRecover`, which the game servers never read, so the parts meet nowhere else;
  `OneLobbyKeeps` and `LobbiesKnow` are proved for all of it at once. The proofs of `Servers`, `Session`, `GameRoom` and
  `Missions` lift these bounds for the safety properties they reach.

`CHECK_DEADLOCK FALSE` is set where the bounds or a crash can stop the model: no coins left to bring
(`MaxTotal`), `crashed`, rooms nobody enters, and the last of the observed days (`Until`).

### Fairness

`LandRound!FairSpec` assumes weak fairness of `Tick` and `Elapse`: the table's timer reschedules itself
at the end of each `OnTimeTick` and time passes. `MarryTableReturns` assumes weak fairness of the
loop's steps: a handler that began is not preempted. `KuaipaoRound!FairSpec` adds strong fairness of `TickPlay`: a client that
comes back for a turn that has run out gets two seconds more each time (`SendGameScene`), and it is assumed not to be so quick as to do
that, for ever, between the moment its time runs out and the next tick. `MCLandRound` and `MCKuaipaoRound` spell the states out in which a
tick can move, which is the same and cheaper to check. `Session!Fairness` assumes that a lobby's one-second timer, which
reschedules itself (`CPlayerMgr::OnTimer`), runs while there is a player, and that time passes; no login, message or answer
is assumed to come, so `GhostsGo` holds for clients that never return and databases that never answer. Nothing is assumed of clients, of the lobby, or
of the order in which timers are served.

## Proofs

| Module | Result |
|---|---|
| `LandRound_proofs` | `Invariant`, and from it `TypeCorrect`, `CardsAreDealtOnce`, `TurnsInOrder`, `PlaysAreCounted`, `BidsStayInOrder`, `RoundsSettle`; `PlaysAreDisciplined` and `NoRedealOnceBid` for steps; `KeepsRounds`: initial states map to those of `Round`, steps to steps or stutters; `ServerAnswers`: `AutoAnswers` under the rules of `LandCards` |
| `Table_proofs` | `LandDevideFair`: the division of every landlord round is fair; and the lemmas on bags of cards that both games use |
| `TableCoins_proofs` | `CoinsTypeCorrect`, `LosersPayWhatTheyHold`, `SettlementsBalance`, `NobodyPaysExtra`, `FarmersShare`, `PlayMakesNoCoins` |
| `KuaipaoRound_proofs` | `Invariant`, and from it `TypeCorrect`, `BombsAreBooked`; `BombsArePaidOnce` for steps; `HandsStay`, and from it `LeadsAreTaken`; `TricksAreKept`, and with it `WhoCanMust` for steps |
| `GameRoom_proofs` | `PlacesStaySound`, and from it `RoomsTyped`, `RoomCountsRight`, `WaitersFree`, `TablesKnowPlayers`, `TablesInUseOrFree`, and all of them as `PlacesAlwaysAgree`; where nobody stands up `ChairsStayCalm`, and from it `RoundsStartFull` and `RoundsKeepPlayers` for steps |
| `Servers_proofs` | `ServersInvariant`, and from it `RegisteredStay`; `ServersKnow`, and from it `ServersTyped`, `ListsReachServers`, `ReportsReachRegistry` |
| `Session_proofs` | `SessionInvariant`, and from it `SessionTypeCorrect`, `OneLobbyKeeps`, `LobbiesKnow`, `SessionsAreBound`, `GsidLeadsBack` |
| `Missions_proofs` | `MissionBooks`, and from it `RewardsArePaid`, `RewardsArePaidOnce`; `MissionTimes`, and from it `MissionsAreFresh`; `MissionsAreOfferedOnce` for steps |

They hold for every deck, deal, base score, card ranking (`ServerAnswers`: for every pack, under the rules), fee, purse and change made by the
lobby, the session's for any sets of lobbies, game servers and connections, the registry's for any servers and connections and however many messages,
the rooms' for any players, rooms, tables, seats and purses, and the missions' for any missions, calendar, number of statements behind and number of crashes. The
named assumptions are `DeckAssumption`, `ConfAssumption`, `CardTypeAssumption`, `PackAssumption` and `RulesAssumption` (used by `ServerAnswers` alone), `CoinsAssumption`, `DealsAssumption`, `KuaipaoConfAssumption`,
`RoomAssumption`, `PointerAssumption` (finitely many players; a null pointer and an object that is gone are nobody), `ServersAssumption`, `SessionAssumption` and
`MissionsAssumption`; each run evaluates those of its modules.

*LandRound.* `IInv` is the conjunction of the type invariant and the five invariants; none is
inductive alone. `TurnOrder` says a chair in play holds cards, which a bid turning into a
round only keeps if `PlaysCounted` knows the size of the dealt hands; the redeal needs `BidsInOrder` (all
bids zero once the turn is back at the opener) to know that `firstUser` is a chair and that no old
banker survives; `RoundSettled` needs a banker with a bid from `TurnOrder`. Every action changes the round
through one of seven operators (`OnGameStart`, `AskNext`, `BecomeBanker`, `UserCallScore`, `UserOutCard`, `UserPassCard`,
`OnGameEnd`), each with a lemma; seat fields are handled separately (`SeatTypeOK`). `callCount` stays at
most four because the redeal tests it.

`ServerAnswers` is about what the landlord search finds, over bags of ranks. Cards that beat the table are of its type and size with a higher
key, or a bomb, or the jokers (`HowBeaten`). In each case they say where the hand holds what the search looks for: a rank of which there are
enough (`SameRead`), the top of a line (`LineRead`), a run of triples with enough beside it (`ThreeComplete`); then the search stops there or
earlier, and what it takes is a play of the type it was looked for (`SameFound`, `LineFound`, `ThreeFound`), where attached cards are the hard
part: pairs are attached from the hand without the triples (`TakenIs`), and those attached to a plane make no triple and no four
(`ThreeSound`). When there is no play of the type the search goes on to bombs and the jokers (`BombFound`). `SearchBeats` puts the
cases together, `BagOfIs` and `BagOfSize` say that sets of cards are such bags, and `TableTyped` that what lies on the table was a play. That
this holds for a plane with single cards too is not so: the attempt to prove it found the plays below that the search spoils.

*Division.* `LandDevideFair` splits on who wins. A winning banker collects from losers who each pay at most
what they hold. Losing, he pays in full or the pot is shared: both farmers want the same
amount, so each share is half the pot rounded down (`HalfShare`) and the first takes the odd coin.

*TableCoins.* `IInv` adds that who is ready is seated - so a round, which needs three ready chairs, has
three accounts - and that the last bill is fair in the sense above. `PlayMakesNoCoins` follows from fairness
and from the fees being non-negative and at most the win.

*KuaipaoRound.* Types and `BombBooks` are inductive together. The books need the type of the trick beside its cards, since a
trick is paid for by the type kept with it; that a hand stays a bag needs what the searches return to be within the
hand, which `CanOutCard` tests. Every change of the round goes through a play, a pass, the end of the round or the start, each with a
lemma; `BombsArePaidOnce` compares the books before and after each.

`LeadTaken` and `MustBeat` are about what the searches find, so their proofs go through the rules. `Attached` is the walk that attaches
cards: `AttachedSize` says that as many are attached as are asked for, if there are as many (the ranks are ordered by `Order`, and
the proof follows the last rank that is not attached whole). A line taken from a hand is then a play of the type it was looked for
as: `LinePlay` for rows of cards or pairs, `PlanePlay` for triples, whose attached cards may make a triple longer or the line, but leave it a
play as a last hand or not; `BombPlay`. `LeadIsPlay` puts the kinds of lead together. It needs hands of the deck (`HandsKept`): with three twos in one hand the search would
lead a triple of twos with cards that make it a play the table refuses, and `Deck`, from `GetInitCardList`, has a single two and no jokers. That
part of `DealsAssumption` was found to be needed by this proof. `WhoCanMust` reads the rules backwards: cards that beat the table have a type
(`TypeSays`), the type says where their highest rank lies in the hand (`RowTops`, `FiveCards`, `BombOne`), so the search has a rank to
take (`Answers`) and what it takes beats the table (`LineBeats`, `BombBeats`), as the last hand of a chair too. `TrickKept` links the kept
type, by which `Searched` names its exception, to the cards on the table.

*Servers.* `OnlyOne` is what makes `Registered` inductive: a server named on a connection it has, none of
which overlapped, has no other open connection, so no close can take its entry. `Owned` says that a connection bears the
uid of who opened it or none, which a registration under way relies on. `KInv` adds what is under way: a registered server has
the registry's list or the last list on its way to it is that one (`ListsReach`); the last message on the connection of a server
bears the status it noted (`LastReport`); a registration is the first message on its connection and comes before the uid does
(`RegisterFirst`), and a connector with a connection runs (`Running`), so that nothing it sends is dropped. `ListsAgree` and
`StatusKnown` are what these say of empty channels.

*GameRoom.* A handler is a composition of operators on a record of places, and `Sound` says of such a record that
counts are the numbers of members (`Counts`), that tables know their players (`Knows`), that who is at a table is at one in use
(`AtUsedTables`), that tables not in use are empty (`UnusedEmpty`), and that who waits is in his room and at no table (`WaitsWell`). Each
operator has a lemma: it takes sound places to sound places. Entering a table passes through places in which a player still waits
although he sits: the lemmas of the operators below it are about `Placed`, which is `Sound` without the waiting list. `PInv` is `Sound` with two facts the pool of tables needs: a free table's number occurs once and is not in use
(`FreeWell`), and the loop of `MarryTable` stands at a player who waits, with a table of its room (`Marries`), since what the loop
has put into its variables is used some steps later. The handlers and timers then follow from the lemmas of what they call.

The two properties of steps hold for clients that do not stand up (`SeatedSpec`), where sound places are also `Calm`: nobody looks on, a
chair's player points to the table of the chair and has no other chair (`OneChair`), and who sits at a table that plays takes part in its round
(`AllPlay`). `OneChair` makes the first chair of a player, the one the code looks at, the only one: so leaving leaves none behind, and a table
whose chairs are all ready has as many players as chairs (`FullTable`, a bijection). `AllPlay` makes `CanLeaveTable`
refuse everybody in a round. Each operator keeps calm places calm and, except where all of a table's chairs are cleared at once, the chairs of
every table that plays (`Keeps`).

*Session.* `IInv` adds three facts to the invariants. `Absent`: a player that is gone leaves no session behind, which
the close callback of its old connection relies on. `HomeAsked`: a game server answers to the lobby that
asked last. `SvrRegistered`: over links that hold, a lobby keeps its player only on registered servers, so the notice of
leaving can be sent. `OneMaster` is its own induction: whoever `Yields` (is to be recovered, told, being told, or missed a notice) goes on
to, or all others that have the account do instead (`YieldsOn`); `NoticeSent`, `NoticePassed` and `NoticesLost` say for each hop and each
loss who that is. `LobbyKnows` is carried by messages: entering puts one under way (`EnterGameSvrDone`), handling it creates
the player, recovering him puts a notice under way (`RecoverKnows`), and that clears the id. All handlers of a lobby but
the crash are of one shape for this purpose (`Located`), and all that touch a session without a new connection of another (`KeepsBound`).

*Missions.* `MInv` follows one mission through the queue. What the database has of it is an account: how often it was
paid, whether it has a row, how many prizes the row stands for. For every mission there is a path of accounts (`Path`), one for each statement under way,
that starts with the database's and of which every account is honest (`Honest`: no row stands for a prize that was not paid, and none is
paid before there is a row) and none less than the one before; what the player holds in memory agrees with its end (`Agrees`). A statement that is
written takes the first step of the path; a handler appends its own, prize before row; a crash cuts the path, whose beginning is still
honest, and that is why no prize is lost with its row kept. `PrizeOnce` is the end of the path when the queue is empty. A login answered by
an older question holds what the path says at its beginning and not at its end: this is where the proof needs `torn`
to name the missions concerned (`Missed`), and how the exception was found.

`TInv` adds what is known of times. Along the queue the times of a mission's rows never fall (`InOrder`), but for the first row of a new mission, whose
time is zero: this is what makes the last row the latest. While the player is there, that last row (`Ends`) has the time he holds in
memory or is new, and what he holds belongs to the cycle in which he was last seen (`Within`, over days, weeks and months by number). While
he is away the same is said of the last row and of every time at which the database has, or will have, seen him (`Seen`): it holds for each of
them because none is later than when he was last seen (`SeenBefore`), so it does not matter which login has been written when the question is answered. A login
then resets what turned since (`BuildInitTimes`), the tick what turned since the tick before (`Clock`: no slot passes without one;
`TurnOf`: a week or a month turns at a midnight, on its first day). `MissionsFresh` is `Within` for somebody seen now. `NoEarlyReset` needs two
things beside `TInv`: that the missions of a day are reset by `DailyCleanup` alone (`OfferedSteps`), and that from a moment to a
later one of the same day of the game `IsNeedReset` says no unless the year differs (`SameDay`).

Only model-checked: `GhostsGo`, `MarryTableReturns`, both `RoundEnds` and the fairness part of `KeepsPromise`, since liveness is outside the
prover's reach. Every other property of a passing run is a theorem.

## What the code does otherwise than it says

- `kuaipao_overdraw`: `OnGameEnd` marks no banker and tells the division there is one; chair 0 is taken
  for the banker and can be charged more than it holds, and the winner is credited coins nobody paid.
- `room_stuck`: `playStatus` is set at the start of a round and not cleared at its end, so nobody can leave an
  ordinary table once a round was played at it, while the comment says a free table can be left.

Seen while modelling and not run, because nothing in the repository says otherwise, or because the properties above name the exception:

- The timer that clears a finished match (`game_table_coin.cpp:476`) is not cancelled when the table is freed and
  reused, and clears the next match. `RoundKeepsPlayers` excepts it.
- A leave notice of a game server clears the lobby's server id whenever it arrives (`game_server_mgr.cpp:144`). If the
  client asks to enter again while it is under way, the lobby forgets the server the account has just gone back to; the next
  entering of another kind puts the account on two servers at once.
- A landlord bomb beats the two jokers in `CompareCard` when they lie on the table (`land_logic.cpp:189-190`), but the search never
  offers it (`:621`): a silent chair does not, a client may.
- To several triples with a single card each, the landlord search attaches the lowest single cards, then pairs, triples and fours
  (`land_logic.cpp:509-556`), which can complete a four or add a triple: 6666 777 9 for 333444 58. Such a play has no type
  (`:57`, `:78`), the server's move is refused and it passes, although the hand may hold a bomb that beats the
  table. `AutoAnswers` excepts these plays.
- The kuaipao search finds no answer to a four with three cards, attaches other triples to planes in a way the comparison
  can refuse, and offers a single card that would let the next chair's last card go: then the server passes for a chair
  that could have played. `MustBeat` names these three cases (`Searched`), and leaves out a whole hand played as the
  last one, which may be short of the cards its triples take along and which no search looks for.
- A client that passes is played for (`game_kuaipao_table.cpp:243`), so a pass message never is one while there is an answer.
- When the look at a last hand ends the round, the rest of the tick reads, and may write, `m_vecPlayers[INVALID_CHAIR]`
  behind the end of the vector (`:178-184`).
- A server that connects again before the registry saw its old connection close is not entered (`insert`,
  `server_client.cpp:108`) and its old entry goes when that closes (`:118`): connected and in nobody's list. Nothing detects dead
  connections on these ports: the center's heartbeat is commented out (`center_server/src/game_server.cpp:45`).
- The turn of a year counts as 365 days (`common_logic.cpp:68-71`), so a player who plays over midnight of New Year has his daily
  missions reset at midnight and again at six, while the comment (`:76`) says they are at six. `NoEarlyReset` excepts it.
- At six the login is saved before the time the player was last seen moves on (`player.cpp:185`, `:188`), at
  midnight after; and a login saves that time but not the missions it has reset (`:407`). A crash in between brings old
  progress into the new day, or counts a day twice. At the turn of a week `weeklogin` becomes 1 at midnight and 2 at
  six, so that it reaches 8 in a week.
- A player who logs in, out and in again before the database has answered gets the answer to his first question
  (`player.cpp:69`, `:107` test the state and the uid only), with rows from before what he did and left in the queue. A mission rewarded
  meanwhile can then be rewarded again, and a reset undone by a crash goes unnoticed. `PrizeOnce` and `MissionsFresh` except missions
  with a statement under way at that moment.
- Progress made between the last tick before six and six itself can be reset with the day it counted for.
- A kuaipao table whose chairs can all pay what is asked is not hurt by the unmarked banker: the division then changes nothing.

- A kuaipao bomb credits its winner at once (`game_kuaipao_table.cpp:1236-1240`), and the settlement
  (`:392`) counts the same gain again: a round with a bomb makes coins. `PlayMintsNoCoins` is therefore a
  property of the landlord table only.
- A player who stood up, logged out and came back is still among the lookers by uid and can take a
  second chair at the table he sits at; a round can then start with one player on two chairs. `OneChairEach`
  and `RoundKeepsPlayers` are checked and proved for clients that do not stand up (`SeatedSpec`).
- `CGamePlayer::SetNetState` uses the table after a looker left it (`game_player.cpp:200`) and the room of a player who
  has none (`:204`). The model goes to `crashed`.
- A looker may leave (`game_table_coin.cpp:172`), but `LeaveTable` finds no seat for him, says so, and is not
  asked (`:146`, `game_room.cpp:130`): he is out of the room and still at the table.
- `MarryTable` (`game_room.cpp:507`) tests the result code of `CanEnterTable` as a truth value: no second table is made
  in one call, and the player who needs it is put out of the room (`:517`) although he can pay.
- At a kuaipao table the rule that a single card must be the highest when the next player has one card left
  (`game_kuaipao_table.cpp:604`) binds who plays, not who passes (`OnUserPassCard`). A client that reconnects after its time has run
  out gets two seconds more, every time it does (`:911`).
- Two lobbies that log the account in at the same time tell each other and both let it go.
- A login notice is dropped when the lobby's connector to the center does not run (`server_connector.cpp:119-123`), is not sent
  to a lobby that is missing in the center's list (`server_client.cpp:174-184`), and is lost with a connection that closes. Nobody repeats it, so
  both lobbies keep the account, until a next login. `OneMaster` excepts lobbies that had the account in play when a
  notice to them was lost, and nothing else.
- A `CPlayer` is never destroyed: its mission manager holds a pointer to it (`mission_mgr.cpp:21`). The destructor, which
  would clear the uid and close the connection (`player.cpp:30`), does not run, so the connection of a recovered player keeps
  the uid, and its closing takes the session from a player who has logged in since. `Session` models this.
- Who returns after losing his connection makes the lobby read through a null pointer (`msg_client_handle.cpp:145`), while
  `game_server.cpp:90` keeps him for that very return.
- After a restart of a lobby, a login that comes before the game servers have registered finds gsid's server missing, sets
  gsid to zero and may enter another server, while the first still has the player.
- Game servers tell changes of accounts to lobby 0 (`lobby_mgr.cpp:107`); lobbies are numbered from 1
  (`server_config.lua`), so these messages arrive nowhere, and a mission's prize is not told to the game server either (`mission_mgr.cpp:304`).
- The fields that say how long a table has been dealing unbid (`callCount`) are never reset.

## Plan

Done: `LandRound`, `LandScore`, `Round`, `KuaipaoRound`, `Settle`, `TableCoins`, `GameRoom`, `Session`, `Servers`, `Missions` with runs and
proofs; the card rules, with what their searches find proved for both games. Left, in this order:

1. `GameRoom` and `Session` meet in `EnterSvr` and `OnLoginOut`: a module that composes one game server's rooms with its
   lobby, where a round that is played delays the leaving.
2. Repaired variants: a `leave_svr` that names the server it comes from, and a registration that replaces the old
   entry, each with a property that needs no exception for the late notice or the overlapping connection.

## Not modelled

Changes of accounts between game server and lobby: they are sent to lobby 0 and never arrive, so the two accounts have no
agreement to state. Routing of messages between servers, and lookups, which keep no state. The robots' choice of cards
(`land_logic.cpp:705-5291`), which nothing calls. Generated protocol code.

Database and redis (the order of answers and the field gsid are in `Session`, the order and loss of statements in
`Missions`; their other contents are not), configuration
(constants), robots (no caller creates one), Lua glue, web back end requests other than throwing a player out, logging, and the wire
format. Network and timer libraries are external.
