------------------------------- MODULE GameRoom -------------------------------
(***************************************************************************)
(* The rooms of one game server: players enter rooms, sit at coin tables,  *)
(* are matched, get ready, play, leave, lose their connection, come back   *)
(* and log out (CGameRoom, CGameCoinTable, the seats of CGameTable,        *)
(* CGamePlayer and the handlers of CHandleLobbyMsg).  A player is kept in  *)
(* five places at once: the player's own room and table pointers, the      *)
(* seats, the lookers of a table and the waiting list of a room.  How a    *)
(* round is played is LandRound's subject; here it starts and ends.        *)
(*                                                                         *)
(* Every handler runs to its end before the next one starts, so handlers   *)
(* are compositions of operators on a record of those places; only the     *)
(* loop of MarryTable is cut into steps, with nothing else in between.     *)
(***************************************************************************)
EXTENDS Naturals, Sequences, FiniteSets

CONSTANTS
  Player,      (* uids                                                      *)
  Room,        (* room ids                                                  *)
  MarryRoom,   (* the rooms with IsNeedMarry()                              *)
  SeatNum,     (* m_conf.seatNum                                            *)
  TableNum,    (* m_roomCfg.tableNum: tables an ordinary room begins with   *)
  EnterMin,    (* m_roomCfg.enter_min                                       *)
  SitDownMin,  (* m_roomCfg.sitdown                                         *)
  EnterMax,    (* m_roomCfg.enter_max; no limit unless above EnterMin       *)
  LimitEnter,  (* m_roomCfg.limitEnter # 0: the room itself asks for coins  *)
  MaxTables,   (* bound: tables one room can create                         *)
  MaxPurse,    (* bound: coins of a player                                  *)
  None         (* a null pointer                                            *)

ASSUME RoomAssumption ==
  /\ MarryRoom \subseteq Room
  /\ SeatNum \in Nat \ {0} /\ TableNum \in Nat /\ MaxTables \in Nat /\ TableNum <= MaxTables
  /\ EnterMin \in Nat /\ EnterMax \in Nat /\ SitDownMin \in Nat /\ MaxPurse \in Nat
  /\ LimitEnter \in BOOLEAN
  /\ None \notin Player /\ None \notin Room /\ None \notin Room \X (1..MaxTables)

Table == Room \X (1..MaxTables)      \* a table belongs to the room that created it
HostRoom(t) == t[1]
TableID(t)  == t[2]                  \* unique in its room only
Seat == 1..SeatNum
Gone == "gone"                       \* the object of a player who logged out

\* A process has finitely many players; null pointers and objects that are gone are nobody.
ASSUME PointerAssumption ==
  IsFiniteSet(Player) /\ Gone \notin Player \cup {None} /\ None \notin 0..MaxTables

VARIABLES
  (* CGamePlayer *)
  net,        (* "none": no such player object; "on", "off": m_netState     *)
  coins,      (* its coins                                                  *)
  room,       (* m_pGameRoom                                                *)
  table,      (* m_pGameTable                                               *)
  (* CGameRoom *)
  tables,     (* m_mpTables                                                 *)
  freeTable,  (* m_freeTable                                                *)
  waiting,    (* m_marryPlayers: player -> table to avoid, 0 if none; None: not waiting       *)
  playerNum,  (* m_playerNum                                                *)
  marrying,   (* where the loop of MarryTable stands, None outside of it    *)
  (* CGameTable *)
  seat,       (* m_vecPlayers                                               *)
  lookers,    (* m_mpLookers, by uid                                        *)
  gameState,  (* m_gameState                                                *)
  played,     (* m_round > 0                                                *)
  clearing,   (* m_timerClear is scheduled                                  *)
  (* the process *)
  repair,     (* the server's status is emSERVER_STATE_REPAIR               *)
  crashed     (* a null pointer was used                                    *)

placeVars == <<room, table, waiting, playerNum, seat, lookers>>
tableVars == <<gameState, played, clearing>>
poolVars  == <<tables, freeTable>>
sysVars   == <<marrying, repair, crashed>>
vars == <<net, coins, placeVars, tableVars, poolVars, sysVars>>

EmptySeat == [player |-> None, ready |-> FALSE, play |-> FALSE]

Init ==
  /\ net = [p \in Player |-> "none"]
  /\ coins = [p \in Player |-> 0]
  /\ room = [p \in Player |-> None] /\ table = [p \in Player |-> None]
  /\ tables = [r \in Room |-> IF r \in MarryRoom THEN {} ELSE 1..TableNum]
  /\ freeTable = [r \in Room |-> <<>>]
  /\ waiting = [r \in Room |-> [p \in Player |-> None]]
  /\ playerNum = [r \in Room |-> 0]
  /\ marrying = None
  /\ seat = [t \in Table |-> [i \in Seat |-> EmptySeat]]
  /\ lookers = [t \in Table |-> {}]
  /\ gameState = [t \in Table |-> "FREE"]
  /\ played = [t \in Table |-> FALSE] /\ clearing = [t \in Table |-> FALSE]
  /\ repair = FALSE /\ crashed = FALSE

-----------------------------------------------------------------------------
(* The places a player is in, as one value that handlers pass on.          *)

Places == [room |-> room, table |-> table, waiting |-> waiting, num |-> playerNum,
           seat |-> seat, lookers |-> lookers]

Become(s) ==
  /\ room' = s.room /\ table' = s.table /\ waiting' = s.waiting /\ playerNum' = s.num
  /\ seat' = s.seat /\ lookers' = s.lookers

SeatsOf(s, t, p) == {i \in Seat : s.seat[t][i].player = p}
First(S) == CHOOSE i \in S : \A j \in S : i <= j
EmptySeats(s, t) == SeatsOf(s, t, None)
Seated(s, t) == {s.seat[t][i].player : i \in Seat} \ {None}

-----------------------------------------------------------------------------
(* CGameCoinTable and the seats of CGameTable.                             *)

\* MUTANT: whoever takes back that he is ready may leave.
CanLeaveTableUnready(s, t, p) ==
  LET mine == SeatsOf(s, t, p) IN mine # {} => ~s.seat[t][First(mine)].ready

\* CanLeaveTable: whoever has no seat, or a seat that has played no round yet.
CanLeaveTable(s, t, p) ==
  LET mine == SeatsOf(s, t, p) IN mine # {} => ~s.seat[t][First(mine)].play

\* Has LeaveTable a seat to clear?  It answers no for a looker.
CanClear(s, t, p) == s.table[p] = t /\ SeatsOf(s, t, p) # {}

\* MUTANT: the player goes on pointing to the table.
LeaveTableKeeps(s, t, who) ==
  [s EXCEPT !.seat[t] = [i \in Seat |->
     IF s.seat[t][i].player \in who /\ s.table[s.seat[t][i].player] = t
     THEN EmptySeat ELSE s.seat[t][i]]]

\* LeaveTable, for every player of `who`: the first seat and the pointer to the table go.
LeaveTable(s, t, who) ==
  LET leaves(p) == p \in who /\ CanClear(s, t, p)
  IN  [s EXCEPT
        !.table = [p \in Player |-> IF leaves(p) THEN None ELSE s.table[p]],
        !.seat[t] = [i \in Seat |->
          LET p == s.seat[t][i].player
          IN  IF p \in who /\ leaves(p) /\ i = First(SeatsOf(s, t, p))
              THEN EmptySeat ELSE s.seat[t][i]]]

\* WantNeedRecover: a matching room plays one round at a table.
WantNeedRecover(t) == HostRoom(t) \in MarryRoom /\ played[t]

\* CanEnterTable fails for a player at another table with RESULT_CODE_FAIL, otherwise
\* with a code of its own.
AtOtherTable(s, t, p) == s.table[p] \notin {None, t}

CanEnterTable(s, t, p) ==
  /\ ~AtOtherTable(s, t, p)
  /\ EmptySeats(s, t) # {} /\ gameState[t] = "FREE" /\ ~WantNeedRecover(t)
  /\ coins[p] >= EnterMin

SitDown(s, t, i, p, isReady) ==
  [s EXCEPT !.seat[t][i] = [player |-> p, ready |-> isReady, play |-> FALSE],
            !.table[p] = t]

\* EnterTable: the first empty seat; in a matching room the player is ready at once.
EnterTable(s, t, p) ==
  SitDown(s, t, First(EmptySeats(s, t)), p, HostRoom(t) \in MarryRoom)

-----------------------------------------------------------------------------
(* CGameRoom.                                                              *)

ReadyNum(s, t)  == Cardinality({i \in Seat : s.seat[t][i].player # None /\ s.seat[t][i].ready})
NumPlayers(s, t) == SeatNum - Cardinality(EmptySeats(s, t))

\* The order JoinNoFullTable sorts tables by.
Preferred(s, a, b) ==
  \/ ReadyNum(s, a) > ReadyNum(s, b)
  \/ ReadyNum(s, a) = ReadyNum(s, b) /\ NumPlayers(s, a) > NumPlayers(s, b)
  \/ ReadyNum(s, a) = ReadyNum(s, b) /\ NumPlayers(s, a) = NumPlayers(s, b)
       /\ TableID(a) <= TableID(b)

Joinable(s, r, p, exclude) ==
  {t \in {r} \X tables[r] : TableID(t) # exclude /\ CanEnterTable(s, t, p)}

JoinNoFullTable(s, r, p, exclude) ==
  LET open == Joinable(s, r, p, exclude)
  IN  IF open = {} THEN s
      ELSE EnterTable(s, CHOOSE a \in open : \A b \in open : Preferred(s, a, b), p)

\* JoinMarry keeps the entry of a player who waits already.
JoinMarry(s, r, p, exclude) ==
  [s EXCEPT !.waiting[r][p] = IF @ = None THEN exclude ELSE @]

\* MUTANT: the player who leaves the room goes on waiting.
LeaveMarryNot(s, r, p) == s

LeaveMarry(s, r, p) == [s EXCEPT !.waiting[r][p] = None]

CanEnterRoom(s, r, p) ==
  /\ s.room[p] \in {None, r}
  /\ LimitEnter => /\ coins[p] >= EnterMin
                   /\ EnterMin < EnterMax => coins[p] <= EnterMax

\* CanLeaveRoom, CanBackLobby: no table, or one that can be left.
CanLeaveRoom(s, p) == s.table[p] # None => CanLeaveTable(s, s.table[p], p)

TryLeaveCurTable(s, p) ==
  IF s.table[p] # None /\ CanLeaveTable(s, s.table[p], p)
  THEN LeaveTable(s, s.table[p], {p}) ELSE s

\* MUTANT: a player is not counted.
EnterRoomUncounted(s, r, p) ==
  LET in == [s EXCEPT !.room[p] = r]
      t  == in.table[p]
  IN  IF t # None /\ WantNeedRecover(t) THEN TryLeaveCurTable(in, p) ELSE in

\* MUTANT: a player who is in the room already is counted once more.
EnterRoomTwice(s, r, p) ==
  LET in == [s EXCEPT !.room[p] = r, !.num[r] = @ + 1]
      t  == in.table[p]
  IN  IF t # None /\ WantNeedRecover(t) THEN TryLeaveCurTable(in, p) ELSE in

\* EnterRoom: a table of an old match is left behind.
EnterRoom(s, r, p) ==
  LET in == IF s.room[p] = r THEN s ELSE [s EXCEPT !.room[p] = r, !.num[r] = @ + 1]
      t  == in.table[p]
  IN  IF t # None /\ WantNeedRecover(t) THEN TryLeaveCurTable(in, p) ELSE in

\* LeaveRoom, of the player's own room.  It does not look at what LeaveTable answers.
LeaveRoom(s, p) ==
  LET r   == s.room[p]
      off == LeaveMarry(TryLeaveCurTable(s, p), r, p)
  IN  IF CanLeaveRoom(s, p) THEN [off EXCEPT !.room[p] = None, !.num[r] = @ - 1] ELSE s

\* FastJoinTable: change tables, or wait for one.  Who cannot leave stays.
FastJoinTable(s, r, p) ==
  LET t    == s.table[p]
      away == IF t = None THEN s ELSE LeaveTable(s, t, {p})
      old  == IF t = None THEN 0 ELSE TableID(t)
  IN  IF t # None /\ ~(CanLeaveTable(s, t, p) /\ CanClear(s, t, p)) THEN s
      ELSE IF r \in MarryRoom THEN JoinMarry(away, r, p, old)
      ELSE JoinNoFullTable(away, r, p, old)

\* EnterTable of the room: leave the old table, then enter the new one, or any other that
\* has a seat, or stay without.
RoomEnterTable(s, r, p, id) ==
  LET t    == s.table[p]
      away == IF t = None THEN s ELSE LeaveTable(s, t, {p})
      new  == <<r, id>>
  IN  IF t # None /\ (TableID(t) = id \/ ~CanLeaveTable(s, t, p) \/ ~CanClear(s, t, p)) THEN s
      ELSE IF r \in MarryRoom THEN JoinMarry(away, r, p, 0)
      ELSE IF CanEnterTable(away, new, p) THEN EnterTable(away, new, p)
      ELSE JoinNoFullTable(away, r, p, 0)

\* OnLoginOut: the object of the player goes.  Lookers are known by their uid and stay,
\* and so does a seat that is not the player's first.
OnLoginOut(s, p) ==
  LET off == IF s.table[p] = None THEN s ELSE LeaveTable(s, s.table[p], {p})
      out == IF off.room[p] = None THEN off ELSE LeaveRoom(off, p)
  IN  [out EXCEPT
        !.table[p] = None, !.room[p] = None,
        !.seat = [t \in Table |-> [i \in Seat |->
                   IF out.seat[t][i].player = p THEN [out.seat[t][i] EXCEPT !.player = Gone]
                   ELSE out.seat[t][i]]]]

-----------------------------------------------------------------------------
(* The handlers of CHandleLobbyMsg: one action for each.                   *)

\* A handler of the player's, or of a timer, has the process for itself.
Idle == marrying = None /\ ~crashed
Here(p) == Idle /\ net[p] # "none"

SamePool == UNCHANGED <<tableVars, poolVars, sysVars>>
Handled(s) == Become(s) /\ UNCHANGED <<net, coins>> /\ SamePool

\* enter_svr: a new player object, or the old one is connected again.
EnterSvr(p, held) ==
  /\ Idle
  /\ net' = [net EXCEPT ![p] = "on"]
  /\ coins' = IF net[p] = "none" THEN [coins EXCEPT ![p] = held] ELSE coins
  /\ UNCHANGED placeVars /\ SamePool

\* notify_net_state(0): a looker leaves through OnActionUserNetState, anybody else who
\* can leave does so afterwards, the room included.  The table is used again after the
\* looker left it, and the room without a look whether there is one.
NetLost(p) ==
  LET t    == table[p]
      gone == IF t # None /\ p \in lookers[t] THEN TryLeaveCurTable(Places, p) ELSE Places
      left == TryLeaveCurTable(gone, p)
      lost == t # None /\ gone.table[p] = None
      away == gone.table[p] # left.table[p]
  IN  /\ Here(p)
      /\ net' = [net EXCEPT ![p] = "off"]
      /\ crashed' = (lost \/ (away /\ room[p] = None))
      /\ Become(IF away /\ room[p] # None THEN LeaveRoom(left, p) ELSE left)
      /\ UNCHANGED <<coins, tableVars, poolVars, marrying, repair>>

\* notify_net_state(1)
NetBack(p) ==
  /\ Here(p)
  /\ net' = [net EXCEPT ![p] = "on"]
  /\ UNCHANGED <<coins, placeVars>> /\ SamePool

Logout(p) ==
  /\ Become(OnLoginOut(Places, p))
  /\ net' = [net EXCEPT ![p] = "none"] /\ coins' = [coins EXCEPT ![p] = 0]
  /\ SamePool

\* back_lobby
BackLobby(p) == Here(p) /\ CanLeaveRoom(Places, p) /\ Logout(p)

\* enter_room: out of the old room first, whether the new one lets the player in or not.
EnterRoomReq(p, r) ==
  LET left == IF room[p] \in {None, r} THEN Places ELSE LeaveRoom(Places, p)
  IN  /\ Here(p)
      /\ room[p] = r \/ CanLeaveRoom(Places, p)
      /\ Handled(IF room[p] = r \/ CanEnterRoom(left, r, p) THEN EnterRoom(left, r, p) ELSE left)

\* leave_table
LeaveTableReq(p) ==
  LET left == TryLeaveCurTable(Places, p)
  IN  /\ Here(p) /\ table[p] # None /\ CanLeaveRoom(Places, p)
      /\ Handled(IF room[p] = None THEN left ELSE LeaveRoom(left, p))

\* enter_table
EnterTableReq(p, id) ==
  /\ Here(p) /\ room[p] # None /\ id \in tables[room[p]]
  /\ Handled(RoomEnterTable(Places, room[p], p, id))

\* PlayerReady: the first seat of the player, whatever the state of the table.
PlayerReady(s, t, p, b) ==
  LET mine == SeatsOf(s, t, p)
  IN  IF mine = {} \/ coins[p] < EnterMin THEN s
      ELSE [s EXCEPT !.seat[t][First(mine)].ready = b]

\* table_ready: refused in matching rooms.
TableReady(p, b) ==
  /\ Here(p) /\ table[p] # None /\ HostRoom(table[p]) \notin MarryRoom
  /\ Handled(PlayerReady(Places, table[p], p, b))

\* fast_join_room: the rooms somebody is in come first.
FastJoinRoom(p) ==
  LET left  == IF room[p] = None THEN Places ELSE LeaveRoom(Places, p)
      open  == {r \in Room : CanEnterRoom(left, r, p)}
      busy  == {r \in open : left.num[r] > 0}
  IN  /\ Here(p) /\ (room[p] # None => CanLeaveRoom(Places, p))
      /\ \/ open = {} /\ Handled(left)
         \/ \E r \in IF busy # {} THEN busy ELSE open :
              Handled(FastJoinTable(EnterRoom(left, r, p), r, p))

\* fast_join_table
FastJoinTableReq(p) ==
  /\ Here(p) /\ room[p] # None
  /\ Handled(FastJoinTable(Places, room[p], p))

\* sitdown_standup, down: a looker of the table takes an empty chair.
SitDownReq(p, i) ==
  LET t    == table[p]
      down == [SitDown(Places, t, i, p, FALSE) EXCEPT !.lookers[t] = @ \ {p}]
  IN  /\ Here(p) /\ ~repair /\ t # None
      /\ p \in lookers[t] /\ seat[t][i].player = None /\ coins[p] >= SitDownMin
      /\ Handled(down)

\* sitdown_standup, up: the player looks on from now on.
StandUpReq(p) ==
  LET t    == table[p]
      mine == SeatsOf(Places, t, p)
  IN  /\ Here(p) /\ ~repair /\ t # None
      /\ mine # {} /\ CanLeaveTable(Places, t, p)
      /\ Handled([Places EXCEPT !.seat[t][First(mine)] = EmptySeat, !.lookers[t] = @ \cup {p}])

\* flush_change_account_data
FlushChangeAcc(p, held) ==
  /\ Here(p)
  /\ coins' = [coins EXCEPT ![p] = held]
  /\ UNCHANGED <<net, placeVars>> /\ SamePool

-----------------------------------------------------------------------------
(* The timer of the players: every second.                                 *)

\* OnTimeTick: who is not connected, or was silent for five minutes, leaves the table.
PlayerTick(p) ==
  /\ Here(p)
  /\ Handled(TryLeaveCurTable(Places, p))

\* NeedRecover, CheckRecoverPlayer: a minute without connection or message and no table.
Recover(p) ==
  /\ Here(p)
  /\ table[p] = None \/ (repair /\ CanLeaveRoom(Places, p))
  /\ Logout(p)

SetRepair(b) ==
  /\ Idle /\ repair # b
  /\ repair' = b
  /\ UNCHANGED <<net, coins, placeVars, tableVars, poolVars, marrying, crashed>>

-----------------------------------------------------------------------------
(* The timer of a room: every second, two seconds, five seconds.           *)

Created(r) == Cardinality(tables[r]) + Len(freeTable[r])
CanMalloc(r) == freeTable[r] # <<>> \/ Created(r) < MaxTables

Waiters(r) == {p \in Player : waiting[r][p] # None}

\* Bound: the loop of MarryTable starts only if it can make the table it may need.
WithinBound(r) ==
  CanMalloc(r) \/ \E p \in Player : Waiters(r) = {p} /\ Joinable(Places, r, p, waiting[r][p]) # {}

\* MUTANT: the table stays among the free ones.
MallocTableKept(r) ==
  LET id == IF freeTable[r] # <<>> THEN Head(freeTable[r]) ELSE Created(r) + 1
      t  == <<r, id>>
  IN  /\ CanMalloc(r)
      /\ tables' = [tables EXCEPT ![r] = @ \cup {id}]
      /\ gameState' = [gameState EXCEPT ![t] = "FREE"]
      /\ played' = [played EXCEPT ![t] = FALSE]
      /\ seat' = [seat EXCEPT ![t] = [i \in Seat |-> [@[i] EXCEPT !.ready = FALSE]]]
      /\ UNCHANGED freeTable

\* MallocTable: the longest free table, or a new one; either is reset.
MallocTable(r) ==
  LET id == IF freeTable[r] # <<>> THEN Head(freeTable[r]) ELSE Created(r) + 1
      t  == <<r, id>>
  IN  /\ CanMalloc(r)
      /\ tables' = [tables EXCEPT ![r] = @ \cup {id}]
      /\ freeTable' = [freeTable EXCEPT ![r] = IF @ # <<>> THEN Tail(@) ELSE @]
      /\ gameState' = [gameState EXCEPT ![t] = "FREE"]
      /\ played' = [played EXCEPT ![t] = FALSE]
      /\ seat' = [seat EXCEPT ![t] = [i \in Seat |-> [@[i] EXCEPT !.ready = FALSE]]]

\* MarryTable begins, with somebody to match.  No other handler runs until it returns.
MarryTable(r) ==
  /\ Idle /\ r \in MarryRoom
  /\ Waiters(r) # {} /\ WithinBound(r)
  /\ marrying' = [room |-> r, made |-> None, player |-> None]
  /\ UNCHANGED <<net, coins, placeVars, tableVars, poolVars, repair, crashed>>

Looping == ~crashed /\ marrying # None

\* The loop takes the first waiting player - the order of pointers, so any - and looks for
\* a table of the room with an empty seat.
MarryJoin ==
  LET r == marrying.room
  IN  /\ Looping /\ marrying.player = None
      /\ \E p \in Waiters(r) :
           /\ \/ /\ Joinable(Places, r, p, waiting[r][p]) # {}
                 /\ Become(LeaveMarry(JoinNoFullTable(Places, r, p, waiting[r][p]), r, p))
                 /\ UNCHANGED marrying
              \/ /\ Joinable(Places, r, p, waiting[r][p]) = {}
                 /\ marrying' = [marrying EXCEPT !.player = p]
                 /\ UNCHANGED placeVars
      /\ UNCHANGED <<net, coins, tableVars, poolVars, repair, crashed>>

\* The loop makes a new table only if it has made none: the codes a full table refuses
\* with count as true.
NeedsNewTable(s, t, p) == t = None \/ AtOtherTable(s, t, p)

MarryMalloc ==
  LET r == marrying.room
  IN  /\ Looping /\ marrying.player # None
      /\ NeedsNewTable(Places, marrying.made, marrying.player)
      /\ MallocTable(r)
      /\ marrying' = [marrying EXCEPT !.made =
           <<r, IF freeTable[r] # <<>> THEN Head(freeTable[r]) ELSE Created(r) + 1>>]
      /\ UNCHANGED <<net, coins, room, table, waiting, playerNum, lookers, clearing, repair, crashed>>

\* The player sits down at the new table, or is put out of the room.
MarryEnter ==
  LET r == marrying.room
      t == marrying.made
      p == marrying.player
  IN  /\ Looping /\ p # None /\ ~NeedsNewTable(Places, t, p)
      /\ Become(IF CanEnterTable(Places, t, p)
                THEN LeaveMarry(EnterTable(Places, t, p), r, p)
                ELSE IF room[p] = r THEN LeaveRoom(Places, p) ELSE Places)
      /\ marrying' = [marrying EXCEPT !.player = None]
      /\ UNCHANGED <<net, coins, tableVars, poolVars, repair, crashed>>

MarryDone ==
  /\ Looping /\ marrying.player = None
  /\ Waiters(marrying.room) = {}
  /\ marrying' = None
  /\ UNCHANGED <<net, coins, placeVars, tableVars, poolVars, repair, crashed>>

IsEmptyTable(t) == Seated(Places, t) = {} /\ lookers[t] = {}

\* CheckRecover: the empty tables of a matching room go to the free tables.
CheckRecover(r) ==
  LET old == {i \in tables[r] : IsEmptyTable(<<r, i>>)}
  IN  /\ Idle /\ r \in MarryRoom /\ old # {}
      /\ tables' = [tables EXCEPT ![r] = @ \ old]
      /\ \E order \in {q \in [1..Cardinality(old) -> old] : \A i \in old : \E n \in DOMAIN q : q[n] = i} :
           freeTable' = [freeTable EXCEPT ![r] = @ \o order]
      /\ UNCHANGED <<net, coins, placeVars, tableVars, sysVars>>

\* CheckNewTable: an ordinary room always has a table with an empty seat.
CheckNewTable(r) ==
  /\ Idle /\ r \notin MarryRoom
  /\ freeTable[r] = <<>> /\ \A i \in tables[r] : EmptySeats(Places, <<r, i>>) = {}
  /\ MallocTable(r)
  /\ UNCHANGED <<net, coins, room, table, waiting, playerNum, lookers, clearing, sysVars>>

-----------------------------------------------------------------------------
(* The timers of a table, and the round as far as the seats see it.        *)

\* MUTANT: an empty chair does not keep the others from playing.
IsAllReadySeated(t) == \A i \in Seat : seat[t][i].player # None => seat[t][i].ready

IsAllReady(t) == \A i \in Seat : seat[t][i].player # None /\ seat[t][i].ready

\* OnTimeTick of a free table: everybody is ready, the seats play from now on.
StartRound(t) ==
  /\ Idle /\ TableID(t) \in 1..Created(HostRoom(t)) /\ gameState[t] = "FREE"
  /\ IsAllReady(t)
  /\ gameState' = [gameState EXCEPT ![t] = "PLAY"]
  /\ seat' = [seat EXCEPT ![t] = [i \in Seat |-> [@[i] EXCEPT !.play = TRUE]]]
  /\ UNCHANGED <<net, coins, room, table, waiting, playerNum, lookers, played, clearing,
                 poolVars, sysVars>>

\* OnGameEnd: coins change hands - the winner loses none - and nobody is ready any more.
EndRound(t) ==
  /\ Idle /\ gameState[t] = "PLAY"
  /\ gameState' = [gameState EXCEPT ![t] = "GAME_END"]
  /\ played' = [played EXCEPT ![t] = TRUE]
  /\ seat' = [seat EXCEPT ![t] = [i \in Seat |-> [@[i] EXCEPT !.ready = FALSE]]]
  /\ \E winner \in Seated(Places, t), c \in [Player -> 0..MaxPurse] :
       /\ \A p \in Player \ Seated(Places, t) : c[p] = coins[p]
       /\ winner \in Player => c[winner] >= coins[winner]
       /\ coins' = c
  /\ UNCHANGED <<net, room, table, waiting, playerNum, lookers, clearing, poolVars, sysVars>>

\* OnGameRoundFlush: who cannot pay the entrance leaves; a matching room is done with the
\* table and clears it in five seconds.
RoundFlush(t) ==
  LET poor  == {p \in Seated(Places, t) \ {Gone} : coins[p] < EnterMin}
      match == HostRoom(t) \in MarryRoom
  IN  /\ Idle /\ gameState[t] = "GAME_END"
      /\ gameState' = [gameState EXCEPT ![t] = IF match THEN "RECYCLE" ELSE "FREE"]
      /\ clearing' = [clearing EXCEPT ![t] = @ \/ match]
      /\ Become(LeaveTable(Places, t, poor))
      /\ UNCHANGED <<net, coins, played, poolVars, sysVars>>

\* OnTimerClearPlayer
ClearPlayers(t) ==
  /\ Idle /\ clearing[t]
  /\ clearing' = [clearing EXCEPT ![t] = FALSE]
  /\ Become(LeaveTable(Places, t, Player))
  /\ UNCHANGED <<net, coins, gameState, played, poolVars, sysVars>>

-----------------------------------------------------------------------------
\* Messages of a client that leaves chairs to the server.
SeatedMsg(p) ==
  \/ \E held \in 0..MaxPurse : EnterSvr(p, held) \/ FlushChangeAcc(p, held)
  \/ NetLost(p) \/ NetBack(p) \/ BackLobby(p)
  \/ \E r \in Room : EnterRoomReq(p, r)
  \/ LeaveTableReq(p)
  \/ \E id \in 1..MaxTables : EnterTableReq(p, id)
  \/ \E b \in BOOLEAN : TableReady(p, b)
  \/ FastJoinRoom(p) \/ FastJoinTableReq(p)

ChairMsg(p) == (\E i \in Seat : SitDownReq(p, i)) \/ StandUpReq(p)
PlayerMsg(p) == SeatedMsg(p) \/ ChairMsg(p)

PlayerTimer(p) == PlayerTick(p) \/ Recover(p)
MarryLoop == MarryJoin \/ MarryMalloc \/ MarryEnter \/ MarryDone
RoomTimer(r) == MarryTable(r) \/ CheckRecover(r) \/ CheckNewTable(r)
TableTimer(t) == StartRound(t) \/ EndRound(t) \/ RoundFlush(t) \/ ClearPlayers(t)

Timers ==
  \/ \E p \in Player : PlayerTimer(p)
  \/ \E b \in BOOLEAN : SetRepair(b)
  \/ \E r \in Room : RoomTimer(r)
  \/ \E t \in Table : TableTimer(t)
  \/ MarryLoop

Next == Timers \/ \E p \in Player : PlayerMsg(p)

Spec == Init /\ [][Next]_vars

\* A handler that has begun goes on.
FairSpec == Spec /\ WF_vars(MarryLoop)

\* Clients that never stand up, so that nobody looks on.
SeatedNext == Timers \/ \E p \in Player : SeatedMsg(p)
SeatedSpec == Init /\ [][SeatedNext]_vars
FairSeatedSpec == SeatedSpec /\ WF_vars(MarryLoop)

-----------------------------------------------------------------------------
(* Properties.                                                             *)

TypeOK ==
  /\ net \in [Player -> {"none", "on", "off"}] /\ coins \in [Player -> 0..MaxPurse]
  /\ room \in [Player -> Room \cup {None}] /\ table \in [Player -> Table \cup {None}]
  /\ tables \in [Room -> SUBSET (1..MaxTables)]
  /\ freeTable \in [Room -> Seq(1..MaxTables)]
  /\ waiting \in [Room -> [Player -> (0..MaxTables) \cup {None}]]
  /\ playerNum \in [Room -> Nat]
  /\ marrying \in {None} \cup [room : Room, made : Table \cup {None}, player : Player \cup {None}]
  /\ seat \in [Table -> [Seat -> [player : Player \cup {None, Gone}, ready : BOOLEAN, play : BOOLEAN]]]
  /\ lookers \in [Table -> SUBSET Player]
  /\ gameState \in [Table -> {"FREE", "PLAY", "GAME_END", "RECYCLE"}]
  /\ played \in [Table -> BOOLEAN] /\ clearing \in [Table -> BOOLEAN]
  /\ repair \in BOOLEAN /\ crashed \in BOOLEAN

\* A room counts the players who are in it: the count goes to every client and decides
\* which room a quick start joins.
RoomCounts == \A r \in Room : playerNum[r] = Cardinality({p \in Player : room[p] = r})

\* Who waits to be matched is in that room and at no table; otherwise the loop of MarryTable
\* could neither seat the player nor put him out, and would not end.
WaitingSound ==
  \A r \in Room, p \in Player :
    waiting[r][p] # None => r \in MarryRoom /\ room[p] = r /\ table[p] = None

\* A table is in use or free, never both; a free one holds nobody, so the next players find
\* it empty, and nobody still plays or looks on at a table the room has given up.
TablesAccounted ==
  \A r \in Room :
    /\ \A m, n \in DOMAIN freeTable[r] : m # n => freeTable[r][m] # freeTable[r][n]
    /\ \A n \in DOMAIN freeTable[r] :
         /\ freeTable[r][n] \notin tables[r]
         /\ IsEmptyTable(<<r, freeTable[r][n]>>)
    /\ \A p \in Player : table[p] # None => TableID(table[p]) \in tables[HostRoom(table[p])]

\* A player's table knows the player, on a chair or among the lookers.
TableKnows ==
  \A p \in Player : table[p] # None =>
    p \in Seated(Places, table[p]) \/ p \in lookers[table[p]]

\* The places a player is kept in agree, whatever clients do.
PlacesAgree == TypeOK /\ RoomCounts /\ WaitingSound /\ TablesAccounted /\ TableKnows

\* A round starts with as many players as there are chairs, each of them on one.
OneChairEach ==
  [][\A t \in Table : gameState[t] = "FREE" /\ gameState'[t] = "PLAY" =>
       Cardinality(Seated(Places, t)' \cap Player) = SeatNum]_vars

\* Nobody gets out of a round, in a room where no clearing is pending from a round before.
RoundKeepsPlayers ==
  [][\A t \in Table : gameState[t] = "PLAY" /\ ~clearing[t] =>
       Seated(Places, t)' = Seated(Places, t)]_vars

\* MarryTable returns.
MarryTableReturns == marrying # None ~> marrying = None

\* The comment of CanLeaveTable says a table can be left when it is free.
FreeTableLetsGo ==
  \A p \in Player : table[p] # None /\ gameState[table[p]] = "FREE" =>
    CanLeaveTable(Places, table[p], p)
=============================================================================
