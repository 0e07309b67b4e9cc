------------------------------- MODULE Missions -------------------------------
(***************************************************************************)
(* The missions of one player at a lobby: they are loaded when he logs in, *)
(* move with the results of his games, pay prizes, and start again by day, *)
(* week and month, whether he is online at that moment or comes later.     *)
(* All that is written goes through one queue of statements that a thread  *)
(* of its own brings to the database; a crash loses what is in it.         *)
(*                                                                         *)
(* Time is cut where the code looks: slot 2d is day d until six in the     *)
(* morning, slot 2d + 1 the rest of it.  No slot is 0, which is the time   *)
(* of what never happened.                                                 *)
(***************************************************************************)
EXTENDS Integers, Sequences

CONSTANTS
  Mission,     (* ids of the missions that are configured and open          *)
  Retired,     (* ids of missions that are closed                           *)
  Cfg,         (* stMissionCfg of the open ones                             *)
  DaysPerWeek, DaysPerMonth, DaysPerYear,
  Begin,       (* bound: the slot the observation begins with               *)
  Until,       (* bound: the slot it ends with                              *)
  MaxQueue,    (* bound: statements under way to the database               *)
  MaxCrashes   (* bound: crashes of the lobby                               *)

ASSUME MissionsAssumption ==
  /\ Mission \cup Retired \subseteq Nat /\ Mission \cap Retired = {}
  /\ Cfg \in [Mission -> [type : {"play", "win"}, straight : BOOLEAN, autoprize : BOOLEAN,
                          cycle : {"day", "week", "month", "never"},
                          mtimes : Nat \ {0}, cycletimes : Nat \ {0}]]
  /\ {DaysPerWeek, DaysPerMonth, DaysPerYear, Begin, Until} \subseteq Nat \ {0}

VARIABLES
  now,         (* time::getSysTime, in slots                                *)
  processTime, (* uProcessTime of CPlayerMgr: the last tick, 0 after a start *)
  state,       (* "out", "load" or "playing"                                *)
  login,       (* m_baseInfo: offline_time, clogin, weeklogin               *)
  mission,     (* m_mission: msid -> stUserMission                          *)
  queue,       (* the statements under way to the database                  *)
  db,          (* the rows of user and umission, and the prizes it has paid *)
  crashes,     (* history: how often the lobby crashed                      *)
  lost,        (* history: missions with a change a crash lost or a login missed, since their reset *)
  torn         (* history: missions of which a crash or a login missed the row of a prize *)

vars == <<now, processTime, state, login, mission, queue, db, crashes, lost, torn>>

--------------------------------------------------------------------------------
(* The calendar.                                                           *)

Day(t)  == t \div 2
Late(t) == t % 2 = 1                        \* after six
Week(t)  == Day(t) \div DaysPerWeek
Month(t) == Day(t) \div DaysPerMonth
Year(t)  == Day(t) \div DaysPerYear

\* diffTimeDay, diffTimeWeek and diffTimeMonth of the library; of the time 0 they are taken to
\* say what their caller expects of somebody who was never here.
DiffTime(early, from, to) == IF early = 0 THEN 0 ELSE to - from

\* Another year counts as 365 days.
DiffDay(early, late) ==
  IF Year(early) # Year(late) THEN 365 ELSE Day(late) - Day(early)

\* MUTANT: the next day is another day from midnight on.
IsNeedResetNextDay(lastTime, curTime) ==
  DiffDay(lastTime, curTime) >= 1 \/ (Late(curTime) /\ ~Late(lastTime))

\* Whether it was six in the morning between the two.
IsNeedReset(lastTime, curTime) ==
  CASE DiffDay(lastTime, curTime) >= 2 -> TRUE
    [] DiffDay(lastTime, curTime) = 1 -> Late(curTime) \/ ~Late(lastTime)
    [] OTHER -> Late(curTime) /\ ~Late(lastTime)

--------------------------------------------------------------------------------
(* Missions.  "given" is a history: the prizes a row stands for.           *)

NewMission == [rtimes |-> 0, ctimes |-> 0, ptime |-> 0, update |-> "insert", given |-> 0]
Marked(m) == [m EXCEPT !.update = IF @ = "none" THEN "update" ELSE @]

IsFinished(id, m) == m.rtimes >= Cfg[id].mtimes /\ m.ctimes < Cfg[id].cycletimes

\* What a row is, and whether its prize is paid, after ActMission: a mission that waits for its
\* prize or was rewarded often enough does not move, nor does one that counts something else.
Moves(id, m, type, value) ==
  /\ id \in Mission /\ Cfg[id].type = type
  /\ m.rtimes < Cfg[id].mtimes /\ m.ctimes < Cfg[id].cycletimes
  /\ value = 0 => Cfg[id].straight

Counted(m, value) ==
  Marked([m EXCEPT !.rtimes = IF value = 0 THEN 0 ELSE @ + value, !.ptime = now])

RewardMission(m) == Marked([m EXCEPT !.rtimes = 0, !.ctimes = @ + 1, !.given = @ + 1])

Acted(id, m, type, value) ==
  IF ~Moves(id, m, type, value) THEN m
  ELSE IF Cfg[id].autoprize /\ IsFinished(id, Counted(m, value)) THEN RewardMission(Counted(m, value))
  ELSE Counted(m, value)

ActMission(ms, type, value) == [id \in DOMAIN ms |-> Acted(id, ms[id], type, value)]

\* ResetMission leaves what never moved alone.
ResetMission(ms, cycle) ==
  [id \in DOMAIN ms |->
     IF id \in Mission /\ ms[id].ptime > 0 /\ Cfg[id].cycle = cycle
     THEN [ms[id] EXCEPT !.rtimes = 0, !.ctimes = 0, !.ptime = now, !.update = "update"]
     ELSE ms[id]]

--------------------------------------------------------------------------------
(* What is written.  Statements that differ in the mission only are one    *)
(* entry of the queue; the database takes them one by one, in any order.   *)

Some(ids, s) == IF ids = {} THEN <<>> ELSE <<s>>
LoginInfo(l) == [kind |-> "login", info |-> l]
LoadData == [kind |-> "load"]

\* RewardMission pays while ActMission goes through the missions.
Prizes(ms, acted) ==
  LET ids == {id \in DOMAIN ms : acted[id].given > ms[id].given}
  IN  Some(ids, [kind |-> "prize", ids |-> ids])

\* MUTANT: only what is there already is saved.
SaveMissUpdates(ms) ==
  LET ids == {id \in DOMAIN ms : ms[id].update = "update"}
  IN  Some(ids, [kind |-> "rows", rows |-> [id \in ids |-> ms[id]]])

\* SaveMiss: a statement for each row that changed, which then counts as saved.
SaveMiss(ms) ==
  LET ids == {id \in DOMAIN ms : ms[id].update # "none"}
  IN  Some(ids, [kind |-> "rows", rows |-> [id \in ids |-> ms[id]]])

AsSaved(m) == [m EXCEPT !.update = "none"]
Saved(ms) == [id \in {i \in DOMAIN ms : ms[i].update # "delete"} |-> AsSaved(ms[id])]

Send(statements) ==
  /\ Len(queue) + Len(statements) <= MaxQueue
  /\ queue' = queue \o statements

\* GetMission: what is new is added, what is closed is taken out.
GetMission(ms) ==
  [id \in DOMAIN ms \cup Mission |->
     IF id \notin DOMAIN ms THEN NewMission
     ELSE IF id \in Mission THEN ms[id]
     ELSE [ms[id] EXCEPT !.update = "delete"]]

--------------------------------------------------------------------------------
(* The cleanups.  Each maps a player, [login, mission], to what he is then. *)

DailyCleanup(p, offlineDays) ==
  [login |-> [p.login EXCEPT !.clogin = IF offlineDays > 1 THEN 1 ELSE @ + 1,
                             !.weeklogin = @ + 1],
   mission |-> ResetMission(p.mission, "day")]

WeeklyCleanup(p) ==
  [login |-> [p.login EXCEPT !.weeklogin = 1], mission |-> ResetMission(p.mission, "week")]

MonthlyCleanup(p) == [p EXCEPT !.mission = ResetMission(@, "month")]

If(cond, p, q) == IF cond THEN p ELSE q

\* BuildInit, on what was loaded.
BuildInit(p) ==
  LET offline == p.login.offline_time
      days    == DiffTime(offline, Day(offline), Day(now))
      reset   == offline # 0 /\ IsNeedReset(offline, now)
      daily   == If(offline = 0, MonthlyCleanup(WeeklyCleanup(DailyCleanup(p, 2))),
                    If(reset, DailyCleanup(p, days), p))
      weekly  == If(DiffTime(offline, Week(offline), Week(now)) > 0, WeeklyCleanup(daily), daily)
      monthly == If(DiffTime(offline, Month(offline), Month(now)) > 0, MonthlyCleanup(weekly), weekly)
  IN  [monthly EXCEPT !.login.offline_time = now,
                      !.login.clogin = IF @ < 1 THEN 1 ELSE @]

\* What histories keep: a reset makes up for what a crash lost; a login that is answered by
\* the question of an older one misses what has been written since.
StillLost(ms) == {id \in lost : id \in DOMAIN ms /\ ms[id].ptime # now}

Concerns(s, id) ==
  \/ s.kind = "prize" /\ id \in s.ids
  \/ s.kind = "rows" /\ id \in DOMAIN s.rows
Missed == {id \in Mission : \E i \in DOMAIN queue : Concerns(queue[i], id)}

--------------------------------------------------------------------------------
(* The handlers.                                                           *)

Init ==
  /\ now = Begin /\ processTime = 0 /\ state = "out"
  /\ login = [offline_time |-> 0, clogin |-> 0, weeklogin |-> 0]
  /\ mission = <<>> /\ queue = <<>>
  /\ db = [login |-> login,
           row   |-> [id \in Retired |-> AsSaved(NewMission)],
           paid  |-> [id \in Mission |-> 0]]
  /\ crashes = 0 /\ lost = {} /\ torn = {}

\* OnLogin: the data are asked for.
OnLogin ==
  /\ state = "out" /\ state' = "load"
  /\ Send(<<LoadData>>)
  /\ UNCHANGED <<now, processTime, login, mission, db, crashes, lost, torn>>

\* MUTANT: the missions are not saved when a player goes.
OnLoginOutUnsaved ==
  /\ state # "out" /\ state' = "out"
  /\ Send(IF state = "playing" THEN <<LoginInfo(login)>> ELSE <<>>)
  /\ mission' = <<>>
  /\ UNCHANGED <<now, processTime, login, db, crashes, lost, torn>>

\* OnLoginOut, of a player who is recovered, whether he has his data or not.
OnLoginOut ==
  /\ state # "out" /\ state' = "out"
  /\ Send(IF state = "playing" THEN SaveMiss(mission) \o <<LoginInfo(login)>> ELSE <<>>)
  /\ mission' = <<>>
  /\ UNCHANGED <<now, processTime, login, db, crashes, lost, torn>>

\* MUTANT: the rows are saved before the prizes are paid.
ReportGameResultRowsFirst(win) ==
  LET played == ActMission(mission, "play", 1)
      acted  == ActMission(played, "win", win)
  IN  /\ state = "playing"
      /\ Send(SaveMiss(acted) \o Prizes(mission, played) \o Prizes(played, acted))
      /\ mission' = Saved(acted)
      /\ UNCHANGED <<now, processTime, state, login, db, crashes, lost, torn>>

\* handle_msg_report_game_result, of one who is there with his data.
ReportGameResult(win) ==
  LET played == ActMission(mission, "play", 1)
      acted  == ActMission(played, "win", win)
  IN  /\ state = "playing"
      /\ Send(Prizes(mission, played) \o Prizes(played, acted) \o SaveMiss(acted))
      /\ mission' = Saved(acted)
      /\ UNCHANGED <<now, processTime, state, login, db, crashes, lost, torn>>

\* CPlayerMgr::OnTimeTick and CPlayer::OnTimeTick.  At six the login is saved with the time it
\* had before; at midnight with the new one.
OnTimeTick ==
  LET newDay  == processTime # 0 /\ Day(processTime) # Day(now)
      reset   == IsNeedReset(login.offline_time, now)
      p       == [login |-> login, mission |-> mission]
      daily   == If(reset, DailyCleanup(p, 1), p)
      online  == [daily EXCEPT !.login.offline_time = now]
      weekly  == If(newDay /\ Day(now) % DaysPerWeek = 0, WeeklyCleanup(online), online)
      monthly == If(newDay /\ Day(now) % DaysPerMonth = 0, MonthlyCleanup(weekly), weekly)
  IN  /\ processTime' = now
      /\ IF state = "playing"
         THEN /\ login' = monthly.login /\ mission' = monthly.mission
              /\ lost' = StillLost(mission')
              /\ Send(If(reset, <<LoginInfo(daily.login)>>, <<>>)
                      \o If(newDay, <<LoginInfo(monthly.login)>>, <<>>))
         ELSE UNCHANGED <<login, mission, queue, lost>>
      /\ UNCHANGED <<now, state, db, crashes, torn>>

--------------------------------------------------------------------------------
(* The database.                                                           *)

Statement(kind) == queue # <<>> /\ Head(queue).kind = kind

\* An update of a row that is not there changes nothing.
Written(row, id, m) ==
  CASE m.update = "delete" -> [i \in DOMAIN row \ {id} |-> row[i]]
    [] m.update = "insert" -> [i \in DOMAIN row \cup {id} |-> IF i = id THEN AsSaved(m) ELSE row[i]]
    [] OTHER -> IF id \in DOMAIN row THEN [row EXCEPT ![id] = AsSaved(m)] ELSE row

WritePrize ==
  /\ Statement("prize")
  /\ \E id \in Head(queue).ids :
       /\ db' = [db EXCEPT !.paid[id] = @ + 1]
       /\ LET left == Head(queue).ids \ {id}
          IN  queue' = Some(left, [kind |-> "prize", ids |-> left]) \o Tail(queue)

WriteRow ==
  /\ Statement("rows")
  /\ \E id \in DOMAIN Head(queue).rows :
       /\ db' = [db EXCEPT !.row = Written(@, id, Head(queue).rows[id])]
       /\ LET left == DOMAIN Head(queue).rows \ {id}
          IN  queue' = Some(left, [kind |-> "rows", rows |-> [i \in left |-> Head(queue).rows[i]]])
                       \o Tail(queue)

WriteLogin ==
  /\ Statement("login")
  /\ db' = [db EXCEPT !.login = Head(queue).info] /\ queue' = Tail(queue)

DbWrite ==
  /\ WritePrize \/ WriteRow \/ WriteLogin
  /\ UNCHANGED <<now, processTime, state, login, mission, crashes, lost, torn>>

\* The answers to both questions of OnLogin; they come one after the other, and the second one
\* runs SetMission and OnGetAllData.  A player who is no longer waiting ignores them.
DbLoad ==
  LET got   == GetMission(db.row)
      built == BuildInit([login |-> db.login, mission |-> Saved(got)])
  IN  /\ Statement("load")
      /\ IF state = "load"
         THEN /\ state' = "playing"
              /\ login' = built.login /\ mission' = built.mission
              /\ lost' = StillLost(mission') \cup Missed /\ torn' = torn \cup Missed
              /\ queue' = Tail(queue) \o SaveMiss(got) \o <<LoginInfo(built.login)>>
         ELSE UNCHANGED <<state, login, mission, lost, torn>> /\ queue' = Tail(queue)
      /\ UNCHANGED <<now, processTime, db, crashes>>

\* The process dies with its players and with the statements that are still under way.
Crash ==
  /\ crashes < MaxCrashes /\ crashes' = crashes + 1
  /\ state' = "out" /\ processTime' = 0 /\ queue' = <<>> /\ mission' = <<>>
  /\ lost' = lost \cup {id \in Mission : \/ id \in DOMAIN mission /\ mission[id].update # "none"
                                         \/ \E i \in DOMAIN queue :
                                              queue[i].kind = "rows" /\ id \in DOMAIN queue[i].rows}
  /\ torn' = torn \cup {id \in DOMAIN db.row \cap Mission : db.paid[id] # db.row[id].given}
  /\ UNCHANGED <<now, login, db>>

\* The lobby ticks every second: no slot passes without a tick.  Nor is the database hours behind.
Later ==
  /\ now < Until /\ now' = now + 1
  /\ processTime = now /\ Len(queue) <= 1
  /\ UNCHANGED <<processTime, state, login, mission, queue, db, crashes, lost, torn>>

Next ==
  \/ OnLogin \/ OnLoginOut \/ OnTimeTick \/ DbWrite \/ DbLoad \/ Crash \/ Later
  \/ \E win \in {0, 1} : ReportGameResult(win)

Spec == Init /\ [][Next]_vars

--------------------------------------------------------------------------------
(* Properties.                                                             *)

\* The day of a player begins at six.
GameDay(t) == (t + 1) \div 2

SameCycle(cycle, t, u) ==
  CASE cycle = "day" -> GameDay(t) = GameDay(u)
    [] cycle = "week" -> Week(t) = Week(u)
    [] cycle = "month" -> Month(t) = Month(u)
    [] OTHER -> TRUE

\* The missions a player has are of this day, week and month, however he came to have them -
\* online at the turn, by a login long after it, after crashes - unless a crash lost a change
\* or a login missed one.
MissionsFresh ==
  state = "playing" /\ login.offline_time = now =>
    \A id \in Mission \ lost :
      mission[id].ptime = 0 \/ SameCycle(Cfg[id].cycle, mission[id].ptime, now)

\* A mission that is rewarded by its row was paid: no crash loses a prize for good.
PrizePaid ==
  \A id \in DOMAIN db.row \cap Mission : db.row[id].given <= db.paid[id]

\* And it was paid once, unless a crash came between the prize and the row, or a login was
\* answered with the rows as they were before the prize.
PrizeOnce ==
  state = "playing" /\ queue = <<>> =>
    \A id \in Mission \ torn : mission[id].given = db.paid[id]

\* What a player had before a step in which he has his missions, and when he was last seen.
Known == IF state = "playing" THEN mission ELSE db.row
LastSeen == IF state = "playing" THEN login.offline_time ELSE db.login.offline_time

\* A daily mission of today that was rewarded is offered once more.
OfferedAgain(id) ==
  /\ state' = "playing" /\ id \in DOMAIN Known /\ Cfg[id].cycle = "day"
  /\ Known[id].ctimes > mission'[id].ctimes
  /\ Known[id].ptime <= LastSeen /\ SameCycle("day", Known[id].ptime, now)

\* What a player has done today for a daily mission is not taken from him, nor the mission
\* offered again, before the next morning, by whatever ticks and logins see the day change;
\* a new year does so.  (What was done after he was last noted as seen can be undone.)
NoEarlyReset ==
  [][\A id \in Mission : OfferedAgain(id) => Year(Known[id].ptime) # Year(now)]_vars
================================================================================
