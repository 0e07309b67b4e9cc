---------------------------- MODULE Session_proofs ----------------------------
(***************************************************************************)
(* What the sessions of an account keep, for any number of lobbies, game   *)
(* servers and connections, whichever links break, those to the center     *)
(* included.                                                               *)
(***************************************************************************)
EXTENDS Session, TLAPS

Players == [state : {"none", "load", "playing"}, session : Conn \cup {Nobody},
            svr : Game \cup {Nobody}, loaded : SUBSET Parts, need : BOOLEAN,
            waited : {"no", "fresh", "old"}]

\* What SessionAssumption says, in the form the proofs use.
LEMMA Parameters == /\ Nobody \notin Lobby /\ Nobody \notin Game /\ Nobody \notin Conn
                    /\ MaxLoads \in Nat /\ MaxMsgs \in Nat
BY SessionAssumption

Entering(l, g) ==
  \E i \in DOMAIN toGame[<<l, g>>] : toGame[<<l, g>>][i] = "enter"

--------------------------------------------------------------------------------
(* Sequences of messages *)

\* Sending an enter, or anything, keeps the enters that are under way.
LEMMA AppendEnter ==
  ASSUME NEW s \in Seq({"enter", "back"}), NEW m \in {"enter", "back"},
         (\E i \in DOMAIN s : s[i] = "enter") \/ m = "enter"
  PROVE  \E i \in DOMAIN Append(s, m) : Append(s, m)[i] = "enter"
<1>1. CASE m = "enter"
  <2>1. Len(s) + 1 \in DOMAIN Append(s, m) /\ Append(s, m)[Len(s) + 1] = "enter" BY <1>1
  <2>2. QED BY <2>1
<1>2. CASE \E i \in DOMAIN s : s[i] = "enter"
  <2>1. PICK i \in DOMAIN s : s[i] = "enter" BY <1>2
  <2>2. i \in DOMAIN Append(s, m) /\ Append(s, m)[i] = "enter" BY <2>1
  <2>3. QED BY <2>2
<1>3. QED BY <1>1, <1>2

\* Handling a message of another kind keeps them, too.
LEMMA TailEnter ==
  ASSUME NEW s \in Seq({"enter", "back"}), s # <<>>, Head(s) # "enter",
         \E i \in DOMAIN s : s[i] = "enter"
  PROVE  \E i \in DOMAIN Tail(s) : Tail(s)[i] = "enter"
<1>1. PICK i \in DOMAIN s : s[i] = "enter" OBVIOUS
<1>2. i # 1 BY <1>1
<1>3. i - 1 \in DOMAIN Tail(s) /\ Tail(s)[i - 1] = "enter" BY <1>1, <1>2
<1>4. QED BY <1>3

--------------------------------------------------------------------------------
(* What entering a game server does to the lobby's player *)

EnterDone(l, p) ==
  /\ \E v \in Game \cup {Nobody} :
       /\ player' = [player EXCEPT ![l] = [p EXCEPT !.svr = v]]
       /\ v # Nobody => v \in servers[l] /\ Entering(l, v)'
  /\ gsid' \in {gsid, Nobody}
  /\ toGame' \in [Lobby \X Game -> Seq({"enter", "back"})]
  /\ \A o \in Lobby, g \in Game : Entering(o, g) => Entering(o, g)'

\* A message that is sent is added to its channel, and no other channel changes.
LEMMA SendDone ==
  ASSUME TypeOK, NEW l \in Lobby, NEW g \in Game, NEW m \in {"enter", "back"}, Send(l, g, m)
  PROVE  /\ toGame' \in [Lobby \X Game -> Seq({"enter", "back"})]
         /\ m = "enter" => Entering(l, g)'
         /\ \A o \in Lobby, h \in Game : Entering(o, h) => Entering(o, h)'
<1>1. toGame[<<l, g>>] \in Seq({"enter", "back"}) BY DEF TypeOK
<1>2. toGame' = [toGame EXCEPT ![<<l, g>>] = Append(@, m)] BY DEF Send
<1>3. toGame' \in [Lobby \X Game -> Seq({"enter", "back"})] BY <1>1, <1>2 DEF TypeOK
<1>4. toGame'[<<l, g>>] = Append(toGame[<<l, g>>], m) BY <1>2 DEF TypeOK
<1>5. m = "enter" => Entering(l, g)' BY <1>1, <1>4, AppendEnter DEF Entering
<1>6. ASSUME NEW o \in Lobby, NEW h \in Game, Entering(o, h) PROVE Entering(o, h)'
  <2>1. CASE o = l /\ h = g
    <3>1. \E i \in DOMAIN toGame[<<l, g>>] : toGame[<<l, g>>][i] = "enter"
      BY <1>6, <2>1 DEF Entering
    <3>2. \E i \in DOMAIN Append(toGame[<<l, g>>], m) :
            Append(toGame[<<l, g>>], m)[i] = "enter"
      BY <1>1, <3>1, AppendEnter
    <3>3. QED BY <1>4, <2>1, <3>2 DEF Entering
  <2>2. CASE ~(o = l /\ h = g)
    <3>1. toGame'[<<o, h>>] = toGame[<<o, h>>] BY <1>2, <2>2 DEF TypeOK
    <3>2. QED BY <1>6, <3>1 DEF Entering
  <2>3. QED BY <2>1, <2>2
<1>7. QED BY <1>3, <1>5, <1>6

\* EnterGameSvr leaves the player on no server or on a registered one it is entering.
LEMMA EnterGameSvrDone ==
  ASSUME TypeOK, NEW l \in Lobby, NEW k, NEW p \in Players, EnterGameSvr(l, k, p)
  PROVE  EnterDone(l, p)
<1>1. servers[l] \subseteq Game /\ Nobody \notin Game BY Parameters DEF TypeOK
<1>2. CASE p.svr \in servers[l]
  <2>1. Send(l, p.svr, "enter") /\ player' = [player EXCEPT ![l] = p] /\ gsid' = gsid
    BY <1>2 DEF EnterGameSvr
  <2>2. p.svr \in Game /\ [p EXCEPT !.svr = p.svr] = p BY <1>1, <1>2 DEF Players
  <2>3. QED BY <1>2, <2>1, <2>2, SendDone DEF EnterDone
<1>3. CASE p.svr \notin servers[l]
  <2>1. gsid' \in {gsid, Nobody} BY <1>3 DEF EnterGameSvr
  <2>2. CASE player' = [player EXCEPT ![l] = [p EXCEPT !.svr = Nobody]] /\ toGame' = toGame
    BY <2>1, <2>2 DEF EnterDone, Entering, TypeOK
  <2>3. CASE \E g \in Selectable(l, k) :
               Send(l, g, "enter") /\ player' = [player EXCEPT ![l] = [p EXCEPT !.svr = g]]
    <3>1. PICK g \in Selectable(l, k) :
               Send(l, g, "enter") /\ player' = [player EXCEPT ![l] = [p EXCEPT !.svr = g]]
      BY <2>3
    <3>2. g \in servers[l] /\ g \in Game BY <1>1 DEF Selectable
    <3>3. QED BY <2>1, <3>1, <3>2, SendDone DEF EnterDone
  <2>4. QED BY <1>3, <2>2, <2>3 DEF EnterGameSvr
<1>4. QED BY <1>2, <1>3

(* An answer of the database changes nothing, fills the player in, or completes it. *)
Completed(l, q) ==
  /\ q \in Players /\ player[l].state = "load"
  /\ q.session = player[l].session /\ q.need = player[l].need
  /\ \/ /\ q.state = "load" /\ q.svr = player[l].svr
        /\ player' = [player EXCEPT ![l] = q]
        /\ UNCHANGED <<centerVars, toGame, gsid>>
     \/ q.state = "playing" /\ EnterDone(l, q) /\ NotifyLobbyLogin(l)

\* An answer of the database leaves the player alone or fills in his data.
LEMMA LoadDone ==
  ASSUME TypeOK, NEW l \in Lobby, LoadAnswered(l)
  PROVE  \/ UNCHANGED <<player, centerVars, toGame, gsid>>
         \/ \E q \in Players : Completed(l, q)
<1> DEFINE p == [player[l] EXCEPT !.loaded = @ \cup {NextPart(l)}]
           q == [p EXCEPT !.state = "playing", !.svr = gsid, !.waited = "no"]
<1>1. NextPart(l) \in Parts BY DEF NextPart, Parts
<1>2. player[l] \in Players BY DEF TypeOK, Players
<1>3. p \in Players /\ p.state = player[l].state /\ p.svr = player[l].svr
      /\ p.session = player[l].session /\ p.need = player[l].need
  BY <1>1, <1>2 DEF Players
<1>4. q \in Players /\ q.state = "playing" /\ q.session = player[l].session
      /\ q.need = player[l].need
  BY <1>3 DEF Players, TypeOK
<1> HIDE DEF p, q
<1>5. \/ UNCHANGED <<player, centerVars, toGame, gsid>>
      \/ /\ player[l].state = "load" /\ player' = [player EXCEPT ![l] = p]
         /\ UNCHANGED <<centerVars, toGame, gsid>>
      \/ player[l].state = "load" /\ OnGetAllData(l, p)
  BY DEF LoadAnswered, p
<1>6. ASSUME player[l].state = "load", player' = [player EXCEPT ![l] = p],
             UNCHANGED <<centerVars, toGame, gsid>>
      PROVE  Completed(l, p)
  BY <1>3, <1>6 DEF Completed
<1>7. ASSUME player[l].state = "load", OnGetAllData(l, p) PROVE Completed(l, q)
  <2>1. EnterGameSvr(l, LoginKind, q) /\ NotifyLobbyLogin(l)
    BY <1>7 DEF OnGetAllData, q
  <2>2. EnterDone(l, q) BY <1>4, <2>1, EnterGameSvrDone
  <2>3. QED BY <1>4, <1>7, <2>1, <2>2 DEF Completed
<1>8. QED BY <1>3, <1>4, <1>5, <1>6, <1>7

(* The second's timer takes the player out, or leaves all but the clock. *)
LEMMA TimerDone ==
  ASSUME TypeOK, NEW l \in Lobby, OnTimer(l)
  PROVE  \E q \in Players :
           /\ player' = [player EXCEPT ![l] = q]
           /\ \/ q = NoPlayer
              \/ /\ q.state = player[l].state /\ q.session = player[l].session
                 /\ q.svr = player[l].svr /\ q.need = player[l].need
<1> DEFINE p == OnTimeTick(player[l])
<1>1. player[l] \in Players BY DEF TypeOK, Players
<1>2. p \in Players /\ p.state = player[l].state /\ p.session = player[l].session
      /\ p.svr = player[l].svr /\ p.need = player[l].need
  BY <1>1 DEF OnTimeTick, Players
<1>3. NoPlayer \in Players BY DEF NoPlayer, Players, Parts
<1> HIDE DEF p
<1>4. player' = [player EXCEPT ![l] = IF NeedRecover(l, p) THEN NoPlayer ELSE p]
  BY DEF OnTimer, p
<1>5. QED BY <1>2, <1>3, <1>4

--------------------------------------------------------------------------------
(* The inductive invariant *)

Absent == \A l \in Lobby : ~Exists(l) => player[l] = NoPlayer

(* A game server answers to the lobby that asked last. *)
HomeAsked == \A g \in Game : game[g].on => game[g].home = asker[g] /\ asker[g] # Nobody

(* A lobby keeps players only on servers that are registered, but for links that break. *)
SvrRegistered ==
  \A l \in Lobby, g \in Game : player[l].svr = g /\ <<l, g>> \notin Fragile => g \in servers[l]

IInv ==
  /\ TypeOK /\ Absent
  /\ SessionBound /\ GsidNotStale /\ OneMaster
  /\ HomeAsked /\ SvrRegistered /\ LobbyKnows

\* The invariant holds at the start.
LEMMA InitInv == Init => IInv
<1> SUFFICES ASSUME Init PROVE IInv OBVIOUS
<1>1. NoPlayer \in Players BY DEF NoPlayer, Players, Parts
<1>2. /\ player = [l \in Lobby |-> NoPlayer]
      /\ loads = [l \in Lobby |-> 0] /\ kicks = [l \in Lobby |-> 0]
      /\ center = [l \in Lobby |-> "down"] /\ told = [l \in Lobby |-> 0] /\ missed = {}
      /\ servers \in [Lobby -> SUBSET Game] /\ gsid = Nobody
      /\ leaves = [e \in Lobby \X Game |-> 0] /\ asker = [g \in Game |-> Nobody]
  BY Zenon DEF Init
<1>3. conn \in [Conn -> [at : Lobby \cup {Nobody}, closing : BOOLEAN]]
  BY Zenon DEF Init, Unnamed
<1>4. toGame \in [Lobby \X Game -> Seq({"enter", "back"})]
  <2>1. toGame = [e \in Lobby \X Game |-> <<>>] BY Zenon DEF Init
  <2>2. QED BY <2>1
<1>5. /\ game \in [Game -> [on : BOOLEAN, home : Lobby \cup {Nobody}]]
      /\ \A g \in Game : game[g].on = FALSE
  <2>1. [on |-> FALSE, home |-> Nobody] \in [on : BOOLEAN, home : Lobby \cup {Nobody}]
    OBVIOUS
  <2>2. QED BY <2>1, Zenon DEF Init
<1>6. TypeOK
  <2>1. player \in [Lobby -> Players] BY <1>1, <1>2
  <2>2. loads \in [Lobby -> 0..MaxLoads] BY <1>2, Parameters
  <2>3. kicks \in [Lobby -> Nat] /\ leaves \in [Lobby \X Game -> Nat] BY <1>2
  <2>4. servers \in [Lobby -> SUBSET Game] BY <1>2
  <2>5. gsid \in Game \cup {Nobody} /\ asker \in [Game -> Lobby \cup {Nobody}] BY <1>2
  <2>6. center \in [Lobby -> {"down", "up", "listed"}] /\ told \in [Lobby -> Nat]
        /\ missed \subseteq Lobby
    BY <1>2
  <2>7. QED BY <2>1, <2>2, <2>3, <2>4, <2>5, <2>6, <1>3, <1>4, <1>5, Zenon DEF TypeOK, Players
<1>7. Absent /\ SessionBound /\ OneMaster
  BY <1>2 DEF Absent, SessionBound, OneMaster, Playing, NoPlayer
<1>8. GsidNotStale BY <1>2 DEF GsidNotStale
<1>9. HomeAsked BY <1>5 DEF HomeAsked
<1>10. SvrRegistered /\ LobbyKnows
  BY <1>2, Parameters DEF SvrRegistered, LobbyKnows, NoPlayer
<1>11. QED BY <1>6, <1>7, <1>8, <1>9, <1>10 DEF IInv

--------------------------------------------------------------------------------
(* What becomes of login notices *)

CenterTypeOK ==
  /\ center \in [Lobby -> {"down", "up", "listed"}] /\ missed \subseteq Lobby
  /\ told \in [Lobby -> Nat] /\ kicks \in [Lobby -> Nat]

(* The lobbies but l that have the account in play have missed a notice. *)
OthersMissed(l) == \A o \in Lobby \ {l} : Playing(o) => o \in missed'

\* Whoever misses a notice while it has the account in play is entered, and none is taken out.
LEMMA MissesDone ==
  ASSUME TypeOK, NEW L \in SUBSET Lobby, Misses(L)
  PROVE  /\ missed' \subseteq Lobby /\ missed \subseteq missed'
         /\ \A o \in L : Playing(o) => o \in missed'
BY DEF TypeOK, Misses

\* A lobby's notice is under way to the center, or all it was meant for have missed it.
LEMMA NoticeSent ==
  ASSUME TypeOK, NEW l \in Lobby, NotifyLobbyLogin(l)
  PROVE  /\ CenterTypeOK' /\ kicks' = kicks /\ missed \subseteq missed'
         /\ \A o \in Lobby : told[o] > 0 => told'[o] > 0
         /\ told'[l] > 0 \/ OthersMissed(l)
<1>1. CASE told' = [told EXCEPT ![l] = @ + 1] /\ UNCHANGED <<center, kicks, missed>>
  <2>1. told' \in [Lobby -> Nat] BY <1>1 DEF TypeOK
  <2>2. \A o \in Lobby : told'[o] = IF o = l THEN told[o] + 1 ELSE told[o] BY <1>1 DEF TypeOK
  <2>3. \A o \in Lobby : told[o] \in Nat BY DEF TypeOK
  <2>4. QED BY <1>1, <2>1, <2>2, <2>3 DEF CenterTypeOK, TypeOK
<1>2. CASE Misses(Lobby \ {l}) /\ UNCHANGED <<center, told, kicks>>
  BY <1>2, MissesDone DEF CenterTypeOK, OthersMissed, TypeOK
<1>3. QED BY <1>1, <1>2 DEF NotifyLobbyLogin

\* A connection to the center that closes takes no notice with it that nobody misses.
LEMMA NoticesLost ==
  ASSUME TypeOK, NEW l \in Lobby, CloseCenter(l)
  PROVE  /\ CenterTypeOK' /\ missed \subseteq missed'
         /\ \A o \in Lobby \ {l} : told'[o] = told[o] /\ kicks'[o] = kicks[o]
         /\ told[l] > 0 => told'[l] > 0 \/ OthersMissed(l)
         /\ kicks[l] > 0 /\ Playing(l) => l \in missed'
<1>1. PICK read \in 0..told[l] :
        /\ told' = [told EXCEPT ![l] = read]
        /\ Misses((IF read < told[l] THEN Lobby \ {l} ELSE {}) \cup
                  (IF kicks[l] > 0 THEN {l} ELSE {}))
  BY DEF CloseCenter
<1> DEFINE L == (IF read < told[l] THEN Lobby \ {l} ELSE {}) \cup (IF kicks[l] > 0 THEN {l} ELSE {})
<1>2. center' = [center EXCEPT ![l] = "down"] /\ kicks' = [kicks EXCEPT ![l] = 0]
  BY DEF CloseCenter
<1>3. /\ L \in SUBSET Lobby /\ (read < told[l] => Lobby \ {l} \subseteq L)
      /\ kicks[l] > 0 => l \in L
  OBVIOUS
<1>4. Misses(L) BY <1>1
<1> HIDE DEF L
<1>5. /\ missed' \subseteq Lobby /\ missed \subseteq missed'
      /\ \A o \in L : Playing(o) => o \in missed'
  BY <1>3, <1>4, MissesDone
<1>6. told[l] \in Nat /\ read \in Nat /\ read <= told[l] BY DEF TypeOK
<1>7. told'[l] = read /\ \A o \in Lobby \ {l} : told'[o] = told[o] /\ kicks'[o] = kicks[o]
  BY <1>1, <1>2 DEF TypeOK
<1>8. CenterTypeOK' BY <1>1, <1>2, <1>5, <1>6 DEF TypeOK, CenterTypeOK
<1>9. told[l] > 0 => told'[l] > 0 \/ OthersMissed(l)
  <2>1. CASE read < told[l] BY <1>3, <1>5, <2>1 DEF OthersMissed
  <2>2. CASE read = told[l] BY <1>7, <2>2
  <2>3. QED BY <1>6, <2>1, <2>2
<1>10. QED BY <1>3, <1>5, <1>7, <1>8, <1>9

\* A notice the center passes on reaches every other lobby that has the account, or is missed there.
LEMMA NoticePassed ==
  ASSUME TypeOK, NEW l \in Lobby, CenterPasses(l)
  PROVE  /\ CenterTypeOK' /\ missed \subseteq missed'
         /\ \A o \in Lobby \ {l} : told'[o] = told[o]
         /\ \A o \in Lobby : kicks[o] > 0 => kicks'[o] > 0
         /\ \A o \in Lobby \ {l} : Playing(o) => kicks'[o] > 0 \/ o \in missed'
<1> DEFINE listed == {o \in Lobby \ {l} : center[o] = "listed"}
<1>1. /\ told[l] > 0 /\ told' = [told EXCEPT ![l] = @ - 1] /\ center' = center
      /\ kicks' = [o \in Lobby |-> IF o \in listed THEN kicks[o] + 1 ELSE kicks[o]]
      /\ Misses((Lobby \ {l}) \ listed)
  BY DEF CenterPasses
<1> HIDE DEF listed
<1>2. /\ missed' \subseteq Lobby /\ missed \subseteq missed'
      /\ \A o \in (Lobby \ {l}) \ listed : Playing(o) => o \in missed'
  BY <1>1, MissesDone
<1>3. \A o \in Lobby : kicks[o] \in Nat BY DEF TypeOK
<1>4. \A o \in Lobby : (kicks[o] > 0 => kicks'[o] > 0) /\ (o \in listed => kicks'[o] > 0)
  BY <1>1, <1>3
<1>5. kicks' \in [Lobby -> Nat] BY <1>1, <1>3
<1>6. told' \in [Lobby -> Nat] BY <1>1 DEF TypeOK
<1>7. CenterTypeOK' BY <1>1, <1>2, <1>5, <1>6 DEF CenterTypeOK, TypeOK
<1>8. \A o \in Lobby \ {l} : told'[o] = told[o] BY <1>1 DEF TypeOK
<1>9. QED BY <1>2, <1>4, <1>7, <1>8

\* The center leaves all but its connections and the notices alone.
LEMMA CenterApart ==
  ASSUME NEW l \in Lobby, CenterStep(l)
  PROVE  UNCHANGED <<player, loads, servers, conn, game, toGame, leaves, gsid, asker>>
BY Zenon DEF CenterStep, CenterPasses, CenterCloses, CenterMoves

\* Every step keeps the types of the center's part.
LEMMA CenterTypeStep == TypeOK /\ [Next]_vars => CenterTypeOK'
<1> SUFFICES ASSUME TypeOK, [Next]_vars PROVE CenterTypeOK' OBVIOUS
<1>a. ASSUME UNCHANGED centerVars PROVE CenterTypeOK'
  BY <1>a DEF centerVars, CenterTypeOK, TypeOK
<1>1. ASSUME NEW c \in Conn, NEW l \in Lobby, Client(c, l) PROVE CenterTypeOK'
  <2>1. CASE LoginNew(c, l)
    <3>1. missed' = missed \ {l} /\ UNCHANGED <<center, told, kicks>>
      BY <2>1, Zenon DEF LoginNew
    <3>2. QED BY <3>1 DEF CenterTypeOK, TypeOK
  <2>2. CASE LoginKills(c, l)
    <3>1. CloseCenter(l) BY <2>2, Zenon DEF LoginKills
    <3>2. QED BY <3>1, NoticesLost
  <2>3. CASE UNCHANGED centerVars BY <1>a, <2>3
  <2>4. QED
    BY <1>1, <2>1, <2>2, <2>3, Zenon
    DEF Client, Disconnect, LoginRepeated, LoginOver, ClientEnter, ClientBack
<1>2. ASSUME NEW l \in Lobby, LobbyStep(l) PROVE CenterTypeOK'
  <2>1. CASE LoadAnswered(l)
    <3>1. UNCHANGED centerVars \/ NotifyLobbyLogin(l) BY <2>1, LoadDone DEF Completed
    <3>2. QED BY <1>a, <3>1, NoticeSent
  <2>2. CASE LoginNoticed(l)
    <3>1. kicks[l] > 0 /\ kicks' = [kicks EXCEPT ![l] = @ - 1] /\ UNCHANGED <<center, told, missed>>
      BY <2>2 DEF LoginNoticed
    <3>2. QED BY <3>1 DEF CenterTypeOK, TypeOK
  <2>3. CASE UNCHANGED centerVars BY <1>a, <2>3
  <2>4. QED BY <1>2, <2>1, <2>2, <2>3, Zenon DEF LobbyStep, PlatKill, TimePasses, OnTimer
<1>3. ASSUME NEW l \in Lobby, CenterStep(l) PROVE CenterTypeOK'
  <2>1. CASE CenterPasses(l) BY <2>1, NoticePassed
  <2>2. CASE CenterCloses(l) BY <2>2, NoticesLost DEF CenterCloses
  <2>3. CASE CenterMoves(l) BY <2>3 DEF CenterMoves, CenterTypeOK, TypeOK
  <2>4. QED BY <1>3, <2>1, <2>2, <2>3 DEF CenterStep
<1>4. ASSUME NEW l \in Lobby, NEW g \in Game, GameStep(l, g) PROVE CenterTypeOK'
  BY <1>4, <1>a, Zenon DEF GameStep, EnterHandled, BackHandled, LeaveNoticed, Break, Register
<1>5. ASSUME NEW g \in Game, GameRecovers(g) PROVE CenterTypeOK'
  BY <1>5, <1>a, Zenon DEF GameRecovers
<1>6. CASE UNCHANGED vars BY <1>a, <1>6 DEF vars
<1>7. QED BY <1>1, <1>2, <1>3, <1>4, <1>5, <1>6 DEF Next

--------------------------------------------------------------------------------
(* Types *)

\* Entering a game server keeps types.
LEMMA EnterType ==
  ASSUME TypeOK, NEW l \in Lobby, NEW p \in Players, EnterDone(l, p)
  PROVE  /\ player' \in [Lobby -> Players] /\ gsid' \in Game \cup {Nobody}
         /\ toGame' \in [Lobby \X Game -> Seq({"enter", "back"})]
<1>1. PICK v \in Game \cup {Nobody} : player' = [player EXCEPT ![l] = [p EXCEPT !.svr = v]]
  BY DEF EnterDone
<1>2. [p EXCEPT !.svr = v] \in Players BY DEF Players
<1>3. player \in [Lobby -> Players] BY DEF TypeOK, Players
<1>4. player' \in [Lobby -> Players] BY <1>1, <1>2, <1>3
<1>5. QED BY <1>4 DEF EnterDone, TypeOK

\* Every step keeps types.
LEMMA TypeStep == TypeOK /\ HomeAsked /\ [Next]_vars => TypeOK'
<1> SUFFICES ASSUME TypeOK, HomeAsked, [Next]_vars PROVE TypeOK' OBVIOUS
<1>0. CenterTypeOK' BY CenterTypeStep
<1> USE Parameters, <1>0 DEF CenterTypeOK
<1> DEFINE Conns == [at : Lobby \cup {Nobody}, closing : BOOLEAN]
<1>a. /\ player \in [Lobby -> Players] /\ conn \in [Conn -> Conns]
      /\ NoPlayer \in Players /\ Unnamed \in Conns
  BY DEF TypeOK, Players, NoPlayer, Unnamed, Parts
<1>b. ASSUME NEW l \in Lobby, NEW p \in Players, OnLogin(l, p)
      PROVE  player' \in [Lobby -> Players] /\ loads' \in [Lobby -> 0..MaxLoads]
  <2>1. [p EXCEPT !.state = "load", !.waited = "fresh"] \in Players BY DEF Players
  <2>2. player' \in [Lobby -> Players] BY <1>a, <1>b, <2>1 DEF OnLogin
  <2>3. loads \in [Lobby -> 0..MaxLoads] /\ loads[l] + 2 <= MaxLoads
        /\ loads' = [loads EXCEPT ![l] = @ + 2]
    BY <1>b DEF OnLogin, TypeOK
  <2>4. loads' \in [Lobby -> 0..MaxLoads] BY <2>3
  <2>5. QED BY <2>2, <2>4
<1>c. ASSUME NEW l \in Lobby, NEW old, NEW c \in Conn, SetSession(l, old, c)
      PROVE  conn' \in [Conn -> Conns]
  <2>1. [at |-> l, closing |-> FALSE] \in Conns OBVIOUS
  <2>2. QED BY <1>a, <1>c, <2>1 DEF SetSession
<1>1. ASSUME NEW c \in Conn, NEW l \in Lobby, Client(c, l) PROVE TypeOK'
  <2>1. CASE Disconnect(c, l)
    <3>1. [player[l] EXCEPT !.session = Nobody] \in Players BY <1>a DEF Players
    <3>2. player' \in [Lobby -> Players] BY <1>a, <2>1, <3>1 DEF Disconnect
    <3>3. conn' \in [Conn -> Conns] BY <1>a, <2>1 DEF Disconnect
    <3>4. QED BY <2>1, <3>2, <3>3 DEF Disconnect, TypeOK, Players
  <2>2. CASE LoginNew(c, l)
    <3>1. [NoPlayer EXCEPT !.session = c] \in Players BY <1>a DEF Players
    <3>2. QED BY <1>b, <1>c, <2>2, <3>1 DEF LoginNew, TypeOK, Players
  <2>3. CASE LoginRepeated(c, l)
    BY <1>a, <1>b, <2>3 DEF LoginRepeated, TypeOK, Players
  <2>4. CASE LoginOver(c, l)
    <3>1. [player[l] EXCEPT !.session = c] \in Players BY <1>a DEF Players
    <3>2. conn' \in [Conn -> Conns] BY <1>c, <2>4 DEF LoginOver
    <3>3. player' \in [Lobby -> Players] /\ loads' \in [Lobby -> 0..MaxLoads]
      <4>1. CASE player' = [player EXCEPT ![l].session = c] /\ loads' = loads
        <5>1. player' = [player EXCEPT ![l] = [player[l] EXCEPT !.session = c]] BY <4>1
        <5>2. QED BY <1>a, <3>1, <4>1, <5>1 DEF TypeOK
      <4>2. CASE OnLogin(l, [player[l] EXCEPT !.session = c]) BY <1>b, <3>1, <4>2
      <4>3. QED BY <2>4, <4>1, <4>2 DEF LoginOver
    <3>4. QED BY <2>4, <3>2, <3>3 DEF LoginOver, TypeOK, Players
  <2>5. CASE LoginKills(c, l)
    <3>1. player' \in [Lobby -> Players] /\ conn' \in [Conn -> Conns]
          /\ loads' \in [Lobby -> 0..MaxLoads] /\ servers' \in [Lobby -> SUBSET Game]
      BY <1>a, <2>5 DEF LoginKills, TypeOK
    <3>2. leaves' \in [Lobby \X Game -> Nat] BY <2>5 DEF LoginKills, TypeOK
    <3>3. toGame' \in [Lobby \X Game -> Seq({"enter", "back"})]
      BY <2>5 DEF LoginKills, TypeOK
    <3>4. QED BY <2>5, <3>1, <3>2, <3>3 DEF LoginKills, TypeOK, Players
  <2>6. ASSUME NEW k \in Kinds, ClientEnter(c, l, k) PROVE TypeOK'
    <3>1. EnterDone(l, player[l]) BY <1>a, <2>6, EnterGameSvrDone DEF ClientEnter
    <3>2. QED BY <1>a, <2>6, <3>1, EnterType DEF ClientEnter, TypeOK, Players
  <2>7. CASE ClientBack(c, l)
    <3>1. player[l].svr \in Game BY <2>7 DEF ClientBack, TypeOK
    <3>2. toGame' \in [Lobby \X Game -> Seq({"enter", "back"})]
      BY <2>7, <3>1, SendDone DEF ClientBack
    <3>3. QED BY <2>7, <3>2 DEF ClientBack, TypeOK
  <2>8. QED BY <1>1, <2>1, <2>2, <2>3, <2>4, <2>5, <2>6, <2>7 DEF Client
<1>2. ASSUME NEW l \in Lobby, LobbyStep(l) PROVE TypeOK'
  <2>1. CASE LoadAnswered(l)
    <3>1. player' \in [Lobby -> Players] /\ gsid' \in Game \cup {Nobody}
          /\ toGame' \in [Lobby \X Game -> Seq({"enter", "back"})]
      <4>1. CASE UNCHANGED <<player, toGame, gsid>> BY <1>a, <4>1 DEF TypeOK
      <4>2. ASSUME NEW q \in Players, player' = [player EXCEPT ![l] = q], UNCHANGED <<toGame, gsid>>
            PROVE  player' \in [Lobby -> Players] /\ gsid' \in Game \cup {Nobody}
                   /\ toGame' \in [Lobby \X Game -> Seq({"enter", "back"})]
        BY <1>a, <4>2 DEF TypeOK
      <4>3. QED BY <2>1, <4>1, <4>2, LoadDone, EnterType DEF Completed
    <3>2. loads \in [Lobby -> 0..MaxLoads] /\ loads[l] > 0
          /\ loads' = [loads EXCEPT ![l] = @ - 1]
      BY <2>1 DEF LoadAnswered, TypeOK
    <3>3. loads' \in [Lobby -> 0..MaxLoads] BY <3>2
    <3>4. QED BY <2>1, <3>1, <3>3 DEF LoadAnswered, TypeOK, Players
  <2>2. CASE LoginNoticed(l)
    <3>1. [player[l] EXCEPT !.need = TRUE] \in Players BY <1>a DEF Players
    <3>2. player' \in [Lobby -> Players] BY <1>a, <2>2, <3>1 DEF LoginNoticed
    <3>3. QED BY <2>2, <3>2 DEF LoginNoticed, TypeOK, Players
  <2>3. CASE PlatKill(l)
    <3>1. [player[l] EXCEPT !.need = TRUE] \in Players BY <1>a DEF Players
    <3>2. player' \in [Lobby -> Players] BY <1>a, <2>3, <3>1 DEF PlatKill
    <3>3. ASSUME NEW c \in Conn, NEW b
          PROVE  [conn[c] EXCEPT !.closing = @ \/ b] \in Conns
      BY <1>a
    <3>4. conn' \in [Conn -> Conns] BY <2>3, <3>3 DEF PlatKill
    <3>5. QED BY <2>3, <3>2, <3>4 DEF PlatKill, TypeOK, Players
  <2>4. CASE TimePasses(l)
    <3>1. [player[l] EXCEPT !.waited = "old"] \in Players BY <1>a DEF Players
    <3>2. player' \in [Lobby -> Players] BY <1>a, <2>4, <3>1 DEF TimePasses
    <3>3. QED BY <2>4, <3>2 DEF TimePasses, TypeOK, Players
  <2>5. CASE OnTimer(l)
    <3>1. player' \in [Lobby -> Players] BY <1>a, <2>5, TimerDone
    <3>2. QED BY <2>5, <3>1 DEF OnTimer, TypeOK, Players
  <2>6. QED BY <1>2, <2>1, <2>2, <2>3, <2>4, <2>5 DEF LobbyStep
<1> DEFINE Games == [on : BOOLEAN, home : Lobby \cup {Nobody}]
<1>d. ASSUME NEW l \in Lobby, NEW g \in Game, Notify(l, g)
      PROVE  leaves' \in [Lobby \X Game -> Nat]
  <2>1. leaves \in [Lobby \X Game -> Nat] BY DEF TypeOK
  <2>2. CASE leaves' = leaves BY <2>1, <2>2
  <2>3. CASE leaves' = [leaves EXCEPT ![<<l, g>>] = @ + 1] BY <2>1, <2>3
  <2>4. QED BY <1>d, <2>2, <2>3 DEF Notify
<1>e. ASSUME NEW g \in Game, game[g].on, RecoverPlayer(g)
      PROVE  /\ leaves' \in [Lobby \X Game -> Nat] /\ game' \in [Game -> Games]
             /\ gsid' \in Game \cup {Nobody}
  <2>1. game[g].home \in Lobby BY <1>e DEF HomeAsked, TypeOK
  <2>2. leaves' \in [Lobby \X Game -> Nat] BY <1>d, <1>e, <2>1 DEF RecoverPlayer
  <2>3. [on |-> FALSE, home |-> Nobody] \in Games OBVIOUS
  <2>4. game' = [game EXCEPT ![g] = [on |-> FALSE, home |-> Nobody]] /\ gsid' = Nobody
    BY <1>e, Zenon DEF RecoverPlayer
  <2>5. game \in [Game -> Games] BY DEF TypeOK
  <2> HIDE DEF Games
  <2>6. game' \in [Game -> Games] BY <2>3, <2>4, <2>5
  <2>7. QED BY <2>2, <2>4, <2>6
<1>3. ASSUME NEW l \in Lobby, NEW g \in Game, GameStep(l, g) PROVE TypeOK'
  <2>a. toGame[<<l, g>>] \in Seq({"enter", "back"}) BY DEF TypeOK
  <2>b. ASSUME toGame[<<l, g>>] # <<>>, toGame' = [toGame EXCEPT ![<<l, g>>] = Tail(@)]
        PROVE  toGame' \in [Lobby \X Game -> Seq({"enter", "back"})]
    <3>1. Tail(toGame[<<l, g>>]) \in Seq({"enter", "back"}) BY <2>a, <2>b
    <3>2. QED BY <2>b, <3>1 DEF TypeOK
  <2>1. CASE EnterHandled(l, g)
    <3>1. toGame' \in [Lobby \X Game -> Seq({"enter", "back"})]
      BY <2>1, <2>b, Zenon DEF EnterHandled
    <3>2. [on |-> TRUE, home |-> l] \in Games OBVIOUS
    <3>3. game \in [Game -> Games] BY DEF TypeOK
    <3>4. /\ game' = [game EXCEPT ![g] = [on |-> TRUE, home |-> l]] /\ gsid' = g
          /\ asker' = [asker EXCEPT ![g] = l]
          /\ UNCHANGED <<player, loads, servers, conn, leaves>>
      BY <2>1, Zenon DEF EnterHandled
    <3>5. asker' \in [Game -> Lobby \cup {Nobody}] BY <3>4 DEF TypeOK
    <3> HIDE DEF Games
    <3>6. game' \in [Game -> Games] BY <3>2, <3>3, <3>4
    <3>7. QED BY <3>1, <3>4, <3>5, <3>6 DEF TypeOK, Games
  <2>2. CASE BackHandled(l, g)
    <3>1. toGame' \in [Lobby \X Game -> Seq({"enter", "back"})]
      BY <2>2, <2>b, Zenon DEF BackHandled
    <3>2. /\ leaves' \in [Lobby \X Game -> Nat] /\ game' \in [Game -> Games]
          /\ gsid' \in Game \cup {Nobody}
      <4>1. game \in [Game -> Games] /\ gsid \in Game \cup {Nobody}
            /\ leaves \in [Lobby \X Game -> Nat]
        BY DEF TypeOK
      <4>2. CASE game[g].on /\ RecoverPlayer(g) BY <1>e, <4>2
      <4>3. CASE ~game[g].on /\ Notify(l, g) /\ UNCHANGED <<game, gsid>>
        BY <1>d, <4>1, <4>3
      <4>4. CASE UNCHANGED <<game, leaves, gsid>> BY <4>1, <4>4
      <4>5. QED BY <2>2, <4>2, <4>3, <4>4 DEF BackHandled
    <3>3. QED BY <2>2, <3>1, <3>2 DEF BackHandled, TypeOK
  <2>3. CASE LeaveNoticed(l, g)
    <3>1. [player[l] EXCEPT !.svr = Nobody] \in Players BY <1>a DEF Players
    <3>2. player' \in [Lobby -> Players] BY <1>a, <2>3, <3>1 DEF LeaveNoticed
    <3>3. leaves' \in [Lobby \X Game -> Nat] BY <2>3 DEF LeaveNoticed, TypeOK
    <3>4. gsid' \in Game \cup {Nobody} BY <2>3 DEF LeaveNoticed, TypeOK
    <3>5. QED BY <2>3, <3>2, <3>3, <3>4 DEF LeaveNoticed, TypeOK, Players
  <2>4. CASE Break(l, g)
    <3>a. toGame \in [Lobby \X Game -> Seq({"enter", "back"})]
          /\ [toGame EXCEPT ![<<l, g>>] = <<>>] \in [Lobby \X Game -> Seq({"enter", "back"})]
      BY DEF TypeOK
    <3>1. toGame' \in [Lobby \X Game -> Seq({"enter", "back"})] BY <2>4, <3>a DEF Break
    <3>2. leaves' \in [Lobby \X Game -> Nat] /\ servers' \in [Lobby -> SUBSET Game]
      BY <2>4 DEF Break, TypeOK
    <3>3. QED BY <2>4, <3>1, <3>2 DEF Break, TypeOK
  <2>5. CASE Register(l, g)
    <3>1. servers' \in [Lobby -> SUBSET Game] BY <2>5 DEF Register, TypeOK
    <3>2. QED BY <2>5, <3>1 DEF Register, TypeOK
  <2>6. QED BY <1>3, <2>1, <2>2, <2>3, <2>4, <2>5 DEF GameStep
<1>4. ASSUME NEW g \in Game, GameRecovers(g) PROVE TypeOK'
  <2>1. game[g].on /\ RecoverPlayer(g) BY <1>4 DEF GameRecovers
  <2>2. QED BY <1>4, <1>e, <2>1 DEF GameRecovers, TypeOK
<1>5. ASSUME NEW l \in Lobby, CenterStep(l) PROVE TypeOK'
  BY <1>5, CenterApart DEF TypeOK
<1>6. CASE UNCHANGED vars BY <1>6 DEF vars, TypeOK
<1>7. QED BY <1>1, <1>2, <1>3, <1>4, <1>5, <1>6 DEF Next

--------------------------------------------------------------------------------
(* Sessions and connections *)

\* A player that only changes otherwise, loses its session or goes keeps the rest bound.
LEMMA KeepsBound ==
  ASSUME TypeOK, Absent, SessionBound, NEW l \in Lobby, NEW q,
         player' = [player EXCEPT ![l] = q],
         q = NoPlayer \/ q.state # "none",
         q.session \in {player[l].session, Nobody},
         \A c \in Conn : conn'[c].at = conn[c].at
  PROVE  Absent' /\ SessionBound'
<1>1. ASSUME NEW o \in Lobby PROVE player'[o] = IF o = l THEN q ELSE player[o]
  BY DEF TypeOK
<1>2. Absent' BY <1>1 DEF Absent, Exists
<1>3. ASSUME NEW o \in Lobby, player'[o].session # Nobody
      PROVE  conn'[player'[o].session].at = o
  <2>1. player'[o].session = player[o].session BY <1>1, <1>3
  <2>2. player[o].session \in Conn BY <1>3, <2>1 DEF TypeOK
  <2>3. QED BY <1>3, <2>1, <2>2 DEF SessionBound
<1>4. QED BY <1>2, <1>3 DEF SessionBound

\* A login binds the player to its connection and takes its name off the old one.
LEMMA LoginBound ==
  ASSUME TypeOK, Absent, SessionBound, NEW l \in Lobby, NEW c \in Conn, NEW q,
         conn[c] = Unnamed \/ Bears(c, l),
         player' = [player EXCEPT ![l] = q], q.session = c, q.state # "none",
         SetSession(l, player[l].session, c)
  PROVE  Absent' /\ SessionBound'
<1>1. ASSUME NEW o \in Lobby PROVE player'[o] = IF o = l THEN q ELSE player[o]
  BY DEF TypeOK
<1>2. Absent' BY <1>1 DEF Absent, Exists
<1>3. conn[c].at \in {l, Nobody} BY DEF Unnamed, Bears
<1>4. ASSUME NEW o \in Lobby, player'[o].session # Nobody
      PROVE  conn'[player'[o].session].at = o
  <2>1. CASE o = l BY <1>1, <2>1 DEF SetSession
  <2>2. CASE o # l
    <3>1. player'[o].session = player[o].session BY <1>1, <2>2
    <3>2. player[o].session \in Conn /\ conn[player[o].session].at = o
      BY <1>4, <3>1 DEF TypeOK, SessionBound
    <3>3. player[o].session # c BY <1>3, <2>2, <3>2, Parameters
    <3>4. player[o].session # player[l].session
      BY <2>2, <3>2, Parameters DEF SessionBound
    <3>5. QED BY <3>1, <3>2, <3>3, <3>4 DEF SetSession
  <2>3. QED BY <2>1, <2>2
<1>5. QED BY <1>2, <1>4 DEF SessionBound

\* Every step keeps sessions bound, and leaves none behind for an absent player.
LEMMA SessionStep == TypeOK /\ Absent /\ SessionBound /\ [Next]_vars => Absent' /\ SessionBound'
<1> SUFFICES ASSUME TypeOK, Absent, SessionBound, [Next]_vars PROVE Absent' /\ SessionBound'
  OBVIOUS
<1> USE DEF Exists, Playing
<1>a. ASSUME player' = player, conn' = conn PROVE Absent' /\ SessionBound'
  BY <1>a DEF Absent, SessionBound
<1>b. ASSUME NEW l \in Lobby
      PROVE  player[l] \in Players /\ (player[l].state = "none" => player[l].session = Nobody)
  BY DEF TypeOK, Players, Absent, NoPlayer
<1>1. ASSUME NEW c \in Conn, NEW l \in Lobby, Client(c, l) PROVE Absent' /\ SessionBound'
  <2>1. CASE Disconnect(c, l)
    <3>1. conn[c].at = l /\ conn' = [conn EXCEPT ![c] = Unnamed, ![player[l].session] = Unnamed]
      BY <2>1 DEF Disconnect
    <3>2. ASSUME NEW o \in Lobby
          PROVE  player'[o] = IF o = l /\ player[l].state # "none"
                              THEN [player[l] EXCEPT !.session = Nobody] ELSE player[o]
      BY <2>1 DEF Disconnect, TypeOK
    <3>3. ASSUME NEW o \in Lobby PROVE player'[o].session = IF o = l THEN Nobody ELSE player[o].session
      BY <1>b, <3>2 DEF Players
    <3>4. Absent'
      BY <1>b, <3>2 DEF Absent, Players
    <3>5. ASSUME NEW o \in Lobby, player'[o].session # Nobody
          PROVE  conn'[player'[o].session].at = o
      <4>1. o # l /\ player'[o].session = player[o].session BY <3>3, <3>5
      <4>2. player[o].session \in Conn /\ conn[player[o].session].at = o
        BY <3>5, <4>1 DEF TypeOK, SessionBound
      <4>3. player[o].session # c BY <3>1, <4>1, <4>2
      <4>4. player[o].session # player[l].session BY <4>1, <4>2, Parameters DEF SessionBound
      <4>5. QED BY <3>1, <4>1, <4>2, <4>3, <4>4 DEF TypeOK
    <3>6. QED BY <3>4, <3>5 DEF SessionBound
  <2>2. CASE LoginNew(c, l)
    <3> DEFINE q == [NoPlayer EXCEPT !.session = c, !.state = "load", !.waited = "fresh"]
    <3>1. player' = [player EXCEPT ![l] = q] /\ q.session = c /\ q.state # "none"
      BY <2>2 DEF LoginNew, OnLogin, NoPlayer
    <3>2. SetSession(l, player[l].session, c) /\ (conn[c] = Unnamed \/ Bears(c, l))
      BY <1>b, <2>2 DEF LoginNew
    <3> HIDE DEF q
    <3>3. QED BY <3>1, <3>2, LoginBound
  <2>3. CASE LoginRepeated(c, l)
    <3> DEFINE q == [player[l] EXCEPT !.state = "load", !.waited = "fresh"]
    <3>1. player' = [player EXCEPT ![l] = q] /\ conn' = conn
      BY <2>3 DEF LoginRepeated, OnLogin
    <3>2. q.session = player[l].session /\ q.state # "none" BY <1>b DEF Players
    <3> HIDE DEF q
    <3>3. QED BY <3>1, <3>2, KeepsBound
  <2>4. CASE LoginOver(c, l)
    <3>1. conn[c] = Unnamed /\ SetSession(l, player[l].session, c) /\ player[l].state # "none"
      BY <2>4 DEF LoginOver
    <3>2. PICK q : player' = [player EXCEPT ![l] = q] /\ q.session = c /\ q.state # "none"
      <4>1. CASE player' = [player EXCEPT ![l].session = c]
        <5> DEFINE q == [player[l] EXCEPT !.session = c]
        <5>1. player' = [player EXCEPT ![l] = q] BY <4>1
        <5>2. q.session = c /\ q.state # "none" BY <1>b, <3>1 DEF Players
        <5>3. QED BY <5>1, <5>2
      <4>2. CASE OnLogin(l, [player[l] EXCEPT !.session = c])
        <5> DEFINE q == [[player[l] EXCEPT !.session = c] EXCEPT !.state = "load", !.waited = "fresh"]
        <5>1. player' = [player EXCEPT ![l] = q] BY <4>2 DEF OnLogin
        <5>2. q.session = c /\ q.state # "none" BY <1>b DEF Players
        <5>3. QED BY <5>1, <5>2
      <4>3. QED BY <2>4, <4>1, <4>2 DEF LoginOver
    <3>3. QED BY <3>1, <3>2, LoginBound
  <2>5. CASE LoginKills(c, l)
    <3>1. player' = [player EXCEPT ![l] = NoPlayer]
          /\ conn' = [d \in Conn |-> IF conn[d].at = l THEN Unnamed ELSE conn[d]]
      BY <2>5 DEF LoginKills
    <3>2. ASSUME NEW o \in Lobby PROVE player'[o] = IF o = l THEN NoPlayer ELSE player[o]
      BY <3>1 DEF TypeOK
    <3>3. Absent' BY <3>2 DEF Absent
    <3>4. ASSUME NEW o \in Lobby, player'[o].session # Nobody
          PROVE  conn'[player'[o].session].at = o
      <4>1. o # l /\ player'[o].session = player[o].session BY <3>2, <3>4 DEF NoPlayer
      <4>2. player[o].session \in Conn /\ conn[player[o].session].at = o
        BY <3>4, <4>1 DEF TypeOK, SessionBound
      <4>3. QED BY <3>1, <4>1, <4>2
    <3>5. QED BY <3>3, <3>4 DEF SessionBound
  <2>6. ASSUME NEW k \in Kinds, ClientEnter(c, l, k) PROVE Absent' /\ SessionBound'
    <3>1. EnterDone(l, player[l]) /\ player[l].state = "playing" /\ conn' = conn
      BY <1>b, <2>6, EnterGameSvrDone DEF ClientEnter, InGame
    <3>2. PICK v : player' = [player EXCEPT ![l] = [player[l] EXCEPT !.svr = v]]
      BY <3>1 DEF EnterDone
    <3> DEFINE q == [player[l] EXCEPT !.svr = v]
    <3>3. q.session = player[l].session /\ q.state # "none" BY <1>b, <3>1 DEF Players
    <3>4. player' = [player EXCEPT ![l] = q] BY <3>2
    <3> HIDE DEF q
    <3>5. QED BY <3>1, <3>3, <3>4, KeepsBound
  <2>7. CASE ClientBack(c, l) BY <1>a, <2>7 DEF ClientBack
  <2>8. QED BY <1>1, <2>1, <2>2, <2>3, <2>4, <2>5, <2>6, <2>7 DEF Client
<1>2. ASSUME NEW l \in Lobby, LobbyStep(l) PROVE Absent' /\ SessionBound'
  <2>1. CASE LoadAnswered(l)
    <3>1. conn' = conn BY <2>1 DEF LoadAnswered
    <3>2. CASE player' = player BY <1>a, <3>1, <3>2
    <3>3. ASSUME NEW r \in Players, Completed(l, r) PROVE Absent' /\ SessionBound'
      <4>1. PICK q : player' = [player EXCEPT ![l] = q] /\ q.session = r.session /\ q.state = r.state
        BY <3>3 DEF Completed, EnterDone, Players
      <4>2. QED BY <3>1, <3>3, <4>1, KeepsBound DEF Completed
    <3>4. QED BY <2>1, <3>2, <3>3, LoadDone
  <2>2. CASE LoginNoticed(l) \/ PlatKill(l)
    <3>1. CASE player[l].state # "none"
      <4> DEFINE q == [player[l] EXCEPT !.need = TRUE]
      <4>1. player' = [player EXCEPT ![l] = q]
        <5>1. player' = [player EXCEPT ![l].need = TRUE] BY <2>2, <3>1 DEF LoginNoticed, PlatKill
        <5>2. QED BY <5>1
      <4>2. q.session = player[l].session /\ q.state # "none" BY <1>b, <3>1 DEF Players
      <4>3. \A c \in Conn : conn'[c].at = conn[c].at BY <2>2 DEF LoginNoticed, PlatKill, TypeOK
      <4> HIDE DEF q
      <4>4. QED BY <4>1, <4>2, <4>3, KeepsBound
    <3>2. CASE player[l].state = "none" BY <1>a, <2>2, <3>2 DEF LoginNoticed, PlatKill
    <3>3. QED BY <3>1, <3>2
  <2>3. CASE TimePasses(l)
    <3> DEFINE q == [player[l] EXCEPT !.waited = "old"]
    <3>1. player' = [player EXCEPT ![l] = q] /\ conn' = conn /\ player[l].state # "none"
      BY <2>3 DEF TimePasses
    <3>2. q.session = player[l].session /\ q.state # "none" BY <1>b, <3>1 DEF Players
    <3> HIDE DEF q
    <3>3. QED BY <3>1, <3>2, KeepsBound
  <2>4. CASE OnTimer(l)
    <3>1. conn' = conn /\ player[l].state # "none" BY <2>4 DEF OnTimer
    <3>2. PICK q : /\ player' = [player EXCEPT ![l] = q]
                   /\ q = NoPlayer \/ (q.state # "none" /\ q.session = player[l].session)
      BY <2>4, <3>1, TimerDone
    <3>3. q.session \in {player[l].session, Nobody} BY <3>2 DEF NoPlayer
    <3>4. QED BY <3>1, <3>2, <3>3, KeepsBound
  <2>5. QED BY <1>2, <2>1, <2>2, <2>3, <2>4 DEF LobbyStep
<1>3. ASSUME NEW l \in Lobby, NEW g \in Game, GameStep(l, g) PROVE Absent' /\ SessionBound'
  <2>1. CASE LeaveNoticed(l, g)
    <3>1. CASE player[l].state # "none"
      <4> DEFINE q == [player[l] EXCEPT !.svr = Nobody]
      <4>1. player' = [player EXCEPT ![l] = q] /\ conn' = conn BY <2>1, <3>1 DEF LeaveNoticed
      <4>2. q.session = player[l].session /\ q.state # "none" BY <1>b, <3>1 DEF Players
      <4> HIDE DEF q
      <4>3. QED BY <4>1, <4>2, KeepsBound
    <3>2. CASE player[l].state = "none" BY <1>a, <2>1, <3>2 DEF LeaveNoticed
    <3>3. QED BY <3>1, <3>2
  <2>2. CASE ~LeaveNoticed(l, g)
    <3>1. player' = player /\ conn' = conn
      BY <1>3, <2>2, Zenon DEF GameStep, EnterHandled, BackHandled, Break, Register
    <3>2. QED BY <1>a, <3>1
  <2>3. QED BY <2>1, <2>2
<1>4. ASSUME NEW g \in Game, GameRecovers(g) PROVE Absent' /\ SessionBound'
  BY <1>4, <1>a, Zenon DEF GameRecovers
<1>5. ASSUME NEW l \in Lobby, CenterStep(l) PROVE Absent' /\ SessionBound'
  BY <1>5, <1>a, CenterApart
<1>6. CASE UNCHANGED vars BY <1>a, <1>6 DEF vars
<1>7. QED BY <1>1, <1>2, <1>3, <1>4, <1>5, <1>6 DEF Next

--------------------------------------------------------------------------------
(* The gsid *)

\* Every step keeps gsid leading to a server that has the player.
LEMMA GsidStep == TypeOK /\ GsidNotStale /\ [Next]_vars => GsidNotStale'
<1> SUFFICES ASSUME TypeOK, GsidNotStale, [Next]_vars PROVE GsidNotStale'
  OBVIOUS
<1>a. ASSUME game' = game, gsid' \in {gsid, Nobody} PROVE GsidNotStale'
  BY <1>a DEF GsidNotStale
<1>b. ASSUME NEW g \in Game, RecoverPlayer(g) PROVE GsidNotStale'
  BY <1>b, Zenon DEF RecoverPlayer, GsidNotStale
<1>1. ASSUME NEW c \in Conn, NEW l \in Lobby, Client(c, l) PROVE GsidNotStale'
  <2>1. ASSUME NEW k \in Kinds, ClientEnter(c, l, k) PROVE GsidNotStale'
    <3>1. EnterDone(l, player[l]) /\ game' = game
      BY <2>1, EnterGameSvrDone DEF ClientEnter, TypeOK, Players
    <3>2. QED BY <1>a, <3>1 DEF EnterDone
  <2>2. CASE game' = game /\ gsid' = gsid BY <1>a, <2>2
  <2>3. QED
    BY <1>1, <2>1, <2>2, Zenon
    DEF Client, Disconnect, LoginNew, LoginRepeated, LoginOver, LoginKills, ClientBack
<1>2. ASSUME NEW l \in Lobby, LobbyStep(l) PROVE GsidNotStale'
  <2>1. CASE LoadAnswered(l)
    <3>1. game' = game BY <2>1 DEF LoadAnswered
    <3>2. gsid' \in {gsid, Nobody} BY <2>1, LoadDone DEF Completed, EnterDone
    <3>3. QED BY <1>a, <3>1, <3>2
  <2>2. CASE game' = game /\ gsid' = gsid BY <1>a, <2>2
  <2>3. QED
    BY <1>2, <2>1, <2>2, Zenon DEF LobbyStep, LoginNoticed, PlatKill, TimePasses, OnTimer
<1>3. ASSUME NEW l \in Lobby, NEW g \in Game, GameStep(l, g) PROVE GsidNotStale'
  <2>1. CASE EnterHandled(l, g)
    <3>1. gsid' = g /\ game' = [game EXCEPT ![g] = [on |-> TRUE, home |-> l]]
      BY <2>1, Zenon DEF EnterHandled
    <3>2. game'[g] = [on |-> TRUE, home |-> l] BY <3>1 DEF TypeOK
    <3>3. QED BY <3>1, <3>2 DEF GsidNotStale
  <2>2. CASE BackHandled(l, g)
    <3>1. RecoverPlayer(g) \/ (game' = game /\ gsid' = gsid) BY <2>2, Zenon DEF BackHandled
    <3>2. QED BY <1>a, <1>b, <3>1
  <2>3. CASE LeaveNoticed(l, g)
    <3>1. game' = game /\ gsid' \in {gsid, Nobody} BY <2>3 DEF LeaveNoticed
    <3>2. QED BY <1>a, <3>1
  <2>4. CASE game' = game /\ gsid' = gsid BY <1>a, <2>4
  <2>5. QED BY <1>3, <2>1, <2>2, <2>3, <2>4, Zenon DEF GameStep, Break, Register
<1>4. ASSUME NEW g \in Game, GameRecovers(g) PROVE GsidNotStale'
  BY <1>4, <1>b DEF GameRecovers
<1>5. ASSUME NEW l \in Lobby, CenterStep(l) PROVE GsidNotStale'
  BY <1>5, <1>a, CenterApart
<1>6. CASE UNCHANGED vars BY <1>a, <1>6 DEF vars
<1>7. QED BY <1>1, <1>2, <1>3, <1>4, <1>5, <1>6 DEF Next

--------------------------------------------------------------------------------
(* One lobby at a time *)

(* Lobby o is to let the account go, tells that it has it, is being told, or missed a notice. *)
Yields(o) == player[o].need \/ told[o] > 0 \/ kicks[o] > 0 \/ o \in missed

\* It is enough that who yields goes on to, or all others that have the account do instead.
LEMMA YieldsOn ==
  ASSUME OneMaster, \A o \in Lobby : Playing(o)' => Playing(o),
         \A o \in Lobby : Playing(o)' /\ Yields(o) =>
           Yields(o)' \/ \A r \in Lobby \ {o} : Playing(r)' => Yields(r)'
  PROVE  OneMaster'
<1>1. ASSUME NEW o \in Lobby, NEW r \in Lobby, o # r, Playing(o)', Playing(r)'
      PROVE  Yields(o)' \/ Yields(r)'
  <2>1. Yields(o) \/ Yields(r)
    <3>1. Playing(o) /\ Playing(r) BY <1>1
    <3>2. QED BY <1>1, <3>1, Zenon DEF OneMaster, Yields
  <2>2. QED BY <1>1, <2>1
<1>2. QED BY <1>1, Zenon DEF OneMaster, Yields

\* Who was not in play is not now, and who was to be recovered still is.
LEMMA KeepsMaster ==
  ASSUME TypeOK, OneMaster, NEW l \in Lobby, NEW q,
         player' = [player EXCEPT ![l] = q], UNCHANGED <<told, kicks>>, missed \ {l} \subseteq missed',
         q.state = "playing" =>
           player[l].state = "playing" /\ q.need = player[l].need /\ missed' = missed
  PROVE  OneMaster'
<1>1. ASSUME NEW o \in Lobby PROVE player'[o] = IF o = l THEN q ELSE player[o]
  BY DEF TypeOK
<1>2. ASSUME NEW o \in Lobby, Playing(o)' PROVE Playing(o) /\ (Yields(o) => Yields(o)')
  BY <1>1, <1>2 DEF Playing, Yields
<1>3. QED BY <1>2, YieldsOn

\* Every step keeps one master, or a notice under way, or missed.
LEMMA MasterStep == TypeOK /\ OneMaster /\ [Next]_vars => OneMaster'
<1> SUFFICES ASSUME TypeOK, OneMaster, [Next]_vars PROVE OneMaster'
  OBVIOUS
<1>a. ASSUME player' = player, UNCHANGED centerVars PROVE OneMaster'
  BY <1>a DEF OneMaster, Playing, centerVars
<1>b. ASSUME NEW l \in Lobby PROVE player[l] \in Players
  BY DEF TypeOK, Players
<1>1. ASSUME NEW c \in Conn, NEW l \in Lobby, Client(c, l) PROVE OneMaster'
  <2>1. CASE Disconnect(c, l)
    <3>1. CASE player' = player BY <1>a, <2>1, <3>1 DEF Disconnect
    <3>2. CASE player' = [player EXCEPT ![l].session = Nobody]
      <4> DEFINE q == [player[l] EXCEPT !.session = Nobody]
      <4>1. player' = [player EXCEPT ![l] = q] /\ UNCHANGED centerVars BY <2>1, <3>2 DEF Disconnect
      <4>2. q.state = player[l].state /\ q.need = player[l].need BY <1>b DEF Players
      <4> HIDE DEF q
      <4>3. QED BY <4>1, <4>2, KeepsMaster DEF centerVars
    <3>3. QED BY <2>1, <3>1, <3>2 DEF Disconnect
  <2>2. ASSUME NEW p, OnLogin(l, p), p \in Players, UNCHANGED <<told, kicks>>,
               missed \ {l} \subseteq missed'
        PROVE  OneMaster'
    <3> DEFINE q == [p EXCEPT !.state = "load", !.waited = "fresh"]
    <3>1. player' = [player EXCEPT ![l] = q] BY <2>2 DEF OnLogin
    <3>2. q.state # "playing" BY <2>2 DEF Players
    <3> HIDE DEF q
    <3>3. QED BY <2>2, <3>1, <3>2, KeepsMaster
  <2>3. CASE LoginNew(c, l)
    <3>1. [NoPlayer EXCEPT !.session = c] \in Players BY DEF Players, NoPlayer, Parts
    <3>2. QED BY <2>2, <2>3, <3>1 DEF LoginNew
  <2>4. CASE LoginRepeated(c, l) BY <1>b, <2>2, <2>4 DEF LoginRepeated, centerVars
  <2>5. CASE LoginOver(c, l)
    <3>1. [player[l] EXCEPT !.session = c] \in Players BY <1>b DEF Players
    <3>2. CASE player' = [player EXCEPT ![l].session = c]
      <4> DEFINE q == [player[l] EXCEPT !.session = c]
      <4>1. player' = [player EXCEPT ![l] = q] /\ UNCHANGED centerVars BY <2>5, <3>2 DEF LoginOver
      <4>2. q.state = player[l].state /\ q.need = player[l].need BY <1>b DEF Players
      <4> HIDE DEF q
      <4>3. QED BY <4>1, <4>2, KeepsMaster DEF centerVars
    <3>3. QED BY <2>2, <2>5, <3>1, <3>2 DEF LoginOver, centerVars
  <2>6. CASE LoginKills(c, l)
    <3>1. player' = [player EXCEPT ![l] = NoPlayer] /\ CloseCenter(l)
      BY <2>6, Zenon DEF LoginKills
    <3>2. ASSUME NEW o \in Lobby PROVE player'[o] = IF o = l THEN NoPlayer ELSE player[o]
      BY <3>1 DEF TypeOK
    <3>3. ASSUME NEW o \in Lobby, Playing(o)' PROVE Playing(o) /\ (Yields(o) => Yields(o)')
      <4>1. o # l BY <3>2, <3>3 DEF Playing, NoPlayer
      <4>2. told'[o] = told[o] /\ kicks'[o] = kicks[o] /\ missed \subseteq missed'
        BY <3>1, <4>1, NoticesLost
      <4>3. QED BY <3>2, <3>3, <4>1, <4>2 DEF Playing, Yields
    <3>4. QED BY <3>3, YieldsOn
  <2>7. ASSUME NEW k \in Kinds, ClientEnter(c, l, k) PROVE OneMaster'
    <3>1. EnterDone(l, player[l]) /\ UNCHANGED centerVars
      BY <1>b, <2>7, EnterGameSvrDone DEF ClientEnter
    <3>2. PICK v : player' = [player EXCEPT ![l] = [player[l] EXCEPT !.svr = v]]
      BY <3>1 DEF EnterDone
    <3> DEFINE q == [player[l] EXCEPT !.svr = v]
    <3>3. player' = [player EXCEPT ![l] = q] BY <3>2
    <3>4. q.state = player[l].state /\ q.need = player[l].need BY <1>b DEF Players
    <3> HIDE DEF q
    <3>5. QED BY <3>1, <3>3, <3>4, KeepsMaster DEF centerVars
  <2>8. CASE ClientBack(c, l) BY <1>a, <2>8 DEF ClientBack
  <2>9. QED BY <1>1, <2>1, <2>3, <2>4, <2>5, <2>6, <2>7, <2>8 DEF Client
<1>2. ASSUME NEW l \in Lobby, LobbyStep(l) PROVE OneMaster'
  <2>1. CASE LoadAnswered(l)
    <3>1. CASE player' = player /\ UNCHANGED centerVars BY <1>a, <3>1
    <3>2. ASSUME NEW r \in Players, Completed(l, r), r.state = "load" PROVE OneMaster'
      BY <3>2, KeepsMaster DEF Completed, centerVars
    <3>3. ASSUME NEW r \in Players, Completed(l, r), r.state = "playing" PROVE OneMaster'
      <4>1. kicks' = kicks /\ missed \subseteq missed' /\ (told'[l] > 0 \/ OthersMissed(l))
            /\ \A o \in Lobby : told[o] > 0 => told'[o] > 0
        BY <3>3, NoticeSent DEF Completed
      <4>2. PICK q : player' = [player EXCEPT ![l] = q]
        BY <3>3 DEF Completed, EnterDone
      <4>3. \A o \in Lobby : o # l => player'[o] = player[o] BY <4>2 DEF TypeOK
      <4>4. ASSUME NEW o \in Lobby, NEW r2 \in Lobby, o # r2, Playing(o)', Playing(r2)'
            PROVE  Yields(o)' \/ Yields(r2)'
        <5>1. CASE o = l \/ r2 = l BY <4>1, <4>3, <4>4, <5>1 DEF Yields, OthersMissed, Playing
        <5>2. CASE o # l /\ r2 # l
          <6>1. Yields(o) \/ Yields(r2)
            BY <4>3, <4>4, <5>2 DEF OneMaster, Yields, Playing
          <6>2. QED BY <4>1, <4>3, <5>2, <6>1 DEF Yields
        <5>3. QED BY <5>1, <5>2
      <4>5. QED BY <4>4, Zenon DEF OneMaster, Yields
    <3>4. QED BY <2>1, <3>1, <3>2, <3>3, LoadDone DEF Completed
  <2>2. CASE LoginNoticed(l) \/ PlatKill(l)
    <3>1. player' = (IF Exists(l) THEN [player EXCEPT ![l].need = TRUE] ELSE player)
          /\ UNCHANGED <<told, missed>>
      BY <2>2 DEF LoginNoticed, PlatKill, centerVars
    <3>2. \A o \in Lobby : o # l => kicks'[o] = kicks[o]
      BY <2>2 DEF LoginNoticed, PlatKill, centerVars, TypeOK
    <3>3. ASSUME NEW o \in Lobby
          PROVE  /\ Playing(o)' <=> Playing(o)
                 /\ Playing(l) => player'[l].need = TRUE
                 /\ o # l => player'[o] = player[o]
      BY <1>b, <3>1 DEF TypeOK, Players, Playing, Exists
    <3>4. ASSUME NEW o \in Lobby, Playing(o)' PROVE Playing(o) /\ (Yields(o) => Yields(o)')
      BY <3>1, <3>2, <3>3, <3>4 DEF Yields
    <3>5. QED BY <3>4, YieldsOn
  <2>3. CASE TimePasses(l)
    <3> DEFINE q == [player[l] EXCEPT !.waited = "old"]
    <3>1. player' = [player EXCEPT ![l] = q] /\ UNCHANGED centerVars BY <2>3 DEF TimePasses
    <3>2. q.state = player[l].state /\ q.need = player[l].need BY <1>b DEF Players
    <3> HIDE DEF q
    <3>3. QED BY <3>1, <3>2, KeepsMaster DEF centerVars
  <2>4. CASE OnTimer(l)
    <3>1. PICK q : /\ player' = [player EXCEPT ![l] = q]
                   /\ q = NoPlayer \/ (q.state = player[l].state /\ q.need = player[l].need)
      BY <2>4, TimerDone
    <3>2. UNCHANGED centerVars BY <2>4 DEF OnTimer
    <3>3. q.state = "playing" => player[l].state = "playing" /\ q.need = player[l].need
      BY <3>1 DEF NoPlayer
    <3>4. QED BY <3>1, <3>2, <3>3, KeepsMaster DEF centerVars
  <2>5. QED BY <1>2, <2>1, <2>2, <2>3, <2>4 DEF LobbyStep
<1>3. ASSUME NEW l \in Lobby, NEW g \in Game, GameStep(l, g) PROVE OneMaster'
  <2>1. CASE LeaveNoticed(l, g)
    <3>1. CASE player' = player BY <1>a, <2>1, <3>1 DEF LeaveNoticed
    <3>2. CASE player' = [player EXCEPT ![l].svr = Nobody]
      <4> DEFINE q == [player[l] EXCEPT !.svr = Nobody]
      <4>1. player' = [player EXCEPT ![l] = q] /\ UNCHANGED centerVars BY <2>1, <3>2 DEF LeaveNoticed
      <4>2. q.state = player[l].state /\ q.need = player[l].need BY <1>b DEF Players
      <4> HIDE DEF q
      <4>3. QED BY <4>1, <4>2, KeepsMaster DEF centerVars
    <3>3. QED BY <2>1, <3>1, <3>2 DEF LeaveNoticed
  <2>2. CASE ~LeaveNoticed(l, g)
    <3>1. player' = player /\ UNCHANGED centerVars
      BY <1>3, <2>2, Zenon DEF GameStep, EnterHandled, BackHandled, Break, Register
    <3>2. QED BY <1>a, <3>1
  <2>3. QED BY <2>1, <2>2
<1>4. ASSUME NEW g \in Game, GameRecovers(g) PROVE OneMaster'
  BY <1>4, <1>a, Zenon DEF GameRecovers
<1>5. ASSUME NEW l \in Lobby, CenterStep(l) PROVE OneMaster'
  <2>1. \A o \in Lobby : player'[o] = player[o] /\ (Playing(o)' <=> Playing(o))
    BY <1>5, CenterApart DEF Playing
  <2>2. CASE CenterPasses(l)
    <3>1. ASSUME NEW o \in Lobby, Yields(o)
          PROVE  Yields(o)' \/ \A r \in Lobby \ {o} : Playing(r)' => Yields(r)'
      BY <2>1, <2>2, <3>1, NoticePassed DEF Yields
    <3>2. QED BY <2>1, <3>1, YieldsOn
  <2>3. CASE CenterCloses(l)
    <3>1. ASSUME NEW o \in Lobby, Playing(o), Yields(o)
          PROVE  Yields(o)' \/ \A r \in Lobby \ {o} : Playing(r)' => Yields(r)'
      BY <2>1, <2>3, <3>1, NoticesLost DEF CenterCloses, Yields, OthersMissed
    <3>2. QED BY <2>1, <3>1, YieldsOn
  <2>4. CASE CenterMoves(l)
    <3>1. UNCHANGED <<player, told, kicks, missed>> BY <2>4 DEF CenterMoves
    <3>2. QED BY <3>1 DEF OneMaster, Playing
  <2>5. QED BY <1>5, <2>2, <2>3, <2>4 DEF CenterStep
<1>6. CASE UNCHANGED vars BY <1>a, <1>6 DEF vars
<1>7. QED BY <1>1, <1>2, <1>3, <1>4, <1>5, <1>6 DEF Next

--------------------------------------------------------------------------------
(* What a lobby knows of the game servers *)

\* Every step keeps game servers answering to the lobby that asked last.
LEMMA HomeStep == TypeOK /\ HomeAsked /\ [Next]_vars => HomeAsked'
<1> SUFFICES ASSUME TypeOK, HomeAsked, [Next]_vars PROVE HomeAsked'
  OBVIOUS
<1>a. ASSUME game' = game, asker' = asker PROVE HomeAsked'
  BY <1>a DEF HomeAsked
<1>b. ASSUME NEW g \in Game, RecoverPlayer(g), asker' = asker PROVE HomeAsked'
  <2>1. game' = [game EXCEPT ![g] = [on |-> FALSE, home |-> Nobody]] BY <1>b, Zenon DEF RecoverPlayer
  <2>2. \A h \in Game : game'[h].on => game'[h] = game[h] BY <2>1 DEF TypeOK
  <2>3. QED BY <1>b, <2>2 DEF HomeAsked
<1>1. ASSUME NEW c \in Conn, NEW l \in Lobby, Client(c, l) PROVE HomeAsked'
  BY <1>1, <1>a, Zenon
  DEF Client, Disconnect, LoginNew, LoginRepeated, LoginOver, LoginKills, ClientEnter, ClientBack
<1>2. ASSUME NEW l \in Lobby, LobbyStep(l) PROVE HomeAsked'
  BY <1>2, <1>a, Zenon DEF LobbyStep, LoadAnswered, LoginNoticed, PlatKill, TimePasses, OnTimer
<1>3. ASSUME NEW l \in Lobby, NEW g \in Game, GameStep(l, g) PROVE HomeAsked'
  <2>1. CASE EnterHandled(l, g)
    <3>1. game' = [game EXCEPT ![g] = [on |-> TRUE, home |-> l]]
          /\ asker' = [asker EXCEPT ![g] = l]
      BY <2>1, Zenon DEF EnterHandled
    <3>2. ASSUME NEW h \in Game, game'[h].on
          PROVE  game'[h].home = asker'[h] /\ asker'[h] # Nobody
      <4>1. CASE h = g BY <3>1, <4>1, Parameters DEF TypeOK
      <4>2. CASE h # g BY <3>1, <3>2, <4>2 DEF TypeOK, HomeAsked
      <4>3. QED BY <4>1, <4>2
    <3>3. QED BY <3>2 DEF HomeAsked
  <2>2. CASE BackHandled(l, g) BY <2>2, <1>a, <1>b, Zenon DEF BackHandled
  <2>3. CASE game' = game /\ asker' = asker BY <1>a, <2>3
  <2>4. QED BY <1>3, <2>1, <2>2, <2>3, Zenon DEF GameStep, LeaveNoticed, Break, Register
<1>4. ASSUME NEW g \in Game, GameRecovers(g) PROVE HomeAsked'
  BY <1>4, <1>b DEF GameRecovers
<1>5. ASSUME NEW l \in Lobby, CenterStep(l) PROVE HomeAsked'
  BY <1>5, <1>a, CenterApart
<1>6. CASE UNCHANGED vars BY <1>a, <1>6 DEF vars
<1>7. QED BY <1>1, <1>2, <1>3, <1>4, <1>5, <1>6 DEF Next

(* What the handlers of lobby l do to its player, as far as the game servers go. *)
Located(l) ==
  \E q \in Players :
    /\ player' = [player EXCEPT ![l] = q]
    /\ \/ q.svr \in {player[l].svr, Nobody}
       \/ q.svr \in servers[l] /\ Entering(l, q.svr)'
    /\ \A o \in Lobby, g \in Game : Entering(o, g) => Entering(o, g)'
    /\ UNCHANGED <<servers, game, leaves, asker>>

\* Entering a game server is a step of the shape Located describes.
LEMMA EnterLocated ==
  ASSUME TypeOK, NEW l \in Lobby, NEW p \in Players, EnterDone(l, p),
         UNCHANGED <<servers, game, leaves, asker>>
  PROVE  Located(l)
<1>1. PICK v \in Game \cup {Nobody} :
        /\ player' = [player EXCEPT ![l] = [p EXCEPT !.svr = v]]
        /\ v # Nobody => v \in servers[l] /\ Entering(l, v)'
  BY DEF EnterDone
<1> DEFINE q == [p EXCEPT !.svr = v]
<1>2. q \in Players /\ q.svr = v BY DEF Players
<1>3. player' = [player EXCEPT ![l] = q] BY <1>1
<1>4. \A o \in Lobby, g \in Game : Entering(o, g) => Entering(o, g)' BY DEF EnterDone
<1> HIDE DEF q
<1>5. QED BY <1>1, <1>2, <1>3, <1>4 DEF Located

\* So is every message of a client, unless it ends the lobby.
LEMMA ClientLocated ==
  ASSUME TypeOK, NEW c \in Conn, NEW l \in Lobby, Client(c, l), ~LoginKills(c, l)
  PROVE  Located(l)
<1>a. player[l] \in Players /\ player = [player EXCEPT ![l] = player[l]] BY DEF TypeOK, Players
<1>b. ASSUME toGame' = toGame PROVE \A o \in Lobby, g \in Game : Entering(o, g) => Entering(o, g)'
  BY <1>b DEF Entering
<1>c. ASSUME NEW p \in Players, OnLogin(l, p), p.svr \in {player[l].svr, Nobody}, toGame' = toGame,
             UNCHANGED <<servers, game, leaves, asker>>
      PROVE  Located(l)
  <2> DEFINE q == [p EXCEPT !.state = "load", !.waited = "fresh"]
  <2>1. q \in Players /\ q.svr = p.svr BY DEF Players
  <2>2. player' = [player EXCEPT ![l] = q] BY <1>c DEF OnLogin
  <2> HIDE DEF q
  <2>3. QED BY <1>b, <1>c, <2>1, <2>2 DEF Located
<1>1. CASE Disconnect(c, l) \/ LoginOver(c, l)
  <2>1. UNCHANGED <<servers, game, leaves, asker, toGame>> BY <1>1 DEF Disconnect, LoginOver
  <2>2. CASE player' = player BY <1>a, <1>b, <2>1, <2>2 DEF Located
  <2>3. ASSUME NEW s \in Conn \cup {Nobody}, player' = [player EXCEPT ![l].session = s] PROVE Located(l)
    <3> DEFINE q == [player[l] EXCEPT !.session = s]
    <3>1. q \in Players /\ q.svr = player[l].svr BY <1>a DEF Players
    <3>2. player' = [player EXCEPT ![l] = q] BY <2>3
    <3> HIDE DEF q
    <3>3. QED BY <1>b, <2>1, <3>1, <3>2 DEF Located
  <2>4. CASE OnLogin(l, [player[l] EXCEPT !.session = c])
    <3>1. [player[l] EXCEPT !.session = c] \in Players
          /\ [player[l] EXCEPT !.session = c].svr = player[l].svr
      BY <1>a DEF Players
    <3>2. QED BY <1>c, <2>1, <2>4, <3>1
  <2>5. QED BY <1>1, <2>2, <2>3, <2>4 DEF Disconnect, LoginOver
<1>2. CASE LoginNew(c, l)
  <2>1. [NoPlayer EXCEPT !.session = c] \in Players /\ [NoPlayer EXCEPT !.session = c].svr = Nobody
    BY DEF Players, NoPlayer, Parts
  <2>2. QED BY <1>2, <1>c, <2>1 DEF LoginNew
<1>3. CASE LoginRepeated(c, l) BY <1>a, <1>c, <1>3 DEF LoginRepeated
<1>4. ASSUME NEW k \in Kinds, ClientEnter(c, l, k) PROVE Located(l)
  <2>1. EnterDone(l, player[l]) BY <1>a, <1>4, EnterGameSvrDone DEF ClientEnter
  <2>2. QED BY <1>a, <1>4, <2>1, EnterLocated DEF ClientEnter
<1>5. CASE ClientBack(c, l)
  <2>1. player[l].svr \in Game /\ Send(l, player[l].svr, "back")
    BY <1>5 DEF ClientBack, TypeOK
  <2>2. \A o \in Lobby, g \in Game : Entering(o, g) => Entering(o, g)' BY <2>1, SendDone
  <2>3. player' = player /\ UNCHANGED <<servers, game, leaves, asker>> BY <1>5 DEF ClientBack
  <2>4. QED BY <1>a, <2>2, <2>3 DEF Located
<1>6. QED BY <1>1, <1>2, <1>3, <1>4, <1>5 DEF Client

\* So is every step of a lobby's own.
LEMMA LobbyLocated ==
  ASSUME TypeOK, NEW l \in Lobby, LobbyStep(l)
  PROVE  Located(l)
<1>a. player[l] \in Players /\ player = [player EXCEPT ![l] = player[l]] BY DEF TypeOK, Players
<1>b. ASSUME toGame' = toGame PROVE \A o \in Lobby, g \in Game : Entering(o, g) => Entering(o, g)'
  BY <1>b DEF Entering
<1>1. CASE LoadAnswered(l)
  <2>1. UNCHANGED <<servers, game, leaves, asker>> BY <1>1 DEF LoadAnswered
  <2>2. CASE player' = player /\ toGame' = toGame BY <1>a, <1>b, <2>1, <2>2 DEF Located
  <2>3. ASSUME NEW r \in Players, Completed(l, r) PROVE Located(l)
    <3>1. CASE r.svr = player[l].svr /\ player' = [player EXCEPT ![l] = r] /\ toGame' = toGame
      BY <1>b, <2>1, <3>1 DEF Located
    <3>2. CASE EnterDone(l, r) BY <2>1, <3>2, EnterLocated
    <3>3. QED BY <2>3, <3>1, <3>2 DEF Completed
  <2>4. QED BY <1>1, <2>2, <2>3, LoadDone
<1>2. CASE LoginNoticed(l) \/ PlatKill(l) \/ TimePasses(l)
  <2>1. UNCHANGED <<servers, game, leaves, asker, toGame>>
    BY <1>2 DEF LoginNoticed, PlatKill, TimePasses
  <2>2. CASE player' = player BY <1>a, <1>b, <2>1, <2>2 DEF Located
  <2>3. CASE player' = [player EXCEPT ![l].need = TRUE]
    <3> DEFINE q == [player[l] EXCEPT !.need = TRUE]
    <3>1. q \in Players /\ q.svr = player[l].svr BY <1>a DEF Players
    <3>2. player' = [player EXCEPT ![l] = q] BY <2>3
    <3> HIDE DEF q
    <3>3. QED BY <1>b, <2>1, <3>1, <3>2 DEF Located
  <2>4. CASE player' = [player EXCEPT ![l].waited = "old"]
    <3> DEFINE q == [player[l] EXCEPT !.waited = "old"]
    <3>1. q \in Players /\ q.svr = player[l].svr BY <1>a DEF Players
    <3>2. player' = [player EXCEPT ![l] = q] BY <2>4
    <3> HIDE DEF q
    <3>3. QED BY <1>b, <2>1, <3>1, <3>2 DEF Located
  <2>5. QED BY <1>2, <2>2, <2>3, <2>4 DEF LoginNoticed, PlatKill, TimePasses
<1>3. CASE OnTimer(l)
  <2>1. UNCHANGED <<servers, game, leaves, asker, toGame>> BY <1>3 DEF OnTimer
  <2>2. PICK q \in Players : /\ player' = [player EXCEPT ![l] = q]
                             /\ q = NoPlayer \/ q.svr = player[l].svr
    BY <1>3, TimerDone
  <2>3. q.svr \in {player[l].svr, Nobody} BY <2>2 DEF NoPlayer
  <2>4. QED BY <1>b, <2>1, <2>2, <2>3 DEF Located
<1>4. QED BY <1>1, <1>2, <1>3 DEF LobbyStep

\* LobbyKnows in terms of Entering.
LEMMA Knowing ==
  LobbyKnows <=> \A l \in Lobby, g \in Game :
    player[l].svr = g /\ asker[g] \in {l, Nobody} /\ <<l, g>> \notin Fragile =>
      game[g].on \/ leaves[<<l, g>>] > 0 \/ Entering(l, g)
BY DEF LobbyKnows, Entering

Known(l, g) == game[g].on \/ leaves[<<l, g>>] > 0 \/ Entering(l, g)

\* A step of that shape keeps what lobbies know of their player.
LEMMA LocatedKnows ==
  ASSUME TypeOK, SvrRegistered, LobbyKnows, NEW l \in Lobby, Located(l)
  PROVE  SvrRegistered' /\ LobbyKnows'
<1>1. PICK q \in Players :
        /\ player' = [player EXCEPT ![l] = q]
        /\ \/ q.svr \in {player[l].svr, Nobody}
           \/ q.svr \in servers[l] /\ Entering(l, q.svr)'
        /\ \A o \in Lobby, g \in Game : Entering(o, g) => Entering(o, g)'
        /\ UNCHANGED <<servers, game, leaves, asker>>
  BY DEF Located
<1>2. ASSUME NEW o \in Lobby PROVE player'[o] = IF o = l THEN q ELSE player[o]
  BY <1>1 DEF TypeOK
<1>3. ASSUME NEW o \in Lobby, NEW g \in Game, player'[o].svr = g
      PROVE  player[o].svr = g \/ (g \in servers[o] /\ Entering(o, g)')
  BY <1>1, <1>2, <1>3, Parameters
<1>4. SvrRegistered' BY <1>1, <1>3 DEF SvrRegistered
<1>5. ASSUME NEW o \in Lobby, NEW g \in Game, player'[o].svr = g, asker'[g] \in {o, Nobody},
             <<o, g>> \notin Fragile
      PROVE  Known(o, g)'
  BY <1>1, <1>3, <1>5, Knowing DEF Known
<1>6. LobbyKnows'
  BY <1>5, Knowing DEF Known, LobbyKnows, Entering
<1>7. QED BY <1>4, <1>6

\* A notice is added, if there is a link, and none is lost.
LEMMA NotifyDone ==
  ASSUME TypeOK, NEW l \in Lobby, NEW g \in Game, Notify(l, g) \/ leaves' = leaves
  PROVE  /\ \A o \in Lobby, h \in Game : leaves[<<o, h>>] > 0 => leaves'[<<o, h>>] > 0
         /\ Notify(l, g) /\ g \in servers[l] => leaves'[<<l, g>>] > 0
<1>1. leaves \in [Lobby \X Game -> Nat] BY DEF TypeOK
<1>2. CASE leaves' = leaves /\ ~(Notify(l, g) /\ g \in servers[l]) BY <1>2
<1>3. CASE leaves' = [leaves EXCEPT ![<<l, g>>] = @ + 1]
  <2>1. ASSUME NEW o \in Lobby, NEW h \in Game
        PROVE  leaves'[<<o, h>>] = IF o = l /\ h = g THEN leaves[<<o, h>>] + 1
                                                     ELSE leaves[<<o, h>>]
    BY <1>1, <1>3
  <2>2. \A o \in Lobby, h \in Game : leaves[<<o, h>>] \in Nat BY <1>1
  <2>3. QED BY <2>1, <2>2
<1>4. QED BY <1>2, <1>3 DEF Notify

\* A game server that lets the player go tells the lobby that asked last.
LEMMA RecoverKnows ==
  ASSUME TypeOK, HomeAsked, SvrRegistered, LobbyKnows, NEW g \in Game, game[g].on, RecoverPlayer(g),
         \A o \in Lobby, h \in Game : Entering(o, h) => Entering(o, h)',
         UNCHANGED <<player, servers, asker>>
  PROVE  SvrRegistered' /\ LobbyKnows'
<1> DEFINE home == game[g].home
<1>1. home = asker[g] /\ home \in Lobby BY DEF HomeAsked, TypeOK
<1> HIDE DEF home
<1>2. Notify(home, g) /\ game' = [game EXCEPT ![g] = [on |-> FALSE, home |-> Nobody]]
  BY Zenon DEF RecoverPlayer, home
<1>3. /\ \A o \in Lobby, h \in Game : leaves[<<o, h>>] > 0 => leaves'[<<o, h>>] > 0
      /\ g \in servers[home] => leaves'[<<home, g>>] > 0
      /\ \A h \in Game : h # g => game'[h] = game[h]
  BY <1>1, <1>2, NotifyDone DEF TypeOK
<1>4. SvrRegistered' BY DEF SvrRegistered
<1>5. ASSUME NEW o \in Lobby, NEW h \in Game, player[o].svr = h, asker[h] \in {o, Nobody},
             <<o, h>> \notin Fragile
      PROVE  Known(o, h)'
  <2>1. CASE h = g
    <3>1. o = home BY <1>1, <1>5, <2>1, Parameters
    <3>2. g \in servers[home] BY <1>5, <2>1, <3>1 DEF SvrRegistered
    <3>3. QED BY <1>3, <2>1, <3>1, <3>2 DEF Known
  <2>2. CASE h # g
    <3>1. Known(o, h) BY <1>5, Knowing DEF Known
    <3>2. QED BY <1>3, <2>2, <3>1, Zenon DEF Known
  <2>3. QED BY <2>1, <2>2
<1>6. LobbyKnows' BY <1>5 DEF Known, LobbyKnows, Entering
<1>7. QED BY <1>4, <1>6

\* Every step keeps what lobbies know of their player.
LEMMA KnowsStep ==
  TypeOK /\ Absent /\ HomeAsked /\ SvrRegistered /\ LobbyKnows /\ [Next]_vars
    => SvrRegistered' /\ LobbyKnows'
<1> SUFFICES ASSUME TypeOK, Absent, HomeAsked, SvrRegistered, LobbyKnows, [Next]_vars
             PROVE  SvrRegistered' /\ LobbyKnows'
  OBVIOUS
<1>a. ASSUME UNCHANGED <<player, asker, game, leaves, toGame>>,
             \A l \in Lobby, g \in Game :
               g \in servers[l] /\ <<l, g>> \notin Fragile => g \in servers'[l]
      PROVE  SvrRegistered' /\ LobbyKnows'
  BY <1>a DEF SvrRegistered, LobbyKnows
<1>b. ASSUME NEW o \in Lobby, NEW h \in Game, player[o].svr = h, asker[h] \in {o, Nobody},
             <<o, h>> \notin Fragile
      PROVE  Known(o, h)
  BY <1>b, Knowing DEF Known
<1>1. ASSUME NEW c \in Conn, NEW l \in Lobby, Client(c, l) PROVE SvrRegistered' /\ LobbyKnows'
  <2>1. CASE LoginKills(c, l)
    <3>1. /\ player' = [player EXCEPT ![l] = NoPlayer] /\ servers' = [servers EXCEPT ![l] = {}]
          /\ game' = game /\ asker' = asker
      BY <2>1 DEF LoginKills
    <3>2. PICK lost \in SUBSET Game :
            toGame' = [e \in Lobby \X Game |-> IF e[1] = l /\ e[2] \in lost THEN <<>> ELSE toGame[e]]
      BY <2>1 DEF LoginKills
    <3>3. leaves' = [e \in Lobby \X Game |-> IF e[1] = l THEN 0 ELSE leaves[e]]
      BY <2>1 DEF LoginKills
    <3>4. ASSUME NEW o \in Lobby, o # l, NEW h \in Game
          PROVE  /\ player'[o] = player[o] /\ servers'[o] = servers[o]
                 /\ toGame'[<<o, h>>] = toGame[<<o, h>>] /\ leaves'[<<o, h>>] = leaves[<<o, h>>]
      <4>1. player'[o] = player[o] /\ servers'[o] = servers[o] BY <3>1, <3>4 DEF TypeOK
      <4>2. toGame'[<<o, h>>] = toGame[<<o, h>>] BY <3>2, <3>4
      <4>3. leaves'[<<o, h>>] = leaves[<<o, h>>] BY <3>3, <3>4
      <4>4. QED BY <4>1, <4>2, <4>3
    <3>5. player'[l].svr = Nobody BY <3>1 DEF TypeOK, NoPlayer
    <3>6. SvrRegistered' BY <3>4, <3>5, Parameters DEF SvrRegistered
    <3>7. ASSUME NEW o \in Lobby, NEW h \in Game, player'[o].svr = h, asker'[h] \in {o, Nobody},
                 <<o, h>> \notin Fragile
          PROVE  Known(o, h)'
      <4>1. o # l BY <3>5, <3>7, Parameters
      <4>2. Known(o, h) BY <1>b, <3>1, <3>4, <3>7, <4>1
      <4>3. QED BY <3>1, <3>4, <4>1, <4>2 DEF Known, Entering
    <3>8. LobbyKnows' BY <3>7 DEF Known, LobbyKnows, Entering
    <3>9. QED BY <3>6, <3>8
  <2>2. CASE ~LoginKills(c, l) BY <1>1, <2>2, ClientLocated, LocatedKnows
  <2>3. QED BY <2>1, <2>2
<1>2. ASSUME NEW l \in Lobby, LobbyStep(l) PROVE SvrRegistered' /\ LobbyKnows'
  BY <1>2, LobbyLocated, LocatedKnows
<1>3. ASSUME NEW l \in Lobby, NEW g \in Game, GameStep(l, g) PROVE SvrRegistered' /\ LobbyKnows'
  <2>1. CASE EnterHandled(l, g)
    <3>1. /\ game' = [game EXCEPT ![g] = [on |-> TRUE, home |-> l]]
          /\ asker' = [asker EXCEPT ![g] = l] /\ toGame' = [toGame EXCEPT ![<<l, g>>] = Tail(@)]
          /\ UNCHANGED <<player, servers, leaves>>
      BY <2>1, Zenon DEF EnterHandled
    <3>2. SvrRegistered' BY <3>1 DEF SvrRegistered
    <3>3. game'[g].on /\ asker'[g] = l BY <3>1 DEF TypeOK
    <3>4. ASSUME NEW o \in Lobby, NEW h \in Game, player'[o].svr = h, asker'[h] \in {o, Nobody},
                 <<o, h>> \notin Fragile
          PROVE  Known(o, h)'
      <4>1. CASE h = g BY <3>3, <4>1 DEF Known
      <4>2. CASE h # g
        <5>1. game'[h] = game[h] /\ asker'[h] = asker[h] /\ toGame'[<<o, h>>] = toGame[<<o, h>>]
          BY <3>1, <4>2 DEF TypeOK
        <5>2. Known(o, h) BY <1>b, <3>1, <3>4, <5>1
        <5>3. QED BY <3>1, <5>1, <5>2 DEF Known, Entering
      <4>3. QED BY <4>1, <4>2
    <3>5. LobbyKnows' BY <3>4 DEF Known, LobbyKnows, Entering
    <3>6. QED BY <3>2, <3>5
  <2>2. CASE BackHandled(l, g)
    <3>1. /\ toGame[<<l, g>>] # <<>> /\ Head(toGame[<<l, g>>]) = "back"
          /\ toGame' = [toGame EXCEPT ![<<l, g>>] = Tail(@)]
          /\ UNCHANGED <<player, servers, asker>>
      BY <2>2, Zenon DEF BackHandled
    <3>2. toGame[<<l, g>>] \in Seq({"enter", "back"}) BY DEF TypeOK
    <3>3. ASSUME NEW o \in Lobby, NEW h \in Game, Entering(o, h) PROVE Entering(o, h)'
      <4>1. CASE o = l /\ h = g
        <5>1. \E i \in DOMAIN toGame[<<l, g>>] : toGame[<<l, g>>][i] = "enter"
          BY <3>3, <4>1 DEF Entering
        <5>2. \E i \in DOMAIN Tail(toGame[<<l, g>>]) : Tail(toGame[<<l, g>>])[i] = "enter"
          BY <3>1, <3>2, <5>1, TailEnter
        <5>3. toGame'[<<l, g>>] = Tail(toGame[<<l, g>>]) BY <3>1 DEF TypeOK
        <5>4. QED BY <4>1, <5>2, <5>3 DEF Entering
      <4>2. CASE ~(o = l /\ h = g)
        <5>1. toGame'[<<o, h>>] = toGame[<<o, h>>] BY <3>1, <4>2 DEF TypeOK
        <5>2. QED BY <3>3, <5>1 DEF Entering
      <4>3. QED BY <4>1, <4>2
    <3>4. CASE game[g].on /\ RecoverPlayer(g) BY <3>1, <3>3, <3>4, RecoverKnows
    <3>5. CASE game' = game /\ (Notify(l, g) \/ leaves' = leaves)
      <4>1. \A o \in Lobby, h \in Game : leaves[<<o, h>>] > 0 => leaves'[<<o, h>>] > 0
        BY <3>5, NotifyDone
      <4>2. SvrRegistered' BY <3>1 DEF SvrRegistered
      <4>3. ASSUME NEW o \in Lobby, NEW h \in Game, player'[o].svr = h, asker'[h] \in {o, Nobody},
                   <<o, h>> \notin Fragile
            PROVE  Known(o, h)'
        <5>1. Known(o, h) BY <1>b, <3>1, <4>3
        <5>2. QED BY <3>3, <3>5, <4>1, <5>1, Zenon DEF Known
      <4>4. LobbyKnows' BY <4>3 DEF Known, LobbyKnows, Entering
      <4>5. QED BY <4>2, <4>4
    <3>6. QED BY <2>2, <3>4, <3>5, Zenon DEF BackHandled
  <2>3. CASE LeaveNoticed(l, g)
    <3>1. /\ leaves' = [leaves EXCEPT ![<<l, g>>] = @ - 1]
          /\ UNCHANGED <<servers, game, toGame, asker>>
          /\ player' = IF Exists(l) THEN [player EXCEPT ![l].svr = Nobody] ELSE player
      BY <2>3 DEF LeaveNoticed
    <3>2. player[l] \in Players /\ (~Exists(l) => player[l].svr = Nobody)
      BY DEF TypeOK, Players, Absent, NoPlayer
    <3>3. player'[l].svr = Nobody /\ \A o \in Lobby : o # l => player'[o] = player[o]
      BY <3>1, <3>2 DEF TypeOK, Players
    <3>4. SvrRegistered' BY <3>1, <3>3, Parameters DEF SvrRegistered
    <3>5. ASSUME NEW o \in Lobby, NEW h \in Game, player'[o].svr = h, asker'[h] \in {o, Nobody},
                 <<o, h>> \notin Fragile
          PROVE  Known(o, h)'
      <4>1. o # l BY <3>3, <3>5, Parameters
      <4>2. leaves'[<<o, h>>] = leaves[<<o, h>>] BY <3>1, <4>1 DEF TypeOK
      <4>3. Known(o, h) BY <1>b, <3>1, <3>3, <3>5, <4>1
      <4>4. QED BY <3>1, <4>2, <4>3 DEF Known, Entering
    <3>6. LobbyKnows' BY <3>5 DEF Known, LobbyKnows, Entering
    <3>7. QED BY <3>4, <3>6
  <2>4. CASE Break(l, g)
    <3>1. /\ <<l, g>> \in Fragile /\ servers' = [servers EXCEPT ![l] = @ \ {g}]
          /\ leaves' = [leaves EXCEPT ![<<l, g>>] = 0]
          /\ toGame' \in {toGame, [toGame EXCEPT ![<<l, g>>] = <<>>]}
          /\ UNCHANGED <<player, game, asker>>
      BY <2>4 DEF Break
    <3>2. ASSUME NEW o \in Lobby, NEW h \in Game, <<o, h>> \notin Fragile
          PROVE  /\ leaves'[<<o, h>>] = leaves[<<o, h>>] /\ toGame'[<<o, h>>] = toGame[<<o, h>>]
                 /\ h \in servers[o] => h \in servers'[o]
      <4>1. ~(o = l /\ h = g) BY <3>1, <3>2
      <4>2. QED BY <3>1, <4>1 DEF TypeOK
    <3>3. SvrRegistered' BY <3>1, <3>2 DEF SvrRegistered
    <3>4. ASSUME NEW o \in Lobby, NEW h \in Game, player'[o].svr = h, asker'[h] \in {o, Nobody},
                 <<o, h>> \notin Fragile
          PROVE  Known(o, h)'
      <4>1. Known(o, h) BY <1>b, <3>1, <3>4
      <4>2. QED BY <3>1, <3>2, <3>4, <4>1 DEF Known, Entering
    <3>5. LobbyKnows' BY <3>4 DEF Known, LobbyKnows, Entering
    <3>6. QED BY <3>3, <3>5
  <2>5. CASE Register(l, g)
    <3>1. servers' = [servers EXCEPT ![l] = @ \cup {g}]
          /\ UNCHANGED <<player, asker, game, leaves, toGame>>
      BY <2>5 DEF Register
    <3>2. \A o \in Lobby, h \in Game : h \in servers[o] => h \in servers'[o] BY <3>1 DEF TypeOK
    <3>3. QED BY <1>a, <3>1, <3>2
  <2>6. QED BY <1>3, <2>1, <2>2, <2>3, <2>4, <2>5 DEF GameStep
<1>4. ASSUME NEW g \in Game, GameRecovers(g) PROVE SvrRegistered' /\ LobbyKnows'
  <2>1. game[g].on /\ RecoverPlayer(g) /\ UNCHANGED <<player, servers, asker, toGame>>
    BY <1>4 DEF GameRecovers
  <2>2. \A o \in Lobby, h \in Game : Entering(o, h) => Entering(o, h)' BY <2>1 DEF Entering
  <2>3. QED BY <2>1, <2>2, RecoverKnows
<1>5. ASSUME NEW l \in Lobby, CenterStep(l) PROVE SvrRegistered' /\ LobbyKnows'
  BY <1>5, <1>a, CenterApart
<1>6. CASE UNCHANGED vars BY <1>a, <1>6 DEF vars
<1>7. QED BY <1>1, <1>2, <1>3, <1>4, <1>5, <1>6 DEF Next

--------------------------------------------------------------------------------
(* The theorems *)

\* The conjunction of the invariants holds in every reachable state, whichever links to game
\* servers or to the center break, and whichever notices and messages are lost with them.
THEOREM SessionInvariant == Spec => []IInv
<1>1. IInv /\ [Next]_vars => IInv'
  BY TypeStep, SessionStep, GsidStep, MasterStep, HomeStep, KnowsStep DEF IInv
<1>2. QED BY InitInv, <1>1, PTL DEF Spec

\* TypeOK: every part of a session keeps its type, and no database owes a lobby less than nothing.
THEOREM SessionTypeCorrect == Spec => []TypeOK
<1>1. IInv => TypeOK BY DEF IInv
<1>2. QED BY <1>1, SessionInvariant, PTL

\* OneMaster: of two lobbies that have the account in play, one is to let it go, or a notice is
\* under way, or one missed a notice that got lost on its way through the center.
THEOREM OneLobbyKeeps == Spec => []OneMaster
<1>1. IInv => OneMaster BY DEF IInv
<1>2. QED BY <1>1, SessionInvariant, PTL

\* LobbyKnows: what a lobby believes of the game servers whose links hold is true or about to be.
THEOREM LobbiesKnow == Spec => []LobbyKnows
<1>1. IInv => LobbyKnows BY DEF IInv
<1>2. QED BY <1>1, SessionInvariant, PTL

\* SessionBound: a player's session bears his uid, whatever closes, and in what order.
THEOREM SessionsAreBound == Spec => []SessionBound
<1>1. IInv => SessionBound BY DEF IInv
<1>2. QED BY <1>1, SessionInvariant, PTL

\* GsidNotStale: the gsid in redis names a server that has the player, while game servers live.
THEOREM GsidLeadsBack == Spec => []GsidNotStale
<1>1. IInv => GsidNotStale BY DEF IInv
<1>2. QED BY <1>1, SessionInvariant, PTL
================================================================================
