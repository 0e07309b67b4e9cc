----------------------------- MODULE GameRoom_proofs -----------------------------
(***************************************************************************)
(* The five places a player is kept in agree after every handler and every *)
(* timer, whatever the clients do: the operators the handlers are composed *)
(* of keep sound places sound, one lemma for each.  Where nobody stands up *)
(* the chairs are in order too, and keep their players while they play.    *)
(***************************************************************************)
EXTENDS GameRoom, FiniteSetTheorems, SequenceTheorems, WellFoundedInduction, TLAPS

SeatSet == [player : Player \cup {None, Gone}, ready : BOOLEAN, play : BOOLEAN]
Nums == [Room -> Nat]
PlaceSet ==
  [room : [Player -> Room \cup {None}], table : [Player -> Table \cup {None}],
   waiting : [Room -> [Player -> (0..MaxTables) \cup {None}]], num : Nums,
   seat : [Table -> [Seat -> SeatSet]], lookers : [Table -> SUBSET Player]]

Members(rooms, r) == {p \in Player : rooms[p] = r}
Counted(num, rooms) == \A r \in Room : num[r] = Cardinality(Members(rooms, r))
Counts(s) == Counted(s.num, s.room)

WaitsWell(s, p) ==
  \A r \in Room : s.waiting[r][p] # None => r \in MarryRoom /\ s.room[p] = r /\ s.table[p] = None

Knows(s) ==
  \A p \in Player : s.table[p] # None =>
    p \in Seated(s, s.table[p]) \/ p \in s.lookers[s.table[p]]

\* Nobody is at a table that is not in use, and nothing of a table that is not is taken.
Used(t) == TableID(t) \in tables[HostRoom(t)]
AtUsedTables(s) == \A p \in Player : s.table[p] # None => Used(s.table[p])
UnusedEmpty(s) == \A t \in Table : ~Used(t) => Seated(s, t) = {} /\ s.lookers[t] = {}

Placed(s) == s \in PlaceSet /\ Counts(s) /\ Knows(s) /\ AtUsedTables(s) /\ UnusedEmpty(s)
Sound(s) == Placed(s) /\ \A p \in Player : WaitsWell(s, p)

\* The number of a free table is used once, and by no table in use.
FreeWell ==
  \A r \in Room :
    /\ \A m, n \in DOMAIN freeTable[r] : m # n => freeTable[r][m] # freeTable[r][n]
    /\ \A n \in DOMAIN freeTable[r] : freeTable[r][n] \notin tables[r]

\* The loop of MarryTable stands at a player who waits, and its table is one of the room's.
Marries ==
  marrying # None =>
    /\ marrying.room \in MarryRoom
    /\ marrying.made # None => HostRoom(marrying.made) = marrying.room /\ Used(marrying.made)
    /\ marrying.player # None => waiting[marrying.room][marrying.player] # None

--------------------------------------------------------------------------------
(* Numbers and choices.                                                    *)

\* A set of numbers that is not empty has a least one.
LEMMA LeastNumber ==
  ASSUME NEW S \in SUBSET Nat, S # {} PROVE \E i \in S : \A j \in S : i <= j
<1>1. PICK m \in S : \A k \in S : <<k, m>> \notin OpToRel(<, Nat)
  BY NatLessThanWellFounded, WFMin, Zenon
<1>2. \A k \in S : ~ (k < m) BY <1>1, Zenon DEF OpToRel
<1>3. \A k \in S : m <= k BY <1>2
<1>4. QED BY <1>3

\* The first of some seats is one of them.
LEMMA FirstIn == ASSUME NEW S \in SUBSET Seat, S # {} PROVE First(S) \in S
<1>1. \E i \in S : \A j \in S : i <= j BY LeastNumber DEF Seat
<1>2. QED BY <1>1 DEF First

\* A table is known by its room and its number, and no table is none.
LEMMA TableParts ==
  /\ \A t \in Table : HostRoom(t) \in Room /\ TableID(t) \in 1..MaxTables /\ t = <<HostRoom(t), TableID(t)>>
  /\ \A r \in Room, n \in 1..MaxTables :
       <<r, n>> \in Table /\ HostRoom(<<r, n>>) = r /\ TableID(<<r, n>>) = n
  /\ None \notin Table
BY RoomAssumption DEF Table, HostRoom, TableID

\* There are finitely many chairs at a table, and so in any part of them.
LEMMA SeatNumbers ==
  /\ IsFiniteSet(Seat) /\ Cardinality(Seat) = SeatNum
  /\ \A S \in SUBSET Seat : IsFiniteSet(S) /\ Cardinality(S) \in 0..SeatNum
<1>1. IsFiniteSet(Seat) /\ Cardinality(Seat) = SeatNum
  BY RoomAssumption, FS_Interval DEF Seat
<1>2. ASSUME NEW S \in SUBSET Seat PROVE IsFiniteSet(S) /\ Cardinality(S) \in 0..SeatNum
  <2>1. IsFiniteSet(S) /\ Cardinality(S) <= SeatNum BY <1>1, FS_Subset
  <2>2. Cardinality(S) \in Nat BY <2>1, FS_CardinalityType
  <2>3. QED BY <2>1, <2>2, RoomAssumption
<1>3. QED BY <1>1, <1>2

\* Among the tables a player can join there is a preferred one.
LEMMA PreferredExists ==
  ASSUME NEW s \in PlaceSet, NEW open \in SUBSET Table, open # {}
  PROVE  \E a \in open : \A b \in open : Preferred(s, a, b)
<1> DEFINE notReady(t) == SeatNum - ReadyNum(s, t)
           empty(t)    == SeatNum - NumPlayers(s, t)
<1>1. \A t \in Table : ReadyNum(s, t) \in 0..SeatNum /\ NumPlayers(s, t) \in 0..SeatNum
  <2> SUFFICES ASSUME NEW t \in Table
               PROVE  ReadyNum(s, t) \in 0..SeatNum /\ NumPlayers(s, t) \in 0..SeatNum
    OBVIOUS
  <2>1. {i \in Seat : s.seat[t][i].player # None /\ s.seat[t][i].ready} \in SUBSET Seat
        /\ EmptySeats(s, t) \in SUBSET Seat
    BY DEF EmptySeats, SeatsOf
  <2>2. Cardinality(EmptySeats(s, t)) \in 0..SeatNum BY <2>1, SeatNumbers
  <2>3. QED BY <2>1, <2>2, SeatNumbers, RoomAssumption DEF ReadyNum, NumPlayers
<1>2. \A t \in Table : notReady(t) \in Nat /\ empty(t) \in Nat /\ TableID(t) \in Nat
  BY <1>1, RoomAssumption, TableParts
<1>3. PICK k \in {notReady(t) : t \in open} : \A j \in {notReady(t) : t \in open} : k <= j
  <2>1. {notReady(t) : t \in open} \in SUBSET Nat /\ {notReady(t) : t \in open} # {} BY <1>2
  <2>2. QED BY <2>1, LeastNumber
<1> DEFINE ready == {t \in open : notReady(t) = k}
<1>4. PICK m \in {empty(t) : t \in ready} : \A j \in {empty(t) : t \in ready} : m <= j
  <2>1. {empty(t) : t \in ready} \in SUBSET Nat /\ {empty(t) : t \in ready} # {} BY <1>2, <1>3
  <2>2. QED BY <2>1, LeastNumber
<1> DEFINE full == {t \in ready : empty(t) = m}
<1>5. PICK n \in {TableID(t) : t \in full} : \A j \in {TableID(t) : t \in full} : n <= j
  <2>1. {TableID(t) : t \in full} \in SUBSET Nat /\ {TableID(t) : t \in full} # {} BY <1>2, <1>4
  <2>2. QED BY <2>1, LeastNumber
<1>6. PICK a \in full : TableID(a) = n BY <1>5
<1>7. ASSUME NEW b \in open PROVE Preferred(s, a, b)
  <2>1. notReady(a) = k /\ k <= notReady(b) BY <1>3, <1>6
  <2>2. b \in ready => empty(a) = m /\ m <= empty(b) BY <1>4, <1>6
  <2>3. b \in full => TableID(a) <= TableID(b) BY <1>5, <1>6
  <2>4. a \in Table /\ b \in Table BY <1>6
  <2>5. /\ ReadyNum(s, a) \in 0..SeatNum /\ NumPlayers(s, a) \in 0..SeatNum
        /\ ReadyNum(s, b) \in 0..SeatNum /\ NumPlayers(s, b) \in 0..SeatNum
    BY <1>1, <2>4
  <2>6. CASE notReady(b) = k BY <2>1, <2>2, <2>3, <2>5, <2>6, RoomAssumption DEF Preferred
  <2>7. CASE notReady(b) # k BY <2>1, <2>5, <2>7, RoomAssumption DEF Preferred
  <2>8. QED BY <2>6, <2>7
<1>8. QED BY <1>6, <1>7

\* Who sits at a table.
LEMMA SeatedIs ==
  ASSUME NEW s, NEW t
  PROVE  \A p : p \in Seated(s, t) <=> p # None /\ \E i \in Seat : s.seat[t][i].player = p
BY DEF Seated

--------------------------------------------------------------------------------
(* Seats and the pointers to tables.                                       *)

\* The parts of a place.
LEMMA PlaceParts ==
  ASSUME NEW s \in PlaceSet
  PROVE  /\ s = [room |-> s.room, table |-> s.table, waiting |-> s.waiting, num |-> s.num,
                 seat |-> s.seat, lookers |-> s.lookers]
         /\ s.room \in [Player -> Room \cup {None}] /\ s.table \in [Player -> Table \cup {None}]
         /\ s.waiting \in [Room -> [Player -> (0..MaxTables) \cup {None}]] /\ s.num \in Nums
         /\ s.seat \in [Table -> [Seat -> SeatSet]] /\ s.lookers \in [Table -> SUBSET Player]
BY DEF PlaceSet

\* Places with one part changed are places, and the other parts are as before.
LEMMA SetRoom ==
  ASSUME NEW s \in PlaceSet, NEW x \in [Player -> Room \cup {None}],
         NEW u, u = [s EXCEPT !.room = x]
  PROVE  /\ u \in PlaceSet /\ u.room = x
         /\ u.table = s.table /\ u.waiting = s.waiting /\ u.num = s.num /\ u.seat = s.seat /\ u.lookers = s.lookers
BY DEF PlaceSet

\* Changing the table pointers leaves the other places alone; so do the four changes below.
LEMMA SetTable ==
  ASSUME NEW s \in PlaceSet, NEW x \in [Player -> Table \cup {None}],
         NEW u, u = [s EXCEPT !.table = x]
  PROVE  /\ u \in PlaceSet /\ u.table = x
         /\ u.room = s.room /\ u.waiting = s.waiting /\ u.num = s.num /\ u.seat = s.seat /\ u.lookers = s.lookers
BY DEF PlaceSet

\* Changing the waiting lists leaves the other places alone.
LEMMA SetWaiting ==
  ASSUME NEW s \in PlaceSet, NEW x \in [Room -> [Player -> (0..MaxTables) \cup {None}]],
         NEW u, u = [s EXCEPT !.waiting = x]
  PROVE  /\ u \in PlaceSet /\ u.waiting = x
         /\ u.room = s.room /\ u.table = s.table /\ u.num = s.num /\ u.seat = s.seat /\ u.lookers = s.lookers
BY DEF PlaceSet

\* Changing the counts leaves the other places alone.
LEMMA SetNum ==
  ASSUME NEW s \in PlaceSet, NEW x \in Nums,
         NEW u, u = [s EXCEPT !.num = x]
  PROVE  /\ u \in PlaceSet /\ u.num = x
         /\ u.room = s.room /\ u.table = s.table /\ u.waiting = s.waiting /\ u.seat = s.seat /\ u.lookers = s.lookers
BY DEF PlaceSet

\* Changing the chairs leaves the other places alone.
LEMMA SetSeat ==
  ASSUME NEW s \in PlaceSet, NEW x \in [Table -> [Seat -> SeatSet]],
         NEW u, u = [s EXCEPT !.seat = x]
  PROVE  /\ u \in PlaceSet /\ u.seat = x
         /\ u.room = s.room /\ u.table = s.table /\ u.waiting = s.waiting /\ u.num = s.num /\ u.lookers = s.lookers
BY DEF PlaceSet

\* Changing the lookers leaves the other places alone.
LEMMA SetLookers ==
  ASSUME NEW s \in PlaceSet, NEW x \in [Table -> SUBSET Player],
         NEW u, u = [s EXCEPT !.lookers = x]
  PROVE  /\ u \in PlaceSet /\ u.lookers = x
         /\ u.room = s.room /\ u.table = s.table /\ u.waiting = s.waiting /\ u.num = s.num /\ u.seat = s.seat
BY DEF PlaceSet

\* What LeaveTable does to the places.
LEMMA LeaveTableDoes ==
  ASSUME NEW s \in PlaceSet, NEW t \in Table, NEW who, NEW u, u = LeaveTable(s, t, who)
  PROVE  /\ u \in PlaceSet /\ u.room = s.room /\ u.waiting = s.waiting
         /\ u.num = s.num /\ u.lookers = s.lookers /\ (Counts(s) => Counts(u))
         /\ \A p \in Player : u.table[p] = IF p \in who /\ CanClear(s, t, p) THEN None ELSE s.table[p]
         /\ \A x \in Table \ {t} : u.seat[x] = s.seat[x]
         /\ \A i \in Seat : LET p == s.seat[t][i].player
                            IN  u.seat[t][i] = s.seat[t][i] \/
                                (u.seat[t][i] = EmptySeat /\ p \in who /\ CanClear(s, t, p))
<1> DEFINE leaves(p) == p \in who /\ CanClear(s, t, p)
           f == [p \in Player |-> IF leaves(p) THEN None ELSE s.table[p]]
           h == [i \in Seat |->
                  LET p == s.seat[t][i].player
                  IN  IF p \in who /\ leaves(p) /\ i = First(SeatsOf(s, t, p))
                      THEN EmptySeat ELSE s.seat[t][i]]
           g == [s.seat EXCEPT ![t] = h]
<1>1. u = [s EXCEPT !.table = f, !.seat[t] = h] BY DEF LeaveTable
<1>2. EmptySeat \in SeatSet BY DEF EmptySeat, SeatSet
<1>3. f \in [Player -> Table \cup {None}] BY PlaceParts
<1>4. h \in [Seat -> SeatSet] BY <1>2, PlaceParts
<1>5. g \in [Table -> [Seat -> SeatSet]] BY <1>4, PlaceParts
<1>6. /\ g[t] = h /\ \A x \in Table \ {t} : g[x] = s.seat[x]
  BY PlaceParts
<1>7. \A p \in Player : f[p] = IF leaves(p) THEN None ELSE s.table[p] OBVIOUS
<1>8. \A i \in Seat : LET p == s.seat[t][i].player
                      IN  h[i] = s.seat[t][i] \/ (h[i] = EmptySeat /\ leaves(p))
  OBVIOUS
<1>9. PICK v : v = [s EXCEPT !.table = f] OBVIOUS
<1>10. /\ v \in PlaceSet /\ v.table = f /\ v.room = s.room /\ v.waiting = s.waiting
       /\ v.num = s.num /\ v.seat = s.seat /\ v.lookers = s.lookers
  <2> HIDE DEF f
  <2>1. QED BY <1>3, <1>9, SetTable
<1>11. u = [v EXCEPT !.seat = g] BY <1>1, <1>9, <1>10
<1>12. /\ u \in PlaceSet /\ u.room = s.room /\ u.table = f /\ u.waiting = s.waiting
       /\ u.num = s.num /\ u.seat = g /\ u.lookers = s.lookers
  <2> HIDE DEF f, g
  <2>1. QED BY <1>5, <1>10, <1>11, SetSeat
<1>13. Counts(s) => Counts(u) BY <1>12 DEF Counts
<1>14. QED BY <1>6, <1>7, <1>8, <1>12, <1>13

\* Who leaves a table leaves sound places behind.
LEMMA LeaveTableSound ==
  ASSUME NEW s, NEW t \in Table, NEW who, NEW u, u = LeaveTable(s, t, who)
  PROVE  (Placed(s) => Placed(u)) /\ (Sound(s) => Sound(u))
<1> SUFFICES ASSUME Placed(s) PROVE Placed(u) /\ (Sound(s) => Sound(u)) BY DEF Sound
<1>1. s \in PlaceSet BY DEF Placed
<1>2. /\ u \in PlaceSet /\ u.room = s.room /\ u.waiting = s.waiting
      /\ u.num = s.num /\ u.lookers = s.lookers /\ (Counts(s) => Counts(u))
      /\ \A p \in Player : u.table[p] = IF p \in who /\ CanClear(s, t, p) THEN None ELSE s.table[p]
      /\ \A x \in Table \ {t} : u.seat[x] = s.seat[x]
      /\ \A i \in Seat : LET p == s.seat[t][i].player
                         IN  u.seat[t][i] = s.seat[t][i] \/
                             (u.seat[t][i] = EmptySeat /\ p \in who /\ CanClear(s, t, p))
  BY <1>1, LeaveTableDoes
<1>3. \A p \in Player : u.table[p] # None => u.table[p] = s.table[p] /\ u.table[p] \in Table
  BY <1>1, <1>2, PlaceParts
<1>4. ASSUME NEW p \in Player, u.table[p] # None
      PROVE  p \in Seated(u, u.table[p]) \/ p \in u.lookers[u.table[p]]
  <2>1. u.table[p] = s.table[p] /\ u.table[p] \in Table BY <1>3, <1>4
  <2>2. CASE p \in Seated(s, s.table[p])
    <3>1. PICK i \in Seat : s.seat[s.table[p]][i].player = p BY <2>2, SeatedIs
    <3>2. u.seat[s.table[p]][i] = s.seat[s.table[p]][i]
      BY <1>2, <1>4, <2>1, <3>1
    <3>3. QED BY <2>1, <3>1, <3>2, SeatedIs, RoomAssumption
  <2>3. CASE p \in s.lookers[s.table[p]] BY <1>2, <2>1, <2>3
  <2>4. QED BY <1>4, <2>1, <2>2, <2>3 DEF Placed, Knows
<1>5. AtUsedTables(u) BY <1>3 DEF AtUsedTables, Placed
<1>6. \A x \in Table : Seated(u, x) \subseteq Seated(s, x)
  <2> SUFFICES ASSUME NEW x \in Table, NEW p \in Seated(u, x) PROVE p \in Seated(s, x) OBVIOUS
  <2>1. PICK i \in Seat : p # None /\ u.seat[x][i].player = p BY SeatedIs
  <2>2. s.seat[x][i].player = p BY <1>2, <2>1 DEF EmptySeat
  <2>3. QED BY <2>1, <2>2, SeatedIs
<1>7. UnusedEmpty(u) BY <1>2, <1>6 DEF UnusedEmpty, Placed
<1>8. Placed(u) BY <1>2, <1>4, <1>5, <1>7 DEF Placed, Knows
<1>9. ASSUME Sound(s), NEW p \in Player PROVE WaitsWell(u, p)
  BY <1>2, <1>3, <1>9 DEF Sound, WaitsWell
<1>10. QED BY <1>8, <1>9 DEF Sound

\* Who sits down on an empty seat of a table in use is found there.
LEMMA SitDownPlaced ==
  ASSUME NEW s, Placed(s), NEW t \in Table, NEW i \in Seat, NEW p \in Player, NEW b \in BOOLEAN,
         s.seat[t][i].player = None, s.table[p] \in {None, t}, Used(t),
         NEW u, u = SitDown(s, t, i, p, b)
  PROVE  /\ Placed(u) /\ u.room = s.room /\ u.waiting = s.waiting /\ u.num = s.num
         /\ u.lookers = s.lookers
         /\ u.table[p] = t /\ \A q \in Player \ {p} : u.table[q] = s.table[q]
         /\ p \in Seated(u, t)
<1> DEFINE x == [player |-> p, ready |-> b, play |-> FALSE]
           f == [s.table EXCEPT ![p] = t]
           g == [s.seat EXCEPT ![t][i] = x]
<1>0. s \in PlaceSet BY DEF Placed
<1>1. x \in SeatSet /\ x.player = p BY DEF SeatSet
<1>2. u = [s EXCEPT !.seat[t][i] = x, !.table[p] = t] BY DEF SitDown
<1> HIDE DEF x
<1>3. f \in [Player -> Table \cup {None}] BY <1>0, PlaceParts
<1>4. g \in [Table -> [Seat -> SeatSet]] BY <1>0, <1>1, PlaceParts
<1>5. /\ g[t][i] = x
      /\ \A y \in Table, j \in Seat : y # t \/ j # i => g[y][j] = s.seat[y][j]
  BY <1>0, PlaceParts
<1>6. f[p] = t /\ \A q \in Player \ {p} : f[q] = s.table[q] BY <1>0, PlaceParts
<1>7. PICK v : v = [s EXCEPT !.seat = g] OBVIOUS
<1>8. /\ u \in PlaceSet /\ u.room = s.room /\ u.table = f /\ u.waiting = s.waiting
      /\ u.num = s.num /\ u.seat = g /\ u.lookers = s.lookers /\ Counts(u)
  <2>1. /\ v \in PlaceSet /\ v.seat = g /\ v.room = s.room /\ v.waiting = s.waiting
        /\ v.num = s.num /\ v.table = s.table /\ v.lookers = s.lookers
    <3> HIDE DEF g
    <3>1. QED BY <1>0, <1>4, <1>7, SetSeat
  <2>2. u = [v EXCEPT !.table = f] BY <1>2, <1>7, <2>1
  <2>3. /\ u \in PlaceSet /\ u.room = s.room /\ u.table = f /\ u.waiting = s.waiting
        /\ u.num = s.num /\ u.seat = g /\ u.lookers = s.lookers
    <3> HIDE DEF f, g
    <3>1. QED BY <1>3, <2>1, <2>2, SetTable
  <2>4. Counts(u) BY <2>3 DEF Placed, Counts
  <2>5. QED BY <2>3, <2>4
<1> HIDE DEF f, g
<1>9. p \in Seated(u, t) BY <1>1, <1>5, <1>8, SeatedIs, RoomAssumption
<1>10. \A y \in Table, q \in Player : q \in Seated(s, y) => q \in Seated(u, y)
  <2> SUFFICES ASSUME NEW y \in Table, NEW q \in Player, q \in Seated(s, y) PROVE q \in Seated(u, y)
    OBVIOUS
  <2>1. PICK j \in Seat : q # None /\ s.seat[y][j].player = q BY SeatedIs
  <2>2. u.seat[y][j] = s.seat[y][j] BY <1>5, <1>8, <2>1
  <2>3. QED BY <2>1, <2>2, SeatedIs
<1>11. Knows(u)
  <2> SUFFICES ASSUME NEW q \in Player, u.table[q] # None
               PROVE  q \in Seated(u, u.table[q]) \/ q \in u.lookers[u.table[q]]
    BY DEF Knows
  <2>1. CASE q = p BY <1>6, <1>8, <1>9, <2>1
  <2>2. CASE q # p
    <3>1. u.table[q] = s.table[q] /\ s.table[q] \in Table BY <1>0, <1>6, <1>8, <2>2, PlaceParts
    <3>2. QED BY <1>8, <1>10, <3>1 DEF Placed, Knows
  <2>3. QED BY <2>1, <2>2
<1>12. AtUsedTables(u) BY <1>6, <1>8 DEF AtUsedTables, Placed
<1>13. UnusedEmpty(u)
  <2> SUFFICES ASSUME NEW y \in Table, ~Used(y) PROVE Seated(u, y) = {} /\ u.lookers[y] = {}
    BY DEF UnusedEmpty
  <2>1. y # t /\ Seated(s, y) = {} /\ s.lookers[y] = {} BY DEF Placed, UnusedEmpty
  <2>2. \A j \in Seat : u.seat[y][j] = s.seat[y][j] BY <1>5, <1>8, <2>1
  <2>3. \A q : q \in Seated(u, y) => q \in Seated(s, y) BY <2>2, SeatedIs
  <2>4. QED BY <1>8, <2>1, <2>3
<1>14. QED BY <1>6, <1>8, <1>9, <1>11, <1>12, <1>13 DEF Placed

\* Who enters a table sits down there.
LEMMA EnterTablePlaced ==
  ASSUME NEW s, Placed(s), NEW t \in Table, NEW p \in Player, CanEnterTable(s, t, p), Used(t),
         NEW u, u = EnterTable(s, t, p)
  PROVE  /\ Placed(u) /\ u.room = s.room /\ u.waiting = s.waiting
         /\ u.table[p] = t /\ \A q \in Player \ {p} : u.table[q] = s.table[q]
<1> DEFINE i == First(EmptySeats(s, t))
           b == HostRoom(t) \in MarryRoom
<1>1. EmptySeats(s, t) \in SUBSET Seat /\ EmptySeats(s, t) # {}
  BY DEF CanEnterTable, EmptySeats, SeatsOf
<1>2. i \in EmptySeats(s, t) BY <1>1, FirstIn
<1>3. i \in Seat /\ s.seat[t][i].player = None BY <1>2 DEF EmptySeats, SeatsOf
<1>4. s.table[p] \in {None, t} BY DEF CanEnterTable, AtOtherTable
<1>5. u = SitDown(s, t, i, p, b) /\ b \in BOOLEAN BY DEF EnterTable
<1> HIDE DEF i, b
<1>6. QED BY <1>3, <1>4, <1>5, SitDownPlaced

\* The table JoinNoFullTable enters is one of those that can be joined.
LEMMA JoinNoFullTablePlaced ==
  ASSUME NEW s, Placed(s), NEW r \in Room, NEW p \in Player, NEW exclude,
         tables[r] \subseteq 1..MaxTables,
         NEW u, u = JoinNoFullTable(s, r, p, exclude)
  PROVE  /\ Placed(u) /\ u.room = s.room /\ u.waiting = s.waiting
         /\ \A q \in Player \ {p} : u.table[q] = s.table[q]
<1> DEFINE open == Joinable(s, r, p, exclude)
<1>1. open \in SUBSET Table /\ \A t \in open : CanEnterTable(s, t, p) /\ Used(t)
  <2> SUFFICES ASSUME NEW t \in open PROVE t \in Table /\ CanEnterTable(s, t, p) /\ Used(t)
    OBVIOUS
  <2>1. CanEnterTable(s, t, p) /\ t \in {r} \X tables[r] BY DEF Joinable
  <2>2. PICK n \in tables[r] : t = <<r, n>> BY <2>1
  <2>3. QED BY <2>1, <2>2, TableParts DEF Used
<1>2. CASE open = {} BY <1>2 DEF JoinNoFullTable
<1>3. CASE open # {}
  <2> DEFINE a == CHOOSE x \in open : \A y \in open : Preferred(s, x, y)
  <2>1. a \in open BY <1>1, <1>3, PreferredExists DEF Placed
  <2>2. u = EnterTable(s, a, p) BY <1>3 DEF JoinNoFullTable
  <2> HIDE DEF a
  <2>3. a \in Table /\ CanEnterTable(s, a, p) /\ Used(a) BY <1>1, <2>1
  <2>4. QED BY <2>2, <2>3, EnterTablePlaced
<1>4. QED BY <1>2, <1>3

\* Who is in an ordinary room waits nowhere.
LEMMA JoinNoFullTableSound ==
  ASSUME NEW s, Sound(s), NEW r \in Room \ MarryRoom, NEW p \in Player, s.room[p] = r, NEW exclude,
         tables[r] \subseteq 1..MaxTables,
         NEW u, u = JoinNoFullTable(s, r, p, exclude)
  PROVE  Sound(u)
<1>1. /\ Placed(u) /\ u.room = s.room /\ u.waiting = s.waiting
      /\ \A q \in Player \ {p} : u.table[q] = s.table[q]
  BY JoinNoFullTablePlaced DEF Sound
<1>2. \A x \in Room : s.waiting[x][p] = None BY DEF Sound, WaitsWell
<1>3. \A q \in Player : WaitsWell(u, q) BY <1>1, <1>2 DEF Sound, WaitsWell
<1>4. QED BY <1>1, <1>3 DEF Sound

--------------------------------------------------------------------------------
(* The waiting list and the rooms.                                         *)

\* Only who is in a matching room and at no table begins to wait.
LEMMA JoinMarrySound ==
  ASSUME NEW s, Sound(s), NEW r \in MarryRoom, NEW p \in Player, s.room[p] = r, s.table[p] = None,
         NEW exclude \in 0..MaxTables, NEW u, u = JoinMarry(s, r, p, exclude)
  PROVE  Sound(u)
<1> DEFINE w == IF s.waiting[r][p] = None THEN exclude ELSE s.waiting[r][p]
           g == [s.waiting EXCEPT ![r][p] = w]
<1>0. s \in PlaceSet /\ r \in Room BY RoomAssumption DEF Sound, Placed
<1>1. u = [s EXCEPT !.waiting = g] BY DEF JoinMarry
<1>2. w \in (0..MaxTables) \cup {None} BY <1>0, PlaceParts
<1> HIDE DEF w
<1>3. g \in [Room -> [Player -> (0..MaxTables) \cup {None}]] BY <1>0, <1>2, PlaceParts
<1>4. \A x \in Room, q \in Player : x # r \/ q # p => g[x][q] = s.waiting[x][q]
  BY <1>0, PlaceParts
<1> HIDE DEF g
<1>5. /\ u \in PlaceSet /\ u.waiting = g /\ u.room = s.room /\ u.table = s.table /\ u.num = s.num
      /\ u.seat = s.seat /\ u.lookers = s.lookers
  BY <1>0, <1>1, <1>3, SetWaiting
<1>6. Placed(u)
  BY <1>5 DEF Sound, Placed, Counts, Knows, Seated, AtUsedTables, UnusedEmpty
<1>7. \A q \in Player : WaitsWell(u, q) BY <1>4, <1>5 DEF Sound, WaitsWell
<1>8. QED BY <1>6, <1>7 DEF Sound

\* Who leaves the waiting list of the player's room waits nowhere, so he may sit by then.
LEMMA LeaveMarrySound ==
  ASSUME NEW s, Placed(s), NEW r \in Room, NEW p \in Player,
         \A q \in Player \ {p} : WaitsWell(s, q),
         \A x \in Room \ {r} : s.waiting[x][p] = None,
         NEW u, u = LeaveMarry(s, r, p)
  PROVE  /\ Sound(u) /\ u.room = s.room /\ u.table = s.table /\ u.num = s.num
         /\ \A x \in Room : u.waiting[x][p] = None
<1> DEFINE g == [s.waiting EXCEPT ![r][p] = None]
<1>0. s \in PlaceSet BY DEF Placed
<1>1. u = [s EXCEPT !.waiting = g] BY DEF LeaveMarry
<1>2. g \in [Room -> [Player -> (0..MaxTables) \cup {None}]] BY <1>0, PlaceParts
<1>3. /\ \A x \in Room, q \in Player : x # r \/ q # p => g[x][q] = s.waiting[x][q]
      /\ g[r][p] = None
  BY <1>0, PlaceParts
<1> HIDE DEF g
<1>4. /\ u \in PlaceSet /\ u.waiting = g /\ u.room = s.room /\ u.table = s.table /\ u.num = s.num
      /\ u.seat = s.seat /\ u.lookers = s.lookers
  BY <1>0, <1>1, <1>2, SetWaiting
<1>5. Placed(u)
  BY <1>4 DEF Placed, Counts, Knows, Seated, AtUsedTables, UnusedEmpty
<1>6. \A x \in Room : u.waiting[x][p] = None BY <1>3, <1>4
<1>7. \A q \in Player : WaitsWell(u, q) BY <1>3, <1>4, <1>6 DEF WaitsWell
<1>8. QED BY <1>4, <1>5, <1>6, <1>7 DEF Sound

\* TryLeaveCurTable keeps places sound: a player leaves his table or stays at it.
LEMMA TryLeaveSound ==
  ASSUME NEW s, Sound(s), NEW p \in Player, NEW u, u = TryLeaveCurTable(s, p)
  PROVE  /\ Sound(u) /\ u.room = s.room /\ u.waiting = s.waiting /\ u.num = s.num
         /\ u.table[p] \in {s.table[p], None}
<1>1. CASE s.table[p] # None /\ CanLeaveTable(s, s.table[p], p)
  <2>1. s.table[p] \in Table /\ s \in PlaceSet BY <1>1, PlaceParts DEF Sound, Placed
  <2>2. u = LeaveTable(s, s.table[p], {p}) BY <1>1 DEF TryLeaveCurTable
  <2>3. Sound(u) BY <2>1, <2>2, LeaveTableSound
  <2>4. /\ u.room = s.room /\ u.waiting = s.waiting /\ u.num = s.num
        /\ u.table[p] \in {s.table[p], None}
    BY <2>1, <2>2, LeaveTableDoes
  <2>5. QED BY <2>3, <2>4
<1>2. CASE ~(s.table[p] # None /\ CanLeaveTable(s, s.table[p], p))
  BY <1>2 DEF TryLeaveCurTable
<1>3. QED BY <1>1, <1>2

\* One player more or less in a room.
Moved(rooms, p, x) == [rooms EXCEPT ![p] = x]
More(num, r) == [num EXCEPT ![r] = @ + 1]
Fewer(num, r) == [num EXCEPT ![r] = @ - 1]

\* A room's count stays right when it grows by the player who comes.
LEMMA OneMore ==
  ASSUME NEW s \in PlaceSet, Counts(s), NEW r \in Room, NEW p \in Player, s.room[p] = None,
         NEW a, NEW n, a = Moved(s.room, p, r), n = More(s.num, r)
  PROVE  n \in Nums /\ Counted(n, a)
<1> USE PointerAssumption, RoomAssumption
<1> DEFINE now(x) == Members(a, x)
<1>1. s.num \in [Room -> Nat] /\ s.room \in [Player -> Room \cup {None}] BY PlaceParts DEF Nums
<1>2. now(r) = Members(s.room, r) \cup {p} /\ p \notin Members(s.room, r) BY <1>1 DEF Members, Moved
<1>3. \A x \in Room \ {r} : now(x) = Members(s.room, x) BY <1>1 DEF Members, Moved
<1>4. IsFiniteSet(Members(s.room, r)) BY FS_Subset DEF Members
<1> HIDE DEF now
<1>5. Cardinality(now(r)) = Cardinality(Members(s.room, r)) + 1 BY <1>2, <1>4, FS_AddElement
<1>6. \A x \in Room : n[x] = Cardinality(now(x)) BY <1>1, <1>3, <1>5 DEF Counts, Counted, More
<1>7. n \in Nums BY <1>1 DEF More, Nums
<1>8. QED BY <1>6, <1>7 DEF now, Counted

\* A room's count stays right when it falls by the player who goes.
LEMMA OneLess ==
  ASSUME NEW s \in PlaceSet, Counts(s), NEW r \in Room, NEW p \in Player, s.room[p] = r,
         NEW a, NEW n, a = Moved(s.room, p, None), n = Fewer(s.num, r)
  PROVE  n \in Nums /\ Counted(n, a)
<1> USE PointerAssumption, RoomAssumption
<1> DEFINE now(x) == Members(a, x)
<1>1. s.num \in [Room -> Nat] /\ s.room \in [Player -> Room \cup {None}] BY PlaceParts DEF Nums
<1>2. now(r) = Members(s.room, r) \ {p} /\ p \in Members(s.room, r) BY <1>1 DEF Members, Moved
<1>3. \A x \in Room \ {r} : now(x) = Members(s.room, x) BY <1>1 DEF Members, Moved
<1>4. IsFiniteSet(Members(s.room, r)) /\ IsFiniteSet(now(r))
  <2>1. Members(s.room, r) \in SUBSET Player /\ now(r) \in SUBSET Player BY DEF Members
  <2> HIDE DEF now
  <2>2. QED BY <2>1, FS_Subset
<1> HIDE DEF now
<1>5. Cardinality(now(r)) = Cardinality(Members(s.room, r)) - 1 BY <1>2, <1>4, FS_RemoveElement
<1>6. \A x \in Room : n[x] = Cardinality(now(x)) BY <1>1, <1>3, <1>5 DEF Counts, Counted, Fewer
<1>7. n[r] \in Nat BY <1>4, <1>6, FS_CardinalityType
<1>8. \A x \in Room \ {r} : n[x] = s.num[x] BY <1>1 DEF Fewer
<1>9. n \in Nums BY <1>1, <1>7, <1>8 DEF Fewer, Nums
<1>10. QED BY <1>6, <1>9 DEF now, Counted

\* Places with one player entered in a room, or taken out of one.
WithRoom(s, a) == [s EXCEPT !.room = a]
WithNum(s, n) == [s EXCEPT !.num = n]

\* Changing the room pointers alone.
LEMMA WithRoomIs ==
  ASSUME NEW s \in PlaceSet, NEW a, a \in [Player -> Room \cup {None}], NEW u, u = WithRoom(s, a)
  PROVE  /\ u \in PlaceSet /\ u.room = a
         /\ u.table = s.table /\ u.waiting = s.waiting /\ u.num = s.num /\ u.seat = s.seat /\ u.lookers = s.lookers
BY SetRoom DEF WithRoom

\* Changing the counts alone.
LEMMA WithNumIs ==
  ASSUME NEW s \in PlaceSet, NEW n \in Nums, NEW u, u = WithNum(s, n)
  PROVE  /\ u \in PlaceSet /\ u.num = n
         /\ u.room = s.room /\ u.table = s.table /\ u.waiting = s.waiting /\ u.seat = s.seat /\ u.lookers = s.lookers
BY SetNum DEF WithNum

\* A room pointer and the counts may change together, for a player who waits nowhere.
LEMMA SetRoomNum ==
  ASSUME NEW s, Sound(s), NEW p \in Player, NEW x \in Room \cup {None},
         NEW a, NEW n \in Nums, a = Moved(s.room, p, x),
         Counted(n, a),
         \A y \in Room : s.waiting[y][p] = None,
         NEW u, u = WithNum(WithRoom(s, a), n)
  PROVE  /\ Sound(u) /\ u.room = a /\ u.room[p] = x /\ u.table = s.table /\ u.waiting = s.waiting
<1>0. s \in PlaceSet BY DEF Sound, Placed
<1>1. a \in [Player -> Room \cup {None}] /\ a[p] = x /\ \A q \in Player \ {p} : a[q] = s.room[q]
  BY <1>0, PlaceParts DEF Moved
<1>2. PICK v : v = WithRoom(s, a) OBVIOUS
<1>3. /\ v \in PlaceSet /\ v.room = a /\ v.table = s.table /\ v.waiting = s.waiting /\ v.num = s.num
      /\ v.seat = s.seat /\ v.lookers = s.lookers
  BY <1>0, <1>1, <1>2, WithRoomIs
<1>4. u = WithNum(v, n) BY <1>2
<1>5. /\ u \in PlaceSet /\ u.num = n /\ u.room = a /\ u.table = s.table /\ u.waiting = s.waiting
      /\ u.seat = s.seat /\ u.lookers = s.lookers
  BY <1>3, <1>4, WithNumIs
<1>6. Counts(u) BY <1>5 DEF Counts
<1>7. Placed(u)
  BY <1>5, <1>6 DEF Sound, Placed, Knows, Seated, AtUsedTables, UnusedEmpty
<1>8. \A q \in Player : WaitsWell(u, q) BY <1>1, <1>5 DEF Sound, WaitsWell
<1>9. QED BY <1>1, <1>5, <1>7, <1>8 DEF Sound

\* A player enters a room only when in none, so it is counted once.
LEMMA EnterRoomSound ==
  ASSUME NEW s, Sound(s), NEW r \in Room, NEW p \in Player, s.room[p] \in {None, r},
         NEW u, u = EnterRoom(s, r, p)
  PROVE  Sound(u) /\ u.room[p] = r
<1>0. s \in PlaceSet BY DEF Sound, Placed
<1> DEFINE in == IF s.room[p] = r THEN s ELSE [s EXCEPT !.room[p] = r, !.num[r] = @ + 1]
<1>1. Sound(in) /\ in.room[p] = r
  <2>1. CASE s.room[p] = r BY <2>1
  <2>2. CASE s.room[p] # r
    <3>1. s.room[p] = None BY <2>2
    <3>2. PICK a, n : a = Moved(s.room, p, r) /\ n = More(s.num, r) OBVIOUS
    <3>3. PICK v : v = WithRoom(s, a) OBVIOUS
    <3>4. a \in [Player -> Room \cup {None}] BY <1>0, <3>2, PlaceParts DEF Moved
    <3>5. v.num = s.num BY <1>0, <3>3, <3>4, WithRoomIs
    <3>6. in = WithNum(v, n)
      BY <2>2, <3>2, <3>3, <3>5 DEF More, Moved, WithRoom, WithNum
    <3>7. \A y \in Room : s.waiting[y][p] = None BY <3>1, RoomAssumption DEF Sound, WaitsWell
    <3>8. n \in Nums /\ Counted(n, a)
      BY <1>0, <3>1, <3>2, OneMore DEF Sound, Placed
    <3> HIDE DEF in
    <3>9. Sound(in) /\ in.room[p] = r BY <3>2, <3>3, <3>6, <3>7, <3>8, SetRoomNum
    <3>10. QED BY <3>9
  <2>3. QED BY <2>1, <2>2
<1>2. u = in \/ u = TryLeaveCurTable(in, p) BY DEF EnterRoom
<1> HIDE DEF in
<1>3. QED BY <1>1, <1>2, TryLeaveSound

\* A player who leaves a room leaves its waiting list and is counted out once.
LEMMA LeaveRoomSound ==
  ASSUME NEW s, Sound(s), NEW p \in Player, s.room[p] # None, NEW u, u = LeaveRoom(s, p)
  PROVE  /\ Sound(u) /\ (CanLeaveRoom(s, p) => u.room[p] = None)
         /\ \A x \in Room : CanLeaveRoom(s, p) => u.waiting[x][p] = None
<1>1. CASE ~CanLeaveRoom(s, p) BY <1>1 DEF LeaveRoom
<1>2. CASE CanLeaveRoom(s, p)
  <2> DEFINE r == s.room[p]
  <2>0. s \in PlaceSet /\ r \in Room BY PlaceParts DEF Sound, Placed
  <2>1. PICK t : t = TryLeaveCurTable(s, p) OBVIOUS
  <2>2. Sound(t) /\ t.room = s.room /\ t.waiting = s.waiting BY <2>1, TryLeaveSound
  <2>3. PICK off : off = LeaveMarry(t, r, p) OBVIOUS
  <2>4. \A x \in Room \ {r} : t.waiting[x][p] = None BY <2>2 DEF Sound, WaitsWell
  <2>5. /\ Sound(off) /\ off.room = s.room
        /\ \A x \in Room : off.waiting[x][p] = None
    BY <2>0, <2>2, <2>3, <2>4, LeaveMarrySound DEF Sound
  <2>6. off \in PlaceSet /\ Counts(off) BY <2>5 DEF Sound, Placed
  <2>7. PICK a, n : a = Moved(off.room, p, None) /\ n = Fewer(off.num, r) OBVIOUS
  <2>8. PICK v : v = WithRoom(off, a) OBVIOUS
  <2>9. a \in [Player -> Room \cup {None}] BY <2>6, <2>7, PlaceParts DEF Moved
  <2>10. v.num = off.num BY <2>6, <2>8, <2>9, WithRoomIs
  <2>11. u = WithNum(v, n)
    <3>1. u = [off EXCEPT !.room[p] = None, !.num[r] = @ - 1] BY <1>2, <2>1, <2>3 DEF LeaveRoom
    <3>2. QED BY <2>7, <2>8, <2>10, <3>1 DEF Fewer, Moved, WithRoom, WithNum
  <2>12. n \in Nums /\ Counted(n, a)
    <3> HIDE DEF r
    <3>1. off.room[p] = r BY <2>5 DEF r
    <3>2. QED BY <2>0, <2>6, <2>7, <3>1, OneLess
  <2> HIDE DEF r
  <2>13. Sound(u) /\ u.room[p] = None /\ u.waiting = off.waiting
    BY <2>0, <2>5, <2>7, <2>8, <2>11, <2>12, SetRoomNum
  <2>14. QED BY <2>5, <2>13
<1>3. QED BY <1>1, <1>2

--------------------------------------------------------------------------------
(* Requests for a table.                                                   *)

\* Who has left the old table, if any, is at none.
Away(s, p) == IF s.table[p] = None THEN s ELSE LeaveTable(s, s.table[p], {p})

\* LeaveTable keeps places sound: it clears chairs of one table, and the pointer if it may.
LEMMA AwaySound ==
  ASSUME NEW s, Sound(s), NEW p \in Player, NEW u, u = Away(s, p)
  PROVE  /\ Sound(u) /\ u.room = s.room /\ u.waiting = s.waiting
         /\ s.table[p] # None => \A i \in Seat :
              \/ u.seat[s.table[p]][i] = s.seat[s.table[p]][i]
              \/ u.seat[s.table[p]][i] = EmptySeat
         /\ u.table[p] = None \/ (u.table[p] = s.table[p] /\ ~CanClear(s, s.table[p], p))
<1>0. s \in PlaceSet BY DEF Sound, Placed
<1>1. CASE s.table[p] = None BY <1>1 DEF Away
<1>2. CASE s.table[p] # None
  <2>1. s.table[p] \in Table BY <1>0, <1>2, PlaceParts
  <2>2. u = LeaveTable(s, s.table[p], {p}) BY <1>2 DEF Away
  <2>3. Sound(u) BY <2>1, <2>2, LeaveTableSound
  <2>4. /\ u.room = s.room /\ u.waiting = s.waiting
        /\ u.table[p] = IF CanClear(s, s.table[p], p) THEN None ELSE s.table[p]
        /\ \A i \in Seat :
             u.seat[s.table[p]][i] = s.seat[s.table[p]][i] \/ u.seat[s.table[p]][i] = EmptySeat
    BY <1>0, <2>1, <2>2, LeaveTableDoes
  <2>5. QED BY <2>3, <2>4
<1>3. QED BY <1>1, <1>2

\* EnterTable of an ordinary room keeps places sound.
LEMMA EnterTableSound ==
  ASSUME NEW s, Sound(s), NEW t \in Table, NEW p \in Player, CanEnterTable(s, t, p), Used(t),
         HostRoom(t) \notin MarryRoom, s.room[p] = HostRoom(t),
         NEW u, u = EnterTable(s, t, p)
  PROVE  Sound(u)
<1>1. /\ Placed(u) /\ u.room = s.room /\ u.waiting = s.waiting
      /\ \A q \in Player \ {p} : u.table[q] = s.table[q]
  BY EnterTablePlaced DEF Sound
<1>2. \A x \in Room : s.waiting[x][p] = None BY DEF Sound, WaitsWell
<1>3. \A q \in Player : WaitsWell(u, q) BY <1>1, <1>2 DEF Sound, WaitsWell
<1>4. QED BY <1>1, <1>3 DEF Sound

\* FastJoinTable, which leaves a table and then waits or enters, keeps places sound.
LEMMA FastJoinTableSound ==
  ASSUME NEW s, Sound(s), NEW r \in Room, NEW p \in Player, s.room[p] = r,
         tables[r] \subseteq 1..MaxTables, NEW u, u = FastJoinTable(s, r, p)
  PROVE  Sound(u)
<1>0. s \in PlaceSet BY DEF Sound, Placed
<1>1. PICK away : away = Away(s, p) OBVIOUS
<1>2. PICK old : old = IF s.table[p] = None THEN 0 ELSE TableID(s.table[p]) OBVIOUS
<1>3. old \in 0..MaxTables
  <2>1. s.table[p] # None => TableID(s.table[p]) \in 1..MaxTables BY <1>0, PlaceParts, TableParts
  <2>2. QED BY <1>2, <2>1, RoomAssumption
<1>4. /\ Sound(away) /\ away.room = s.room
      /\ away.table[p] = None \/ (away.table[p] = s.table[p] /\ ~CanClear(s, s.table[p], p))
  BY <1>1, AwaySound
<1>5. \/ u = s
      \/ /\ away.table[p] = None
         /\ IF r \in MarryRoom THEN u = JoinMarry(away, r, p, old)
            ELSE u = JoinNoFullTable(away, r, p, old)
  BY <1>1, <1>2, <1>4 DEF FastJoinTable, Away
<1>6. CASE u = s BY <1>6
<1>7. CASE away.table[p] = None /\ r \in MarryRoom /\ u = JoinMarry(away, r, p, old)
  BY <1>3, <1>4, <1>7, JoinMarrySound
<1>8. CASE away.table[p] = None /\ r \notin MarryRoom /\ u = JoinNoFullTable(away, r, p, old)
  BY <1>4, <1>8, JoinNoFullTableSound
<1>9. QED BY <1>5, <1>6, <1>7, <1>8

\* Entering a table by its number keeps places sound.
LEMMA RoomEnterTableSound ==
  ASSUME NEW s, Sound(s), NEW r \in Room, NEW p \in Player, s.room[p] = r,
         tables[r] \subseteq 1..MaxTables, NEW id \in tables[r], NEW u, u = RoomEnterTable(s, r, p, id)
  PROVE  Sound(u)
<1>0. s \in PlaceSet BY DEF Sound, Placed
<1>1. PICK away : away = Away(s, p) OBVIOUS
<1>2. PICK new : new = <<r, id>> OBVIOUS
<1>3. new \in Table /\ HostRoom(new) = r /\ Used(new) BY <1>2, TableParts DEF Used
<1>4. /\ Sound(away) /\ away.room = s.room
      /\ away.table[p] = None \/ (away.table[p] = s.table[p] /\ ~CanClear(s, s.table[p], p))
  BY <1>1, AwaySound
<1>5. \/ u = s
      \/ away.table[p] = None /\ r \in MarryRoom /\ u = JoinMarry(away, r, p, 0)
      \/ r \notin MarryRoom /\ CanEnterTable(away, new, p) /\ u = EnterTable(away, new, p)
      \/ r \notin MarryRoom /\ u = JoinNoFullTable(away, r, p, 0)
  BY <1>1, <1>2, <1>4 DEF RoomEnterTable, Away
<1>6. CASE u = s BY <1>6
<1>7. CASE away.table[p] = None /\ r \in MarryRoom /\ u = JoinMarry(away, r, p, 0)
  <2>1. 0 \in 0..MaxTables BY RoomAssumption
  <2>2. QED BY <1>4, <1>7, <2>1, JoinMarrySound
<1>8. CASE r \notin MarryRoom /\ CanEnterTable(away, new, p) /\ u = EnterTable(away, new, p)
  BY <1>3, <1>4, <1>8, EnterTableSound
<1>9. CASE r \notin MarryRoom /\ u = JoinNoFullTable(away, r, p, 0)
  BY <1>4, <1>9, JoinNoFullTableSound
<1>10. QED BY <1>5, <1>6, <1>7, <1>8, <1>9

--------------------------------------------------------------------------------
(* What else changes the seats.                                            *)

\* The object of a player who is nowhere goes: the seats it is found in are nobody's.
Nowhere(s, p) == s.room[p] = None /\ \A x \in Room : s.waiting[x][p] = None
Erased(seats, p) ==
  [t \in Table |-> [i \in Seat |->
     IF seats[t][i].player = p THEN [seats[t][i] EXCEPT !.player = Gone] ELSE seats[t][i]]]
WithTable(s, f) == [s EXCEPT !.table = f]
WithSeat(s, g) == [s EXCEPT !.seat = g]
WithLookers(s, g) == [s EXCEPT !.lookers = g]

\* Changing the table pointers alone.
LEMMA WithTableIs ==
  ASSUME NEW s \in PlaceSet, NEW f, f \in [Player -> Table \cup {None}], NEW u, u = WithTable(s, f)
  PROVE  /\ u \in PlaceSet /\ u.table = f
         /\ u.room = s.room /\ u.waiting = s.waiting /\ u.num = s.num /\ u.seat = s.seat /\ u.lookers = s.lookers
BY SetTable DEF WithTable

\* Changing the chairs alone.
LEMMA WithSeatIs ==
  ASSUME NEW s \in PlaceSet, NEW g, g \in [Table -> [Seat -> SeatSet]], NEW u, u = WithSeat(s, g)
  PROVE  /\ u \in PlaceSet /\ u.seat = g
         /\ u.room = s.room /\ u.table = s.table /\ u.waiting = s.waiting /\ u.num = s.num /\ u.lookers = s.lookers
BY SetSeat DEF WithSeat

\* Changing the lookers alone.
LEMMA WithLookersIs ==
  ASSUME NEW s \in PlaceSet, NEW g, g \in [Table -> SUBSET Player], NEW u, u = WithLookers(s, g)
  PROVE  /\ u \in PlaceSet /\ u.lookers = g
         /\ u.room = s.room /\ u.table = s.table /\ u.waiting = s.waiting /\ u.num = s.num /\ u.seat = s.seat
BY SetLookers DEF WithLookers

\* Deleting a player who is nowhere any more keeps places sound, whatever chairs still point to him.
LEMMA EraseSound ==
  ASSUME NEW s, Sound(s), NEW p \in Player, Nowhere(s, p),
         NEW f, NEW g, f = Moved(s.table, p, None), g = Erased(s.seat, p),
         NEW u, u = WithSeat(WithTable(s, f), g)
  PROVE  Sound(u)
<1>0. s \in PlaceSet BY DEF Sound, Placed
<1>1. /\ f \in [Player -> Table \cup {None}] /\ f[p] = None
      /\ \A q \in Player \ {p} : f[q] = s.table[q]
  BY <1>0, PlaceParts DEF Moved
<1>2. PICK v : v = WithTable(s, f) OBVIOUS
<1>3. /\ v \in PlaceSet /\ v.table = f /\ v.room = s.room /\ v.waiting = s.waiting /\ v.num = s.num
      /\ v.seat = s.seat /\ v.lookers = s.lookers
  BY <1>0, <1>1, <1>2, WithTableIs
<1>4. s.seat \in [Table -> [Seat -> SeatSet]] BY <1>0, PlaceParts
<1>5. /\ g \in [Table -> [Seat -> SeatSet]]
      /\ \A t \in Table, i \in Seat :
           g[t][i] = IF s.seat[t][i].player = p THEN [s.seat[t][i] EXCEPT !.player = Gone] ELSE s.seat[t][i]
  <2>1. ASSUME NEW t \in Table, NEW i \in Seat
        PROVE  (IF s.seat[t][i].player = p THEN [s.seat[t][i] EXCEPT !.player = Gone] ELSE s.seat[t][i]) \in SeatSet
    BY <1>4 DEF SeatSet
  <2>2. QED BY <2>1 DEF Erased
<1>6. u = WithSeat(v, g) BY <1>2
<1>7. /\ u \in PlaceSet /\ u.table = f /\ u.room = s.room /\ u.waiting = s.waiting /\ u.num = s.num
      /\ u.seat = g /\ u.lookers = s.lookers
  BY <1>3, <1>5, <1>6, WithSeatIs
<1>8. Counts(u) BY <1>7 DEF Sound, Placed, Counts
<1>9. ASSUME NEW q \in Player, u.table[q] # None
      PROVE  q \in Seated(u, u.table[q]) \/ q \in u.lookers[u.table[q]]
  <2>1. q # p /\ u.table[q] = s.table[q] /\ s.table[q] \in Table BY <1>0, <1>1, <1>7, <1>9, PlaceParts
  <2>2. CASE q \in Seated(s, s.table[q])
    <3>1. PICK i \in Seat : s.seat[s.table[q]][i].player = q BY <2>2, SeatedIs
    <3>2. u.seat[s.table[q]][i] = s.seat[s.table[q]][i] BY <1>5, <1>7, <2>1, <3>1
    <3>3. QED BY <2>1, <3>1, <3>2, SeatedIs, RoomAssumption
  <2>3. CASE q \in s.lookers[s.table[q]] BY <1>7, <2>1, <2>3
  <2>4. QED BY <1>9, <2>1, <2>2, <2>3 DEF Sound, Placed, Knows
<1>10. AtUsedTables(u) BY <1>1, <1>7 DEF Sound, Placed, AtUsedTables
<1>11. UnusedEmpty(u)
  <2> SUFFICES ASSUME NEW t \in Table, ~Used(t) PROVE Seated(u, t) = {} /\ u.lookers[t] = {}
    BY DEF UnusedEmpty
  <2>1. Seated(s, t) = {} /\ s.lookers[t] = {} BY DEF Sound, Placed, UnusedEmpty
  <2>2. \A i \in Seat : s.seat[t][i].player = None BY <2>1, SeatedIs
  <2>3. \A i \in Seat : u.seat[t][i] = s.seat[t][i] BY <1>5, <1>7, <2>2, RoomAssumption
  <2>4. QED BY <1>7, <2>1, <2>2, <2>3, SeatedIs
<1>12. \A q \in Player : WaitsWell(u, q) BY <1>1, <1>7 DEF Sound, WaitsWell, Nowhere
<1>13. QED BY <1>7, <1>8, <1>9, <1>10, <1>11, <1>12 DEF Sound, Placed, Knows

\* A player whose object goes leaves no pointer to it in the places that are still looked at.
LEMMA OnLoginOutSound ==
  ASSUME NEW s, Sound(s), NEW p \in Player, NEW u, u = OnLoginOut(s, p) PROVE Sound(u)
<1>0. s \in PlaceSet BY DEF Sound, Placed
<1>1. PICK off : off = Away(s, p) OBVIOUS
<1>2. PICK out : out = IF off.room[p] = None THEN off ELSE LeaveRoom(off, p) OBVIOUS
<1>3. /\ Sound(off) /\ off.room = s.room
      /\ s.table[p] # None => \A i \in Seat :
           \/ off.seat[s.table[p]][i] = s.seat[s.table[p]][i]
           \/ off.seat[s.table[p]][i] = EmptySeat
      /\ off.table[p] = None \/ (off.table[p] = s.table[p] /\ ~CanClear(s, s.table[p], p))
  BY <1>1, AwaySound
<1>4. CanLeaveRoom(off, p)
  <2> SUFFICES ASSUME off.table[p] # None PROVE SeatsOf(off, off.table[p], p) = {}
    BY DEF CanLeaveRoom, CanLeaveTable
  <2>1. off.table[p] = s.table[p] /\ SeatsOf(s, s.table[p], p) = {} BY <1>3 DEF CanClear
  <2>2. \A i \in Seat : s.seat[s.table[p]][i].player # p BY <2>1 DEF SeatsOf
  <2>3. \A i \in Seat : off.seat[s.table[p]][i].player # p
    BY <1>3, <2>1, <2>2, RoomAssumption DEF EmptySeat
  <2>4. QED BY <2>1, <2>3 DEF SeatsOf
<1>5. Sound(out) /\ Nowhere(out, p)
  <2>1. CASE off.room[p] = None
    BY <1>2, <1>3, <2>1, RoomAssumption DEF Nowhere, Sound, WaitsWell
  <2>2. CASE off.room[p] # None BY <1>2, <1>3, <1>4, <2>2, LeaveRoomSound DEF Nowhere
  <2>3. QED BY <2>1, <2>2
<1>6. out \in PlaceSet BY <1>5 DEF Sound, Placed
<1>7. PICK f, g : f = Moved(out.table, p, None) /\ g = Erased(out.seat, p) OBVIOUS
<1>8. PICK v : v = WithTable(out, f) OBVIOUS
<1>9. f \in [Player -> Table \cup {None}] BY <1>6, <1>7, PlaceParts DEF Moved
<1>10. v \in PlaceSet /\ v.room = out.room /\ v.table = f BY <1>6, <1>8, <1>9, WithTableIs
<1>11. u = [out EXCEPT !.table[p] = None, !.room[p] = None, !.seat = g]
  BY <1>1, <1>2, <1>7 DEF OnLoginOut, Away, Erased
<1>12. [out.room EXCEPT ![p] = None] = out.room BY <1>5, <1>6, PlaceParts DEF Nowhere
<1>13. u = WithSeat(v, g)
  BY <1>6, <1>7, <1>8, <1>10, <1>11, <1>12, PlaceParts DEF Moved, WithTable, WithSeat
<1>14. QED BY <1>5, <1>7, <1>8, <1>13, EraseSound

\* What a seat says of its player's readiness and round is of no account for where players are.
LEMMA FlagsSound ==
  ASSUME NEW s, Sound(s), NEW u \in PlaceSet,
         u.room = s.room, u.table = s.table, u.waiting = s.waiting, u.num = s.num, u.lookers = s.lookers,
         \A t \in Table, i \in Seat : u.seat[t][i].player = s.seat[t][i].player
  PROVE  Sound(u)
<1>0. s \in PlaceSet BY DEF Sound, Placed
<1>1. \A t \in Table : Seated(u, t) = Seated(s, t) BY DEF Seated
<1>2. Counts(u) BY DEF Sound, Placed, Counts
<1>3. Knows(u)
  <2> SUFFICES ASSUME NEW q \in Player, u.table[q] # None
               PROVE  q \in Seated(u, u.table[q]) \/ q \in u.lookers[u.table[q]]
    BY DEF Knows
  <2>1. s.table[q] \in Table BY <1>0, PlaceParts
  <2>2. QED BY <1>1, <2>1 DEF Sound, Placed, Knows
<1>4. AtUsedTables(u) BY DEF Sound, Placed, AtUsedTables
<1>5. UnusedEmpty(u) BY <1>1 DEF Sound, Placed, UnusedEmpty
<1>6. \A q \in Player : WaitsWell(u, q) BY DEF Sound, WaitsWell
<1>7. QED BY <1>2, <1>3, <1>4, <1>5, <1>6 DEF Sound, Placed

\* Being ready or not keeps places sound.
LEMMA PlayerReadySound ==
  ASSUME NEW s, Sound(s), NEW t \in Table, NEW p \in Player, NEW b \in BOOLEAN,
         NEW u, u = PlayerReady(s, t, p, b)
  PROVE  Sound(u)
<1>0. s \in PlaceSet BY DEF Sound, Placed
<1>1. CASE SeatsOf(s, t, p) = {} \/ coins[p] < EnterMin BY <1>1 DEF PlayerReady
<1>2. CASE SeatsOf(s, t, p) # {} /\ ~(coins[p] < EnterMin)
  <2>1. PICK i \in Seat : i = First(SeatsOf(s, t, p))
    <3>1. SeatsOf(s, t, p) \in SUBSET Seat BY DEF SeatsOf
    <3>2. QED BY <1>2, <3>1, FirstIn
  <2>2. PICK x : x = [s.seat[t][i] EXCEPT !.ready = b] OBVIOUS
  <2>3. s.seat[t][i] \in SeatSet BY <1>0, PlaceParts
  <2>4. x \in SeatSet /\ x.player = s.seat[t][i].player BY <2>2, <2>3 DEF SeatSet
  <2>5. PICK g : g = [s.seat EXCEPT ![t][i] = x] OBVIOUS
  <2>6. g \in [Table -> [Seat -> SeatSet]] BY <1>0, <2>4, <2>5, PlaceParts
  <2>7. \A y \in Table, j \in Seat : g[y][j].player = s.seat[y][j].player
    BY <1>0, <2>4, <2>5, PlaceParts
  <2>8. u = WithSeat(s, g) BY <1>2, <2>1, <2>2, <2>5 DEF PlayerReady, WithSeat
  <2>9. /\ u \in PlaceSet /\ u.seat = g /\ u.room = s.room /\ u.table = s.table
        /\ u.waiting = s.waiting /\ u.num = s.num /\ u.lookers = s.lookers
    BY <1>0, <2>6, <2>8, WithSeatIs
  <2>10. QED BY <2>7, <2>9, FlagsSound
<1>3. QED BY <1>1, <1>2

\* A looker who takes a chair is found on it from then on.
Looked(looking, t, S) == [looking EXCEPT ![t] = S]
TakesChair(s, t, i, p) == [SitDown(s, t, i, p, FALSE) EXCEPT !.lookers[t] = @ \ {p}]
StandsUp(s, t, p) ==
  [s EXCEPT !.seat[t][First(SeatsOf(s, t, p))] = EmptySeat, !.lookers[t] = @ \cup {p}]

\* Sitting down on an empty chair of one's own table keeps places sound.
LEMMA SitDownSound ==
  ASSUME NEW s, Sound(s), NEW t \in Table, NEW i \in Seat, NEW p \in Player,
         s.table[p] = t, s.seat[t][i].player = None,
         NEW u, u = TakesChair(s, t, i, p)
  PROVE  Sound(u)
<1>1. Used(t) BY TableParts DEF Sound, Placed, AtUsedTables
<1>2. PICK b \in BOOLEAN : b = FALSE OBVIOUS
<1>3. PICK v : v = SitDown(s, t, i, p, b) OBVIOUS
<1>4. /\ Placed(v) /\ v.room = s.room /\ v.waiting = s.waiting /\ v.num = s.num
      /\ v.lookers = s.lookers
      /\ v.table[p] = t /\ \A q \in Player \ {p} : v.table[q] = s.table[q]
      /\ p \in Seated(v, t)
  <2>1. Placed(s) BY DEF Sound
  <2>2. QED BY <1>1, <1>3, <2>1, SitDownPlaced
<1>5. v \in PlaceSet BY <1>4 DEF Placed
<1>6. PICK g : g = Looked(v.lookers, t, v.lookers[t] \ {p}) OBVIOUS
<1>7. /\ g \in [Table -> SUBSET Player]
      /\ \A y \in Table : g[y] = IF y = t THEN v.lookers[t] \ {p} ELSE v.lookers[y]
  BY <1>5, <1>6, PlaceParts DEF Looked
<1>8. u = WithLookers(v, g) BY <1>2, <1>3, <1>6 DEF TakesChair, WithLookers, Looked
<1>9. /\ u \in PlaceSet /\ u.lookers = g /\ u.room = v.room /\ u.table = v.table
      /\ u.waiting = v.waiting /\ u.num = v.num /\ u.seat = v.seat
  BY <1>5, <1>7, <1>8, WithLookersIs
<1>10. \A y : Seated(u, y) = Seated(v, y) BY <1>9 DEF Seated
<1>11. Knows(u)
  <2> SUFFICES ASSUME NEW q \in Player, u.table[q] # None
               PROVE  q \in Seated(u, u.table[q]) \/ q \in u.lookers[u.table[q]]
    BY DEF Knows
  <2>1. v.table[q] \in Table /\ u.table[q] = v.table[q] BY <1>5, <1>9, PlaceParts
  <2>2. q \in Seated(v, v.table[q]) \/ q \in v.lookers[v.table[q]] BY <1>4, <1>9 DEF Placed, Knows
  <2>3. CASE q = p BY <1>4, <1>10, <2>1, <2>3
  <2>4. CASE q # p BY <1>7, <1>9, <1>10, <2>1, <2>2, <2>4
  <2>5. QED BY <2>3, <2>4
<1>12. Counts(u) /\ AtUsedTables(u) BY <1>4, <1>9 DEF Placed, Counts, AtUsedTables
<1>13. UnusedEmpty(u)
  <2> SUFFICES ASSUME NEW y \in Table, ~Used(y) PROVE Seated(u, y) = {} /\ u.lookers[y] = {}
    BY DEF UnusedEmpty
  <2>1. Seated(v, y) = {} /\ v.lookers[y] = {} BY <1>4 DEF Placed, UnusedEmpty
  <2>2. QED BY <1>7, <1>9, <1>10, <2>1
<1>14. \A q \in Player : WaitsWell(u, q) BY <1>4, <1>9 DEF Sound, WaitsWell
<1>15. QED BY <1>9, <1>11, <1>12, <1>13, <1>14 DEF Sound, Placed

\* Who stands up looks on.
LEMMA StandUpSound ==
  ASSUME NEW s, Sound(s), NEW t \in Table, NEW p \in Player, s.table[p] = t, SeatsOf(s, t, p) # {},
         NEW u, u = StandsUp(s, t, p)
  PROVE  Sound(u)
<1>0. s \in PlaceSet BY DEF Sound, Placed
<1>1. Used(t) BY TableParts DEF Sound, Placed, AtUsedTables
<1>2. PICK i \in Seat : i = First(SeatsOf(s, t, p)) /\ s.seat[t][i].player = p
  <2>1. SeatsOf(s, t, p) \in SUBSET Seat BY DEF SeatsOf
  <2>2. First(SeatsOf(s, t, p)) \in SeatsOf(s, t, p) BY <2>1, FirstIn
  <2>3. QED BY <2>2 DEF SeatsOf
<1>3. PICK g : g = [s.seat EXCEPT ![t][i] = EmptySeat] OBVIOUS
<1>4. EmptySeat \in SeatSet /\ EmptySeat.player = None BY DEF EmptySeat, SeatSet
<1>5. /\ g \in [Table -> [Seat -> SeatSet]] /\ g[t][i] = EmptySeat
      /\ \A y \in Table, j \in Seat : y # t \/ j # i => g[y][j] = s.seat[y][j]
  BY <1>0, <1>3, <1>4, PlaceParts
<1>6. PICK h : h = Looked(s.lookers, t, s.lookers[t] \cup {p}) OBVIOUS
<1>7. /\ h \in [Table -> SUBSET Player]
      /\ \A y \in Table : h[y] = IF y = t THEN s.lookers[t] \cup {p} ELSE s.lookers[y]
  BY <1>0, <1>6, PlaceParts DEF Looked
<1>8. PICK v : v = WithSeat(s, g) OBVIOUS
<1>9. /\ v \in PlaceSet /\ v.seat = g /\ v.room = s.room /\ v.table = s.table
      /\ v.waiting = s.waiting /\ v.num = s.num /\ v.lookers = s.lookers
  BY <1>0, <1>5, <1>8, WithSeatIs
<1>10. u = WithLookers(v, h) BY <1>2, <1>3, <1>6, <1>8, <1>9 DEF StandsUp, WithSeat, WithLookers, Looked
<1>11. /\ u \in PlaceSet /\ u.lookers = h /\ u.room = s.room /\ u.table = s.table
       /\ u.waiting = s.waiting /\ u.num = s.num /\ u.seat = g
  BY <1>7, <1>9, <1>10, WithLookersIs
<1>12. \A y \in Table, q \in Player \ {p} : q \in Seated(s, y) => q \in Seated(u, y)
  <2> SUFFICES ASSUME NEW y \in Table, NEW q \in Player \ {p}, q \in Seated(s, y) PROVE q \in Seated(u, y)
    OBVIOUS
  <2>1. PICK j \in Seat : q # None /\ s.seat[y][j].player = q BY SeatedIs
  <2>2. u.seat[y][j] = s.seat[y][j] BY <1>2, <1>5, <1>11, <2>1
  <2>3. QED BY <2>1, <2>2, SeatedIs
<1>13. Knows(u)
  <2> SUFFICES ASSUME NEW q \in Player, u.table[q] # None
               PROVE  q \in Seated(u, u.table[q]) \/ q \in u.lookers[u.table[q]]
    BY DEF Knows
  <2>1. s.table[q] \in Table /\ u.table[q] = s.table[q] BY <1>0, <1>11, PlaceParts
  <2>2. q \in Seated(s, s.table[q]) \/ q \in s.lookers[s.table[q]] BY <1>11 DEF Sound, Placed, Knows
  <2>3. CASE q = p BY <1>7, <1>11, <2>1, <2>3
  <2>4. CASE q # p BY <1>7, <1>11, <1>12, <2>1, <2>2, <2>4
  <2>5. QED BY <2>3, <2>4
<1>14. Counts(u) /\ AtUsedTables(u) BY <1>11 DEF Sound, Placed, Counts, AtUsedTables
<1>15. UnusedEmpty(u)
  <2> SUFFICES ASSUME NEW y \in Table, ~Used(y) PROVE Seated(u, y) = {} /\ u.lookers[y] = {}
    BY DEF UnusedEmpty
  <2>1. y # t /\ Seated(s, y) = {} /\ s.lookers[y] = {} BY <1>1 DEF Sound, Placed, UnusedEmpty
  <2>2. \A j \in Seat : u.seat[y][j] = s.seat[y][j] BY <1>5, <1>11, <2>1
  <2>3. \A q : q \in Seated(u, y) => q \in Seated(s, y) BY <2>2, SeatedIs
  <2>4. QED BY <1>7, <1>11, <2>1, <2>3
<1>16. \A q \in Player : WaitsWell(u, q) BY <1>11 DEF Sound, WaitsWell
<1>17. QED BY <1>11, <1>13, <1>14, <1>15, <1>16 DEF Sound, Placed

--------------------------------------------------------------------------------
(* Steps.                                                                  *)

\* What is not a place of a player.
RestTyped ==
  /\ net \in [Player -> {"none", "on", "off"}] /\ coins \in [Player -> 0..MaxPurse]
  /\ tables \in [Room -> SUBSET (1..MaxTables)]
  /\ freeTable \in [Room -> Seq(1..MaxTables)]
  /\ marrying \in {None} \cup [room : Room, made : Table \cup {None}, player : Player \cup {None}]
  /\ gameState \in [Table -> {"FREE", "PLAY", "GAME_END", "RECYCLE"}]
  /\ played \in [Table -> BOOLEAN] /\ clearing \in [Table -> BOOLEAN]
  /\ repair \in BOOLEAN /\ crashed \in BOOLEAN

\* The inductive invariant.
PInv == RestTyped /\ Sound(Places) /\ FreeWell /\ Marries

\* The record of places has the variables as its fields.
LEMMA PlacesIs ==
  /\ Places.room = room /\ Places.table = table /\ Places.waiting = waiting
  /\ Places.num = playerNum /\ Places.seat = seat /\ Places.lookers = lookers
BY DEF Places

\* The type invariant in two parts: the places and the rest.
LEMMA TypeParts == TypeOK <=> RestTyped /\ Places \in PlaceSet
BY DEF TypeOK, RestTyped, Places, PlaceSet, SeatSet, Nums

\* The places a handler ends with are sound places again, as long as no table comes or goes.
LEMMA BecomeSound ==
  ASSUME NEW s, Sound(s), Become(s), tables' = tables PROVE Sound(Places)'
<1>1. Places' = s BY PlaceParts DEF Places, Become, Sound, Placed
<1>2. \A t : Used(t)' <=> Used(t) BY DEF Used
<1>3. AtUsedTables(Places)' BY <1>1, <1>2 DEF Sound, Placed, AtUsedTables
<1>4. UnusedEmpty(Places)' BY <1>1, <1>2 DEF Sound, Placed, UnusedEmpty, Seated
<1>5. (Places \in PlaceSet)' BY <1>1 DEF Sound, Placed, PlaceSet
<1>6. Counts(Places)' BY <1>1 DEF Sound, Placed, Counts, Counted, Members
<1>7. Knows(Places)' BY <1>1 DEF Sound, Placed, Knows, Seated
<1>8. (\A p \in Player : WaitsWell(Places, p))' BY <1>1 DEF Sound, WaitsWell
<1>9. QED BY <1>3, <1>4, <1>5, <1>6, <1>7, <1>8 DEF Sound, Placed

\* The tables that are in use may grow by some that are empty.
LEMMA FreeWellStays ==
  ASSUME FreeWell, UNCHANGED poolVars PROVE FreeWell'
BY DEF FreeWell, poolVars

\* A step that leaves the pool of tables alone keeps the invariant if its places are sound.
LEMMA SamePoolStep ==
  ASSUME PInv, NEW s, Sound(s), Become(s), UNCHANGED poolVars, Idle, UNCHANGED marrying, RestTyped'
  PROVE  PInv'
<1>1. Sound(Places)' BY BecomeSound DEF poolVars
<1>2. FreeWell' BY FreeWellStays DEF PInv
<1>3. Marries' BY DEF Marries, Idle
<1>4. QED BY <1>1, <1>2, <1>3 DEF PInv

\* A handler that ends in sound places keeps the invariant.
LEMMA HandledStep ==
  ASSUME PInv, NEW s, Sound(s), Idle, Handled(s) PROVE PInv'
<1>1. Become(s) /\ UNCHANGED poolVars /\ UNCHANGED marrying
  BY DEF Handled, SamePool, sysVars
<1>2. RestTyped' BY DEF PInv, RestTyped, Handled, SamePool, sysVars, tableVars, poolVars
<1>3. QED BY <1>1, <1>2, SamePoolStep

\* Unchanged variables are unchanged places.
LEMMA SamePlaces ==
  ASSUME UNCHANGED placeVars PROVE Become(Places)
BY PlacesIs DEF placeVars, Become

\* What the invariant says of the places as they are.
LEMMA PlacesSound ==
  ASSUME PInv
  PROVE  /\ Sound(Places) /\ Places \in PlaceSet
         /\ room \in [Player -> Room \cup {None}] /\ table \in [Player -> Table \cup {None}]
         /\ \A r \in Room : tables[r] \subseteq 1..MaxTables
<1>1. Sound(Places) /\ Places \in PlaceSet BY DEF PInv, Sound, Placed
<1>2. room \in [Player -> Room \cup {None}] /\ table \in [Player -> Table \cup {None}]
  BY <1>1, PlaceParts, PlacesIs
<1>3. \A r \in Room : tables[r] \subseteq 1..MaxTables BY DEF PInv, RestTyped
<1>4. QED BY <1>1, <1>2, <1>3

\* A player object comes, or what it is told changes no place.
LEMMA EnterSvrStep ==
  ASSUME PInv, NEW p \in Player, NEW held \in 0..MaxPurse,
         EnterSvr(p, held) \/ FlushChangeAcc(p, held) \/ NetBack(p)
  PROVE  PInv'
<1>1. Become(Places) /\ UNCHANGED poolVars /\ UNCHANGED marrying /\ Idle
  BY SamePlaces DEF EnterSvr, FlushChangeAcc, NetBack, SamePool, sysVars, Here
<1>2. RestTyped'
  <2>1. net' \in [Player -> {"none", "on", "off"}] /\ coins' \in [Player -> 0..MaxPurse]
    <3>1. net \in [Player -> {"none", "on", "off"}] /\ coins \in [Player -> 0..MaxPurse]
      BY DEF PInv, RestTyped
    <3>2. CASE EnterSvr(p, held) BY <3>1, <3>2 DEF EnterSvr
    <3>3. CASE FlushChangeAcc(p, held) BY <3>1, <3>3 DEF FlushChangeAcc
    <3>4. CASE NetBack(p) BY <3>1, <3>4 DEF NetBack
    <3>5. QED BY <3>2, <3>3, <3>4
  <2>2. UNCHANGED <<tableVars, poolVars, sysVars>>
    BY DEF EnterSvr, FlushChangeAcc, NetBack, SamePool
  <2>3. QED BY <2>1, <2>2 DEF PInv, RestTyped, sysVars, tableVars, poolVars
<1>3. QED BY <1>1, <1>2, SamePoolStep DEF PInv

\* A connection that is lost takes the player from the table, and from the room.
LEMMA NetLostStep ==
  ASSUME PInv, NEW p \in Player, NetLost(p) PROVE PInv'
<1> DEFINE t == table[p]
<1>1. PICK gone : gone = IF t # None /\ p \in lookers[t] THEN TryLeaveCurTable(Places, p) ELSE Places
  OBVIOUS
<1>2. PICK left : left = TryLeaveCurTable(gone, p) OBVIOUS
<1>3. Sound(gone) /\ gone.room = room
  <2>1. Sound(Places) /\ Places.room = room BY PlacesSound, PlacesIs
  <2>2. CASE gone = Places BY <2>1, <2>2
  <2>3. CASE gone = TryLeaveCurTable(Places, p) BY <2>1, <2>3, TryLeaveSound
  <2>4. QED BY <1>1, <2>2, <2>3
<1>4. Sound(left) /\ left.room = room BY <1>2, <1>3, TryLeaveSound
<1>5. PICK s : s = IF gone.table[p] # left.table[p] /\ room[p] # None THEN LeaveRoom(left, p) ELSE left
  OBVIOUS
<1>6. Sound(s)
  <2>1. CASE s = left BY <1>4, <2>1
  <2>2. CASE room[p] # None /\ s = LeaveRoom(left, p) BY <1>4, <2>2, LeaveRoomSound
  <2>3. QED BY <1>5, <2>1, <2>2
<1>7. Become(s) /\ Idle /\ UNCHANGED poolVars /\ UNCHANGED marrying
  BY <1>1, <1>2, <1>5 DEF NetLost, Here
<1>8. RestTyped'
  <2>1. crashed' \in BOOLEAN BY DEF NetLost
  <2>2. QED BY <2>1 DEF PInv, RestTyped, NetLost, tableVars, poolVars
<1>9. QED BY <1>6, <1>7, <1>8, SamePoolStep

\* Logging out keeps the invariant.
LEMMA LogoutStep ==
  ASSUME PInv, NEW p \in Player, Idle, Logout(p) PROVE PInv'
<1>1. PICK s : s = OnLoginOut(Places, p) OBVIOUS
<1>2. Sound(s) BY <1>1, PlacesSound, OnLoginOutSound
<1>3. Become(s) /\ UNCHANGED poolVars /\ UNCHANGED marrying
  BY <1>1 DEF Logout, SamePool, sysVars
<1>4. 0 \in 0..MaxPurse BY RoomAssumption
<1>5. RestTyped'
  BY <1>4 DEF PInv, RestTyped, Logout, SamePool, sysVars, tableVars, poolVars
<1>6. QED BY <1>2, <1>3, <1>5, SamePoolStep

\* Entering a room keeps the invariant.
LEMMA EnterRoomStep ==
  ASSUME PInv, NEW p \in Player, NEW r \in Room, EnterRoomReq(p, r) PROVE PInv'
<1>1. PICK left : left = IF room[p] \in {None, r} THEN Places ELSE LeaveRoom(Places, p) OBVIOUS
<1>2. Sound(left) /\ (room[p] = r => left.room[p] = r)
  <2>1. Sound(Places) /\ Places.room = room BY PlacesSound, PlacesIs
  <2>2. CASE left = Places BY <2>1, <2>2
  <2>3. CASE room[p] \notin {None, r} /\ left = LeaveRoom(Places, p) BY <2>1, <2>3, LeaveRoomSound
  <2>4. QED BY <1>1, <2>2, <2>3
<1>3. PICK s : s = IF room[p] = r \/ CanEnterRoom(left, r, p) THEN EnterRoom(left, r, p) ELSE left
  OBVIOUS
<1>4. Sound(s)
  <2>1. CASE s = left BY <1>2, <2>1
  <2>2. CASE (room[p] = r \/ CanEnterRoom(left, r, p)) /\ s = EnterRoom(left, r, p)
    <3>1. left.room[p] \in {None, r} BY <1>2, <2>2 DEF CanEnterRoom
    <3>2. QED BY <1>2, <2>2, <3>1, EnterRoomSound
  <2>3. QED BY <1>3, <2>1, <2>2
<1>5. Handled(s) /\ Idle BY <1>1, <1>3 DEF EnterRoomReq, Here
<1>6. QED BY <1>4, <1>5, HandledStep

\* Leaving a table, asked for or by the timer of the player, keeps the invariant.
LEMMA LeaveTableStep ==
  ASSUME PInv, NEW p \in Player, LeaveTableReq(p) \/ PlayerTick(p) PROVE PInv'
<1>1. PICK left : left = TryLeaveCurTable(Places, p) OBVIOUS
<1>2. Sound(left) /\ left.room = room BY <1>1, PlacesSound, PlacesIs, TryLeaveSound
<1>3. CASE PlayerTick(p)
  <2>1. Handled(left) /\ Idle BY <1>1, <1>3 DEF PlayerTick, Here
  <2>2. QED BY <1>2, <2>1, HandledStep
<1>4. CASE LeaveTableReq(p)
  <2>1. PICK s : s = IF room[p] = None THEN left ELSE LeaveRoom(left, p) OBVIOUS
  <2>2. Sound(s)
    <3>1. CASE s = left BY <1>2, <3>1
    <3>2. CASE room[p] # None /\ s = LeaveRoom(left, p) BY <1>2, <3>2, LeaveRoomSound
    <3>3. QED BY <2>1, <3>1, <3>2
  <2>3. Handled(s) /\ Idle BY <1>1, <1>4, <2>1 DEF LeaveTableReq, Here
  <2>4. QED BY <2>2, <2>3, HandledStep
<1>5. QED BY <1>3, <1>4

\* Entering a table by its number keeps the invariant.
LEMMA EnterTableStep ==
  ASSUME PInv, NEW p \in Player, NEW id \in 1..MaxTables, EnterTableReq(p, id) PROVE PInv'
<1>1. PICK r : r = room[p] OBVIOUS
<1>2. r \in Room /\ Places.room[p] = r /\ tables[r] \subseteq 1..MaxTables /\ id \in tables[r]
  BY <1>1, PlacesSound, PlacesIs DEF EnterTableReq
<1>3. PICK s : s = RoomEnterTable(Places, r, p, id) OBVIOUS
<1>4. Sound(s) BY <1>2, <1>3, PlacesSound, RoomEnterTableSound
<1>5. Handled(s) /\ Idle BY <1>1, <1>3 DEF EnterTableReq, Here
<1>6. QED BY <1>4, <1>5, HandledStep

\* Quick join of a room and of a table keep the invariant.
LEMMA FastJoinStep ==
  ASSUME PInv, NEW p \in Player, FastJoinRoom(p) \/ FastJoinTableReq(p) PROVE PInv'
<1>1. CASE FastJoinTableReq(p)
  <2>1. PICK r : r = room[p] OBVIOUS
  <2>2. r \in Room /\ Places.room[p] = r /\ tables[r] \subseteq 1..MaxTables
    BY <1>1, <2>1, PlacesSound, PlacesIs DEF FastJoinTableReq
  <2>3. PICK s : s = FastJoinTable(Places, r, p) OBVIOUS
  <2>4. Sound(s) BY <2>2, <2>3, PlacesSound, FastJoinTableSound
  <2>5. Handled(s) /\ Idle BY <1>1, <2>1, <2>3 DEF FastJoinTableReq, Here
  <2>6. QED BY <2>4, <2>5, HandledStep
<1>2. CASE FastJoinRoom(p)
  <2>1. PICK left : left = IF room[p] = None THEN Places ELSE LeaveRoom(Places, p) OBVIOUS
  <2>2. Sound(left)
    <3>1. Sound(Places) /\ Places.room = room BY PlacesSound, PlacesIs
    <3>2. CASE left = Places BY <3>1, <3>2
    <3>3. CASE room[p] # None /\ left = LeaveRoom(Places, p) BY <3>1, <3>3, LeaveRoomSound
    <3>4. QED BY <2>1, <3>2, <3>3
  <2>3. Idle BY <1>2 DEF FastJoinRoom, Here
  <2>4. \/ Handled(left)
        \/ \E r \in Room : CanEnterRoom(left, r, p) /\ Handled(FastJoinTable(EnterRoom(left, r, p), r, p))
    BY <1>2, <2>1 DEF FastJoinRoom
  <2>5. CASE Handled(left) BY <2>2, <2>3, <2>5, HandledStep
  <2>6. ASSUME NEW r \in Room, CanEnterRoom(left, r, p), Handled(FastJoinTable(EnterRoom(left, r, p), r, p))
        PROVE  PInv'
    <3>1. PICK in : in = EnterRoom(left, r, p) OBVIOUS
    <3>2. left.room[p] \in {None, r} BY <2>6 DEF CanEnterRoom
    <3>3. Sound(in) /\ in.room[p] = r BY <2>2, <3>1, <3>2, EnterRoomSound
    <3>4. PICK s : s = FastJoinTable(in, r, p) OBVIOUS
    <3>5. tables[r] \subseteq 1..MaxTables BY PlacesSound
    <3>6. Sound(s) BY <3>3, <3>4, <3>5, FastJoinTableSound
    <3>7. Handled(s) BY <2>6, <3>1, <3>4
    <3>8. QED BY <2>3, <3>6, <3>7, HandledStep
  <2>7. QED BY <2>4, <2>5, <2>6
<1>3. QED BY <1>1, <1>2

\* Being ready, sitting down and standing up keep the invariant.
LEMMA ChairStep ==
  ASSUME PInv, NEW p \in Player,
         \/ \E b \in BOOLEAN : TableReady(p, b)
         \/ \E i \in Seat : SitDownReq(p, i)
         \/ StandUpReq(p)
  PROVE  PInv'
<1>1. PICK t : t = table[p] OBVIOUS
<1>2. t \in Table /\ Places.table[p] = t /\ Idle
  BY <1>1, PlacesSound, PlacesIs DEF TableReady, SitDownReq, StandUpReq, Here
<1>3. ASSUME NEW b \in BOOLEAN, TableReady(p, b) PROVE PInv'
  <2>1. PICK s : s = PlayerReady(Places, t, p, b) OBVIOUS
  <2>2. Sound(s) BY <1>2, <2>1, PlacesSound, PlayerReadySound
  <2>3. Handled(s) BY <1>1, <1>3, <2>1 DEF TableReady
  <2>4. QED BY <1>2, <2>2, <2>3, HandledStep
<1>4. ASSUME NEW i \in Seat, SitDownReq(p, i) PROVE PInv'
  <2>1. PICK s : s = TakesChair(Places, t, i, p) OBVIOUS
  <2>2. Places.seat[t][i].player = None BY <1>1, <1>4, PlacesIs DEF SitDownReq
  <2>3. Sound(s) BY <1>2, <2>1, <2>2, PlacesSound, SitDownSound
  <2>4. Handled(s) BY <1>1, <1>4, <2>1 DEF SitDownReq, TakesChair
  <2>5. QED BY <1>2, <2>3, <2>4, HandledStep
<1>5. CASE StandUpReq(p)
  <2>1. PICK s : s = StandsUp(Places, t, p) OBVIOUS
  <2>2. SeatsOf(Places, t, p) # {} BY <1>1, <1>5 DEF StandUpReq
  <2>3. Sound(s) BY <1>2, <2>1, <2>2, PlacesSound, StandUpSound
  <2>4. Handled(s) BY <1>1, <1>5, <2>1 DEF StandUpReq, StandsUp
  <2>5. QED BY <1>2, <2>3, <2>4, HandledStep
<1>6. QED BY <1>3, <1>4, <1>5

\* Every message and every timer of a player keeps the invariant.
LEMMA PlayerStep ==
  ASSUME PInv, NEW p \in Player, PlayerMsg(p) \/ PlayerTimer(p) PROVE PInv'
<1>1. ASSUME NEW held \in 0..MaxPurse, EnterSvr(p, held) \/ FlushChangeAcc(p, held) PROVE PInv'
  BY <1>1, EnterSvrStep
<1>2. CASE NetBack(p)
  <2>1. 0 \in 0..MaxPurse BY RoomAssumption
  <2>2. QED BY <1>2, <2>1, EnterSvrStep
<1>3. CASE NetLost(p) BY <1>3, NetLostStep
<1>4. CASE BackLobby(p) \/ Recover(p) BY <1>4, LogoutStep DEF BackLobby, Recover, Here
<1>5. ASSUME NEW r \in Room, EnterRoomReq(p, r) PROVE PInv' BY <1>5, EnterRoomStep
<1>6. CASE LeaveTableReq(p) \/ PlayerTick(p) BY <1>6, LeaveTableStep
<1>7. ASSUME NEW id \in 1..MaxTables, EnterTableReq(p, id) PROVE PInv' BY <1>7, EnterTableStep
<1>8. CASE FastJoinRoom(p) \/ FastJoinTableReq(p) BY <1>8, FastJoinStep
<1>9. CASE \/ \E b \in BOOLEAN : TableReady(p, b)
           \/ \E i \in Seat : SitDownReq(p, i)
           \/ StandUpReq(p)
  BY <1>9, ChairStep
<1>10. QED BY <1>1, <1>2, <1>3, <1>4, <1>5, <1>6, <1>7, <1>8, <1>9 DEF PlayerMsg, SeatedMsg, ChairMsg, PlayerTimer

--------------------------------------------------------------------------------
(* The tables of a room.                                                   *)

\* The flags of a seat say nothing of who has it.
LEMMA FlagsKeepPlayer ==
  ASSUME NEW x \in SeatSet
  PROVE  /\ [x EXCEPT !.play = TRUE] \in SeatSet /\ [x EXCEPT !.play = TRUE].player = x.player
         /\ [x EXCEPT !.ready = FALSE] \in SeatSet /\ [x EXCEPT !.ready = FALSE].player = x.player
BY DEF SeatSet

\* A table that is taken into use keeps the places sound and the numbers of the others free.
LEMMA MallocTableStep ==
  ASSUME PInv, NEW r \in Room, MallocTable(r),
         UNCHANGED <<room, table, waiting, playerNum, lookers>>
  PROVE  /\ Sound(Places)' /\ FreeWell'
         /\ \A t : Used(t) /\ HostRoom(t) \in Room => Used(t)'
         /\ \E id \in 1..MaxTables :
              /\ id = IF freeTable[r] # <<>> THEN Head(freeTable[r]) ELSE Created(r) + 1
              /\ Used(<<r, id>>)'
         /\ tables' \in [Room -> SUBSET (1..MaxTables)]
         /\ freeTable' \in [Room -> Seq(1..MaxTables)]
         /\ gameState' \in [Table -> {"FREE", "PLAY", "GAME_END", "RECYCLE"}]
         /\ played' \in [Table -> BOOLEAN]
<1>0. RestTyped BY DEF PInv
<1>1. PICK id : id = IF freeTable[r] # <<>> THEN Head(freeTable[r]) ELSE Created(r) + 1 OBVIOUS
<1>2. id \in 1..MaxTables
  <2>1. freeTable[r] \in Seq(1..MaxTables) /\ tables[r] \in SUBSET (1..MaxTables)
    BY <1>0 DEF RestTyped
  <2>2. CASE freeTable[r] # <<>>
    <3>1. PICK q : q = freeTable[r] OBVIOUS
    <3>2. q \in Seq(1..MaxTables) /\ q # <<>> BY <2>1, <2>2, <3>1
    <3>3. Head(q) \in 1..MaxTables BY <3>2, HeadTailProperties
    <3>4. QED BY <1>1, <2>2, <3>1, <3>3
  <2>3. CASE freeTable[r] = <<>>
    <3>1. IsFiniteSet(1..MaxTables) BY RoomAssumption, FS_Interval
    <3>2. IsFiniteSet(tables[r]) BY <2>1, <3>1, FS_Subset
    <3>3. Cardinality(tables[r]) \in Nat BY <3>2, FS_CardinalityType
    <3>4. Created(r) = Cardinality(tables[r]) + Len(freeTable[r]) /\ Len(freeTable[r]) \in Nat
      BY <2>1 DEF Created
    <3>5. Created(r) < MaxTables BY <2>3 DEF MallocTable, CanMalloc
    <3>6. QED BY <1>1, <2>3, <3>3, <3>4, <3>5, RoomAssumption
  <2>4. QED BY <2>2, <2>3
<1>3. PICK t : t = <<r, id>> OBVIOUS
<1>4. t \in Table /\ HostRoom(t) = r /\ TableID(t) = id BY <1>2, <1>3, TableParts
<1>5. tables \in [Room -> SUBSET (1..MaxTables)] /\ freeTable \in [Room -> Seq(1..MaxTables)]
  BY <1>0 DEF RestTyped
<1>6. tables' = [tables EXCEPT ![r] = @ \cup {id}]
  BY <1>1 DEF MallocTable
<1>7. /\ tables' \in [Room -> SUBSET (1..MaxTables)]
      /\ \A x \in Room : tables'[x] = IF x = r THEN tables[r] \cup {id} ELSE tables[x]
  BY <1>2, <1>5, <1>6
<1>8. PICK f : f = IF freeTable[r] # <<>> THEN Tail(freeTable[r]) ELSE freeTable[r] OBVIOUS
<1>9. freeTable' = [freeTable EXCEPT ![r] = f]
  BY <1>8 DEF MallocTable
<1>10. f \in Seq(1..MaxTables)
  <2>1. PICK q : q = freeTable[r] OBVIOUS
  <2>2. q \in Seq(1..MaxTables) BY <1>5, <2>1
  <2>3. q # <<>> => Tail(q) \in Seq(1..MaxTables) BY <2>2, HeadTailProperties
  <2>4. QED BY <1>8, <2>1, <2>2, <2>3
<1>11. /\ freeTable' \in [Room -> Seq(1..MaxTables)]
       /\ \A x \in Room : freeTable'[x] = IF x = r THEN f ELSE freeTable[x]
  BY <1>5, <1>9, <1>10
<1>12. FreeWell'
  <2>1. FreeWell BY DEF PInv
  <2> SUFFICES ASSUME NEW x \in Room
               PROVE  /\ \A m, n \in DOMAIN freeTable'[x] : m # n => freeTable'[x][m] # freeTable'[x][n]
                      /\ \A n \in DOMAIN freeTable'[x] : freeTable'[x][n] \notin tables'[x]
    BY DEF FreeWell
  <2>2. CASE x # r
    <3>1. tables'[x] = tables[x] /\ freeTable'[x] = freeTable[x] BY <1>7, <1>11, <2>2
    <3>2. QED BY <2>1, <3>1 DEF FreeWell
  <2>3. CASE x = r /\ freeTable[r] = <<>> BY <1>8, <1>11, <2>3
  <2>4. CASE x = r /\ freeTable[r] # <<>>
    <3>1. freeTable[r] \in Seq(1..MaxTables) BY <1>5
    <3>2. PICK k \in Nat : k = Len(freeTable[r]) /\ k > 0 /\ DOMAIN freeTable[r] = 1..k
      BY <2>4, <3>1
    <3>3. DOMAIN f = 1..(k - 1) /\ \A n \in 1..(k - 1) : f[n] = freeTable[r][n + 1]
      BY <1>8, <2>4, <3>1, <3>2
    <3>4. id = freeTable[r][1] BY <1>1, <2>4, <3>1
    <3>5. \A n \in 1..(k - 1) : n + 1 \in 1..k /\ n + 1 # 1 BY <3>2
    <3>6. 1 \in 1..k BY <3>2
    <3>7. \A n \in 1..(k - 1) : f[n] # id /\ f[n] \notin tables[r]
      BY <2>1, <3>2, <3>3, <3>4, <3>5, <3>6 DEF FreeWell
    <3>8. ASSUME NEW m \in 1..(k - 1), NEW n \in 1..(k - 1), m # n PROVE f[m] # f[n]
      <4>1. m + 1 # n + 1 /\ m + 1 \in 1..k /\ n + 1 \in 1..k BY <3>2, <3>8
      <4>2. QED BY <2>1, <3>2, <3>3, <4>1 DEF FreeWell
    <3>9. tables'[x] = tables[r] \cup {id} /\ freeTable'[x] = f BY <1>7, <1>11, <2>4
    <3>10. QED BY <3>3, <3>7, <3>8, <3>9
  <2>5. QED BY <2>2, <2>3, <2>4
<1>13. \A x : Used(x) /\ HostRoom(x) \in Room => Used(x)' BY <1>7 DEF Used
<1>14. Used(t)' BY <1>4, <1>7 DEF Used
<1>15. Places \in PlaceSet /\ Sound(Places) BY PlacesSound
<1>16. PICK g : g = [seat EXCEPT ![t] = [i \in Seat |-> [@[i] EXCEPT !.ready = FALSE]]] OBVIOUS
<1>17. seat \in [Table -> [Seat -> SeatSet]] BY <1>15, PlaceParts, PlacesIs
<1>18. /\ g \in [Table -> [Seat -> SeatSet]]
       /\ \A x \in Table, i \in Seat : g[x][i].player = seat[x][i].player
  <2>1. PICK h : h = [i \in Seat |-> [seat[t][i] EXCEPT !.ready = FALSE]] OBVIOUS
  <2>2. ASSUME NEW i \in Seat
        PROVE  [seat[t][i] EXCEPT !.ready = FALSE] \in SeatSet /\ [seat[t][i] EXCEPT !.ready = FALSE].player = seat[t][i].player
    <3>1. PICK x \in SeatSet : x = seat[t][i] BY <1>4, <1>17
    <3>2. QED BY <3>1, FlagsKeepPlayer
  <2>3. h \in [Seat -> SeatSet] /\ \A i \in Seat : h[i].player = seat[t][i].player BY <2>1, <2>2
  <2>4. g = [seat EXCEPT ![t] = h] BY <1>4, <1>16, <1>17, <2>1
  <2>5. QED BY <1>4, <1>17, <2>3, <2>4
<1>19. PICK s : s = WithSeat(Places, g) OBVIOUS
<1>20. /\ s \in PlaceSet /\ s.seat = g /\ s.room = Places.room /\ s.table = Places.table
       /\ s.waiting = Places.waiting /\ s.num = Places.num /\ s.lookers = Places.lookers
  BY <1>15, <1>18, <1>19, WithSeatIs
<1>21. Sound(s) BY <1>15, <1>18, <1>20, FlagsSound, PlacesIs
<1>22. seat' = g BY <1>1, <1>3, <1>16 DEF MallocTable
<1>23. Become(s) BY <1>20, <1>22, PlacesIs DEF Become
<1>24. Sound(Places)'
  <2>1. Places' = s BY <1>20, <1>23, PlaceParts DEF Places, Become
  <2>2. AtUsedTables(Places)'
    <3>1. \A p \in Player : s.table[p] # None => s.table[p] \in Table /\ Used(s.table[p])
      BY <1>20, <1>21, PlaceParts DEF Sound, Placed, AtUsedTables
    <3>2. \A x \in Table : Used(x) => Used(x)' BY <1>13, TableParts
    <3>3. \A p \in Player : s.table[p] # None => Used(s.table[p])' BY <3>1, <3>2
    <3>4. QED BY <2>1, <3>3 DEF AtUsedTables
  <2>3. UnusedEmpty(Places)'
    <3>1. \A x \in Table : Used(x) => Used(x)' BY <1>13, TableParts
    <3>2. QED BY <1>21, <2>1, <3>1 DEF Sound, Placed, UnusedEmpty, Seated
  <2>4. (Places \in PlaceSet)' BY <1>20, <2>1 DEF PlaceSet
  <2>5. Counts(Places)' BY <1>21, <2>1 DEF Sound, Placed, Counts, Counted, Members
  <2>6. Knows(Places)' BY <1>21, <2>1 DEF Sound, Placed, Knows, Seated
  <2>7. (\A p \in Player : WaitsWell(Places, p))' BY <1>21, <2>1 DEF Sound, WaitsWell
  <2>8. QED BY <2>2, <2>3, <2>4, <2>5, <2>6, <2>7 DEF Sound, Placed
<1>25. /\ gameState' \in [Table -> {"FREE", "PLAY", "GAME_END", "RECYCLE"}]
       /\ played' \in [Table -> BOOLEAN]
  BY <1>0 DEF MallocTable, RestTyped
<1>26. Used(<<r, id>>)' BY <1>3, <1>14
<1>27. QED BY <1>1, <1>2, <1>7, <1>11, <1>12, <1>13, <1>24, <1>25, <1>26

\* CheckNewTable keeps the invariant.
LEMMA CheckNewTableStep ==
  ASSUME PInv, NEW r \in Room, CheckNewTable(r) PROVE PInv'
<1>1. MallocTable(r) /\ UNCHANGED <<room, table, waiting, playerNum, lookers>>
  BY DEF CheckNewTable
<1>2. /\ Sound(Places)' /\ FreeWell'
      /\ tables' \in [Room -> SUBSET (1..MaxTables)] /\ freeTable' \in [Room -> Seq(1..MaxTables)]
      /\ gameState' \in [Table -> {"FREE", "PLAY", "GAME_END", "RECYCLE"}]
      /\ played' \in [Table -> BOOLEAN]
  BY <1>1, MallocTableStep
<1>3. RestTyped' BY <1>2 DEF PInv, RestTyped, CheckNewTable, sysVars
<1>4. Marries' BY DEF Marries, CheckNewTable, Idle, sysVars
<1>5. QED BY <1>2, <1>3, <1>4 DEF PInv

\* A function on the numbers up to c is a sequence of length c.
LEMMA FunctionIsSeq ==
  ASSUME NEW S, NEW c \in Nat, NEW f \in [1..c -> S] PROVE f \in Seq(S) /\ Len(f) = c
OBVIOUS

\* The empty tables that are given up are among the free ones then, each of them once.
LEMMA CheckRecoverStep ==
  ASSUME PInv, NEW r \in Room, CheckRecover(r) PROVE PInv'
<1>0. RestTyped /\ FreeWell /\ Sound(Places) /\ Places \in PlaceSet BY PlacesSound DEF PInv
<1>1. PICK old : old = {i \in tables[r] : IsEmptyTable(<<r, i>>)} OBVIOUS
<1>2. PICK order \in [1..Cardinality(old) -> old] :
        /\ \A i \in old : \E n \in DOMAIN order : order[n] = i
        /\ freeTable' = [freeTable EXCEPT ![r] = @ \o order]
  BY <1>1 DEF CheckRecover
<1>3. tables[r] \in SUBSET (1..MaxTables) /\ freeTable[r] \in Seq(1..MaxTables)
  BY <1>0 DEF RestTyped
<1>4. old \subseteq tables[r] /\ old \in SUBSET (1..MaxTables) BY <1>1, <1>3
<1>5. IsFiniteSet(old) /\ Cardinality(old) \in Nat
  <2>1. IsFiniteSet(1..MaxTables) BY RoomAssumption, FS_Interval
  <2>2. IsFiniteSet(old) BY <1>4, <2>1, FS_Subset
  <2>3. QED BY <2>2, FS_CardinalityType
<1>6. PICK c \in Nat : c = Cardinality(old) BY <1>5
<1>7. order \in [1..c -> old] /\ DOMAIN order = 1..c BY <1>2, <1>6
<1>8. order \in Seq(1..MaxTables) /\ Len(order) = c
  <2>1. order \in [1..c -> 1..MaxTables] BY <1>4, <1>7
  <2>2. QED BY <2>1, FunctionIsSeq
<1>9. \A m, n \in 1..c : m # n => order[m] # order[n]
  <2>1. IsFiniteSet(1..c) /\ Cardinality(1..c) = c BY <1>6, FS_Interval
  <2>2. order \in Surjection(1..c, old) BY <1>2, <1>7 DEF Surjection
  <2>3. order \in Injection(1..c, old)
    BY <1>5, <1>6, <2>1, <2>2, FS_SurjSameCardinalityImpliesInj
  <2>4. QED BY <2>3 DEF Injection, IsInjective
<1>10. tables' = [tables EXCEPT ![r] = @ \ old] BY <1>1 DEF CheckRecover
<1>11. /\ tables' \in [Room -> SUBSET (1..MaxTables)]
       /\ \A x \in Room : tables'[x] = IF x = r THEN tables[r] \ old ELSE tables[x]
  BY <1>0, <1>10 DEF RestTyped
<1>12. PICK q : q = freeTable[r] OBVIOUS
<1>13. PICK f : f = q \o order OBVIOUS
<1>14. q \in Seq(1..MaxTables) BY <1>3, <1>12
<1>15. PICK k \in Nat : k = Len(q) /\ DOMAIN q = 1..k BY <1>14, LenProperties
<1>16. /\ f \in Seq(1..MaxTables) /\ DOMAIN f = 1..(k + c)
       /\ \A n \in 1..(k + c) : f[n] = IF n <= k THEN q[n] ELSE order[n - k]
  <2>1. /\ f \in Seq(1..MaxTables) /\ Len(f) = Len(q) + Len(order)
        /\ \A n \in 1..(Len(q) + Len(order)) : f[n] = IF n <= Len(q) THEN q[n] ELSE order[n - Len(q)]
    BY <1>8, <1>13, <1>14, ConcatProperties
  <2>2. DOMAIN f = 1..Len(f) BY <2>1, LenProperties
  <2>3. QED BY <1>8, <1>15, <2>1, <2>2
<1>17. freeTable' = [freeTable EXCEPT ![r] = f] BY <1>2, <1>12, <1>13
<1>18. /\ freeTable' \in [Room -> Seq(1..MaxTables)]
       /\ \A x \in Room : freeTable'[x] = IF x = r THEN f ELSE freeTable[x]
  BY <1>0, <1>16, <1>17 DEF RestTyped
<1>19. FreeWell'
  <2> SUFFICES ASSUME NEW x \in Room
               PROVE  /\ \A m, n \in DOMAIN freeTable'[x] : m # n => freeTable'[x][m] # freeTable'[x][n]
                      /\ \A n \in DOMAIN freeTable'[x] : freeTable'[x][n] \notin tables'[x]
    BY DEF FreeWell
  <2>1. CASE x # r
    <3>1. tables'[x] = tables[x] /\ freeTable'[x] = freeTable[x] BY <1>11, <1>18, <2>1
    <3>2. QED BY <1>0, <3>1 DEF FreeWell
  <2>2. CASE x = r
    <3>1. tables'[x] = tables[r] \ old /\ freeTable'[x] = f BY <1>11, <1>18, <2>2
    <3>2. /\ \A m, n \in 1..k : m # n => q[m] # q[n]
          /\ \A n \in 1..k : q[n] \notin tables[r]
      BY <1>0, <1>12, <1>15 DEF FreeWell
    <3>3. \A n \in 1..(k + c) : n \in 1..k \/ (n - k \in 1..c /\ ~(n <= k)) BY <1>6, <1>15
    <3>4. \A n \in 1..k : n <= k BY <1>15
    <3>5. \A n \in 1..c : order[n] \in old BY <1>7
    <3>6. ASSUME NEW n \in 1..(k + c) PROVE f[n] \notin tables[r] \ old
      <4>1. CASE n \in 1..k BY <1>16, <3>2, <3>4, <4>1
      <4>2. CASE n - k \in 1..c /\ ~(n <= k) BY <1>16, <3>5, <4>2
      <4>3. QED BY <3>3, <4>1, <4>2
    <3>7. ASSUME NEW m \in 1..(k + c), NEW n \in 1..(k + c), m # n PROVE f[m] # f[n]
      <4>1. CASE m \in 1..k /\ n \in 1..k BY <1>16, <3>2, <3>4, <3>7, <4>1
      <4>2. CASE m \in 1..k /\ n - k \in 1..c /\ ~(n <= k)
        BY <1>4, <1>16, <3>2, <3>4, <3>5, <4>2
      <4>3. CASE m - k \in 1..c /\ ~(m <= k) /\ n \in 1..k
        BY <1>4, <1>16, <3>2, <3>4, <3>5, <4>3
      <4>4. CASE m - k \in 1..c /\ ~(m <= k) /\ n - k \in 1..c /\ ~(n <= k)
        <5>1. m - k # n - k BY <1>15, <3>7
        <5>2. QED BY <1>9, <1>16, <4>4, <5>1
      <4>5. QED BY <3>3, <4>1, <4>2, <4>3, <4>4
    <3>8. QED BY <1>16, <3>1, <3>6, <3>7
  <2>3. QED BY <2>1, <2>2
<1>20. ASSUME NEW t \in Table, Used(t), ~Used(t)' PROVE Seated(Places, t) = {} /\ lookers[t] = {}
  <2>1. HostRoom(t) = r /\ TableID(t) \in old
    BY <1>11, <1>20, TableParts DEF Used
  <2>2. t = <<r, TableID(t)>> BY <2>1, TableParts
  <2>3. IsEmptyTable(<<r, TableID(t)>>) BY <1>1, <2>1
  <2>4. QED BY <2>2, <2>3 DEF IsEmptyTable
<1>21. Places' = Places BY DEF CheckRecover, placeVars, Places
<1>22. AtUsedTables(Places)'
  <2>1. ASSUME NEW p \in Player, table[p] # None, NEW t \in Table, t = table[p] PROVE Used(t)'
    <3>1. Used(t) BY <1>0, <2>1, PlacesIs DEF Sound, Placed, AtUsedTables
    <3>2. p \in Seated(Places, t) \/ p \in lookers[t]
      BY <1>0, <2>1, PlacesIs DEF Sound, Placed, Knows
    <3>3. QED BY <1>20, <3>1, <3>2
  <2>2. table' = table /\ Places'.table = table' BY <1>21, PlacesIs DEF CheckRecover, placeVars
  <2>3. \A p \in Player : table[p] \in Table \cup {None} BY PlacesSound
  <2>4. ASSUME NEW p \in Player, table'[p] # None PROVE Used(table[p])'
    <3>1. PICK t \in Table : t = table[p] BY <2>2, <2>3, <2>4
    <3>2. Used(t)' BY <2>1, <2>2, <2>4, <3>1
    <3>3. QED BY <2>2, <3>1, <3>2 DEF Used
  <2>5. QED BY <2>2, <2>4 DEF AtUsedTables
<1>23. UnusedEmpty(Places)'
  <2>1. \A t \in Table : ~Used(t)' => Seated(Places, t) = {} /\ lookers[t] = {}
    BY <1>0, <1>20, PlacesIs DEF Sound, Placed, UnusedEmpty
  <2>2. QED BY <1>21, <2>1, PlacesIs DEF UnusedEmpty, Seated
<1>24. Sound(Places)'
  <2>1. (Places \in PlaceSet)' BY <1>0, <1>21 DEF PlaceSet
  <2>2. Counts(Places)' BY <1>0, <1>21 DEF Sound, Placed, Counts, Counted, Members
  <2>3. Knows(Places)' BY <1>0, <1>21 DEF Sound, Placed, Knows, Seated
  <2>4. (\A p \in Player : WaitsWell(Places, p))' BY <1>0, <1>21 DEF Sound, WaitsWell
  <2>5. QED BY <1>22, <1>23, <2>1, <2>2, <2>3, <2>4 DEF Sound, Placed
<1>25. RestTyped' BY <1>0, <1>11, <1>18 DEF RestTyped, CheckRecover, tableVars, sysVars
<1>26. Marries' BY DEF Marries, CheckRecover, Idle, sysVars
<1>27. QED BY <1>19, <1>24, <1>25, <1>26 DEF PInv

--------------------------------------------------------------------------------
(* The loop of MarryTable, and the timers of a table.                      *)

\* Who is matched has a table when the name is off the list.
LEMMA MarryJoinStep == ASSUME PInv, MarryJoin PROVE PInv'
<1>1. PICK r : r = marrying.room OBVIOUS
<1>2. r \in MarryRoom /\ r \in Room /\ marrying # None /\ marrying.player = None
  BY <1>1, RoomAssumption DEF PInv, Marries, MarryJoin, Looping
<1>3. PICK p \in Waiters(r) :
        \/ /\ Become(LeaveMarry(JoinNoFullTable(Places, r, p, waiting[r][p]), r, p))
           /\ UNCHANGED marrying
        \/ /\ marrying' = [marrying EXCEPT !.player = p]
           /\ UNCHANGED placeVars
  BY <1>1 DEF MarryJoin
<1>4. p \in Player /\ waiting[r][p] # None BY <1>3 DEF Waiters
<1>5. RestTyped /\ Sound(Places) /\ tables[r] \subseteq 1..MaxTables /\ UNCHANGED poolVars
  BY <1>2, PlacesSound DEF PInv, MarryJoin
<1>6. CASE Become(LeaveMarry(JoinNoFullTable(Places, r, p, waiting[r][p]), r, p)) /\ UNCHANGED marrying
  <2>1. PICK ex : ex = waiting[r][p] OBVIOUS
  <2>2. PICK v : v = JoinNoFullTable(Places, r, p, ex) OBVIOUS
  <2>3. PICK s : s = LeaveMarry(v, r, p) OBVIOUS
  <2>4. Placed(Places) BY <1>5 DEF Sound
  <2>5. /\ Placed(v) /\ v.room = Places.room /\ v.waiting = Places.waiting
        /\ \A q \in Player \ {p} : v.table[q] = Places.table[q]
    BY <1>2, <1>4, <1>5, <2>2, <2>4, JoinNoFullTablePlaced
  <2>6. \A q \in Player \ {p} : WaitsWell(v, q) BY <1>5, <2>5 DEF Sound, WaitsWell
  <2>7. room[p] = r BY <1>2, <1>4, <1>5, PlacesIs DEF Sound, WaitsWell
  <2>8. \A x \in Room \ {r} : v.waiting[x][p] = None
    BY <1>4, <1>5, <2>5, <2>7, PlacesIs DEF Sound, WaitsWell
  <2>9. Sound(s) BY <1>2, <1>4, <2>3, <2>5, <2>6, <2>8, LeaveMarrySound
  <2>10. Become(s) /\ UNCHANGED marrying BY <1>6, <2>1, <2>2, <2>3
  <2>11. Sound(Places)' BY <1>5, <2>9, <2>10, BecomeSound DEF poolVars
  <2>12. RestTyped' BY <1>5, <2>10 DEF RestTyped, MarryJoin, tableVars, poolVars
  <2>13. Marries' BY <1>2, <1>5, <2>10 DEF PInv, Marries, Used, poolVars
  <2>14. FreeWell' BY <1>5, FreeWellStays DEF PInv
  <2>15. QED BY <2>11, <2>12, <2>13, <2>14 DEF PInv
<1>7. CASE marrying' = [marrying EXCEPT !.player = p] /\ UNCHANGED placeVars
  <2>1. Sound(Places)' BY <1>5, <1>7, SamePlaces, BecomeSound DEF poolVars
  <2>2. /\ marrying \in [room : Room, made : Table \cup {None}, player : Player \cup {None}]
    BY <1>2, <1>5 DEF RestTyped
  <2>3. /\ marrying' \in [room : Room, made : Table \cup {None}, player : Player \cup {None}]
        /\ marrying'.room = r /\ marrying'.made = marrying.made /\ marrying'.player = p
    BY <1>1, <1>4, <1>7, <2>2
  <2>4. RestTyped' BY <1>5, <2>3 DEF RestTyped, MarryJoin, tableVars, poolVars
  <2>5. Marries' BY <1>1, <1>2, <1>4, <1>5, <1>7, <2>3 DEF PInv, Marries, Used, poolVars, placeVars
  <2>6. FreeWell' BY <1>5, FreeWellStays DEF PInv
  <2>7. QED BY <2>1, <2>4, <2>5, <2>6 DEF PInv
<1>8. QED BY <1>3, <1>6, <1>7

\* Taking a table for those who wait keeps the invariant.
LEMMA MarryMallocStep == ASSUME PInv, MarryMalloc PROVE PInv'
<1>1. PICK r : r = marrying.room OBVIOUS
<1>2. r \in MarryRoom /\ r \in Room /\ marrying # None /\ marrying.player # None
  BY <1>1, RoomAssumption DEF PInv, Marries, MarryMalloc, Looping
<1>3. MallocTable(r) /\ UNCHANGED <<room, table, waiting, playerNum, lookers>>
  BY <1>1 DEF MarryMalloc
<1>4. /\ Sound(Places)' /\ FreeWell'
      /\ \E id \in 1..MaxTables :
           /\ id = IF freeTable[r] # <<>> THEN Head(freeTable[r]) ELSE Created(r) + 1
           /\ Used(<<r, id>>)'
      /\ tables' \in [Room -> SUBSET (1..MaxTables)] /\ freeTable' \in [Room -> Seq(1..MaxTables)]
      /\ gameState' \in [Table -> {"FREE", "PLAY", "GAME_END", "RECYCLE"}]
      /\ played' \in [Table -> BOOLEAN]
  BY <1>2, <1>3, MallocTableStep
<1>5. PICK id \in 1..MaxTables :
        /\ id = IF freeTable[r] # <<>> THEN Head(freeTable[r]) ELSE Created(r) + 1
        /\ Used(<<r, id>>)'
  BY <1>4
<1>6. PICK t : t = <<r, id>> OBVIOUS
<1>7. t \in Table /\ HostRoom(t) = r /\ Used(t)' BY <1>2, <1>5, <1>6, TableParts
<1>8. RestTyped BY DEF PInv
<1>9. marrying' = [marrying EXCEPT !.made = t] BY <1>1, <1>5, <1>6 DEF MarryMalloc
<1>10. marrying \in [room : Room, made : Table \cup {None}, player : Player \cup {None}]
  BY <1>2, <1>8 DEF RestTyped
<1>11. /\ marrying' \in [room : Room, made : Table \cup {None}, player : Player \cup {None}]
       /\ marrying'.room = r /\ marrying'.made = t /\ marrying'.player = marrying.player
  BY <1>1, <1>7, <1>9, <1>10
<1>12. RestTyped' BY <1>4, <1>8, <1>11 DEF RestTyped, MarryMalloc
<1>13. Marries'
  <2>1. marrying'.room \in MarryRoom BY <1>2, <1>11
  <2>2. HostRoom(t) = marrying'.room /\ Used(t)' BY <1>7, <1>11
  <2>3. Used(marrying.made)' BY <1>11, <2>2 DEF Used
  <2>4. waiting[r][marrying.player] # None BY <1>1, <1>2 DEF PInv, Marries
  <2>5. waiting' = waiting BY DEF MarryMalloc
  <2>6. waiting'[marrying'.room][marrying'.player] # None BY <1>11, <2>4, <2>5
  <2>7. QED BY <1>11, <2>1, <2>2, <2>3, <2>6 DEF Marries
<1>14. QED BY <1>4, <1>12, <1>13 DEF PInv

\* The player the table was made for sits there, or is out of the room.
LEMMA MarryEnterStep == ASSUME PInv, MarryEnter PROVE PInv'
<1>1. PICK r, t, p : r = marrying.room /\ t = marrying.made /\ p = marrying.player OBVIOUS
<1>2. /\ r \in MarryRoom /\ r \in Room /\ marrying # None /\ p # None
      /\ waiting[r][p] # None /\ t # None /\ HostRoom(t) = r /\ Used(t)
  BY <1>1, RoomAssumption DEF PInv, Marries, MarryEnter, Looping, NeedsNewTable
<1>3. RestTyped /\ Sound(Places) /\ UNCHANGED poolVars BY DEF PInv, MarryEnter
<1>4. marrying \in [room : Room, made : Table \cup {None}, player : Player \cup {None}]
  BY <1>2, <1>3 DEF RestTyped
<1>5. t \in Table /\ p \in Player BY <1>1, <1>2, <1>4
<1>6. room[p] = r /\ \A x \in Room \ {r} : waiting[x][p] = None
  BY <1>2, <1>3, <1>5, PlacesIs DEF Sound, WaitsWell
<1>7. PICK s : s = IF CanEnterTable(Places, t, p) THEN LeaveMarry(EnterTable(Places, t, p), r, p)
                   ELSE LeaveRoom(Places, p)
  OBVIOUS
<1>8. Become(s) BY <1>1, <1>6, <1>7 DEF MarryEnter
<1>9. Sound(s)
  <2>1. CASE CanEnterTable(Places, t, p) /\ s = LeaveMarry(EnterTable(Places, t, p), r, p)
    <3>1. PICK v : v = EnterTable(Places, t, p) OBVIOUS
    <3>2. Placed(Places) BY <1>3 DEF Sound
    <3>3. /\ Placed(v) /\ v.room = Places.room /\ v.waiting = Places.waiting
          /\ \A q \in Player \ {p} : v.table[q] = Places.table[q]
      BY <1>2, <1>5, <2>1, <3>1, <3>2, EnterTablePlaced
    <3>4. \A q \in Player \ {p} : WaitsWell(v, q) BY <1>3, <3>3 DEF Sound, WaitsWell
    <3>5. \A x \in Room \ {r} : v.waiting[x][p] = None BY <1>6, <3>3, PlacesIs
    <3>6. s = LeaveMarry(v, r, p) BY <2>1, <3>1
    <3>7. QED BY <1>2, <1>5, <3>3, <3>4, <3>5, <3>6, LeaveMarrySound
  <2>2. CASE s = LeaveRoom(Places, p)
    <3>1. Places.room[p] # None BY <1>2, <1>6, PlacesIs, RoomAssumption
    <3>2. QED BY <1>3, <1>5, <2>2, <3>1, LeaveRoomSound
  <2>3. QED BY <1>7, <2>1, <2>2
<1>10. Sound(Places)' BY <1>3, <1>8, <1>9, BecomeSound DEF poolVars
<1>11. /\ marrying' \in [room : Room, made : Table \cup {None}, player : Player \cup {None}]
       /\ marrying'.room = r /\ marrying'.made = t /\ marrying'.player = None
  BY <1>1, <1>4 DEF MarryEnter
<1>12. RestTyped' BY <1>3, <1>11 DEF RestTyped, MarryEnter, tableVars, poolVars
<1>13. Marries'
  <2>1. Used(marrying.made)' BY <1>2, <1>3, <1>11 DEF Used, poolVars
  <2>2. QED BY <1>2, <1>11, <2>1 DEF Marries
<1>14. FreeWell' BY <1>3, FreeWellStays DEF PInv
<1>15. QED BY <1>10, <1>12, <1>13, <1>14 DEF PInv

\* Starting and ending the loop of MarryTable keep the invariant.
LEMMA MarryEndsStep ==
  ASSUME PInv, NEW r \in Room, MarryTable(r) \/ MarryDone PROVE PInv'
<1>1. Become(Places) /\ UNCHANGED poolVars /\ r \in Room
  BY SamePlaces DEF MarryTable, MarryDone
<1>2. Sound(Places)' BY <1>1, PlacesSound, BecomeSound DEF poolVars
<1>3. FreeWell' BY <1>1, FreeWellStays DEF PInv
<1>4. CASE MarryTable(r)
  <2>1. RestTyped' BY <1>4 DEF PInv, RestTyped, MarryTable, tableVars, poolVars
  <2>2. Marries' BY <1>4 DEF MarryTable, Marries
  <2>3. QED BY <1>2, <1>3, <2>1, <2>2 DEF PInv
<1>5. CASE MarryDone
  <2>1. RestTyped' BY <1>5 DEF PInv, RestTyped, MarryDone, tableVars, poolVars
  <2>2. Marries' BY <1>5 DEF MarryDone, Marries
  <2>3. QED BY <1>2, <1>3, <2>1, <2>2 DEF PInv
<1>6. QED BY <1>4, <1>5

\* A round begins and ends with everybody where he is.
LEMMA RoundStep ==
  ASSUME PInv, NEW t \in Table, StartRound(t) \/ EndRound(t) PROVE PInv'
<1>1. Places \in PlaceSet /\ Sound(Places) /\ RestTyped BY PlacesSound DEF PInv
<1>2. seat \in [Table -> [Seat -> SeatSet]] BY <1>1, PlaceParts, PlacesIs
<1>3. seat' \in [Table -> [Seat -> SeatSet]]
      /\ \A x \in Table, i \in Seat : seat'[x][i].player = seat[x][i].player
  <2>1. PICK h : h = IF StartRound(t) THEN [i \in Seat |-> [seat[t][i] EXCEPT !.play = TRUE]]
                     ELSE [i \in Seat |-> [seat[t][i] EXCEPT !.ready = FALSE]]
    OBVIOUS
  <2>2. ASSUME NEW i \in Seat
        PROVE  /\ [seat[t][i] EXCEPT !.play = TRUE] \in SeatSet
               /\ [seat[t][i] EXCEPT !.play = TRUE].player = seat[t][i].player
               /\ [seat[t][i] EXCEPT !.ready = FALSE] \in SeatSet
               /\ [seat[t][i] EXCEPT !.ready = FALSE].player = seat[t][i].player
    <3>1. PICK x \in SeatSet : x = seat[t][i] BY <1>2
    <3>2. QED BY <3>1, FlagsKeepPlayer
  <2>3. h \in [Seat -> SeatSet] /\ \A i \in Seat : h[i].player = seat[t][i].player BY <2>1, <2>2
  <2>4. seat' = [seat EXCEPT ![t] = h]
    <3>1. CASE StartRound(t) BY <1>2, <2>1, <3>1 DEF StartRound
    <3>2. CASE ~StartRound(t) BY <1>2, <2>1, <3>2 DEF EndRound
    <3>3. QED BY <3>1, <3>2
  <2>5. QED BY <1>2, <2>3, <2>4
<1>4. PICK g : g = seat' OBVIOUS
<1>5. PICK s : s = WithSeat(Places, g) OBVIOUS
<1>6. /\ s \in PlaceSet /\ s.seat = g /\ s.room = Places.room /\ s.table = Places.table
      /\ s.waiting = Places.waiting /\ s.num = Places.num /\ s.lookers = Places.lookers
  BY <1>1, <1>3, <1>4, <1>5, WithSeatIs
<1>7. Sound(s) BY <1>1, <1>3, <1>4, <1>6, FlagsSound, PlacesIs
<1>8. Become(s) /\ UNCHANGED poolVars /\ UNCHANGED marrying /\ Idle
  BY <1>4, <1>6, PlacesIs DEF Become, StartRound, EndRound, sysVars
<1>9. coins' \in [Player -> 0..MaxPurse]
  <2>1. CASE StartRound(t) BY <1>1, <2>1 DEF StartRound, RestTyped
  <2>2. CASE EndRound(t) BY <2>2 DEF EndRound
  <2>3. QED BY <2>1, <2>2
<1>10. RestTyped' BY <1>1, <1>9 DEF RestTyped, StartRound, EndRound, poolVars, sysVars
<1>11. QED BY <1>7, <1>8, <1>10, SamePoolStep

\* Who has to leave after a round leaves the table only.
LEMMA ClearStep ==
  ASSUME PInv, NEW t \in Table, RoundFlush(t) \/ ClearPlayers(t) PROVE PInv'
<1>1. PICK who : Become(LeaveTable(Places, t, who))
  BY DEF RoundFlush, ClearPlayers
<1>2. PICK s : s = LeaveTable(Places, t, who) OBVIOUS
<1>3. Sound(s) BY <1>2, PlacesSound, LeaveTableSound
<1>4. Become(s) /\ UNCHANGED poolVars /\ UNCHANGED marrying /\ Idle
  BY <1>1, <1>2 DEF RoundFlush, ClearPlayers, sysVars
<1>5. RestTyped
  BY DEF PInv
<1>6. gameState' \in [Table -> {"FREE", "PLAY", "GAME_END", "RECYCLE"}] /\ clearing' \in [Table -> BOOLEAN]
  BY <1>5 DEF RestTyped, RoundFlush, ClearPlayers
<1>7. RestTyped' BY <1>5, <1>6 DEF RestTyped, RoundFlush, ClearPlayers, poolVars, sysVars
<1>8. QED BY <1>3, <1>4, <1>7, SamePoolStep

--------------------------------------------------------------------------------
(* The invariant, and what follows from it.                                *)

\* The invariant holds at the start, where nobody is anywhere.
LEMMA InitPlaces == Init => PInv
<1> SUFFICES ASSUME Init PROVE PInv OBVIOUS
<1> USE RoomAssumption
<1>1. RestTyped
  <2>1. TableNum \in 0..MaxTables /\ 1..TableNum \subseteq 1..MaxTables /\ 0 \in 0..MaxPurse OBVIOUS
  <2>2. tables \in [Room -> SUBSET (1..MaxTables)] BY <2>1 DEF Init
  <2>3. <<>> \in Seq(1..MaxTables) OBVIOUS
  <2>4. freeTable \in [Room -> Seq(1..MaxTables)] BY <2>3 DEF Init
  <2>5. QED BY <2>1, <2>2, <2>4 DEF Init, RestTyped
<1>2. EmptySeat \in SeatSet /\ EmptySeat.player = None BY DEF EmptySeat, SeatSet
<1>3. Places \in PlaceSet
  <2>1. seat \in [Table -> [Seat -> SeatSet]] BY <1>2 DEF Init
  <2>2. lookers \in [Table -> SUBSET Player] BY DEF Init
  <2>3. playerNum \in Nums BY DEF Init, Nums
  <2>4. /\ room \in [Player -> Room \cup {None}] /\ table \in [Player -> Table \cup {None}]
        /\ waiting \in [Room -> [Player -> (0..MaxTables) \cup {None}]]
    BY DEF Init
  <2>5. QED BY <2>1, <2>2, <2>3, <2>4 DEF Places, PlaceSet
<1>4. Counts(Places)
  <2>1. \A r \in Room : Members(room, r) = {} BY DEF Init, Members
  <2>2. \A r \in Room : playerNum[r] = Cardinality(Members(room, r)) BY <2>1, FS_EmptySet DEF Init
  <2>3. QED BY <2>2, PlacesIs DEF Counts, Counted
<1>5. \A p \in Player : table[p] = None BY DEF Init
<1>6. Knows(Places) /\ AtUsedTables(Places) BY <1>5, PlacesIs DEF Knows, AtUsedTables
<1>7. \A t \in Table : Seated(Places, t) = {} /\ lookers[t] = {}
  <2>1. \A t \in Table, i \in Seat : Places.seat[t][i].player = None BY <1>2, PlacesIs DEF Init
  <2>2. \A t \in Table : Seated(Places, t) = {} BY <2>1, SeatedIs
  <2>3. QED BY <2>2 DEF Init
<1>8. UnusedEmpty(Places) BY <1>7, PlacesIs DEF UnusedEmpty
<1>9. \A p \in Player : WaitsWell(Places, p) BY PlacesIs DEF Init, WaitsWell
<1>10. FreeWell BY DEF Init, FreeWell
<1>11. Marries BY DEF Init, Marries
<1>12. QED BY <1>1, <1>3, <1>4, <1>6, <1>8, <1>9, <1>10, <1>11 DEF PInv, Sound, Placed

\* The invariant is about the variables alone.
LEMMA StutterStep ==
  ASSUME PInv, UNCHANGED vars PROVE PInv'
<1>1. Become(Places) /\ UNCHANGED poolVars BY SamePlaces DEF vars
<1>2. Sound(Places)' BY <1>1, PlacesSound, BecomeSound DEF poolVars
<1>3. FreeWell' BY <1>1, FreeWellStays DEF PInv
<1>4. RestTyped' BY DEF PInv, RestTyped, vars, tableVars, poolVars, sysVars
<1>5. Marries' BY DEF PInv, Marries, vars, Used, poolVars, sysVars, placeVars
<1>6. QED BY <1>2, <1>3, <1>4, <1>5 DEF PInv

\* Announcing a repair, or its end, keeps the invariant.
LEMMA RepairStep ==
  ASSUME PInv, NEW b \in BOOLEAN, SetRepair(b) PROVE PInv'
<1>1. Become(Places) /\ UNCHANGED poolVars /\ UNCHANGED marrying /\ Idle
  BY SamePlaces DEF SetRepair
<1>2. RestTyped' BY DEF PInv, RestTyped, SetRepair, tableVars, poolVars
<1>3. QED BY <1>1, <1>2, PlacesSound, SamePoolStep

\* Every handler, every timer and the loop of MarryTable keep the places sound.
LEMMA NextPlaces == PInv /\ [Next]_vars => PInv'
<1> SUFFICES ASSUME PInv, [Next]_vars PROVE PInv' OBVIOUS
<1>1. ASSUME NEW p \in Player, PlayerMsg(p) \/ PlayerTimer(p) PROVE PInv' BY <1>1, PlayerStep
<1>2. ASSUME NEW b \in BOOLEAN, SetRepair(b) PROVE PInv' BY <1>2, RepairStep
<1>3. ASSUME NEW r \in Room, RoomTimer(r) PROVE PInv'
  BY <1>3, MarryEndsStep, CheckRecoverStep, CheckNewTableStep DEF RoomTimer
<1>4. ASSUME NEW t \in Table, TableTimer(t) PROVE PInv' BY <1>4, RoundStep, ClearStep DEF TableTimer
<1>5. CASE MarryLoop
  <2>1. CASE MarryDone
    <3>1. marrying.room \in Room BY <2>1, RoomAssumption DEF PInv, Marries, MarryDone, Looping
    <3>2. QED BY <2>1, <3>1, MarryEndsStep
  <2>2. QED BY <1>5, <2>1, MarryJoinStep, MarryMallocStep, MarryEnterStep DEF MarryLoop
<1>6. CASE UNCHANGED vars BY <1>6, StutterStep
<1>7. QED BY <1>1, <1>2, <1>3, <1>4, <1>5, <1>6 DEF Next, Timers

\* Wherever clients and timers move players, their places are sound: the invariant on which
\* the others rest.
THEOREM PlacesStaySound == Spec => []PInv
<1>1. QED BY InitPlaces, NextPlaces, PTL DEF Spec

\* Every variable stays in its type: the tables, numbers and players the code would look up exist.
THEOREM RoomsTyped == Spec => []TypeOK
<1>1. PInv => TypeOK BY PlacesSound, TypeParts DEF PInv
<1>2. QED BY <1>1, PlacesStaySound, PTL

\* m_playerNum is the number of the players in the room, after every way in and out of it.
THEOREM RoomCountsRight == Spec => []RoomCounts
<1>1. PInv => RoomCounts BY PlacesIs DEF PInv, Sound, Placed, Counts, Counted, Members, RoomCounts
<1>2. QED BY <1>1, PlacesStaySound, PTL

\* Who is on the list of a room to be matched is in that room and at no table.
THEOREM WaitersFree == Spec => []WaitingSound
<1>1. PInv => WaitingSound BY PlacesIs DEF PInv, Sound, WaitsWell, WaitingSound
<1>2. QED BY <1>1, PlacesStaySound, PTL

\* A player's table has the player on a chair or among the lookers.
THEOREM TablesKnowPlayers == Spec => []TableKnows
<1>1. PInv => TableKnows BY PlacesIs DEF PInv, Sound, Placed, Knows, TableKnows
<1>2. QED BY <1>1, PlacesStaySound, PTL

\* A table is in use or free, a free one is empty, and players are at tables in use only.
THEOREM TablesInUseOrFree == Spec => []TablesAccounted
<1>1. PInv => TablesAccounted
  <2> SUFFICES ASSUME PInv PROVE TablesAccounted OBVIOUS
  <2>1. FreeWell /\ AtUsedTables(Places) /\ UnusedEmpty(Places) /\ RestTyped
    BY DEF PInv, Sound, Placed
  <2>2. \A p \in Player : table[p] # None => TableID(table[p]) \in tables[HostRoom(table[p])]
    BY <2>1, PlacesIs DEF AtUsedTables, Used
  <2>3. ASSUME NEW r \in Room, NEW n \in DOMAIN freeTable[r]
        PROVE  freeTable[r][n] \notin tables[r] /\ IsEmptyTable(<<r, freeTable[r][n]>>)
    <3>1. freeTable[r][n] \notin tables[r] BY <2>1 DEF FreeWell
    <3>2. PICK q : q = freeTable[r] OBVIOUS
    <3>3. q \in Seq(1..MaxTables) BY <2>1, <3>2 DEF RestTyped
    <3>4. n \in 1..Len(q) BY <3>2, <3>3, LenProperties
    <3>5. q[n] \in 1..MaxTables BY <3>3, <3>4, ElementOfSeq
    <3>6. PICK t : t = <<r, q[n]>> OBVIOUS
    <3>7. t \in Table /\ HostRoom(t) = r /\ TableID(t) = q[n] BY <3>5, <3>6, TableParts
    <3>8. ~Used(t) BY <3>1, <3>2, <3>7 DEF Used
    <3>9. Seated(Places, t) = {} /\ lookers[t] = {} BY <2>1, <3>7, <3>8, PlacesIs DEF UnusedEmpty
    <3>10. QED BY <3>1, <3>2, <3>6, <3>9 DEF IsEmptyTable
  <2>4. QED BY <2>1, <2>2, <2>3 DEF FreeWell, TablesAccounted
<1>2. QED BY <1>1, PlacesStaySound, PTL

\* The room and table pointers, the chairs, the lookers, the waiting lists, the counts and the
\* pool of tables agree with one another in every state the server can be in.
THEOREM PlacesAlwaysAgree == Spec => []PlacesAgree
<1>1. TypeOK /\ RoomCounts /\ WaitingSound /\ TablesAccounted /\ TableKnows => PlacesAgree
  BY DEF PlacesAgree
<1>2. QED BY <1>1, RoomsTyped, RoomCountsRight, WaitersFree, TablesInUseOrFree, TablesKnowPlayers, PTL

--------------------------------------------------------------------------------
(* Clients that never stand up: a chair and a player belong to each other, *)
(* and who plays stays until the round is over.                            *)

\* Nobody looks on, a player's chairs are at the player's table, and there is one of them.
OneChair(s) ==
  /\ \A t \in Table : s.lookers[t] = {}
  /\ \A t \in Table, i \in Seat : s.seat[t][i].player # None =>
       s.seat[t][i].player \in Player /\ s.table[s.seat[t][i].player] = t
  /\ \A t \in Table, i, j \in Seat :
       s.seat[t][i].player # None /\ s.seat[t][i].player = s.seat[t][j].player => i = j

\* During a round everybody who sits at the table plays.
AllPlay(s) ==
  \A t \in Table, i \in Seat : gameState[t] = "PLAY" /\ s.seat[t][i].player # None => s.seat[t][i].play

Calm(s) == OneChair(s) /\ AllPlay(s)

\* Nothing happens to the chairs of a round.
Keeps(s, u) ==
  \A t \in Table, i \in Seat : gameState[t] = "PLAY" =>
    u.seat[t][i].player = s.seat[t][i].player /\ u.seat[t][i].play = s.seat[t][i].play

\* Keeping the chairs of tables that play: doing nothing does, and so do two steps that do.
LEMMA KeepsOn ==
  /\ \A s : Keeps(s, s)
  /\ \A s, u, v : Keeps(s, u) /\ Keeps(u, v) => Keeps(s, v)
BY DEF Keeps

\* Places with the same chairs, tables and lookers are as calm.
LEMMA CalmStays ==
  ASSUME NEW s, NEW u, Calm(s), u.seat = s.seat, u.table = s.table, u.lookers = s.lookers
  PROVE  Calm(u) /\ Keeps(s, u)
BY DEF Calm, OneChair, AllPlay, Keeps

\* The chairs that LeaveTable clears.
LEMMA LeaveTableClears ==
  ASSUME NEW s \in PlaceSet, NEW t \in Table, NEW who, NEW u, u = LeaveTable(s, t, who)
  PROVE  \A i \in Seat : LET p == s.seat[t][i].player
                         IN  p \in who /\ CanClear(s, t, p) /\ i = First(SeatsOf(s, t, p)) =>
                               u.seat[t][i] = EmptySeat
<1> DEFINE leaves(p) == p \in who /\ CanClear(s, t, p)
           f == [p \in Player |-> IF leaves(p) THEN None ELSE s.table[p]]
           h == [i \in Seat |->
                  LET p == s.seat[t][i].player
                  IN  IF p \in who /\ leaves(p) /\ i = First(SeatsOf(s, t, p))
                      THEN EmptySeat ELSE s.seat[t][i]]
           g == [s.seat EXCEPT ![t] = h]
<1>1. u = [s EXCEPT !.table = f, !.seat[t] = h] BY DEF LeaveTable
<1>2. u.seat = g
  <2> HIDE DEF f, h
  <2>1. QED BY <1>1, PlaceParts
<1>3. g[t] = h BY PlaceParts
<1>4. QED BY <1>2, <1>3

\* Who has one chair leaves none behind.
LEMMA LeaveTableCalm ==
  ASSUME NEW s \in PlaceSet, Calm(s), NEW t \in Table, NEW who \in SUBSET Player,
         NEW u, u = LeaveTable(s, t, who)
  PROVE  /\ u \in PlaceSet /\ Calm(u)
         /\ \A i \in Seat : u.seat[t][i].player \notin who
         /\ \A i \in Seat : s.seat[t][i].player \notin who => u.seat[t][i] = s.seat[t][i]
         /\ \A x \in Table \ {t} : u.seat[x] = s.seat[x]
<1>1. /\ u \in PlaceSet /\ u.lookers = s.lookers
      /\ \A p \in Player : u.table[p] = IF p \in who /\ CanClear(s, t, p) THEN None ELSE s.table[p]
      /\ \A x \in Table \ {t} : u.seat[x] = s.seat[x]
      /\ \A i \in Seat : LET p == s.seat[t][i].player
                         IN  u.seat[t][i] = s.seat[t][i] \/
                             (u.seat[t][i] = EmptySeat /\ p \in who /\ CanClear(s, t, p))
  BY LeaveTableDoes
<1>2. ASSUME NEW i \in Seat, s.seat[t][i].player \in who PROVE u.seat[t][i] = EmptySeat
  <2>1. PICK p \in Player : p = s.seat[t][i].player BY <1>2
  <2>2. s.table[p] = t BY <2>1, RoomAssumption DEF Calm, OneChair
  <2>3. SeatsOf(s, t, p) \in SUBSET Seat /\ i \in SeatsOf(s, t, p) BY <2>1 DEF SeatsOf
  <2>4. First(SeatsOf(s, t, p)) \in SeatsOf(s, t, p) BY <2>3, FirstIn
  <2>5. First(SeatsOf(s, t, p)) = i
    <3>1. PICK k \in Seat : k = First(SeatsOf(s, t, p)) /\ s.seat[t][k].player = p BY <2>4 DEF SeatsOf
    <3>2. k = i BY <2>1, <3>1, RoomAssumption DEF Calm, OneChair
    <3>3. QED BY <3>1, <3>2
  <2>6. CanClear(s, t, p) BY <2>2, <2>3 DEF CanClear
  <2>7. QED BY <1>2, <2>1, <2>5, <2>6, LeaveTableClears
<1>3. EmptySeat.player = None /\ None \notin who BY RoomAssumption DEF EmptySeat
<1>4. ASSUME NEW i \in Seat PROVE u.seat[t][i].player \notin who
  <2>1. CASE s.seat[t][i].player \in who BY <1>2, <1>3, <2>1
  <2>2. CASE s.seat[t][i].player \notin who BY <1>1, <2>2
  <2>3. QED BY <2>1, <2>2
<1>5. \A x \in Table, i \in Seat :
        u.seat[x][i] = s.seat[x][i] \/ (x = t /\ u.seat[x][i] = EmptySeat)
  BY <1>1
<1>6. ASSUME NEW x \in Table, NEW i \in Seat, u.seat[x][i].player # None
      PROVE  /\ u.seat[x][i] = s.seat[x][i] /\ u.seat[x][i].player \in Player
             /\ u.table[u.seat[x][i].player] = x
  <2>1. u.seat[x][i] = s.seat[x][i] BY <1>3, <1>5, <1>6
  <2>2. PICK p : p = s.seat[x][i].player OBVIOUS
  <2>3. p \in Player /\ s.table[p] = x BY <1>6, <2>1, <2>2 DEF Calm, OneChair
  <2>4. ~(p \in who /\ CanClear(s, t, p)) BY <1>4, <2>1, <2>2, <2>3 DEF CanClear
  <2>5. QED BY <1>1, <2>1, <2>2, <2>3, <2>4
<1>7. OneChair(u) BY <1>1, <1>6 DEF Calm, OneChair
<1>8. AllPlay(u) BY <1>6 DEF Calm, AllPlay
<1>9. QED BY <1>1, <1>4, <1>7, <1>8 DEF Calm

\* Nobody leaves in the middle of a round.
LEMMA TryLeaveCalm ==
  ASSUME NEW s \in PlaceSet, Calm(s), NEW p \in Player, NEW u, u = TryLeaveCurTable(s, p)
  PROVE  Calm(u) /\ Keeps(s, u) /\ u \in PlaceSet
<1>1. CASE s.table[p] # None /\ CanLeaveTable(s, s.table[p], p)
  <2>1. PICK t \in Table : t = s.table[p] BY <1>1, PlaceParts
  <2>2. u = LeaveTable(s, t, {p}) BY <1>1, <2>1 DEF TryLeaveCurTable
  <2>3. PICK who \in SUBSET Player : who = {p} OBVIOUS
  <2>4. /\ u \in PlaceSet /\ Calm(u)
        /\ \A i \in Seat : s.seat[t][i].player \notin who => u.seat[t][i] = s.seat[t][i]
        /\ \A x \in Table \ {t} : u.seat[x] = s.seat[x]
    BY <2>2, <2>3, LeaveTableCalm
  <2>5. ASSUME gameState[t] = "PLAY", NEW i \in Seat PROVE s.seat[t][i].player # p
    <3> SUFFICES ASSUME s.seat[t][i].player = p PROVE FALSE OBVIOUS
    <3>1. SeatsOf(s, t, p) \in SUBSET Seat /\ SeatsOf(s, t, p) # {} BY DEF SeatsOf
    <3>2. First(SeatsOf(s, t, p)) \in SeatsOf(s, t, p) BY <3>1, FirstIn
    <3>3. PICK j \in Seat : j = First(SeatsOf(s, t, p)) /\ s.seat[t][j].player = p
      BY <3>2 DEF SeatsOf
    <3>4. s.seat[t][j].play BY <2>5, <3>3, RoomAssumption DEF Calm, AllPlay
    <3>5. QED BY <1>1, <2>1, <3>1, <3>3, <3>4 DEF CanLeaveTable
  <2>6. Keeps(s, u) BY <2>3, <2>4, <2>5 DEF Keeps
  <2>7. QED BY <2>4, <2>6
<1>2. CASE ~(s.table[p] # None /\ CanLeaveTable(s, s.table[p], p))
  BY <1>2, KeepsOn DEF TryLeaveCurTable
<1>3. QED BY <1>1, <1>2

\* Who is at no table sits down on an empty chair where no round is played.
LEMMA EnterTableCalm ==
  ASSUME NEW s \in PlaceSet, Calm(s), NEW t \in Table, NEW p \in Player, CanEnterTable(s, t, p),
         s.table[p] = None, NEW u, u = EnterTable(s, t, p)
  PROVE  Calm(u) /\ Keeps(s, u)
<1>1. PICK i \in Seat : i = First(EmptySeats(s, t)) /\ s.seat[t][i].player = None
  <2>1. EmptySeats(s, t) \in SUBSET Seat /\ EmptySeats(s, t) # {}
    BY DEF CanEnterTable, EmptySeats, SeatsOf
  <2>2. First(EmptySeats(s, t)) \in EmptySeats(s, t) BY <2>1, FirstIn
  <2>3. QED BY <2>2 DEF EmptySeats, SeatsOf
<1>2. PICK x : x = [player |-> p, ready |-> HostRoom(t) \in MarryRoom, play |-> FALSE] OBVIOUS
<1>3. x.player = p BY <1>2
<1>4. u = [s EXCEPT !.seat[t][i] = x, !.table[p] = t] BY <1>1, <1>2 DEF EnterTable, SitDown
<1>5. /\ u.lookers = s.lookers /\ u.seat = [s.seat EXCEPT ![t][i] = x]
      /\ u.table = [s.table EXCEPT ![p] = t]
  BY <1>4, PlaceParts
<1>6. /\ u.seat[t][i] = x
      /\ \A y \in Table, j \in Seat : y # t \/ j # i => u.seat[y][j] = s.seat[y][j]
      /\ u.table[p] = t /\ \A q \in Player \ {p} : u.table[q] = s.table[q]
  BY <1>5, PlaceParts
<1>7. ASSUME NEW y \in Table, NEW j \in Seat PROVE s.seat[y][j].player # p
  <2>1. None \notin Table /\ p # None BY TableParts, RoomAssumption
  <2>2. QED BY <2>1 DEF Calm, OneChair
<1>8. gameState[t] # "PLAY" BY DEF CanEnterTable
<1>9. OneChair(u)
  <2>1. ASSUME NEW y \in Table, NEW j \in Seat, u.seat[y][j].player # None
        PROVE  u.seat[y][j].player \in Player /\ u.table[u.seat[y][j].player] = y
    <3>1. CASE y = t /\ j = i BY <1>3, <1>6, <3>1
    <3>2. CASE y # t \/ j # i BY <1>6, <1>7, <2>1, <3>2 DEF Calm, OneChair
    <3>3. QED BY <3>1, <3>2
  <2>2. ASSUME NEW y \in Table, NEW j \in Seat, NEW k \in Seat,
               u.seat[y][j].player # None, u.seat[y][j].player = u.seat[y][k].player
        PROVE  j = k
    <3>1. CASE y = t /\ (j = i \/ k = i) BY <1>3, <1>6, <1>7, <2>2, <3>1
    <3>2. CASE ~(y = t /\ (j = i \/ k = i)) BY <1>6, <2>2, <3>2 DEF Calm, OneChair
    <3>3. QED BY <3>1, <3>2
  <2>3. QED BY <1>5, <2>1, <2>2 DEF Calm, OneChair
<1>10. Keeps(s, u) BY <1>6, <1>8 DEF Keeps
<1>11. AllPlay(u) BY <1>6, <1>8 DEF Calm, AllPlay
<1>12. QED BY <1>9, <1>10, <1>11 DEF Calm

\* Joining a table that is not full keeps places calm.
LEMMA JoinNoFullTableCalm ==
  ASSUME NEW s \in PlaceSet, Calm(s), NEW r \in Room, NEW p \in Player, NEW exclude,
         tables[r] \subseteq 1..MaxTables, s.table[p] = None,
         NEW u, u = JoinNoFullTable(s, r, p, exclude)
  PROVE  Calm(u) /\ Keeps(s, u)
<1> DEFINE open == Joinable(s, r, p, exclude)
<1>1. open \in SUBSET Table /\ \A t \in open : CanEnterTable(s, t, p)
  <2> SUFFICES ASSUME NEW t \in open PROVE t \in Table /\ CanEnterTable(s, t, p) OBVIOUS
  <2>1. CanEnterTable(s, t, p) /\ t \in {r} \X tables[r] BY DEF Joinable
  <2>2. QED BY <2>1, TableParts
<1>2. CASE open = {} BY <1>2, KeepsOn DEF JoinNoFullTable
<1>3. CASE open # {}
  <2> DEFINE a == CHOOSE x \in open : \A y \in open : Preferred(s, x, y)
  <2>1. a \in open BY <1>1, <1>3, PreferredExists
  <2>2. u = EnterTable(s, a, p) BY <1>3 DEF JoinNoFullTable
  <2> HIDE DEF a
  <2>3. QED BY <1>1, <2>1, <2>2, EnterTableCalm
<1>4. QED BY <1>2, <1>3

\* The lists of those who wait are not about chairs.
LEMMA MarryCalm ==
  ASSUME NEW s \in PlaceSet, Calm(s), NEW r, NEW p, NEW exclude,
         NEW u, u = JoinMarry(s, r, p, exclude) \/ u = LeaveMarry(s, r, p)
  PROVE  Calm(u) /\ Keeps(s, u)
<1>1. u.seat = s.seat /\ u.table = s.table /\ u.lookers = s.lookers
  BY PlaceParts DEF JoinMarry, LeaveMarry
<1>2. QED BY <1>1, CalmStays

\* Chairs are cleared at most.
Shrinks(s, u) ==
  \A t \in Table, i \in Seat : u.seat[t][i].player \in {s.seat[t][i].player, None}

\* Emptying chairs and no more: doing nothing does, and so do two steps that do.
LEMMA ShrinksOn ==
  /\ \A s : Shrinks(s, s)
  /\ \A s, u, v : Shrinks(s, u) /\ Shrinks(u, v) => Shrinks(s, v)
BY DEF Shrinks

\* TryLeaveCurTable puts nobody on a chair.
LEMMA TryLeaveShrinks ==
  ASSUME NEW s \in PlaceSet, NEW p \in Player, NEW u, u = TryLeaveCurTable(s, p)
  PROVE  Shrinks(s, u)
<1>1. CASE u = s BY <1>1, ShrinksOn
<1>2. CASE s.table[p] # None /\ u = LeaveTable(s, s.table[p], {p})
  <2>1. PICK t \in Table : t = s.table[p] BY <1>2, PlaceParts
  <2>2. /\ \A x \in Table \ {t} : u.seat[x] = s.seat[x]
        /\ \A i \in Seat : u.seat[t][i] = s.seat[t][i] \/ u.seat[t][i] = EmptySeat
    BY <1>2, <2>1, LeaveTableDoes
  <2>3. EmptySeat.player = None BY DEF EmptySeat
  <2>4. QED BY <2>2, <2>3 DEF Shrinks
<1>3. QED BY <1>1, <1>2 DEF TryLeaveCurTable

\* Rooms and their counts are not about chairs.
LEMMA RoomNumCalm ==
  ASSUME NEW s \in PlaceSet, Calm(s), NEW a, NEW n, NEW u, u = [s EXCEPT !.room = a, !.num = n]
  PROVE  /\ Calm(u) /\ Keeps(s, u) /\ Shrinks(s, u) /\ u.table = s.table
         /\ a \in [Player -> Room \cup {None}] /\ n \in Nums => u \in PlaceSet
<1>1. u.seat = s.seat /\ u.table = s.table /\ u.lookers = s.lookers BY PlaceParts
<1>2. a \in [Player -> Room \cup {None}] /\ n \in Nums => u \in PlaceSet BY DEF PlaceSet
<1>3. QED BY <1>1, <1>2, CalmStays, ShrinksOn DEF Shrinks

\* Entering a room keeps places calm.
LEMMA EnterRoomCalm ==
  ASSUME NEW s \in PlaceSet, Calm(s), NEW r \in Room, NEW p \in Player, NEW u, u = EnterRoom(s, r, p)
  PROVE  Calm(u) /\ Keeps(s, u)
<1>1. PICK in : in = IF s.room[p] = r THEN s ELSE [s EXCEPT !.room[p] = r, !.num[r] = @ + 1]
  OBVIOUS
<1>2. in \in PlaceSet /\ Calm(in) /\ Keeps(s, in)
  <2>1. CASE s.room[p] = r BY <1>1, <2>1, KeepsOn
  <2>2. CASE s.room[p] # r
    <3>1. PICK a, n : a = Moved(s.room, p, r) /\ n = More(s.num, r) OBVIOUS
    <3>2. a \in [Player -> Room \cup {None}] /\ n \in Nums BY <3>1, PlaceParts DEF Moved, More, Nums
    <3>3. in = [s EXCEPT !.room = a, !.num = n] BY <1>1, <2>2, <3>1 DEF Moved, More
    <3>4. QED BY <3>2, <3>3, RoomNumCalm
  <2>3. QED BY <2>1, <2>2
<1>3. u = in \/ u = TryLeaveCurTable(in, p) BY <1>1 DEF EnterRoom
<1>4. QED BY <1>2, <1>3, TryLeaveCalm, KeepsOn

\* Leaving a room keeps places calm, and puts nobody on a chair.
LEMMA LeaveRoomCalm ==
  ASSUME NEW s \in PlaceSet, Calm(s), NEW p \in Player, NEW u, u = LeaveRoom(s, p)
  PROVE  Calm(u) /\ Keeps(s, u) /\ Shrinks(s, u)
<1>1. CASE ~CanLeaveRoom(s, p) BY <1>1, KeepsOn, ShrinksOn DEF LeaveRoom
<1>2. CASE CanLeaveRoom(s, p)
  <2>1. PICK t : t = TryLeaveCurTable(s, p) OBVIOUS
  <2>2. t \in PlaceSet /\ Calm(t) /\ Keeps(s, t) /\ Shrinks(s, t) BY <2>1, TryLeaveCalm, TryLeaveShrinks
  <2>3. PICK r : r = s.room[p] OBVIOUS
  <2>4. u = [LeaveMarry(t, r, p) EXCEPT !.room[p] = None, !.num[r] = @ - 1]
    BY <1>2, <2>1, <2>3 DEF LeaveRoom
  <2>5. u.seat = t.seat /\ u.table = t.table /\ u.lookers = t.lookers
    BY <2>2, <2>4, PlaceParts DEF LeaveMarry
  <2>6. Calm(u) /\ Keeps(t, u) BY <2>2, <2>5, CalmStays
  <2>7. Shrinks(t, u) BY <2>5 DEF Shrinks
  <2>8. QED BY <2>2, <2>6, <2>7, KeepsOn, ShrinksOn
<1>3. QED BY <1>1, <1>2

\* Who changes tables could leave the old one.
LEMMA AwayCalm ==
  ASSUME NEW s \in PlaceSet, Calm(s), NEW p \in Player,
         s.table[p] # None => CanLeaveTable(s, s.table[p], p) /\ CanClear(s, s.table[p], p),
         NEW u, u = Away(s, p)
  PROVE  u \in PlaceSet /\ Calm(u) /\ Keeps(s, u) /\ u.table[p] = None
<1>1. CASE s.table[p] = None BY <1>1, KeepsOn DEF Away
<1>2. CASE s.table[p] # None
  <2>1. u = TryLeaveCurTable(s, p) BY <1>2 DEF Away, TryLeaveCurTable
  <2>2. PICK t \in Table : t = s.table[p] BY <1>2, PlaceParts
  <2>3. u = LeaveTable(s, t, {p}) /\ CanClear(s, t, p) BY <1>2, <2>2 DEF Away
  <2>4. u.table[p] = None BY <2>3, LeaveTableDoes
  <2>5. QED BY <2>1, <2>4, TryLeaveCalm
<1>3. QED BY <1>1, <1>2

\* FastJoinTable keeps places calm.
LEMMA FastJoinTableCalm ==
  ASSUME NEW s \in PlaceSet, Calm(s), NEW r \in Room, NEW p \in Player,
         tables[r] \subseteq 1..MaxTables, NEW u, u = FastJoinTable(s, r, p)
  PROVE  Calm(u) /\ Keeps(s, u)
<1>1. PICK away : away = Away(s, p) OBVIOUS
<1>2. PICK old : old = IF s.table[p] = None THEN 0 ELSE TableID(s.table[p]) OBVIOUS
<1>3. CASE s.table[p] # None /\ ~(CanLeaveTable(s, s.table[p], p) /\ CanClear(s, s.table[p], p))
  BY <1>3, KeepsOn DEF FastJoinTable
<1>4. CASE s.table[p] # None => CanLeaveTable(s, s.table[p], p) /\ CanClear(s, s.table[p], p)
  <2>1. away \in PlaceSet /\ Calm(away) /\ Keeps(s, away) /\ away.table[p] = None
    BY <1>1, <1>4, AwayCalm
  <2>2. u = JoinMarry(away, r, p, old) \/ u = JoinNoFullTable(away, r, p, old)
    BY <1>1, <1>2, <1>4 DEF FastJoinTable, Away
  <2>3. Calm(u) /\ Keeps(away, u)
    <3>1. CASE u = JoinMarry(away, r, p, old) BY <2>1, <3>1, MarryCalm
    <3>2. CASE u = JoinNoFullTable(away, r, p, old) BY <2>1, <3>2, JoinNoFullTableCalm
    <3>3. QED BY <2>2, <3>1, <3>2
  <2>4. QED BY <2>1, <2>3, KeepsOn
<1>5. QED BY <1>3, <1>4

\* Entering a table by its number keeps places calm.
LEMMA RoomEnterTableCalm ==
  ASSUME NEW s \in PlaceSet, Calm(s), NEW r \in Room, NEW p \in Player,
         tables[r] \subseteq 1..MaxTables, NEW id \in tables[r], NEW u, u = RoomEnterTable(s, r, p, id)
  PROVE  Calm(u) /\ Keeps(s, u)
<1>1. PICK away : away = Away(s, p) OBVIOUS
<1>2. PICK new : new = <<r, id>> OBVIOUS
<1>3. new \in Table BY <1>2, TableParts
<1>4. CASE u = s BY <1>4, KeepsOn
<1>5. CASE s.table[p] # None => CanLeaveTable(s, s.table[p], p) /\ CanClear(s, s.table[p], p)
  <2>1. away \in PlaceSet /\ Calm(away) /\ Keeps(s, away) /\ away.table[p] = None
    BY <1>1, <1>5, AwayCalm
  <2>2. CASE u = JoinMarry(away, r, p, 0) BY <2>1, <2>2, MarryCalm, KeepsOn
  <2>3. CASE CanEnterTable(away, new, p) /\ u = EnterTable(away, new, p)
    BY <1>3, <2>1, <2>3, EnterTableCalm, KeepsOn
  <2>4. CASE u = JoinNoFullTable(away, r, p, 0) BY <2>1, <2>4, JoinNoFullTableCalm, KeepsOn
  <2>5. QED BY <1>1, <1>2, <1>4, <2>2, <2>3, <2>4 DEF RoomEnterTable, Away
<1>6. QED BY <1>4, <1>5 DEF RoomEnterTable

\* Who may log out leaves no chair.
LEMMA OnLoginOutCalm ==
  ASSUME NEW s \in PlaceSet, Sound(s), Calm(s), NEW p \in Player, CanLeaveRoom(s, p),
         NEW u, u = OnLoginOut(s, p)
  PROVE  Calm(u) /\ Keeps(s, u)
<1>1. PICK off : off = TryLeaveCurTable(s, p) OBVIOUS
<1>2. off = Away(s, p) BY <1>1 DEF Away, TryLeaveCurTable, CanLeaveRoom
<1>3. off \in PlaceSet /\ Calm(off) /\ Keeps(s, off) /\ Shrinks(s, off)
  BY <1>1, TryLeaveCalm, TryLeaveShrinks
<1>4. ASSUME NEW t \in Table, NEW i \in Seat PROVE off.seat[t][i].player # p
  <2>0. p # None BY RoomAssumption
  <2>1. s.seat[t][i].player = p => s.table[p] = t BY <2>0 DEF Calm, OneChair
  <2>2. CASE s.seat[t][i].player # p BY <1>3, <2>0, <2>2 DEF Shrinks
  <2>3. CASE s.seat[t][i].player = p
    <3>1. s.table[p] = t /\ t # None BY <2>1, <2>3, TableParts
    <3>2. off = LeaveTable(s, t, {p}) BY <1>2, <3>1 DEF Away
    <3>3. PICK who \in SUBSET Player : who = {p} OBVIOUS
    <3>4. off.seat[t][i].player \notin who BY <3>2, <3>3, LeaveTableCalm
    <3>5. QED BY <3>3, <3>4
  <2>4. QED BY <2>2, <2>3
<1>5. PICK out : out = IF off.room[p] = None THEN off ELSE LeaveRoom(off, p) OBVIOUS
<1>6. Calm(out) /\ Keeps(off, out) /\ Shrinks(off, out)
  <2>1. CASE out = off BY <1>3, <2>1, KeepsOn, ShrinksOn
  <2>2. CASE out = LeaveRoom(off, p) BY <1>3, <2>2, LeaveRoomCalm
  <2>3. QED BY <1>5, <2>1, <2>2
<1>7. out \in PlaceSet
  <2>1. Sound(off) BY <1>1, TryLeaveSound
  <2>2. CASE out = off BY <1>3, <2>2
  <2>3. CASE off.room[p] # None /\ out = LeaveRoom(off, p)
    <3>1. Sound(out) BY <2>1, <2>3, LeaveRoomSound
    <3>2. QED BY <3>1 DEF Sound, Placed
  <2>4. QED BY <1>5, <2>2, <2>3
<1>8. \A t \in Table, i \in Seat : out.seat[t][i].player # p
  BY <1>4, <1>6, RoomAssumption DEF Shrinks
<1>9. u = [out EXCEPT !.table[p] = None, !.room[p] = None, !.seat = Erased(out.seat, p)]
  BY <1>2, <1>5 DEF OnLoginOut, Away, Erased
<1>10. /\ u.lookers = out.lookers /\ u.seat = Erased(out.seat, p)
       /\ u.table = [out.table EXCEPT ![p] = None]
  BY <1>7, <1>9, PlaceParts
<1>11. \A t \in Table, i \in Seat : u.seat[t][i] = out.seat[t][i] BY <1>8, <1>10 DEF Erased
<1>12. \A q \in Player \ {p} : u.table[q] = out.table[q] BY <1>7, <1>10, PlaceParts
<1>13. OneChair(u)
  <2>1. ASSUME NEW t \in Table, NEW i \in Seat, u.seat[t][i].player # None
        PROVE  u.seat[t][i].player \in Player /\ u.table[u.seat[t][i].player] = t
    <3>1. PICK q : q = out.seat[t][i].player OBVIOUS
    <3>2. q \in Player /\ q # p /\ out.table[q] = t
      BY <1>6, <1>8, <1>11, <2>1, <3>1 DEF Calm, OneChair
    <3>3. QED BY <1>11, <1>12, <3>1, <3>2
  <2>2. QED BY <1>6, <1>10, <1>11, <2>1 DEF Calm, OneChair
<1>14. AllPlay(u) BY <1>6, <1>11 DEF Calm, AllPlay
<1>15. Keeps(out, u) BY <1>11 DEF Keeps
<1>16. QED BY <1>3, <1>6, <1>13, <1>14, <1>15, KeepsOn DEF Calm

\* Being ready is not about who plays.
LEMMA PlayerReadyCalm ==
  ASSUME NEW s \in PlaceSet, Calm(s), NEW t \in Table, NEW p \in Player, NEW b \in BOOLEAN,
         NEW u, u = PlayerReady(s, t, p, b)
  PROVE  Calm(u) /\ Keeps(s, u)
<1>1. CASE SeatsOf(s, t, p) = {} \/ coins[p] < EnterMin BY <1>1, KeepsOn DEF PlayerReady
<1>2. CASE SeatsOf(s, t, p) # {} /\ ~(coins[p] < EnterMin)
  <2>1. PICK i \in Seat : i = First(SeatsOf(s, t, p))
    <3>1. SeatsOf(s, t, p) \in SUBSET Seat BY DEF SeatsOf
    <3>2. QED BY <1>2, <3>1, FirstIn
  <2>2. PICK x : x = [s.seat[t][i] EXCEPT !.ready = b] OBVIOUS
  <2>3. s.seat[t][i] \in SeatSet BY PlaceParts
  <2>4. x.player = s.seat[t][i].player /\ x.play = s.seat[t][i].play BY <2>2, <2>3 DEF SeatSet
  <2>5. PICK g : g = [s.seat EXCEPT ![t][i] = x] OBVIOUS
  <2>6. \A y \in Table, j \in Seat : g[y][j].player = s.seat[y][j].player /\ g[y][j].play = s.seat[y][j].play
    BY <2>4, <2>5, PlaceParts
  <2>7. u = WithSeat(s, g) BY <1>2, <2>1, <2>2, <2>5 DEF PlayerReady, WithSeat
  <2>8. u.seat = g /\ u.table = s.table /\ u.lookers = s.lookers BY <2>7, PlaceParts DEF WithSeat
  <2>9. Calm(u) BY <2>6, <2>8 DEF Calm, OneChair, AllPlay
  <2>10. Keeps(s, u) BY <2>6, <2>8 DEF Keeps
  <2>11. QED BY <2>9, <2>10
<1>3. QED BY <1>1, <1>2

--------------------------------------------------------------------------------
(* The steps of those clients.                                             *)

SInv == PInv /\ Calm(Places)

StaysAt(t) == gameState[t] = "PLAY" /\ ~clearing[t] => Seated(Places, t)' = Seated(Places, t)
StartsFull(t) ==
  gameState[t] = "FREE" /\ gameState'[t] = "PLAY" => Cardinality(Seated(Places, t)' \cap Player) = SeatNum

CalmStep == Calm(Places)' /\ \A t \in Table : StaysAt(t) /\ StartsFull(t)

\* Who is at a table is said by the players of its chairs.
LEMMA SameSeated ==
  ASSUME NEW t \in Table, \A i \in Seat : seat'[t][i].player = seat[t][i].player
  PROVE  Seated(Places, t)' = Seated(Places, t)
BY DEF Seated, Places

\* What a handler does that begins and ends no round.
LEMMA CalmHandler ==
  ASSUME NEW s \in PlaceSet, Calm(s), Keeps(Places, s), Become(s), gameState' = gameState
  PROVE  CalmStep
<1>1. Places' = s BY PlaceParts DEF Places, Become
<1>2. Calm(Places)' BY <1>1 DEF Calm, OneChair, AllPlay
<1>3. ASSUME NEW t \in Table PROVE StaysAt(t)
  <2> SUFFICES ASSUME gameState[t] = "PLAY" PROVE Seated(Places, t)' = Seated(Places, t) BY DEF StaysAt
  <2>1. seat' = s.seat BY DEF Become
  <2>2. \A i \in Seat : seat'[t][i].player = seat[t][i].player BY <2>1, PlacesIs DEF Keeps
  <2>3. QED BY <2>2, SameSeated
<1>4. \A t \in Table : StartsFull(t) BY DEF StartsFull
<1>5. QED BY <1>2, <1>3, <1>4 DEF CalmStep

\* What the invariant of seated clients says of the places as they are.
LEMMA CalmPlaces ==
  ASSUME SInv
  PROVE  /\ Sound(Places) /\ Places \in PlaceSet /\ Calm(Places) /\ Keeps(Places, Places)
         /\ Places.room = room /\ Places.table = table
         /\ \A r \in Room : tables[r] \subseteq 1..MaxTables
BY PlacesSound, PlacesIs, KeepsOn DEF SInv

\* A step that leaves places and games alone is a calm one.
LEMMA UnchangedCalm ==
  ASSUME SInv, UNCHANGED placeVars, gameState' = gameState PROVE CalmStep
<1>1. Become(Places) BY PlacesIs DEF Become, placeVars
<1>2. QED BY <1>1, CalmPlaces, CalmHandler

\* A connection is lost where nobody looks on.
LEMMA NetLostCalm ==
  ASSUME SInv, NEW p \in Player, NetLost(p) PROVE CalmStep
<1>1. PICK left : left = TryLeaveCurTable(Places, p) OBVIOUS
<1>2. ~(table[p] # None /\ p \in lookers[table[p]])
  <2>1. \A t \in Table : lookers[t] = {} BY CalmPlaces, PlacesIs DEF Calm, OneChair
  <2>2. table \in [Player -> Table \cup {None}] BY PlacesSound DEF SInv
  <2>3. QED BY <2>1, <2>2
<1>3. Sound(left) /\ left.room = room BY <1>1, CalmPlaces, TryLeaveSound
<1>4. left \in PlaceSet /\ Calm(left) /\ Keeps(Places, left) BY <1>1, CalmPlaces, TryLeaveCalm
<1>5. PICK s : s = IF Places.table[p] # left.table[p] /\ room[p] # None THEN LeaveRoom(left, p) ELSE left
  OBVIOUS
<1>6. s \in PlaceSet /\ Calm(s) /\ Keeps(Places, s)
  <2>1. CASE s = left BY <1>4, <2>1
  <2>2. CASE room[p] # None /\ s = LeaveRoom(left, p)
    <3>1. s \in PlaceSet BY <1>3, <2>2, LeaveRoomSound DEF Sound, Placed
    <3>2. QED BY <1>4, <2>2, <3>1, LeaveRoomCalm, KeepsOn
  <2>3. QED BY <1>5, <2>1, <2>2
<1>7. Become(s) /\ gameState' = gameState
  <2>1. PICK gone : gone = IF table[p] # None /\ p \in lookers[table[p]] THEN TryLeaveCurTable(Places, p) ELSE Places
    OBVIOUS
  <2>2. gone = Places BY <1>2, <2>1
  <2>3. PICK away \in BOOLEAN : away = (gone.table[p] # left.table[p]) OBVIOUS
  <2>4. Become(IF away /\ room[p] # None THEN LeaveRoom(left, p) ELSE left) /\ gameState' = gameState
    BY <1>1, <2>1, <2>2, <2>3 DEF NetLost, tableVars
  <2>5. QED BY <1>5, <2>2, <2>3, <2>4
<1>8. QED BY <1>6, <1>7, CalmHandler

\* Logging out, of a player who may leave his room, is a calm step.
LEMMA LogoutCalm ==
  ASSUME SInv, NEW p \in Player, CanLeaveRoom(Places, p), Logout(p) PROVE CalmStep
<1>1. PICK s : s = OnLoginOut(Places, p) OBVIOUS
<1>2. Calm(s) /\ Keeps(Places, s) BY <1>1, CalmPlaces, OnLoginOutCalm
<1>3. s \in PlaceSet BY <1>1, CalmPlaces, OnLoginOutSound DEF Sound, Placed
<1>4. Become(s) /\ gameState' = gameState BY <1>1 DEF Logout, SamePool, tableVars
<1>5. QED BY <1>2, <1>3, <1>4, CalmHandler

\* A handler that ends in sound and calm places is a calm step.
LEMMA HandledCalm ==
  ASSUME NEW s, Sound(s), Calm(s), Keeps(Places, s), Handled(s) PROVE CalmStep
<1>1. s \in PlaceSet BY DEF Sound, Placed
<1>2. Become(s) /\ gameState' = gameState BY DEF Handled, SamePool, tableVars
<1>3. QED BY <1>1, <1>2, CalmHandler

\* Entering a room is a calm step.
LEMMA EnterRoomReqCalm ==
  ASSUME SInv, NEW p \in Player, NEW r \in Room, EnterRoomReq(p, r) PROVE CalmStep
<1>1. PICK left : left = IF room[p] \in {None, r} THEN Places ELSE LeaveRoom(Places, p) OBVIOUS
<1>2. Sound(left) /\ Calm(left) /\ Keeps(Places, left) /\ (room[p] = r => left.room[p] = r)
  <2>1. CASE left = Places BY <2>1, CalmPlaces
  <2>2. CASE room[p] \notin {None, r} /\ left = LeaveRoom(Places, p)
    BY <2>2, CalmPlaces, LeaveRoomSound, LeaveRoomCalm
  <2>3. QED BY <1>1, <2>1, <2>2
<1>3. left \in PlaceSet BY <1>2 DEF Sound, Placed
<1>4. PICK s : s = IF room[p] = r \/ CanEnterRoom(left, r, p) THEN EnterRoom(left, r, p) ELSE left
  OBVIOUS
<1>5. Sound(s) /\ Calm(s) /\ Keeps(Places, s)
  <2>1. CASE s = left BY <1>2, <2>1
  <2>2. CASE (room[p] = r \/ CanEnterRoom(left, r, p)) /\ s = EnterRoom(left, r, p)
    <3>1. left.room[p] \in {None, r} BY <1>2, <2>2 DEF CanEnterRoom
    <3>2. Sound(s) BY <1>2, <2>2, <3>1, EnterRoomSound
    <3>3. QED BY <1>2, <1>3, <2>2, <3>2, EnterRoomCalm, KeepsOn
  <2>3. QED BY <1>4, <2>1, <2>2
<1>6. Handled(s) BY <1>1, <1>4 DEF EnterRoomReq
<1>7. QED BY <1>5, <1>6, HandledCalm

\* Whoever leaves, and whoever is silent, leaves a chair where no round is played.
LEMMA LeaveTableReqCalm ==
  ASSUME SInv, NEW p \in Player, LeaveTableReq(p) \/ PlayerTick(p) PROVE CalmStep
<1>1. PICK left : left = TryLeaveCurTable(Places, p) OBVIOUS
<1>2. Sound(left) /\ left.room = room BY <1>1, CalmPlaces, TryLeaveSound
<1>3. left \in PlaceSet /\ Calm(left) /\ Keeps(Places, left) BY <1>1, CalmPlaces, TryLeaveCalm
<1>4. CASE PlayerTick(p)
  <2>1. Handled(left) BY <1>1, <1>4 DEF PlayerTick
  <2>2. QED BY <1>2, <1>3, <2>1, HandledCalm
<1>5. CASE LeaveTableReq(p)
  <2>1. PICK s : s = IF room[p] = None THEN left ELSE LeaveRoom(left, p) OBVIOUS
  <2>2. Sound(s) /\ Calm(s) /\ Keeps(Places, s)
    <3>1. CASE s = left BY <1>2, <1>3, <3>1
    <3>2. CASE room[p] # None /\ s = LeaveRoom(left, p)
      BY <1>2, <1>3, <3>2, LeaveRoomSound, LeaveRoomCalm, KeepsOn
    <3>3. QED BY <2>1, <3>1, <3>2
  <2>3. Handled(s) BY <1>1, <1>5, <2>1 DEF LeaveTableReq
  <2>4. QED BY <2>2, <2>3, HandledCalm
<1>6. QED BY <1>4, <1>5

\* Entering a table is a calm step.
LEMMA EnterTableReqCalm ==
  ASSUME SInv, NEW p \in Player, NEW id \in 1..MaxTables, EnterTableReq(p, id) PROVE CalmStep
<1>1. PICK r : r = room[p] OBVIOUS
<1>2. room \in [Player -> Room \cup {None}] BY PlacesSound DEF SInv
<1>3. r \in Room /\ Places.room[p] = r /\ tables[r] \subseteq 1..MaxTables /\ id \in tables[r]
  BY <1>1, <1>2, CalmPlaces DEF EnterTableReq
<1>4. PICK s : s = RoomEnterTable(Places, r, p, id) OBVIOUS
<1>5. Sound(s) BY <1>3, <1>4, CalmPlaces, RoomEnterTableSound
<1>6. Calm(s) /\ Keeps(Places, s) BY <1>3, <1>4, CalmPlaces, RoomEnterTableCalm
<1>7. Handled(s) BY <1>1, <1>4 DEF EnterTableReq
<1>8. QED BY <1>5, <1>6, <1>7, HandledCalm

\* Getting ready is a calm step, the one that may start a round.
LEMMA TableReadyCalm ==
  ASSUME SInv, NEW p \in Player, NEW b \in BOOLEAN, TableReady(p, b) PROVE CalmStep
<1>1. PICK t : t = table[p] OBVIOUS
<1>2. t \in Table
  <2>1. table \in [Player -> Table \cup {None}] BY PlacesSound DEF SInv
  <2>2. QED BY <1>1, <2>1 DEF TableReady
<1>3. PICK s : s = PlayerReady(Places, t, p, b) OBVIOUS
<1>4. Sound(s) /\ Calm(s) /\ Keeps(Places, s)
  BY <1>2, <1>3, CalmPlaces, PlayerReadySound, PlayerReadyCalm
<1>5. Handled(s) BY <1>1, <1>3 DEF TableReady
<1>6. QED BY <1>4, <1>5, HandledCalm

\* Quick join is a calm step.
LEMMA FastJoinReqCalm ==
  ASSUME SInv, NEW p \in Player, FastJoinRoom(p) \/ FastJoinTableReq(p) PROVE CalmStep
<1>1. CASE FastJoinTableReq(p)
  <2>1. PICK r : r = room[p] OBVIOUS
  <2>2. room \in [Player -> Room \cup {None}] BY PlacesSound DEF SInv
  <2>3. r \in Room /\ Places.room[p] = r /\ tables[r] \subseteq 1..MaxTables
    BY <1>1, <2>1, <2>2, CalmPlaces DEF FastJoinTableReq
  <2>4. PICK s : s = FastJoinTable(Places, r, p) OBVIOUS
  <2>5. Sound(s) BY <2>3, <2>4, CalmPlaces, FastJoinTableSound
  <2>6. Calm(s) /\ Keeps(Places, s) BY <2>3, <2>4, CalmPlaces, FastJoinTableCalm
  <2>7. Handled(s) BY <1>1, <2>1, <2>4 DEF FastJoinTableReq
  <2>8. QED BY <2>5, <2>6, <2>7, HandledCalm
<1>2. CASE FastJoinRoom(p)
  <2>1. PICK left : left = IF room[p] = None THEN Places ELSE LeaveRoom(Places, p) OBVIOUS
  <2>2. Sound(left) /\ Calm(left) /\ Keeps(Places, left)
    <3>1. CASE left = Places BY <3>1, CalmPlaces
    <3>2. CASE room[p] # None /\ left = LeaveRoom(Places, p)
      BY <3>2, CalmPlaces, LeaveRoomSound, LeaveRoomCalm
    <3>3. QED BY <2>1, <3>1, <3>2
  <2>3. \/ Handled(left)
        \/ \E r \in Room : CanEnterRoom(left, r, p) /\ Handled(FastJoinTable(EnterRoom(left, r, p), r, p))
    BY <1>2, <2>1 DEF FastJoinRoom
  <2>4. CASE Handled(left) BY <2>2, <2>4, HandledCalm
  <2>5. ASSUME NEW r \in Room, CanEnterRoom(left, r, p), Handled(FastJoinTable(EnterRoom(left, r, p), r, p))
        PROVE  CalmStep
    <3>1. PICK in : in = EnterRoom(left, r, p) OBVIOUS
    <3>2. left.room[p] \in {None, r} BY <2>5 DEF CanEnterRoom
    <3>3. Sound(in) /\ in.room[p] = r BY <2>2, <3>1, <3>2, EnterRoomSound
    <3>4. left \in PlaceSet /\ in \in PlaceSet BY <2>2, <3>3 DEF Sound, Placed
    <3>5. Calm(in) /\ Keeps(Places, in) BY <2>2, <3>1, <3>4, EnterRoomCalm, KeepsOn
    <3>6. PICK s : s = FastJoinTable(in, r, p) OBVIOUS
    <3>7. tables[r] \subseteq 1..MaxTables BY CalmPlaces
    <3>8. Sound(s) BY <3>3, <3>6, <3>7, FastJoinTableSound
    <3>9. Calm(s) /\ Keeps(Places, s) BY <3>4, <3>5, <3>6, <3>7, FastJoinTableCalm, KeepsOn
    <3>10. Handled(s) BY <2>5, <3>1, <3>6
    <3>11. QED BY <3>8, <3>9, <3>10, HandledCalm
  <2>6. QED BY <2>3, <2>4, <2>5
<1>3. QED BY <1>1, <1>2

\* Every message of a seated client and every timer of a player is a calm step.
LEMMA PlayerCalm ==
  ASSUME SInv, NEW p \in Player, SeatedMsg(p) \/ PlayerTimer(p) PROVE CalmStep
<1>1. ASSUME NEW held \in 0..MaxPurse, EnterSvr(p, held) \/ FlushChangeAcc(p, held) PROVE CalmStep
  <2>1. UNCHANGED placeVars /\ gameState' = gameState
    BY <1>1 DEF EnterSvr, FlushChangeAcc, SamePool, tableVars
  <2>2. QED BY <2>1, UnchangedCalm
<1>2. CASE NetBack(p)
  <2>1. UNCHANGED placeVars /\ gameState' = gameState BY <1>2 DEF NetBack, SamePool, tableVars
  <2>2. QED BY <2>1, UnchangedCalm
<1>3. CASE NetLost(p) BY <1>3, NetLostCalm
<1>4. CASE BackLobby(p) \/ Recover(p)
  <2>1. table[p] = None => CanLeaveRoom(Places, p) BY CalmPlaces DEF CanLeaveRoom
  <2>2. QED BY <1>4, <2>1, LogoutCalm DEF BackLobby, Recover
<1>5. ASSUME NEW r \in Room, EnterRoomReq(p, r) PROVE CalmStep BY <1>5, EnterRoomReqCalm
<1>6. CASE LeaveTableReq(p) \/ PlayerTick(p) BY <1>6, LeaveTableReqCalm
<1>7. ASSUME NEW id \in 1..MaxTables, EnterTableReq(p, id) PROVE CalmStep BY <1>7, EnterTableReqCalm
<1>8. CASE FastJoinRoom(p) \/ FastJoinTableReq(p) BY <1>8, FastJoinReqCalm
<1>9. ASSUME NEW b \in BOOLEAN, TableReady(p, b) PROVE CalmStep BY <1>9, TableReadyCalm
<1>10. QED BY <1>1, <1>2, <1>3, <1>4, <1>5, <1>6, <1>7, <1>8, <1>9 DEF SeatedMsg, PlayerTimer

\* The loop of MarryTable seats who is at no table.
LEMMA MarryJoinCalm == ASSUME SInv, MarryJoin PROVE CalmStep
<1>1. PICK r : r = marrying.room OBVIOUS
<1>2. r \in MarryRoom /\ r \in Room
  BY <1>1, RoomAssumption DEF SInv, PInv, Marries, MarryJoin, Looping
<1>3. PICK p \in Waiters(r) :
        \/ Become(LeaveMarry(JoinNoFullTable(Places, r, p, waiting[r][p]), r, p))
        \/ UNCHANGED placeVars
  BY <1>1 DEF MarryJoin
<1>4. p \in Player /\ waiting[r][p] # None /\ gameState' = gameState
  BY <1>3 DEF Waiters, MarryJoin, tableVars
<1>5. CASE UNCHANGED placeVars BY <1>4, <1>5, UnchangedCalm
<1>6. CASE Become(LeaveMarry(JoinNoFullTable(Places, r, p, waiting[r][p]), r, p))
  <2>1. PICK ex : ex = waiting[r][p] OBVIOUS
  <2>2. PICK v : v = JoinNoFullTable(Places, r, p, ex) OBVIOUS
  <2>3. PICK s : s = LeaveMarry(v, r, p) OBVIOUS
  <2>4. Placed(Places) /\ tables[r] \subseteq 1..MaxTables BY <1>2, CalmPlaces DEF Sound
  <2>5. Places.table[p] = None BY <1>2, <1>4, CalmPlaces, PlacesIs DEF Sound, WaitsWell
  <2>6. Placed(v) BY <1>2, <1>4, <2>2, <2>4, <2>5, JoinNoFullTablePlaced
  <2>7. v \in PlaceSet BY <2>6 DEF Placed
  <2>8. Calm(v) /\ Keeps(Places, v) BY <1>2, <1>4, <2>2, <2>4, <2>5, CalmPlaces, JoinNoFullTableCalm
  <2>9. Calm(s) /\ Keeps(Places, s) BY <2>3, <2>7, <2>8, MarryCalm, KeepsOn
  <2>10. s \in PlaceSet
    <3>1. PICK f : f = [v.waiting EXCEPT ![r][p] = None] OBVIOUS
    <3>2. f \in [Room -> [Player -> (0..MaxTables) \cup {None}]] BY <1>2, <1>4, <2>7, <3>1, PlaceParts
    <3>3. s = [v EXCEPT !.waiting = f] BY <2>3, <2>7, <3>1, PlaceParts DEF LeaveMarry
    <3>4. QED BY <2>7, <3>2, <3>3, SetWaiting
  <2>11. Become(s) BY <1>6, <2>1, <2>2, <2>3
  <2>12. QED BY <1>4, <2>9, <2>10, <2>11, CalmHandler
<1>7. QED BY <1>3, <1>5, <1>6

\* Entering the table that MarryTable has taken is a calm step.
LEMMA MarryEnterCalm == ASSUME SInv, MarryEnter PROVE CalmStep
<1>1. PICK r, t, p : r = marrying.room /\ t = marrying.made /\ p = marrying.player OBVIOUS
<1>2. /\ r \in MarryRoom /\ r \in Room /\ marrying # None /\ p # None
      /\ waiting[r][p] # None /\ t # None
  BY <1>1, RoomAssumption DEF SInv, PInv, Marries, MarryEnter, Looping, NeedsNewTable
<1>3. t \in Table /\ p \in Player
  BY <1>1, <1>2 DEF SInv, PInv, RestTyped
<1>4. Places.table[p] = None /\ room[p] = r
  BY <1>2, <1>3, CalmPlaces, PlacesIs DEF Sound, WaitsWell
<1>5. PICK s : s = IF CanEnterTable(Places, t, p) THEN LeaveMarry(EnterTable(Places, t, p), r, p)
                   ELSE LeaveRoom(Places, p)
  OBVIOUS
<1>6. Become(s) /\ gameState' = gameState BY <1>1, <1>4, <1>5 DEF MarryEnter, tableVars
<1>7. s \in PlaceSet /\ Calm(s) /\ Keeps(Places, s)
  <2>1. CASE CanEnterTable(Places, t, p) /\ s = LeaveMarry(EnterTable(Places, t, p), r, p)
    <3>1. PICK v : v = EnterTable(Places, t, p) OBVIOUS
    <3>2. Placed(Places) /\ Used(t)
      BY <1>1, <1>2, CalmPlaces DEF Sound, SInv, PInv, Marries
    <3>3. Placed(v) BY <1>3, <2>1, <3>1, <3>2, <1>4, EnterTablePlaced
    <3>4. v \in PlaceSet BY <3>3 DEF Placed
    <3>5. Calm(v) /\ Keeps(Places, v) BY <1>3, <1>4, <2>1, <3>1, CalmPlaces, EnterTableCalm
    <3>6. s = LeaveMarry(v, r, p) BY <2>1, <3>1
    <3>7. Calm(s) /\ Keeps(Places, s) BY <3>4, <3>5, <3>6, MarryCalm, KeepsOn
    <3>8. PICK f : f = [v.waiting EXCEPT ![r][p] = None] OBVIOUS
    <3>9. f \in [Room -> [Player -> (0..MaxTables) \cup {None}]] BY <1>2, <1>3, <3>4, <3>8, PlaceParts
    <3>10. s = [v EXCEPT !.waiting = f] BY <3>4, <3>6, <3>8, PlaceParts DEF LeaveMarry
    <3>11. QED BY <3>4, <3>7, <3>9, <3>10, SetWaiting
  <2>2. CASE s = LeaveRoom(Places, p)
    <3>1. Places.room[p] # None BY <1>2, <1>4, PlacesIs, RoomAssumption
    <3>2. Sound(s) BY <1>3, <2>2, <3>1, CalmPlaces, LeaveRoomSound
    <3>3. QED BY <1>3, <2>2, <3>2, CalmPlaces, LeaveRoomCalm DEF Sound, Placed
  <2>3. QED BY <1>5, <2>1, <2>2
<1>8. QED BY <1>6, <1>7, CalmHandler

\* The flags of the seats change, not their players.
LEMMA FlagsCalm ==
  ASSUME SInv, table' = table, lookers' = lookers,
         \A x \in Table, i \in Seat : seat'[x][i].player = seat[x][i].player,
         \A x \in Table, i \in Seat :
           gameState'[x] = "PLAY" => seat'[x][i].play \/ (gameState[x] = "PLAY" /\ seat'[x][i].play = seat[x][i].play)
  PROVE  Calm(Places)' /\ \A x \in Table : StaysAt(x)
<1>1. OneChair(Places)'
  <2>1. OneChair(Places) BY CalmPlaces DEF Calm
  <2>2. QED BY <2>1 DEF OneChair, Places
<1>2. AllPlay(Places)'
  <2>1. AllPlay(Places) BY CalmPlaces DEF Calm
  <2>2. QED BY <2>1 DEF AllPlay, Places
<1>3. \A x \in Table : StaysAt(x) BY SameSeated DEF StaysAt
<1>4. QED BY <1>1, <1>2, <1>3 DEF Calm

\* A table that is taken into use plays no round.
LEMMA MallocCalm ==
  ASSUME SInv, NEW r \in Room, MallocTable(r), table' = table, lookers' = lookers,
         UNCHANGED <<room, waiting, playerNum>>
  PROVE  CalmStep
<1>1. PICK id \in 1..MaxTables : id = IF freeTable[r] # <<>> THEN Head(freeTable[r]) ELSE Created(r) + 1
  BY MallocTableStep DEF SInv
<1>2. PICK t : t = <<r, id>> OBVIOUS
<1>3. t \in Table BY <1>1, <1>2, TableParts
<1>4. seat \in [Table -> [Seat -> SeatSet]] BY CalmPlaces, PlaceParts, PlacesIs
<1>5. gameState \in [Table -> {"FREE", "PLAY", "GAME_END", "RECYCLE"}] BY DEF SInv, PInv, RestTyped
<1>6. PICK h : h = [i \in Seat |-> [seat[t][i] EXCEPT !.ready = FALSE]] OBVIOUS
<1>7. ASSUME NEW i \in Seat PROVE h[i].player = seat[t][i].player
  <2>1. PICK x \in SeatSet : x = seat[t][i] BY <1>3, <1>4
  <2>2. QED BY <1>6, <2>1, FlagsKeepPlayer
<1>8. seat' = [seat EXCEPT ![t] = h] /\ gameState' = [gameState EXCEPT ![t] = "FREE"]
  BY <1>1, <1>2, <1>3, <1>4, <1>6 DEF MallocTable
<1>9. \A x \in Table, i \in Seat : seat'[x][i].player = seat[x][i].player
  BY <1>3, <1>4, <1>7, <1>8
<1>10. \A x \in Table : gameState'[x] = "PLAY" => gameState[x] = "PLAY" /\ seat'[x] = seat[x]
  BY <1>3, <1>4, <1>5, <1>8
<1>11. Calm(Places)' /\ \A x \in Table : StaysAt(x) BY <1>9, <1>10, FlagsCalm
<1>12. \A x \in Table : StartsFull(x) BY <1>10 DEF StartsFull
<1>13. QED BY <1>11, <1>12 DEF CalmStep

\* As many players sit on the chairs as there are chairs, if each of them has one.
LEMMA FullTable ==
  ASSUME NEW s, NEW t \in Table, OneChair(s), \A i \in Seat : s.seat[t][i].player # None
  PROVE  Cardinality(Seated(s, t) \cap Player) = SeatNum
<1> DEFINE f == [i \in Seat |-> s.seat[t][i].player]
           S == Seated(s, t) \cap Player
<1>1. \A i \in Seat : f[i] \in S
  <2>1. \A i \in Seat : s.seat[t][i].player \in Seated(s, t) BY SeatedIs
  <2>2. \A i \in Seat : s.seat[t][i].player \in Player BY DEF OneChair
  <2>3. QED BY <2>1, <2>2
<1>2. ASSUME NEW p \in S PROVE \E i \in Seat : f[i] = p BY SeatedIs
<1>3. \A i, j \in Seat : f[i] = f[j] => i = j BY DEF OneChair
<1> HIDE DEF f, S
<1>4. DOMAIN f = Seat /\ f \in [Seat -> S] BY <1>1 DEF f
<1>5. f \in Bijection(Seat, S)
  <2>1. IsInjective(f) BY <1>3, <1>4 DEF IsInjective
  <2>2. QED BY <1>2, <1>4, <2>1 DEF Bijection, Injection, Surjection
<1>6. ExistsBijection(Seat, S) BY <1>5 DEF ExistsBijection
<1>7. SeatNum \in Nat BY RoomAssumption
<1>8. IsFiniteSet(Seat) /\ Cardinality(Seat) = SeatNum
  <2>1. 1 \in Int /\ SeatNum \in Int BY <1>7
  <2>2. Cardinality(1..SeatNum) = IF 1 > SeatNum THEN 0 ELSE SeatNum - 1 + 1 BY <2>1, FS_Interval
  <2>3. IsFiniteSet(1..SeatNum) BY <2>1, FS_Interval
  <2>4. QED BY <1>7, <2>2, <2>3 DEF Seat
<1>9. Cardinality(S) = SeatNum BY <1>6, <1>8, FS_Bijection
<1>10. QED BY <1>9 DEF S

\* A round begins with everybody on a chair of his own.
LEMMA StartCalm ==
  ASSUME SInv, NEW t \in Table, StartRound(t) PROVE CalmStep
<1>1. seat \in [Table -> [Seat -> SeatSet]] BY CalmPlaces, PlaceParts, PlacesIs
<1>2. gameState \in [Table -> {"FREE", "PLAY", "GAME_END", "RECYCLE"}] BY DEF SInv, PInv, RestTyped
<1>3. PICK h : h = [i \in Seat |-> [seat[t][i] EXCEPT !.play = TRUE]] OBVIOUS
<1>4. ASSUME NEW i \in Seat PROVE h[i].player = seat[t][i].player /\ h[i].play
  <2>1. PICK x \in SeatSet : x = seat[t][i] BY <1>1
  <2>2. [x EXCEPT !.play = TRUE].play BY <2>1 DEF SeatSet
  <2>3. QED BY <1>3, <2>1, <2>2, FlagsKeepPlayer
<1>5. seat' = [seat EXCEPT ![t] = h] /\ gameState' = [gameState EXCEPT ![t] = "PLAY"]
  BY <1>1, <1>3 DEF StartRound
<1>6. \A x \in Table, i \in Seat : seat'[x][i].player = seat[x][i].player BY <1>1, <1>4, <1>5
<1>7. \A x \in Table, i \in Seat :
        gameState'[x] = "PLAY" => seat'[x][i].play \/ (gameState[x] = "PLAY" /\ seat'[x][i].play = seat[x][i].play)
  BY <1>1, <1>2, <1>4, <1>5
<1>8. Calm(Places)' /\ \A x \in Table : StaysAt(x) BY <1>6, <1>7, FlagsCalm DEF StartRound
<1>9. ASSUME NEW x \in Table PROVE StartsFull(x)
  <2>1. CASE x # t BY <1>2, <1>5, <2>1 DEF StartsFull
  <2>2. CASE x = t
    <3>1. \A i \in Seat : Places.seat[t][i].player # None BY PlacesIs DEF StartRound, IsAllReady
    <3>2. Cardinality(Seated(Places, t) \cap Player) = SeatNum
      BY <3>1, CalmPlaces, FullTable DEF Calm
    <3>3. Seated(Places, t)' = Seated(Places, t) BY <1>6, SameSeated
    <3>4. QED BY <2>2, <3>2, <3>3 DEF StartsFull
  <2>3. QED BY <2>1, <2>2
<1>10. QED BY <1>8, <1>9 DEF CalmStep

\* The end of a round is a calm step.
LEMMA EndCalm ==
  ASSUME SInv, NEW t \in Table, EndRound(t) PROVE CalmStep
<1>1. seat \in [Table -> [Seat -> SeatSet]] BY CalmPlaces, PlaceParts, PlacesIs
<1>2. gameState \in [Table -> {"FREE", "PLAY", "GAME_END", "RECYCLE"}] BY DEF SInv, PInv, RestTyped
<1>3. PICK h : h = [i \in Seat |-> [seat[t][i] EXCEPT !.ready = FALSE]] OBVIOUS
<1>4. ASSUME NEW i \in Seat PROVE h[i].player = seat[t][i].player
  <2>1. PICK x \in SeatSet : x = seat[t][i] BY <1>1
  <2>2. QED BY <1>3, <2>1, FlagsKeepPlayer
<1>5. seat' = [seat EXCEPT ![t] = h] /\ gameState' = [gameState EXCEPT ![t] = "GAME_END"]
  BY <1>1, <1>3 DEF EndRound
<1>6. \A x \in Table, i \in Seat : seat'[x][i].player = seat[x][i].player BY <1>1, <1>4, <1>5
<1>7. \A x \in Table : gameState'[x] = "PLAY" => gameState[x] = "PLAY" /\ seat'[x] = seat[x]
  BY <1>1, <1>2, <1>5
<1>8. Calm(Places)' /\ \A x \in Table : StaysAt(x) BY <1>6, <1>7, FlagsCalm DEF EndRound
<1>9. \A x \in Table : StartsFull(x) BY <1>7 DEF StartsFull
<1>10. QED BY <1>8, <1>9 DEF CalmStep

\* Nobody is put out of a round unless the table was to be cleared.
LEMMA ClearCalm ==
  ASSUME SInv, NEW t \in Table, RoundFlush(t) \/ ClearPlayers(t) PROVE CalmStep
<1>1. PICK who \in SUBSET Player : Become(LeaveTable(Places, t, who))
  <2>1. CASE ClearPlayers(t) BY <2>1 DEF ClearPlayers
  <2>2. CASE RoundFlush(t)
    <3>1. \A p \in Seated(Places, t) \ {Gone} : p \in Player
      <4>1. \A i \in Seat : Places.seat[t][i].player \in Player \cup {None, Gone}
        BY CalmPlaces, PlaceParts DEF SeatSet
      <4>2. QED BY <4>1, SeatedIs
    <3>2. {p \in Seated(Places, t) \ {Gone} : coins[p] < EnterMin} \in SUBSET Player BY <3>1
    <3>3. QED BY <2>2, <3>2 DEF RoundFlush
  <2>3. QED BY <2>1, <2>2
<1>2. PICK s : s = LeaveTable(Places, t, who) OBVIOUS
<1>3. /\ s \in PlaceSet /\ Calm(s)
      /\ \A x \in Table \ {t} : s.seat[x] = Places.seat[x]
  BY <1>2, CalmPlaces, LeaveTableCalm
<1>4. Places' = s BY <1>1, <1>2, <1>3, PlaceParts DEF Places, Become
<1>5. gameState \in [Table -> {"FREE", "PLAY", "GAME_END", "RECYCLE"}] BY DEF SInv, PInv, RestTyped
<1>6. \A x \in Table : gameState'[x] = "PLAY" => gameState[x] = "PLAY"
  BY <1>5 DEF RoundFlush, ClearPlayers
<1>7. OneChair(Places)' /\ AllPlay(Places)' BY <1>3, <1>4, <1>6 DEF Calm, OneChair, AllPlay
<1>8. \A x \in Table : StartsFull(x) BY <1>6 DEF StartsFull
<1>9. gameState[t] # "PLAY" \/ clearing[t] BY DEF RoundFlush, ClearPlayers
<1>10. ASSUME NEW x \in Table PROVE StaysAt(x)
  <2>1. CASE x = t BY <1>9, <2>1 DEF StaysAt
  <2>2. CASE x # t
    <3>1. s.seat[x] = Places.seat[x] BY <1>3, <2>2
    <3>2. \A i \in Seat : seat'[x][i].player = seat[x][i].player
      BY <1>4, <3>1, PlacesIs DEF Places
    <3>3. QED BY <3>2, SameSeated DEF StaysAt
  <2>3. QED BY <2>1, <2>2
<1>11. QED BY <1>7, <1>8, <1>10 DEF CalmStep, Calm

\* Every step of those clients, and of the timers, leaves the chairs in order.
LEMMA SeatedStep == ASSUME SInv, [SeatedNext]_vars PROVE CalmStep /\ PInv'
<1>1. PInv' BY NextPlaces DEF SInv, SeatedNext, Next, PlayerMsg
<1>2. ASSUME NEW p \in Player, SeatedMsg(p) \/ PlayerTimer(p) PROVE CalmStep BY <1>2, PlayerCalm
<1>3. ASSUME NEW b \in BOOLEAN, SetRepair(b) PROVE CalmStep
  <2>1. UNCHANGED placeVars /\ gameState' = gameState BY <1>3 DEF SetRepair, tableVars
  <2>2. QED BY <2>1, UnchangedCalm
<1>4. ASSUME NEW r \in Room, RoomTimer(r) PROVE CalmStep
  <2>1. CASE MarryTable(r) \/ CheckRecover(r)
    <3>1. UNCHANGED placeVars /\ gameState' = gameState BY <2>1 DEF MarryTable, CheckRecover, tableVars
    <3>2. QED BY <3>1, UnchangedCalm
  <2>2. CASE CheckNewTable(r) BY <2>2, MallocCalm DEF CheckNewTable
  <2>3. QED BY <1>4, <2>1, <2>2 DEF RoomTimer
<1>5. ASSUME NEW t \in Table, TableTimer(t) PROVE CalmStep
  BY <1>5, StartCalm, EndCalm, ClearCalm DEF TableTimer
<1>6. ASSUME MarryLoop PROVE CalmStep
  <2>1. ASSUME MarryDone PROVE CalmStep
    <3>1. UNCHANGED placeVars /\ gameState' = gameState BY <2>1 DEF MarryDone, tableVars
    <3>2. QED BY <3>1, UnchangedCalm
  <2>2. ASSUME MarryMalloc PROVE CalmStep
    <3>1. marrying.room \in Room BY <2>2, RoomAssumption DEF SInv, PInv, Marries, MarryMalloc, Looping
    <3>2. QED BY <2>2, <3>1, MallocCalm DEF MarryMalloc
  <2>3. QED BY <1>6, <2>1, <2>2, MarryJoinCalm, MarryEnterCalm DEF MarryLoop
<1>7. ASSUME UNCHANGED vars PROVE CalmStep
  <2>1. UNCHANGED placeVars /\ gameState' = gameState BY <1>7 DEF vars, tableVars
  <2>2. QED BY <2>1, UnchangedCalm
<1>8. QED BY <1>1, <1>2, <1>3, <1>4, <1>5, <1>6, <1>7 DEF SeatedNext, Timers

\* Places are calm at the start.
LEMMA InitCalm == Init => SInv
<1> SUFFICES ASSUME Init PROVE SInv OBVIOUS
<1>1. \A t \in Table, i \in Seat : Places.seat[t][i].player = None
  BY PlacesIs DEF Init, EmptySeat
<1>2. \A t \in Table : Places.lookers[t] = {} BY PlacesIs DEF Init
<1>3. Calm(Places) BY <1>1, <1>2 DEF Calm, OneChair, AllPlay
<1>4. QED BY <1>3, InitPlaces DEF SInv

\* Where nobody stands up, nobody looks on or has a second chair, every chair's player points to
\* its table, and who sits at a table that plays takes part in its round.
THEOREM ChairsStayCalm == SeatedSpec => []SInv
<1>1. SInv /\ [SeatedNext]_vars => SInv' BY SeatedStep DEF CalmStep, SInv
<1>2. QED BY <1>1, InitCalm, PTL DEF SeatedSpec

\* A round of the matching rooms and of the others starts with a player on every chair: nobody
\* plays two hands, and none is dealt to a player who is gone.
THEOREM RoundsStartFull == SeatedSpec => OneChairEach
<1>1. SInv /\ [SeatedNext]_vars =>
        [\A t \in Table : gameState[t] = "FREE" /\ gameState'[t] = "PLAY" =>
           Cardinality(Seated(Places, t)' \cap Player) = SeatNum]_vars
  BY SeatedStep DEF CalmStep, StartsFull
<1>2. QED BY <1>1, ChairsStayCalm, PTL DEF SeatedSpec, OneChairEach

\* A lost connection, a silence, a message to leave, another room or a purse that is emptied:
\* nothing takes a player out of a round, or puts one in, where no clearing is pending.
THEOREM RoundsKeepPlayers == SeatedSpec => RoundKeepsPlayers
<1>1. SInv /\ [SeatedNext]_vars =>
        [\A t \in Table : gameState[t] = "PLAY" /\ ~clearing[t] =>
           Seated(Places, t)' = Seated(Places, t)]_vars
  BY SeatedStep DEF CalmStep, StaysAt
<1>2. QED BY <1>1, ChairsStayCalm, PTL DEF SeatedSpec, RoundKeepsPlayers
================================================================================
