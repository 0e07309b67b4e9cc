----------------------------- MODULE Missions_proofs -----------------------------
(***************************************************************************)
(* What becomes of a prize, for any calendar, any missions and a database  *)
(* as slow as it likes: what the statements under way will make of the     *)
(* prizes and the row of a mission is followed statement by statement.     *)
(* Then, in the same way, what becomes of the time of a mission: which row *)
(* is the last one, that a player who is away misses no turn of its cycle, *)
(* and that a day that goes on takes nothing from him.                     *)
(***************************************************************************)
EXTENDS Missions, FiniteSets, SequenceTheorems, TLAPS

Updates == {"none", "insert", "update", "delete"}
RowSet == [rtimes : Nat, ctimes : Nat, ptime : Nat, update : Updates, given : Nat]
LoginSet == [offline_time : Nat, clogin : Nat, weeklogin : Nat]
\* Rows as the database has them, rows a player has, and rows that may be written.
KeptSet == {m \in RowSet : m.update = "none"}
LiveSet == {m \in RowSet : m.update \in {"none", "update"}}
WriteSet == {m \in RowSet : m.update \in {"insert", "update"}}

PlayerSet == [login : LoginSet, mission : [Mission -> LiveSet]]

PrizeSet == [kind : {"prize"}, ids : SUBSET Mission]

\* Some missions, none of which is deleted unless it is closed.
Writable(rows) ==
  /\ DOMAIN rows \subseteq Mission \cup Retired
  /\ rows \in [DOMAIN rows -> RowSet]
  /\ \A id \in DOMAIN rows \cap Mission : rows[id].update # "delete"
SavedSet ==
  {s \in [kind : {"rows"}, rows : UNION {[D -> RowSet] : D \in SUBSET (Mission \cup Retired)}] :
     \A id \in DOMAIN s.rows \cap Mission : s.rows[id] \in WriteSet}
StatementSet ==
  PrizeSet \cup SavedSet \cup [kind : {"login"}, info : LoginSet] \cup [kind : {"load"}]

DbSet == [login : LoginSet, row : UNION {[D -> KeptSet] : D \in SUBSET (Mission \cup Retired)},
          paid : [Mission -> Nat]]

MissionsTyped ==
  /\ now \in Nat /\ state \in {"out", "load", "playing"} /\ login \in LoginSet
  /\ db \in DbSet
  /\ state = "playing" => mission \in [Mission -> LiveSet]
  /\ queue \in Seq(StatementSet)

--------------------------------------------------------------------------------
(* What the database keeps of a mission, and what statements make of it.   *)

Account == [paid : Nat, there : BOOLEAN, given : Nat]

\* No prize is given by a row that was not paid, and none is paid before there is a row.
Honest(x) == x.given <= x.paid /\ (x.paid > 0 => x.there)
Upto(x, y) == x.paid <= y.paid /\ (x.there => y.there)

Entered(m, x) ==
  IF m.update = "insert" \/ x.there THEN [x EXCEPT !.there = TRUE, !.given = m.given] ELSE x

Effect(id, s, x) ==
  IF s.kind = "prize" /\ id \in s.ids THEN [x EXCEPT !.paid = @ + 1]
  ELSE IF s.kind = "rows" /\ id \in DOMAIN s.rows THEN Entered(s.rows[id], x)
  ELSE x

\* The statements q turn x into y, and what is between them is honest.
Idle(id, q, i) == \A j \in DOMAIN q : i < j => ~Concerns(q[j], id)

Path(id, q, x, y) ==
  \E h \in [0..Len(q) -> Account] :
    /\ h[0] = x /\ h[Len(q)] = y
    /\ \A i \in 1..Len(q) : h[i] = Effect(id, q[i], h[i - 1])
    /\ \A i \in 0..Len(q) : Honest(h[i]) /\ Upto(h[i], y) /\ (Idle(id, q, i) => h[i] = y)

\* What a database has of a mission.
NotedIn(d, id) ==
  [paid |-> d.paid[id], there |-> id \in DOMAIN d.row,
   given |-> IF id \in DOMAIN d.row THEN d.row[id].given ELSE 0]
Noted(id) == NotedIn(db, id)

\* Where the statements lead to agrees with what the player has.
Agrees(id, y) ==
  /\ id \notin torn => y.given = y.paid
  /\ state = "playing" =>
       /\ y.there /\ mission[id].given <= y.paid
       /\ id \notin torn => mission[id].given = y.paid

Settles(id) == \E y \in Account : Path(id, queue, Noted(id), y) /\ Agrees(id, y)

MInv == MissionsTyped /\ \A id \in Mission : Settles(id)

--------------------------------------------------------------------------------
(* Accounts and paths.                                                     *)

\* An account only grows.
LEMMA UptoSteps ==
  /\ \A x \in Account : Upto(x, x)
  /\ \A x, y, z \in Account : Upto(x, y) /\ Upto(y, z) => Upto(x, z)
BY DEF Account, Upto

\* A row that is written gives its mission's account another number of prizes.
LEMMA EnteredOf ==
  ASSUME NEW m \in RowSet, NEW x \in Account
  PROVE  Entered(m, x) \in Account /\ Upto(x, Entered(m, x))
<1>1. CASE m.update = "insert" \/ x.there
  <2>1. Entered(m, x) = [paid |-> x.paid, there |-> TRUE, given |-> m.given]
    BY <1>1 DEF Entered, Account
  <2>2. QED BY <2>1 DEF Account, RowSet, Upto
<1>2. CASE ~(m.update = "insert" \/ x.there)
  BY <1>2, UptoSteps DEF Entered
<1>3. QED BY <1>1, <1>2

\* Statements that do not concern a mission leave its account alone, others let it grow.
LEMMA EffectOf ==
  ASSUME NEW id \in Mission, NEW s \in StatementSet, NEW x \in Account
  PROVE  /\ Effect(id, s, x) \in Account /\ Upto(x, Effect(id, s, x))
         /\ ~Concerns(s, id) => Effect(id, s, x) = x
<1>1. CASE s.kind = "prize" /\ id \in s.ids
  BY <1>1 DEF Effect, Account, Upto, Concerns
<1>2. CASE s.kind = "rows" /\ id \in DOMAIN s.rows
  <2>1. s \in SavedSet
    BY <1>2 DEF StatementSet, PrizeSet
  <2>2. s.rows[id] \in RowSet BY <1>2, <2>1 DEF SavedSet
  <2>3. Entered(s.rows[id], x) \in Account /\ Upto(x, Entered(s.rows[id], x))
    BY <2>2, EnteredOf
  <2>4. QED BY <1>2, <2>3 DEF Effect, Concerns
<1>3. CASE ~Concerns(s, id) BY <1>3, UptoSteps DEF Effect, Concerns
<1>4. QED BY <1>1, <1>2, <1>3 DEF Concerns

\* The ends of a path.
LEMMA PathEnds ==
  ASSUME NEW id, NEW q \in Seq(StatementSet), NEW x, NEW y, Path(id, q, x, y)
  PROVE  /\ x \in Account /\ y \in Account /\ Honest(x) /\ Honest(y) /\ Upto(x, y)
         /\ (\A i \in DOMAIN q : ~Concerns(q[i], id)) => x = y
<1>1. Len(q) \in Nat BY LenProperties
<1>2. QED BY <1>1 DEF Path, Idle

\* No statement, no change.
LEMMA PathEmpty ==
  ASSUME NEW id, NEW x \in Account, Honest(x)
  PROVE  Path(id, <<>>, x, x)
<1> DEFINE h == [i \in 0..0 |-> x]
<1>1. PICK q : q = <<>> OBVIOUS
<1>2. Len(q) = 0 BY <1>1
<1>3. h \in [0..Len(q) -> Account] /\ h[0] = x BY <1>2
<1> HIDE DEF h
<1>4. Path(id, q, x, x) BY <1>2, <1>3, UptoSteps DEF Path
<1>5. QED BY <1>1, <1>4

\* One statement.
LEMMA PathOne ==
  ASSUME NEW id \in Mission, NEW s \in StatementSet, NEW x \in Account, NEW y,
         Honest(x), y = Effect(id, s, x), Honest(y)
  PROVE  Path(id, <<s>>, x, y)
<1> DEFINE q == <<s>>
<1>1. Len(q) = 1 /\ q[1] = s /\ DOMAIN q = {1} OBVIOUS
<1>2. y \in Account /\ Upto(x, y) /\ (~Concerns(s, id) => x = y) BY EffectOf
<1> DEFINE h == [i \in 0..1 |-> IF i = 0 THEN x ELSE y]
<1>3. h \in [0..Len(q) -> Account] /\ h[0] = x /\ h[1] = y BY <1>1, <1>2
<1>4. Upto(y, y) BY <1>2, UptoSteps
<1> HIDE DEF q, h
<1>5. \A i \in 1..Len(q) : h[i] = Effect(id, q[i], h[i - 1]) BY <1>1, <1>3
<1>6. \A i \in 0..Len(q) : Honest(h[i]) /\ Upto(h[i], y) /\ (Idle(id, q, i) => h[i] = y)
  <2> SUFFICES ASSUME NEW i \in 0..Len(q)
               PROVE  Honest(h[i]) /\ Upto(h[i], y) /\ (Idle(id, q, i) => h[i] = y)
    OBVIOUS
  <2>1. CASE i = 0
    <3>1. Idle(id, q, 0) => ~Concerns(s, id) BY <1>1 DEF Idle
    <3>2. QED BY <1>2, <1>3, <2>1, <3>1
  <2>2. CASE i = 1 BY <1>3, <1>4, <2>2
  <2>3. QED BY <1>1, <2>1, <2>2
<1>7. Path(id, q, x, y) BY <1>1, <1>3, <1>5, <1>6 DEF Path
<1>8. QED BY <1>7 DEF q

\* What does not concern a mission in all of two sequences of statements does not in the second,
\* and what is left of it in the first does not either.
LEMMA IdleParts ==
  ASSUME NEW id, NEW q \in Seq(StatementSet), NEW r \in Seq(StatementSet)
  PROVE  /\ \A i \in 0..Len(q) : Idle(id, q \o r, i) => Idle(id, q, i) /\ Idle(id, r, 0)
         /\ \A i \in 0..Len(r) : Idle(id, q \o r, Len(q) + i) => Idle(id, r, i)
<1>1. /\ Len(q) \in Nat /\ Len(r) \in Nat /\ DOMAIN q = 1..Len(q) /\ DOMAIN r = 1..Len(r)
      /\ DOMAIN (q \o r) = 1..(Len(q) + Len(r))
      /\ \A i \in 1..(Len(q) + Len(r)) : (q \o r)[i] = IF i <= Len(q) THEN q[i] ELSE r[i - Len(q)]
  BY ConcatProperties, LenProperties
<1>2. PICK c : c = q \o r OBVIOUS
<1>3. /\ \A i \in 1..Len(q) : i \in DOMAIN c /\ c[i] = q[i]
      /\ \A i \in 1..Len(r) : Len(q) + i \in DOMAIN c /\ c[Len(q) + i] = r[i]
  BY <1>1, <1>2
<1>4. ASSUME NEW i \in 0..Len(q), Idle(id, c, i) PROVE Idle(id, q, i) /\ Idle(id, r, 0)
  <2>1. \A j \in 1..Len(q) : i < j => ~Concerns(q[j], id) BY <1>1, <1>3, <1>4 DEF Idle
  <2>2. \A j \in 1..Len(r) : ~Concerns(r[j], id)
    <3> SUFFICES ASSUME NEW j \in 1..Len(r) PROVE ~Concerns(r[j], id) OBVIOUS
    <3>1. i < Len(q) + j BY <1>1
    <3>2. QED BY <1>3, <1>4, <3>1 DEF Idle
  <2>3. QED BY <1>1, <2>1, <2>2 DEF Idle
<1>5. ASSUME NEW i \in 0..Len(r), Idle(id, c, Len(q) + i) PROVE Idle(id, r, i)
  <2> SUFFICES ASSUME NEW j \in 1..Len(r), i < j PROVE ~Concerns(r[j], id) BY <1>1 DEF Idle
  <2>1. Len(q) + i < Len(q) + j BY <1>1
  <2>2. QED BY <1>3, <1>5, <2>1 DEF Idle
<1>6. QED BY <1>2, <1>4, <1>5

\* One path after the other.
LEMMA PathConcat ==
  ASSUME NEW id \in Mission, NEW q \in Seq(StatementSet), NEW r \in Seq(StatementSet),
         NEW x, NEW y, NEW z, Path(id, q, x, y), Path(id, r, y, z)
  PROVE  Path(id, q \o r, x, z)
<1>1. PICK m \in Nat, n \in Nat : m = Len(q) /\ n = Len(r) BY LenProperties
<1>2. PICK c : c = q \o r OBVIOUS
<1>3. /\ Len(c) = m + n
      /\ \A i \in 1..(m + n) : c[i] = IF i <= m THEN q[i] ELSE r[i - m]
  BY <1>1, <1>2, ConcatProperties
<1>4. PICK f \in [0..m -> Account] :
        /\ f[0] = x /\ f[m] = y
        /\ \A i \in 1..m : f[i] = Effect(id, q[i], f[i - 1])
        /\ \A i \in 0..m : Honest(f[i]) /\ Upto(f[i], y) /\ (Idle(id, q, i) => f[i] = y)
  BY <1>1 DEF Path
<1>5. PICK g \in [0..n -> Account] :
        /\ g[0] = y /\ g[n] = z
        /\ \A i \in 1..n : g[i] = Effect(id, r[i], g[i - 1])
        /\ \A i \in 0..n : Honest(g[i]) /\ Upto(g[i], z) /\ (Idle(id, r, i) => g[i] = z)
  BY <1>1 DEF Path
<1>6. y \in Account /\ z \in Account /\ Upto(y, z) /\ (Idle(id, r, 0) => y = z)
  BY <1>1, <1>4, <1>5
<1> DEFINE h == [i \in 0..(m + n) |-> IF i <= m THEN f[i] ELSE g[i - m]]
<1>7. h \in [0..(m + n) -> Account] BY <1>1
<1>8. /\ \A i \in 0..m : h[i] = f[i]
      /\ \A i \in 0..n : h[m + i] = g[i]
  BY <1>1, <1>4, <1>5
<1> HIDE DEF h
<1>9. h[0] = x /\ h[m + n] = z BY <1>1, <1>4, <1>5, <1>8
<1>10. \A i \in 1..(m + n) : h[i] = Effect(id, c[i], h[i - 1])
  <2> SUFFICES ASSUME NEW i \in 1..(m + n) PROVE h[i] = Effect(id, c[i], h[i - 1]) OBVIOUS
  <2>1. CASE i <= m
    <3>1. i \in 1..m /\ i \in 0..m /\ i - 1 \in 0..m BY <1>1, <2>1
    <3>2. c[i] = q[i] /\ h[i] = f[i] /\ h[i - 1] = f[i - 1] BY <1>3, <1>8, <2>1, <3>1
    <3>3. QED BY <1>4, <3>1, <3>2
  <2>2. CASE i > m
    <3>0. i - m \in 1..n BY <2>2
    <3>1. PICK j \in 1..n : i = m + j /\ j = i - m
      <4>1. i = m + (i - m) OBVIOUS
      <4>2. QED BY <3>0, <4>1, Zenon
    <3>2. c[i] = r[j] /\ j - 1 \in 0..n /\ i - 1 = m + (j - 1) BY <1>1, <1>3, <2>2, <3>1
    <3>3. h[i] = g[j] /\ h[i - 1] = g[j - 1] BY <1>8, <3>1, <3>2
    <3>4. QED BY <1>5, <3>1, <3>2, <3>3
  <2>3. QED BY <1>1, <2>1, <2>2
<1>11. \A i \in 0..(m + n) : Honest(h[i]) /\ Upto(h[i], z) /\ (Idle(id, c, i) => h[i] = z)
  <2> SUFFICES ASSUME NEW i \in 0..(m + n)
               PROVE  Honest(h[i]) /\ Upto(h[i], z) /\ (Idle(id, c, i) => h[i] = z)
    OBVIOUS
  <2>1. CASE i <= m
    <3>0. i \in 0..m BY <2>1
    <3>1. i \in 0..m /\ h[i] = f[i] /\ f[i] \in Account BY <1>8, <3>0, Zenon
    <3>2. Upto(f[i], z) BY <1>4, <1>6, <3>1, UptoSteps
    <3>3. Idle(id, c, i) => Idle(id, q, i) /\ Idle(id, r, 0) BY <1>1, <1>2, <3>1, IdleParts
    <3>4. QED BY <1>4, <1>6, <3>1, <3>2, <3>3
  <2>2. CASE i > m
    <3>0. i - m \in 0..n /\ i = m + (i - m) BY <2>2
    <3>1. PICK j \in 0..n : i = m + j BY <3>0, Zenon
    <3>2. Idle(id, c, m + j) => Idle(id, r, j) BY <1>1, <1>2, <3>1, IdleParts
    <3>3. QED BY <1>5, <1>8, <3>1, <3>2
  <2>3. QED BY <1>1, <2>1, <2>2
<1>12. Path(id, c, x, z) BY <1>3, <1>7, <1>9, <1>10, <1>11 DEF Path
<1>13. QED BY <1>2, <1>12

\* What is left of a path when its first statement has been carried out.
LEMMA PathTail ==
  ASSUME NEW id \in Mission, NEW q \in Seq(StatementSet), q # <<>>, NEW x, NEW y, Path(id, q, x, y)
  PROVE  /\ Path(id, Tail(q), Effect(id, Head(q), x), y)
         /\ Head(q) \in StatementSet /\ Tail(q) \in Seq(StatementSet)
<1>1. PICK t \in Seq(StatementSet) : t = Tail(q) BY HeadTailProperties
<1>2. PICK m \in Nat : m = Len(t) BY LenProperties
<1>3. /\ Head(q) \in StatementSet /\ Head(q) = q[1] /\ Len(q) = m + 1
      /\ \A i \in 1..m : t[i] = q[i + 1]
  BY <1>1, <1>2, HeadTailProperties
<1>4. PICK f \in [0..(m + 1) -> Account] :
        /\ f[0] = x /\ f[m + 1] = y
        /\ \A i \in 1..(m + 1) : f[i] = Effect(id, q[i], f[i - 1])
        /\ \A i \in 0..(m + 1) : Honest(f[i]) /\ Upto(f[i], y) /\ (Idle(id, q, i) => f[i] = y)
  BY <1>3 DEF Path
<1> DEFINE h == [i \in 0..m |-> f[i + 1]]
<1>5. /\ h \in [0..m -> Account]
      /\ \A i \in 0..m : h[i] = f[i + 1] /\ i + 1 \in 0..(m + 1) /\ i + 1 \in 1..(m + 1)
  BY <1>2
<1> HIDE DEF h
<1>6. h[0] = Effect(id, Head(q), x) /\ h[m] = y
  <2>1. f[1] = Effect(id, q[1], f[0]) BY <1>2, <1>4
  <2>2. 0 \in 0..m /\ m \in 0..m BY <1>2
  <2>3. QED BY <1>3, <1>4, <1>5, <2>1, <2>2
<1>7. \A i \in 1..m : h[i] = Effect(id, t[i], h[i - 1])
  <2> SUFFICES ASSUME NEW i \in 1..m PROVE h[i] = Effect(id, t[i], h[i - 1]) OBVIOUS
  <2>1. i \in 0..m /\ i - 1 \in 0..m /\ (i - 1) + 1 = i /\ (i + 1) - 1 = i BY <1>2
  <2>2. h[i] = f[i + 1] /\ h[i - 1] = f[i] BY <1>5, <2>1
  <2>3. f[i + 1] = Effect(id, q[i + 1], f[i]) BY <1>4, <1>5, <2>1
  <2>4. QED BY <1>3, <2>2, <2>3
<1>8. \A i \in 0..m : Honest(h[i]) /\ Upto(h[i], y) /\ (Idle(id, t, i) => h[i] = y)
  <2> SUFFICES ASSUME NEW i \in 0..m
               PROVE  Honest(h[i]) /\ Upto(h[i], y) /\ (Idle(id, t, i) => h[i] = y)
    OBVIOUS
  <2>1. ASSUME Idle(id, t, i) PROVE Idle(id, q, i + 1)
    <3> SUFFICES ASSUME NEW j \in 1..(m + 1), i + 1 < j PROVE ~Concerns(q[j], id)
      BY <1>3 DEF Idle
    <3>1. PICK k \in 1..m : j = k + 1 /\ i < k BY <1>2
    <3>2. ~Concerns(t[k], id) BY <1>2, <2>1, <3>1 DEF Idle
    <3>3. QED BY <1>3, <3>1, <3>2
  <2>2. QED BY <1>4, <1>5, <2>1
<1>9. Path(id, t, Effect(id, Head(q), x), y) BY <1>2, <1>5, <1>6, <1>7, <1>8 DEF Path
<1>10. QED BY <1>1, <1>3, <1>9

--------------------------------------------------------------------------------
(* What the handlers send.                                                 *)

\* A statement that is sent if there is something to say.
LEMMA PathSome ==
  ASSUME NEW id \in Mission, NEW ids, NEW s \in StatementSet, NEW x \in Account, NEW y,
         Honest(x), y = Effect(id, s, x), Honest(y), ids = {} => y = x
  PROVE  Some(ids, s) \in Seq(StatementSet) /\ Path(id, Some(ids, s), x, y)
<1>1. CASE ids = {}
  <2>1. Some(ids, s) = <<>> BY <1>1 DEF Some
  <2>2. Path(id, <<>>, x, x) BY PathEmpty
  <2>3. <<>> \in Seq(StatementSet) OBVIOUS
  <2>4. QED BY <1>1, <2>1, <2>2, <2>3, Zenon
<1>2. CASE ids # {}
  <2>1. Some(ids, s) = <<s>> BY <1>2 DEF Some
  <2>2. Path(id, <<s>>, x, y) BY PathOne
  <2>3. QED BY <2>1, <2>2
<1>3. QED BY <1>1, <1>2

\* A login is no mission's business, nor is a question.
LEMMA PathOther ==
  ASSUME NEW id \in Mission, NEW x \in Account, Honest(x)
  PROVE  /\ Path(id, <<LoadData>>, x, x) /\ <<LoadData>> \in Seq(StatementSet)
         /\ \A l \in LoginSet : /\ Path(id, <<LoginInfo(l)>>, x, x)
                                /\ <<LoginInfo(l)>> \in Seq(StatementSet)
<1>1. LoadData \in StatementSet /\ Effect(id, LoadData, x) = x
  BY DEF LoadData, StatementSet, Effect
<1>2. Path(id, <<LoadData>>, x, x) BY <1>1, PathOne
<1>3. ASSUME NEW l \in LoginSet
      PROVE  Path(id, <<LoginInfo(l)>>, x, x) /\ <<LoginInfo(l)>> \in Seq(StatementSet)
  <2>1. PICK s : s = LoginInfo(l) OBVIOUS
  <2>2. s \in StatementSet /\ Effect(id, s, x) = x
    BY <2>1 DEF LoginInfo, StatementSet, Effect
  <2>3. Path(id, <<s>>, x, x) BY <2>2, PathOne
  <2>4. QED BY <2>1, <2>2, <2>3
<1>4. QED BY <1>1, <1>2, <1>3

\* A step of a mission: its prizes, and the mark of its row.
Moved(m, a) ==
  /\ m.update = "update" => a.update = "update"
  /\ a.given = m.given \/ (a.given = m.given + 1 /\ a.update = "update")

\* What the prizes of a step make of an account.
Paid(m, a, x, y) == y.there /\ y.given = x.given /\ y.paid = x.paid + (a.given - m.given)

\* Prizes are a statement.
LEMMA PrizesTyped ==
  ASSUME NEW ms \in [Mission -> LiveSet], NEW as
  PROVE  /\ [kind |-> "prize", ids |-> {i \in Mission : as[i].given > ms[i].given}] \in StatementSet
         /\ Prizes(ms, as) \in Seq(StatementSet)
<1>1. PICK ids \in SUBSET Mission : ids = {i \in Mission : as[i].given > ms[i].given} OBVIOUS
<1>2. PICK s : s = [kind |-> "prize", ids |-> ids] OBVIOUS
<1>3. s \in StatementSet BY <1>2 DEF StatementSet, PrizeSet
<1>4. Prizes(ms, as) = Some(ids, s) BY <1>1, <1>2 DEF Prizes
<1>5. Some(ids, s) = <<>> \/ Some(ids, s) = <<s>> BY DEF Some
<1>6. <<>> \in Seq(StatementSet) OBVIOUS
<1>7. <<s>> \in Seq(StatementSet) BY <1>3
<1>8. Prizes(ms, as) \in Seq(StatementSet) BY <1>4, <1>5, <1>6, <1>7, Zenon
<1>9. [kind |-> "prize", ids |-> {i \in Mission : as[i].given > ms[i].given}] \in StatementSet
  BY <1>1, <1>2, <1>3, Zenon
<1>10. QED BY <1>8, <1>9

\* The prizes of a game are paid by statements that count each one.
LEMMA PathPrizes ==
  ASSUME NEW id \in Mission, NEW ms \in [Mission -> LiveSet], NEW as \in [Mission -> LiveSet],
         Moved(ms[id], as[id]), NEW x \in Account, Honest(x), x.there
  PROVE  /\ Prizes(ms, as) \in Seq(StatementSet)
         /\ \E y \in Account : Path(id, Prizes(ms, as), x, y) /\ Paid(ms[id], as[id], x, y)
<1> DEFINE ids == {i \in Mission : as[i].given > ms[i].given}
           s == [kind |-> "prize", ids |-> ids]
<1>1. Prizes(ms, as) = Some(ids, s) BY DEF Prizes
<1>2. PICK y : y = Effect(id, s, x) OBVIOUS
<1>3. as[id].given \in Nat /\ ms[id].given \in Nat BY DEF LiveSet, RowSet
<1>4. PICK b \in Nat, c \in Nat : b = ms[id].given /\ c = as[id].given BY <1>3
<1>5. /\ c = b \/ c = b + 1
      /\ s.kind = "prize" /\ (id \in s.ids <=> c = b + 1)
  <2>1. c = b \/ c = b + 1 BY <1>4 DEF Moved
  <2>2. id \in s.ids <=> c > b BY <1>4
  <2>3. s.kind = "prize" OBVIOUS
  <2> HIDE DEF s
  <2>4. QED BY <2>1, <2>2, <2>3
<1> HIDE DEF s
<1>6. /\ y \in Account /\ Honest(y) /\ y.there /\ y.given = x.given
      /\ y.paid = x.paid + (c - b)
  <2>1. CASE c = b + 1
    <3>1. y = [x EXCEPT !.paid = @ + 1] BY <1>2, <1>5, <2>1 DEF Effect
    <3>2. y = [paid |-> x.paid + 1, there |-> TRUE, given |-> x.given] BY <3>1 DEF Account
    <3>3. y.paid = x.paid + 1 BY <3>2
    <3>4. x.paid \in Nat /\ x.given \in Nat BY DEF Account
    <3>5. QED BY <2>1, <3>2, <3>3, <3>4 DEF Account, Honest
  <2>2. CASE c = b
    <3>1. y = x BY <1>2, <1>5, <2>2 DEF Effect
    <3>2. x.paid = x.paid + (c - b) BY <2>2 DEF Account
    <3>3. QED BY <3>1, <3>2
  <2>3. QED BY <1>5, <2>1, <2>2
<1>7. s \in StatementSet BY PrizesTyped DEF s
<1>8. ids = {} => y = x BY <1>2 DEF s, Effect
<1> HIDE DEF s, ids
<1>9. Some(ids, s) \in Seq(StatementSet) /\ Path(id, Some(ids, s), x, y)
  BY <1>2, <1>6, <1>7, <1>8, PathSome
<1>10. QED BY <1>1, <1>4, <1>6, <1>9 DEF Paid

\* Rows that may be written are a statement.
LEMMA SaveTyped ==
  ASSUME NEW ms, Writable(ms), NEW ids, ids = {i \in DOMAIN ms : ms[i].update # "none"}
  PROVE  /\ [kind |-> "rows", rows |-> [i \in ids |-> ms[i]]] \in StatementSet
         /\ SaveMiss(ms) \in Seq(StatementSet)
<1>1. PICK rows : rows = [i \in ids |-> ms[i]] OBVIOUS
<1>2. ids \subseteq Mission \cup Retired BY DEF Writable
<1>3. rows \in [ids -> RowSet] BY <1>1 DEF Writable
<1>4. ASSUME NEW i \in ids \cap Mission PROVE rows[i] \in WriteSet
  <2>1. ms[i] \in RowSet /\ ms[i].update \notin {"none", "delete"} BY DEF Writable
  <2>2. QED BY <1>1, <2>1 DEF WriteSet, RowSet, Updates
<1>5. rows \in UNION {[D -> RowSet] : D \in SUBSET (Mission \cup Retired)} BY <1>2, <1>3
<1>6. DOMAIN rows = ids BY <1>3
<1>7. PICK s : s = [kind |-> "rows", rows |-> rows] OBVIOUS
<1>8. s \in StatementSet BY <1>4, <1>5, <1>6, <1>7 DEF StatementSet, SavedSet
<1>9. SaveMiss(ms) = Some(ids, s) BY <1>1, <1>7 DEF SaveMiss
<1>10. QED BY <1>1, <1>7, <1>8, <1>9 DEF Some

\* Rows are saved as they are, those that changed.
LEMMA PathSave ==
  ASSUME NEW id \in Mission, NEW ms, Writable(ms), id \in DOMAIN ms,
         NEW x \in Account, Honest(x), ms[id].given <= x.paid,
         x.there \/ ms[id].update = "insert"
  PROVE  /\ SaveMiss(ms) \in Seq(StatementSet)
         /\ \E y \in Account : /\ Path(id, SaveMiss(ms), x, y)
                               /\ y.there /\ y.paid = x.paid
                               /\ y.given = IF ms[id].update = "none" THEN x.given ELSE ms[id].given
<1> DEFINE ids == {i \in DOMAIN ms : ms[i].update # "none"}
           rows == [i \in ids |-> ms[i]]
           s == [kind |-> "rows", rows |-> rows]
<1>1. SaveMiss(ms) = Some(ids, s) BY DEF SaveMiss
<1>2. PICK y : y = Effect(id, s, x) OBVIOUS
<1>3. ms[id] \in RowSet /\ ms[id].given \in Nat BY DEF Writable, RowSet
<1>4. /\ y \in Account /\ Honest(y) /\ y.there /\ y.paid = x.paid
      /\ y.given = IF ms[id].update = "none" THEN x.given ELSE ms[id].given
  <2>1. CASE ms[id].update = "none"
    <3>1. y = x BY <1>2, <2>1 DEF Effect
    <3>2. QED BY <2>1, <3>1 DEF Account, Honest
  <2>2. CASE ms[id].update # "none"
    <3>1. y = Entered(ms[id], x) BY <1>2, <2>2 DEF Effect
    <3>2. y = [paid |-> x.paid, there |-> TRUE, given |-> ms[id].given]
      BY <3>1 DEF Entered, Account
    <3>3. QED BY <1>3, <2>2, <3>2 DEF Account, Honest
  <2>3. QED BY <2>1, <2>2
<1>5. s \in StatementSet BY SaveTyped
<1>6. ids = {} => y = x
  <2>1. ids = {} => id \notin DOMAIN rows OBVIOUS
  <2>2. QED BY <1>2, <2>1 DEF Effect
<1> HIDE DEF s, ids, rows
<1>7. Some(ids, s) \in Seq(StatementSet) /\ Path(id, Some(ids, s), x, y)
  BY <1>2, <1>4, <1>5, <1>6, PathSome
<1>8. QED BY <1>1, <1>4, <1>7

--------------------------------------------------------------------------------
(* What becomes of the missions of a player.                               *)

SameGiven(ms, as) == \A id \in Mission : as[id].given = ms[id].given

\* A reset gives no prize and takes none.
LEMMA ResetRow ==
  ASSUME now \in Nat, NEW l \in LiveSet, NEW m,
         m = [l EXCEPT !.rtimes = 0, !.ctimes = 0, !.ptime = now, !.update = "update"]
  PROVE  m \in LiveSet /\ m.given = l.given
BY DEF LiveSet, RowSet, Updates

\* A reset gives and takes no prize.
LEMMA ResetOf ==
  ASSUME now \in Nat, NEW ms \in [Mission -> LiveSet], NEW cycle
  PROVE  ResetMission(ms, cycle) \in [Mission -> LiveSet] /\ SameGiven(ms, ResetMission(ms, cycle))
<1>1. ASSUME NEW id \in Mission, NEW m, m = ResetMission(ms, cycle)[id]
      PROVE  m \in LiveSet /\ m.given = ms[id].given
  <2>1. PICK l \in LiveSet : l = ms[id] OBVIOUS
  <2>2. m = l \/ m = [l EXCEPT !.rtimes = 0, !.ctimes = 0, !.ptime = now, !.update = "update"]
    BY <1>1, <2>1 DEF ResetMission
  <2>3. QED BY <2>1, <2>2, ResetRow
<1>2. QED BY <1>1 DEF ResetMission, SameGiven

\* Nor does a cleanup.
LEMMA CleanupsOf ==
  ASSUME now \in Nat, NEW p \in PlayerSet
  PROVE  /\ \A days : /\ DailyCleanup(p, days) \in PlayerSet
                      /\ SameGiven(p.mission, DailyCleanup(p, days).mission)
         /\ WeeklyCleanup(p) \in PlayerSet /\ SameGiven(p.mission, WeeklyCleanup(p).mission)
         /\ MonthlyCleanup(p) \in PlayerSet /\ SameGiven(p.mission, MonthlyCleanup(p).mission)
<1>1. p.login \in LoginSet /\ p.mission \in [Mission -> LiveSet] /\ p = [login |-> p.login, mission |-> p.mission]
  BY DEF PlayerSet
<1>2. PICK l \in LoginSet, ms \in [Mission -> LiveSet] : l = p.login /\ ms = p.mission BY <1>1
<1>3. \A cycle : ResetMission(ms, cycle) \in [Mission -> LiveSet] /\ SameGiven(ms, ResetMission(ms, cycle))
  BY ResetOf
<1>4. ASSUME NEW days
      PROVE  [l EXCEPT !.clogin = IF days > 1 THEN 1 ELSE @ + 1, !.weeklogin = @ + 1] \in LoginSet
  <2>1. l.clogin + 1 \in Nat /\ l.weeklogin + 1 \in Nat BY DEF LoginSet
  <2>2. PICK n \in Nat : n = IF days > 1 THEN 1 ELSE l.clogin + 1 BY <2>1
  <2>3. [l EXCEPT !.clogin = n, !.weeklogin = @ + 1] \in LoginSet BY <2>1 DEF LoginSet
  <2>4. QED BY <2>2, <2>3
<1>5. [l EXCEPT !.weeklogin = 1] \in LoginSet BY DEF LoginSet
<1>6. ASSUME NEW days
      PROVE  DailyCleanup(p, days) \in PlayerSet /\ SameGiven(p.mission, DailyCleanup(p, days).mission)
  BY <1>2, <1>3, <1>4 DEF DailyCleanup, PlayerSet
<1>7. WeeklyCleanup(p) \in PlayerSet /\ SameGiven(p.mission, WeeklyCleanup(p).mission)
  BY <1>2, <1>3, <1>5 DEF WeeklyCleanup, PlayerSet
<1>8. MonthlyCleanup(p) \in PlayerSet /\ SameGiven(p.mission, MonthlyCleanup(p).mission)
  <2>1. MonthlyCleanup(p) = [login |-> l, mission |-> ResetMission(ms, "month")]
    BY <1>1, <1>2 DEF MonthlyCleanup
  <2>2. QED BY <1>2, <1>3, <2>1 DEF PlayerSet
<1>9. QED BY <1>6, <1>7, <1>8

\* What a cleanup may make of a player, and cleanups that follow one another or do not happen.
Cleaned(p, q) == q \in PlayerSet /\ SameGiven(p.mission, q.mission)

\* Cleanups one after the other, each of which happens or does not.
LEMMA CleanedSteps ==
  ASSUME now \in Nat, NEW p \in PlayerSet
  PROVE  /\ Cleaned(p, p)
         /\ \A q : Cleaned(p, q) =>
              /\ \A c, days : Cleaned(p, If(c, DailyCleanup(q, days), q))
              /\ \A c : Cleaned(p, If(c, WeeklyCleanup(q), q))
              /\ \A c : Cleaned(p, If(c, MonthlyCleanup(q), q))
              /\ \A days : Cleaned(p, MonthlyCleanup(WeeklyCleanup(DailyCleanup(q, days))))
<1>1. \A q, r, s : Cleaned(q, r) /\ Cleaned(r, s) => Cleaned(q, s) BY DEF Cleaned, SameGiven
<1>2. \A q \in PlayerSet : /\ \A days : Cleaned(q, DailyCleanup(q, days))
                           /\ Cleaned(q, WeeklyCleanup(q)) /\ Cleaned(q, MonthlyCleanup(q))
  BY CleanupsOf DEF Cleaned
<1>3. ASSUME NEW q, Cleaned(p, q), NEW c, NEW r, Cleaned(q, r) PROVE Cleaned(p, If(c, r, q))
  BY <1>1, <1>3 DEF If
<1>4. ASSUME NEW q, Cleaned(p, q), NEW days
      PROVE  Cleaned(p, MonthlyCleanup(WeeklyCleanup(DailyCleanup(q, days))))
  <2>1. PICK d : d = DailyCleanup(q, days) OBVIOUS
  <2>2. PICK w : w = WeeklyCleanup(d) OBVIOUS
  <2>3. q \in PlayerSet BY <1>4 DEF Cleaned
  <2>4. Cleaned(q, d) BY <1>2, <2>1, <2>3
  <2>5. Cleaned(d, w) BY <1>2, <2>2, <2>4 DEF Cleaned
  <2>6. Cleaned(w, MonthlyCleanup(w)) BY <1>2, <2>5 DEF Cleaned
  <2>7. Cleaned(p, MonthlyCleanup(w)) BY <1>1, <1>4, <2>4, <2>5, <2>6
  <2>8. QED BY <2>1, <2>2, <2>7
<1>5. Cleaned(p, p) BY DEF Cleaned, SameGiven
<1>6. \A q : Cleaned(p, q) => q \in PlayerSet BY DEF Cleaned
<1>7. QED BY <1>2, <1>3, <1>4, <1>5, <1>6

\* The time a player was seen is none of his missions' business.
LEMMA SeenOf ==
  ASSUME NEW p \in PlayerSet, NEW t \in Nat
  PROVE  /\ Cleaned(p, [p EXCEPT !.login.offline_time = t])
         /\ Cleaned(p, [p EXCEPT !.login.offline_time = t, !.login.clogin = IF @ < 1 THEN 1 ELSE @])
<1>1. PICK a \in Nat, b \in Nat, c \in Nat, ms \in [Mission -> LiveSet] :
        p = [login |-> [offline_time |-> a, clogin |-> b, weeklogin |-> c], mission |-> ms]
  BY DEF PlayerSet, LoginSet
<1>2. \A n \in Nat : Cleaned(p, [login |-> [offline_time |-> t, clogin |-> n, weeklogin |-> c],
                                 mission |-> ms])
  BY <1>1 DEF Cleaned, PlayerSet, LoginSet, SameGiven
<1>3. PICK q : q = [login |-> [offline_time |-> t, clogin |-> b, weeklogin |-> c], mission |-> ms]
  OBVIOUS
<1>4. [p EXCEPT !.login.offline_time = t] = q BY <1>1, <1>3
<1>5. PICK n \in Nat : n = IF b < 1 THEN 1 ELSE b OBVIOUS
<1>6. [p EXCEPT !.login.offline_time = t, !.login.clogin = IF @ < 1 THEN 1 ELSE @]
        = [login |-> [offline_time |-> t, clogin |-> n, weeklogin |-> c], mission |-> ms]
  <2>1. p.login.clogin = b BY <1>1
  <2>2. [q EXCEPT !.login = [q.login EXCEPT !.clogin = n]]
          = [login |-> [offline_time |-> t, clogin |-> n, weeklogin |-> c], mission |-> ms]
    BY <1>3
  <2>3. QED BY <1>4, <1>5, <2>1, <2>2, Zenon
<1>7. QED BY <1>2, <1>3, <1>4, <1>6

\* A login cleans up what it has loaded.
LEMMA BuildInitOf ==
  ASSUME now \in Nat, NEW p \in PlayerSet PROVE Cleaned(p, BuildInit(p))
<1> DEFINE offline == p.login.offline_time
           days == DiffTime(offline, Day(offline), Day(now))
           reset == offline # 0 /\ IsNeedReset(offline, now)
           daily == If(offline = 0, MonthlyCleanup(WeeklyCleanup(DailyCleanup(p, 2))),
                       If(reset, DailyCleanup(p, days), p))
           weekly == If(DiffTime(offline, Week(offline), Week(now)) > 0, WeeklyCleanup(daily), daily)
           monthly == If(DiffTime(offline, Month(offline), Month(now)) > 0, MonthlyCleanup(weekly), weekly)
<1>1. Cleaned(p, daily)
  <2>1. Cleaned(p, p) /\ Cleaned(p, If(reset, DailyCleanup(p, days), p)) BY CleanedSteps
  <2>2. Cleaned(p, MonthlyCleanup(WeeklyCleanup(DailyCleanup(p, 2)))) BY <2>1, CleanedSteps
  <2>3. QED BY <2>1, <2>2 DEF If
<1> HIDE DEF daily
<1>2. Cleaned(p, weekly) BY <1>1, CleanedSteps
<1> HIDE DEF weekly
<1>3. Cleaned(p, monthly) BY <1>2, CleanedSteps
<1> HIDE DEF monthly
<1>4. Cleaned(monthly, [monthly EXCEPT !.login.offline_time = now,
                                       !.login.clogin = IF @ < 1 THEN 1 ELSE @])
  BY <1>3, SeenOf DEF Cleaned
<1>5. Cleaned(p, [monthly EXCEPT !.login.offline_time = now,
                                 !.login.clogin = IF @ < 1 THEN 1 ELSE @])
  BY <1>3, <1>4 DEF Cleaned, SameGiven
<1>6. QED BY <1>5 DEF BuildInit, monthly, weekly, daily

\* A game moves a mission by a step: what is counted leaves its prizes alone and marks its row,
\* what is rewarded has one prize more.
LEMMA CountedOf ==
  ASSUME now \in Nat, NEW m \in LiveSet, NEW value \in {0, 1}
  PROVE  /\ Counted(m, value) \in LiveSet /\ Counted(m, value).update = "update"
         /\ Counted(m, value).given = m.given
<1>1. PICK r \in Nat : r = IF value = 0 THEN 0 ELSE m.rtimes + value
  BY DEF LiveSet, RowSet
<1>2. PICK c : c = [m EXCEPT !.rtimes = r, !.ptime = now] OBVIOUS
<1>3. c \in LiveSet /\ c.given = m.given BY <1>1, <1>2 DEF LiveSet, RowSet
<1>4. Counted(m, value) = Marked(c) BY <1>1, <1>2 DEF Counted
<1>5. Marked(c) \in LiveSet /\ Marked(c).update = "update" /\ Marked(c).given = c.given
  BY <1>3 DEF Marked, LiveSet, RowSet, Updates
<1>6. QED BY <1>3, <1>4, <1>5

\* A reward is one more prize.
LEMMA RewardOf ==
  ASSUME NEW m \in LiveSet
  PROVE  /\ RewardMission(m) \in LiveSet /\ RewardMission(m).update = "update"
         /\ RewardMission(m).given = m.given + 1
<1>1. PICK c : c = [m EXCEPT !.rtimes = 0, !.ctimes = @ + 1, !.given = @ + 1] OBVIOUS
<1>2. m.ctimes + 1 \in Nat /\ m.given + 1 \in Nat BY DEF LiveSet, RowSet
<1>3. c \in LiveSet /\ c.given = m.given + 1 BY <1>1, <1>2 DEF LiveSet, RowSet
<1>4. Marked(c) \in LiveSet /\ Marked(c).update = "update" /\ Marked(c).given = c.given
  BY <1>3 DEF Marked, LiveSet, RowSet, Updates
<1>5. RewardMission(m) = Marked(c) BY <1>1 DEF RewardMission
<1>6. QED BY <1>3, <1>4, <1>5

\* What a game makes of a mission is what was there, or moved with or without a prize.
LEMMA ActOf ==
  ASSUME now \in Nat, NEW ms \in [Mission -> LiveSet], NEW type, NEW value \in {0, 1}
  PROVE  /\ ActMission(ms, type, value) \in [Mission -> LiveSet]
         /\ \A id \in Mission : Moved(ms[id], ActMission(ms, type, value)[id])
<1>1. ASSUME NEW id \in Mission, NEW m \in LiveSet, NEW a, a = Acted(id, m, type, value)
      PROVE  a \in LiveSet /\ Moved(m, a)
  <2>1. PICK c : c = Counted(m, value) OBVIOUS
  <2>2. c \in LiveSet /\ c.update = "update" /\ c.given = m.given BY <2>1, CountedOf
  <2>3. PICK w : w = RewardMission(c) OBVIOUS
  <2>4. w \in LiveSet /\ w.update = "update" /\ w.given = c.given + 1 BY <2>2, <2>3, RewardOf
  <2>5. a = m \/ a = c \/ a = w BY <1>1, <2>1, <2>3 DEF Acted
  <2>6. QED BY <2>2, <2>4, <2>5 DEF Moved
<1>2. QED BY <1>1 DEF ActMission

\* What is loaded: what the database has, what is new, and what is closed.
LEMMA GetOf ==
  ASSUME MissionsAssumption, NEW row, DOMAIN row \subseteq Mission \cup Retired,
         row \in [DOMAIN row -> KeptSet], NEW got, got = GetMission(row)
  PROVE  /\ Writable(got) /\ Mission \subseteq DOMAIN got
         /\ \A id \in Mission : got[id] = IF id \in DOMAIN row THEN row[id] ELSE NewMission
<1>1. DOMAIN got = DOMAIN row \cup Mission BY DEF GetMission
<1>2. \A id \in Mission : got[id] = IF id \in DOMAIN row THEN row[id] ELSE NewMission
  BY DEF GetMission
<1>3. ASSUME NEW id \in DOMAIN got
      PROVE  got[id] \in RowSet /\ (id \in Mission => got[id].update # "delete")
  <2>1. CASE id \notin DOMAIN row
    BY <1>1, <1>2, <2>1 DEF NewMission, RowSet, Updates
  <2>2. CASE id \in DOMAIN row
    <3>1. PICK m \in KeptSet : m = row[id] BY <2>2
    <3>2. got[id] = m \/ (id \notin Mission /\ got[id] = [m EXCEPT !.update = "delete"])
      BY <1>1, <1>2, <2>2, <3>1 DEF GetMission
    <3>3. m \in RowSet /\ m.update # "delete" BY DEF KeptSet
    <3>4. [m EXCEPT !.update = "delete"] \in RowSet BY <3>3 DEF RowSet, Updates
    <3>5. QED BY <3>2, <3>3, <3>4
  <2>3. QED BY <2>1, <2>2
<1>4. got = [id \in DOMAIN got |-> got[id]] BY DEF GetMission
<1>5. Writable(got) BY <1>1, <1>3, <1>4 DEF Writable
<1>6. QED BY <1>1, <1>2, <1>5

\* What is loaded counts as saved, and what is closed is gone.
LEMMA SavedOf ==
  ASSUME MissionsAssumption, NEW row, DOMAIN row \subseteq Mission \cup Retired,
         row \in [DOMAIN row -> KeptSet], NEW got, got = GetMission(row)
  PROVE  Saved(got) \in [Mission -> LiveSet] /\ SameGiven(got, Saved(got))
<1>1. /\ Writable(got) /\ Mission \subseteq DOMAIN got BY GetOf
<1>2. {i \in DOMAIN got : got[i].update # "delete"} = Mission
  <2>1. \A i \in Mission : got[i].update # "delete" BY <1>1 DEF Writable
  <2>2. ASSUME NEW i \in DOMAIN got, i \notin Mission PROVE got[i].update = "delete"
    <3>1. i \in DOMAIN row BY <2>2 DEF GetMission
    <3>2. row[i] \in KeptSet BY <3>1
    <3>3. got[i] = [row[i] EXCEPT !.update = "delete"] BY <2>2, <3>1 DEF GetMission
    <3>4. QED BY <3>2, <3>3 DEF KeptSet, RowSet
  <2>3. QED BY <1>1, <2>1, <2>2
<1>3. \A m \in RowSet : AsSaved(m) \in LiveSet /\ AsSaved(m).given = m.given
  BY DEF AsSaved, LiveSet, RowSet, Updates
<1>4. \A id \in Mission : got[id] \in RowSet BY <1>1 DEF Writable
<1>5. Saved(got) = [id \in Mission |-> AsSaved(got[id])] BY <1>2 DEF Saved
<1>6. QED BY <1>3, <1>4, <1>5 DEF SameGiven

\* A player's missions may be written, and stay his when they are saved.
LEMMA PlayerSaves ==
  ASSUME NEW ms \in [Mission -> LiveSet]
  PROVE  Writable(ms) /\ Saved(ms) \in [Mission -> LiveSet] /\ SameGiven(ms, Saved(ms))
<1>1. \A m \in LiveSet : /\ m \in RowSet /\ m.update # "delete"
                         /\ AsSaved(m) \in LiveSet /\ AsSaved(m).given = m.given
  BY DEF AsSaved, LiveSet, RowSet, Updates
<1>2. Saved(ms) = [id \in Mission |-> AsSaved(ms[id])]
  <2>1. {i \in DOMAIN ms : ms[i].update # "delete"} = Mission BY <1>1
  <2>2. QED BY <2>1 DEF Saved
<1>3. QED BY <1>1, <1>2 DEF SameGiven, Writable

--------------------------------------------------------------------------------
(* The handlers keep the invariant.                                        *)

\* What a database has.
LEMMA DbParts ==
  ASSUME NEW d \in DbSet
  PROVE  /\ d.login \in LoginSet /\ d.paid \in [Mission -> Nat]
         /\ DOMAIN d.row \subseteq Mission \cup Retired /\ d.row \in [DOMAIN d.row -> KeptSet]
BY DEF DbSet

\* The account of a mission is one.
LEMMA NotedTyped ==
  ASSUME NEW d \in DbSet, NEW id \in Mission
  PROVE  /\ NotedIn(d, id) \in Account
         /\ NotedIn(d, id).paid = d.paid[id]
         /\ NotedIn(d, id).there <=> id \in DOMAIN d.row
         /\ NotedIn(d, id).given = IF id \in DOMAIN d.row THEN d.row[id].given ELSE 0
<1>1. id \in DOMAIN d.row => d.row[id].given \in Nat BY DbParts DEF KeptSet, RowSet
<1>2. d.paid[id] \in Nat BY DbParts
<1>3. PICK n \in Nat, g \in Nat :
        n = d.paid[id] /\ g = IF id \in DOMAIN d.row THEN d.row[id].given ELSE 0
  BY <1>1, <1>2
<1>4. PICK b \in BOOLEAN : b = (id \in DOMAIN d.row)
  <2>1. (id \in DOMAIN d.row) \in BOOLEAN OBVIOUS
  <2>2. QED BY <2>1, Zenon
<1>5. b <=> id \in DOMAIN d.row BY <1>4, Zenon
<1>6. NotedIn(d, id) = [paid |-> n, there |-> b, given |-> g] BY <1>3, <1>4, Zenon DEF NotedIn
<1>7. QED BY <1>3, <1>5, <1>6 DEF Account

\* What is sent carries the path on.
LEMMA Sent ==
  ASSUME MissionsTyped, NEW id \in Mission, NEW y, Path(id, queue, Noted(id), y),
         NEW r \in Seq(StatementSet), NEW z, Path(id, r, y, z),
         queue' = queue \o r, db' = db, Agrees(id, z)'
  PROVE  Settles(id)' /\ queue' \in Seq(StatementSet)
<1>1. queue \in Seq(StatementSet) BY DEF MissionsTyped
<1>2. Path(id, queue \o r, Noted(id), z) BY <1>1, PathConcat
<1>3. Noted(id)' = Noted(id) BY DEF Noted
<1>4. z \in Account BY PathEnds
<1>5. queue \o r \in Seq(StatementSet) BY <1>1, ConcatProperties
<1>6. Path(id, queue', Noted(id)', z) BY <1>2, <1>3
<1>7. QED BY <1>4, <1>5, <1>6 DEF Settles

\* The books of a mission before a step.
LEMMA Books ==
  ASSUME MInv, NEW id \in Mission
  PROVE  \E y \in Account :
           /\ Path(id, queue, Noted(id), y) /\ Agrees(id, y) /\ Honest(y) /\ Upto(Noted(id), y)
           /\ ((\A i \in DOMAIN queue : ~Concerns(queue[i], id)) => y = Noted(id))
<1>1. PICK y \in Account : Path(id, queue, Noted(id), y) /\ Agrees(id, y) BY DEF MInv, Settles
<1>2. queue \in Seq(StatementSet) BY DEF MInv, MissionsTyped
<1>3. QED BY <1>1, <1>2, PathEnds

\* No mission has a prize, or anything on its way, at first.
LEMMA InitM == ASSUME MissionsAssumption, Init PROVE MInv
<1>1. MissionsTyped
  <2>1. \A id \in Retired : AsSaved(NewMission) \in KeptSet
    BY DEF AsSaved, NewMission, KeptSet, RowSet, Updates
  <2>2. <<>> \in Seq(StatementSet) OBVIOUS
  <2>3. [offline_time |-> 0, clogin |-> 0, weeklogin |-> 0] \in LoginSet BY DEF LoginSet
  <2>4. Begin \in Nat BY DEF MissionsAssumption
  <2>5. db \in DbSet
    <3>1. PICK row : row = [id \in Retired |-> AsSaved(NewMission)] OBVIOUS
    <3>2. row \in [Retired -> KeptSet] BY <2>1, <3>1
    <3>3. row \in UNION {[D -> KeptSet] : D \in SUBSET (Mission \cup Retired)} BY <3>2
    <3>4. db = [login |-> login, row |-> row, paid |-> [id \in Mission |-> 0]] BY <3>1 DEF Init
    <3>5. QED BY <2>3, <3>3, <3>4 DEF Init, DbSet
  <2>6. QED BY <2>2, <2>3, <2>4, <2>5 DEF Init, MissionsTyped
<1>2. ASSUME NEW id \in Mission PROVE Settles(id)
  <2>1. PICK x \in Account : x = Noted(id) BY <1>1, NotedTyped DEF MissionsTyped, Noted
  <2>2. x.paid = 0 /\ x.given = 0
    BY <2>1 DEF Init, MissionsAssumption, Noted, NotedIn, AsSaved, NewMission
  <2>3. Honest(x) BY <2>2 DEF Honest
  <2>4. Path(id, <<>>, x, x) BY <2>3, PathEmpty
  <2>5. Agrees(id, x) BY <2>2 DEF Init, Agrees
  <2>6. QED BY <2>1, <2>4, <2>5 DEF Init, Settles
<1>3. QED BY <1>1, <1>2 DEF MInv

\* A question concerns no mission.
LEMMA OnLoginKeeps == ASSUME MInv, OnLogin PROVE MInv'
<1>1. \A id \in Mission : Settles(id)' /\ queue' \in Seq(StatementSet)
  <2> SUFFICES ASSUME NEW id \in Mission PROVE Settles(id)' /\ queue' \in Seq(StatementSet) OBVIOUS
  <2>1. PICK y \in Account : Path(id, queue, Noted(id), y) /\ Agrees(id, y) /\ Honest(y) BY Books
  <2>2. Path(id, <<LoadData>>, y, y) /\ <<LoadData>> \in Seq(StatementSet) BY <2>1, PathOther
  <2>3. Agrees(id, y)' BY <2>1 DEF Agrees, OnLogin
  <2>4. QED BY <2>1, <2>2, <2>3, Sent DEF MInv, OnLogin, Send
<1>2. queue' \in Seq(StatementSet)
  <2>1. LoadData \in StatementSet BY DEF LoadData, StatementSet
  <2>2. <<LoadData>> \in Seq(StatementSet) BY <2>1
  <2>3. queue \in Seq(StatementSet) BY DEF MInv, MissionsTyped
  <2>4. queue \o <<LoadData>> \in Seq(StatementSet) BY <2>2, <2>3, ConcatProperties
  <2>5. QED BY <2>4 DEF OnLogin, Send
<1>3. MissionsTyped' BY <1>2 DEF MInv, MissionsTyped, OnLogin
<1>4. QED BY <1>1, <1>3 DEF MInv

\* Who goes leaves his missions as they are.
LEMMA OnLoginOutKeeps == ASSUME MInv, OnLoginOut PROVE MInv'
<1>1. login \in LoginSet /\ queue \in Seq(StatementSet) /\ MissionsTyped BY DEF MInv, MissionsTyped
<1>2. state' = "out" /\ db' = db /\ torn' = torn /\ login' = login /\ now' = now BY DEF OnLoginOut
<1>3. CASE state # "playing"
  <2>1. queue' = queue BY <1>1, <1>3, ConcatEmptySeq DEF OnLoginOut, Send
  <2>2. MissionsTyped' BY <1>1, <1>2, <2>1 DEF MissionsTyped
  <2>3. \A id \in Mission : Settles(id)' BY <1>2, <2>1 DEF MInv, Settles, Agrees, Noted
  <2>4. QED BY <2>2, <2>3 DEF MInv
<1>4. CASE state = "playing"
  <2> DEFINE r == SaveMiss(mission) \o <<LoginInfo(login)>>
  <2>1. queue' = queue \o r BY <1>4 DEF OnLoginOut, Send
  <2>2. mission \in [Mission -> LiveSet] /\ Writable(mission) /\ DOMAIN mission = Mission
    BY <1>1, <1>4, PlayerSaves DEF MissionsTyped
  <2>3. r \in Seq(StatementSet)
    <3>1. SaveMiss(mission) \in Seq(StatementSet) BY <2>2, SaveTyped
    <3>2. <<LoginInfo(login)>> \in Seq(StatementSet) BY <1>1 DEF LoginInfo, StatementSet
    <3>3. QED BY <3>1, <3>2, ConcatProperties
  <2>4. ASSUME NEW id \in Mission PROVE Settles(id)'
    <3>1. PICK y \in Account : Path(id, queue, Noted(id), y) /\ Agrees(id, y) /\ Honest(y) BY Books
    <3>2. y.there /\ mission[id].given <= y.paid BY <1>4, <3>1 DEF Agrees
    <3>3. PICK z \in Account :
            /\ SaveMiss(mission) \in Seq(StatementSet) /\ Path(id, SaveMiss(mission), y, z)
            /\ z.there /\ z.paid = y.paid
            /\ z.given = IF mission[id].update = "none" THEN y.given ELSE mission[id].given
      BY <2>2, <3>1, <3>2, PathSave
    <3>4. Honest(z) BY <3>3, PathEnds
    <3>5. Path(id, <<LoginInfo(login)>>, z, z) /\ <<LoginInfo(login)>> \in Seq(StatementSet)
      BY <1>1, <3>4, PathOther
    <3>6. Path(id, r, y, z) BY <3>3, <3>5, PathConcat
    <3> HIDE DEF r
    <3>7. Agrees(id, z)' BY <1>2, <1>4, <3>1, <3>3 DEF Agrees
    <3>8. QED BY <1>1, <1>2, <2>1, <2>3, <3>1, <3>6, <3>7, Sent
  <2> HIDE DEF r
  <2>5. queue' \in Seq(StatementSet) BY <1>1, <2>1, <2>3, ConcatProperties
  <2>6. MissionsTyped' BY <1>1, <1>2, <2>5 DEF MissionsTyped
  <2>7. QED BY <2>4, <2>6 DEF MInv
<1>5. QED BY <1>3, <1>4

\* A game is paid for, counted and saved in one go.
LEMMA ReportKeeps == ASSUME MInv, NEW win \in {0, 1}, ReportGameResult(win) PROVE MInv'
<1>1. /\ MissionsTyped /\ now \in Nat /\ queue \in Seq(StatementSet)
      /\ mission \in [Mission -> LiveSet] /\ state = "playing"
  BY DEF MInv, MissionsTyped, ReportGameResult
<1>2. PICK played : played = ActMission(mission, "play", 1) OBVIOUS
<1>3. PICK acted : acted = ActMission(played, "win", win) OBVIOUS
<1>4. /\ played \in [Mission -> LiveSet] /\ \A id \in Mission : Moved(mission[id], played[id])
  BY <1>1, <1>2, ActOf
<1>5. /\ acted \in [Mission -> LiveSet] /\ \A id \in Mission : Moved(played[id], acted[id])
  BY <1>1, <1>3, <1>4, ActOf
<1>6. Writable(acted) /\ Saved(acted) \in [Mission -> LiveSet] /\ SameGiven(acted, Saved(acted))
  BY <1>5, PlayerSaves
<1>7. PICK a \in Seq(StatementSet), b \in Seq(StatementSet), c \in Seq(StatementSet) :
        a = Prizes(mission, played) /\ b = Prizes(played, acted) /\ c = SaveMiss(acted)
  BY <1>1, <1>4, <1>6, PrizesTyped, SaveTyped
<1>8. PICK r \in Seq(StatementSet) : r = (a \o b) \o c BY ConcatProperties
<1>9. /\ queue' = queue \o r /\ mission' = Saved(acted)
      /\ UNCHANGED <<now, state, login, db, torn>>
  BY <1>2, <1>3, <1>7, <1>8 DEF ReportGameResult, Send
<1>10. ASSUME NEW id \in Mission PROVE Settles(id)'
  <2>1. PICK y \in Account : Path(id, queue, Noted(id), y) /\ Agrees(id, y) /\ Honest(y) BY Books
  <2>2. y.there /\ mission[id].given <= y.paid /\ (id \notin torn => mission[id].given = y.paid)
    BY <1>1, <2>1 DEF Agrees
  <2>3. PICK u \in Account : Path(id, a, y, u) /\ Paid(mission[id], played[id], y, u)
    <3>1. Moved(mission[id], played[id]) BY <1>4
    <3>2. QED BY <1>1, <1>4, <1>7, <2>1, <2>2, <3>1, PathPrizes
  <2>4. Honest(u) BY <2>3, PathEnds
  <2>5. PICK v \in Account : Path(id, b, u, v) /\ Paid(played[id], acted[id], u, v)
    <3>1. Moved(played[id], acted[id]) BY <1>5
    <3>2. QED BY <1>4, <1>5, <1>7, <2>3, <2>4, <3>1, PathPrizes DEF Paid
  <2>6. Honest(v) BY <2>5, PathEnds
  <2>7. PICK k \in Nat, m \in Nat, n \in Nat :
          k = mission[id].given /\ m = played[id].given /\ n = acted[id].given
    BY <1>1, <1>4, <1>5 DEF LiveSet, RowSet
  <2>8. v.paid = y.paid + (n - k) /\ y.paid \in Nat
    <3>1. v.paid = u.paid + (n - m) /\ u.paid = y.paid + (m - k) BY <2>3, <2>5, <2>7 DEF Paid
    <3>2. y.paid \in Nat BY DEF Account
    <3>3. QED BY <3>1, <3>2
  <2>9. n <= v.paid BY <2>2, <2>7, <2>8
  <2>10. PICK z \in Account : /\ Path(id, c, v, z) /\ z.there /\ z.paid = v.paid
                              /\ z.given = IF acted[id].update = "none" THEN v.given ELSE n
    BY <1>5, <1>6, <1>7, <2>5, <2>6, <2>7, <2>9, PathSave DEF Paid
  <2>11. Path(id, r, y, z) BY <1>8, <2>3, <2>5, <2>10, ConcatProperties, PathConcat
  <2>12. acted[id].update = "none" => n = k
    BY <1>4, <1>5, <2>7 DEF Moved
  <2>13. id \notin torn => z.given = z.paid /\ n = z.paid
    <3>1. ASSUME id \notin torn PROVE y.given = y.paid /\ k = y.paid
      BY <2>1, <2>2, <2>7, <3>1 DEF Agrees
    <3>2. ASSUME id \notin torn PROVE v.paid = n BY <2>7, <2>8, <3>1, <3>2
    <3>3. QED BY <2>3, <2>5, <2>8, <2>10, <2>12, <3>1, <3>2 DEF Paid
  <2>14. mission'[id].given = n BY <1>6, <1>9, <2>7 DEF SameGiven
  <2>15. Agrees(id, z)' BY <1>9, <2>9, <2>10, <2>13, <2>14 DEF Agrees
  <2>16. QED BY <1>1, <1>9, <2>1, <2>11, <2>15, Sent
<1>11. queue' \in Seq(StatementSet) BY <1>1, <1>9, ConcatProperties
<1>12. MissionsTyped' BY <1>1, <1>6, <1>9, <1>11 DEF MissionsTyped
<1>13. QED BY <1>10, <1>12 DEF MInv

\* The tick of a player cleans up and has his login written.
LEMMA OnTimeTickKeeps == ASSUME MInv, OnTimeTick PROVE MInv'
<1> DEFINE newDay == processTime # 0 /\ Day(processTime) # Day(now)
           reset == IsNeedReset(login.offline_time, now)
           p == [login |-> login, mission |-> mission]
           daily == If(reset, DailyCleanup(p, 1), p)
           online == [daily EXCEPT !.login.offline_time = now]
           weekly == If(newDay /\ Day(now) % DaysPerWeek = 0, WeeklyCleanup(online), online)
           monthly == If(newDay /\ Day(now) % DaysPerMonth = 0, MonthlyCleanup(weekly), weekly)
<1>1. MissionsTyped /\ now \in Nat /\ queue \in Seq(StatementSet) BY DEF MInv, MissionsTyped
<1>2. CASE state # "playing"
  <2>1. UNCHANGED <<now, state, login, mission, queue, db, torn>> BY <1>2 DEF OnTimeTick
  <2>2. MissionsTyped' BY <1>1, <2>1 DEF MissionsTyped
  <2>3. \A id \in Mission : Settles(id)' BY <2>1 DEF MInv, Settles, Agrees, Noted
  <2>4. QED BY <2>2, <2>3 DEF MInv
<1>3. CASE state = "playing"
  <2>1. /\ login' = monthly.login /\ mission' = monthly.mission
        /\ queue' = queue \o (If(reset, <<LoginInfo(daily.login)>>, <<>>)
                              \o If(newDay, <<LoginInfo(monthly.login)>>, <<>>))
        /\ UNCHANGED <<now, state, db, torn>>
    BY <1>3 DEF OnTimeTick, Send
  <2>2. p \in PlayerSet BY <1>1, <1>3 DEF MissionsTyped, PlayerSet
  <2>3. p.mission = mission OBVIOUS
  <2> HIDE DEF p
  <2>4. Cleaned(p, p) /\ Cleaned(p, daily) BY <1>1, <2>2, CleanedSteps
  <2> HIDE DEF daily
  <2>5. Cleaned(daily, online) /\ online \in PlayerSet BY <1>1, <2>4, SeenOf DEF Cleaned
  <2> HIDE DEF online
  <2>6. Cleaned(online, online) BY <1>1, <2>5, CleanedSteps
  <2>7. Cleaned(online, weekly) BY <1>1, <2>5, <2>6, CleanedSteps
  <2> HIDE DEF weekly
  <2>8. Cleaned(online, monthly) BY <1>1, <2>5, <2>7, CleanedSteps
  <2> HIDE DEF monthly, reset, newDay
  <2>9. /\ monthly.login \in LoginSet /\ monthly.mission \in [Mission -> LiveSet]
        /\ daily.login \in LoginSet /\ \A id \in Mission : monthly.mission[id].given = mission[id].given
    BY <2>3, <2>4, <2>5, <2>8 DEF Cleaned, PlayerSet, SameGiven
  <2>10. PICK a \in Seq(StatementSet), b \in Seq(StatementSet) :
           /\ a = If(reset, <<LoginInfo(daily.login)>>, <<>>)
           /\ b = If(newDay, <<LoginInfo(monthly.login)>>, <<>>)
    <3>1. LoginInfo(daily.login) \in StatementSet /\ LoginInfo(monthly.login) \in StatementSet
      BY <2>9 DEF LoginInfo, StatementSet
    <3>2. \A cond, s : s \in StatementSet => If(cond, <<s>>, <<>>) \in Seq(StatementSet)
      BY DEF If
    <3>3. QED BY <3>1, <3>2
  <2>11. PICK r \in Seq(StatementSet) : r = a \o b BY ConcatProperties
  <2>12. ASSUME NEW id \in Mission PROVE Settles(id)'
    <3>1. PICK y \in Account : Path(id, queue, Noted(id), y) /\ Agrees(id, y) /\ Honest(y) BY Books
    <3>2. Path(id, <<>>, y, y) /\ \A l \in LoginSet : Path(id, <<LoginInfo(l)>>, y, y)
      BY <3>1, PathEmpty, PathOther
    <3>3. Path(id, a, y, y) /\ Path(id, b, y, y) BY <2>9, <2>10, <3>2 DEF If
    <3>4. Path(id, r, y, y) BY <2>11, <3>3, PathConcat
    <3>5. Agrees(id, y)' BY <2>1, <2>9, <3>1 DEF Agrees
    <3>6. QED BY <1>1, <2>1, <2>10, <2>11, <3>1, <3>4, <3>5, Sent
  <2>13. queue' \in Seq(StatementSet) BY <1>1, <2>1, <2>10, <2>11, ConcatProperties
  <2>14. MissionsTyped' BY <1>1, <1>3, <2>1, <2>9, <2>13 DEF MissionsTyped
  <2>15. QED BY <2>12, <2>14 DEF MInv
<1>4. QED BY <1>2, <1>3

--------------------------------------------------------------------------------
(* The database.                                                           *)

\* Accounts are what they say.
LEMMA SameAccount ==
  ASSUME NEW x \in Account, NEW y \in Account,
         x.paid = y.paid, x.there <=> y.there, x.given = y.given
  PROVE  x = y
BY DEF Account

\* One part of the first statement is done: for its mission the account has moved to where the
\* statement leads, for the others the rest of the statement leads where the whole one did.
LEMMA PartDone ==
  ASSUME MInv, queue # <<>>, UNCHANGED <<state, mission, torn>>,
         NEW id \in Mission, NEW rest, NEW s \in StatementSet,
         queue' = Some(rest, s) \o Tail(queue), Noted(id)' \in Account,
         \/ Noted(id)' = Noted(id)
         \/ Noted(id)' = Effect(id, Head(queue), Noted(id)),
         Effect(id, s, Noted(id)') = Effect(id, Head(queue), Noted(id)),
         rest = {} => Effect(id, s, Noted(id)') = Noted(id)'
  PROVE  Settles(id)'
<1>1. PICK y \in Account : Path(id, queue, Noted(id), y) /\ Agrees(id, y) BY Books
<1>2. queue \in Seq(StatementSet) BY DEF MInv, MissionsTyped
<1>3. PICK e : e = Effect(id, Head(queue), Noted(id)) OBVIOUS
<1>4. PICK x \in Account : x = Noted(id)' OBVIOUS
<1>5. PICK t \in Seq(StatementSet) : t = Tail(queue) BY <1>2, HeadTailProperties
<1>6. Path(id, t, e, y) BY <1>1, <1>2, <1>3, <1>5, PathTail
<1>7. Honest(e) BY <1>6, PathEnds
<1>8. Honest(Noted(id)) BY <1>1, <1>2, PathEnds
<1>9. Honest(x) BY <1>3, <1>4, <1>7, <1>8
<1>10. e = Effect(id, s, x) /\ (rest = {} => e = x) BY <1>3, <1>4
<1>11. PICK r \in Seq(StatementSet) : r = Some(rest, s) /\ Path(id, r, x, e)
  BY <1>7, <1>9, <1>10, PathSome
<1>12. Path(id, r \o t, x, y) BY <1>6, <1>11, PathConcat
<1>13. Path(id, queue', Noted(id)', y) BY <1>4, <1>5, <1>11, <1>12
<1>14. Agrees(id, y)' BY <1>1 DEF Agrees
<1>15. QED BY <1>13, <1>14 DEF Settles

\* What is left of the queue is typed.
LEMMA RestTyped ==
  ASSUME MissionsTyped, queue # <<>>
  PROVE  /\ Head(queue) \in StatementSet /\ Tail(queue) \in Seq(StatementSet)
         /\ \A rest, s : s \in StatementSet => Some(rest, s) \o Tail(queue) \in Seq(StatementSet)
<1>1. queue \in Seq(StatementSet) BY DEF MissionsTyped
<1>2. Head(queue) \in StatementSet /\ Tail(queue) \in Seq(StatementSet) BY <1>1, HeadTailProperties
<1>3. ASSUME NEW rest, NEW s \in StatementSet
      PROVE  Some(rest, s) \o Tail(queue) \in Seq(StatementSet)
  <2>1. Some(rest, s) \in Seq(StatementSet) BY DEF Some
  <2>2. QED BY <1>2, <2>1, ConcatProperties
<1>4. QED BY <1>2, <1>3

\* A prize is paid.
LEMMA WritePrizeKeeps ==
  ASSUME MInv, WritePrize, UNCHANGED <<now, state, login, mission, torn>> PROVE MInv'
<1>1. queue # <<>> /\ Head(queue).kind = "prize" /\ MissionsTyped
  BY DEF WritePrize, Statement, MInv
<1>2. PICK h \in StatementSet : h = Head(queue) BY <1>1, RestTyped
<1>3. h \in PrizeSet BY <1>1, <1>2 DEF StatementSet, SavedSet
<1>4. PICK ids \in SUBSET Mission : ids = h.ids BY <1>3 DEF PrizeSet
<1>5. PICK i \in ids : /\ db' = [db EXCEPT !.paid[i] = @ + 1]
                       /\ queue' = Some(ids \ {i}, [kind |-> "prize", ids |-> ids \ {i}]) \o Tail(queue)
  BY <1>2, <1>4 DEF WritePrize
<1>6. PICK s : s = [kind |-> "prize", ids |-> ids \ {i}] OBVIOUS
<1>7. s \in StatementSet BY <1>6 DEF StatementSet, PrizeSet
<1>8. /\ db'.row = db.row /\ db' \in DbSet
      /\ db'.paid[i] = db.paid[i] + 1
      /\ \A id \in Mission \ {i} : db'.paid[id] = db.paid[id]
  <2>1. PICK paid \in [Mission -> Nat] : paid = db.paid BY <1>1, DbParts DEF MissionsTyped
  <2>2. db' = [db EXCEPT !.paid = [paid EXCEPT ![i] = @ + 1]] BY <1>5, <2>1
  <2>3. PICK more : more = [paid EXCEPT ![i] = @ + 1] OBVIOUS
  <2>4. /\ more \in [Mission -> Nat] /\ more[i] = paid[i] + 1
        /\ \A id \in Mission \ {i} : more[id] = paid[id]
    BY <1>4, <2>1, <2>3
  <2>5. db' \in DbSet /\ db'.paid = more /\ db'.row = db.row
    BY <1>1, <2>2, <2>3, <2>4 DEF MissionsTyped, DbSet
  <2>6. QED BY <2>1, <2>4, <2>5
<1>9. queue' \in Seq(StatementSet) BY <1>1, <1>5, <1>6, <1>7, RestTyped
<1>10. MissionsTyped' BY <1>1, <1>8, <1>9 DEF MissionsTyped
<1>11. ASSUME NEW id \in Mission PROVE Settles(id)'
  <2>1. PICK x \in Account : x = Noted(id) /\ x = NotedIn(db, id)
    BY <1>1, NotedTyped DEF MissionsTyped, Noted
  <2>2. PICK y \in Account : y = Noted(id)' /\ y = NotedIn(db', id)
    BY <1>8, NotedTyped DEF Noted
  <2>3. y.there <=> x.there BY <1>1, <1>8, <2>1, <2>2, NotedTyped DEF MissionsTyped
  <2>4. y.given = x.given BY <1>1, <1>8, <2>1, <2>2, NotedTyped DEF MissionsTyped
  <2>5. CASE id = i
    <3>1. y.paid = x.paid + 1 BY <1>1, <1>8, <2>1, <2>2, <2>5, NotedTyped DEF MissionsTyped
    <3>2. PICK e : e = [x EXCEPT !.paid = @ + 1] OBVIOUS
    <3>3. e \in Account /\ e.paid = x.paid + 1 /\ e.there = x.there /\ e.given = x.given
      BY <3>2 DEF Account
    <3>4. y = e BY <2>3, <2>4, <3>1, <3>3, SameAccount
    <3>5. Effect(id, h, x) = e BY <1>3, <1>4, <2>5, <3>2 DEF Effect, PrizeSet
    <3>6. Effect(id, s, y) = y BY <1>6, <2>5 DEF Effect
    <3>7. QED BY <1>1, <1>2, <1>5, <1>6, <1>7, <2>1, <2>2, <3>4, <3>5, <3>6, PartDone
  <2>6. CASE id # i
    <3>1. y.paid = x.paid BY <1>1, <1>8, <2>1, <2>2, <2>6, NotedTyped DEF MissionsTyped
    <3>2. y = x BY <2>3, <2>4, <3>1, SameAccount
    <3>3. Effect(id, h, x) = Effect(id, s, x)
      BY <1>3, <1>4, <1>6, <2>6 DEF Effect, PrizeSet
    <3>4. ids \ {i} = {} => Effect(id, s, x) = x BY <1>6 DEF Effect
    <3>5. QED BY <1>1, <1>2, <1>5, <1>6, <1>7, <2>1, <2>2, <3>2, <3>3, <3>4, PartDone
  <2>7. QED BY <2>5, <2>6
<1>12. QED BY <1>10, <1>11 DEF MInv

\* A row is written.
LEMMA WrittenOf ==
  ASSUME NEW row, row \in [DOMAIN row -> KeptSet], DOMAIN row \subseteq Mission \cup Retired,
         NEW i \in Mission \cup Retired, NEW m \in RowSet, NEW new, new = Written(row, i, m)
  PROVE  /\ new \in [DOMAIN new -> KeptSet] /\ DOMAIN new \subseteq Mission \cup Retired
         /\ \A id \in Mission \ {i} : (id \in DOMAIN new <=> id \in DOMAIN row)
                                      /\ (id \in DOMAIN row => new[id] = row[id])
         /\ m \in WriteSet =>
              /\ i \in DOMAIN new <=> i \in DOMAIN row \/ m.update = "insert"
              /\ i \in DOMAIN new => new[i].given = m.given
<1>1. PICK a \in KeptSet : a = AsSaved(m) /\ a.given = m.given
  <2>1. AsSaved(m) \in KeptSet /\ AsSaved(m).given = m.given
    BY DEF AsSaved, KeptSet, RowSet, Updates
  <2>2. QED BY <2>1
<1>2. CASE m.update = "delete"
  <2>1. new = [j \in DOMAIN row \ {i} |-> row[j]] BY <1>2 DEF Written
  <2>2. QED BY <1>2, <2>1 DEF WriteSet
<1>3. CASE m.update = "insert"
  <2>1. new = [j \in DOMAIN row \cup {i} |-> IF j = i THEN a ELSE row[j]]
    BY <1>1, <1>3 DEF Written
  <2>2. QED BY <1>1, <1>3, <2>1
<1>4. CASE m.update \notin {"delete", "insert"}
  <2>1. new = IF i \in DOMAIN row THEN [row EXCEPT ![i] = a] ELSE row
    BY <1>1, <1>4 DEF Written
  <2>2. QED BY <1>1, <1>4, <2>1
<1>5. QED BY <1>2, <1>3, <1>4

\* A row is written.
LEMMA WriteRowKeeps ==
  ASSUME MissionsAssumption, MInv, WriteRow, UNCHANGED <<now, state, login, mission, torn>>
  PROVE  MInv'
<1>1. queue # <<>> /\ Head(queue).kind = "rows" /\ MissionsTyped
  BY DEF WriteRow, Statement, MInv
<1>2. PICK h \in StatementSet : h = Head(queue) BY <1>1, RestTyped
<1>3. h \in SavedSet BY <1>1, <1>2 DEF StatementSet, PrizeSet
<1>4. PICK rows \in UNION {[D -> RowSet] : D \in SUBSET (Mission \cup Retired)} :
        h = [kind |-> "rows", rows |-> rows]
        /\ \A id \in DOMAIN rows \cap Mission : rows[id] \in WriteSet
  BY <1>3 DEF SavedSet
<1>5. DOMAIN rows \subseteq Mission \cup Retired /\ rows \in [DOMAIN rows -> RowSet] BY <1>4
<1>6. PICK i \in DOMAIN rows :
        /\ db' = [db EXCEPT !.row = Written(@, i, rows[i])]
        /\ queue' = Some(DOMAIN rows \ {i},
                         [kind |-> "rows", rows |-> [j \in DOMAIN rows \ {i} |-> rows[j]]]) \o Tail(queue)
  <2>1. PICK i \in DOMAIN Head(queue).rows :
          /\ db' = [db EXCEPT !.row = Written(@, i, Head(queue).rows[i])]
          /\ queue' = Some(DOMAIN Head(queue).rows \ {i},
                           [kind |-> "rows",
                            rows |-> [j \in DOMAIN Head(queue).rows \ {i} |-> Head(queue).rows[j]]])
                        \o Tail(queue)
    BY DEF WriteRow
  <2>2. Head(queue).rows = rows BY <1>2, <1>4
  <2>3. QED BY <2>1, <2>2, Zenon
<1>7. PICK left, rest : left = DOMAIN rows \ {i} /\ rest = [j \in left |-> rows[j]] OBVIOUS
<1>8. PICK s : s = [kind |-> "rows", rows |-> rest] OBVIOUS
<1>9. s \in StatementSet
  <2>1. rest \in UNION {[D -> RowSet] : D \in SUBSET (Mission \cup Retired)}
    <3>1. rest \in [left -> RowSet] /\ left \subseteq Mission \cup Retired BY <1>5, <1>7
    <3>2. QED BY <3>1
  <2>2. \A id \in DOMAIN rest \cap Mission : rest[id] \in WriteSet BY <1>4, <1>7
  <2>3. QED BY <1>8, <2>1, <2>2 DEF StatementSet, SavedSet
<1>10. PICK m \in RowSet : m = rows[i] BY <1>5
<1>11. PICK new : new = Written(db.row, i, m) OBVIOUS
<1>12. /\ db.row \in [DOMAIN db.row -> KeptSet] /\ DOMAIN db.row \subseteq Mission \cup Retired
       /\ db \in DbSet
  BY <1>1, DbParts DEF MissionsTyped
<1>13. /\ new \in [DOMAIN new -> KeptSet] /\ DOMAIN new \subseteq Mission \cup Retired
       /\ \A id \in Mission \ {i} : (id \in DOMAIN new <=> id \in DOMAIN db.row)
                                    /\ (id \in DOMAIN db.row => new[id] = db.row[id])
       /\ m \in WriteSet =>
            /\ i \in DOMAIN new <=> i \in DOMAIN db.row \/ m.update = "insert"
            /\ i \in DOMAIN new => new[i].given = m.given
  BY <1>5, <1>11, <1>12, WrittenOf
<1>14. db' \in DbSet /\ db'.row = new /\ db'.paid = db.paid
  <2>1. new \in UNION {[D -> KeptSet] : D \in SUBSET (Mission \cup Retired)} BY <1>13
  <2>2. db' = [db EXCEPT !.row = new] BY <1>6, <1>10, <1>11
  <2>3. QED BY <1>12, <2>1, <2>2 DEF DbSet
<1>15. queue' = Some(left, s) \o Tail(queue) BY <1>6, <1>7, <1>8
<1>16. queue' \in Seq(StatementSet) BY <1>1, <1>9, <1>15, RestTyped
<1>17. MissionsTyped' BY <1>1, <1>14, <1>16 DEF MissionsTyped
<1>18. ASSUME NEW id \in Mission PROVE Settles(id)'
  <2>1. PICK x \in Account : x = Noted(id) /\ x = NotedIn(db, id) BY <1>12, NotedTyped DEF Noted
  <2>2. PICK y \in Account : y = Noted(id)' /\ y = NotedIn(db', id) BY <1>14, NotedTyped DEF Noted
  <2>3. /\ x.there <=> id \in DOMAIN db.row
        /\ x.given = IF id \in DOMAIN db.row THEN db.row[id].given ELSE 0
        /\ y.there <=> id \in DOMAIN new
        /\ y.given = IF id \in DOMAIN new THEN new[id].given ELSE 0
        /\ y.paid = x.paid
    BY <1>12, <1>14, <2>1, <2>2, NotedTyped
  <2>4. CASE id = i
    <3>1. m \in WriteSet BY <1>4, <1>10, <2>4
    <3>2. PICK e \in Account : e = Entered(m, x) BY EnteredOf
    <3>3. y = e
      <4>1. CASE m.update = "insert" \/ x.there
        <5>1. e = [paid |-> x.paid, there |-> TRUE, given |-> m.given]
          BY <3>2, <4>1 DEF Entered, Account
        <5>2. y.there /\ y.given = m.given BY <1>13, <2>3, <2>4, <3>1, <4>1
        <5>3. QED BY <2>3, <5>1, <5>2, SameAccount
      <4>2. CASE ~(m.update = "insert" \/ x.there)
        <5>1. e = x BY <3>2, <4>2 DEF Entered
        <5>2. ~y.there /\ ~x.there /\ y.given = x.given BY <1>13, <2>3, <2>4, <3>1, <4>2
        <5>3. QED BY <2>3, <5>1, <5>2, SameAccount
      <4>3. QED BY <4>1, <4>2
    <3>4. Effect(id, h, x) = e BY <1>4, <1>10, <2>4, <3>2 DEF Effect
    <3>5. Effect(id, s, y) = y BY <1>7, <1>8, <2>4 DEF Effect
    <3>6. QED BY <1>1, <1>2, <1>9, <1>15, <2>1, <2>2, <3>3, <3>4, <3>5, PartDone
  <2>5. CASE id # i
    <3>1. y.given = x.given /\ (y.there <=> x.there) BY <1>13, <2>3, <2>5
    <3>2. y = x BY <2>3, <3>1, SameAccount
    <3>3. Effect(id, h, x) = Effect(id, s, x)
      BY <1>4, <1>7, <1>8, <2>5 DEF Effect
    <3>4. left = {} => Effect(id, s, x) = x BY <1>7, <1>8 DEF Effect
    <3>5. QED BY <1>1, <1>2, <1>9, <1>15, <2>1, <2>2, <3>2, <3>3, <3>4, PartDone
  <2>6. QED BY <2>4, <2>5
<1>19. QED BY <1>17, <1>18 DEF MInv

\* A login is noted, or a question answered that nobody waits for.
LEMMA HeadGone ==
  ASSUME MInv, queue # <<>>, UNCHANGED <<now, state, mission, torn>>, login' = login,
         Head(queue).kind \in {"login", "load"}, queue' = Tail(queue),
         db' \in DbSet, db'.row = db.row, db'.paid = db.paid
  PROVE  MInv'
<1>1. MissionsTyped BY DEF MInv
<1>2. queue' \in Seq(StatementSet) BY <1>1, RestTyped
<1>3. MissionsTyped' BY <1>1, <1>2 DEF MissionsTyped
<1>4. ASSUME NEW id \in Mission PROVE Settles(id)'
  <2>1. PICK y \in Account : Path(id, queue, Noted(id), y) /\ Agrees(id, y) BY Books
  <2>2. Effect(id, Head(queue), Noted(id)) = Noted(id) BY DEF Effect
  <2>3. Path(id, Tail(queue), Noted(id), y) BY <1>1, <2>1, <2>2, PathTail DEF MissionsTyped
  <2>4. Noted(id)' = Noted(id) BY DEF Noted, NotedIn
  <2>5. Agrees(id, y)' BY <2>1 DEF Agrees
  <2>6. QED BY <2>3, <2>4, <2>5 DEF Settles
<1>5. QED BY <1>3, <1>4 DEF MInv

\* The database carries out its first statement.
LEMMA DbWriteKeeps == ASSUME MissionsAssumption, MInv, DbWrite PROVE MInv'
<1>1. UNCHANGED <<now, state, login, mission, torn>> BY DEF DbWrite
<1>2. CASE WriteLogin
  <2>1. MissionsTyped /\ queue # <<>> /\ Head(queue).kind = "login"
    BY <1>2 DEF MInv, WriteLogin, Statement
  <2>2. PICK h \in StatementSet : h = Head(queue) BY <2>1, RestTyped
  <2>3. h.info \in LoginSet BY <2>1, <2>2 DEF StatementSet, PrizeSet, SavedSet
  <2>4. db' = [db EXCEPT !.login = h.info] /\ queue' = Tail(queue) BY <1>2, <2>2 DEF WriteLogin
  <2>5. db' \in DbSet /\ db'.row = db.row /\ db'.paid = db.paid
    BY <2>1, <2>3, <2>4 DEF MissionsTyped, DbSet
  <2>6. QED BY <1>1, <2>1, <2>4, <2>5, HeadGone
<1>3. QED BY <1>1, <1>2, WritePrizeKeeps, WriteRowKeeps DEF DbWrite

--------------------------------------------------------------------------------
(* A login that is answered, a crash, and the theorems.                    *)

\* A login takes over what the database has, at the beginning of the path.
LEMMA DbLoadKeeps == ASSUME MissionsAssumption, MInv, DbLoad PROVE MInv'
<1>1. /\ queue # <<>> /\ Head(queue).kind = "load" /\ MissionsTyped
      /\ now' = now /\ db' = db /\ db \in DbSet /\ now \in Nat
  BY DEF DbLoad, Statement, MInv, MissionsTyped
<1>2. CASE state # "load" BY <1>1, <1>2, HeadGone DEF DbLoad
<1>3. CASE state = "load"
  <2>1. PICK got : got = GetMission(db.row) OBVIOUS
  <2>2. PICK p : p = [login |-> db.login, mission |-> Saved(got)] OBVIOUS
  <2>3. PICK built : built = BuildInit(p) OBVIOUS
  <2>4. /\ state' = "playing" /\ login' = built.login /\ mission' = built.mission
        /\ torn' = torn \cup Missed
        /\ queue' = Tail(queue) \o SaveMiss(got) \o <<LoginInfo(built.login)>>
    BY <1>3, <2>1, <2>2, <2>3 DEF DbLoad
  <2>5. /\ db.login \in LoginSet /\ DOMAIN db.row \subseteq Mission \cup Retired
        /\ db.row \in [DOMAIN db.row -> KeptSet]
    BY <1>1, DbParts
  <2>6. /\ Writable(got) /\ Mission \subseteq DOMAIN got
        /\ \A id \in Mission : got[id] = IF id \in DOMAIN db.row THEN db.row[id] ELSE NewMission
    BY <2>1, <2>5, GetOf
  <2>7. Saved(got) \in [Mission -> LiveSet] /\ SameGiven(got, Saved(got)) BY <2>1, <2>5, SavedOf
  <2>8. p \in PlayerSet /\ p.mission = Saved(got) BY <2>2, <2>5, <2>7 DEF PlayerSet
  <2>9. Cleaned(p, built) BY <1>1, <2>3, <2>8, BuildInitOf
  <2>10. /\ built.login \in LoginSet /\ built.mission \in [Mission -> LiveSet]
         /\ \A id \in Mission : built.mission[id].given = got[id].given
    BY <2>7, <2>8, <2>9 DEF Cleaned, PlayerSet, SameGiven
  <2>11. PICK t \in Seq(StatementSet), s \in Seq(StatementSet), l \in Seq(StatementSet) :
           t = Tail(queue) /\ s = SaveMiss(got) /\ l = <<LoginInfo(built.login)>>
    <3>1. LoginInfo(built.login) \in StatementSet BY <2>10 DEF LoginInfo, StatementSet
    <3>2. <<LoginInfo(built.login)>> \in Seq(StatementSet) BY <3>1
    <3>3. QED BY <1>1, <2>6, <3>2, RestTyped, SaveTyped
  <2>12. PICK r \in Seq(StatementSet) : r = t \o s BY ConcatProperties
  <2>13. queue' = r \o l BY <2>4, <2>11, <2>12
  <2>14. queue' \in Seq(StatementSet) BY <2>13, ConcatProperties
  <2>15. MissionsTyped' BY <1>1, <2>4, <2>10, <2>14 DEF MissionsTyped
  <2>16. ASSUME NEW id \in Mission PROVE Settles(id)'
    <3>1. PICK x \in Account : x = Noted(id) /\ x = NotedIn(db, id) BY <1>1, NotedTyped DEF Noted
    <3>2. PICK y \in Account :
            /\ Path(id, queue, x, y) /\ Agrees(id, y) /\ Honest(y) /\ Upto(x, y)
            /\ ((\A i \in DOMAIN queue : ~Concerns(queue[i], id)) => y = x)
      BY <3>1, Books
    <3>3. queue \in Seq(StatementSet) /\ Honest(x) BY <1>1, <3>2, PathEnds DEF MissionsTyped
    <3>4. Path(id, t, x, y)
      <4>1. Effect(id, Head(queue), x) = x BY <1>1 DEF Effect
      <4>2. QED BY <1>1, <2>11, <3>2, <3>3, <4>1, PathTail
    <3>5. got[id].given = x.given /\ (x.there \/ got[id].update = "insert")
      <4>1. /\ x.there <=> id \in DOMAIN db.row
            /\ x.given = IF id \in DOMAIN db.row THEN db.row[id].given ELSE 0
        BY <1>1, <3>1, NotedTyped
      <4>2. QED BY <2>6, <4>1 DEF NewMission
    <3>6. y.there \/ got[id].update = "insert" BY <3>2, <3>5 DEF Upto
    <3>7. got[id].given <= y.paid
      <4>1. x.given <= x.paid BY <3>3 DEF Honest
      <4>2. x.paid <= y.paid BY <3>2 DEF Upto
      <4>3. x.given \in Nat /\ x.paid \in Nat /\ y.paid \in Nat BY <3>2 DEF Account
      <4>4. QED BY <3>5, <4>1, <4>2, <4>3
    <3>8. PICK z \in Account : /\ Path(id, s, y, z) /\ z.there /\ z.paid = y.paid
                               /\ z.given = IF got[id].update = "none" THEN y.given ELSE x.given
      <4>1. Writable(got) /\ id \in DOMAIN got BY <2>6
      <4>2. y \in Account /\ Honest(y) BY <3>2
      <4>3. \E z \in Account : /\ Path(id, SaveMiss(got), y, z) /\ z.there /\ z.paid = y.paid
                               /\ z.given = IF got[id].update = "none" THEN y.given ELSE got[id].given
        BY <3>6, <3>7, <4>1, <4>2, PathSave
      <4>4. SaveMiss(got) = s /\ got[id].given = x.given BY <2>11, <3>5
      <4>5. QED BY <4>3, <4>4
    <3>9. Path(id, l, z, z) BY <2>10, <2>11, <3>8, PathEnds, PathOther
    <3>10. Path(id, r, x, z) BY <2>12, <3>4, <3>8, PathConcat
    <3>11. Path(id, r \o l, x, z) BY <3>9, <3>10, PathConcat
    <3>12. id \notin torn' => y = x /\ id \notin torn
      BY <2>4, <3>2 DEF Missed
    <3>13. id \notin torn' => z.given = z.paid /\ x.given = z.paid
      BY <3>2, <3>8, <3>12 DEF Agrees
    <3>14. mission'[id].given = x.given BY <2>4, <2>10, <3>5
    <3>15. Agrees(id, z)' BY <3>5, <3>7, <3>8, <3>13, <3>14 DEF Agrees
    <3>16. Noted(id)' = x BY <1>1, <3>1 DEF Noted
    <3>17. Path(id, queue', Noted(id)', z) BY <2>13, <3>11, <3>16
    <3>18. QED BY <3>15, <3>17 DEF Settles
  <2>17. QED BY <2>15, <2>16 DEF MInv
<1>4. QED BY <1>2, <1>3

\* A crash leaves what the database has.
LEMMA CrashKeeps == ASSUME MInv, Crash PROVE MInv'
<1>1. /\ state' = "out" /\ queue' = <<>> /\ UNCHANGED <<now, login, db>> /\ MissionsTyped
      /\ torn' = torn \cup {id \in DOMAIN db.row \cap Mission : db.paid[id] # db.row[id].given}
  BY DEF Crash, MInv
<1>2. <<>> \in Seq(StatementSet) OBVIOUS
<1>3. MissionsTyped' BY <1>1, <1>2 DEF MissionsTyped
<1>4. ASSUME NEW id \in Mission PROVE Settles(id)'
  <2>1. PICK x \in Account : x = Noted(id) /\ x = NotedIn(db, id)
    BY <1>1, NotedTyped DEF MissionsTyped, Noted
  <2>2. /\ x.paid = db.paid[id] /\ (x.there <=> id \in DOMAIN db.row)
        /\ x.given = IF id \in DOMAIN db.row THEN db.row[id].given ELSE 0
    BY <1>1, <2>1, NotedTyped DEF MissionsTyped
  <2>3. Honest(x) BY <1>1, <2>1, Books, PathEnds DEF MissionsTyped
  <2>4. Path(id, <<>>, x, x) BY <2>3, PathEmpty
  <2>5. id \notin torn' => x.given = x.paid
    BY <1>1, <2>2, <2>3 DEF Honest, Account
  <2>6. Agrees(id, x)' BY <1>1, <2>5 DEF Agrees
  <2>7. Noted(id)' = x BY <1>1, <2>1 DEF Noted
  <2>8. QED BY <1>1, <2>4, <2>6, <2>7 DEF Settles
<1>5. QED BY <1>3, <1>4 DEF MInv

\* Time alone changes nothing, nor does a step that leaves everything alone.
LEMMA OthersKeep ==
  ASSUME MInv, now' \in Nat, UNCHANGED <<state, login, mission, queue, db, torn>> PROVE MInv'
<1>1. MissionsTyped' BY DEF MInv, MissionsTyped
<1>2. \A id \in Mission : Settles(id)' BY DEF MInv, Settles, Agrees, Noted
<1>3. QED BY <1>1, <1>2 DEF MInv

\* Every step keeps the books.
LEMMA StepKeepsM == ASSUME MissionsAssumption, MInv, [Next]_vars PROVE MInv'
<1>1. now \in Nat BY DEF MInv, MissionsTyped
<1>2. CASE Later BY <1>1, <1>2, OthersKeep DEF Later
<1>3. CASE UNCHANGED vars BY <1>1, <1>3, OthersKeep DEF vars
<1>4. QED
  BY <1>2, <1>3, OnLoginKeeps, OnLoginOutKeeps, ReportKeeps, OnTimeTickKeeps, DbWriteKeeps,
     DbLoadKeeps, CrashKeeps DEF Next

\* However slow the database is, and whatever logins, crashes and turns of the calendar come in
\* between, what is under way will make the row of a mission and its prizes agree.
THEOREM MissionBooks == Spec => []MInv
<1>1. Init => MInv BY MissionsAssumption, InitM
<1>2. MInv /\ [Next]_vars => MInv' BY MissionsAssumption, StepKeepsM
<1>3. QED BY <1>1, <1>2, PTL DEF Spec

\* No mission is rewarded by its row whose prize was not paid.
THEOREM RewardsArePaid == Spec => []PrizePaid
<1>1. MInv => PrizePaid
  <2> SUFFICES ASSUME MInv, NEW id \in DOMAIN db.row \cap Mission
               PROVE  db.row[id].given <= db.paid[id]
    BY DEF PrizePaid
  <2>1. db \in DbSet /\ queue \in Seq(StatementSet) BY DEF MInv, MissionsTyped
  <2>2. PICK y : Path(id, queue, Noted(id), y) BY Books
  <2>3. Honest(NotedIn(db, id)) BY <2>1, <2>2, PathEnds DEF Noted
  <2>4. QED BY <2>1, <2>3, NotedTyped DEF Honest
<1>2. QED BY <1>1, MissionBooks, PTL

\* And it was paid once, as long as no crash came in between and no login was answered with old
\* rows.
THEOREM RewardsArePaidOnce == Spec => []PrizeOnce
<1>1. MInv => PrizeOnce
  <2> SUFFICES ASSUME MInv, state = "playing", queue = <<>>, NEW id \in Mission, id \notin torn
               PROVE  mission[id].given = db.paid[id]
    BY DEF PrizeOnce
  <2>1. db \in DbSet BY DEF MInv, MissionsTyped
  <2>2. PICK y : /\ Agrees(id, y)
                 /\ ((\A i \in DOMAIN queue : ~Concerns(queue[i], id)) => y = Noted(id))
    BY Books
  <2>3. DOMAIN queue = {} OBVIOUS
  <2>4. y = NotedIn(db, id) BY <2>2, <2>3 DEF Noted
  <2>5. QED BY <2>1, <2>2, <2>4, NotedTyped DEF Agrees
<1>2. QED BY <1>1, MissionBooks, PTL

--------------------------------------------------------------------------------
(* The times of a mission: of the row the database has, and of those that  *)
(* are under way to it.                                                    *)

Of(s, id) == s.kind = "rows" /\ id \in DOMAIN s.rows

Quiet(id, q) == \A k \in DOMAIN q : ~Of(q[k], id)

\* The last row of a mission in q has the time t; all rows have times up to t.
Says(id, q, t) ==
  \E k \in DOMAIN q : /\ Of(q[k], id) /\ q[k].rows[id].ptime = t
                      /\ \A j \in DOMAIN q : k < j => ~Of(q[j], id)
Upwards(id, q, t) == \A k \in DOMAIN q : Of(q[k], id) => q[k].rows[id].ptime <= t

\* The time of the row of a mission after the statements q, or that it is not after t.
Ends(id, row, q, t) == Says(id, q, t) \/ (Quiet(id, q) /\ id \in DOMAIN row /\ row[id].ptime = t)
NoLater(id, row, q, t) == Upwards(id, q, t) /\ (id \in DOMAIN row => row[id].ptime <= t)

\* Rows come in the order of their times, but for those of a mission that is new.
InOrder(id, row, q) ==
  \A k \in DOMAIN q : Of(q[k], id) /\ q[k].rows[id].ptime # 0 =>
    /\ \A j \in DOMAIN q : j < k /\ Of(q[j], id) => q[j].rows[id].ptime <= q[k].rows[id].ptime
    /\ id \in DOMAIN row => row[id].ptime <= q[k].rows[id].ptime

\* The times a player was seen, as the database has it or will.
Tells(q, o) == \E k \in DOMAIN q : q[k].kind = "login" /\ o = q[k].info.offline_time
Seen(d, q, o) == o = d.login.offline_time \/ Tells(q, o)

\* Days, weeks and months by number: what is done at t belongs to the cycle of o or to a later one.
Cycle(c, t) ==
  CASE c = "day" -> GameDay(t) [] c = "week" -> Week(t) [] c = "month" -> Month(t) [] OTHER -> 0
Within(id, o, t) == t = 0 \/ Cycle(Cfg[id].cycle, o) <= Cycle(Cfg[id].cycle, t)

\* The clock, the ticks, and when a player was seen.
Clock ==
  /\ now >= 1 /\ processTime \in {0, now - 1, now}
  /\ state = "playing" =>
       /\ login.offline_time \in {now - 1, now} /\ login.offline_time >= 1
       /\ login.offline_time # now => processTime = login.offline_time

SeenBefore ==
  \A o \in Nat : Seen(db, queue, o) => o <= IF state = "playing" THEN login.offline_time ELSE now

\* What the times of a mission may be.
Ordered(id) == NoLater(id, db.row, queue, now) /\ InOrder(id, db.row, queue)
Held(id) ==
  state = "playing" =>
    /\ mission[id].ptime <= now
    /\ mission[id].update # "none" => NoLater(id, db.row, queue, mission[id].ptime)
    /\ mission[id].update = "none" /\ (id \notin lost \/ mission[id].ptime = now) =>
         \A t \in Nat : Ends(id, db.row, queue, t) => t \in {0, mission[id].ptime}
    /\ id \notin lost => Within(id, login.offline_time, mission[id].ptime)
Left(id) ==
  state # "playing" /\ id \notin lost =>
    \A t, o \in Nat : Ends(id, db.row, queue, t) /\ Seen(db, queue, o) => Within(id, o, t)

Timed(id) == Ordered(id) /\ Held(id) /\ Left(id)
TimesInv == Clock /\ SeenBefore /\ \A id \in Mission : Timed(id)
TInv == MInv /\ TimesInv

--------------------------------------------------------------------------------
(* The calendar.                                                           *)

\* Numbers of weeks and months grow with the days.
LEMMA DivUp ==
  ASSUME NEW d \in Nat, NEW e \in Nat, d <= e, NEW w \in Nat \ {0} PROVE d \div w <= e \div w
OBVIOUS

\* The number of a week or a month changes on its first day.
LEMMA DivStep ==
  ASSUME NEW d \in Nat, NEW w \in Nat \ {0}, (d + 1) \div w # d \div w PROVE (d + 1) % w = 0
OBVIOUS

\* Who needs no reset was seen on this day of the game.
LEMMA NotReset ==
  ASSUME MissionsAssumption, NEW o \in Nat, NEW t \in Nat, o <= t, ~IsNeedReset(o, t)
  PROVE  GameDay(o) = GameDay(t)
<1>1. DaysPerYear \in Nat \ {0} BY DEF MissionsAssumption
<1>2. QED BY <1>1 DEF IsNeedReset, DiffDay, GameDay, Day, Late

\* Days, weeks and months come one after the other.
LEMMA CycleUp ==
  ASSUME MissionsAssumption, NEW o \in Nat, NEW t \in Nat, o <= t, NEW c
  PROVE  Cycle(c, o) \in Nat /\ Cycle(c, t) \in Nat /\ Cycle(c, o) <= Cycle(c, t)
<1>1. DaysPerWeek \in Nat \ {0} /\ DaysPerMonth \in Nat \ {0} BY DEF MissionsAssumption
<1>2. PICK a \in Nat, b \in Nat : a = Day(o) /\ b = Day(t) /\ a <= b BY DEF Day
<1>3. Week(o) \in Nat /\ Week(t) \in Nat /\ Week(o) <= Week(t) BY <1>1, <1>2, DivUp DEF Week
<1>4. Month(o) \in Nat /\ Month(t) \in Nat /\ Month(o) <= Month(t) BY <1>1, <1>2, DivUp DEF Month
<1>5. GameDay(o) \in Nat /\ GameDay(t) \in Nat /\ GameDay(o) <= GameDay(t) BY DEF GameDay
<1>6. QED BY <1>3, <1>4, <1>5 DEF Cycle

\* The turn of a week or a month comes with a new day, and on its first.
LEMMA TurnOf ==
  ASSUME MissionsAssumption, NEW o \in Nat
  PROVE  /\ Week(o + 1) # Week(o) => Day(o) # Day(o + 1) /\ Day(o + 1) % DaysPerWeek = 0
         /\ Month(o + 1) # Month(o) => Day(o) # Day(o + 1) /\ Day(o + 1) % DaysPerMonth = 0
<1>1. DaysPerWeek \in Nat \ {0} /\ DaysPerMonth \in Nat \ {0} BY DEF MissionsAssumption
<1>2. PICK a \in Nat, b \in Nat : a = Day(o) /\ b = Day(o + 1) /\ (b = a \/ b = a + 1) BY DEF Day
<1>3. ASSUME NEW w \in Nat \ {0}, b \div w # a \div w PROVE a # b /\ b % w = 0
  <2>1. b = a + 1 BY <1>2, <1>3
  <2>2. QED BY <1>3, <2>1, DivStep
<1>4. QED BY <1>1, <1>2, <1>3 DEF Week, Month

--------------------------------------------------------------------------------
(* Statements one after the other.                                         *)

\* Where the statements of two sequences are when one follows the other.
Joined(q, r, c, m, n) ==
  /\ DOMAIN q = 1..m /\ DOMAIN r = 1..n
  /\ \A k \in 1..m : k \in DOMAIN c /\ c[k] = q[k]
  /\ \A k \in 1..n : m + k \in DOMAIN c /\ c[m + k] = r[k]
  /\ \A k \in DOMAIN c : k \in 1..m \/ \E j \in 1..n : k = m + j

\* Two sequences and the one they make are joined in this way.
LEMMA Places ==
  ASSUME NEW q \in Seq(StatementSet), NEW r \in Seq(StatementSet), NEW c, c = q \o r
  PROVE  \E m \in Nat, n \in Nat : Joined(q, r, c, m, n)
<1>1. /\ Len(q) \in Nat /\ Len(r) \in Nat /\ DOMAIN q = 1..Len(q) /\ DOMAIN r = 1..Len(r)
      /\ DOMAIN c = 1..(Len(q) + Len(r))
      /\ \A i \in 1..(Len(q) + Len(r)) : c[i] = IF i <= Len(q) THEN q[i] ELSE r[i - Len(q)]
  BY ConcatProperties, LenProperties
<1>2. PICK m \in Nat, n \in Nat : m = Len(q) /\ n = Len(r) BY <1>1
<1>3. \A k \in 1..m : k \in 1..(m + n) /\ c[k] = q[k] BY <1>1, <1>2
<1>4. \A k \in 1..n : m + k \in 1..(m + n) /\ c[m + k] = r[k]
  <2> SUFFICES ASSUME NEW k \in 1..n PROVE m + k \in 1..(m + n) /\ c[m + k] = r[k] OBVIOUS
  <2>1. m + k \in 1..(m + n) /\ ~(m + k <= m) /\ (m + k) - m = k BY <1>2
  <2>2. QED BY <1>1, <1>2, <2>1
<1>5. \A k \in 1..(m + n) : k \in 1..m \/ \E j \in 1..n : k = m + j
  <2> SUFFICES ASSUME NEW k \in 1..(m + n), k \notin 1..m PROVE \E j \in 1..n : k = m + j OBVIOUS
  <2>1. k - m \in 1..n /\ k = m + (k - m) BY <1>2
  <2>2. QED BY <2>1, Zenon
<1>6. DOMAIN c = 1..(m + n) /\ DOMAIN q = 1..m /\ DOMAIN r = 1..n BY <1>1, <1>2
<1>7. Joined(q, r, c, m, n) BY <1>3, <1>4, <1>5, <1>6 DEF Joined
<1>8. QED BY <1>7

\* The last row of a mission is in the second sequence, or, when it is not, in the first.
LEMMA SaysConcat ==
  ASSUME NEW id, NEW q \in Seq(StatementSet), NEW r \in Seq(StatementSet)
  PROVE  /\ Quiet(id, q \o r) <=> Quiet(id, q) /\ Quiet(id, r)
         /\ \A t : Says(id, q \o r, t) <=> Says(id, r, t) \/ (Quiet(id, r) /\ Says(id, q, t))
<1>1. PICK c : c = q \o r OBVIOUS
<1>0. PICK m \in Nat, n \in Nat : Joined(q, r, c, m, n) BY <1>1, Places
<1>2. /\ DOMAIN q = 1..m /\ DOMAIN r = 1..n
      /\ \A k \in 1..m : k \in DOMAIN c /\ c[k] = q[k]
      /\ \A k \in 1..n : m + k \in DOMAIN c /\ c[m + k] = r[k]
      /\ \A k \in DOMAIN c : k \in 1..m \/ \E j \in 1..n : k = m + j
  BY <1>0 DEF Joined
<1>3. Quiet(id, c) <=> Quiet(id, q) /\ Quiet(id, r)
  <2>1. ASSUME Quiet(id, c) PROVE Quiet(id, q) /\ Quiet(id, r) BY <1>2, <2>1 DEF Quiet
  <2>2. ASSUME Quiet(id, q), Quiet(id, r) PROVE Quiet(id, c) BY <1>2, <2>2 DEF Quiet
  <2>3. QED BY <2>1, <2>2
<1>4. ASSUME NEW t PROVE Says(id, c, t) <=> Says(id, r, t) \/ (Quiet(id, r) /\ Says(id, q, t))
  <2>1. ASSUME Says(id, c, t) PROVE Says(id, r, t) \/ (Quiet(id, r) /\ Says(id, q, t))
    <3>1. PICK k \in DOMAIN c : /\ Of(c[k], id) /\ c[k].rows[id].ptime = t
                                /\ \A j \in DOMAIN c : k < j => ~Of(c[j], id)
      BY <2>1 DEF Says
    <3>2. CASE k \in 1..m
      <4>1. \A j \in 1..n : k < m + j BY <3>2
      <4>2. Quiet(id, r) BY <1>2, <3>1, <4>1 DEF Quiet
      <4>3. Says(id, q, t) BY <1>2, <3>1, <3>2 DEF Says
      <4>4. QED BY <4>2, <4>3
    <3>3. CASE k \notin 1..m
      <4>1. PICK i \in 1..n : k = m + i BY <1>2, <3>3
      <4>2. \A j \in 1..n : i < j => k < m + j BY <4>1
      <4>3. \A j \in 1..n : i < j => ~Of(r[j], id) BY <1>2, <3>1, <4>2
      <4>4. Of(r[i], id) /\ r[i].rows[id].ptime = t BY <1>2, <3>1, <4>1
      <4>5. QED BY <1>2, <4>3, <4>4 DEF Says
    <3>4. QED BY <3>2, <3>3
  <2>2. ASSUME Says(id, r, t) PROVE Says(id, c, t)
    <3>1. PICK i \in 1..n : /\ Of(r[i], id) /\ r[i].rows[id].ptime = t
                            /\ \A j \in 1..n : i < j => ~Of(r[j], id)
      BY <1>2, <2>2 DEF Says
    <3>2. ASSUME NEW j \in DOMAIN c, m + i < j PROVE ~Of(c[j], id)
      <4>1. j \notin 1..m BY <3>2
      <4>2. PICK l \in 1..n : j = m + l BY <1>2, <4>1
      <4>3. i < l BY <3>2, <4>2
      <4>4. QED BY <1>2, <3>1, <4>2, <4>3
    <3>3. m + i \in DOMAIN c /\ c[m + i] = r[i] BY <1>2
    <3>4. PICK k \in DOMAIN c : k = m + i BY <3>3
    <3>5. QED BY <3>1, <3>2, <3>3, <3>4 DEF Says
  <2>3. ASSUME Quiet(id, r), Says(id, q, t) PROVE Says(id, c, t)
    <3>1. PICK k \in 1..m : /\ Of(q[k], id) /\ q[k].rows[id].ptime = t
                            /\ \A j \in 1..m : k < j => ~Of(q[j], id)
      BY <1>2, <2>3 DEF Says
    <3>2. ASSUME NEW j \in DOMAIN c, k < j PROVE ~Of(c[j], id)
      <4>1. CASE j \in 1..m BY <1>2, <3>1, <3>2, <4>1
      <4>2. CASE j \notin 1..m
        <5>1. PICK l \in 1..n : j = m + l BY <1>2, <4>2
        <5>2. QED BY <1>2, <2>3, <5>1 DEF Quiet
      <4>3. QED BY <4>1, <4>2
    <3>3. k \in DOMAIN c /\ c[k] = q[k] BY <1>2
    <3>4. QED BY <3>1, <3>2, <3>3 DEF Says
  <2>4. QED BY <2>1, <2>2, <2>3
<1>5. QED BY <1>1, <1>3, <1>4

\* Rows up to a time, and rows in order, of two sequences.
LEMMA OrderConcat ==
  ASSUME NEW id, NEW row, NEW q \in Seq(StatementSet), NEW r \in Seq(StatementSet)
  PROVE  /\ \A t : Upwards(id, q \o r, t) <=> Upwards(id, q, t) /\ Upwards(id, r, t)
         /\ InOrder(id, row, q \o r) <=>
              /\ InOrder(id, row, q) /\ InOrder(id, row, r)
              /\ \A k \in DOMAIN r : Of(r[k], id) /\ r[k].rows[id].ptime # 0 =>
                   Upwards(id, q, r[k].rows[id].ptime)
<1>1. PICK c : c = q \o r OBVIOUS
<1>0. PICK m \in Nat, n \in Nat : Joined(q, r, c, m, n) BY <1>1, Places
<1>2. /\ DOMAIN q = 1..m /\ DOMAIN r = 1..n
      /\ \A k \in 1..m : k \in DOMAIN c /\ c[k] = q[k]
      /\ \A k \in 1..n : m + k \in DOMAIN c /\ c[m + k] = r[k]
      /\ \A k \in DOMAIN c : k \in 1..m \/ \E j \in 1..n : k = m + j
  BY <1>0 DEF Joined
<1>3. ASSUME NEW t PROVE Upwards(id, c, t) <=> Upwards(id, q, t) /\ Upwards(id, r, t)
  <2>1. ASSUME Upwards(id, c, t) PROVE Upwards(id, q, t) /\ Upwards(id, r, t)
    BY <1>2, <2>1 DEF Upwards
  <2>2. ASSUME Upwards(id, q, t), Upwards(id, r, t) PROVE Upwards(id, c, t)
    <3> SUFFICES ASSUME NEW k \in DOMAIN c, Of(c[k], id) PROVE c[k].rows[id].ptime <= t
      BY DEF Upwards
    <3>1. CASE k \in 1..m BY <1>2, <2>2, <3>1 DEF Upwards
    <3>2. CASE k \notin 1..m
      <4>1. PICK j \in 1..n : c[k] = r[j] BY <1>2, <3>2
      <4>2. QED BY <1>2, <2>2, <4>1 DEF Upwards
    <3>3. QED BY <3>1, <3>2
  <2>3. QED BY <2>1, <2>2
<1>4. ASSUME InOrder(id, row, c)
      PROVE  /\ InOrder(id, row, q) /\ InOrder(id, row, r)
             /\ \A k \in DOMAIN r : Of(r[k], id) /\ r[k].rows[id].ptime # 0 =>
                  Upwards(id, q, r[k].rows[id].ptime)
  <2>1. InOrder(id, row, q) BY <1>2, <1>4 DEF InOrder
  <2>2. ASSUME NEW k \in 1..n, Of(r[k], id), r[k].rows[id].ptime # 0
        PROVE  /\ \A j \in 1..n : j < k /\ Of(r[j], id) => r[j].rows[id].ptime <= r[k].rows[id].ptime
               /\ id \in DOMAIN row => row[id].ptime <= r[k].rows[id].ptime
               /\ \A j \in 1..m : Of(q[j], id) => q[j].rows[id].ptime <= r[k].rows[id].ptime
    <3>1. PICK l \in DOMAIN c : l = m + k /\ c[l] = r[k] BY <1>2
    <3>2. /\ \A j \in DOMAIN c : j < l /\ Of(c[j], id) => c[j].rows[id].ptime <= r[k].rows[id].ptime
          /\ id \in DOMAIN row => row[id].ptime <= r[k].rows[id].ptime
      BY <1>4, <2>2, <3>1 DEF InOrder
    <3>3. \A j \in 1..m : j < l BY <3>1
    <3>4. \A j \in 1..n : j < k => m + j < l BY <3>1
    <3>5. QED BY <1>2, <3>2, <3>3, <3>4
  <2>3. InOrder(id, row, r) BY <1>2, <2>2 DEF InOrder
  <2>4. QED BY <1>2, <2>1, <2>2, <2>3 DEF Upwards
<1>5. ASSUME InOrder(id, row, q), InOrder(id, row, r),
             \A k \in DOMAIN r : Of(r[k], id) /\ r[k].rows[id].ptime # 0 =>
               Upwards(id, q, r[k].rows[id].ptime)
      PROVE  InOrder(id, row, c)
  <2> SUFFICES ASSUME NEW k \in DOMAIN c, Of(c[k], id), c[k].rows[id].ptime # 0
               PROVE  /\ \A j \in DOMAIN c : j < k /\ Of(c[j], id) =>
                           c[j].rows[id].ptime <= c[k].rows[id].ptime
                      /\ id \in DOMAIN row => row[id].ptime <= c[k].rows[id].ptime
    BY DEF InOrder
  <2>1. CASE k \in 1..m
    <3>1. \A j \in DOMAIN c : j < k => j \in 1..m
      <4> SUFFICES ASSUME NEW j \in DOMAIN c, j < k PROVE j \in 1..m OBVIOUS
      <4>1. \A l \in 1..n : j # m + l BY <2>1
      <4>2. QED BY <1>2, <4>1
    <3>2. QED BY <1>2, <1>5, <2>1, <3>1 DEF InOrder
  <2>2. CASE k \notin 1..m
    <3>1. PICK i \in 1..n : k = m + i /\ c[k] = r[i] BY <1>2, <2>2
    <3>2. /\ \A j \in 1..n : j < i /\ Of(r[j], id) => r[j].rows[id].ptime <= r[i].rows[id].ptime
          /\ id \in DOMAIN row => row[id].ptime <= r[i].rows[id].ptime
          /\ \A j \in 1..m : Of(q[j], id) => q[j].rows[id].ptime <= r[i].rows[id].ptime
      BY <1>2, <1>5, <3>1 DEF InOrder, Upwards
    <3>3. \A j \in 1..n : m + j < k => j < i BY <3>1
    <3>4. QED BY <1>2, <3>1, <3>2, <3>3
  <2>3. QED BY <2>1, <2>2
<1>6. QED BY <1>1, <1>3, <1>4, <1>5

\* When a player was seen, as two sequences of statements tell.
LEMMA TellsConcat ==
  ASSUME NEW q \in Seq(StatementSet), NEW r \in Seq(StatementSet)
  PROVE  \A o : Tells(q \o r, o) <=> Tells(q, o) \/ Tells(r, o)
<1>1. PICK c : c = q \o r OBVIOUS
<1>0. PICK m \in Nat, n \in Nat : Joined(q, r, c, m, n) BY <1>1, Places
<1>2. /\ DOMAIN q = 1..m /\ DOMAIN r = 1..n
      /\ \A k \in 1..m : k \in DOMAIN c /\ c[k] = q[k]
      /\ \A k \in 1..n : m + k \in DOMAIN c /\ c[m + k] = r[k]
      /\ \A k \in DOMAIN c : k \in 1..m \/ \E j \in 1..n : k = m + j
  BY <1>0 DEF Joined
<1>3. ASSUME NEW o, Tells(c, o) PROVE Tells(q, o) \/ Tells(r, o)
  <2>1. PICK k \in DOMAIN c : c[k].kind = "login" /\ o = c[k].info.offline_time BY <1>3 DEF Tells
  <2>2. CASE k \in 1..m BY <1>2, <2>1, <2>2 DEF Tells
  <2>3. CASE k \notin 1..m
    <3>1. PICK j \in 1..n : c[k] = r[j] BY <1>2, <2>3
    <3>2. QED BY <1>2, <2>1, <3>1 DEF Tells
  <2>4. QED BY <2>2, <2>3
<1>4. ASSUME NEW o, Tells(q, o) \/ Tells(r, o) PROVE Tells(c, o) BY <1>2, <1>4 DEF Tells
<1>5. QED BY <1>1, <1>3, <1>4

\* What is said of a mission once.
Once(id, r, t) ==
  \E k \in DOMAIN r : /\ Of(r[k], id) /\ r[k].rows[id].ptime = t
                      /\ \A j \in DOMAIN r : j # k => ~Of(r[j], id)

\* Statements that do not concern a mission change none of its times.
LEMMA QuietTail ==
  ASSUME NEW id, NEW row, NEW q \in Seq(StatementSet), NEW r \in Seq(StatementSet), Quiet(id, r)
  PROVE  /\ \A t : Ends(id, row, q \o r, t) <=> Ends(id, row, q, t)
         /\ \A t : NoLater(id, row, q \o r, t) <=> NoLater(id, row, q, t)
         /\ InOrder(id, row, q \o r) <=> InOrder(id, row, q)
<1>1. \A t : ~Says(id, r, t) /\ Upwards(id, r, t) BY DEF Quiet, Says, Upwards
<1>2. InOrder(id, row, r) BY DEF Quiet, InOrder
<1>3. \A k \in DOMAIN r : ~Of(r[k], id) BY DEF Quiet
<1>4. PICK c : c = q \o r OBVIOUS
<1>5. \A t : Ends(id, row, c, t) <=> Ends(id, row, q, t) BY <1>1, <1>4, SaysConcat DEF Ends
<1>6. \A t : NoLater(id, row, c, t) <=> NoLater(id, row, q, t)
  BY <1>1, <1>4, OrderConcat DEF NoLater
<1>7. InOrder(id, row, c) <=> InOrder(id, row, q) BY <1>2, <1>3, <1>4, OrderConcat
<1>8. QED BY <1>4, <1>5, <1>6, <1>7

\* A row that is sent is the last one.
LEMMA RowTail ==
  ASSUME NEW id, NEW row, NEW q \in Seq(StatementSet), NEW r \in Seq(StatementSet),
         NEW t \in Nat, Once(id, r, t)
  PROVE  /\ \A u : Ends(id, row, q \o r, u) <=> u = t
         /\ \A u : NoLater(id, row, q \o r, u) <=> NoLater(id, row, q, u) /\ t <= u
         /\ InOrder(id, row, q) /\ (t = 0 \/ NoLater(id, row, q, t)) => InOrder(id, row, q \o r)
<1>1. PICK k \in DOMAIN r : /\ Of(r[k], id) /\ r[k].rows[id].ptime = t
                            /\ \A j \in DOMAIN r : j # k => ~Of(r[j], id)
  BY DEF Once
<1>2. PICK m \in Nat : DOMAIN r = 1..m BY LenProperties
<1>3. \A u : Says(id, r, u) <=> u = t
  <2>1. \A j \in DOMAIN r : k < j => j # k BY <1>2
  <2>2. Says(id, r, t) BY <1>1, <2>1 DEF Says
  <2>3. QED BY <1>1, <2>2 DEF Says
<1>4. ~Quiet(id, r) BY <1>1 DEF Quiet
<1>5. \A u : Upwards(id, r, u) <=> t <= u BY <1>1 DEF Upwards
<1>6. PICK c : c = q \o r OBVIOUS
<1>7. \A u : Ends(id, row, c, u) <=> u = t
  <2>1. ~Quiet(id, c) BY <1>4, <1>6, SaysConcat
  <2>2. \A u : Says(id, c, u) <=> u = t BY <1>3, <1>4, <1>6, SaysConcat
  <2>3. QED BY <2>1, <2>2 DEF Ends
<1>8. \A u : NoLater(id, row, c, u) <=> NoLater(id, row, q, u) /\ t <= u
  BY <1>5, <1>6, OrderConcat DEF NoLater
<1>9. ASSUME InOrder(id, row, q), t = 0 \/ NoLater(id, row, q, t) PROVE InOrder(id, row, c)
  <2>1. ~(k < k) BY <1>2
  <2>2. InOrder(id, row, r) BY <1>1, <1>9, <2>1 DEF InOrder, NoLater
  <2>3. \A j \in DOMAIN r : Of(r[j], id) /\ r[j].rows[id].ptime # 0 =>
          Upwards(id, q, r[j].rows[id].ptime)
    BY <1>1, <1>9 DEF NoLater
  <2>4. QED BY <1>6, <1>9, <2>2, <2>3, OrderConcat
<1>10. QED BY <1>6, <1>7, <1>8, <1>9

\* Where the row and the first statements become others that say no more of a mission.
LEMMA FrontTimes ==
  ASSUME NEW id, NEW row, NEW new, NEW f \in Seq(StatementSet), NEW g \in Seq(StatementSet),
         NEW q \in Seq(StatementSet),
         \A t : Ends(id, new, g, t) => Ends(id, row, f, t),
         \A t : NoLater(id, row, f, t) => NoLater(id, new, g, t),
         InOrder(id, row, f) => InOrder(id, new, g)
  PROVE  /\ \A t : Ends(id, new, g \o q, t) => Ends(id, row, f \o q, t)
         /\ \A t : NoLater(id, row, f \o q, t) => NoLater(id, new, g \o q, t)
         /\ InOrder(id, row, f \o q) => InOrder(id, new, g \o q)
<1>1. PICK a, b : a = f \o q /\ b = g \o q OBVIOUS
<1>2. \A t : Ends(id, new, b, t) => Says(id, q, t) \/ (Quiet(id, q) /\ Ends(id, new, g, t))
  BY <1>1, SaysConcat DEF Ends
<1>3. \A t : Says(id, q, t) \/ (Quiet(id, q) /\ Ends(id, row, f, t)) => Ends(id, row, a, t)
  BY <1>1, SaysConcat DEF Ends
<1>4. \A t : Ends(id, new, b, t) => Ends(id, row, a, t) BY <1>2, <1>3
<1>5. \A t : NoLater(id, row, a, t) <=> NoLater(id, row, f, t) /\ Upwards(id, q, t)
  BY <1>1, OrderConcat DEF NoLater
<1>6. \A t : NoLater(id, new, b, t) <=> NoLater(id, new, g, t) /\ Upwards(id, q, t)
  BY <1>1, OrderConcat DEF NoLater
<1>7. \A t : NoLater(id, row, a, t) => NoLater(id, new, b, t) BY <1>5, <1>6
<1>8. ASSUME InOrder(id, row, a) PROVE InOrder(id, new, b)
  <2>1. /\ InOrder(id, row, f) /\ InOrder(id, row, q)
        /\ \A k \in DOMAIN q : Of(q[k], id) /\ q[k].rows[id].ptime # 0 =>
             Upwards(id, f, q[k].rows[id].ptime)
    BY <1>1, <1>8, OrderConcat
  <2>2. \A k \in DOMAIN q : Of(q[k], id) /\ q[k].rows[id].ptime # 0 =>
          NoLater(id, row, f, q[k].rows[id].ptime)
    BY <2>1 DEF InOrder, NoLater
  <2>3. \A k \in DOMAIN q : Of(q[k], id) /\ q[k].rows[id].ptime # 0 =>
          NoLater(id, new, g, q[k].rows[id].ptime)
    BY <2>2
  <2>4. InOrder(id, new, q) BY <2>1, <2>3 DEF InOrder, NoLater
  <2>5. \A k \in DOMAIN q : Of(q[k], id) /\ q[k].rows[id].ptime # 0 =>
          Upwards(id, g, q[k].rows[id].ptime)
    BY <2>3 DEF NoLater
  <2>6. InOrder(id, new, g) BY <2>1
  <2>7. QED BY <1>1, <2>4, <2>5, <2>6, OrderConcat
<1>9. QED BY <1>1, <1>4, <1>7, <1>8

\* Statements may be put one after the other in any order of doing so.
LEMMA InTurn == \A q, r, s \in Seq(StatementSet) : (q \o r) \o s = q \o (r \o s)
<1> SUFFICES ASSUME NEW q \in Seq(StatementSet), NEW r \in Seq(StatementSet),
                    NEW s \in Seq(StatementSet)
             PROVE  (q \o r) \o s = q \o (r \o s)
  OBVIOUS
<1>1. QED OBVIOUS

\* A sequence that is not empty is its head and its tail.
LEMMA HeadAndTail ==
  ASSUME NEW q \in Seq(StatementSet), q # <<>>
  PROVE  /\ Head(q) \in StatementSet /\ Tail(q) \in Seq(StatementSet)
         /\ <<Head(q)>> \in Seq(StatementSet) /\ q = <<Head(q)>> \o Tail(q)
<1>1. Head(q) \in StatementSet /\ Tail(q) \in Seq(StatementSet) BY HeadTailProperties
<1>2. <<Head(q)>> \in Seq(StatementSet) BY <1>1
<1>3. q = <<Head(q)>> \o Tail(q) BY <1>1
<1>4. QED BY <1>1, <1>2, <1>3

--------------------------------------------------------------------------------
(* What the handlers say of the times.                                     *)

\* Of a mission rows speak, and only logins of when a player was seen.
LEMMA OneSays ==
  ASSUME NEW s \in StatementSet, NEW id
  PROVE  /\ ~Of(s, id) => Quiet(id, <<s>>)
         /\ Of(s, id) => Once(id, <<s>>, s.rows[id].ptime)
         /\ \A o : Tells(<<s>>, o) <=> s.kind = "login" /\ o = s.info.offline_time
<1>1. PICK q : q = <<s>> OBVIOUS
<1>2. DOMAIN q = {1} /\ q[1] = s BY <1>1
<1>3. ~Of(s, id) => Quiet(id, q) BY <1>2 DEF Quiet
<1>4. Of(s, id) => Once(id, q, s.rows[id].ptime) BY <1>2 DEF Once
<1>5. \A o : Tells(q, o) <=> s.kind = "login" /\ o = s.info.offline_time BY <1>2 DEF Tells
<1>6. QED BY <1>1, <1>3, <1>4, <1>5

\* No statement says nothing.
LEMMA NoneSays == ASSUME NEW id PROVE Quiet(id, <<>>) /\ \A o : ~Tells(<<>>, o)
BY DEF Quiet, Tells

\* A question says nothing, and a login when the player was seen.
LEMMA LoginSays ==
  ASSUME NEW id
  PROVE  /\ Quiet(id, <<LoadData>>) /\ \A o : ~Tells(<<LoadData>>, o)
         /\ \A l \in LoginSet : /\ Quiet(id, <<LoginInfo(l)>>)
                                /\ \A o : Tells(<<LoginInfo(l)>>, o) <=> o = l.offline_time
<1>1. LoadData \in StatementSet /\ LoadData.kind = "load" BY DEF LoadData, StatementSet
<1>2. \A l \in LoginSet : /\ LoginInfo(l) \in StatementSet /\ LoginInfo(l).kind = "login"
                          /\ LoginInfo(l).info = l
  BY DEF LoginInfo, StatementSet
<1>3. ~Of(LoadData, id) /\ \A l \in LoginSet : ~Of(LoginInfo(l), id) BY <1>1, <1>2 DEF Of
<1>4. Quiet(id, <<LoadData>>) /\ \A o : ~Tells(<<LoadData>>, o) BY <1>1, <1>3, OneSays
<1>5. ASSUME NEW l \in LoginSet
      PROVE  Quiet(id, <<LoginInfo(l)>>) /\ \A o : Tells(<<LoginInfo(l)>>, o) <=> o = l.offline_time
  BY <1>2, <1>3, OneSays
<1>6. QED BY <1>4, <1>5

\* Prizes say nothing of the times.
LEMMA PrizesSay ==
  ASSUME NEW ms \in [Mission -> LiveSet], NEW as, NEW id
  PROVE  Quiet(id, Prizes(ms, as)) /\ \A o : ~Tells(Prizes(ms, as), o)
<1>1. PICK ids, s : /\ ids = {i \in Mission : as[i].given > ms[i].given}
                    /\ s = [kind |-> "prize", ids |-> ids]
  OBVIOUS
<1>2. s \in StatementSet /\ s.kind = "prize" BY <1>1, PrizesTyped
<1>3. Prizes(ms, as) = <<>> \/ Prizes(ms, as) = <<s>> BY <1>1 DEF Prizes, Some
<1>4. ~Of(s, id) BY <1>2 DEF Of
<1>5. QED BY <1>2, <1>3, <1>4, OneSays, NoneSays

\* What is saved says the time of each mission that changed, once.
LEMMA SaveSays ==
  ASSUME NEW ms, Writable(ms), NEW id \in DOMAIN ms
  PROVE  /\ ms[id].update = "none" => Quiet(id, SaveMiss(ms))
         /\ ms[id].update # "none" => Once(id, SaveMiss(ms), ms[id].ptime)
         /\ \A o : ~Tells(SaveMiss(ms), o)
<1>1. PICK ids : ids = {i \in DOMAIN ms : ms[i].update # "none"} OBVIOUS
<1>2. PICK rows : rows = [i \in ids |-> ms[i]] OBVIOUS
<1>3. PICK s : s = [kind |-> "rows", rows |-> rows] OBVIOUS
<1>4. s \in StatementSet /\ s.kind = "rows" /\ s.rows = rows BY <1>1, <1>2, <1>3, SaveTyped
<1>5. SaveMiss(ms) = Some(ids, s) BY <1>1, <1>2, <1>3 DEF SaveMiss
<1>6. SaveMiss(ms) = <<>> \/ SaveMiss(ms) = <<s>> BY <1>5 DEF Some
<1>7. \A o : ~Tells(SaveMiss(ms), o) BY <1>4, <1>6, OneSays, NoneSays
<1>8. ASSUME ms[id].update = "none" PROVE Quiet(id, SaveMiss(ms))
  <2>1. ~Of(s, id) BY <1>1, <1>2, <1>4, <1>8 DEF Of
  <2>2. QED BY <1>4, <1>6, <2>1, OneSays, NoneSays
<1>9. ASSUME ms[id].update # "none" PROVE Once(id, SaveMiss(ms), ms[id].ptime)
  <2>1. id \in ids BY <1>1, <1>9
  <2>2. SaveMiss(ms) = <<s>> BY <1>5, <2>1 DEF Some
  <2>3. Of(s, id) /\ s.rows[id].ptime = ms[id].ptime BY <1>2, <1>4, <2>1 DEF Of
  <2>4. QED BY <1>4, <2>2, <2>3, OneSays
<1>10. QED BY <1>7, <1>8, <1>9

--------------------------------------------------------------------------------
(* What becomes of the times of a player's missions.                       *)

\* A mission keeps its time and mark, or is noted and marked now.
Kept(m, n) ==
  \/ n.ptime = m.ptime /\ n.update = m.update
  \/ n.ptime = now /\ n.update = "update"
Fresh(n) == n.ptime = 0 \/ (n.ptime = now /\ n.update = "update")

\* What a cleanup may make of a player's times.
Turned(p, q) ==
  /\ q \in PlayerSet /\ q.login.offline_time = p.login.offline_time
  /\ \A id \in Mission : Kept(p.mission[id], q.mission[id])

\* A mission was reset if its cycle turned since somebody was seen.
Due(id, o, n) == Fresh(n) \/ Cycle(Cfg[id].cycle, now) <= Cycle(Cfg[id].cycle, o)

\* Cleanups one after the other.
LEMMA TurnedSteps ==
  /\ \A p \in PlayerSet : Turned(p, p)
  /\ \A p, q, r : Turned(p, q) /\ Turned(q, r) => Turned(p, r)
  /\ \A p, q : Turned(p, q) =>
       \A id \in Mission : Fresh(p.mission[id]) => Fresh(q.mission[id])
BY DEF Turned, Kept, Fresh

\* A reset notes what it resets, which is every mission of its cycle that ever moved.
LEMMA ResetTimes ==
  ASSUME NEW ms \in [Mission -> LiveSet], NEW cycle, NEW id \in Mission
  PROVE  /\ Kept(ms[id], ResetMission(ms, cycle)[id])
         /\ Cfg[id].cycle = cycle => Fresh(ResetMission(ms, cycle)[id])
<1>0. PICK n : n = ResetMission(ms, cycle)[id] OBVIOUS
<1>1. PICK m \in LiveSet : m = ms[id] /\ n = ResetMission(ms, cycle)[id] BY <1>0
<1>2. n = IF m.ptime > 0 /\ Cfg[id].cycle = cycle
          THEN [m EXCEPT !.rtimes = 0, !.ctimes = 0, !.ptime = now, !.update = "update"] ELSE m
  BY <1>1 DEF ResetMission
<1>3. m.ptime \in Nat BY DEF LiveSet, RowSet
<1>4. CASE m.ptime > 0 /\ Cfg[id].cycle = cycle
  <2>1. n.ptime = now /\ n.update = "update" BY <1>2, <1>4 DEF LiveSet, RowSet
  <2>2. QED BY <1>1, <2>1 DEF Kept, Fresh
<1>5. CASE ~(m.ptime > 0 /\ Cfg[id].cycle = cycle)
  BY <1>1, <1>2, <1>3, <1>5 DEF Kept, Fresh
<1>6. QED BY <1>4, <1>5

\* Each cleanup resets the missions of its cycle.
LEMMA CleanupTimes ==
  ASSUME now \in Nat, NEW p \in PlayerSet
  PROVE  /\ \A days : /\ Turned(p, DailyCleanup(p, days))
                      /\ \A id \in Mission :
                           Cfg[id].cycle = "day" => Fresh(DailyCleanup(p, days).mission[id])
         /\ Turned(p, WeeklyCleanup(p))
         /\ \A id \in Mission : Cfg[id].cycle = "week" => Fresh(WeeklyCleanup(p).mission[id])
         /\ Turned(p, MonthlyCleanup(p))
         /\ \A id \in Mission : Cfg[id].cycle = "month" => Fresh(MonthlyCleanup(p).mission[id])
<1>1. PICK l \in LoginSet, ms \in [Mission -> LiveSet] : p = [login |-> l, mission |-> ms]
  BY DEF PlayerSet
<1>2. \A cycle : \A id \in Mission :
        /\ Kept(ms[id], ResetMission(ms, cycle)[id])
        /\ Cfg[id].cycle = cycle => Fresh(ResetMission(ms, cycle)[id])
  BY ResetTimes
<1>3. ASSUME NEW days
      PROVE  /\ DailyCleanup(p, days).mission = ResetMission(ms, "day")
             /\ DailyCleanup(p, days).login.offline_time = l.offline_time
  <2>1. PICK k : k = [l EXCEPT !.clogin = IF days > 1 THEN 1 ELSE @ + 1, !.weeklogin = @ + 1] OBVIOUS
  <2>2. k.offline_time = l.offline_time BY <2>1 DEF LoginSet
  <2>3. QED BY <1>1, <2>1, <2>2 DEF DailyCleanup
<1>4. /\ WeeklyCleanup(p).mission = ResetMission(ms, "week")
      /\ WeeklyCleanup(p).login.offline_time = l.offline_time
  BY <1>1 DEF WeeklyCleanup, LoginSet
<1>5. /\ MonthlyCleanup(p).mission = ResetMission(ms, "month")
      /\ MonthlyCleanup(p).login.offline_time = l.offline_time
  BY <1>1 DEF MonthlyCleanup
<1>6. /\ \A days : DailyCleanup(p, days) \in PlayerSet
      /\ WeeklyCleanup(p) \in PlayerSet /\ MonthlyCleanup(p) \in PlayerSet
  BY CleanupsOf
<1>7. p.login = l /\ p.mission = ms BY <1>1
<1>8. ASSUME NEW q \in PlayerSet, NEW cycle, q.mission = ResetMission(ms, cycle),
             q.login.offline_time = l.offline_time
      PROVE  /\ Turned(p, q)
             /\ \A id \in Mission : Cfg[id].cycle = cycle => Fresh(q.mission[id])
  BY <1>2, <1>7, <1>8 DEF Turned
<1>9. QED BY <1>3, <1>4, <1>5, <1>6, <1>8

\* What was done in a cycle that goes on belongs to it, and what is reset does too.
LEMMA WithinAfter ==
  ASSUME MissionsAssumption, now \in Nat, NEW id \in Mission, NEW m \in LiveSet, NEW n,
         Kept(m, n), NEW o \in Nat, Due(id, o, n), Within(id, o, m.ptime)
  PROVE  Within(id, now, n.ptime)
<1>1. PICK c : c = Cfg[id].cycle OBVIOUS
<1>2. PICK a \in Nat, b \in Nat : a = Cycle(c, now) /\ b = Cycle(c, o) BY CycleUp
<1>3. m.ptime \in Nat BY DEF LiveSet, RowSet
<1>4. Cycle(c, m.ptime) \in Nat BY <1>3, CycleUp
<1>5. CASE n.ptime = now BY <1>1, <1>2, <1>5 DEF Within
<1>6. CASE n.ptime = 0 BY <1>6 DEF Within
<1>7. CASE n.ptime # now /\ n.ptime # 0
  <2>1. n.ptime = m.ptime /\ a <= b BY <1>1, <1>2, <1>7 DEF Kept, Due, Fresh
  <2>2. b <= Cycle(c, m.ptime) BY <1>1, <1>2, <1>7, <2>1 DEF Within
  <2>3. QED BY <1>1, <1>2, <1>4, <2>1, <2>2 DEF Within
<1>8. QED BY <1>5, <1>6, <1>7

\* When a player is noted as seen now, his missions stay as they are.
LEMMA NotedTimes ==
  ASSUME NEW p \in PlayerSet, NEW t \in Nat
  PROVE  /\ [p EXCEPT !.login.offline_time = t].mission = p.mission
         /\ [p EXCEPT !.login.offline_time = t].login.offline_time = t
         /\ [p EXCEPT !.login.offline_time = t, !.login.clogin = IF @ < 1 THEN 1 ELSE @].mission
              = p.mission
         /\ [p EXCEPT !.login.offline_time = t,
                      !.login.clogin = IF @ < 1 THEN 1 ELSE @].login.offline_time = t
<1>1. PICK a \in Nat, b \in Nat, c \in Nat, ms \in [Mission -> LiveSet] :
        p = [login |-> [offline_time |-> a, clogin |-> b, weeklogin |-> c], mission |-> ms]
  BY DEF PlayerSet, LoginSet
<1>2. PICK q : q = [p EXCEPT !.login.offline_time = t] OBVIOUS
<1>3. q = [login |-> [offline_time |-> t, clogin |-> b, weeklogin |-> c], mission |-> ms]
  BY <1>1, <1>2
<1>4. q.mission = p.mission /\ q.login.offline_time = t BY <1>1, <1>3
<1>5. PICK n \in Nat : n = IF b < 1 THEN 1 ELSE b OBVIOUS
<1>6. [p EXCEPT !.login.offline_time = t, !.login.clogin = IF @ < 1 THEN 1 ELSE @]
        = [login |-> [offline_time |-> t, clogin |-> n, weeklogin |-> c], mission |-> ms]
  <2>1. p.login.clogin = b BY <1>1
  <2>2. [q EXCEPT !.login = [q.login EXCEPT !.clogin = n]]
          = [login |-> [offline_time |-> t, clogin |-> n, weeklogin |-> c], mission |-> ms]
    BY <1>3
  <2>3. QED BY <1>2, <1>5, <2>1, <2>2, Zenon
<1>7. QED BY <1>1, <1>2, <1>4, <1>6

\* A login resets what turned since the player was last seen.
LEMMA BuildInitTimes ==
  ASSUME MissionsAssumption, now \in Nat, NEW p \in PlayerSet, p.login.offline_time <= now
  PROVE  /\ BuildInit(p).login.offline_time = now
         /\ \A id \in Mission : /\ Kept(p.mission[id], BuildInit(p).mission[id])
                                /\ Due(id, p.login.offline_time, BuildInit(p).mission[id])
<1> DEFINE offline == p.login.offline_time
           days == DiffTime(offline, Day(offline), Day(now))
           reset == offline # 0 /\ IsNeedReset(offline, now)
           back == MonthlyCleanup(WeeklyCleanup(DailyCleanup(p, 2)))
           daily == If(offline = 0, back, If(reset, DailyCleanup(p, days), p))
           isWeek == DiffTime(offline, Week(offline), Week(now)) > 0
           weekly == If(isWeek, WeeklyCleanup(daily), daily)
           isMonth == DiffTime(offline, Month(offline), Month(now)) > 0
           monthly == If(isMonth, MonthlyCleanup(weekly), weekly)
<1>1. PICK o \in Nat : o = offline BY DEF PlayerSet, LoginSet
<1>2. /\ Turned(p, back)
      /\ \A id \in Mission : Cfg[id].cycle \in {"day", "week", "month"} => Fresh(back.mission[id])
  <2>1. PICK d : d = DailyCleanup(p, 2) OBVIOUS
  <2>2. Turned(p, d) /\ \A id \in Mission : Cfg[id].cycle = "day" => Fresh(d.mission[id])
    BY <2>1, CleanupTimes
  <2>3. d \in PlayerSet BY <2>2 DEF Turned
  <2>4. PICK w : w = WeeklyCleanup(d) OBVIOUS
  <2>5. Turned(d, w) /\ \A id \in Mission : Cfg[id].cycle = "week" => Fresh(w.mission[id])
    BY <2>3, <2>4, CleanupTimes
  <2>6. w \in PlayerSet BY <2>5 DEF Turned
  <2>7. PICK m : m = MonthlyCleanup(w) OBVIOUS
  <2>8. Turned(w, m) /\ \A id \in Mission : Cfg[id].cycle = "month" => Fresh(m.mission[id])
    BY <2>6, <2>7, CleanupTimes
  <2>9. Turned(p, m) BY <2>2, <2>5, <2>8, TurnedSteps
  <2>10. \A id \in Mission : Cfg[id].cycle \in {"day", "week", "month"} => Fresh(m.mission[id])
    BY <2>2, <2>5, <2>8, TurnedSteps
  <2>11. back = m BY <2>1, <2>4, <2>7
  <2>12. QED BY <2>9, <2>10, <2>11
<1> HIDE DEF back
<1>3. /\ Turned(p, daily)
      /\ o = 0 => \A id \in Mission :
                    Cfg[id].cycle \in {"day", "week", "month"} => Fresh(daily.mission[id])
      /\ o # 0 /\ IsNeedReset(o, now) =>
           \A id \in Mission : Cfg[id].cycle = "day" => Fresh(daily.mission[id])
  <2>1. Turned(p, p) BY TurnedSteps
  <2>2. PICK d : d = DailyCleanup(p, days) OBVIOUS
  <2>3. Turned(p, d) /\ \A id \in Mission : Cfg[id].cycle = "day" => Fresh(d.mission[id])
    BY <2>2, CleanupTimes
  <2>4. daily = IF o = 0 THEN back ELSE IF IsNeedReset(o, now) THEN d ELSE p
    BY <1>1, <2>2 DEF If
  <2> HIDE DEF daily
  <2>5. QED BY <1>2, <2>1, <2>3, <2>4
<1> HIDE DEF daily
<1>4. /\ Turned(p, weekly) /\ Turned(daily, weekly)
      /\ o # 0 /\ Week(now) > Week(o) =>
           \A id \in Mission : Cfg[id].cycle = "week" => Fresh(weekly.mission[id])
  <2>1. daily \in PlayerSet BY <1>3 DEF Turned
  <2>2. PICK w : w = WeeklyCleanup(daily) OBVIOUS
  <2>3. Turned(daily, w) /\ \A id \in Mission : Cfg[id].cycle = "week" => Fresh(w.mission[id])
    BY <2>1, <2>2, CleanupTimes
  <2>4. Turned(daily, daily) BY <2>1, TurnedSteps
  <2>5. weekly = IF isWeek THEN w ELSE daily BY <2>2 DEF If
  <2>6. o # 0 /\ Week(now) > Week(o) => isWeek
    <3>1. Week(now) \in Nat /\ Week(o) \in Nat
      <4>1. DaysPerWeek \in Nat \ {0} BY DEF MissionsAssumption
      <4>2. Day(now) \in Nat /\ Day(o) \in Nat BY DEF Day
      <4>3. QED BY <4>1, <4>2 DEF Week
    <3>2. QED BY <1>1, <3>1 DEF DiffTime
  <2> HIDE DEF weekly, isWeek
  <2>7. Turned(daily, weekly) BY <2>3, <2>4, <2>5
  <2>8. Turned(p, weekly) BY <1>3, <2>7, TurnedSteps
  <2>9. QED BY <2>3, <2>5, <2>6, <2>7, <2>8
<1> HIDE DEF weekly
<1>5. /\ Turned(p, monthly) /\ Turned(weekly, monthly)
      /\ o # 0 /\ Month(now) > Month(o) =>
           \A id \in Mission : Cfg[id].cycle = "month" => Fresh(monthly.mission[id])
  <2>1. weekly \in PlayerSet BY <1>4 DEF Turned
  <2>2. PICK w : w = MonthlyCleanup(weekly) OBVIOUS
  <2>3. Turned(weekly, w) /\ \A id \in Mission : Cfg[id].cycle = "month" => Fresh(w.mission[id])
    BY <2>1, <2>2, CleanupTimes
  <2>4. Turned(weekly, weekly) BY <2>1, TurnedSteps
  <2>5. monthly = IF isMonth THEN w ELSE weekly BY <2>2 DEF If
  <2>6. o # 0 /\ Month(now) > Month(o) => isMonth
    <3>1. Month(now) \in Nat /\ Month(o) \in Nat
      <4>1. DaysPerMonth \in Nat \ {0} BY DEF MissionsAssumption
      <4>2. Day(now) \in Nat /\ Day(o) \in Nat BY DEF Day
      <4>3. QED BY <4>1, <4>2 DEF Month
    <3>2. QED BY <1>1, <3>1 DEF DiffTime
  <2> HIDE DEF monthly, isMonth
  <2>7. Turned(weekly, monthly) BY <2>3, <2>4, <2>5
  <2>8. Turned(p, monthly) BY <1>4, <2>7, TurnedSteps
  <2>9. QED BY <2>3, <2>5, <2>6, <2>7, <2>8
<1> HIDE DEF monthly
<1>6. ASSUME NEW id \in Mission
      PROVE  Kept(p.mission[id], monthly.mission[id]) /\ Due(id, o, monthly.mission[id])
  <2> SUFFICES Due(id, o, monthly.mission[id]) BY <1>5 DEF Turned
  <2>2. Fresh(daily.mission[id]) => Fresh(monthly.mission[id]) BY <1>4, <1>5, TurnedSteps
  <2>3. Fresh(weekly.mission[id]) => Fresh(monthly.mission[id]) BY <1>5, TurnedSteps
  <2>4. PICK c \in {"day", "week", "month", "never"} : c = Cfg[id].cycle BY DEF MissionsAssumption
  <2>5. CASE c = "never" BY <2>4, <2>5 DEF Due, Cycle
  <2>6. CASE c # "never" /\ o = 0 BY <1>3, <2>2, <2>4, <2>6 DEF Due
  <2>7. CASE c = "day" /\ o # 0
    <3>1. CASE IsNeedReset(o, now) BY <1>3, <2>2, <2>4, <2>7, <3>1 DEF Due
    <3>2. CASE ~IsNeedReset(o, now)
      <4>1. GameDay(o) = GameDay(now) BY <1>1, <3>2, NotReset
      <4>2. GameDay(now) \in Nat BY DEF GameDay
      <4>3. Cycle(c, now) <= Cycle(c, o) BY <2>7, <4>1, <4>2 DEF Cycle
      <4>4. QED BY <2>4, <4>3 DEF Due
    <3>3. QED BY <3>1, <3>2
  <2>8. CASE c = "week" /\ o # 0
    <3>1. PICK a \in Nat, b \in Nat : a = Cycle(c, o) /\ b = Cycle(c, now) BY <1>1, CycleUp
    <3>2. a = Week(o) /\ b = Week(now) BY <2>8, <3>1 DEF Cycle
    <3>3. CASE b > a BY <1>4, <2>3, <2>4, <2>8, <3>2, <3>3 DEF Due
    <3>4. CASE b <= a BY <2>4, <3>1, <3>4 DEF Due
    <3>5. QED BY <3>3, <3>4
  <2>9. CASE c = "month" /\ o # 0
    <3>1. PICK a \in Nat, b \in Nat : a = Cycle(c, o) /\ b = Cycle(c, now) BY <1>1, CycleUp
    <3>2. a = Month(o) /\ b = Month(now) BY <2>9, <3>1 DEF Cycle
    <3>3. CASE b > a BY <1>5, <2>4, <2>9, <3>2, <3>3 DEF Due
    <3>4. CASE b <= a BY <2>4, <3>1, <3>4 DEF Due
    <3>5. QED BY <3>3, <3>4
  <2>10. \/ c = "never" \/ (c # "never" /\ o = 0) \/ (c = "day" /\ o # 0)
         \/ (c = "week" /\ o # 0) \/ (c = "month" /\ o # 0)
    OBVIOUS
  <2>11. QED BY <2>5, <2>6, <2>7, <2>8, <2>9, <2>10
<1>7. PICK q : q = [monthly EXCEPT !.login.offline_time = now,
                                   !.login.clogin = IF @ < 1 THEN 1 ELSE @]
  OBVIOUS
<1>8. BuildInit(p) = q BY <1>7 DEF BuildInit, monthly, weekly, daily, back
<1>9. q.mission = monthly.mission /\ q.login.offline_time = now
  <2>1. monthly \in PlayerSet BY <1>5 DEF Turned
  <2>2. QED BY <1>7, <2>1, NotedTimes
<1>10. QED BY <1>1, <1>6, <1>8, <1>9

--------------------------------------------------------------------------------
(* The handlers keep the times.                                            *)

\* What is known of the times before a step.
LEMMA TimesBefore ==
  ASSUME TInv
  PROVE  /\ MissionsTyped /\ now \in Nat /\ now >= 1 /\ queue \in Seq(StatementSet)
         /\ login \in LoginSet /\ login.offline_time \in Nat
         /\ db \in DbSet /\ db.login.offline_time \in Nat
         /\ state = "playing" =>
              /\ mission \in [Mission -> LiveSet]
              /\ login.offline_time <= now
              /\ \A id \in Mission : mission[id].ptime \in Nat
         /\ \A id \in Mission : Timed(id)
<1>1. MissionsTyped /\ Clock /\ \A id \in Mission : Timed(id) BY DEF TInv, MInv, TimesInv
<1>2. /\ now \in Nat /\ now >= 1 /\ queue \in Seq(StatementSet) /\ login \in LoginSet /\ db \in DbSet
      /\ state = "playing" => mission \in [Mission -> LiveSet]
  BY <1>1 DEF MissionsTyped, Clock
<1>3. db.login \in LoginSet BY <1>2, DbParts
<1>4. \A l \in LoginSet : l.offline_time \in Nat BY DEF LoginSet
<1>5. state = "playing" => login.offline_time <= now BY <1>1, <1>2, <1>4 DEF Clock
<1>6. \A m \in LiveSet : m.ptime \in Nat BY DEF LiveSet, RowSet
<1>7. QED BY <1>1, <1>2, <1>3, <1>4, <1>5, <1>6

\* A step after which the database has or will have no other time than before.
LEMMA Fewer ==
  ASSUME TimesInv, Clock', now' = now, lost' = lost,
         state = "playing" <=> state' = "playing",
         state = "playing" => mission' = mission /\ login' = login,
         \A id \in Mission :
           /\ \A t : Ends(id, db'.row, queue', t) => Ends(id, db.row, queue, t)
           /\ \A t : NoLater(id, db.row, queue, t) => NoLater(id, db'.row, queue', t)
           /\ InOrder(id, db.row, queue) => InOrder(id, db'.row, queue'),
         \A o : Seen(db', queue', o) => Seen(db, queue, o)
  PROVE  TimesInv'
<1>1. SeenBefore' BY DEF TimesInv, SeenBefore
<1>2. ASSUME NEW id \in Mission PROVE Timed(id)'
  <2>1. Ordered(id) /\ Held(id) /\ Left(id) BY DEF TimesInv, Timed
  <2>2. Ordered(id)' BY <2>1 DEF Ordered
  <2>3. Held(id)' BY <2>1 DEF Held
  <2>4. Left(id)' BY <2>1 DEF Left
  <2>5. QED BY <2>2, <2>3, <2>4 DEF Timed
<1>3. QED BY <1>1, <1>2 DEF TimesInv

\* A question is none of the missions' business.
LEMMA OnLoginTimes == ASSUME TInv, OnLogin PROVE TimesInv'
<1>1. PICK r : r = <<LoadData>> OBVIOUS
<1>2. r \in Seq(StatementSet)
  <2>1. LoadData \in StatementSet BY DEF LoadData, StatementSet
  <2>2. QED BY <1>1, <2>1
<1>3. /\ queue' = queue \o r /\ state = "out" /\ state' = "load"
      /\ UNCHANGED <<now, processTime, login, mission, db, lost>>
  BY <1>1 DEF OnLogin, Send
<1>4. queue \in Seq(StatementSet) BY TimesBefore
<1>5. \A id \in Mission :
        /\ \A t : Ends(id, db'.row, queue', t) => Ends(id, db.row, queue, t)
        /\ \A t : NoLater(id, db.row, queue, t) => NoLater(id, db'.row, queue', t)
        /\ InOrder(id, db.row, queue) => InOrder(id, db'.row, queue')
  <2> SUFFICES ASSUME NEW id \in Mission
               PROVE  /\ \A t : Ends(id, db.row, queue \o r, t) => Ends(id, db.row, queue, t)
                      /\ \A t : NoLater(id, db.row, queue, t) => NoLater(id, db.row, queue \o r, t)
                      /\ InOrder(id, db.row, queue) => InOrder(id, db.row, queue \o r)
    BY <1>3
  <2>1. Quiet(id, r) BY <1>1, LoginSays
  <2>2. QED BY <1>2, <1>4, <2>1, QuietTail
<1>6. \A o : Seen(db', queue', o) => Seen(db, queue, o)
  <2>1. \A o : ~Tells(r, o) BY <1>1, LoginSays
  <2>2. \A o : Tells(queue \o r, o) => Tells(queue, o) BY <1>2, <1>4, <2>1, TellsConcat
  <2>3. QED BY <1>3, <2>2 DEF Seen
<1>7. Clock' BY <1>3 DEF TInv, TimesInv, Clock
<1>8. TimesInv BY DEF TInv
<1>9. QED BY <1>3, <1>5, <1>6, <1>7, <1>8, Fewer

\* Who goes has his rows saved as they are, and when he was seen.
LEMMA OnLoginOutTimes == ASSUME MissionsAssumption, TInv, OnLoginOut PROVE TimesInv'
<1>1. state' = "out" /\ UNCHANGED <<now, processTime, login, db, lost>> BY DEF OnLoginOut
<1>2. Clock' BY <1>1 DEF TInv, TimesInv, Clock
<1>3. TimesInv BY DEF TInv
<1>4. CASE state # "playing"
  <2>1. queue' = queue
    <3>1. queue' = queue \o <<>> BY <1>4 DEF OnLoginOut, Send
    <3>2. QED BY <3>1, TimesBefore, ConcatEmptySeq
  <2>2. QED BY <1>1, <1>2, <1>3, <1>4, <2>1, Fewer
<1>5. CASE state = "playing"
  <2>1. PICK a, b : a = SaveMiss(mission) /\ b = <<LoginInfo(login)>> OBVIOUS
  <2>2. /\ mission \in [Mission -> LiveSet] /\ Writable(mission) /\ DOMAIN mission = Mission
    BY <1>5, TimesBefore, PlayerSaves
  <2>3. a \in Seq(StatementSet) BY <2>1, <2>2, SaveTyped
  <2>4. b \in Seq(StatementSet)
    <3>1. LoginInfo(login) \in StatementSet BY TimesBefore DEF LoginInfo, StatementSet
    <3>2. QED BY <2>1, <3>1
  <2>5. queue \in Seq(StatementSet) BY TimesBefore
  <2>6. PICK c \in Seq(StatementSet) : c = queue \o a BY <2>3, <2>5, ConcatProperties
  <2>7. queue' = c \o b
    <3>1. queue' = queue \o (a \o b) BY <1>5, <2>1 DEF OnLoginOut, Send
    <3>2. (queue \o a) \o b = queue \o (a \o b) BY <2>3, <2>4, <2>5, InTurn, Zenon
    <3>3. QED BY <2>6, <3>1, <3>2
  <2>8. \A o : Seen(db', queue', o) => Seen(db, queue, o) \/ o = login.offline_time
    <3>1. \A o : Tells(b, o) <=> o = login.offline_time BY <2>1, TimesBefore, LoginSays
    <3>2. Mission = {} \/ \A o : ~Tells(a, o) BY <2>1, <2>2, SaveSays
    <3>3. Mission = {} => \A o : ~Tells(a, o)
      <4>1. Mission = {} => a = <<>> BY <2>1, <2>2 DEF SaveMiss, Some
      <4>2. QED BY <4>1, NoneSays
    <3>4. \A o : Tells(c \o b, o) <=> Tells(queue, o) \/ Tells(a, o) \/ Tells(b, o)
      BY <2>3, <2>4, <2>5, <2>6, TellsConcat
    <3>5. QED BY <1>1, <2>7, <3>1, <3>2, <3>3, <3>4 DEF Seen
  <2>9. \A o \in Nat : Seen(db', queue', o) => o <= login.offline_time /\ o <= now
    <3>1. \A o \in Nat : Seen(db, queue, o) => o <= login.offline_time
      BY <1>5 DEF TInv, TimesInv, SeenBefore
    <3>2. login.offline_time \in Nat /\ now \in Nat /\ login.offline_time <= now
      BY <1>5, TimesBefore
    <3>3. QED BY <2>8, <3>1, <3>2
  <2>10. SeenBefore' BY <1>1, <2>9 DEF SeenBefore
  <2>11. ASSUME NEW id \in Mission PROVE Timed(id)'
    <3>1. /\ Ordered(id) /\ Held(id) BY TimesBefore DEF Timed
    <3>2. PICK u \in Nat : u = mission[id].ptime BY <1>5, TimesBefore
    <3>3. Quiet(id, b) BY <2>1, TimesBefore, LoginSays
    <3>4. /\ \A t : Ends(id, db.row, c \o b, t) <=> Ends(id, db.row, c, t)
          /\ \A t : NoLater(id, db.row, c \o b, t) <=> NoLater(id, db.row, c, t)
          /\ InOrder(id, db.row, c \o b) <=> InOrder(id, db.row, c)
      BY <2>4, <3>3, QuietTail
    <3>5. u <= now /\ now \in Nat /\ login.offline_time \in Nat BY <1>5, <3>1, <3>2, TimesBefore DEF Held
    <3>6. /\ NoLater(id, db.row, c, now) /\ InOrder(id, db.row, c)
          /\ id \notin lost => \A t \in Nat : Ends(id, db.row, c, t) => t \in {0, u}
      <4>1. CASE mission[id].update = "none"
        <5>1. Quiet(id, a) BY <2>1, <2>2, <4>1, SaveSays
        <5>2. /\ \A t : Ends(id, db.row, c, t) <=> Ends(id, db.row, queue, t)
              /\ \A t : NoLater(id, db.row, c, t) <=> NoLater(id, db.row, queue, t)
              /\ InOrder(id, db.row, c) <=> InOrder(id, db.row, queue)
          BY <2>3, <2>5, <2>6, <5>1, QuietTail
        <5>3. QED BY <1>5, <3>1, <3>2, <4>1, <5>2 DEF Ordered, Held
      <4>2. CASE mission[id].update # "none"
        <5>1. Once(id, a, u) BY <2>1, <2>2, <3>2, <4>2, SaveSays
        <5>2. NoLater(id, db.row, queue, u) BY <1>5, <3>1, <3>2, <4>2 DEF Held
        <5>3. /\ \A t : Ends(id, db.row, c, t) <=> t = u
              /\ \A t : NoLater(id, db.row, c, t) <=> NoLater(id, db.row, queue, t) /\ u <= t
              /\ InOrder(id, db.row, c)
          BY <2>3, <2>5, <2>6, <3>1, <5>1, <5>2, RowTail DEF Ordered
        <5>4. QED BY <3>1, <3>5, <5>3 DEF Ordered
      <4>3. QED BY <4>1, <4>2
    <3>7. Ordered(id)' BY <1>1, <2>7, <3>4, <3>6 DEF Ordered
    <3>8. Held(id)' BY <1>1 DEF Held
    <3>9. ASSUME id \notin lost, NEW t \in Nat, NEW o \in Nat, t \in {0, u}, o <= login.offline_time
          PROVE  Within(id, o, t)
      <4>1. Within(id, login.offline_time, u) BY <1>5, <3>1, <3>2, <3>9 DEF Held
      <4>2. PICK k : k = Cfg[id].cycle OBVIOUS
      <4>3. Cycle(k, o) \in Nat /\ Cycle(k, login.offline_time) \in Nat
            /\ Cycle(k, o) <= Cycle(k, login.offline_time)
        BY <3>5, <3>9, CycleUp
      <4>4. Cycle(k, u) \in Nat BY CycleUp
      <4>5. CASE t = 0 BY <4>5 DEF Within
      <4>6. CASE t = u BY <4>1, <4>2, <4>3, <4>4, <4>6 DEF Within
      <4>7. QED BY <3>9, <4>5, <4>6
    <3>10. Left(id)' BY <1>1, <2>7, <2>9, <3>4, <3>6, <3>9 DEF Left
    <3>11. QED BY <3>7, <3>8, <3>10 DEF Timed
  <2>12. QED BY <1>2, <2>10, <2>11 DEF TimesInv
<1>6. QED BY <1>4, <1>5

\* A game notes and marks what it moves; what is saved has no mark, and its time.
LEMMA ActTimes ==
  ASSUME now \in Nat, NEW ms \in [Mission -> LiveSet], NEW type, NEW value \in {0, 1},
         NEW id \in Mission
  PROVE  Kept(ms[id], ActMission(ms, type, value)[id])
<1>1. PICK m \in LiveSet : m = ms[id] OBVIOUS
<1>2. PICK c : c = Counted(m, value) OBVIOUS
<1>3. c \in LiveSet /\ c.update = "update" BY <1>2, CountedOf
<1>4. c.ptime = now
  <2>1. PICK d : d = [m EXCEPT !.rtimes = IF value = 0 THEN 0 ELSE @ + value, !.ptime = now] OBVIOUS
  <2>2. d.ptime = now /\ c = Marked(d) BY <1>2, <2>1 DEF Counted, LiveSet, RowSet
  <2>3. DOMAIN d = {"rtimes", "ctimes", "ptime", "update", "given"} BY <2>1 DEF LiveSet, RowSet
  <2>4. QED BY <2>2, <2>3 DEF Marked
<1>5. PICK w : w = RewardMission(c) OBVIOUS
<1>6. w.update = "update" BY <1>3, <1>5, RewardOf
<1>7. w.ptime = now
  <2>1. PICK d : d = [c EXCEPT !.rtimes = 0, !.ctimes = @ + 1, !.given = @ + 1] OBVIOUS
  <2>2. d.ptime = now /\ w = Marked(d) BY <1>3, <1>4, <1>5, <2>1 DEF RewardMission, LiveSet, RowSet
  <2>3. DOMAIN d = {"rtimes", "ctimes", "ptime", "update", "given"} BY <1>3, <2>1 DEF LiveSet, RowSet
  <2>4. QED BY <2>2, <2>3 DEF Marked
<1>8. ActMission(ms, type, value)[id] \in {m, c, w}
  BY <1>1, <1>2, <1>5 DEF ActMission, Acted
<1>9. QED BY <1>1, <1>3, <1>4, <1>6, <1>7, <1>8 DEF Kept

\* What is saved keeps its time.
LEMMA SavedTimes ==
  ASSUME NEW ms, NEW id \in DOMAIN ms, ms[id] \in RowSet, ms[id].update # "delete"
  PROVE  Saved(ms)[id].ptime = ms[id].ptime /\ Saved(ms)[id].update = "none"
<1>1. Saved(ms)[id] = AsSaved(ms[id]) BY DEF Saved
<1>2. QED BY <1>1 DEF AsSaved, RowSet

\* The rows of a game are saved as they are, after those of before.
LEMMA ReportTimes ==
  ASSUME MissionsAssumption, TInv, NEW win \in {0, 1}, ReportGameResult(win) PROVE TimesInv'
<1>1. /\ state = "playing" /\ mission \in [Mission -> LiveSet] /\ queue \in Seq(StatementSet)
      /\ now \in Nat /\ now >= 1 /\ login.offline_time \in Nat /\ login.offline_time <= now
  BY TimesBefore DEF ReportGameResult
<1>2. PICK played : played = ActMission(mission, "play", 1) OBVIOUS
<1>3. PICK acted : acted = ActMission(played, "win", win) OBVIOUS
<1>4. played \in [Mission -> LiveSet] /\ acted \in [Mission -> LiveSet]
  <2>1. played \in [Mission -> LiveSet] BY <1>1, <1>2, ActOf
  <2>2. QED BY <1>1, <1>3, <2>1, ActOf
<1>5. \A id \in Mission : Kept(mission[id], acted[id])
  <2> SUFFICES ASSUME NEW id \in Mission PROVE Kept(mission[id], acted[id]) OBVIOUS
  <2>1. Kept(mission[id], played[id]) BY <1>1, <1>2, ActTimes
  <2>2. Kept(played[id], acted[id]) BY <1>1, <1>3, <1>4, ActTimes
  <2>3. QED BY <2>1, <2>2 DEF Kept
<1>6. PICK a, b, c : /\ a = Prizes(mission, played) /\ b = Prizes(played, acted)
                     /\ c = SaveMiss(acted)
  OBVIOUS
<1>7. Writable(acted) /\ DOMAIN acted = Mission BY <1>4, PlayerSaves
<1>8. a \in Seq(StatementSet) /\ b \in Seq(StatementSet) /\ c \in Seq(StatementSet)
  BY <1>1, <1>4, <1>6, <1>7, PrizesTyped, SaveTyped
<1>9. PICK d \in Seq(StatementSet) : d = a \o b BY <1>8, ConcatProperties
<1>10. PICK q \in Seq(StatementSet) : q = queue \o d BY <1>1, ConcatProperties
<1>11. /\ queue' = q \o c /\ mission' = Saved(acted)
       /\ UNCHANGED <<now, processTime, state, login, db, crashes, lost, torn>>
  <2>1. queue' = queue \o (d \o c) BY <1>2, <1>3, <1>6, <1>9 DEF ReportGameResult, Send
  <2>2. (queue \o d) \o c = queue \o (d \o c)
    <3>1. d \in Seq(StatementSet) BY <1>9
    <3>2. queue \in Seq(StatementSet) BY <1>1
    <3>3. c \in Seq(StatementSet) BY <1>8
    <3>4. QED BY <3>1, <3>2, <3>3, InTurn, Zenon
  <2>3. QED BY <1>2, <1>3, <1>10, <2>1, <2>2 DEF ReportGameResult
<1>12. Clock' BY <1>11 DEF TInv, TimesInv, Clock
<1>13. \A id : Quiet(id, d) /\ \A o : ~Tells(d, o)
  <2>1. \A id : Quiet(id, a) /\ \A o : ~Tells(a, o) BY <1>1, <1>6, PrizesSay
  <2>2. \A id : Quiet(id, b) /\ \A o : ~Tells(b, o) BY <1>4, <1>6, PrizesSay
  <2>3. \A id : Quiet(id, d) BY <1>8, <1>9, <2>1, <2>2, SaysConcat
  <2>4. \A o : ~Tells(d, o) BY <1>8, <1>9, <2>1, <2>2, TellsConcat
  <2>5. QED BY <2>3, <2>4
<1>14. \A o : Tells(queue', o) => Tells(queue, o)
  <2>1. \A o : ~Tells(c, o)
    <3>1. Mission = {} => c = <<>> BY <1>6, <1>7 DEF SaveMiss, Some
    <3>2. Mission # {} => \A o : ~Tells(c, o) BY <1>6, <1>7, SaveSays
    <3>3. QED BY <3>1, <3>2, NoneSays
  <2>2. \A o : Tells(q, o) => Tells(queue, o) BY <1>1, <1>10, <1>13, TellsConcat
  <2>3. \A o : Tells(q \o c, o) => Tells(q, o) BY <1>8, <2>1, TellsConcat
  <2>4. QED BY <1>11, <2>2, <2>3
<1>15. SeenBefore' BY <1>11, <1>14 DEF TInv, TimesInv, SeenBefore, Seen
<1>16. ASSUME NEW id \in Mission PROVE Timed(id)'
  <2>1. Ordered(id) /\ Held(id) BY TimesBefore DEF Timed
  <2>2. /\ \A t : Ends(id, db.row, q, t) <=> Ends(id, db.row, queue, t)
        /\ \A t : NoLater(id, db.row, q, t) <=> NoLater(id, db.row, queue, t)
        /\ InOrder(id, db.row, q) <=> InOrder(id, db.row, queue)
    BY <1>1, <1>9, <1>10, <1>13, QuietTail
  <2>3. acted[id] \in LiveSet /\ acted[id] \in RowSet /\ acted[id].update # "delete"
    BY <1>4 DEF LiveSet
  <2>4. PICK u \in Nat, v \in Nat : u = mission[id].ptime /\ v = acted[id].ptime
    BY <1>1, <2>3 DEF LiveSet, RowSet
  <2>5. mission'[id].ptime = v /\ mission'[id].update = "none"
    BY <1>7, <1>11, <2>3, <2>4, SavedTimes
  <2>6. Kept(mission[id], acted[id]) /\ u <= now BY <1>1, <1>5, <2>1, <2>4 DEF Held
  <2>7. v <= now /\ v \in {u, now}
    <3>1. v = u \/ v = now BY <2>4, <2>6 DEF Kept
    <3>2. QED BY <1>1, <2>6, <3>1
  <2>8. /\ NoLater(id, db.row, q \o c, now) /\ InOrder(id, db.row, q \o c)
        /\ id \notin lost \/ v = now => \A t \in Nat : Ends(id, db.row, q \o c, t) => t \in {0, v}
    <3>1. CASE acted[id].update = "none"
      <4>1. Quiet(id, c) BY <1>6, <1>7, <3>1, SaveSays
      <4>2. /\ \A t : Ends(id, db.row, q \o c, t) <=> Ends(id, db.row, q, t)
            /\ \A t : NoLater(id, db.row, q \o c, t) <=> NoLater(id, db.row, q, t)
            /\ InOrder(id, db.row, q \o c) <=> InOrder(id, db.row, q)
        BY <1>8, <4>1, QuietTail
      <4>3. v = u /\ mission[id].update = "none" BY <2>4, <2>6, <3>1 DEF Kept
      <4>4. QED BY <1>1, <2>1, <2>2, <2>4, <4>2, <4>3 DEF Ordered, Held
    <3>2. CASE acted[id].update # "none"
      <4>1. Once(id, c, v) BY <1>6, <1>7, <2>4, <3>2, SaveSays
      <4>2. NoLater(id, db.row, queue, v)
        <5>1. CASE v = now BY <2>1, <5>1 DEF Ordered
        <5>2. CASE v # now
          <6>1. v = u /\ mission[id].update # "none" BY <2>4, <2>6, <3>2, <5>2 DEF Kept
          <6>2. QED BY <1>1, <2>1, <2>4, <6>1 DEF Held
        <5>3. QED BY <5>1, <5>2
      <4>3. /\ \A t : Ends(id, db.row, q \o c, t) <=> t = v
            /\ \A t : NoLater(id, db.row, q \o c, t) <=> NoLater(id, db.row, q, t) /\ v <= t
            /\ InOrder(id, db.row, q \o c)
        <5>1. InOrder(id, db.row, q) /\ NoLater(id, db.row, q, v) BY <2>1, <2>2, <4>2 DEF Ordered
        <5>2. QED BY <1>8, <4>1, <5>1, RowTail
      <4>4. QED BY <2>1, <2>2, <2>7, <4>3 DEF Ordered
    <3>3. QED BY <3>1, <3>2
  <2>9. Ordered(id)' BY <1>11, <2>8 DEF Ordered
  <2>10. id \notin lost => Within(id, login.offline_time, v)
    <3>1. CASE v = u BY <1>1, <2>1, <2>4, <3>1 DEF Held
    <3>2. CASE v = now BY <1>1, <3>2, CycleUp DEF Within
    <3>3. QED BY <2>7, <3>1, <3>2
  <2>11. Held(id)' BY <1>11, <2>5, <2>7, <2>8, <2>10 DEF Held
  <2>12. Left(id)' BY <1>1, <1>11 DEF Left
  <2>13. QED BY <2>9, <2>11, <2>12 DEF Timed
<1>17. QED BY <1>12, <1>15, <1>16 DEF TimesInv

\* What the tick makes of a player's times.
LEMMA TickTurns ==
  ASSUME MissionsAssumption, TInv, OnTimeTick, state = "playing"
  PROVE  /\ login'.offline_time = now
         /\ \A id \in Mission : /\ Kept(mission[id], mission'[id])
                                /\ Due(id, login.offline_time, mission'[id])
         /\ \E r \in Seq(StatementSet) :
              /\ queue' = queue \o r /\ \A id : Quiet(id, r)
              /\ \A o : Tells(r, o) => o \in {login.offline_time, now}
<1> DEFINE newDay == processTime # 0 /\ Day(processTime) # Day(now)
           reset == IsNeedReset(login.offline_time, now)
           p == [login |-> login, mission |-> mission]
           daily == If(reset, DailyCleanup(p, 1), p)
           online == [daily EXCEPT !.login.offline_time = now]
           isWeek == newDay /\ Day(now) % DaysPerWeek = 0
           weekly == If(isWeek, WeeklyCleanup(online), online)
           isMonth == newDay /\ Day(now) % DaysPerMonth = 0
           monthly == If(isMonth, MonthlyCleanup(weekly), weekly)
<1>1. /\ login' = monthly.login /\ mission' = monthly.mission
      /\ queue' = queue \o (If(reset, <<LoginInfo(daily.login)>>, <<>>)
                            \o If(newDay, <<LoginInfo(monthly.login)>>, <<>>))
  BY DEF OnTimeTick, Send
<1>2. PICK o \in Nat : o = login.offline_time BY TimesBefore
<1>3. now \in Nat /\ now >= 1 /\ o <= now BY <1>2, TimesBefore
<1>4. p \in PlayerSet /\ p.mission = mission /\ p.login = login
  BY TimesBefore DEF PlayerSet
<1>5. o # now => /\ now = o + 1
                 /\ Week(now) # Week(o) => isWeek
                 /\ Month(now) # Month(o) => isMonth
  <2> SUFFICES ASSUME o # now
               PROVE  now = o + 1 /\ (Week(now) # Week(o) => isWeek)
                                  /\ (Month(now) # Month(o) => isMonth)
    OBVIOUS
  <2>1. o = now - 1 /\ o >= 1 /\ processTime = o BY <1>2 DEF TInv, TimesInv, Clock
  <2>2. now = o + 1 /\ processTime # 0 BY <1>3, <2>1
  <2>3. QED BY <2>1, <2>2, TurnOf
<1> HIDE DEF p, newDay, isWeek, isMonth
<1>6. Turned(p, daily) /\ (IsNeedReset(o, now) =>
                             \A id \in Mission : Cfg[id].cycle = "day" => Fresh(daily.mission[id]))
  <2>1. PICK d : d = DailyCleanup(p, 1) OBVIOUS
  <2>2. Turned(p, d) /\ \A id \in Mission : Cfg[id].cycle = "day" => Fresh(d.mission[id])
    BY <1>3, <1>4, <2>1, CleanupTimes
  <2>3. Turned(p, p) BY <1>4, TurnedSteps
  <2>4. daily = IF IsNeedReset(o, now) THEN d ELSE p BY <1>2, <2>1 DEF If
  <2> HIDE DEF daily
  <2>5. QED BY <2>2, <2>3, <2>4
<1> HIDE DEF daily
<1>7. daily \in PlayerSet BY <1>6 DEF Turned
<1>8. /\ online \in PlayerSet /\ online.mission = daily.mission /\ online.login.offline_time = now
  BY <1>3, <1>7, NotedTimes, SeenOf DEF Cleaned
<1> HIDE DEF online
<1>9. /\ Turned(online, weekly)
      /\ isWeek => \A id \in Mission : Cfg[id].cycle = "week" => Fresh(weekly.mission[id])
  <2>1. PICK w : w = WeeklyCleanup(online) OBVIOUS
  <2>2. Turned(online, w) /\ \A id \in Mission : Cfg[id].cycle = "week" => Fresh(w.mission[id])
    BY <1>3, <1>8, <2>1, CleanupTimes
  <2>3. Turned(online, online) BY <1>8, TurnedSteps
  <2>4. weekly = IF isWeek THEN w ELSE online BY <2>1 DEF If
  <2> HIDE DEF weekly
  <2>5. QED BY <2>2, <2>3, <2>4
<1> HIDE DEF weekly
<1>10. /\ Turned(weekly, monthly)
       /\ isMonth => \A id \in Mission : Cfg[id].cycle = "month" => Fresh(monthly.mission[id])
  <2>0. weekly \in PlayerSet BY <1>9 DEF Turned
  <2>1. PICK w : w = MonthlyCleanup(weekly) OBVIOUS
  <2>2. Turned(weekly, w) /\ \A id \in Mission : Cfg[id].cycle = "month" => Fresh(w.mission[id])
    BY <1>3, <2>0, <2>1, CleanupTimes
  <2>3. Turned(weekly, weekly) BY <2>0, TurnedSteps
  <2>4. monthly = IF isMonth THEN w ELSE weekly BY <2>1 DEF If
  <2> HIDE DEF monthly
  <2>5. QED BY <2>2, <2>3, <2>4
<1> HIDE DEF monthly
<1>11. Turned(online, monthly) BY <1>9, <1>10, TurnedSteps
<1>12. monthly.login.offline_time = now /\ monthly \in PlayerSet BY <1>8, <1>11 DEF Turned
<1>13. ASSUME NEW id \in Mission PROVE Kept(mission[id], monthly.mission[id])
  <2>1. Kept(mission[id], online.mission[id]) BY <1>4, <1>6, <1>8 DEF Turned
  <2>2. Kept(online.mission[id], monthly.mission[id]) BY <1>11 DEF Turned
  <2>3. QED BY <2>1, <2>2 DEF Kept
<1>14. ASSUME NEW id \in Mission PROVE Due(id, o, monthly.mission[id])
  <2>1. Fresh(daily.mission[id]) => Fresh(monthly.mission[id]) BY <1>8, <1>11, TurnedSteps
  <2>2. Fresh(weekly.mission[id]) => Fresh(monthly.mission[id]) BY <1>10, TurnedSteps
  <2>3. PICK c \in {"day", "week", "month", "never"} : c = Cfg[id].cycle BY DEF MissionsAssumption
  <2>4. PICK a \in Nat, b \in Nat : a = Cycle(c, o) /\ b = Cycle(c, now) BY <1>3, CycleUp
  <2>5. a = b => Due(id, o, monthly.mission[id]) BY <2>3, <2>4 DEF Due
  <2>6. CASE o = now BY <2>4, <2>5, <2>6
  <2>7. CASE c = "never" BY <2>4, <2>5, <2>7 DEF Cycle
  <2>8. CASE c = "day"
    <3>1. CASE IsNeedReset(o, now) BY <1>6, <2>1, <2>3, <2>8, <3>1 DEF Due
    <3>2. CASE ~IsNeedReset(o, now)
      <4>1. GameDay(o) = GameDay(now) BY <1>3, <3>2, NotReset
      <4>2. QED BY <2>4, <2>5, <2>8, <4>1 DEF Cycle
    <3>3. QED BY <3>1, <3>2
  <2>9. CASE c = "week" /\ o # now
    <3>1. CASE isWeek BY <1>9, <2>2, <2>3, <2>9, <3>1 DEF Due
    <3>2. CASE ~isWeek BY <1>5, <2>4, <2>5, <2>9, <3>2 DEF Cycle
    <3>3. QED BY <3>1, <3>2
  <2>10. CASE c = "month" /\ o # now
    <3>1. CASE isMonth BY <1>10, <2>3, <2>10, <3>1 DEF Due
    <3>2. CASE ~isMonth BY <1>5, <2>4, <2>5, <2>10, <3>2 DEF Cycle
    <3>3. QED BY <3>1, <3>2
  <2>11. QED BY <2>6, <2>7, <2>8, <2>9, <2>10
<1>15. PICK a, b : /\ a = If(reset, <<LoginInfo(daily.login)>>, <<>>)
                   /\ b = If(newDay, <<LoginInfo(monthly.login)>>, <<>>)
  OBVIOUS
<1>16. /\ daily.login \in LoginSet /\ daily.login.offline_time = o
       /\ monthly.login \in LoginSet /\ monthly.login.offline_time = now
  BY <1>2, <1>4, <1>6, <1>12 DEF Turned, PlayerSet
<1>17. ASSUME NEW l \in LoginSet, NEW cond, NEW s, s = If(cond, <<LoginInfo(l)>>, <<>>)
       PROVE  /\ s \in Seq(StatementSet) /\ \A id : Quiet(id, s)
              /\ \A t : Tells(s, t) => t = l.offline_time
  <2>1. LoginInfo(l) \in StatementSet BY DEF LoginInfo, StatementSet
  <2>2. <<LoginInfo(l)>> \in Seq(StatementSet) /\ <<>> \in Seq(StatementSet) BY <2>1
  <2>3. s = <<LoginInfo(l)>> \/ s = <<>> BY <1>17 DEF If
  <2>4. \A id : Quiet(id, <<LoginInfo(l)>>) /\ Quiet(id, <<>>) BY LoginSays, NoneSays
  <2>5. \A t : Tells(<<LoginInfo(l)>>, t) => t = l.offline_time BY LoginSays
  <2>6. \A t : ~Tells(<<>>, t) BY NoneSays
  <2>7. s \in Seq(StatementSet) BY <2>2, <2>3, Zenon
  <2>8. \A id : Quiet(id, s) BY <2>3, <2>4, Zenon
  <2>9. \A t : Tells(s, t) => t = l.offline_time BY <2>3, <2>5, <2>6, Zenon
  <2>10. QED BY <2>7, <2>8, <2>9
<1>18. /\ a \in Seq(StatementSet) /\ \A id : Quiet(id, a) /\ \A t : Tells(a, t) => t = o
  BY <1>15, <1>16, <1>17
<1>19. /\ b \in Seq(StatementSet) /\ \A id : Quiet(id, b) /\ \A t : Tells(b, t) => t = now
  BY <1>15, <1>16, <1>17
<1>20. PICK r \in Seq(StatementSet) : r = a \o b BY <1>18, <1>19, ConcatProperties
<1>21. \A id : Quiet(id, r) BY <1>18, <1>19, <1>20, SaysConcat
<1>22. \A t : Tells(r, t) => t \in {o, now} BY <1>18, <1>19, <1>20, TellsConcat
<1>23. queue' = queue \o r BY <1>1, <1>15, <1>20
<1>24. QED BY <1>1, <1>2, <1>12, <1>13, <1>14, <1>21, <1>22, <1>23

\* The tick keeps the times: what turned since the last one is reset.
LEMMA OnTimeTickTimes == ASSUME MissionsAssumption, TInv, OnTimeTick PROVE TimesInv'
<1>1. UNCHANGED <<now, state, db>> /\ processTime' = now BY DEF OnTimeTick
<1>2. TimesInv BY DEF TInv
<1>3. CASE state # "playing"
  <2>1. UNCHANGED <<mission, login, queue, lost>> BY <1>3 DEF OnTimeTick
  <2>2. Clock' BY <1>1, <1>2, <1>3 DEF TimesInv, Clock
  <2>3. QED BY <1>1, <1>2, <1>3, <2>1, <2>2, Fewer
<1>4. CASE state = "playing"
  <2>1. /\ login'.offline_time = now
        /\ \A id \in Mission : /\ Kept(mission[id], mission'[id])
                               /\ Due(id, login.offline_time, mission'[id])
    BY <1>4, TickTurns
  <2>2. PICK r \in Seq(StatementSet) :
          /\ queue' = queue \o r /\ \A id : Quiet(id, r)
          /\ \A o : Tells(r, o) => o \in {login.offline_time, now}
    BY <1>4, TickTurns
  <2>3. /\ queue \in Seq(StatementSet) /\ now \in Nat /\ now >= 1 /\ login.offline_time \in Nat
        /\ login.offline_time <= now /\ mission \in [Mission -> LiveSet]
    BY <1>4, TimesBefore
  <2>4. lost' = StillLost(mission') BY <1>4 DEF OnTimeTick
  <2>5. Clock' BY <1>1, <2>1, <2>3 DEF Clock
  <2>6. SeenBefore'
    <3>1. \A o : Tells(queue \o r, o) => Tells(queue, o) \/ o \in {login.offline_time, now}
      BY <2>2, <2>3, TellsConcat
    <3>2. \A o \in Nat : Seen(db, queue, o) => o <= login.offline_time
      BY <1>2, <1>4 DEF TimesInv, SeenBefore
    <3>3. ASSUME NEW o \in Nat, Seen(db, queue \o r, o) PROVE o <= now
      <4>1. Seen(db, queue, o) \/ o = login.offline_time \/ o = now BY <3>1, <3>3 DEF Seen
      <4>2. o <= login.offline_time \/ o = now BY <2>3, <3>2, <4>1
      <4>3. QED BY <2>3, <4>2
    <3>4. QED BY <1>1, <1>4, <2>1, <2>2, <3>3 DEF SeenBefore
  <2>7. ASSUME NEW id \in Mission PROVE Timed(id)'
    <3>1. Ordered(id) /\ Held(id) BY TimesBefore DEF Timed
    <3>2. /\ \A t : Ends(id, db.row, queue \o r, t) <=> Ends(id, db.row, queue, t)
          /\ \A t : NoLater(id, db.row, queue \o r, t) <=> NoLater(id, db.row, queue, t)
          /\ InOrder(id, db.row, queue \o r) <=> InOrder(id, db.row, queue)
      BY <2>2, <2>3, QuietTail
    <3>3. Ordered(id)' BY <1>1, <2>2, <3>1, <3>2 DEF Ordered
    <3>0. PICK n : n = mission'[id] OBVIOUS
    <3>4. PICK m \in LiveSet : m = mission[id] /\ n = mission'[id] BY <2>3, <3>0
    <3>5. Kept(m, n) /\ Due(id, login.offline_time, n) BY <2>1, <3>4
    <3>6. m.ptime \in Nat /\ m.ptime <= now BY <1>4, <3>1, <3>4 DEF Held, LiveSet, RowSet
    <3>7. n.ptime <= now BY <2>3, <3>5, <3>6 DEF Kept
    <3>8. n.update # "none" => NoLater(id, db.row, queue, n.ptime)
      BY <1>4, <3>1, <3>4, <3>5 DEF Kept, Held, Ordered
    <3>9. id \notin lost' => id \notin lost \/ n.ptime = now
      <4>1. CASE id \in DOMAIN mission' BY <2>4, <3>4, <4>1 DEF StillLost
      <4>2. CASE id \notin DOMAIN mission'
        <5>1. MInv' => mission' \in [Mission -> LiveSet] BY <1>1, <1>4 DEF MInv, MissionsTyped
        <5>2. MInv BY DEF TInv
        <5>3. MInv' BY <5>2, OnTimeTickKeeps
        <5>4. QED BY <4>2, <5>1, <5>3
      <4>3. QED BY <4>1, <4>2
    <3>10. ASSUME n.update = "none", id \notin lost' \/ n.ptime = now,
                  NEW t \in Nat, Ends(id, db.row, queue, t)
           PROVE  t \in {0, n.ptime}
      <4>1. n.ptime = m.ptime /\ m.update = "none" BY <3>5, <3>10 DEF Kept
      <4>2. id \notin lost \/ m.ptime = now BY <3>9, <3>10, <4>1
      <4>3. QED BY <1>4, <3>1, <3>4, <3>10, <4>1, <4>2 DEF Held
    <3>11. ASSUME id \notin lost' PROVE Within(id, now, n.ptime)
      <4>1. CASE n.ptime = now
        <5>1. \A c : Cycle(c, now) <= Cycle(c, now) BY <2>3, CycleUp
        <5>2. QED BY <4>1, <5>1 DEF Within
      <4>2. CASE n.ptime # now
        <5>1. Within(id, login.offline_time, m.ptime)
          BY <1>4, <3>1, <3>4, <3>9, <3>11, <4>2 DEF Held
        <5>2. QED BY <2>3, <3>5, <5>1, WithinAfter
      <4>3. QED BY <4>1, <4>2
    <3>12. Held(id)'
      BY <1>1, <2>1, <2>2, <3>2, <3>4, <3>7, <3>8, <3>10, <3>11 DEF Held
    <3>13. Left(id)' BY <1>1, <1>4 DEF Left
    <3>14. QED BY <3>3, <3>12, <3>13 DEF Timed
  <2>8. QED BY <2>5, <2>6, <2>7 DEF TimesInv
<1>5. QED BY <1>3, <1>4

\* No slot passes without a tick.
LEMMA LaterTimes == ASSUME TInv, Later PROVE TimesInv'
<1>1. /\ now' = now + 1 /\ processTime = now
      /\ UNCHANGED <<processTime, state, login, mission, queue, db, lost>>
  BY DEF Later
<1>2. /\ now \in Nat /\ now >= 1 /\ login.offline_time \in Nat
      /\ state = "playing" => \A id \in Mission : mission[id].ptime \in Nat
  BY TimesBefore
<1>3. TimesInv BY DEF TInv
<1>4. state = "playing" => login.offline_time = now BY <1>1, <1>2, <1>3 DEF TimesInv, Clock
<1>5. Clock' BY <1>1, <1>2, <1>4 DEF Clock
<1>6. SeenBefore'
  <2>1. \A o \in Nat : o <= now => o <= now + 1 BY <1>2
  <2>2. QED BY <1>1, <1>3, <2>1 DEF TimesInv, SeenBefore
<1>7. ASSUME NEW id \in Mission PROVE Timed(id)'
  <2>1. Ordered(id) /\ Held(id) /\ Left(id) BY TimesBefore DEF Timed
  <2>2. NoLater(id, db.row, queue, now + 1)
    <3>1. ASSUME NEW m \in RowSet, m.ptime <= now PROVE m.ptime <= now + 1
      <4>1. m.ptime \in Nat BY DEF RowSet
      <4>2. QED BY <1>2, <3>1, <4>1
    <3>2. \A k \in DOMAIN queue : Of(queue[k], id) => queue[k].rows[id] \in RowSet
      <4> SUFFICES ASSUME NEW k \in DOMAIN queue, Of(queue[k], id)
                   PROVE  queue[k].rows[id] \in RowSet
        OBVIOUS
      <4>1. queue[k] \in StatementSet /\ queue[k].kind = "rows" BY TimesBefore DEF Of
      <4>2. queue[k] \in SavedSet BY <4>1 DEF StatementSet, PrizeSet
      <4>3. QED BY <4>2 DEF SavedSet, Of
    <3>3. id \in DOMAIN db.row => db.row[id] \in RowSet
      <4>1. db.row \in [DOMAIN db.row -> KeptSet] BY TimesBefore, DbParts
      <4>2. QED BY <4>1 DEF KeptSet
    <3>4. NoLater(id, db.row, queue, now) BY <2>1 DEF Ordered
    <3>5. QED BY <3>1, <3>2, <3>3, <3>4 DEF NoLater, Upwards
  <2>3. Ordered(id)' BY <1>1, <2>1, <2>2 DEF Ordered
  <2>4. state = "playing" => mission[id].ptime <= now + 1 /\ mission[id].ptime # now + 1
    BY <1>2, <2>1 DEF Held
  <2>5. Held(id)' BY <1>1, <2>1, <2>4 DEF Held
  <2>6. Left(id)' BY <1>1, <2>1 DEF Left
  <2>7. QED BY <2>3, <2>5, <2>6 DEF Timed
<1>8. QED BY <1>5, <1>6, <1>7 DEF TimesInv

\* After a crash there is what the database has.
LEMMA CrashTimes == ASSUME MissionsAssumption, TInv, Crash PROVE TimesInv'
<1>1. /\ state' = "out" /\ processTime' = 0 /\ queue' = <<>> /\ UNCHANGED <<now, login, db>>
      /\ lost' = lost \cup {id \in Mission : \/ id \in DOMAIN mission /\ mission[id].update # "none"
                                             \/ \E i \in DOMAIN queue :
                                                  queue[i].kind = "rows" /\ id \in DOMAIN queue[i].rows}
  BY DEF Crash
<1>2. now \in Nat /\ now >= 1 /\ db.login.offline_time \in Nat BY TimesBefore
<1>3. Clock' BY <1>1, <1>2 DEF Clock
<1>4. \A o \in Nat : Seen(db, <<>>, o) => Seen(db, queue, o) BY NoneSays DEF Seen
<1>5. \A o \in Nat : Seen(db, queue, o) =>
        o <= now /\ (state = "playing" => o <= login.offline_time)
  <2>1. state = "playing" => login.offline_time \in Nat /\ login.offline_time <= now BY TimesBefore
  <2>2. QED BY <1>2, <2>1 DEF TInv, TimesInv, SeenBefore
<1>6. SeenBefore' BY <1>1, <1>4, <1>5 DEF SeenBefore
<1>7. ASSUME NEW id \in Mission PROVE Timed(id)'
  <2>1. Ordered(id) /\ Held(id) /\ Left(id) BY TimesBefore DEF Timed
  <2>2. Ordered(id)'
    <3>1. NoLater(id, db.row, <<>>, now) BY <2>1 DEF Ordered, NoLater, Upwards
    <3>2. InOrder(id, db.row, <<>>) BY DEF InOrder
    <3>3. QED BY <1>1, <3>1, <3>2 DEF Ordered
  <2>3. Held(id)' BY <1>1 DEF Held
  <2>4. ASSUME id \notin lost', NEW t \in Nat, NEW o \in Nat, Ends(id, db.row, <<>>, t), Seen(db, <<>>, o)
        PROVE  Within(id, o, t)
    <3>1. id \notin lost /\ Quiet(id, queue) BY <1>1, <2>4 DEF Quiet, Of
    <3>2. Ends(id, db.row, queue, t) BY <2>4, <3>1 DEF Ends, Says
    <3>3. Seen(db, queue, o) BY <1>4, <2>4
    <3>4. CASE state # "playing" BY <2>1, <2>4, <3>1, <3>2, <3>3, <3>4 DEF Left
    <3>5. CASE state = "playing"
      <4>1. mission \in [Mission -> LiveSet] /\ login.offline_time \in Nat BY <3>5, TimesBefore
      <4>2. mission[id].update = "none" BY <1>1, <2>4, <4>1
      <4>3. PICK u \in Nat : u = mission[id].ptime BY <3>5, TimesBefore
      <4>4. t \in {0, u} /\ Within(id, login.offline_time, u)
        BY <2>1, <2>4, <3>1, <3>2, <3>5, <4>2, <4>3 DEF Held
      <4>5. o <= login.offline_time BY <1>5, <3>3, <3>5
      <4>6. PICK k : k = Cfg[id].cycle OBVIOUS
      <4>7. /\ Cycle(k, o) \in Nat /\ Cycle(k, login.offline_time) \in Nat
            /\ Cycle(k, o) <= Cycle(k, login.offline_time)
        BY <4>1, <4>5, CycleUp
      <4>8. Cycle(k, u) \in Nat BY CycleUp
      <4>9. CASE t = 0 BY <4>9 DEF Within
      <4>10. CASE t = u BY <4>4, <4>6, <4>7, <4>8, <4>10 DEF Within
      <4>11. QED BY <4>4, <4>9, <4>10
    <3>6. QED BY <3>4, <3>5
  <2>5. Left(id)' BY <1>1, <2>4 DEF Left
  <2>6. QED BY <2>2, <2>3, <2>5 DEF Timed
<1>8. QED BY <1>3, <1>6, <1>7 DEF TimesInv

--------------------------------------------------------------------------------
(* The database keeps the times, and a login takes them over.              *)

\* The first statement is carried out, in whole or in part.
LEMMA FrontFewer ==
  ASSUME TInv, queue # <<>>, UNCHANGED <<now, processTime, state, login, mission, lost>>,
         NEW g \in Seq(StatementSet), queue' = g \o Tail(queue),
         \A id \in Mission :
           /\ \A t : Ends(id, db'.row, g, t) => Ends(id, db.row, <<Head(queue)>>, t)
           /\ \A t : NoLater(id, db.row, <<Head(queue)>>, t) => NoLater(id, db'.row, g, t)
           /\ InOrder(id, db.row, <<Head(queue)>>) => InOrder(id, db'.row, g),
         \A o : Seen(db', g, o) => Seen(db, <<Head(queue)>>, o)
  PROVE  TimesInv'
<1>1. queue \in Seq(StatementSet) BY TimesBefore
<1>2. PICK f, q : f = <<Head(queue)>> /\ q = Tail(queue) OBVIOUS
<1>3. f \in Seq(StatementSet) /\ q \in Seq(StatementSet) /\ queue = f \o q
  BY <1>1, <1>2, HeadAndTail
<1>4. queue' = g \o q BY <1>2
<1>5. PICK new : new = db'.row OBVIOUS
<1>6. ASSUME NEW id \in Mission
      PROVE  /\ \A t : Ends(id, new, g \o q, t) => Ends(id, db.row, f \o q, t)
             /\ \A t : NoLater(id, db.row, f \o q, t) => NoLater(id, new, g \o q, t)
             /\ InOrder(id, db.row, f \o q) => InOrder(id, new, g \o q)
  <2>1. /\ \A t : Ends(id, new, g, t) => Ends(id, db.row, f, t)
        /\ \A t : NoLater(id, db.row, f, t) => NoLater(id, new, g, t)
        /\ InOrder(id, db.row, f) => InOrder(id, new, g)
    BY <1>2, <1>5
  <2>2. QED BY <1>3, <2>1, FrontTimes
<1>7. ASSUME NEW o, Seen(db', queue', o) PROVE Seen(db, queue, o)
  <2>0. Tells(g \o q, o) <=> Tells(g, o) \/ Tells(q, o) BY <1>3, TellsConcat
  <2>1. Seen(db', g, o) \/ Tells(q, o) BY <1>4, <1>7, <2>0 DEF Seen
  <2>2. Seen(db, f, o) \/ Tells(q, o) BY <1>2, <2>1
  <2>3. QED BY <1>3, <2>2, TellsConcat DEF Seen
<1>8. TimesInv BY DEF TInv
<1>9. Clock' BY <1>8 DEF TimesInv, Clock
<1>10. \A id \in Mission :
         /\ \A t : Ends(id, db'.row, queue', t) => Ends(id, db.row, queue, t)
         /\ \A t : NoLater(id, db.row, queue, t) => NoLater(id, db'.row, queue', t)
         /\ InOrder(id, db.row, queue) => InOrder(id, db'.row, queue')
  BY <1>3, <1>4, <1>5, <1>6
<1>11. QED BY <1>7, <1>8, <1>9, <1>10, Fewer

\* What does not concern a mission says nothing of its row.
LEMMA QuietFront ==
  ASSUME NEW id, NEW row, NEW f, NEW g, Quiet(id, f), Quiet(id, g)
  PROVE  /\ \A t : Ends(id, row, g, t) => Ends(id, row, f, t)
         /\ \A t : NoLater(id, row, f, t) => NoLater(id, row, g, t)
         /\ InOrder(id, row, g)
<1>1. \A t : ~Says(id, g, t) BY DEF Quiet, Says
<1>2. \A t : Upwards(id, g, t) BY DEF Quiet, Upwards
<1>3. InOrder(id, row, g) BY DEF Quiet, InOrder
<1>4. QED BY <1>1, <1>2, <1>3 DEF Ends, NoLater

\* One statement or none.
LEMMA SomeSays ==
  ASSUME NEW ids, NEW s \in StatementSet
  PROVE  /\ Some(ids, s) \in Seq(StatementSet)
         /\ \A id : ~Of(s, id) => Quiet(id, Some(ids, s))
         /\ s.kind # "login" => \A o : ~Tells(Some(ids, s), o)
<1>1. Some(ids, s) = <<>> \/ Some(ids, s) = <<s>> BY DEF Some
<1>2. <<s>> \in Seq(StatementSet) /\ <<>> \in Seq(StatementSet) OBVIOUS
<1>3. \A id : Quiet(id, <<>>) /\ (~Of(s, id) => Quiet(id, <<s>>)) BY OneSays, NoneSays
<1>4. s.kind # "login" => \A o : ~Tells(<<>>, o) /\ ~Tells(<<s>>, o) BY OneSays, NoneSays
<1>5. Some(ids, s) \in Seq(StatementSet) BY <1>1, <1>2, Zenon
<1>6. \A id : ~Of(s, id) => Quiet(id, Some(ids, s)) BY <1>1, <1>3, Zenon
<1>7. s.kind # "login" => \A o : ~Tells(Some(ids, s), o) BY <1>1, <1>4, Zenon
<1>8. QED BY <1>5, <1>6, <1>7

\* A prize is none of the times.
LEMMA WritePrizeTimes ==
  ASSUME TInv, WritePrize, UNCHANGED <<now, processTime, state, login, mission, lost>>
  PROVE  TimesInv'
<1>1. queue # <<>> /\ Head(queue).kind = "prize" BY DEF WritePrize, Statement
<1>2. queue \in Seq(StatementSet) BY TimesBefore
<1>3. PICK h \in StatementSet : h = Head(queue) BY <1>1, <1>2, HeadAndTail
<1>4. PICK ids \in SUBSET Mission : ids = h.ids
  <2>1. h \in PrizeSet BY <1>1, <1>3 DEF StatementSet, SavedSet
  <2>2. QED BY <2>1 DEF PrizeSet
<1>5. PICK i \in ids : /\ db' = [db EXCEPT !.paid[i] = @ + 1]
                       /\ queue' = Some(ids \ {i}, [kind |-> "prize", ids |-> ids \ {i}]) \o Tail(queue)
  BY <1>3, <1>4 DEF WritePrize
<1>6. db'.row = db.row /\ db'.login = db.login BY <1>5, TimesBefore DEF DbSet
<1>7. PICK s : s = [kind |-> "prize", ids |-> ids \ {i}] OBVIOUS
<1>8. s \in StatementSet /\ s.kind = "prize" BY <1>7 DEF StatementSet, PrizeSet
<1>9. PICK g : g = Some(ids \ {i}, s) OBVIOUS
<1>10. g \in Seq(StatementSet) /\ (\A id : Quiet(id, g)) /\ \A o : ~Tells(g, o)
  <2>1. \A id : ~Of(s, id) BY <1>8 DEF Of
  <2>2. s.kind # "login" BY <1>8
  <2>3. QED BY <1>8, <1>9, <2>1, <2>2, SomeSays
<1>11. queue' = g \o Tail(queue) BY <1>5, <1>7, <1>9
<1>12. \A id : Quiet(id, <<h>>)
  <2>1. \A id : ~Of(h, id) BY <1>1, <1>3 DEF Of
  <2>2. QED BY <1>3, <2>1, OneSays
<1>13. \A id \in Mission :
         /\ \A t : Ends(id, db'.row, g, t) => Ends(id, db.row, <<Head(queue)>>, t)
         /\ \A t : NoLater(id, db.row, <<Head(queue)>>, t) => NoLater(id, db'.row, g, t)
         /\ InOrder(id, db'.row, g)
  BY <1>3, <1>6, <1>10, <1>12, QuietFront
<1>14. \A o : Seen(db', g, o) => Seen(db, <<Head(queue)>>, o) BY <1>6, <1>10 DEF Seen
<1>15. QED BY <1>1, <1>10, <1>11, <1>13, <1>14, FrontFewer

\* A login is noted, or a question answered that nobody waits for.
LEMMA HeadGoneTimes ==
  ASSUME TInv, UNCHANGED <<now, processTime, state, login, mission, lost>>,
         queue # <<>>, queue' = Tail(queue), db'.row = db.row,
         \/ Head(queue).kind = "load" /\ db'.login = db.login
         \/ Head(queue).kind = "login" /\ db'.login = Head(queue).info
  PROVE  TimesInv'
<1>1. queue \in Seq(StatementSet) BY TimesBefore
<1>2. PICK h \in StatementSet : h = Head(queue) BY <1>1, HeadAndTail
<1>3. \A id : Quiet(id, <<h>>)
  <2>1. \A id : ~Of(h, id) BY <1>2 DEF Of
  <2>2. QED BY <1>2, <2>1, OneSays
<1>4. PICK g : g = <<>> OBVIOUS
<1>5. g \in Seq(StatementSet) /\ (\A id : Quiet(id, g)) /\ \A o : ~Tells(g, o) BY <1>4, NoneSays
<1>6. queue' = g \o Tail(queue)
  <2>1. Tail(queue) \in Seq(StatementSet) BY <1>1, HeadAndTail
  <2>2. QED BY <1>4, <2>1, ConcatEmptySeq
<1>7. \A id \in Mission :
         /\ \A t : Ends(id, db'.row, g, t) => Ends(id, db.row, <<Head(queue)>>, t)
         /\ \A t : NoLater(id, db.row, <<Head(queue)>>, t) => NoLater(id, db'.row, g, t)
         /\ InOrder(id, db'.row, g)
  BY <1>2, <1>3, <1>5, QuietFront
<1>8. \A o : Seen(db', g, o) => Seen(db, <<Head(queue)>>, o)
  <2>1. \A o : Tells(<<h>>, o) <=> h.kind = "login" /\ o = h.info.offline_time BY OneSays
  <2>2. QED BY <1>2, <1>5, <2>1 DEF Seen
<1>9. QED BY <1>5, <1>6, <1>7, <1>8, FrontFewer

\* A row that is written has the time that was sent.
LEMMA WriteRowTimes ==
  ASSUME TInv, WriteRow, UNCHANGED <<now, processTime, state, login, mission, lost>>
  PROVE  TimesInv'
<1>1. queue # <<>> /\ Head(queue).kind = "rows" BY DEF WriteRow, Statement
<1>2. queue \in Seq(StatementSet) /\ db \in DbSet BY TimesBefore
<1>3. PICK h \in StatementSet : h = Head(queue) BY <1>1, <1>2, HeadAndTail
<1>4. PICK rows \in UNION {[D -> RowSet] : D \in SUBSET (Mission \cup Retired)} :
        h = [kind |-> "rows", rows |-> rows]
        /\ \A id \in DOMAIN rows \cap Mission : rows[id] \in WriteSet
  <2>1. h \in SavedSet BY <1>1, <1>3 DEF StatementSet, PrizeSet
  <2>2. QED BY <2>1 DEF SavedSet
<1>5. DOMAIN rows \subseteq Mission \cup Retired /\ rows \in [DOMAIN rows -> RowSet] BY <1>4
<1>6. PICK i \in DOMAIN rows :
        /\ db' = [db EXCEPT !.row = Written(@, i, rows[i])]
        /\ queue' = Some(DOMAIN rows \ {i},
                         [kind |-> "rows", rows |-> [j \in DOMAIN rows \ {i} |-> rows[j]]]) \o Tail(queue)
  <2>1. PICK i \in DOMAIN Head(queue).rows :
          /\ db' = [db EXCEPT !.row = Written(@, i, Head(queue).rows[i])]
          /\ queue' = Some(DOMAIN Head(queue).rows \ {i},
                           [kind |-> "rows",
                            rows |-> [j \in DOMAIN Head(queue).rows \ {i} |-> Head(queue).rows[j]]])
                        \o Tail(queue)
    BY DEF WriteRow
  <2>2. Head(queue).rows = rows BY <1>3, <1>4
  <2>3. QED BY <2>1, <2>2, Zenon
<1>7. PICK left, rest : left = DOMAIN rows \ {i} /\ rest = [j \in left |-> rows[j]] OBVIOUS
<1>8. PICK s : s = [kind |-> "rows", rows |-> rest] OBVIOUS
<1>9. s \in StatementSet
  <2>1. rest \in UNION {[D -> RowSet] : D \in SUBSET (Mission \cup Retired)}
    <3>1. rest \in [left -> RowSet] /\ left \subseteq Mission \cup Retired BY <1>5, <1>7
    <3>2. QED BY <3>1
  <2>2. \A id \in DOMAIN rest \cap Mission : rest[id] \in WriteSet BY <1>4, <1>7
  <2>3. QED BY <1>8, <2>1, <2>2 DEF StatementSet, SavedSet
<1>10. PICK m \in RowSet : m = rows[i] BY <1>5
<1>11. PICK new : new = Written(db.row, i, m) OBVIOUS
<1>12. db.row \in [DOMAIN db.row -> KeptSet] /\ DOMAIN db.row \subseteq Mission \cup Retired
  BY <1>2, DbParts
<1>13. \A id \in Mission \ {i} : /\ id \in DOMAIN new <=> id \in DOMAIN db.row
                                 /\ id \in DOMAIN db.row => new[id] = db.row[id]
  BY <1>5, <1>11, <1>12, WrittenOf
<1>14. m.update # "delete" /\ i \in DOMAIN new => new[i].ptime = m.ptime
  <2>0. AsSaved(m).ptime = m.ptime
    <3>1. m \in RowSet BY <1>10
    <3>2. QED BY <3>1 DEF AsSaved, RowSet
  <2>1. PICK a : a = AsSaved(m) /\ a.ptime = m.ptime BY <2>0
  <2>2. CASE m.update = "insert"
    <3>1. new = [j \in DOMAIN db.row \cup {i} |-> IF j = i THEN a ELSE db.row[j]]
      BY <1>11, <2>1, <2>2 DEF Written
    <3>2. QED BY <2>1, <3>1
  <2>3. CASE m.update \notin {"delete", "insert"}
    <3>1. new = IF i \in DOMAIN db.row THEN [db.row EXCEPT ![i] = a] ELSE db.row
      BY <1>11, <2>1, <2>3 DEF Written
    <3>2. QED BY <1>12, <2>1, <3>1
  <2>4. QED BY <2>2, <2>3
<1>15. db'.row = new /\ db'.login = db.login
  <2>1. db' = [db EXCEPT !.row = new] BY <1>6, <1>10, <1>11
  <2>2. QED BY <1>2, <2>1 DEF DbSet
<1>16. PICK g : g = Some(left, s) OBVIOUS
<1>17. queue' = g \o Tail(queue) BY <1>6, <1>7, <1>8, <1>16
<1>18. s.kind = "rows" /\ s.rows = rest /\ DOMAIN rest = left BY <1>7, <1>8
<1>19. g \in Seq(StatementSet) /\ \A o : ~Tells(g, o)
  <2>1. s.kind # "login" BY <1>18
  <2>2. QED BY <1>9, <1>16, <2>1, SomeSays
<1>20. PICK f : f = <<h>> OBVIOUS
<1>21. ASSUME NEW id \in Mission
       PROVE  /\ \A t : Ends(id, new, g, t) => Ends(id, db.row, f, t)
              /\ \A t : NoLater(id, db.row, f, t) => NoLater(id, new, g, t)
              /\ InOrder(id, db.row, f) => InOrder(id, new, g)
  <2>1. CASE ~Of(h, id)
    <3>1. ~Of(s, id) /\ id # i BY <1>4, <1>7, <1>18, <2>1 DEF Of
    <3>2. Quiet(id, f) /\ Quiet(id, g) BY <1>9, <1>16, <1>20, <2>1, <3>1, OneSays, SomeSays
    <3>3. /\ \A t : Ends(id, db.row, g, t) => Ends(id, db.row, f, t)
          /\ \A t : NoLater(id, db.row, f, t) => NoLater(id, db.row, g, t)
          /\ InOrder(id, db.row, g)
      BY <3>2, QuietFront
    <3>4. \A t : Ends(id, new, g, t) <=> Ends(id, db.row, g, t) BY <1>13, <3>1 DEF Ends
    <3>5. \A t : NoLater(id, new, g, t) <=> NoLater(id, db.row, g, t) BY <1>13, <3>1 DEF NoLater
    <3>6. InOrder(id, new, g) BY <3>2 DEF InOrder, Quiet
    <3>7. QED BY <3>3, <3>4, <3>5, <3>6
  <2>2. CASE Of(h, id) /\ id = i
    <3>1. ~Of(s, id) /\ m.update # "delete"
      BY <1>4, <1>7, <1>10, <1>18, <2>2 DEF Of, WriteSet
    <3>2. Quiet(id, g) BY <1>9, <1>16, <3>1, SomeSays
    <3>3. DOMAIN f = {1} /\ f[1] = h /\ h.rows[id] = m BY <1>4, <1>10, <1>20, <2>2
    <3>4. Says(id, f, m.ptime) BY <2>2, <3>3 DEF Says
    <3>5. \A t : Upwards(id, f, t) => m.ptime <= t BY <2>2, <3>3 DEF Upwards
    <3>6. id \in DOMAIN new => new[id].ptime = m.ptime BY <1>14, <2>2, <3>1
    <3>7. \A t : Ends(id, new, g, t) => Ends(id, db.row, f, t)
      <4>1. \A t : ~Says(id, g, t) BY <3>2 DEF Quiet, Says
      <4>2. QED BY <3>4, <3>6, <4>1 DEF Ends
    <3>8. \A t : NoLater(id, db.row, f, t) => NoLater(id, new, g, t)
      <4>1. \A t : Upwards(id, g, t) BY <3>2 DEF Quiet, Upwards
      <4>2. QED BY <3>5, <3>6, <4>1 DEF NoLater
    <3>9. InOrder(id, new, g) BY <3>2 DEF InOrder, Quiet
    <3>10. QED BY <3>7, <3>8, <3>9
  <2>3. CASE Of(h, id) /\ id # i
    <3>1. id \in left /\ Of(s, id) /\ s.rows[id] = h.rows[id]
      BY <1>4, <1>7, <1>18, <2>3 DEF Of
    <3>2. g = <<s>> BY <1>16, <3>1 DEF Some
    <3>3. DOMAIN f = {1} /\ f[1] = h /\ DOMAIN g = {1} /\ g[1] = s BY <1>20, <3>2
    <3>4. \A t : Says(id, g, t) => Says(id, f, t) BY <2>3, <3>1, <3>3 DEF Says
    <3>5. ~Quiet(id, g) BY <3>1, <3>3 DEF Quiet
    <3>6. \A t : Ends(id, new, g, t) => Ends(id, db.row, f, t) BY <3>4, <3>5 DEF Ends
    <3>7. \A t : Upwards(id, f, t) => Upwards(id, g, t) BY <2>3, <3>1, <3>3 DEF Upwards
    <3>8. \A t : NoLater(id, db.row, f, t) => NoLater(id, new, g, t)
      BY <1>13, <2>3, <3>7 DEF NoLater
    <3>9. InOrder(id, db.row, f) => InOrder(id, new, g)
      <4>1. id \in DOMAIN new => id \in DOMAIN db.row /\ new[id] = db.row[id] BY <1>13, <2>3
      <4>2. InOrder(id, db.row, f) /\ id \in DOMAIN db.row /\ h.rows[id].ptime # 0
              => db.row[id].ptime <= h.rows[id].ptime
        BY <2>3, <3>3 DEF InOrder
      <4>3. ~(1 < 1) OBVIOUS
      <4>4. QED BY <3>1, <3>3, <4>1, <4>2, <4>3 DEF InOrder
    <3>10. QED BY <3>6, <3>8, <3>9
  <2>4. QED BY <2>1, <2>2, <2>3
<1>22. \A o : Seen(db', g, o) => Seen(db, f, o) BY <1>15, <1>19 DEF Seen
<1>23. f = <<Head(queue)>> BY <1>3, <1>20
<1>24. QED BY <1>1, <1>15, <1>17, <1>19, <1>21, <1>22, <1>23, FrontFewer

\* Prizes, rows and logins are written.
LEMMA DbWriteTimes == ASSUME TInv, DbWrite PROVE TimesInv'
<1>1. UNCHANGED <<now, processTime, state, login, mission, lost>> BY DEF DbWrite
<1>2. ASSUME WriteLogin PROVE TimesInv'
  <2>1. queue # <<>> /\ Head(queue).kind = "login" BY <1>2 DEF WriteLogin, Statement
  <2>2. queue' = Tail(queue) /\ db' = [db EXCEPT !.login = Head(queue).info] BY <1>2 DEF WriteLogin
  <2>3. db \in DbSet BY TimesBefore
  <2>4. db'.row = db.row /\ db'.login = Head(queue).info BY <2>2, <2>3 DEF DbSet
  <2>5. QED BY <1>1, <2>1, <2>2, <2>4, HeadGoneTimes
<1>3. QED BY <1>1, <1>2, WritePrizeTimes, WriteRowTimes DEF DbWrite

\* A question that is answered says nothing of the times.
LEMMA TailTimes ==
  ASSUME queue \in Seq(StatementSet), queue # <<>>, Head(queue).kind = "load", NEW t, t = Tail(queue)
  PROVE  /\ t \in Seq(StatementSet)
         /\ \A id : /\ \A u : Ends(id, db.row, t, u) => Ends(id, db.row, queue, u)
                    /\ \A u : NoLater(id, db.row, queue, u) => NoLater(id, db.row, t, u)
                    /\ InOrder(id, db.row, queue) => InOrder(id, db.row, t)
         /\ \A o : Tells(t, o) => Tells(queue, o)
<1>1. PICK h \in StatementSet : h = Head(queue) BY HeadAndTail
<1>2. t \in Seq(StatementSet) /\ <<h>> \in Seq(StatementSet) /\ queue = <<h>> \o t
  BY <1>1, HeadAndTail
<1>3. <<>> \in Seq(StatementSet) /\ <<>> \o t = t BY <1>2, ConcatEmptySeq
<1>4. PICK f \in Seq(StatementSet), g \in Seq(StatementSet) : f = <<h>> /\ g = <<>> BY <1>2, <1>3
<1>5. f \o t = queue /\ g \o t = t BY <1>2, <1>3, <1>4
<1>6. ASSUME NEW id
      PROVE  /\ \A u : Ends(id, db.row, g \o t, u) => Ends(id, db.row, f \o t, u)
             /\ \A u : NoLater(id, db.row, f \o t, u) => NoLater(id, db.row, g \o t, u)
             /\ InOrder(id, db.row, f \o t) => InOrder(id, db.row, g \o t)
  <2>1. ~Of(h, id) BY <1>1 DEF Of
  <2>2. Quiet(id, f) /\ Quiet(id, g) BY <1>4, <2>1, OneSays, NoneSays
  <2>3. /\ \A u : Ends(id, db.row, g, u) => Ends(id, db.row, f, u)
        /\ \A u : NoLater(id, db.row, f, u) => NoLater(id, db.row, g, u)
        /\ InOrder(id, db.row, g)
    BY <2>2, QuietFront
  <2>4. QED BY <1>2, <2>3, FrontTimes
<1>7. \A o : Tells(f \o t, o) <=> Tells(f, o) \/ Tells(t, o) BY <1>2, TellsConcat
<1>8. \A o : Tells(t, o) => Tells(queue, o) BY <1>5, <1>7
<1>9. QED BY <1>2, <1>5, <1>6, <1>8, Zenon

\* What is loaded of a mission is what its row has, and what is sent of it its first row.
LEMMA LoadedTimes ==
  ASSUME MissionsAssumption, TInv, queue # <<>>, Head(queue).kind = "load",
         NEW got, got = GetMission(db.row), NEW id \in Mission
  PROVE  /\ got[id].ptime \in Nat /\ got[id].ptime <= now
         /\ Saved(got)[id].ptime = got[id].ptime /\ Saved(got)[id].update = "none"
         /\ NoLater(id, db.row, Tail(queue) \o SaveMiss(got), now)
         /\ InOrder(id, db.row, Tail(queue) \o SaveMiss(got))
         /\ Quiet(id, queue) \/ got[id].ptime = now =>
              \A x \in Nat : Ends(id, db.row, Tail(queue) \o SaveMiss(got), x) => x \in {0, got[id].ptime}
         /\ got[id].ptime = 0 \/ (id \in DOMAIN db.row /\ db.row[id].ptime = got[id].ptime)
<1>1. /\ MissionsTyped /\ queue \in Seq(StatementSet) /\ db \in DbSet /\ now \in Nat /\ Ordered(id)
  BY TimesBefore DEF Timed
<1>2. /\ DOMAIN db.row \subseteq Mission \cup Retired /\ db.row \in [DOMAIN db.row -> KeptSet]
  BY <1>1, DbParts
<1>3. /\ Writable(got) /\ id \in DOMAIN got
      /\ got[id] = IF id \in DOMAIN db.row THEN db.row[id] ELSE NewMission
  BY <1>2, GetOf
<1>4. PICK t : t = Tail(queue) OBVIOUS
<1>5. /\ t \in Seq(StatementSet)
      /\ \A u : Ends(id, db.row, t, u) => Ends(id, db.row, queue, u)
      /\ \A u : NoLater(id, db.row, queue, u) => NoLater(id, db.row, t, u)
      /\ InOrder(id, db.row, queue) => InOrder(id, db.row, t)
  BY <1>1, <1>4, TailTimes
<1>6. NoLater(id, db.row, t, now) /\ InOrder(id, db.row, t) BY <1>1, <1>5 DEF Ordered
<1>7. PICK s \in Seq(StatementSet) : s = SaveMiss(got) BY <1>3, SaveTyped
<1>8. PICK g \in RowSet : g = got[id] /\ g.update # "delete" BY <1>3 DEF Writable
<1>9. Saved(got)[id].ptime = g.ptime /\ Saved(got)[id].update = "none" BY <1>3, <1>8, SavedTimes
<1>10. PICK u \in Nat : u = g.ptime BY <1>8 DEF RowSet
<1>11. ASSUME id \in DOMAIN db.row
       PROVE  /\ u <= now /\ db.row[id].ptime = u
              /\ NoLater(id, db.row, t \o s, now) /\ InOrder(id, db.row, t \o s)
              /\ Quiet(id, queue) \/ u = now =>
                   \A x \in Nat : Ends(id, db.row, t \o s, x) => x \in {0, u}
  <2>1. db.row[id] = g /\ g.update = "none" /\ db.row[id].ptime = u
    BY <1>2, <1>3, <1>8, <1>10, <1>11 DEF KeptSet
  <2>2. u <= now BY <1>1, <1>11, <2>1 DEF Ordered, NoLater
  <2>3. Quiet(id, s)
    <3>1. got[id].update = "none" BY <1>8, <2>1
    <3>2. QED BY <1>3, <1>7, <3>1, SaveSays
  <2>4. /\ \A x : Ends(id, db.row, t \o s, x) <=> Ends(id, db.row, t, x)
        /\ \A x : NoLater(id, db.row, t \o s, x) <=> NoLater(id, db.row, t, x)
        /\ InOrder(id, db.row, t \o s) <=> InOrder(id, db.row, t)
    BY <1>5, <2>3, QuietTail
  <2>5. ASSUME NEW x \in Nat, Ends(id, db.row, t \o s, x), Quiet(id, queue) \/ u = now
        PROVE  x \in {0, u}
    <3>1. Ends(id, db.row, queue, x) BY <1>5, <2>4, <2>5
    <3>2. CASE Quiet(id, queue) BY <2>1, <3>1, <3>2 DEF Ends, Quiet, Says
    <3>3. CASE u = now /\ Says(id, queue, x)
      <4>1. PICK k \in DOMAIN queue : Of(queue[k], id) /\ queue[k].rows[id].ptime = x
        BY <3>3 DEF Says
      <4>2. x <= now BY <1>1, <4>1 DEF Ordered, NoLater, Upwards
      <4>3. x # 0 => u <= x BY <1>1, <1>11, <2>1, <4>1 DEF Ordered, InOrder
      <4>4. QED BY <1>1, <3>3, <4>2, <4>3
    <3>4. QED BY <2>1, <2>5, <3>1, <3>2, <3>3 DEF Ends
  <2>6. QED BY <1>6, <2>1, <2>2, <2>4, <2>5
<1>12. ASSUME id \notin DOMAIN db.row
       PROVE  /\ u = 0 /\ NoLater(id, db.row, t \o s, now) /\ InOrder(id, db.row, t \o s)
              /\ \A x \in Nat : Ends(id, db.row, t \o s, x) => x \in {0, u}
  <2>1. got[id].update # "none" /\ u = 0 BY <1>3, <1>8, <1>10, <1>12 DEF NewMission
  <2>2. Once(id, s, 0) BY <1>3, <1>7, <1>8, <1>10, <2>1, SaveSays
  <2>3. /\ \A x : Ends(id, db.row, t \o s, x) <=> x = 0
        /\ \A x : NoLater(id, db.row, t \o s, x) <=> NoLater(id, db.row, t, x) /\ 0 <= x
        /\ InOrder(id, db.row, t) => InOrder(id, db.row, t \o s)
    BY <1>5, <2>2, RowTail
  <2>4. QED BY <1>1, <1>6, <2>1, <2>3
<1>13. QED BY <1>1, <1>4, <1>7, <1>8, <1>9, <1>10, <1>11, <1>12

\* A login takes over what the database has, resets what turned since, and notes the player.
LEMMA DbLoadTimes == ASSUME MissionsAssumption, TInv, DbLoad PROVE TimesInv'
<1>1. /\ queue # <<>> /\ Head(queue).kind = "load" /\ UNCHANGED <<now, processTime, db>>
  BY DEF DbLoad, Statement
<1>2. ASSUME state # "load" PROVE TimesInv'
  <2>1. UNCHANGED <<state, login, mission, lost>> /\ queue' = Tail(queue) BY <1>2 DEF DbLoad
  <2>2. QED BY <1>1, <2>1, HeadGoneTimes
<1>3. ASSUME state = "load" PROVE TimesInv'
  <2>1. PICK got : got = GetMission(db.row) OBVIOUS
  <2>2. PICK p : p = [login |-> db.login, mission |-> Saved(got)] OBVIOUS
  <2>3. PICK built : built = BuildInit(p) OBVIOUS
  <2>4. /\ state' = "playing" /\ login' = built.login /\ mission' = built.mission
        /\ lost' = StillLost(mission') \cup Missed
        /\ queue' = (Tail(queue) \o SaveMiss(got)) \o <<LoginInfo(built.login)>>
    BY <1>3, <2>1, <2>2, <2>3 DEF DbLoad
  <2>5. /\ MissionsTyped /\ now \in Nat /\ now >= 1 /\ queue \in Seq(StatementSet) /\ db \in DbSet
        /\ db.login.offline_time \in Nat /\ Clock /\ SeenBefore
    BY TimesBefore DEF TInv, TimesInv
  <2>6. /\ db.login \in LoginSet /\ DOMAIN db.row \subseteq Mission \cup Retired
        /\ db.row \in [DOMAIN db.row -> KeptSet]
    BY <2>5, DbParts
  <2>7. Writable(got) /\ Saved(got) \in [Mission -> LiveSet] BY <2>1, <2>6, GetOf, SavedOf
  <2>8. PICK o \in Nat : o = db.login.offline_time /\ o <= now
    BY <1>3, <2>5 DEF SeenBefore, Seen
  <2>9. p \in PlayerSet /\ p.mission = Saved(got) /\ p.login.offline_time = o
    BY <2>2, <2>6, <2>7, <2>8 DEF PlayerSet
  <2>10. /\ built.login.offline_time = now
         /\ \A id \in Mission : /\ Kept(Saved(got)[id], built.mission[id])
                                /\ Due(id, o, built.mission[id])
    BY <2>3, <2>5, <2>8, <2>9, BuildInitTimes
  <2>11. built.login \in LoginSet /\ built.mission \in [Mission -> LiveSet]
    BY <2>3, <2>5, <2>9, BuildInitOf DEF Cleaned, PlayerSet
  <2>12. PICK t \in Seq(StatementSet), s \in Seq(StatementSet), l \in Seq(StatementSet) :
           t = Tail(queue) /\ s = SaveMiss(got) /\ l = <<LoginInfo(built.login)>>
    <3>1. LoginInfo(built.login) \in StatementSet BY <2>11 DEF LoginInfo, StatementSet
    <3>2. <<LoginInfo(built.login)>> \in Seq(StatementSet) BY <3>1
    <3>3. QED BY <1>1, <2>5, <2>7, <3>2, RestTyped, SaveTyped
  <2>13. PICK r \in Seq(StatementSet) : r = t \o s BY <2>12, ConcatProperties
  <2>14. r \in Seq(StatementSet) /\ l \in Seq(StatementSet) /\ queue' = r \o l
    BY <2>4, <2>12, <2>13
  <2>15. /\ \A id : Quiet(id, l)
         /\ \A x : Tells(l, x) => x = now
    BY <2>10, <2>11, <2>12, LoginSays
  <2>16. Clock' BY <1>1, <2>4, <2>5, <2>10 DEF Clock
  <2>17. \A x : Tells(r, x) => Tells(queue, x)
    <3>1. \A x : Tells(t, x) => Tells(queue, x) BY <1>1, <2>5, <2>12, TailTimes
    <3>2. \A x : ~Tells(s, x)
      <4>1. DOMAIN got = {} => s = <<>> BY <2>12 DEF SaveMiss, Some
      <4>2. DOMAIN got # {} => \A x : ~Tells(s, x) BY <2>7, <2>12, SaveSays
      <4>3. QED BY <4>1, <4>2, NoneSays
    <3>3. \A x : Tells(t \o s, x) <=> Tells(t, x) \/ Tells(s, x) BY <2>12, TellsConcat
    <3>4. QED BY <2>13, <3>1, <3>2, <3>3
  <2>18. SeenBefore'
    <3>1. \A x : Tells(r \o l, x) <=> Tells(r, x) \/ Tells(l, x) BY <2>14, TellsConcat
    <3>2. ASSUME NEW x \in Nat, Seen(db', queue', x) PROVE x <= now
      <4>1. x = o \/ Tells(r, x) \/ Tells(l, x) BY <1>1, <2>8, <2>14, <3>1, <3>2 DEF Seen
      <4>2. Tells(r, x) => x <= now BY <1>3, <2>5, <2>17 DEF SeenBefore, Seen
      <4>3. QED BY <2>5, <2>8, <2>15, <4>1, <4>2
    <3>3. login'.offline_time = now BY <2>4, <2>10
    <3>4. QED BY <2>4, <3>2, <3>3 DEF SeenBefore
  <2>19. ASSUME NEW id \in Mission PROVE Timed(id)'
    <3>1. PICK m \in LiveSet, n \in LiveSet : m = Saved(got)[id] /\ n = built.mission[id]
      BY <2>7, <2>11
    <3>2. PICK u \in Nat, v \in Nat : u = m.ptime /\ v = n.ptime BY DEF LiveSet, RowSet
    <3>3. /\ u = got[id].ptime /\ u <= now /\ m.update = "none"
          /\ NoLater(id, db.row, r, now) /\ InOrder(id, db.row, r)
          /\ Quiet(id, queue) \/ u = now => \A x \in Nat : Ends(id, db.row, r, x) => x \in {0, u}
          /\ u = 0 \/ (id \in DOMAIN db.row /\ db.row[id].ptime = u)
      <4>1. PICK c : c = Tail(queue) \o SaveMiss(got) OBVIOUS
      <4>2. c = r BY <2>12, <2>13, <4>1
      <4>3. /\ got[id].ptime <= now
            /\ Saved(got)[id].ptime = got[id].ptime /\ Saved(got)[id].update = "none"
            /\ NoLater(id, db.row, c, now) /\ InOrder(id, db.row, c)
            /\ Quiet(id, queue) \/ got[id].ptime = now =>
                 \A x \in Nat : Ends(id, db.row, c, x) => x \in {0, got[id].ptime}
            /\ got[id].ptime = 0 \/ (id \in DOMAIN db.row /\ db.row[id].ptime = got[id].ptime)
        BY <1>1, <2>1, <4>1, LoadedTimes
      <4>4. got[id].ptime = u BY <3>1, <3>2, <4>3
      <4>5. QED BY <3>1, <4>2, <4>3, <4>4
    <3>4. Kept(m, n) /\ Due(id, o, n) BY <2>10, <3>1
    <3>5. v <= now /\ (n.update = "none" => v = u) /\ (n.update # "none" => v = now)
      <4>1. CASE n.ptime = m.ptime /\ n.update = m.update BY <3>2, <3>3, <4>1
      <4>2. CASE n.ptime = now /\ n.update = "update" BY <2>5, <3>2, <4>2
      <4>3. QED BY <3>4, <4>1, <4>2 DEF Kept
    <3>6. mission'[id] = n BY <2>4, <3>1
    <3>7. /\ \A x : Ends(id, db.row, r \o l, x) <=> Ends(id, db.row, r, x)
          /\ \A x : NoLater(id, db.row, r \o l, x) <=> NoLater(id, db.row, r, x)
          /\ InOrder(id, db.row, r \o l) <=> InOrder(id, db.row, r)
      BY <2>14, <2>15, QuietTail
    <3>8. Ordered(id)' BY <1>1, <2>14, <3>3, <3>7 DEF Ordered
    <3>9. id \notin lost' => Quiet(id, queue) BY <2>4 DEF Missed, Concerns, Quiet, Of
    <3>10. n.update = "none" /\ (id \notin lost' \/ v = now) =>
             \A x \in Nat : Ends(id, db.row, r \o l, x) => x \in {0, v}
      BY <3>3, <3>5, <3>7, <3>9
    <3>11. id \notin lost' => Within(id, now, v)
      <4>1. CASE v = now BY <2>5, <4>1, CycleUp DEF Within
      <4>2. ASSUME v # now, id \notin lost' PROVE Within(id, now, v)
        <5>1. id \notin lost
          <6>1. id \in DOMAIN mission' BY <2>4, <2>11
          <6>2. QED BY <2>4, <3>2, <3>6, <4>2, <6>1 DEF StillLost
        <5>2. Within(id, o, u)
          <6>1. CASE u = 0 BY <6>1 DEF Within
          <6>2. CASE u # 0
            <7>1. Ends(id, db.row, queue, u) BY <3>3, <3>9, <4>2, <6>2 DEF Ends
            <7>2. Seen(db, queue, o) BY <2>8 DEF Seen
            <7>3. Left(id) BY TimesBefore DEF Timed
            <7>4. QED BY <1>3, <5>1, <7>1, <7>2, <7>3 DEF Left
          <6>3. QED BY <6>1, <6>2
        <5>3. QED BY <2>5, <3>2, <3>4, <5>2, WithinAfter
      <4>3. QED BY <4>1, <4>2
    <3>12. Held(id)'
      <4>1. login'.offline_time = now BY <2>4, <2>10
      <4>2. n.update # "none" => NoLater(id, db.row, r \o l, v) BY <3>3, <3>5, <3>7
      <4>3. mission'[id].ptime = v /\ mission'[id].update = n.update BY <3>2, <3>6
      <4>4. db'.row = db.row /\ queue' = r \o l /\ now' = now BY <1>1, <2>14
      <4>5. QED BY <3>5, <3>10, <3>11, <4>1, <4>2, <4>3, <4>4 DEF Held
    <3>13. Left(id)' BY <2>4 DEF Left
    <3>14. QED BY <3>8, <3>12, <3>13 DEF Timed
  <2>20. QED BY <2>16, <2>18, <2>19 DEF TimesInv
<1>4. QED BY <1>2, <1>3

\* Nobody was seen at first, and nothing was done.
LEMMA InitTimes == ASSUME MissionsAssumption, Init PROVE TimesInv
<1>1. now = Begin /\ processTime = 0 /\ state = "out" /\ queue = <<>> BY DEF Init
<1>2. db.row = [id \in Retired |-> AsSaved(NewMission)] /\ db.login.offline_time = 0 BY DEF Init
<1>3. now \in Nat /\ now >= 1 BY <1>1 DEF MissionsAssumption
<1>4. Clock BY <1>1, <1>3 DEF Clock
<1>5. SeenBefore
  <2>1. \A o : ~Tells(queue, o) BY <1>1, NoneSays
  <2>2. QED BY <1>1, <1>2, <1>3, <2>1 DEF SeenBefore, Seen
<1>6. ASSUME NEW id \in Mission PROVE Timed(id)
  <2>1. id \notin DOMAIN db.row BY <1>2 DEF MissionsAssumption
  <2>2. Quiet(id, queue) BY <1>1, NoneSays
  <2>3. Ordered(id) BY <2>1, <2>2 DEF Ordered, NoLater, Upwards, InOrder, Quiet
  <2>4. Held(id) BY <1>1 DEF Held
  <2>5. Left(id) BY <2>1, <2>2 DEF Left, Ends, Says, Quiet
  <2>6. QED BY <2>3, <2>4, <2>5 DEF Timed
<1>7. QED BY <1>4, <1>5, <1>6 DEF TimesInv

\* Every step keeps the times.
LEMMA StepKeepsTimes == ASSUME MissionsAssumption, TInv, [Next]_vars PROVE TInv'
<1>1. MInv /\ TimesInv BY DEF TInv
<1>2. MInv' BY <1>1, StepKeepsM
<1>3. ASSUME UNCHANGED vars PROVE TimesInv'
  <2>1. /\ UNCHANGED <<now, processTime, state, login, mission, db, lost>>
        /\ queue' = queue
    BY <1>3 DEF vars
  <2>2. Clock' BY <1>1, <2>1 DEF TimesInv, Clock
  <2>3. \A o : Seen(db', queue', o) => Seen(db, queue, o) BY <2>1
  <2>4. QED BY <1>1, <2>1, <2>2, <2>3, Fewer
<1>4. TimesInv'
  BY <1>3, OnLoginTimes, OnLoginOutTimes, ReportTimes, OnTimeTickTimes, DbWriteTimes,
     DbLoadTimes, CrashTimes, LaterTimes DEF Next
<1>5. QED BY <1>2, <1>4 DEF TInv

\* The rows under way to the database never put a mission back in time, and once they are written
\* the database has what the player has: so however long he was away, and however far behind the
\* database is, a login resets what turned since, unless a crash or a login missed a change.
THEOREM MissionTimes == Spec => []TInv
<1>1. Init => TInv BY MissionsAssumption, InitM, InitTimes DEF TInv
<1>2. TInv /\ [Next]_vars => TInv' BY MissionsAssumption, StepKeepsTimes
<1>3. QED BY <1>1, <1>2, PTL DEF Spec

\* The missions a player has when he is seen are of this day, week and month, for any calendar:
\* whether he was online when they turned or came back later, whatever crashes there were - unless
\* a crash lost a change or a login missed one.
THEOREM MissionsAreFresh == Spec => []MissionsFresh
<1>1. TInv => MissionsFresh
  <2> SUFFICES ASSUME TInv, state = "playing", login.offline_time = now,
                      NEW id \in Mission, id \notin lost, mission[id].ptime # 0
               PROVE  SameCycle(Cfg[id].cycle, mission[id].ptime, now)
    BY DEF MissionsFresh
  <2>1. now \in Nat /\ mission[id].ptime \in Nat /\ Held(id) BY TimesBefore DEF Timed
  <2>2. PICK t \in Nat : t = mission[id].ptime BY <2>1
  <2>3. t <= now /\ t # 0 /\ Within(id, now, t) BY <2>1, <2>2 DEF Held
  <2>4. PICK c : c = Cfg[id].cycle OBVIOUS
  <2>5. Cycle(c, now) <= Cycle(c, t) BY <2>3, <2>4 DEF Within
  <2>6. Cycle(c, t) \in Nat /\ Cycle(c, now) \in Nat /\ Cycle(c, t) <= Cycle(c, now)
    BY <2>1, <2>3, MissionsAssumption, CycleUp
  <2>7. Cycle(c, t) = Cycle(c, now) BY <2>5, <2>6
  <2>8. SameCycle(c, t, now) BY <2>7 DEF Cycle, SameCycle
  <2>9. QED BY <2>2, <2>4, <2>8
<1>2. QED BY <1>1, MissionTimes, PTL

--------------------------------------------------------------------------------
(* What a mission of the day keeps until the next morning.                 *)

\* Who was seen and moved a mission on this day of the game is not reset before six, but for the
\* turn of a year.
LEMMA SameDay ==
  ASSUME MissionsAssumption, NEW p \in Nat, NEW o \in Nat, NEW t \in Nat, p <= o, o <= t, t >= 1,
         GameDay(p) = GameDay(t), o = 0 \/ IsNeedReset(o, t)
  PROVE  Year(p) # Year(t)
<1>1. CASE o = 0
  <2>1. GameDay(p) = 0 /\ GameDay(t) >= 1 BY <1>1 DEF GameDay
  <2>2. QED BY <2>1
<1>2. CASE o = t
  <2>1. PICK d \in Nat : d = Day(t) BY DEF Day
  <2>2. DiffDay(t, t) = 0 BY <2>1 DEF DiffDay
  <2>3. QED BY <1>1, <1>2, <2>2 DEF IsNeedReset
<1>3. CASE o # 0 /\ o # t
  <2>1. p = o /\ Day(t) = Day(o) + 1 /\ ~Late(t) /\ Late(o) BY <1>3 DEF GameDay, Day, Late
  <2>2. ASSUME Year(p) = Year(t) PROVE FALSE
    <3>1. PICK d \in Nat : d = Day(o) BY DEF Day
    <3>2. DiffDay(o, t) = 1 BY <2>1, <2>2, <3>1 DEF DiffDay
    <3>3. QED BY <1>3, <2>1, <3>2 DEF IsNeedReset
  <2>3. QED BY <2>2
<1>4. QED BY <1>1, <1>2, <1>3

\* The turn of a week or a month leaves the missions of the day alone.
LEMMA DayAlone ==
  ASSUME now \in Nat, NEW p \in PlayerSet, NEW id \in Mission, Cfg[id].cycle = "day"
  PROVE  /\ WeeklyCleanup(p) \in PlayerSet /\ WeeklyCleanup(p).mission[id] = p.mission[id]
         /\ MonthlyCleanup(p) \in PlayerSet /\ MonthlyCleanup(p).mission[id] = p.mission[id]
<1>1. PICK ms \in [Mission -> LiveSet] : ms = p.mission BY DEF PlayerSet
<1>2. \A cycle : cycle # "day" => ResetMission(ms, cycle)[id] = ms[id] BY DEF ResetMission
<1>3. WeeklyCleanup(p).mission = ResetMission(ms, "week") BY <1>1 DEF WeeklyCleanup
<1>4. MonthlyCleanup(p).mission = ResetMission(ms, "month") BY <1>1 DEF MonthlyCleanup, PlayerSet
<1>5. QED BY <1>1, <1>2, <1>3, <1>4, CleanupsOf

\* A login resets a mission of the day only when the player was not seen since six.
LEMMA BuildInitAlone ==
  ASSUME now \in Nat, NEW p \in PlayerSet, NEW id \in Mission, Cfg[id].cycle = "day",
         p.login.offline_time # 0, ~IsNeedReset(p.login.offline_time, now)
  PROVE  BuildInit(p).mission[id] = p.mission[id]
<1> DEFINE offline == p.login.offline_time
           days == DiffTime(offline, Day(offline), Day(now))
           reset == offline # 0 /\ IsNeedReset(offline, now)
           daily == If(offline = 0, MonthlyCleanup(WeeklyCleanup(DailyCleanup(p, 2))),
                       If(reset, DailyCleanup(p, days), p))
           isWeek == DiffTime(offline, Week(offline), Week(now)) > 0
           weekly == If(isWeek, WeeklyCleanup(daily), daily)
           isMonth == DiffTime(offline, Month(offline), Month(now)) > 0
           monthly == If(isMonth, MonthlyCleanup(weekly), weekly)
<1>1. daily = p BY DEF If
<1>2. BuildInit(p) = [monthly EXCEPT !.login.offline_time = now,
                                     !.login.clogin = IF @ < 1 THEN 1 ELSE @]
  BY DEF BuildInit
<1> HIDE DEF daily, isWeek, isMonth
<1>3. weekly \in PlayerSet /\ weekly.mission[id] = p.mission[id] BY <1>1, DayAlone DEF If
<1> HIDE DEF weekly
<1>4. monthly \in PlayerSet /\ monthly.mission[id] = p.mission[id] BY <1>3, DayAlone DEF If
<1> HIDE DEF monthly
<1>5. BuildInit(p).mission = monthly.mission BY <1>2, <1>4, NotedTimes
<1>6. QED BY <1>4, <1>5

\* Nor does the tick.
LEMMA TickAlone ==
  ASSUME TInv, OnTimeTick, state = "playing", NEW id \in Mission, Cfg[id].cycle = "day",
         ~IsNeedReset(login.offline_time, now)
  PROVE  mission'[id] = mission[id]
<1> DEFINE newDay == processTime # 0 /\ Day(processTime) # Day(now)
           p == [login |-> login, mission |-> mission]
           daily == If(IsNeedReset(login.offline_time, now), DailyCleanup(p, 1), p)
           online == [daily EXCEPT !.login.offline_time = now]
           isWeek == newDay /\ Day(now) % DaysPerWeek = 0
           weekly == If(isWeek, WeeklyCleanup(online), online)
           isMonth == newDay /\ Day(now) % DaysPerMonth = 0
           monthly == If(isMonth, MonthlyCleanup(weekly), weekly)
<1>1. mission' = monthly.mission BY DEF OnTimeTick
<1>2. daily = p BY DEF If
<1>3. now \in Nat BY TimesBefore
<1>4. p \in PlayerSet /\ p.mission = mission BY TimesBefore DEF PlayerSet
<1> HIDE DEF p, daily, isWeek, isMonth
<1>5. online \in PlayerSet /\ online.mission = mission
  <2>1. daily \in PlayerSet /\ daily.mission = mission BY <1>2, <1>4
  <2>2. QED BY <1>3, <2>1, NotedTimes, SeenOf DEF Cleaned
<1> HIDE DEF online
<1>6. weekly \in PlayerSet /\ weekly.mission[id] = mission[id] BY <1>3, <1>5, DayAlone DEF If
<1> HIDE DEF weekly
<1>7. monthly.mission[id] = mission[id] BY <1>3, <1>6, DayAlone DEF If
<1>8. QED BY <1>1, <1>7

\* A game takes no reward back.
LEMMA ActGrows ==
  ASSUME now \in Nat, NEW ms \in [Mission -> LiveSet], NEW type, NEW value \in {0, 1},
         NEW id \in Mission
  PROVE  ms[id].ctimes <= ActMission(ms, type, value)[id].ctimes
<1>1. PICK m \in LiveSet : m = ms[id] OBVIOUS
<1>2. PICK c : c = Counted(m, value) OBVIOUS
<1>3. c \in LiveSet /\ c.ctimes = m.ctimes
  <2>1. c \in LiveSet BY <1>2, CountedOf
  <2>2. PICK d : d = [m EXCEPT !.rtimes = IF value = 0 THEN 0 ELSE @ + value, !.ptime = now] OBVIOUS
  <2>3. d.ctimes = m.ctimes /\ c = Marked(d) BY <1>2, <2>2 DEF Counted, LiveSet, RowSet
  <2>4. DOMAIN d = {"rtimes", "ctimes", "ptime", "update", "given"} BY <2>2 DEF LiveSet, RowSet
  <2>5. QED BY <2>1, <2>3, <2>4 DEF Marked
<1>4. PICK w : w = RewardMission(c) OBVIOUS
<1>5. w.ctimes = m.ctimes + 1
  <2>1. PICK d : d = [c EXCEPT !.rtimes = 0, !.ctimes = @ + 1, !.given = @ + 1] OBVIOUS
  <2>2. d.ctimes = m.ctimes + 1 /\ w = Marked(d)
    BY <1>3, <1>4, <2>1 DEF RewardMission, LiveSet, RowSet
  <2>3. DOMAIN d = {"rtimes", "ctimes", "ptime", "update", "given"} BY <1>3, <2>1 DEF LiveSet, RowSet
  <2>4. QED BY <2>2, <2>3 DEF Marked
<1>6. ActMission(ms, type, value)[id] \in {m, c, w}
  BY <1>1, <1>2, <1>4 DEF ActMission, Acted
<1>7. m.ctimes \in Nat BY DEF LiveSet, RowSet
<1>8. QED BY <1>1, <1>3, <1>5, <1>6, <1>7

\* A step at which a mission of the day is offered again is a login or a tick for which the player
\* was not seen since six.
LEMMA OfferedSteps ==
  ASSUME MissionsAssumption, TInv, [Next]_vars, NEW id \in Mission, OfferedAgain(id)
  PROVE  LastSeen <= now /\ (LastSeen = 0 \/ IsNeedReset(LastSeen, now))
<1>1. /\ state' = "playing" /\ id \in DOMAIN Known /\ Cfg[id].cycle = "day"
      /\ Known[id].ctimes > mission'[id].ctimes
  BY DEF OfferedAgain
<1>2. /\ now \in Nat /\ db \in DbSet /\ login.offline_time \in Nat /\ db.login.offline_time \in Nat
      /\ state = "playing" => mission \in [Mission -> LiveSet] /\ login.offline_time <= now
  BY TimesBefore
<1>3. ASSUME state = "playing"
      PROVE  LastSeen <= now /\ (LastSeen = 0 \/ IsNeedReset(LastSeen, now))
  <2>1. LastSeen = login.offline_time /\ Known = mission BY <1>3 DEF LastSeen, Known
  <2>2. mission \in [Mission -> LiveSet] BY <1>2, <1>3
  <2>3. PICK k \in Nat : k = mission[id].ctimes BY <2>2 DEF LiveSet, RowSet
  <2>4. mission'[id] # mission[id] BY <1>1, <2>1, <2>3
  <2>5. ~(\E win \in {0, 1} : ReportGameResult(win))
    <3> SUFFICES ASSUME NEW win \in {0, 1}, ReportGameResult(win) PROVE FALSE OBVIOUS
    <3>1. PICK played : played = ActMission(mission, "play", 1) OBVIOUS
    <3>2. PICK acted : acted = ActMission(played, "win", win) OBVIOUS
    <3>3. played \in [Mission -> LiveSet] BY <1>2, <2>2, <3>1, ActOf
    <3>4. acted \in [Mission -> LiveSet] BY <1>2, <3>2, <3>3, ActOf
    <3>5. mission' = Saved(acted) BY <3>1, <3>2 DEF ReportGameResult
    <3>6. mission'[id] = AsSaved(acted[id])
      <4>1. acted[id].update # "delete" BY <3>4 DEF LiveSet
      <4>2. QED BY <3>4, <3>5, <4>1 DEF Saved
    <3>7. PICK a \in LiveSet : a = acted[id] BY <3>4
    <3>8. AsSaved(a).ctimes = a.ctimes BY DEF AsSaved, LiveSet, RowSet
    <3>9. PICK n \in Nat, l \in Nat : n = a.ctimes /\ l = played[id].ctimes
      BY <3>3 DEF LiveSet, RowSet
    <3>10. k <= l BY <1>2, <2>2, <2>3, <3>1, <3>9, ActGrows
    <3>11. l <= n BY <1>2, <3>2, <3>3, <3>7, <3>9, ActGrows
    <3>12. QED BY <1>1, <2>1, <2>3, <3>6, <3>7, <3>8, <3>9, <3>10, <3>11
  <2>6. OnTimeTick
    <3>1. mission' # mission BY <2>4
    <3>2. QED BY <1>1, <1>3, <2>5, <3>1
          DEF Next, vars, OnLogin, OnLoginOut, DbWrite, DbLoad, Crash, Later
  <2>7. IsNeedReset(login.offline_time, now) BY <1>1, <1>3, <2>4, <2>6, TickAlone
  <2>8. QED BY <1>2, <1>3, <2>1, <2>7
<1>4. ASSUME state # "playing"
      PROVE  LastSeen <= now /\ (LastSeen = 0 \/ IsNeedReset(LastSeen, now))
  <2>1. LastSeen = db.login.offline_time /\ Known = db.row BY <1>4 DEF LastSeen, Known
  <2>2. DbLoad /\ state = "load"
    BY <1>1, <1>4
       DEF Next, vars, OnLogin, OnLoginOut, OnTimeTick, ReportGameResult, DbWrite, DbLoad, Crash, Later
  <2>3. PICK got : got = GetMission(db.row) OBVIOUS
  <2>4. PICK p : p = [login |-> db.login, mission |-> Saved(got)] OBVIOUS
  <2>5. mission' = BuildInit(p).mission BY <2>2, <2>3, <2>4 DEF DbLoad
  <2>6. /\ db.login \in LoginSet /\ DOMAIN db.row \subseteq Mission \cup Retired
        /\ db.row \in [DOMAIN db.row -> KeptSet]
    BY <1>2, DbParts
  <2>7. Saved(got) \in [Mission -> LiveSet] /\ got[id] = db.row[id] /\ id \in DOMAIN got
    BY <1>1, <2>1, <2>3, <2>6, GetOf, SavedOf
  <2>8. PICK m \in KeptSet : m = db.row[id] BY <1>1, <2>1, <2>6
  <2>9. p \in PlayerSet /\ p.mission = Saved(got) /\ p.login = db.login
    BY <2>4, <2>6, <2>7 DEF PlayerSet
  <2>10. p.mission[id].ctimes = m.ctimes /\ m.ctimes \in Nat
    <3>1. m.update # "delete" /\ m.ctimes \in Nat BY DEF KeptSet, RowSet
    <3>2. Saved(got)[id] = AsSaved(m) BY <2>7, <2>8, <3>1 DEF Saved
    <3>3. AsSaved(m).ctimes = m.ctimes BY DEF AsSaved, KeptSet, RowSet
    <3>4. QED BY <2>9, <3>1, <3>2, <3>3
  <2>11. mission'[id] # p.mission[id] BY <1>1, <2>1, <2>8, <2>10
  <2>12. LastSeen = 0 \/ IsNeedReset(LastSeen, now)
    BY <1>1, <1>2, <2>1, <2>5, <2>9, <2>11, BuildInitAlone
  <2>13. LastSeen <= now
    <3>1. Seen(db, queue, LastSeen) BY <2>1 DEF Seen
    <3>2. QED BY <1>2, <1>4, <2>1, <3>1 DEF TInv, TimesInv, SeenBefore
  <2>14. QED BY <2>12, <2>13
<1>5. QED BY <1>3, <1>4

\* For any calendar, ticks, logins and crashes: what a player has done today for a daily mission is
\* not taken from him, nor the mission offered again, before the next morning, but at a new year.
THEOREM MissionsAreOfferedOnce == Spec => NoEarlyReset
<1>1. TInv /\ [Next]_vars =>
        [\A id \in Mission : OfferedAgain(id) => Year(Known[id].ptime) # Year(now)]_vars
  <2> SUFFICES ASSUME TInv, [Next]_vars, NEW id \in Mission, OfferedAgain(id)
               PROVE  Year(Known[id].ptime) # Year(now)
    OBVIOUS
  <2>1. /\ id \in DOMAIN Known /\ Known[id].ptime <= LastSeen
        /\ GameDay(Known[id].ptime) = GameDay(now)
    BY DEF OfferedAgain, SameCycle
  <2>2. LastSeen <= now /\ (LastSeen = 0 \/ IsNeedReset(LastSeen, now))
    BY MissionsAssumption, OfferedSteps
  <2>3. now \in Nat /\ now >= 1 /\ LastSeen \in Nat BY TimesBefore DEF LastSeen
  <2>4. Known[id].ptime \in Nat
    <3>1. CASE state = "playing" BY <3>1, TimesBefore DEF Known
    <3>2. CASE state # "playing"
      <4>1. db.row \in [DOMAIN db.row -> KeptSet] /\ id \in DOMAIN db.row
        BY <2>1, <3>2, TimesBefore, DbParts DEF Known
      <4>2. QED BY <3>2, <4>1 DEF Known, KeptSet, RowSet
    <3>3. QED BY <3>1, <3>2
  <2>5. QED BY <2>1, <2>2, <2>3, <2>4, MissionsAssumption, SameDay
<1>2. QED BY <1>1, MissionTimes, PTL DEF Spec, NoEarlyReset
================================================================================
