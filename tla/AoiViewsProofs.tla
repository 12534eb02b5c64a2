---------------------------- MODULE AoiViewsProofs ----------------------------
(***************************************************************************)
(* Proofs about AoiViews, for any grid, range, players, foreign entities,  *)
(* positions and size of a snapshot's parts.                               *)
(***************************************************************************)
EXTENDS AoiViews, TLAPS

-----------------------------------------------------------------------------
(* The geometry of the grid *)

\* Multiplication keeps the order.
LEMMA TimesOrder ==
    ASSUME NEW a \in Nat, NEW b \in Nat, NEW n \in Nat, a <= b
    PROVE  a * n \in Nat /\ b * n \in Nat /\ a * n <= b * n
<1>1. PICK d \in Nat : b = a + d
  <2>1. b - a \in Nat /\ b = a + (b - a)
    OBVIOUS
  <2> QED
    BY <2>1
<1>2. b * n = a * n + d * n
  BY <1>1, Z3
<1>3. d * n \in Nat /\ a * n \in Nat
  BY Z3
<1> QED
  BY <1>2, <1>3

\* Quotient and remainder.
LEMMA DivideFacts ==
    ASSUME NEW a \in Nat, NEW n \in Nat \ {0}
    PROVE  a \div n \in Nat /\ a % n \in 0..(n - 1) /\ a = (a \div n) * n + (a % n)
BY Z3

\* A number below m * n has a quotient below m.
LEMMA QuotientBound ==
    ASSUME NEW m \in Nat \ {0}, NEW n \in Nat \ {0}, NEW a \in 0..(m * n - 1)
    PROVE  a \div n \in 0..(m - 1)
<1>1. PICK q \in Nat : q = a \div n
  BY DivideFacts, Z3
<1>2. PICK r \in 0..(n - 1) : r = a % n
  BY DivideFacts, Z3
<1>3. a = q * n + r
  BY <1>1, <1>2, DivideFacts, Z3
<1>4. m * n \in Nat /\ q * n \in Nat
  BY Z3
<1>5. q * n < m * n
  BY <1>2, <1>3, <1>4
<1>6. ~(m <= q)
  BY <1>4, <1>5, TimesOrder
<1> QED
  BY <1>1, <1>6

\* The number of the cell in a column and a row.
LEMMA CellNumber ==
    ASSUME NEW n \in Nat \ {0}, NEW j \in Nat, NEW i \in 0..(n - 1)
    PROVE  j * n + i \in Nat /\ (j * n + i) % n = i /\ (j * n + i) \div n = j
<1>1. PICK a \in Nat : a = j * n + i
  BY Z3
<1>2. PICK q \in Nat : q = a \div n
  BY DivideFacts, Z3
<1>3. PICK r \in 0..(n - 1) : r = a % n
  BY DivideFacts, Z3
<1>4. q * n + r = j * n + i
  BY <1>1, <1>2, <1>3, DivideFacts, Z3
<1>5. q * n \in Nat /\ j * n \in Nat
  BY Z3
<1>6. ~(q < j)
  <2> SUFFICES ASSUME q + 1 <= j PROVE FALSE
    OBVIOUS
  <2>1. (q + 1) * n <= j * n
    BY TimesOrder
  <2>2. (q + 1) * n = q * n + n
    BY Z3
  <2> QED
    BY <1>3, <1>4, <1>5, <2>1, <2>2
<1>7. ~(j < q)
  <2> SUFFICES ASSUME j + 1 <= q PROVE FALSE
    OBVIOUS
  <2>1. (j + 1) * n <= q * n
    BY TimesOrder
  <2>2. (j + 1) * n = j * n + n
    BY Z3
  <2> QED
    BY <1>3, <1>4, <1>5, <2>1, <2>2
<1>8. q = j
  BY <1>6, <1>7
<1>9. r = i
  BY <1>4, <1>5, <1>8
<1> QED
  BY <1>1, <1>2, <1>3, <1>8, <1>9


\* A column and a row give a cell, and a cell has a column and a row.
LEMMA CellParts ==
    /\ \A j \in 0..(Rows - 1), i \in 0..(Cols - 1) : j * Cols + i \in Cells
    /\ \A c \in Cells : /\ c % Cols \in 0..(Cols - 1) /\ c \div Cols \in 0..(Rows - 1)
                        /\ c = (c \div Cols) * Cols + (c % Cols)
<1>1. Cols \in Nat \ {0} /\ Rows \in Nat \ {0}
  BY GridAssumption
<1>2. Rows * Cols = Cols * Rows /\ Cols * Rows \in Nat /\ Cells = 0..(Rows * Cols - 1)
  BY <1>1, Z3 DEF Cells
<1>3. ASSUME NEW j \in 0..(Rows - 1), NEW i \in 0..(Cols - 1) PROVE j * Cols + i \in Cells
  <2>1. (j + 1) * Cols <= Rows * Cols /\ (j + 1) * Cols \in Nat
    BY <1>1, TimesOrder
  <2>2. (j + 1) * Cols = j * Cols + Cols
    BY <1>1, Z3
  <2>3. j * Cols \in Nat
    BY <1>1, Z3
  <2> QED
    BY <1>1, <1>2, <2>1, <2>2, <2>3
<1>4. ASSUME NEW c \in Cells
      PROVE  /\ c % Cols \in 0..(Cols - 1) /\ c \div Cols \in 0..(Rows - 1)
             /\ c = (c \div Cols) * Cols + (c % Cols)
  <2>1. c \in Nat /\ c \in 0..(Rows * Cols - 1)
    BY <1>2
  <2>2. c \div Cols \in 0..(Rows - 1)
    BY <1>1, <2>1, QuotientBound
  <2>3. c % Cols \in 0..(Cols - 1) /\ c = (c \div Cols) * Cols + (c % Cols)
    BY <1>1, <2>1, DivideFacts
  <2> QED
    BY <2>2, <2>3
<1> QED
  BY <1>3, <1>4

\* Every position on the map is in a cell (TryCellOf).
LEMMA PositionCell == \A pos \in Positions : CellOf(pos) \in Cells
<1> SUFFICES ASSUME NEW pos \in Positions PROVE CellOf(pos) \in Cells
  OBVIOUS
<1>1. /\ Cols \in Nat \ {0} /\ Rows \in Nat \ {0} /\ CellSize \in Nat \ {0}
      /\ pos[1] \in 0..(Cols * CellSize - 1) /\ pos[2] \in 0..(Rows * CellSize - 1)
  BY GridAssumption, ViewsAssumption
<1>2. pos[1] \div CellSize \in 0..(Cols - 1) /\ pos[2] \div CellSize \in 0..(Rows - 1)
  BY <1>1, QuotientBound
<1> QED
  BY <1>2, CellParts DEF CellOf

\* An observer watches exactly the cells it sees (getWatchCellIdx against visible).
LEMMA WatchIsVisible ==
    ASSUME NEW pos \in Positions
    PROVE  WatchCells(pos) = {c \in Cells : Visible(CellOf(pos), c)}
<1>1. PICK a : a = CellOf(pos)
  OBVIOUS
<1>2. a \in Cells
  BY <1>1, PositionCell
<1>3. PICK col \in 0..(Cols - 1) : col = a % Cols
  BY <1>2, CellParts
<1>4. PICK row \in 0..(Rows - 1) : row = a \div Cols
  BY <1>2, CellParts
<1>5. PICK r \in Nat : r = Radius
  <2>1. ViewRange \div CellSize \in Nat
    BY GridAssumption, DivideFacts
  <2>2. Radius \in Nat
    BY <2>1 DEF Radius
  <2> QED
    BY <2>2
<1>6. Cols \in Nat \ {0} /\ Rows \in Nat \ {0}
  BY GridAssumption
<1> DEFINE From(c) == IF c - r < 0 THEN 0 ELSE c - r
           To(c, n) == IF c + r >= n THEN n - 1 ELSE c + r
<1>7. WatchCells(pos) = {j * Cols + i : i \in From(col)..To(col, Cols), j \in From(row)..To(row, Rows)}
  BY <1>1, <1>3, <1>4, <1>5 DEF WatchCells
<1>8. \A c : Visible(a, c) <=> (Distance(col, c % Cols) <= r /\ Distance(row, c \div Cols) <= r)
  BY <1>3, <1>4, <1>5 DEF Visible
<1>9. \A i \in 0..(Cols - 1) : i \in From(col)..To(col, Cols) <=> Distance(col, i) <= r
  BY <1>6 DEF Distance
<1>10. \A j \in 0..(Rows - 1) : j \in From(row)..To(row, Rows) <=> Distance(row, j) <= r
  BY <1>6 DEF Distance
<1>11. From(col)..To(col, Cols) \subseteq 0..(Cols - 1) /\ From(row)..To(row, Rows) \subseteq 0..(Rows - 1)
  BY <1>6
<1>12. ASSUME NEW i \in From(col)..To(col, Cols), NEW j \in From(row)..To(row, Rows)
       PROVE  j * Cols + i \in {c \in Cells : Visible(a, c)}
  <2>1. i \in 0..(Cols - 1) /\ j \in 0..(Rows - 1) /\ j \in Nat
    BY <1>11
  <2>2. PICK c : c = j * Cols + i
    OBVIOUS
  <2>3. c \in Cells /\ c % Cols = i /\ c \div Cols = j
    BY <1>6, <2>1, <2>2, CellParts, CellNumber
  <2>4. Distance(col, i) <= r /\ Distance(row, j) <= r
    BY <1>9, <1>10, <2>1
  <2> QED
    BY <1>8, <2>2, <2>3, <2>4
<1>13. ASSUME NEW c \in Cells, Visible(a, c)
       PROVE  \E i \in From(col)..To(col, Cols), j \in From(row)..To(row, Rows) : c = j * Cols + i
  <2>1. c % Cols \in 0..(Cols - 1) /\ c \div Cols \in 0..(Rows - 1) /\ c = (c \div Cols) * Cols + (c % Cols)
    BY CellParts
  <2>2. Distance(col, c % Cols) <= r /\ Distance(row, c \div Cols) <= r
    BY <1>8, <1>13
  <2> HIDE DEF From, To
  <2> QED
    BY <1>9, <1>10, <2>1, <2>2
<1> HIDE DEF From, To
<1> QED
  BY <1>1, <1>7, <1>12, <1>13

\* A cell sees itself: an entity watches its own cell.
LEMMA CellSeesItself == \A c \in Cells : Visible(c, c)
<1>1. Radius \in Nat
  <2>1. ViewRange \div CellSize \in Nat
    BY GridAssumption, DivideFacts
  <2> QED
    BY <2>1 DEF Radius
<1>2. \A n \in Nat : Distance(n, n) = 0
  BY DEF Distance
<1> QED
  BY <1>1, <1>2, CellParts DEF Visible


-----------------------------------------------------------------------------
(* States of entities, observers and clients *)

\* A state of an entity is Absent or has a generation, a version and a position.
LEMMA StateFacts ==
    /\ Absent \in States
    /\ \A s \in States : s # Absent => /\ s.gen \in Nat \ {0} /\ s.ver \in Nat \ {0} /\ s.pos \in Positions
                                       /\ s = [gen |-> s.gen, ver |-> s.ver, pos |-> s.pos]
    /\ \A s \in States : s = Absent <=> s.gen = 0
    /\ \A s \in States : s.gen \in Nat /\ s.ver \in Nat
BY DEF States, Absent

\* An entity that enters (EnterScene, onRemoteEntry).
LEMMA EnteredState ==
    ASSUME NEW n \in Nat, NEW pos \in Positions
    PROVE  LET s == [gen |-> n + 1, ver |-> 1, pos |-> pos] IN
           s \in States /\ s # Absent /\ s.gen = n + 1 /\ s.ver = 1 /\ s.pos = pos
<1>1. PICK g \in Nat \ {0} : g = n + 1
  OBVIOUS
<1>2. [gen |-> g, ver |-> 1, pos |-> pos] \in States
  BY DEF States
<1>3. [gen |-> g, ver |-> 1, pos |-> pos].gen # Absent.gen
  BY DEF Absent
<1> QED
  BY <1>1, <1>2, <1>3

\* An entity that moves (Move, onRemoteMove).
LEMMA MovedState ==
    ASSUME NEW s \in States, s # Absent, NEW pos \in Positions
    PROVE  LET m == [s EXCEPT !.ver = @ + 1, !.pos = pos] IN
           m \in States /\ m # Absent /\ m.gen = s.gen /\ m.ver = s.ver + 1 /\ m.pos = pos
<1>1. s \in [gen : Nat \ {0}, ver : Nat \ {0}, pos : Positions]
  BY DEF States
<1>2. PICK v \in Nat \ {0} : v = s.ver + 1
  BY <1>1
<1>3. PICK m : m = [s EXCEPT !.ver = v, !.pos = pos]
  OBVIOUS
<1>4. m \in [gen : Nat \ {0}, ver : Nat \ {0}, pos : Positions] /\ m.gen = s.gen /\ m.ver = v /\ m.pos = pos
  BY <1>1, <1>3
<1>5. m \in States /\ m # Absent
  BY <1>4, StateFacts DEF States
<1> QED
  BY <1>2, <1>3, <1>4, <1>5

\* The observers that registryObserver and unregisterObserver leave.
LEMMA ObserverFacts ==
    /\ NoView \in Views /\ NoView.epoch = 0
    /\ \A n \in 0..MaxEpoch : Observer(n) \in Views /\ Observer(n).epoch = n /\ Observer(n).resync = TRUE
<1>1. [e \in Ids |-> Nothing] \in [Ids -> [gen : Nat, ver : Nat]]
  BY DEF Nothing
<1>2. PICK b \in [Ids -> [gen : Nat, ver : Nat]] : b = [e \in Ids |-> Nothing]
  BY <1>1
<1>3. ASSUME NEW n \in 0..MaxEpoch, NEW r \in BOOLEAN
      PROVE  [epoch |-> n, base |-> b, seq |-> 1, resync |-> r] \in Views
  <2>1. 1 \in Nat
    OBVIOUS
  <2> QED
    BY <2>1, Zenon DEF Views
<1>4. NoView = [epoch |-> 0, base |-> b, seq |-> 1, resync |-> FALSE]
  BY <1>2 DEF NoView
<1>5. 0 \in 0..MaxEpoch
  BY ViewsAssumption
<1>6. NoView \in Views /\ NoView.epoch = 0
  <2>1. PICK r \in BOOLEAN : r = FALSE
    OBVIOUS
  <2>2. NoView = [epoch |-> 0, base |-> b, seq |-> 1, resync |-> r]
    BY <1>4, <2>1
  <2> QED
    BY <1>3, <1>5, <2>2
<1>7. ASSUME NEW n \in 0..MaxEpoch
      PROVE  Observer(n) \in Views /\ Observer(n).epoch = n /\ Observer(n).resync = TRUE
  <2>1. PICK r \in BOOLEAN : r = TRUE
    OBVIOUS
  <2>2. PICK m : m = [NoView EXCEPT !.epoch = n, !.resync = r]
    OBVIOUS
  <2>3. NoView \in [epoch : 0..MaxEpoch, base : [Ids -> [gen : Nat, ver : Nat]], seq : Nat, resync : BOOLEAN]
    BY <1>6 DEF Views
  <2>4. m \in [epoch : 0..MaxEpoch, base : [Ids -> [gen : Nat, ver : Nat]], seq : Nat, resync : BOOLEAN]
    BY <2>2, <2>3, Zenon
  <2>5. m.epoch = n /\ m.resync = r
    BY <2>2, <2>3
  <2>6. Observer(n) = m
    BY <2>1, <2>2 DEF Observer
  <2> QED
    BY <2>1, <2>4, <2>5, <2>6 DEF Views
<1> QED
  BY <1>6, <1>7

\* The fields of an observer and of a client.
LEMMA RecordFacts ==
    ASSUME TypeOK, NEW p \in Locals
    PROVE  /\ views[p] \in Views /\ views[p].epoch \in 0..MaxEpoch /\ views[p].seq \in Nat
           /\ views[p].base \in [Ids -> [gen : Nat, ver : Nat]] /\ views[p].resync \in BOOLEAN
           /\ client[p] \in Clients /\ client[p].seq \in Nat /\ client[p].view \in [Ids -> States]
           /\ client[p].broken \in BOOLEAN
           /\ binding[p] \in 0..MaxEpoch /\ latest[p] \in 0..MaxEpoch /\ p \in Ids
<1>1. views[p] \in Views /\ client[p] \in Clients /\ binding[p] \in 0..MaxEpoch /\ latest[p] \in 0..MaxEpoch
  BY DEF TypeOK
<1> QED
  BY <1>1 DEF Views, Clients, Ids

-----------------------------------------------------------------------------
(* The grid *)

\* The two halves of GridInv: the entities and the watchers of every cell.
InCells == \A c \in Cells : entys[c] = {e \in Ids : Here(e) /\ CellOf(ents[e].pos) = c}
Watching == \A c \in Cells : watchers[c] = {p \in Locals : Here(p) /\ Visible(CellOf(ents[p].pos), c)}

\* removeEntity and addEntity leave every entity in its cell only.
LEMMA PlacedKeeps ==
    ASSUME NEW new, InCells, entys' = Placed(new),
           \A e \in Ids : ents'[e] = IF e \in DOMAIN new THEN new[e] ELSE ents[e]
    PROVE  InCells' /\ entys' \in [Cells -> SUBSET Ids]
<1>1. entys' \in [Cells -> SUBSET Ids]
  BY DEF Placed
<1>2. ASSUME NEW c \in Cells, NEW e \in Ids
      PROVE  e \in entys'[c] <=> (Here(e)' /\ CellOf(ents'[e].pos) = c)
  <2>1. e \in entys'[c] <=> IF e \in DOMAIN new THEN new[e] # Absent /\ CellOf(new[e].pos) = c ELSE e \in entys[c]
    BY DEF Placed
  <2>2. e \in entys[c] <=> (Here(e) /\ CellOf(ents[e].pos) = c)
    BY DEF InCells
  <2>3. ents'[e] = IF e \in DOMAIN new THEN new[e] ELSE ents[e]
    OBVIOUS
  <2> QED
    BY <2>1, <2>2, <2>3 DEF Here
<1> QED
  BY <1>1, <1>2 DEF InCells

\* addWatcher and removeWatcher leave an entity watching what it sees.
LEMMA WatchKeeps ==
    ASSUME TypeOK, Watching, NEW p \in Locals, NEW s \in States, ents' = [ents EXCEPT ![p] = s],
           watchers' = WatchFrom(p, IF s = Absent THEN {} ELSE WatchCells(s.pos))
    PROVE  Watching' /\ watchers' \in [Cells -> SUBSET Locals]
<1>1. p \in Ids
  BY DEF Ids
<1>2. ents'[p] = s /\ \A q \in Locals \ {p} : ents'[q] = ents[q]
  BY <1>1 DEF TypeOK, Ids
<1>3. PICK cells : cells = IF s = Absent THEN {} ELSE WatchCells(s.pos)
  OBVIOUS
<1>4. \A c \in Cells : c \in cells <=> (s # Absent /\ Visible(CellOf(s.pos), c))
  <2>1. CASE s = Absent
    BY <1>3, <2>1
  <2>2. CASE s # Absent
    BY <1>3, <2>2, StateFacts, WatchIsVisible
  <2> QED
    BY <2>1, <2>2
<1>5. watchers' = [c \in Cells |-> IF c \in cells THEN watchers[c] \cup {p} ELSE watchers[c] \ {p}]
  BY <1>3 DEF WatchFrom
<1>6. watchers' \in [Cells -> SUBSET Locals]
  BY <1>5 DEF TypeOK
<1>7. ASSUME NEW c \in Cells, NEW q \in Locals
      PROVE  q \in watchers'[c] <=> (Here(q)' /\ Visible(CellOf(ents'[q].pos), c))
  <2>1. CASE q = p
    BY <1>2, <1>4, <1>5, <2>1 DEF Here
  <2>2. CASE q # p
    <3>1. q \in watchers'[c] <=> q \in watchers[c]
      BY <1>5, <2>2
    <3>2. q \in watchers[c] <=> (Here(q) /\ Visible(CellOf(ents[q].pos), c))
      BY DEF Watching
    <3> QED
      BY <1>2, <2>2, <3>1, <3>2 DEF Here
  <2> QED
    BY <2>1, <2>2
<1> QED
  BY <1>6, <1>7 DEF Watching

\* What an entity that does not mark an observer is for it: out of sight, before and after.
Unseen(p, e) ==
    /\ Here(e) => ~Visible(CellOf(ents[p].pos), CellOf(ents[e].pos))
    /\ Here(e)' => ~Visible(CellOf(ents[p].pos), CellOf(ents'[e].pos))

\* An observer in no watched cell of an entity's way does not see it.
LEMMA UnmarkedUnseen ==
    ASSUME TypeOK, TypeOK', NEW p \in Locals, NEW w, NEW e \in Ids, p \notin Marks(w, e, ents'[e]),
           \A c \in Cells : Visible(CellOf(ents[p].pos), c) => p \in w[c]
    PROVE  Unseen(p, e)
<1>1. ents[e] \in States /\ ents'[e] \in States
  BY DEF TypeOK
<1>2. Here(e) => CellOf(ents[e].pos) \in Cells
  BY <1>1, StateFacts, PositionCell DEF Here
<1>3. Here(e)' => CellOf(ents'[e].pos) \in Cells
  BY <1>1, StateFacts, PositionCell DEF Here
<1>4. Here(e) => p \notin w[CellOf(ents[e].pos)]
  BY DEF Marks
<1>5. Here(e)' => p \notin w[CellOf(ents'[e].pos)]
  BY DEF Marks, Here
<1> QED
  BY <1>2, <1>3, <1>4, <1>5 DEF Unseen

\* What an observer should see does not change when nothing it sees does.
LEMMA SceneryKept ==
    ASSUME NEW p \in Locals, ents'[p] = ents[p],
           \A e \in Ids : ents'[e] = ents[e] \/ Unseen(p, e)
    PROVE  Scenery(p)' = Scenery(p)
<1>1. ASSUME NEW e \in Ids
      PROVE  (IF e # p /\ Here(e)' /\ Visible(CellOf(ents'[p].pos), CellOf(ents'[e].pos))
              THEN ents'[e] ELSE Absent)
             = (IF e # p /\ Here(e) /\ Visible(CellOf(ents[p].pos), CellOf(ents[e].pos))
                THEN ents[e] ELSE Absent)
  <2>1. CASE ents'[e] = ents[e]
    BY <2>1 DEF Here
  <2>2. CASE Unseen(p, e)
    BY <2>2 DEF Unseen
  <2> QED
    BY <2>1, <2>2
<1> QED
  BY <1>1 DEF Scenery


-----------------------------------------------------------------------------
(* Steps of the scene *)

\* How an entity goes from a state to the next: it stays, leaves, enters with
\* a new generation, or has a newer version.
Evolves(e) ==
    \/ ents'[e] = ents[e] /\ generation'[e] = generation[e]
    \/ ents'[e] = Absent /\ generation'[e] = generation[e]
    \/ ents'[e].gen = generation[e] + 1 /\ generation'[e] = generation[e] + 1
    \/ /\ Here(e) /\ generation'[e] = generation[e]
       /\ ents'[e].gen = ents[e].gen /\ ents'[e].ver = ents[e].ver + 1

\* A state of the past stays one.
LEMMA HadStays ==
    ASSUME TypeOK, TypeOK', NEW e \in Ids, Evolves(e), Here(e) => ents[e].gen = generation[e]
    PROVE  /\ Here(e)' => ents'[e].gen = generation'[e]
           /\ \A s \in States : HadState(s, e) => HadState(s, e)'
<1>1. /\ ents[e] \in States /\ ents'[e] \in States /\ generation[e] \in Nat /\ generation'[e] \in Nat
      /\ Absent \in States
  BY StateFacts DEF TypeOK
<1>2. /\ ents[e].gen \in Nat /\ ents[e].ver \in Nat /\ ents'[e].gen \in Nat /\ ents'[e].ver \in Nat
      /\ ents[e] = Absent <=> ents[e].gen = 0
      /\ ents'[e] = Absent <=> ents'[e].gen = 0
  BY <1>1, StateFacts
<1>3. Here(e)' => ents'[e].gen = generation'[e]
  BY <1>2 DEF Evolves, Here
<1>4. ASSUME NEW s \in States, HadState(s, e) PROVE HadState(s, e)'
  <2>1. s.gen \in Nat /\ s.ver \in Nat
    BY StateFacts
  <2>2. CASE ents'[e] = ents[e] /\ generation'[e] = generation[e]
    BY <1>4, <2>2 DEF HadState, Here
  <2>3. CASE ents'[e] = Absent /\ generation'[e] = generation[e]
    BY <1>4, <2>3 DEF HadState, Here
  <2>4. CASE ents'[e].gen = generation[e] + 1 /\ generation'[e] = generation[e] + 1
    <3>1. s # Absent => s.gen <= generation[e]
      BY <1>4 DEF HadState
    <3> QED
      BY <1>1, <1>2, <2>1, <2>4, <3>1 DEF HadState
  <2>5. CASE /\ Here(e) /\ generation'[e] = generation[e]
             /\ ents'[e].gen = ents[e].gen /\ ents'[e].ver = ents[e].ver + 1
    <3>1. s # Absent => /\ s.gen <= generation[e]
                        /\ s.gen = ents[e].gen => s.ver <= ents[e].ver
      BY <1>4, <2>5 DEF HadState
    <3> QED
      BY <1>1, <1>2, <2>1, <2>5, <3>1 DEF HadState
  <2> QED
    BY <2>2, <2>3, <2>4, <2>5 DEF Evolves
<1> QED
  BY <1>3, <1>4

\* What clients know is not affected by what entities do, nor by a new client.
LEMMA HistoryScene ==
    ASSUME TypeOK, TypeOK', HistoryInv, \A e \in Ids : Evolves(e),
           \A p \in Locals : client'[p] = client[p] \/ client'[p] = NewClient
    PROVE  HistoryInv'
<1>1. ASSUME NEW e \in Ids
      PROVE  /\ Here(e)' => ents'[e].gen = generation'[e]
             /\ \A s \in States : HadState(s, e) => HadState(s, e)'
  BY HadStays DEF HistoryInv
<1>2. ASSUME NEW p \in Locals
      PROVE  ~client'[p].broken /\ \A e \in Ids : HadState(client[p].view[e], e)'
  <2>1. CASE client'[p] = client[p]
    <3>1. client[p].view \in [Ids -> States]
      BY RecordFacts
    <3>2. ASSUME NEW e \in Ids PROVE HadState(client[p].view[e], e)'
      <4>1. PICK s \in States : s = client[p].view[e]
        BY <3>1
      <4>2. HadState(s, e)
        BY <4>1 DEF HistoryInv
      <4>3. HadState(s, e)'
        BY <1>1, <4>2
      <4> QED
        BY <2>1, <4>1, <4>3 DEF HadState
    <3> QED
      BY <2>1, <3>2 DEF HistoryInv
  <2>2. CASE client'[p] = NewClient
    BY <2>2 DEF NewClient, HadState
  <2> QED
    BY <2>1, <2>2
<1> QED
  BY <1>1, <1>2 DEF HistoryInv

\* What a step of the scene may leave of player p: an observer that waits for
\* a snapshot, or none; or the observer as it was, marked or seeing nothing new.
Minded(p) ==
    \/ /\ client'[p] = client[p] \/ client'[p] = NewClient
       /\ views'[p].epoch = 0 \/ views'[p].resync
    \/ /\ client'[p] = client[p] /\ views'[p] = views[p]
       /\ Observes(p) => \/ p \in dirty'
                         \/ /\ p \notin dirty /\ ents'[p] = ents[p]
                            /\ \A e \in Ids : ents'[e] = ents[e] \/ Unseen(p, e)

\* Such a step keeps the invariant.
LEMMA SceneStep ==
    ASSUME ViewInv, ClientFollows, TypeOK', GridInv', ObserverInv',
           \A e \in Ids : Evolves(e),
           \A p \in Locals : Minded(p)
    PROVE  ViewInv' /\ ClientFollows'
<1> USE DEF Minded
<1>1. HistoryInv'
  BY HistoryScene DEF ViewInv
<1>2. ASSUME NEW p \in Locals, Settled(p)' PROVE client'[p].view = Scenery(p)'
  <2>1. /\ client'[p] = client[p]
        /\ views'[p] = views[p] /\ Observes(p) /\ p \notin dirty /\ ents'[p] = ents[p]
        /\ \A e \in Ids : ents'[e] = ents[e] \/ Unseen(p, e)
    BY <1>2 DEF Settled, Observes
  <2>2. Settled(p)
    BY <1>2, <2>1 DEF Settled
  <2>3. client[p].view = Scenery(p)
    BY <2>2 DEF ViewInv
  <2>4. Scenery(p)' = Scenery(p)
    BY <2>1, SceneryKept
  <2> QED
    BY <2>1, <2>3, <2>4
<1>3. ASSUME NEW p \in Locals, Observes(p)'
      PROVE  /\ ~client'[p].broken
             /\ ~views'[p].resync => /\ client'[p].seq + 1 = views'[p].seq
                                     /\ \A e \in Ids : Sent(client'[p].view[e]) = views'[p].base[e]
  <2>1. ~client'[p].broken
    BY <1>1 DEF HistoryInv
  <2>2. ASSUME ~views'[p].resync
        PROVE  /\ client'[p].seq + 1 = views'[p].seq
               /\ \A e \in Ids : Sent(client'[p].view[e]) = views'[p].base[e]
    <3>1. client'[p] = client[p] /\ views'[p] = views[p]
      BY <1>3, <2>2 DEF Observes
    <3>2. Observes(p) /\ ~views[p].resync
      BY <1>3, <2>2, <3>1 DEF Observes
    <3> QED
      BY <3>1, <3>2 DEF ClientFollows, Sent
  <2> QED
    BY <2>1, <2>2
<1>4. ClientFollows'
  BY <1>3 DEF ClientFollows, Sent
<1> QED
  BY <1>1, <1>2, <1>4 DEF ViewInv

\* Only players of this worker are marked.
LEMMA MarksLocal ==
    ASSUME TypeOK, NEW w \in [Cells -> SUBSET Locals], NEW e \in Ids, NEW s \in States
    PROVE  Marks(w, e, s) \subseteq Locals
<1>1. Here(e) => CellOf(ents[e].pos) \in Cells
  BY StateFacts, PositionCell DEF Here, TypeOK
<1>2. s # Absent => CellOf(s.pos) \in Cells
  BY StateFacts, PositionCell
<1> QED
  BY <1>1, <1>2 DEF Marks

\* What onLocalEntry, onLocalMove and onLocalLeave do to the scene.
LocalScene(p, s) ==
    /\ ents' = [ents EXCEPT ![p] = s] /\ entys' = Placed([x \in {p} |-> s])
    /\ watchers' = WatchFrom(p, IF s = Absent THEN {} ELSE WatchCells(s.pos))
    /\ dirty' \subseteq Locals
    /\ \A q \in dirty \cup Marks(watchers', p, s) : q \in dirty' \/ (q = p /\ s = Absent)
    /\ Evolves(p) /\ generation' \in [Ids -> Nat] /\ \A e \in Ids \ {p} : generation'[e] = generation[e]

\* What their callers do to the observers.
LocalViews(p, s) ==
    /\ views' \in [Locals -> Views] /\ \A q \in Locals \ {p} : views'[q] = views[q]
    /\ s = Absent => views'[p].epoch = 0
    /\ s # Absent => /\ views'[p].epoch = 0 \/ views'[p].epoch = binding'[p]
                     /\ views'[p] = views[p] \/ views'[p].resync
    /\ binding' \in [Locals -> 0..MaxEpoch] /\ latest' = latest /\ binding'[p] <= latest[p]
    /\ \A q \in Locals \ {p} : binding'[q] = binding[q]
    /\ client' = client

LEMMA LocalStep ==
    ASSUME ViewInv, ClientFollows, NEW p \in Locals, NEW s \in States, LocalScene(p, s), LocalViews(p, s)
    PROVE  ViewInv' /\ ClientFollows'
<1> USE DEF LocalScene, LocalViews
<1>1. TypeOK /\ InCells /\ Watching /\ ObserverInv /\ p \in Ids
  BY DEF ViewInv, GridInv, InCells, Watching, Ids
<1>2. ents' \in [Ids -> States] /\ ents'[p] = s /\ \A e \in Ids \ {p} : ents'[e] = ents[e]
  BY <1>1 DEF TypeOK
<1>3. InCells' /\ entys' \in [Cells -> SUBSET Ids]
  <2>1. PICK new : new = [x \in {p} |-> s]
    OBVIOUS
  <2>2. DOMAIN new = {p} /\ new[p] = s
    BY <2>1
  <2>3. \A e \in Ids : ents'[e] = IF e \in DOMAIN new THEN new[e] ELSE ents[e]
    BY <1>2, <2>2
  <2>4. entys' = Placed(new)
    BY <2>1
  <2> HIDE <2>1
  <2> QED
    BY <1>1, <2>3, <2>4, PlacedKeeps
<1>4. Watching' /\ watchers' \in [Cells -> SUBSET Locals]
  BY <1>1, WatchKeeps
<1>5. GridInv'
  BY <1>3, <1>4 DEF GridInv, InCells, Watching
<1>6. TypeOK'
  BY <1>1, <1>2, <1>3, <1>4 DEF TypeOK
<1>7. \A q \in Locals \ {p} : Here(q)' <=> Here(q)
  BY <1>2 DEF Here, Ids
<1>8. ObserverInv'
  BY <1>1, <1>2, <1>7 DEF ObserverInv, Observes, Here
<1>9. \A e \in Ids : Evolves(e)
  BY <1>2 DEF Evolves
<1>10. ASSUME NEW q \in Locals PROVE Minded(q)
  <2> USE DEF Minded
  <2>1. CASE q = p /\ s = Absent
    BY <2>1
  <2>2. CASE q = p /\ s # Absent
    <3>1. CellOf(s.pos) \in Cells
      BY <2>2, StateFacts, PositionCell
    <3>2. p \in watchers'[CellOf(s.pos)]
      BY <1>2, <1>4, <2>2, <3>1, CellSeesItself DEF Watching, Here
    <3>3. p \in dirty'
      BY <2>2, <3>2 DEF Marks
    <3> QED
      BY <2>2, <3>3
  <2>3. CASE q # p
    <3>1. views'[q] = views[q] /\ client'[q] = client[q] /\ ents'[q] = ents[q]
      BY <1>2, <2>3 DEF Ids
    <3>2. ASSUME Observes(q), q \notin dirty', NEW e \in Ids PROVE ents'[e] = ents[e] \/ Unseen(q, e)
      <4>1. Here(q)'
        BY <1>1, <1>7, <2>3, <3>2 DEF ObserverInv
      <4>2. \A c \in Cells : Visible(CellOf(ents[q].pos), c) => q \in watchers'[c]
        BY <1>4, <3>1, <4>1 DEF Watching
      <4>3. q \notin Marks(watchers', p, ents'[p])
        BY <1>2, <2>3, <3>2
      <4>4. Unseen(q, p)
        BY <1>1, <1>6, <4>2, <4>3, UnmarkedUnseen
      <4> QED
        BY <1>2, <4>4
    <3> QED
      BY <2>3, <3>1, <3>2
  <2> QED
    BY <2>1, <2>2, <2>3
<1> QED
  BY <1>5, <1>6, <1>8, <1>9, <1>10, SceneStep


-----------------------------------------------------------------------------
(* The handlers of players *)

LEMMA EnterStep ==
    ASSUME ViewInv, ClientFollows, NEW p \in Locals, NEW pos \in Positions, EnterScene(p, pos)
    PROVE  ViewInv' /\ ClientFollows'
<1>1. TypeOK /\ ObserverInv /\ p \in Ids
  BY DEF ViewInv, Ids
<1>2. PICK s : s = [gen |-> generation[p] + 1, ver |-> 1, pos |-> pos]
  OBVIOUS
<1>3. s \in States /\ s # Absent /\ s.gen = generation[p] + 1 /\ s.pos = pos
  <2>1. generation[p] \in Nat
    BY <1>1 DEF TypeOK
  <2> QED
    BY <1>2, <2>1, EnteredState
<1>4. /\ ents' = [ents EXCEPT ![p] = s] /\ entys' = Placed([x \in {p} |-> s])
      /\ watchers' = WatchFrom(p, WatchCells(pos))
      /\ dirty' = dirty \cup Marks(watchers', p, s) \cup {p}
  BY <1>2 DEF EnterScene
<1>5. watchers' = WatchFrom(p, IF s = Absent THEN {} ELSE WatchCells(s.pos))
  BY <1>3, <1>4
<1>6. watchers' \in [Cells -> SUBSET Locals]
  BY <1>1, <1>4 DEF TypeOK, WatchFrom
<1>7. dirty' \subseteq Locals
  BY <1>1, <1>3, <1>4, <1>6, MarksLocal DEF TypeOK
<1>8. PICK n \in Nat : n = generation[p] + 1
  BY <1>1 DEF TypeOK
<1>9. generation' = [generation EXCEPT ![p] = n]
  BY <1>8 DEF EnterScene
<1>10. generation' \in [Ids -> Nat] /\ generation'[p] = n /\ \A e \in Ids \ {p} : generation'[e] = generation[e]
  BY <1>1, <1>9 DEF TypeOK
<1>11. ents'[p] = s
  BY <1>1, <1>4 DEF TypeOK
<1>12. Evolves(p)
  BY <1>3, <1>8, <1>10, <1>11 DEF Evolves
<1>13. binding[p] \in 0..MaxEpoch /\ views[p].epoch = 0 /\ binding[p] # 0
  BY <1>1, RecordFacts DEF EnterScene, ObserverInv, Observes
<1>14. views' = [views EXCEPT ![p] = Observer(binding[p])]
  <2>1. ~(views[p].epoch >= binding[p])
    BY <1>13
  <2>2. views' = [views EXCEPT ![p] = IF views[p].epoch >= binding[p] THEN views[p] ELSE Observer(binding[p])]
    BY Zenon DEF EnterScene
  <2> QED
    BY <2>1, <2>2
<1>15. Observer(binding[p]) \in Views /\ Observer(binding[p]).epoch = binding[p] /\ Observer(binding[p]).resync
  BY <1>13, ObserverFacts
<1>16. /\ views' \in [Locals -> Views] /\ views'[p].epoch = binding[p] /\ views'[p].resync
       /\ \A q \in Locals \ {p} : views'[q] = views[q]
  BY <1>1, <1>14, <1>15 DEF TypeOK
<1>17. binding' = binding /\ latest' = latest /\ client' = client
  BY DEF EnterScene, sessions
<1>18. binding' \in [Locals -> 0..MaxEpoch] /\ binding'[p] <= latest[p]
  BY <1>1, <1>17 DEF TypeOK, ObserverInv
<1>19. LocalScene(p, s)
  BY <1>3, <1>4, <1>5, <1>7, <1>10, <1>12, <1>16, <1>17, <1>18 DEF LocalScene
<1>20. LocalViews(p, s)
  BY <1>3, <1>4, <1>5, <1>7, <1>10, <1>12, <1>16, <1>17, <1>18 DEF LocalViews
<1> QED
  BY <1>3, <1>19, <1>20, LocalStep

LEMMA MoveStep ==
    ASSUME ViewInv, ClientFollows, NEW p \in Locals, NEW pos \in Positions, Move(p, pos)
    PROVE  ViewInv' /\ ClientFollows'
<1>1. TypeOK /\ ObserverInv /\ p \in Ids
  BY DEF ViewInv, Ids
<1>2. PICK s : s = [ents[p] EXCEPT !.ver = @ + 1, !.pos = pos]
  OBVIOUS
<1>3. s \in States /\ s # Absent /\ s.gen = ents[p].gen /\ s.ver = ents[p].ver + 1 /\ s.pos = pos
  <2>1. ents[p] \in States /\ ents[p] # Absent
    BY <1>1 DEF TypeOK, Move, Here
  <2> QED
    BY <1>2, <2>1, MovedState
<1>4. PlaceLocal(p, s) /\ UNCHANGED <<generation, views, sessions, client>>
  BY <1>2 DEF Move
<1>5. /\ ents' = [ents EXCEPT ![p] = s] /\ entys' = Placed([x \in {p} |-> s])
      /\ watchers' = WatchFrom(p, IF s = Absent THEN {} ELSE WatchCells(s.pos))
      /\ dirty' = (dirty \cup Marks(watchers', p, s)) \ (IF s = Absent THEN {p} ELSE {})
  BY <1>4 DEF PlaceLocal
<1>6. watchers' \in [Cells -> SUBSET Locals]
  BY <1>1, <1>5 DEF TypeOK, WatchFrom
<1>7. dirty' \subseteq Locals
  BY <1>1, <1>3, <1>5, <1>6, MarksLocal DEF TypeOK
<1>8. ents'[p] = s
  BY <1>1, <1>5 DEF TypeOK
<1>9. Evolves(p)
  BY <1>3, <1>4, <1>8 DEF Evolves, Move
<1>10. generation' = generation /\ views' = views /\ binding' = binding /\ latest' = latest /\ client' = client
  BY <1>4 DEF sessions
<1>11. /\ generation' \in [Ids -> Nat] /\ views' \in [Locals -> Views] /\ binding' \in [Locals -> 0..MaxEpoch]
       /\ binding'[p] <= latest[p] /\ (views'[p].epoch = 0 \/ views'[p].epoch = binding'[p])
  <2>1. generation' \in [Ids -> Nat] /\ views' \in [Locals -> Views] /\ binding' \in [Locals -> 0..MaxEpoch]
    BY <1>1, <1>10 DEF TypeOK
  <2>2. binding[p] <= latest[p] /\ (views[p].epoch = 0 \/ views[p].epoch = binding[p])
    BY <1>1 DEF ObserverInv, Observes
  <2> QED
    BY <1>10, <2>1, <2>2
<1>12. LocalScene(p, s)
  BY <1>3, <1>5, <1>7, <1>9, <1>10, <1>11 DEF LocalScene
<1>13. LocalViews(p, s)
  BY <1>3, <1>5, <1>7, <1>9, <1>10, <1>11 DEF LocalViews
<1> QED
  BY <1>3, <1>12, <1>13, LocalStep

\* An entity leaves and takes its observer along.
LEMMA GoneStep ==
    ASSUME ViewInv, ClientFollows, NEW p \in Locals, Here(p), PlaceLocal(p, Absent),
           views' = [views EXCEPT ![p] = NoView], generation' = generation, latest' = latest, client' = client,
           binding' = binding \/ binding' = [binding EXCEPT ![p] = 0]
    PROVE  ViewInv' /\ ClientFollows'
<1>1. TypeOK /\ ObserverInv /\ p \in Ids
  BY DEF ViewInv, Ids
<1>2. PICK s \in States : s = Absent
  BY StateFacts
<1>3. /\ ents' = [ents EXCEPT ![p] = s] /\ entys' = Placed([x \in {p} |-> s])
      /\ watchers' = WatchFrom(p, IF s = Absent THEN {} ELSE WatchCells(s.pos))
      /\ dirty' = (dirty \cup Marks(watchers', p, s)) \ (IF s = Absent THEN {p} ELSE {})
  BY <1>2 DEF PlaceLocal
<1>4. watchers' \in [Cells -> SUBSET Locals]
  BY <1>1, <1>3 DEF TypeOK, WatchFrom
<1>5. dirty' \subseteq Locals
  BY <1>1, <1>3, <1>4, MarksLocal DEF TypeOK
<1>6. \A q \in dirty \cup Marks(watchers', p, s) : q \in dirty' \/ (q = p /\ s = Absent)
  BY <1>2, <1>3
<1>7. Evolves(p)
  BY <1>1, <1>2, <1>3 DEF Evolves, TypeOK
<1>8. /\ views' \in [Locals -> Views] /\ views'[p].epoch = 0
      /\ \A q \in Locals \ {p} : views'[q] = views[q]
  BY <1>1, ObserverFacts DEF TypeOK
<1>9. /\ binding' \in [Locals -> 0..MaxEpoch] /\ binding'[p] <= latest[p]
      /\ \A q \in Locals \ {p} : binding'[q] = binding[q]
  <2>1. binding[p] \in 0..MaxEpoch /\ latest[p] \in 0..MaxEpoch /\ 0 \in 0..MaxEpoch
    BY <1>1, RecordFacts, ViewsAssumption
  <2>2. binding[p] <= latest[p] /\ 0 <= latest[p]
    BY <1>1, <2>1 DEF ObserverInv
  <2>3. CASE binding' = binding
    BY <1>1, <2>2, <2>3 DEF TypeOK
  <2>4. CASE binding' = [binding EXCEPT ![p] = 0]
    <3>1. binding' \in [Locals -> 0..MaxEpoch] /\ binding'[p] = 0
      BY <1>1, <2>1, <2>4 DEF TypeOK
    <3> QED
      BY <1>1, <2>2, <2>4, <3>1 DEF TypeOK
  <2> QED
    BY <2>3, <2>4
<1>10. generation' \in [Ids -> Nat] /\ \A e \in Ids \ {p} : generation'[e] = generation[e]
  BY <1>1 DEF TypeOK
<1>11. LocalScene(p, s)
  BY <1>2, <1>3, <1>5, <1>6, <1>7, <1>8, <1>9, <1>10 DEF LocalScene
<1>12. LocalViews(p, s)
  BY <1>2, <1>3, <1>5, <1>6, <1>7, <1>8, <1>9, <1>10 DEF LocalViews
<1> QED
  BY <1>2, <1>11, <1>12, LocalStep

\* A step that leaves the scene alone.
StillChange ==
    /\ scene' = scene /\ views' \in [Locals -> Views] /\ client' \in [Locals -> Clients]
    /\ dirty \subseteq dirty' /\ dirty' \subseteq Locals
    /\ binding' \in [Locals -> 0..MaxEpoch] /\ latest' \in [Locals -> 0..MaxEpoch]
    /\ \A p \in Locals :
           \/ /\ client'[p] = client[p] \/ client'[p] = NewClient
              /\ views'[p].epoch = 0 \/ views'[p].resync
           \/ client'[p] = client[p] /\ views'[p] = views[p]

LEMMA StillStep ==
    ASSUME ViewInv, ClientFollows, StillChange, ObserverInv'
    PROVE  ViewInv' /\ ClientFollows'
<1> USE DEF StillChange
<1>1. TypeOK /\ ents' = ents /\ generation' = generation /\ entys' = entys /\ watchers' = watchers
  BY DEF ViewInv, scene
<1>2. TypeOK'
  BY <1>1 DEF TypeOK
<1>3. GridInv'
  <2>1. GridInv
    BY DEF ViewInv
  <2> QED
    BY <1>1, <2>1 DEF GridInv, Here
<1>4. \A e \in Ids : Evolves(e)
  BY <1>1 DEF Evolves
<1>5. ASSUME NEW p \in Locals PROVE Minded(p)
  BY <1>1 DEF Minded
<1> QED
  BY <1>2, <1>3, <1>4, <1>5, SceneStep


LEMMA LeaveStep ==
    ASSUME ViewInv, ClientFollows, NEW p \in Locals, LeaveScene(p)
    PROVE  ViewInv' /\ ClientFollows'
<1>1. /\ Here(p) /\ PlaceLocal(p, Absent) /\ views' = [views EXCEPT ![p] = NoView]
      /\ generation' = generation /\ latest' = latest /\ client' = client /\ binding' = binding
  BY DEF LeaveScene, sessions
<1> QED
  BY <1>1, GoneStep

LEMMA BindStep ==
    ASSUME ViewInv, ClientFollows, NEW p \in Locals, NEW epoch \in 1..MaxEpoch, Bind(p, epoch)
    PROVE  ViewInv' /\ ClientFollows'
<1>1. TypeOK /\ ObserverInv /\ p \in Ids
  BY DEF ViewInv, Ids
<1>2. /\ binding[p] \in 0..MaxEpoch /\ latest[p] \in 0..MaxEpoch /\ views[p] \in Views
      /\ epoch \in 0..MaxEpoch /\ binding[p] < epoch /\ epoch # 0
  BY <1>1, RecordFacts DEF Bind, ObserverInv
<1>3. /\ scene' = scene /\ ents' = ents
      /\ binding' = [binding EXCEPT ![p] = epoch] /\ latest' = [latest EXCEPT ![p] = epoch]
      /\ client' = [client EXCEPT ![p] = NewClient]
  BY DEF Bind, scene
<1>4. NewClient \in Clients
  <2>1. PICK v \in [Ids -> States] : v = [e \in Ids |-> Absent]
    BY StateFacts
  <2>2. PICK b \in BOOLEAN : b = FALSE
    OBVIOUS
  <2>3. [seq |-> 0, view |-> v, broken |-> b] \in Clients
    <3>1. 0 \in Nat
      OBVIOUS
    <3> QED
      BY <3>1, Zenon DEF Clients
  <2> QED
    BY <2>1, <2>2, <2>3 DEF NewClient
<1>5. /\ binding' \in [Locals -> 0..MaxEpoch] /\ latest' \in [Locals -> 0..MaxEpoch] /\ client' \in [Locals -> Clients]
      /\ binding'[p] = epoch /\ latest'[p] = epoch /\ client'[p] = NewClient
      /\ \A q \in Locals \ {p} : binding'[q] = binding[q] /\ latest'[q] = latest[q] /\ client'[q] = client[q]
  BY <1>1, <1>2, <1>3, <1>4 DEF TypeOK
<1>6. Observer(epoch) \in Views /\ Observer(epoch).epoch = epoch /\ Observer(epoch).resync
  BY <1>2, ObserverFacts
<1>7. CASE Here(p)
  <2>1. (IF Observes(p) THEN Rebind(views[p], binding[p], epoch) ELSE Observer(epoch)) = Observer(epoch)
    <3>1. CASE Observes(p)
      <4>1. views[p].epoch = binding[p]
        BY <1>1, <3>1 DEF ObserverInv
      <4> QED
        BY <1>2, <3>1, <4>1 DEF Rebind
    <3>2. CASE ~Observes(p)
      BY <3>2
    <3> QED
      BY <3>1, <3>2
  <2>2. views' = [views EXCEPT ![p] = IF Observes(p) THEN Rebind(views[p], binding[p], epoch) ELSE Observer(epoch)]
    BY <1>7, Zenon DEF Bind
  <2>3. views' = [views EXCEPT ![p] = Observer(epoch)]
    BY <2>1, <2>2
  <2>4. /\ views' \in [Locals -> Views] /\ views'[p] = Observer(epoch)
        /\ \A q \in Locals \ {p} : views'[q] = views[q]
    BY <1>1, <1>6, <2>3 DEF TypeOK
  <2>5. dirty \subseteq dirty' /\ dirty' \subseteq Locals
    BY <1>1, <1>7 DEF TypeOK, Bind
  <2>6. ObserverInv'
    BY <1>1, <1>3, <1>5, <1>6, <1>7, <2>4 DEF ObserverInv, Observes, Here
  <2>7. ASSUME NEW q \in Locals
        PROVE  \/ /\ client'[q] = client[q] \/ client'[q] = NewClient
                  /\ views'[q].epoch = 0 \/ views'[q].resync
               \/ client'[q] = client[q] /\ views'[q] = views[q]
    BY <1>5, <1>6, <2>4
  <2>8. StillChange
    BY <1>3, <1>5, <2>4, <2>5, <2>6, <2>7 DEF StillChange
  <2> QED
    BY <2>6, <2>8, StillStep
<1>8. CASE ~Here(p)
  <2>1. views' = views /\ dirty' = dirty
    BY <1>8 DEF Bind
  <2>2. views[p].epoch = 0
    BY <1>1, <1>8 DEF ObserverInv, Observes
  <2>3. ObserverInv'
    BY <1>1, <1>3, <1>5, <2>1, <2>2 DEF ObserverInv, Observes, Here
  <2>4. ASSUME NEW q \in Locals
        PROVE  \/ /\ client'[q] = client[q] \/ client'[q] = NewClient
                  /\ views'[q].epoch = 0 \/ views'[q].resync
               \/ client'[q] = client[q] /\ views'[q] = views[q]
    BY <1>5, <2>1, <2>2
  <2>5. views' \in [Locals -> Views] /\ dirty \subseteq dirty' /\ dirty' \subseteq Locals
    BY <1>1, <2>1 DEF TypeOK
  <2>6. StillChange
    BY <1>3, <1>5, <2>3, <2>4, <2>5 DEF StillChange
  <2> QED
    BY <2>3, <2>6, StillStep
<1> QED
  BY <1>7, <1>8

LEMMA OfflineStep ==
    ASSUME ViewInv, ClientFollows, NEW p \in Locals, NEW kept \in BOOLEAN, Offline(p, kept)
    PROVE  ViewInv' /\ ClientFollows'
<1>1. TypeOK /\ ObserverInv /\ p \in Ids
  BY DEF ViewInv, Ids
<1>2. /\ views' = [views EXCEPT ![p] = NoView]
      /\ binding' = binding \/ binding' = [binding EXCEPT ![p] = 0]
      /\ generation' = generation /\ latest' = latest /\ client' = client
  BY DEF Offline
<1>3. CASE Here(p)
  <2>1. PlaceLocal(p, Absent)
    BY <1>3 DEF Offline
  <2> QED
    BY <1>2, <1>3, <2>1, GoneStep
<1>4. CASE ~Here(p)
  <2>1. ents' = ents /\ entys' = entys /\ watchers' = watchers /\ dirty' = dirty
    BY <1>4 DEF Offline
  <2>2. scene' = scene
    BY <1>2, <2>1 DEF scene
  <2>3. /\ views' \in [Locals -> Views] /\ views'[p].epoch = 0
        /\ \A q \in Locals \ {p} : views'[q] = views[q]
    BY <1>1, <1>2, ObserverFacts DEF TypeOK
  <2>4. /\ binding' \in [Locals -> 0..MaxEpoch] /\ binding'[p] <= latest[p]
        /\ \A q \in Locals \ {p} : binding'[q] = binding[q]
    <3>1. /\ binding[p] <= latest[p] /\ 0 <= latest[p] /\ 0 \in 0..MaxEpoch
      BY <1>1, RecordFacts, ViewsAssumption DEF ObserverInv
    <3>2. CASE binding' = binding
      BY <1>1, <3>1, <3>2 DEF TypeOK
    <3>3. CASE binding' = [binding EXCEPT ![p] = 0]
      BY <1>1, <3>1, <3>3 DEF TypeOK
    <3> QED
      BY <1>2, <3>2, <3>3
  <2>5. ObserverInv'
    BY <1>1, <1>2, <2>1, <2>3, <2>4 DEF ObserverInv, Observes, Here
  <2>6. ASSUME NEW q \in Locals
        PROVE  \/ /\ client'[q] = client[q] \/ client'[q] = NewClient
                  /\ views'[q].epoch = 0 \/ views'[q].resync
               \/ client'[q] = client[q] /\ views'[q] = views[q]
    BY <1>2, <2>3
  <2>7. latest' \in [Locals -> 0..MaxEpoch] /\ client' \in [Locals -> Clients] /\ dirty \subseteq dirty' /\ dirty' \subseteq Locals
    BY <1>1, <1>2, <2>1 DEF TypeOK
  <2>8. StillChange
    BY <2>2, <2>3, <2>4, <2>5, <2>6, <2>7 DEF StillChange
  <2> QED
    BY <2>5, <2>8, StillStep
<1> QED
  BY <1>3, <1>4

LEMMA ResyncStep ==
    ASSUME ViewInv, ClientFollows, NEW p \in Locals, ViewResync(p)
    PROVE  ViewInv' /\ ClientFollows'
<1>1. TypeOK /\ ObserverInv
  BY DEF ViewInv
<1>2. /\ scene' = scene /\ ents' = ents /\ binding' = binding /\ latest' = latest /\ client' = client
      /\ dirty' = dirty \cup {p}
  BY DEF ViewResync, scene, sessions
<1>3. PICK r \in BOOLEAN : r = TRUE
  OBVIOUS
<1>4. PICK v : v = [views[p] EXCEPT !.resync = r]
  OBVIOUS
<1>5. views' = [views EXCEPT ![p] = v]
  BY <1>3, <1>4, Zenon DEF ViewResync
<1>6. v \in Views /\ v.epoch = views[p].epoch /\ v.resync
  <2>1. views[p] \in Views
    BY <1>1, RecordFacts
  <2>2. v \in Views
    BY <1>4, <2>1, Zenon DEF Views
  <2>3. v.epoch = views[p].epoch /\ v.resync = r
    BY <1>4, <2>1 DEF Views
  <2> QED
    BY <1>3, <2>2, <2>3
<1>7. views' \in [Locals -> Views] /\ views'[p] = v /\ \A q \in Locals \ {p} : views'[q] = views[q]
  BY <1>1, <1>5, <1>6 DEF TypeOK
<1>8. ObserverInv'
  BY <1>1, <1>2, <1>6, <1>7 DEF ObserverInv, Observes, Here
<1>9. ASSUME NEW q \in Locals
      PROVE  \/ /\ client'[q] = client[q] \/ client'[q] = NewClient
                /\ views'[q].epoch = 0 \/ views'[q].resync
             \/ client'[q] = client[q] /\ views'[q] = views[q]
  BY <1>2, <1>6, <1>7
<1>10. /\ binding' \in [Locals -> 0..MaxEpoch] /\ latest' \in [Locals -> 0..MaxEpoch] /\ client' \in [Locals -> Clients]
       /\ dirty \subseteq dirty' /\ dirty' \subseteq Locals
  BY <1>1, <1>2 DEF TypeOK
<1>11. StillChange
  BY <1>2, <1>7, <1>8, <1>9, <1>10 DEF StillChange
<1> QED
  BY <1>8, <1>11, StillStep


-----------------------------------------------------------------------------
(* What other workers do *)

\* What PlaceForeign does to the scene.
LEMMA ForeignStep ==
    ASSUME ViewInv, ClientFollows, NEW new, PlaceForeign(new), DOMAIN new \subseteq Foreign,
           \A e \in DOMAIN new : new[e] \in States,
           generation' \in [Ids -> Nat], \A e \in Ids : Evolves(e)
    PROVE  ViewInv' /\ ClientFollows'
<1>1. TypeOK /\ InCells /\ Watching /\ ObserverInv
  BY DEF ViewInv, GridInv, InCells, Watching
<1>2. /\ \A e \in Ids : ents'[e] = IF e \in DOMAIN new THEN new[e] ELSE ents[e]
      /\ entys' = Placed(new) /\ watchers' = watchers /\ views' = views /\ client' = client
      /\ binding' = binding /\ latest' = latest
      /\ dirty' = dirty \cup UNION {Marks(watchers, e, new[e]) : e \in DOMAIN new}
  BY DEF PlaceForeign, sessions
<1>3. ents' \in [Ids -> States]
  BY <1>1 DEF TypeOK, PlaceForeign
<1>4. InCells' /\ entys' \in [Cells -> SUBSET Ids]
  BY <1>1, <1>2, PlacedKeeps
<1>5. \A q \in Locals : q \in Ids /\ ents'[q] = ents[q]
  BY <1>2, ViewsAssumption DEF Ids
<1>6. Watching'
  BY <1>1, <1>2, <1>5 DEF Watching, Here
<1>7. dirty' \subseteq Locals
  <2>1. ASSUME NEW e \in DOMAIN new PROVE Marks(watchers, e, new[e]) \subseteq Locals
    <3>1. e \in Ids /\ new[e] \in States /\ watchers \in [Cells -> SUBSET Locals]
      BY <1>1 DEF Ids, TypeOK
    <3> QED
      BY <1>1, <3>1, MarksLocal
  <2>2. dirty \subseteq Locals
    BY <1>1 DEF TypeOK
  <2> QED
    BY <1>2, <2>1, <2>2
<1>8. TypeOK'
  BY <1>1, <1>2, <1>3, <1>4, <1>7 DEF TypeOK
<1>9. GridInv'
  BY <1>4, <1>6 DEF GridInv, InCells, Watching
<1>10. ObserverInv'
  BY <1>1, <1>2, <1>5 DEF ObserverInv, Observes, Here
<1>11. ASSUME NEW q \in Locals PROVE Minded(q)
  <2> USE DEF Minded
  <2>1. ASSUME Observes(q), q \notin dirty', NEW e \in Ids PROVE ents'[e] = ents[e] \/ Unseen(q, e)
    <3>1. CASE e \notin DOMAIN new
      BY <1>2, <3>1
    <3>2. CASE e \in DOMAIN new
      <4>1. ents'[e] = new[e] /\ q \notin Marks(watchers, e, new[e])
        BY <1>2, <2>1, <3>2
      <4>2. \A c \in Cells : Visible(CellOf(ents[q].pos), c) => q \in watchers[c]
        BY <1>1, <2>1 DEF Watching, ObserverInv
      <4>3. q \notin Marks(watchers, e, ents'[e])
        BY <4>1
      <4> QED
        BY <1>1, <1>8, <4>2, <4>3, UnmarkedUnseen
    <3> QED
      BY <3>1, <3>2
  <2> QED
    BY <1>2, <1>5, <2>1
<1> QED
  BY <1>8, <1>9, <1>10, <1>11, SceneStep

\* An entity whose state in a step is one of NewerStates.
LEMMA NewerEvolves ==
    ASSUME TypeOK, NEW e \in Foreign, NEW s \in NewerStates(e),
           Here(e) => ents[e].gen = generation[e]
    PROVE  /\ s \in States
           /\ \A g : (ents'[e] = s /\ generation'[e] = g
                      /\ g = IF s.gen > generation[e] THEN s.gen ELSE generation[e]) => Evolves(e)
<1>1. e \in Ids /\ ents[e] \in States /\ generation[e] \in Nat
  BY DEF TypeOK, Ids
<1>2. CASE s = Absent
  <2>1. s \in States /\ s.gen = 0
    BY <1>2, StateFacts
  <2> QED
    BY <1>1, <1>2, <2>1 DEF Evolves
<1>3. CASE s = ents[e]
  <2>1. s.gen <= generation[e] /\ s.gen \in Nat
    BY <1>1, <1>3, StateFacts DEF Here
  <2> QED
    BY <1>1, <1>3, <2>1 DEF Evolves
<1>4. CASE \E pos \in Positions : s = [gen |-> generation[e] + 1, ver |-> 1, pos |-> pos]
  <2>1. PICK pos \in Positions : s = [gen |-> generation[e] + 1, ver |-> 1, pos |-> pos]
    BY <1>4
  <2>2. s \in States /\ s.gen = generation[e] + 1
    BY <1>1, <2>1, EnteredState
  <2> QED
    BY <1>1, <2>2 DEF Evolves
<1>5. CASE Here(e) /\ \E pos \in Positions : s = [ents[e] EXCEPT !.ver = @ + 1, !.pos = pos]
  <2>1. PICK pos \in Positions : s = [ents[e] EXCEPT !.ver = @ + 1, !.pos = pos]
    BY <1>5
  <2>2. s \in States /\ s.gen = ents[e].gen /\ s.ver = ents[e].ver + 1
    BY <1>1, <1>5, <2>1, MovedState DEF Here
  <2>3. ents[e].gen = generation[e]
    BY <1>5
  <2> QED
    BY <1>1, <1>5, <2>2, <2>3 DEF Evolves
<1> QED
  BY <1>2, <1>3, <1>4, <1>5 DEF NewerStates

\* One entity of another worker gets the state s.
LEMMA RemoteStep ==
    ASSUME ViewInv, ClientFollows, NEW e \in Foreign, NEW s \in NewerStates(e),
           PlaceForeign([x \in {e} |-> s]),
           generation' = [generation EXCEPT ![e] = IF s.gen > generation[e] THEN s.gen ELSE generation[e]]
    PROVE  ViewInv' /\ ClientFollows'
<1>1. TypeOK /\ HistoryInv /\ e \in Ids
  BY DEF ViewInv, Ids
<1>2. PICK new : new = [x \in {e} |-> s]
  OBVIOUS
<1>3. DOMAIN new = {e} /\ new[e] = s /\ PlaceForeign(new)
  BY <1>2
<1>4. PICK g : g = IF s.gen > generation[e] THEN s.gen ELSE generation[e]
  OBVIOUS
<1>5. /\ ents'[e] = s /\ \A x \in Ids \ {e} : ents'[x] = ents[x]
  BY <1>1, <1>3 DEF PlaceForeign
<1>6. Here(e) => ents[e].gen = generation[e]
  BY <1>1 DEF HistoryInv
<1>7. s \in States
  BY <1>1, <1>6, NewerEvolves
<1>8. g \in Nat
  BY <1>1, <1>4, <1>7, StateFacts DEF TypeOK
<1>9. /\ generation' \in [Ids -> Nat] /\ generation'[e] = g
      /\ \A x \in Ids \ {e} : generation'[x] = generation[x]
  BY <1>1, <1>4, <1>8 DEF TypeOK
<1>10. Evolves(e)
  BY <1>1, <1>4, <1>5, <1>6, <1>9, NewerEvolves
<1>11. \A x \in Ids : Evolves(x)
  BY <1>5, <1>9, <1>10 DEF Evolves
<1>12. DOMAIN new \subseteq Foreign /\ \A x \in DOMAIN new : new[x] \in States
  BY <1>3, <1>7
<1> QED
  BY <1>3, <1>9, <1>11, <1>12, ForeignStep

LEMMA RemoteEntryStep ==
    ASSUME ViewInv, ClientFollows, NEW e \in Foreign, NEW pos \in Positions, RemoteEntry(e, pos)
    PROVE  ViewInv' /\ ClientFollows'
<1>1. generation[e] \in Nat
  BY DEF ViewInv, TypeOK, Ids
<1>2. PICK s : s = [gen |-> generation[e] + 1, ver |-> 1, pos |-> pos]
  OBVIOUS
<1>3. s \in NewerStates(e) /\ s.gen = generation[e] + 1
  BY <1>2 DEF NewerStates
<1>4. PlaceForeign([x \in {e} |-> s])
  BY <1>2 DEF RemoteEntry
<1>5. (IF s.gen > generation[e] THEN s.gen ELSE generation[e]) = generation[e] + 1
  BY <1>1, <1>3
<1>6. generation' = [generation EXCEPT ![e] = generation[e] + 1]
  BY Zenon DEF RemoteEntry
<1>7. generation' = [generation EXCEPT ![e] = IF s.gen > generation[e] THEN s.gen ELSE generation[e]]
  BY <1>5, <1>6
<1> QED
  BY <1>3, <1>4, <1>7, RemoteStep

LEMMA RemoteMoveStep ==
    ASSUME ViewInv, ClientFollows, NEW e \in Foreign, NEW pos \in Positions, RemoteMove(e, pos)
    PROVE  ViewInv' /\ ClientFollows'
<1>1. /\ generation[e] \in Nat /\ generation \in [Ids -> Nat] /\ ents[e] \in States /\ e \in Ids /\ Here(e)
      /\ ents[e].gen = generation[e]
  BY DEF ViewInv, TypeOK, Ids, HistoryInv, RemoteMove
<1>2. PICK s : s = [ents[e] EXCEPT !.ver = @ + 1, !.pos = pos]
  OBVIOUS
<1>3. s \in NewerStates(e)
  BY <1>1, <1>2 DEF NewerStates
<1>4. s.gen = ents[e].gen
  BY <1>1, <1>2, MovedState DEF Here
<1>5. PlaceForeign([x \in {e} |-> s]) /\ generation' = generation
  BY <1>2 DEF RemoteMove
<1>6. (IF s.gen > generation[e] THEN s.gen ELSE generation[e]) = generation[e]
  BY <1>1, <1>4
<1>7. generation = [generation EXCEPT ![e] = generation[e]]
  BY <1>1
<1>8. generation' = [generation EXCEPT ![e] = IF s.gen > generation[e] THEN s.gen ELSE generation[e]]
  BY <1>5, <1>6, <1>7
<1> QED
  BY <1>3, <1>5, <1>8, RemoteStep

LEMMA RemoteLeaveStep ==
    ASSUME ViewInv, ClientFollows, NEW e \in Foreign, RemoteLeave(e)
    PROVE  ViewInv' /\ ClientFollows'
<1>1. generation[e] \in Nat /\ generation \in [Ids -> Nat]
  BY DEF ViewInv, TypeOK, Ids
<1>2. Absent \in NewerStates(e) /\ Absent.gen = 0
  BY DEF NewerStates, Absent
<1>3. PlaceForeign([x \in {e} |-> Absent]) /\ generation' = generation
  BY DEF RemoteLeave
<1>4. (IF Absent.gen > generation[e] THEN Absent.gen ELSE generation[e]) = generation[e]
  BY <1>1, <1>2
<1>5. generation = [generation EXCEPT ![e] = generation[e]]
  BY <1>1
<1>6. generation' = [generation EXCEPT ![e] = IF Absent.gen > generation[e] THEN Absent.gen ELSE generation[e]]
  BY <1>3, <1>4, <1>5
<1> QED
  BY <1>2, <1>3, <1>6, RemoteStep

LEMMA RemoteSnapshotStep ==
    ASSUME ViewInv, ClientFollows, RemoteSnapshot
    PROVE  ViewInv' /\ ClientFollows'
<1>1. TypeOK /\ HistoryInv
  BY DEF ViewInv
<1>2. PICK new \in [Foreign -> UNION {NewerStates(e) : e \in Foreign}] :
         /\ \A e \in Foreign : new[e] \in NewerStates(e)
         /\ PlaceForeign(new)
         /\ generation' = [e \in Ids |-> IF e \in Foreign /\ new[e].gen > generation[e]
                                         THEN new[e].gen ELSE generation[e]]
  BY DEF RemoteSnapshot
<1>3. DOMAIN new = Foreign
  BY <1>2
<1>4. ASSUME NEW e \in Foreign
      PROVE  new[e] \in States
  <2>1. e \in Ids /\ new[e] \in NewerStates(e) /\ (Here(e) => ents[e].gen = generation[e])
    BY <1>1, <1>2 DEF Ids, HistoryInv
  <2> QED
    BY <1>1, <2>1, NewerEvolves
<1>5. generation' \in [Ids -> Nat]
  <2>1. ASSUME NEW e \in Ids
        PROVE  (IF e \in Foreign /\ new[e].gen > generation[e] THEN new[e].gen ELSE generation[e]) \in Nat
    <3>1. generation[e] \in Nat
      BY <1>1 DEF TypeOK
    <3> QED
      BY <1>4, <3>1, StateFacts
  <2> QED
    BY <1>2, <2>1
<1>6. ASSUME NEW e \in Ids PROVE Evolves(e)
  <2>1. CASE e \in Foreign
    <3>1. ents'[e] = new[e]
      BY <1>2, <1>3, <2>1 DEF PlaceForeign
    <3>2. PICK g : g = IF new[e].gen > generation[e] THEN new[e].gen ELSE generation[e]
      OBVIOUS
    <3>3. generation'[e] = g
      BY <1>2, <2>1, <3>2
    <3>4. new[e] \in NewerStates(e) /\ (Here(e) => ents[e].gen = generation[e])
      BY <1>1, <1>2, <2>1 DEF HistoryInv
    <3> QED
      BY <1>1, <2>1, <3>1, <3>2, <3>3, <3>4, NewerEvolves
  <2>2. CASE e \notin Foreign
    <3>1. ents'[e] = ents[e]
      BY <1>2, <1>3, <2>2 DEF PlaceForeign
    <3>2. generation'[e] = generation[e]
      BY <1>2, <2>2
    <3> QED
      BY <3>1, <3>2 DEF Evolves
  <2> QED
    BY <2>1, <2>2
<1> QED
  BY <1>2, <1>3, <1>4, <1>5, <1>6, ForeignStep


-----------------------------------------------------------------------------
(* ProcessAoiClientObserver *)

\* What getVisibleEntity finds in the cells is what the observer should see.
LEMMA ViewIsScenery ==
    ASSUME TypeOK, GridInv, NEW o \in Locals, Here(o)
    PROVE  /\ ViewOf(o) \subseteq Ids /\ \A e \in ViewOf(o) : Here(e)
           /\ Scenery(o) = [e \in Ids |-> IF e \in ViewOf(o) THEN ents[e] ELSE Absent]
<1>1. ents[o] \in States /\ ents[o].pos \in Positions
  BY StateFacts DEF TypeOK, Ids, Here
<1>2. ASSUME NEW e \in Ids
      PROVE  e \in ViewOf(o) <=> (e # o /\ Here(e) /\ Visible(CellOf(ents[o].pos), CellOf(ents[e].pos)))
  <2>1. e \in ViewOf(o) <=> (e # o /\ \E c \in WatchCells(ents[o].pos) :
                                        e \in entys[c] /\ Here(e) /\ CellOf(ents[e].pos) = c)
    BY DEF ViewOf
  <2>2. WatchCells(ents[o].pos) = {c \in Cells : Visible(CellOf(ents[o].pos), c)}
    BY <1>1, WatchIsVisible
  <2>3. Here(e) => CellOf(ents[e].pos) \in Cells /\ e \in entys[CellOf(ents[e].pos)]
    BY StateFacts, PositionCell DEF Here, TypeOK, GridInv
  <2> QED
    BY <2>1, <2>2, <2>3
<1>3. ViewOf(o) \subseteq Ids /\ \A e \in ViewOf(o) : Here(e)
  BY DEF ViewOf
<1> QED
  BY <1>2, <1>3 DEF Scenery

\* What an observer that waits for no snapshot has committed tells how its
\* client's knowledge of an entity stands to the entity.
LEMMA BaselineFacts ==
    ASSUME ViewInv, ClientFollows, NEW o \in Locals, Observes(o), ~views[o].resync, NEW e \in Ids
    PROVE  /\ client[o].view[e] \in States
           /\ views[o].base[e].gen = client[o].view[e].gen
           /\ views[o].base[e] = Nothing => client[o].view[e] = Absent
           /\ Here(e) => /\ views[o].base[e].gen <= ents[e].gen
                         /\ views[o].base[e].gen = ents[e].gen => views[o].base[e].ver <= ents[e].ver
                         /\ (views[o].base[e].gen = ents[e].gen /\ views[o].base[e].ver = ents[e].ver)
                              => client[o].view[e] = ents[e]
<1>1. TypeOK /\ HistoryInv
  BY DEF ViewInv
<1>2. PICK k \in States : k = client[o].view[e]
  BY <1>1, RecordFacts
<1>3. Sent(k) = views[o].base[e]
  BY <1>2 DEF ClientFollows
<1>4. views[o].base[e].gen = k.gen /\ views[o].base[e].ver = k.ver
  BY <1>3 DEF Sent
<1>5. HadState(k, e)
  BY <1>1, <1>2 DEF HistoryInv
<1>6. k.gen \in Nat /\ k.ver \in Nat /\ (k = Absent <=> k.gen = 0)
  BY StateFacts
<1>7. views[o].base[e] = Nothing => k = Absent
  BY <1>4, <1>6 DEF Nothing
<1>8. ASSUME Here(e)
      PROVE  /\ k.gen <= ents[e].gen
             /\ k.gen = ents[e].gen => k.ver <= ents[e].ver
             /\ (k.gen = ents[e].gen /\ k.ver = ents[e].ver) => k = ents[e]
  <2>1. /\ ents[e] \in States /\ ents[e].gen \in Nat /\ ents[e].gen # 0
        /\ ents[e].gen = generation[e]
    BY <1>1, <1>8, StateFacts DEF TypeOK, Here, HistoryInv
  <2>2. CASE k = Absent
    BY <1>6, <2>1, <2>2
  <2>3. CASE k # Absent
    BY <1>5, <1>8, <2>1, <2>3 DEF HadState
  <2> QED
    BY <2>2, <2>3
<1> QED
  BY <1>2, <1>4, <1>7, <1>8

\* What the worker's tick leaves of one observer and its client: the client
\* has what the observer has committed and, unless the observer waits for
\* more, what it should see.
TickChange(o, v, cl) ==
    /\ scene' = scene /\ sessions' = sessions
    /\ views' = [views EXCEPT ![o] = v] /\ client' = [client EXCEPT ![o] = cl]
    /\ dirty' \subseteq Locals /\ \A q \in dirty : q \in dirty' \/ q = o
    /\ v.epoch = views[o].epoch /\ ~cl.broken
    /\ \A e \in Ids : cl.view[e] \in {client[o].view[e], ents[e], Absent}
    /\ v.resync \/ (cl.seq + 1 = v.seq /\ \A e \in Ids : Sent(cl.view[e]) = v.base[e])
    /\ v.resync \/ o \in dirty' \/ cl.view = Scenery(o)

LEMMA TickStep ==
    ASSUME ViewInv, ClientFollows, NEW o \in Locals, Observes(o),
           NEW v \in Views, NEW cl \in Clients, TickChange(o, v, cl)
    PROVE  ViewInv' /\ ClientFollows'
<1> USE DEF TickChange
<1>1. TypeOK /\ GridInv /\ ObserverInv /\ HistoryInv
  BY DEF ViewInv
<1>2. /\ ents' = ents /\ generation' = generation /\ entys' = entys /\ watchers' = watchers
      /\ binding' = binding /\ latest' = latest
  BY DEF scene, sessions
<1>3. /\ views' \in [Locals -> Views] /\ views'[o] = v /\ \A q \in Locals \ {o} : views'[q] = views[q]
      /\ client' \in [Locals -> Clients] /\ client'[o] = cl /\ \A q \in Locals \ {o} : client'[q] = client[q]
  BY <1>1 DEF TypeOK
<1>4. TypeOK'
  BY <1>1, <1>2, <1>3 DEF TypeOK
<1>5. GridInv'
  BY <1>1, <1>2 DEF GridInv, Here
<1>6. ObserverInv'
  BY <1>1, <1>2, <1>3 DEF ObserverInv, Observes, Here
<1>7. HistoryInv'
  <2>1. \A e \in Ids : Here(e)' => ents'[e].gen = generation'[e]
    BY <1>1, <1>2 DEF HistoryInv, Here
  <2>2. ASSUME NEW q \in Locals, NEW e \in Ids PROVE ~client'[q].broken /\ HadState(client[q].view[e], e)'
    <3>1. HadState(client[q].view[e], e) /\ ~client[q].broken /\ HadState(client[o].view[e], e)
      BY <1>1 DEF HistoryInv
    <3>2. HadState(ents[e], e)
      <4>1. ents[e] # Absent => ents[e].gen = generation[e]
        BY <1>1 DEF HistoryInv, Here
      <4>2. ents[e].gen \in Nat /\ ents[e].ver \in Nat
        BY <1>1, StateFacts DEF TypeOK
      <4> QED
        BY <4>1, <4>2 DEF HadState
    <3>3. HadState(Absent, e)
      BY DEF HadState
    <3>4. CASE q = o
      <4>1. HadState(cl.view[e], e)
        BY <3>1, <3>2, <3>3
      <4> QED
        BY <1>2, <1>3, <3>4, <4>1 DEF HadState, Here
    <3>5. CASE q # o
      BY <1>2, <1>3, <3>1, <3>5 DEF HadState, Here
    <3> QED
      BY <3>4, <3>5
  <2>3. \A q \in Locals : ~client'[q].broken
    BY <1>1, <1>3 DEF HistoryInv
  <2> QED
    BY <2>1, <2>2, <2>3 DEF HistoryInv
<1>8. \A q \in Locals : Scenery(q)' = Scenery(q)
  BY <1>2 DEF Scenery, Here
<1>9. ASSUME NEW q \in Locals, Settled(q)' PROVE client'[q].view = Scenery(q)'
  <2>1. CASE q = o
    BY <1>3, <1>8, <1>9, <2>1 DEF Settled
  <2>2. CASE q # o
    <3>1. Settled(q)
      BY <1>3, <1>9, <2>2 DEF Settled, Observes
    <3> QED
      BY <1>3, <1>8, <2>2, <3>1 DEF ViewInv
  <2> QED
    BY <2>1, <2>2
<1>10. ASSUME NEW q \in Locals, Observes(q)'
       PROVE  /\ ~client'[q].broken
              /\ ~views'[q].resync => /\ client'[q].seq + 1 = views'[q].seq
                                      /\ \A e \in Ids : Sent(client'[q].view[e]) = views'[q].base[e]
  <2>1. CASE q = o
    BY <1>3, <2>1
  <2>2. CASE q # o
    <3>1. Observes(q) /\ views'[q] = views[q] /\ client'[q] = client[q]
      BY <1>3, <1>10, <2>2 DEF Observes
    <3> QED
      BY <3>1 DEF ClientFollows
  <2> QED
    BY <2>1, <2>2
<1>11. ClientFollows'
  BY <1>10 DEF ClientFollows, Sent
<1> QED
  BY <1>4, <1>5, <1>6, <1>7, <1>9, <1>11 DEF ViewInv


\* What commitAccepted and OnClientSnapshotSent keep.
LEMMA BaselineType ==
    ASSUME TypeOK, NEW o \in Locals
    PROVE  Baseline(o) \in [Ids -> [gen : Nat, ver : Nat]]
<1>1. ASSUME NEW e \in Ids PROVE Sent(ents[e]) \in [gen : Nat, ver : Nat]
  <2>1. ents[e].gen \in Nat /\ ents[e].ver \in Nat
    BY StateFacts DEF TypeOK
  <2> QED
    BY <2>1 DEF Sent
<1>2. Nothing \in [gen : Nat, ver : Nat]
  BY DEF Nothing
<1> QED
  BY <1>1, <1>2 DEF Baseline

\* An observer after a frame (commitAccepted) and after a snapshot
\* (completeSnapshot), and a client that has taken one.
FrameSent(v, b) == [v EXCEPT !.base = b, !.seq = @ + 1]
SnapshotSent(v, b) == [v EXCEPT !.base = b, !.seq = @ + 1, !.resync = FALSE]
Shown(c, n, w) == [c EXCEPT !.seq = n, !.view = w]

\* They have their types and these fields.
LEMMA FrameCommitted ==
    ASSUME NEW v \in Views, NEW b \in [Ids -> [gen : Nat, ver : Nat]]
    PROVE  /\ FrameSent(v, b) \in Views /\ FrameSent(v, b).epoch = v.epoch /\ FrameSent(v, b).base = b
           /\ FrameSent(v, b).seq = v.seq + 1 /\ FrameSent(v, b).resync = v.resync
<1>1. v \in [epoch : 0..MaxEpoch, base : [Ids -> [gen : Nat, ver : Nat]], seq : Nat, resync : BOOLEAN]
  BY DEF Views
<1>2. PICK n \in Nat : n = v.seq + 1
  BY <1>1
<1>3. PICK m : m = [v EXCEPT !.base = b, !.seq = n]
  OBVIOUS
<1>4. m \in Views
  BY <1>1, <1>3, Zenon DEF Views
<1>5. m.epoch = v.epoch /\ m.base = b /\ m.seq = n /\ m.resync = v.resync
  BY <1>1, <1>3
<1>6. FrameSent(v, b) = m
  BY <1>2, <1>3 DEF FrameSent
<1> QED
  BY <1>2, <1>4, <1>5, <1>6

LEMMA SnapshotCommitted ==
    ASSUME NEW v \in Views, NEW b \in [Ids -> [gen : Nat, ver : Nat]]
    PROVE  /\ SnapshotSent(v, b) \in Views /\ SnapshotSent(v, b).epoch = v.epoch /\ SnapshotSent(v, b).base = b
           /\ SnapshotSent(v, b).seq = v.seq + 1 /\ SnapshotSent(v, b).resync = FALSE
<1>1. v \in [epoch : 0..MaxEpoch, base : [Ids -> [gen : Nat, ver : Nat]], seq : Nat, resync : BOOLEAN]
  BY DEF Views
<1>2. PICK n \in Nat : n = v.seq + 1
  BY <1>1
<1>3. PICK f \in BOOLEAN : f = FALSE
  OBVIOUS
<1>4. PICK m : m = [v EXCEPT !.base = b, !.seq = n, !.resync = f]
  OBVIOUS
<1>5. m \in Views
  BY <1>1, <1>4, Zenon DEF Views
<1>6. m.epoch = v.epoch /\ m.base = b /\ m.seq = n /\ m.resync = f
  BY <1>1, <1>4
<1>7. SnapshotSent(v, b) = m
  BY <1>2, <1>3, <1>4 DEF SnapshotSent
<1> QED
  BY <1>2, <1>3, <1>5, <1>6, <1>7

LEMMA StillWaiting ==
    ASSUME NEW v \in Views, NEW m, m = [v EXCEPT !.resync = TRUE]
    PROVE  m \in Views /\ m.epoch = v.epoch /\ m.resync = TRUE
<1>1. v \in [epoch : 0..MaxEpoch, base : [Ids -> [gen : Nat, ver : Nat]], seq : Nat, resync : BOOLEAN]
  BY DEF Views
<1>2. PICK t \in BOOLEAN : t = TRUE
  OBVIOUS
<1>3. m = [v EXCEPT !.resync = t]
  BY <1>2
<1>4. m \in Views
  BY <1>1, <1>3, Zenon DEF Views
<1>5. m.epoch = v.epoch /\ m.resync = t
  BY <1>1, <1>3
<1> QED
  BY <1>2, <1>4, <1>5

LEMMA ShownClient ==
    ASSUME NEW c \in Clients, NEW n \in Nat, NEW w \in [Ids -> States]
    PROVE  /\ Shown(c, n, w) \in Clients /\ Shown(c, n, w).seq = n /\ Shown(c, n, w).view = w
           /\ Shown(c, n, w).broken = c.broken
<1>1. c \in [seq : Nat, view : [Ids -> States], broken : BOOLEAN]
  BY DEF Clients
<1>2. Shown(c, n, w) \in Clients
  BY <1>1, Zenon DEF Clients, Shown
<1>3. Shown(c, n, w).seq = n /\ Shown(c, n, w).view = w /\ Shown(c, n, w).broken = c.broken
  BY <1>1 DEF Shown
<1> QED
  BY <1>2, <1>3

\* A client that knows what is in view and nothing else has the baseline.
LEMMA ShownIsBaseline ==
    ASSUME NEW o \in Locals, NEW w, w = [e \in Ids |-> IF e \in ViewOf(o) THEN ents[e] ELSE Absent]
    PROVE  \A e \in Ids : Sent(w[e]) = Baseline(o)[e]
BY DEF Sent, Baseline, Absent, Nothing

LEMMA SnapshotStep ==
    ASSUME ViewInv, ClientFollows, NEW o \in Locals, Observes(o), NEW accepted, SendSnapshot(o, accepted),
           scene' = scene, sessions' = sessions
    PROVE  ViewInv' /\ ClientFollows'
<1>1. TypeOK /\ GridInv /\ ObserverInv /\ HistoryInv
  BY DEF ViewInv
<1>2. /\ views[o] \in Views /\ views[o].seq \in Nat /\ client[o] \in Clients /\ client[o].view \in [Ids -> States]
      /\ ~client[o].broken /\ Here(o)
  BY <1>1, RecordFacts DEF HistoryInv, ObserverInv
<1>3. CASE Complete(o, accepted)
  <2>1. PICK w : w = [e \in Ids |-> IF e \in ViewOf(o) THEN ents[e] ELSE Absent]
    OBVIOUS
  <2>2. w \in [Ids -> States] /\ \A e \in Ids : w[e] \in {ents[e], Absent}
    BY <1>1, <2>1, StateFacts DEF TypeOK
  <2>3. PICK cl : cl = Shown(client[o], views[o].seq, w)
    OBVIOUS
  <2>4. cl \in Clients /\ cl.seq = views[o].seq /\ cl.view = w /\ ~cl.broken
    <3>1. cl \in Clients /\ cl.seq = views[o].seq /\ cl.view = w /\ cl.broken = client[o].broken
      BY <1>2, <2>2, <2>3, ShownClient
    <3> QED
      BY <1>2, <3>1
  <2>5. client' = [client EXCEPT ![o] = cl]
    <3>1. client' = [client EXCEPT ![o].seq = views[o].seq, ![o].view = w]
      BY <1>3, <2>1 DEF SendSnapshot, Complete
    <3> QED
      BY <1>1, <2>3, <3>1 DEF TypeOK, Shown
  <2>6. PICK v : v = SnapshotSent(views[o], Baseline(o))
    OBVIOUS
  <2>7. v \in Views /\ v.epoch = views[o].epoch /\ v.base = Baseline(o) /\ v.seq = views[o].seq + 1 /\ ~v.resync
    <3>1. Baseline(o) \in [Ids -> [gen : Nat, ver : Nat]]
      BY <1>1, BaselineType
    <3> QED
      BY <1>2, <2>6, <3>1, SnapshotCommitted
  <2>8. views' = [views EXCEPT ![o] = v] /\ dirty' = dirty \ {o}
    <3>1. /\ views' = [views EXCEPT ![o].base = Baseline(o), ![o].seq = @ + 1, ![o].resync = FALSE]
          /\ dirty' = dirty \ {o}
      BY <1>3 DEF SendSnapshot
    <3> QED
      BY <1>1, <2>6, <3>1 DEF TypeOK, SnapshotSent
  <2>9. \A e \in Ids : Sent(cl.view[e]) = v.base[e]
    BY <2>1, <2>4, <2>7, ShownIsBaseline
  <2>10. cl.view = Scenery(o)
    BY <1>1, <1>2, <2>1, <2>4, ViewIsScenery
  <2>11. \A e \in Ids : cl.view[e] \in {client[o].view[e], ents[e], Absent}
    BY <2>2, <2>4
  <2>12. dirty' \subseteq Locals /\ \A q \in dirty : q \in dirty' \/ q = o
    BY <1>1, <2>8 DEF TypeOK
  <2>13. v.resync \/ (cl.seq + 1 = v.seq /\ \A e \in Ids : Sent(cl.view[e]) = v.base[e])
    BY <2>4, <2>7, <2>9
  <2>14. v.resync \/ o \in dirty' \/ cl.view = Scenery(o)
    BY <2>10
  <2>15. TickChange(o, v, cl)
    BY <2>4, <2>5, <2>7, <2>8, <2>11, <2>12, <2>13, <2>14 DEF TickChange
  <2> QED
    BY <2>4, <2>7, <2>15, TickStep
<1>4. CASE ~Complete(o, accepted)
  <2>1. PICK cl : cl = client[o]
    OBVIOUS
  <2>2. client' = [client EXCEPT ![o] = cl]
    BY <1>1, <1>4, <2>1 DEF SendSnapshot, Complete, TypeOK
  <2>3. PICK v : v = [views[o] EXCEPT !.resync = TRUE]
    OBVIOUS
  <2>4. v \in Views /\ v.epoch = views[o].epoch /\ v.resync
    BY <1>2, <2>3, StillWaiting
  <2>5. views' = [views EXCEPT ![o] = v] /\ dirty' = dirty \cup {o}
    <3>1. views' = [views EXCEPT ![o].resync = TRUE] /\ dirty' = dirty \cup {o}
      BY <1>4 DEF SendSnapshot
    <3> QED
      BY <2>3, <3>1
  <2>6. dirty' \subseteq Locals /\ \A q \in dirty : q \in dirty' \/ q = o
    BY <1>1, <2>5 DEF TypeOK
  <2>7. \A e \in Ids : cl.view[e] \in {client[o].view[e], ents[e], Absent}
    BY <2>1
  <2>8. cl \in Clients /\ ~cl.broken
    BY <1>2, <2>1
  <2>9. v.resync \/ (cl.seq + 1 = v.seq /\ \A e \in Ids : Sent(cl.view[e]) = v.base[e])
    BY <2>4
  <2>10. v.resync \/ o \in dirty' \/ cl.view = Scenery(o)
    BY <2>4
  <2>11. TickChange(o, v, cl)
    BY <2>2, <2>4, <2>5, <2>6, <2>7, <2>8, <2>9, <2>10 DEF TickChange
  <2> QED
    BY <2>4, <2>8, <2>11, TickStep
<1> QED
  BY <1>3, <1>4

\* What the frame leaves unsaid the client already has: with the frame applied
\* it sees the scene as it is.
LEMMA FrameShows ==
    ASSUME ViewInv, ClientFollows, NEW o \in Locals, Observes(o), ~views[o].resync,
           NEW w, w = [e \in Ids |-> IF e \in Entered(o) \cup Moved(o) THEN ents[e]
                                     ELSE IF e \in Left(o) THEN Absent ELSE client[o].view[e]]
    PROVE  w = [e \in Ids |-> IF e \in ViewOf(o) THEN ents[e] ELSE Absent]
<1>1. TypeOK /\ GridInv /\ Here(o)
  BY DEF ViewInv, ObserverInv
<1>2. \A e \in ViewOf(o) : Here(e)
  BY <1>1, ViewIsScenery
<1>3. ASSUME NEW e \in Ids PROVE w[e] = IF e \in ViewOf(o) THEN ents[e] ELSE Absent
  <2>1. CASE e \in ViewOf(o)
    <3>1. CASE e \in Entered(o) \cup Moved(o)
      BY <2>1, <3>1
    <3>2. CASE e \notin Entered(o) \cup Moved(o)
      <4>1. views[o].base[e].gen = ents[e].gen /\ views[o].base[e].ver = ents[e].ver
        BY <2>1, <3>2 DEF Entered, Moved
      <4>2. client[o].view[e] = ents[e]
        BY <1>2, <2>1, <4>1, BaselineFacts
      <4>3. e \notin Left(o)
        BY <2>1 DEF Left
      <4> QED
        BY <2>1, <3>2, <4>2, <4>3
    <3> QED
      BY <3>1, <3>2
  <2>2. CASE e \notin ViewOf(o)
    <3>1. e \notin Entered(o) \cup Moved(o)
      BY <2>2 DEF Entered, Moved
    <3>2. CASE e \in Left(o)
      BY <2>2, <3>1, <3>2
    <3>3. CASE e \notin Left(o)
      <4>1. views[o].base[e] = Nothing
        BY <2>2, <3>3 DEF Left
      <4>2. client[o].view[e] = Absent
        BY <4>1, BaselineFacts
      <4> QED
        BY <2>2, <3>1, <3>3, <4>2
    <3> QED
      BY <3>2, <3>3
  <2> QED
    BY <2>1, <2>2
<1> QED
  BY <1>3


\* A frame never confuses the client, and commitAccepted takes it.
LEMMA FrameFits ==
    ASSUME ViewInv, ClientFollows, NEW o \in Locals, Observes(o), ~views[o].resync
    PROVE  /\ CommitAccepts(o)
           /\ views[o].seq = client[o].seq + 1
           /\ \A e \in Moved(o) : client[o].view[e].gen = ents[e].gen
           /\ \A e \in Left(o) : client[o].view[e].gen = views[o].base[e].gen
<1>1. TypeOK /\ GridInv /\ Here(o)
  BY DEF ViewInv, ObserverInv
<1>2. ViewOf(o) \subseteq Ids /\ \A e \in ViewOf(o) : Here(e)
  BY <1>1, ViewIsScenery
<1>3. \A e \in ViewOf(o) : ents[e].gen \in Nat /\ ents[e].ver \in Nat
  BY <1>1, <1>2, StateFacts DEF TypeOK
<1>4. \A e \in Ids : views[o].base[e].gen \in Nat /\ views[o].base[e].ver \in Nat
  BY <1>1, RecordFacts
<1>5. ASSUME NEW e \in Entered(o) PROVE ents[e].gen >= views[o].base[e].gen
  <2>1. e \in ViewOf(o) /\ e \in Ids
    BY <1>2 DEF Entered
  <2>2. views[o].base[e].gen <= ents[e].gen
    BY <1>2, <2>1, BaselineFacts
  <2> QED
    BY <1>3, <1>4, <2>1, <2>2
<1>6. ASSUME NEW e \in Moved(o)
      PROVE  ents[e].ver >= views[o].base[e].ver /\ client[o].view[e].gen = ents[e].gen
  <2>1. e \in ViewOf(o) /\ e \in Ids /\ views[o].base[e].gen = ents[e].gen
    BY <1>2 DEF Moved, Entered
  <2>2. views[o].base[e].ver <= ents[e].ver /\ client[o].view[e].gen = views[o].base[e].gen
    BY <1>2, <2>1, BaselineFacts
  <2> QED
    BY <1>3, <1>4, <2>1, <2>2
<1>7. ASSUME NEW e \in Left(o) PROVE client[o].view[e].gen = views[o].base[e].gen
  <2>1. e \in Ids
    BY DEF Left
  <2> QED
    BY <2>1, BaselineFacts
<1>8. views[o].seq = client[o].seq + 1
  BY DEF ClientFollows
<1>9. CommitAccepts(o)
  BY <1>5, <1>6 DEF CommitAccepts
<1> QED
  BY <1>6, <1>7, <1>8, <1>9

LEMMA DeltaStep ==
    ASSUME ViewInv, ClientFollows, NEW o \in Locals, Observes(o), ~views[o].resync, SendDelta(o),
           scene' = scene, sessions' = sessions
    PROVE  ViewInv' /\ ClientFollows'
<1>1. TypeOK /\ GridInv /\ ObserverInv /\ HistoryInv
  BY DEF ViewInv
<1>2. /\ views[o] \in Views /\ views[o].seq \in Nat /\ client[o] \in Clients /\ client[o].view \in [Ids -> States]
      /\ client[o].seq \in Nat /\ ~client[o].broken /\ Here(o)
  BY <1>1, RecordFacts DEF HistoryInv, ObserverInv
<1>3. PICK w : w = [e \in Ids |-> IF e \in Entered(o) \cup Moved(o) THEN ents[e]
                                  ELSE IF e \in Left(o) THEN Absent ELSE client[o].view[e]]
  OBVIOUS
<1>4. w = [e \in Ids |-> IF e \in ViewOf(o) THEN ents[e] ELSE Absent]
  BY <1>3, FrameShows
<1>5. w = Scenery(o)
  BY <1>1, <1>2, <1>4, ViewIsScenery
<1>6. CASE Unsent(o) = {} /\ dirty' = dirty \ {o} /\ views' = views /\ client' = client
  <2>1. Entered(o) \cup Moved(o) = {} /\ Left(o) = {}
    BY <1>6 DEF Unsent
  <2>2. w = client[o].view
    BY <1>2, <1>3, <2>1
  <2>3. PICK v \in Views : v = views[o]
    BY <1>2
  <2>4. PICK cl \in Clients : cl = client[o]
    BY <1>2
  <2>5. views' = [views EXCEPT ![o] = v] /\ client' = [client EXCEPT ![o] = cl]
    BY <1>1, <1>6, <2>3, <2>4 DEF TypeOK
  <2>6. dirty' \subseteq Locals /\ \A q \in dirty : q \in dirty' \/ q = o
    BY <1>1, <1>6 DEF TypeOK
  <2>7. v.epoch = views[o].epoch /\ ~cl.broken /\ \A e \in Ids : cl.view[e] \in {client[o].view[e], ents[e], Absent}
    BY <1>2, <2>3, <2>4
  <2>8. v.resync \/ (cl.seq + 1 = v.seq /\ \A e \in Ids : Sent(cl.view[e]) = v.base[e])
    BY <2>3, <2>4 DEF ClientFollows
  <2>9. v.resync \/ o \in dirty' \/ cl.view = Scenery(o)
    BY <1>5, <2>2, <2>4
  <2>10. TickChange(o, v, cl)
    BY <2>5, <2>6, <2>7, <2>8, <2>9 DEF TickChange
  <2> QED
    BY <2>10, TickStep
<1>7. CASE /\ client' = [client EXCEPT ![o] = Replay(@, o)]
           /\ views' = [views EXCEPT ![o].base = Baseline(o), ![o].seq = @ + 1]
           /\ dirty' = dirty \ {o}
  <2>1. w \in [Ids -> States] /\ \A e \in Ids : w[e] \in {ents[e], Absent}
    BY <1>1, <1>4, StateFacts DEF TypeOK
  <2>2. PICK n \in Nat : n = client[o].seq + 1
    BY <1>2
  <2>3. PICK cl : cl = Shown(client[o], n, w)
    OBVIOUS
  <2>4. cl \in Clients /\ cl.seq = n /\ cl.view = w /\ ~cl.broken
    <3>1. client[o] \in Clients /\ w \in [Ids -> States]
      BY <1>2, <2>1
    <3>2. cl \in Clients /\ cl.seq = n /\ cl.view = w /\ cl.broken = client[o].broken
      BY <2>3, <3>1, ShownClient
    <3> QED
      BY <1>2, <3>2
  <2>5. Replay(client[o], o) = cl
    <3>1. /\ views[o].seq = client[o].seq + 1
          /\ \A e \in Moved(o) : client[o].view[e].gen = ents[e].gen
          /\ \A e \in Left(o) : client[o].view[e].gen = views[o].base[e].gen
      BY FrameFits
    <3>2. Replay(client[o], o) = [client[o] EXCEPT !.seq = client[o].seq + 1, !.view = w]
      BY <1>3, <3>1, Zenon DEF Replay
    <3> QED
      BY <2>2, <2>3, <3>2 DEF Shown
  <2>6. client' = [client EXCEPT ![o] = cl]
    BY <1>7, <2>5
  <2>7. PICK v : v = FrameSent(views[o], Baseline(o))
    OBVIOUS
  <2>8. v \in Views /\ v.epoch = views[o].epoch /\ v.base = Baseline(o) /\ v.seq = views[o].seq + 1
    <3>1. Baseline(o) \in [Ids -> [gen : Nat, ver : Nat]]
      BY <1>1, BaselineType
    <3> QED
      BY <1>2, <2>7, <3>1, FrameCommitted
  <2>9. views' = [views EXCEPT ![o] = v]
    BY <1>1, <1>7, <2>7 DEF TypeOK, FrameSent
  <2>10. \A e \in Ids : Sent(cl.view[e]) = v.base[e]
    BY <1>4, <2>4, <2>8, ShownIsBaseline
  <2>11. cl.seq + 1 = v.seq
    BY <1>2, <2>2, <2>4, <2>8, FrameFits
  <2>12. v.resync \/ (cl.seq + 1 = v.seq /\ \A e \in Ids : Sent(cl.view[e]) = v.base[e])
    BY <2>10, <2>11
  <2>13. v.resync \/ o \in dirty' \/ cl.view = Scenery(o)
    BY <1>5, <2>4
  <2>14. dirty' \subseteq Locals /\ \A q \in dirty : q \in dirty' \/ q = o
    BY <1>1, <1>7 DEF TypeOK
  <2>15. \A e \in Ids : cl.view[e] \in {client[o].view[e], ents[e], Absent}
    BY <2>1, <2>4
  <2>16. TickChange(o, v, cl)
    BY <2>4, <2>6, <2>8, <2>9, <2>12, <2>13, <2>14, <2>15 DEF TickChange
  <2> QED
    BY <2>4, <2>8, <2>16, TickStep
<1>8. CommitAccepts(o)
  BY FrameFits
<1> QED
  BY <1>6, <1>7, <1>8 DEF SendDelta

\* The observer in the worker's tick.
LEMMA ObserverStep ==
    ASSUME ViewInv, ClientFollows, NEW o \in Locals, ProcessObserver(o)
    PROVE  ViewInv' /\ ClientFollows'
<1>1. Observes(o) /\ scene' = scene /\ sessions' = sessions
  BY DEF ProcessObserver, scene, sessions
<1>2. CASE views[o].resync
  <2>1. PICK accepted : SendSnapshot(o, accepted)
    BY <1>2 DEF ProcessObserver
  <2> QED
    BY <1>1, <2>1, SnapshotStep
<1>3. CASE ~views[o].resync /\ SendDelta(o)
  BY <1>1, <1>3, DeltaStep
<1>4. CASE ~views[o].resync /\ DeltaRefused(o)
  <2>1. views' = views /\ dirty' = dirty /\ client' = client
    BY <1>4 DEF DeltaRefused
  <2>2. TypeOK /\ ObserverInv /\ binding' = binding /\ latest' = latest /\ ents' = ents
    BY <1>1 DEF ViewInv, sessions, scene
  <2>3. ObserverInv'
    BY <2>1, <2>2 DEF ObserverInv, Observes, Here
  <2>4. /\ views' \in [Locals -> Views] /\ client' \in [Locals -> Clients] /\ dirty' \subseteq Locals
        /\ dirty \subseteq dirty' /\ binding' \in [Locals -> 0..MaxEpoch] /\ latest' \in [Locals -> 0..MaxEpoch]
    BY <2>1, <2>2 DEF TypeOK
  <2>5. \A q \in Locals : client'[q] = client[q] /\ views'[q] = views[q]
    BY <2>1
  <2>6. StillChange
    BY <1>1, <2>3, <2>4, <2>5 DEF StillChange
  <2> QED
    BY <1>1, <2>3, <2>6, StillStep
<1> QED
  BY <1>2, <1>3, <1>4 DEF ProcessObserver

-----------------------------------------------------------------------------
(* Theorems *)

\* The empty scene satisfies the invariant.
LEMMA ViewsInit == Init => ViewInv /\ ClientFollows
<1> SUFFICES ASSUME Init PROVE ViewInv /\ ClientFollows
  OBVIOUS
<1>1. /\ ents = [e \in Ids |-> Absent] /\ generation = [e \in Ids |-> 0]
      /\ entys = [c \in Cells |-> {}] /\ watchers = [c \in Cells |-> {}] /\ dirty = {}
      /\ views = [p \in Locals |-> NoView] /\ binding = [p \in Locals |-> 0]
      /\ latest = [p \in Locals |-> 0] /\ client = [p \in Locals |-> NewClient]
  BY DEF Init
<1>2. NewClient \in Clients
  <2>1. PICK v \in [Ids -> States] : v = [e \in Ids |-> Absent]
    BY StateFacts
  <2>2. PICK b \in BOOLEAN : b = FALSE
    OBVIOUS
  <2>3. [seq |-> 0, view |-> v, broken |-> b] \in Clients
    <3>1. 0 \in Nat
      OBVIOUS
    <3> QED
      BY <3>1, Zenon DEF Clients
  <2> QED
    BY <2>1, <2>2, <2>3 DEF NewClient
<1>3. TypeOK
  <2>1. 0 \in 0..MaxEpoch
    BY ViewsAssumption
  <2> QED
    BY <1>1, <1>2, <2>1, StateFacts, ObserverFacts DEF TypeOK
<1>4. \A e \in Ids : ~Here(e)
  BY <1>1 DEF Here
<1>5. \A p \in Locals : ~Observes(p) /\ p \in Ids
  BY <1>1, ObserverFacts DEF Observes, Ids
<1>6. GridInv
  BY <1>1, <1>4, <1>5 DEF GridInv
<1>7. ObserverInv
  BY <1>1, <1>5 DEF ObserverInv
<1>8. HistoryInv
  BY <1>1, <1>4 DEF HistoryInv, HadState, NewClient
<1> QED
  BY <1>3, <1>5, <1>6, <1>7, <1>8 DEF ViewInv, ClientFollows, Settled

\* Every step of the worker keeps the two invariants together: a baseline
\* that a client does not have would let the next frame confuse it, and a
\* frame is complete only because the client has the baseline.
LEMMA ViewsNext == ViewInv /\ ClientFollows /\ [Next]_vars => ViewInv' /\ ClientFollows'
<1> SUFFICES ASSUME ViewInv, ClientFollows, [Next]_vars PROVE ViewInv' /\ ClientFollows'
  OBVIOUS
<1>1. CASE \E p \in Locals, pos \in Positions : EnterScene(p, pos) \/ Move(p, pos)
  BY <1>1, EnterStep, MoveStep
<1>2. CASE \E p \in Locals : LeaveScene(p) \/ ViewResync(p) \/ ProcessObserver(p)
  BY <1>2, LeaveStep, ResyncStep, ObserverStep
<1>3. CASE \E p \in Locals, epoch \in 1..MaxEpoch : Bind(p, epoch)
  BY <1>3, BindStep
<1>4. CASE \E p \in Locals, kept \in BOOLEAN : Offline(p, kept)
  BY <1>4, OfflineStep
<1>5. CASE \E e \in Foreign, pos \in Positions : RemoteEntry(e, pos) \/ RemoteMove(e, pos)
  BY <1>5, RemoteEntryStep, RemoteMoveStep
<1>6. CASE \E e \in Foreign : RemoteLeave(e)
  BY <1>6, RemoteLeaveStep
<1>7. CASE RemoteSnapshot
  BY <1>7, RemoteSnapshotStep
<1>8. CASE UNCHANGED vars
  <2>1. /\ scene' = scene /\ views' = views /\ dirty' = dirty /\ client' = client
        /\ binding' = binding /\ latest' = latest /\ ents' = ents
    BY <1>8 DEF vars, scene, sessions
  <2>2. TypeOK /\ ObserverInv
    BY DEF ViewInv
  <2>3. ObserverInv'
    BY <2>1, <2>2 DEF ObserverInv, Observes, Here
  <2>4. /\ views' \in [Locals -> Views] /\ client' \in [Locals -> Clients] /\ dirty' \subseteq Locals
        /\ dirty \subseteq dirty' /\ binding' \in [Locals -> 0..MaxEpoch] /\ latest' \in [Locals -> 0..MaxEpoch]
    BY <2>1, <2>2 DEF TypeOK
  <2>5. \A q \in Locals : client'[q] = client[q] /\ views'[q] = views[q]
    BY <2>1
  <2>6. StillChange
    BY <2>1, <2>3, <2>4, <2>5 DEF StillChange
  <2> QED
    BY <2>3, <2>6, StillStep
<1> QED
  BY <1>1, <1>2, <1>3, <1>4, <1>5, <1>6, <1>7, <1>8 DEF Next

\* ProcessAoiClientObserver and the marks of AoiReplica: whatever enters, moves
\* and leaves, here or on other workers, an observer with nothing to do has a
\* client that sees exactly the entities in range as they are.
THEOREM ViewsAgree == Spec => []ViewInv
<1>1. Spec => [](ViewInv /\ ClientFollows)
  BY ViewsInit, ViewsNext, PTL DEF Spec
<1> QED
  BY <1>1, PTL

\* SendDelta and the view snapshot: frames come in view_seq order, speak of
\* entities the client knows, and the client has what AoiViewSet committed.
THEOREM ClientsFollow == Spec => []ClientFollows
<1>1. Spec => [](ViewInv /\ ClientFollows)
  BY ViewsInit, ViewsNext, PTL DEF Spec
<1> QED
  BY <1>1, PTL
=============================================================================
