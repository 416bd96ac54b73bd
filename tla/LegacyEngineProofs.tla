------------------------- MODULE LegacyEngineProofs -------------------------
(***************************************************************************)
(* Proofs about the legacy engine.  Every pass changes the board through   *)
(* guarded placements and through removals of lessons that are there; the  *)
(* first part is about those two updates of a board, the second shows what *)
(* they keep when guarded, the third that each action is built from them.  *)
(***************************************************************************)
EXTENDS LegacyEngine, FiniteSetTheorems, SequenceTheorems, FunctionTheorems, TLAPS

\* The keys of a lesson are keys of the maps they are looked up in.
LEMMA KeysTyped ==
    ASSUME NEW l \in Lesson
    PROVE  /\ l.div \in Divisions /\ l.day \in Days /\ l.slot \in Slots
           /\ l.subject \in Subjects /\ l.teacher \in Teachers
           /\ CellOf(l) \in Cells
           /\ TimeOf(l) \in Teachers \X Days \X Slots
           /\ TeacherDay(l) \in Teachers \X Days
           /\ TeacherHalf(l) \in Teachers \X Days \X Halves
           /\ PairOf(l) \in Pairs
           /\ PairDay(l) \in Divisions \X Subjects \X Days
BY DEF Lesson, CellOf, TimeOf, TeacherDay, TeacherHalf, PairOf, PairDay,
       Cells, Pairs, Halves, Half

LEMMA BoardFields ==
    ASSUME NEW b \in Board
    PROVE  /\ b.entries \in SUBSET Lesson
           /\ b.cell \in [Cells -> Lesson \cup {NoLesson}]
           /\ b.busy \in [Teachers \X Days \X Slots -> Divisions \cup {NoDivision}]
           /\ b.daily \in [Teachers \X Days -> Nat]
           /\ b.session \in [Teachers \X Days \X Halves -> Nat]
           /\ b.weekly \in [Teachers -> Nat]
           /\ b.subWeek \in [Pairs -> Nat]
           /\ b.subDay \in [Divisions \X Subjects \X Days -> Nat]
           /\ b.lock \in [Pairs -> SUBSET Teachers]
           /\ b.pinned \in SUBSET Cells
           /\ b.stack \in Seq([lesson : Lesson, pinned : BOOLEAN])
BY DEF Board

\* Adding one to, or taking one from, an entry of a counter leaves a counter.
LEMMA CounterTyped ==
    ASSUME NEW K, NEW f \in [K -> Nat], NEW k \in K
    PROVE  /\ [f EXCEPT ![k] = @ + 1] \in [K -> Nat]
           /\ [f EXCEPT ![k] = Positive(@ - 1)] \in [K -> Nat]
BY DEF Positive

\* placeEntry keeps the types of the engine's maps.
LEMMA PlaceTyped ==
    ASSUME NEW b \in Board, NEW l \in Lesson, NEW pin \in BOOLEAN, NEW track \in BOOLEAN
    PROVE  PlaceLesson(b, l, pin, track) \in Board
<1> DEFINE e == b.entries \cup {l}
           c == [b.cell EXCEPT ![CellOf(l)] = l]
           y == [b.busy EXCEPT ![TimeOf(l)] = l.div]
           d == [b.daily EXCEPT ![TeacherDay(l)] = @ + 1]
           h == [b.session EXCEPT ![TeacherHalf(l)] = @ + 1]
           w == [b.weekly EXCEPT ![l.teacher] = @ + 1]
           sw == [b.subWeek EXCEPT ![PairOf(l)] = @ + 1]
           sd == [b.subDay EXCEPT ![PairDay(l)] = @ + 1]
           lk == [b.lock EXCEPT ![PairOf(l)] = @ \cup {l.teacher}]
           pn == IF pin THEN b.pinned \cup {CellOf(l)} ELSE b.pinned
           st == IF track THEN Append(b.stack, [lesson |-> l, pinned |-> pin]) ELSE b.stack
<1>1. e \in SUBSET Lesson
  BY BoardFields
<1>2. c \in [Cells -> Lesson \cup {NoLesson}]
  BY BoardFields
<1>3. y \in [Teachers \X Days \X Slots -> Divisions \cup {NoDivision}]
  BY BoardFields, KeysTyped
<1>4. d \in [Teachers \X Days -> Nat] /\ h \in [Teachers \X Days \X Halves -> Nat]
  BY BoardFields, KeysTyped, CounterTyped
<1>5. w \in [Teachers -> Nat]
  BY BoardFields, KeysTyped, CounterTyped
<1>6. sw \in [Pairs -> Nat] /\ sd \in [Divisions \X Subjects \X Days -> Nat]
  BY BoardFields, KeysTyped, CounterTyped
<1>7. lk \in [Pairs -> SUBSET Teachers]
  BY BoardFields, KeysTyped
<1>8. pn \in SUBSET Cells
  BY BoardFields, KeysTyped
<1>9. st \in Seq([lesson : Lesson, pinned : BOOLEAN])
  <2> DEFINE P == [lesson : Lesson, pinned : BOOLEAN]
  <2>1. b.stack \in Seq(P) /\ [lesson |-> l, pinned |-> pin] \in P
    BY BoardFields
  <2> HIDE DEF P
  <2>2. st \in Seq(P)
    BY <2>1
  <2> QED
    BY <2>2 DEF P
<1>10. PlaceLesson(b, l, pin, track) =
         [entries |-> e, cell |-> c, busy |-> y, daily |-> d, session |-> h,
          weekly |-> w, subWeek |-> sw, subDay |-> sd, lock |-> lk,
          pinned |-> pn, stack |-> st]
  BY DEF PlaceLesson
<1> HIDE DEF e, c, y, d, h, w, sw, sd, lk, pn, st
<1> QED
  BY <1>1, <1>2, <1>3, <1>4, <1>5, <1>6, <1>7, <1>8, <1>9, <1>10 DEF Board

\* removeLessonFromMapsAndEntry keeps the types too.
LEMMA RemoveTyped ==
    ASSUME NEW b \in Board, NEW l \in Lesson
    PROVE  RemoveLesson(b, l) \in Board
<1> DEFINE e == b.entries \ {l}
           c == [b.cell EXCEPT ![CellOf(l)] = NoLesson]
           y == [b.busy EXCEPT ![TimeOf(l)] = NoDivision]
           d == [b.daily EXCEPT ![TeacherDay(l)] = Positive(@ - 1)]
           h == [b.session EXCEPT ![TeacherHalf(l)] = Positive(@ - 1)]
           w == [b.weekly EXCEPT ![l.teacher] = Positive(@ - 1)]
           sw == [b.subWeek EXCEPT ![PairOf(l)] = Positive(@ - 1)]
           sd == [b.subDay EXCEPT ![PairDay(l)] = Positive(@ - 1)]
<1>1. e \in SUBSET Lesson
  BY BoardFields
<1>2. c \in [Cells -> Lesson \cup {NoLesson}]
  BY BoardFields
<1>3. y \in [Teachers \X Days \X Slots -> Divisions \cup {NoDivision}]
  BY BoardFields
<1>4. d \in [Teachers \X Days -> Nat] /\ h \in [Teachers \X Days \X Halves -> Nat]
  BY BoardFields, KeysTyped, CounterTyped
<1>5. w \in [Teachers -> Nat]
  BY BoardFields, KeysTyped, CounterTyped
<1>6. sw \in [Pairs -> Nat] /\ sd \in [Divisions \X Subjects \X Days -> Nat]
  BY BoardFields, KeysTyped, CounterTyped
<1>7. RemoveLesson(b, l) =
        [entries |-> e, cell |-> c, busy |-> y, daily |-> d, session |-> h,
         weekly |-> w, subWeek |-> sw, subDay |-> sd, lock |-> b.lock,
         pinned |-> b.pinned, stack |-> b.stack]
  BY DEF RemoveLesson
<1> HIDE DEF e, c, y, d, h, w, sw, sd
<1> QED
  BY <1>1, <1>2, <1>3, <1>4, <1>5, <1>6, <1>7, BoardFields DEF Board

-----------------------------------------------------------------------------
(* The slot maps *)

\* Lessons of an indexed board differ in class and time, and in teacher and
\* time, from a lesson whose cell and time are free.
LEMMA FreeIsApart ==
    ASSUME NEW b \in Board, IndexesEntries(b), NEW l \in Lesson, NEW m \in b.entries
    PROVE  /\ b.cell[CellOf(l)] = NoLesson => CellOf(m) # CellOf(l)
           /\ b.busy[TimeOf(l)] = NoDivision => TimeOf(m) # TimeOf(l)
<1>1. m \in Lesson /\ m.div \in Divisions
  BY BoardFields, KeysTyped
<1> QED
  BY <1>1, AbsentAssumption DEF IndexesEntries

\* placeEntry keeps the slot maps in step with the entries when the class and
\* the teacher are free, as canPlaceAssignment makes sure they are.
LEMMA PlaceIndexed ==
    ASSUME NEW b \in Board, IndexesEntries(b), NEW l \in Lesson,
           b.cell[CellOf(l)] = NoLesson, b.busy[TimeOf(l)] = NoDivision,
           NEW pin \in BOOLEAN, NEW track \in BOOLEAN
    PROVE  IndexesEntries(PlaceLesson(b, l, pin, track))
<1> DEFINE p == PlaceLesson(b, l, pin, track)
<1>1. /\ p.entries = b.entries \cup {l}
      /\ p.cell = [b.cell EXCEPT ![CellOf(l)] = l]
      /\ p.busy = [b.busy EXCEPT ![TimeOf(l)] = l.div]
  BY DEF PlaceLesson
<1> HIDE DEF p
<1>2. /\ b.cell \in [Cells -> Lesson \cup {NoLesson}]
      /\ b.busy \in [Teachers \X Days \X Slots -> Divisions \cup {NoDivision}]
      /\ CellOf(l) \in Cells /\ TimeOf(l) \in Teachers \X Days \X Slots
  BY BoardFields, KeysTyped
<1>3. ASSUME NEW m \in p.entries
      PROVE  p.cell[CellOf(m)] = m /\ p.busy[TimeOf(m)] = m.div
  <2>1. CASE m = l
    BY <1>1, <1>2, <2>1
  <2>2. CASE m \in b.entries
    <3>1. CellOf(m) # CellOf(l) /\ TimeOf(m) # TimeOf(l)
      BY <2>2, FreeIsApart
    <3>2. CellOf(m) \in Cells /\ TimeOf(m) \in Teachers \X Days \X Slots
      BY <2>2, BoardFields, KeysTyped
    <3> QED
      BY <1>1, <1>2, <2>2, <3>1, <3>2 DEF IndexesEntries
  <2> QED
    BY <1>1, <2>1, <2>2
<1>4. ASSUME NEW c \in Cells, p.cell[c] # NoLesson
      PROVE  p.cell[c] \in p.entries /\ CellOf(p.cell[c]) = c
  BY <1>1, <1>2, <1>4 DEF IndexesEntries
<1>5. ASSUME NEW k \in Teachers \X Days \X Slots, p.busy[k] # NoDivision
      PROVE  \E m \in p.entries : TimeOf(m) = k
  BY <1>1, <1>2, <1>5 DEF IndexesEntries
<1> QED
  BY <1>3, <1>4, <1>5 DEF p, IndexesEntries

\* removeLessonFromMapsAndEntry keeps them in step for a lesson that is there.
LEMMA RemoveIndexed ==
    ASSUME NEW b \in Board, IndexesEntries(b), NEW l \in b.entries
    PROVE  IndexesEntries(RemoveLesson(b, l))
<1> DEFINE r == RemoveLesson(b, l)
<1>1. /\ r.entries = b.entries \ {l}
      /\ r.cell = [b.cell EXCEPT ![CellOf(l)] = NoLesson]
      /\ r.busy = [b.busy EXCEPT ![TimeOf(l)] = NoDivision]
  BY DEF RemoveLesson
<1> HIDE DEF r
<1>2. /\ b.cell \in [Cells -> Lesson \cup {NoLesson}]
      /\ b.busy \in [Teachers \X Days \X Slots -> Divisions \cup {NoDivision}]
      /\ CellOf(l) \in Cells /\ TimeOf(l) \in Teachers \X Days \X Slots
  BY BoardFields, KeysTyped
<1>3. ASSUME NEW m \in r.entries
      PROVE  r.cell[CellOf(m)] = m /\ r.busy[TimeOf(m)] = m.div
  <2>1. m \in b.entries /\ m # l
    BY <1>1
  <2>2. CellOf(m) # CellOf(l)
    BY <2>1 DEF IndexesEntries
  <2>3. TimeOf(m) # TimeOf(l)
    <3>1. l \in Lesson /\ m \in Lesson
      BY <2>1, BoardFields
    <3>2. ASSUME TimeOf(m) = TimeOf(l) PROVE CellOf(m) = CellOf(l)
      <4>1. m.div = l.div
        BY <2>1, <3>2 DEF IndexesEntries
      <4> QED
        BY <3>1, <3>2, <4>1 DEF TimeOf, CellOf
    <3> QED
      BY <2>2, <3>2
  <2>4. CellOf(m) \in Cells /\ TimeOf(m) \in Teachers \X Days \X Slots
    BY <2>1, BoardFields, KeysTyped
  <2> QED
    BY <1>1, <1>2, <2>1, <2>2, <2>3, <2>4 DEF IndexesEntries
<1>4. ASSUME NEW c \in Cells, r.cell[c] # NoLesson
      PROVE  r.cell[c] \in r.entries /\ CellOf(r.cell[c]) = c
  <2>1. c # CellOf(l) /\ r.cell[c] = b.cell[c]
    BY <1>1, <1>2, <1>4
  <2>2. b.cell[c] \in b.entries /\ CellOf(b.cell[c]) = c
    BY <1>4, <2>1 DEF IndexesEntries
  <2> QED
    BY <1>1, <2>1, <2>2
<1>5. ASSUME NEW k \in Teachers \X Days \X Slots, r.busy[k] # NoDivision
      PROVE  \E m \in r.entries : TimeOf(m) = k
  <2>1. k # TimeOf(l) /\ \E m \in b.entries : TimeOf(m) = k
    BY <1>1, <1>2, <1>5 DEF IndexesEntries
  <2> QED
    BY <1>1, <2>1
<1> QED
  BY <1>3, <1>4, <1>5 DEF r, IndexesEntries

-----------------------------------------------------------------------------
(* The counters.  Each counts the lessons by one key; a key is a function  *)
(* here, so that one lemma serves them all.                                *)

DayKey == [l \in Lesson |-> TeacherDay(l)]
HalfKey == [l \in Lesson |-> TeacherHalf(l)]
TeacherKey == [l \in Lesson |-> l.teacher]
PairKey == [l \in Lesson |-> PairOf(l)]
PairDayKey == [l \in Lesson |-> PairDay(l)]

Counts(E, f, count) == \A k \in DOMAIN count : count[k] = Cardinality({l \in E : f[l] = k})

Counted(b) ==
    /\ IsFiniteSet(b.entries)
    /\ Counts(b.entries, DayKey, b.daily) /\ Counts(b.entries, HalfKey, b.session)
    /\ Counts(b.entries, TeacherKey, b.weekly)
    /\ Counts(b.entries, PairKey, b.subWeek) /\ Counts(b.entries, PairDayKey, b.subDay)

LEMMA KeyFunctions ==
    /\ DayKey \in [Lesson -> Teachers \X Days]
    /\ HalfKey \in [Lesson -> Teachers \X Days \X Halves]
    /\ TeacherKey \in [Lesson -> Teachers]
    /\ PairKey \in [Lesson -> Pairs]
    /\ PairDayKey \in [Lesson -> Divisions \X Subjects \X Days]
BY KeysTyped DEF DayKey, HalfKey, TeacherKey, PairKey, PairDayKey

\* one more lesson is one more at its key
LEMMA CountsPlaced ==
    ASSUME NEW K, NEW f \in [Lesson -> K], NEW count \in [K -> Nat],
           NEW E \in SUBSET Lesson, IsFiniteSet(E), Counts(E, f, count), NEW l \in Lesson \ E
    PROVE  Counts(E \cup {l}, f, [count EXCEPT ![f[l]] = @ + 1])
<1> DEFINE at(S, k) == {m \in S : f[m] = k}
<1>1. ASSUME NEW k \in K
      PROVE  [count EXCEPT ![f[l]] = @ + 1][k] = Cardinality(at(E \cup {l}, k))
  <2>1. count[k] = Cardinality(at(E, k)) /\ IsFiniteSet(at(E, k)) /\ l \notin at(E, k)
    BY FS_Subset DEF Counts
  <2>2. CASE f[l] = k
    <3>1. at(E \cup {l}, k) = at(E, k) \cup {l}
      BY <2>2
    <3> HIDE DEF at
    <3>2. Cardinality(at(E, k) \cup {l}) = Cardinality(at(E, k)) + 1
      BY <2>1, FS_AddElement
    <3> QED
      BY <2>1, <2>2, <3>1, <3>2
  <2>3. CASE f[l] # k
    <3>1. at(E \cup {l}, k) = at(E, k)
      BY <2>3
    <3> HIDE DEF at
    <3> QED
      BY <2>1, <2>3, <3>1
  <2> QED
    BY <2>2, <2>3
<1> QED
  BY <1>1 DEF Counts

\* one lesson less is one less, which is never below zero
LEMMA CountsRemoved ==
    ASSUME NEW K, NEW f \in [Lesson -> K], NEW count \in [K -> Nat],
           NEW E \in SUBSET Lesson, IsFiniteSet(E), Counts(E, f, count), NEW l \in E
    PROVE  Counts(E \ {l}, f, [count EXCEPT ![f[l]] = Positive(@ - 1)])
<1> DEFINE at(S, k) == {m \in S : f[m] = k}
<1>1. ASSUME NEW k \in K
      PROVE  [count EXCEPT ![f[l]] = Positive(@ - 1)][k] = Cardinality(at(E \ {l}, k))
  <2>1. count[k] = Cardinality(at(E, k)) /\ IsFiniteSet(at(E, k)) /\ count[k] \in Nat
    BY FS_Subset DEF Counts
  <2>2. CASE f[l] = k
    <3>1. at(E \ {l}, k) = at(E, k) \ {l} /\ l \in at(E, k)
      BY <2>2
    <3> HIDE DEF at
    <3>2. Cardinality(at(E, k) \ {l}) = Cardinality(at(E, k)) - 1 /\ IsFiniteSet(at(E, k) \ {l})
      BY <2>1, <3>1, FS_RemoveElement
    <3>3. Cardinality(at(E, k) \ {l}) \in Nat
      BY <3>2, FS_CardinalityType
    <3>4. [count EXCEPT ![f[l]] = Positive(@ - 1)][k] = Positive(count[k] - 1)
      BY <2>2
    <3> QED
      BY <2>1, <3>1, <3>2, <3>3, <3>4 DEF Positive
  <2>3. CASE f[l] # k
    <3>1. at(E \ {l}, k) = at(E, k)
      BY <2>3
    <3> HIDE DEF at
    <3> QED
      BY <2>1, <2>3, <3>1
  <2> QED
    BY <2>2, <2>3
<1> QED
  BY <1>1 DEF Counts

LEMMA KeyValues ==
    ASSUME NEW l \in Lesson
    PROVE  /\ DayKey[l] = TeacherDay(l) /\ HalfKey[l] = TeacherHalf(l) /\ TeacherKey[l] = l.teacher
           /\ PairKey[l] = PairOf(l) /\ PairDayKey[l] = PairDay(l)
BY DEF DayKey, HalfKey, TeacherKey, PairKey, PairDayKey

\* placeEntry keeps the counters in step with the entries
LEMMA PlaceCounted ==
    ASSUME NEW b \in Board, Counted(b), NEW l \in Lesson \ b.entries,
           NEW pin \in BOOLEAN, NEW track \in BOOLEAN
    PROVE  Counted(PlaceLesson(b, l, pin, track))
<1> DEFINE p == PlaceLesson(b, l, pin, track)
<1>1. /\ p.entries = b.entries \cup {l}
      /\ p.daily = [b.daily EXCEPT ![DayKey[l]] = @ + 1]
      /\ p.session = [b.session EXCEPT ![HalfKey[l]] = @ + 1]
      /\ p.weekly = [b.weekly EXCEPT ![TeacherKey[l]] = @ + 1]
      /\ p.subWeek = [b.subWeek EXCEPT ![PairKey[l]] = @ + 1]
      /\ p.subDay = [b.subDay EXCEPT ![PairDayKey[l]] = @ + 1]
  BY KeyValues DEF PlaceLesson
<1> HIDE DEF p
<1>2. b.entries \in SUBSET Lesson /\ IsFiniteSet(b.entries)
  BY BoardFields DEF Counted
<1>3. IsFiniteSet(p.entries)
  BY <1>1, <1>2, FS_AddElement
<1>4. Counts(p.entries, DayKey, p.daily)
  <2> DEFINE K == Teachers \X Days
  <2>1. DayKey \in [Lesson -> K] /\ b.daily \in [K -> Nat]
    BY BoardFields, KeyFunctions
  <2> HIDE DEF K
  <2>2. Counts(b.entries, DayKey, b.daily)
    BY DEF Counted
  <2>3. Counts(b.entries \cup {l}, DayKey, [b.daily EXCEPT ![DayKey[l]] = @ + 1])
    BY <1>2, <2>1, <2>2, CountsPlaced
  <2> QED
    BY <1>1, <2>3
<1>5. Counts(p.entries, HalfKey, p.session)
  <2> DEFINE K == Teachers \X Days \X Halves
  <2>1. HalfKey \in [Lesson -> K] /\ b.session \in [K -> Nat]
    BY BoardFields, KeyFunctions
  <2> HIDE DEF K
  <2>2. Counts(b.entries, HalfKey, b.session)
    BY DEF Counted
  <2>3. Counts(b.entries \cup {l}, HalfKey, [b.session EXCEPT ![HalfKey[l]] = @ + 1])
    BY <1>2, <2>1, <2>2, CountsPlaced
  <2> QED
    BY <1>1, <2>3
<1>6. Counts(p.entries, TeacherKey, p.weekly)
  <2>1. TeacherKey \in [Lesson -> Teachers] /\ b.weekly \in [Teachers -> Nat]
    BY BoardFields, KeyFunctions
  <2>2. Counts(b.entries, TeacherKey, b.weekly)
    BY DEF Counted
  <2>3. Counts(b.entries \cup {l}, TeacherKey, [b.weekly EXCEPT ![TeacherKey[l]] = @ + 1])
    BY <1>2, <2>1, <2>2, CountsPlaced
  <2> QED
    BY <1>1, <2>3
<1>7. Counts(p.entries, PairKey, p.subWeek)
  <2>1. PairKey \in [Lesson -> Pairs] /\ b.subWeek \in [Pairs -> Nat]
    BY BoardFields, KeyFunctions
  <2>2. Counts(b.entries, PairKey, b.subWeek)
    BY DEF Counted
  <2>3. Counts(b.entries \cup {l}, PairKey, [b.subWeek EXCEPT ![PairKey[l]] = @ + 1])
    BY <1>2, <2>1, <2>2, CountsPlaced
  <2> QED
    BY <1>1, <2>3
<1>8. Counts(p.entries, PairDayKey, p.subDay)
  <2> DEFINE K == Divisions \X Subjects \X Days
  <2>1. PairDayKey \in [Lesson -> K] /\ b.subDay \in [K -> Nat]
    BY BoardFields, KeyFunctions
  <2> HIDE DEF K
  <2>2. Counts(b.entries, PairDayKey, b.subDay)
    BY DEF Counted
  <2>3. Counts(b.entries \cup {l}, PairDayKey, [b.subDay EXCEPT ![PairDayKey[l]] = @ + 1])
    BY <1>2, <2>1, <2>2, CountsPlaced
  <2> QED
    BY <1>1, <2>3
<1> QED
  BY <1>3, <1>4, <1>5, <1>6, <1>7, <1>8 DEF p, Counted

\* removeLessonFromMapsAndEntry does so for a lesson that is there
LEMMA RemoveCounted ==
    ASSUME NEW b \in Board, Counted(b), NEW l \in b.entries
    PROVE  Counted(RemoveLesson(b, l))
<1> DEFINE r == RemoveLesson(b, l)
<1>0. b.entries \in SUBSET Lesson /\ IsFiniteSet(b.entries) /\ l \in Lesson
  BY BoardFields DEF Counted
<1>1. /\ r.entries = b.entries \ {l}
      /\ r.daily = [b.daily EXCEPT ![DayKey[l]] = Positive(@ - 1)]
      /\ r.session = [b.session EXCEPT ![HalfKey[l]] = Positive(@ - 1)]
      /\ r.weekly = [b.weekly EXCEPT ![TeacherKey[l]] = Positive(@ - 1)]
      /\ r.subWeek = [b.subWeek EXCEPT ![PairKey[l]] = Positive(@ - 1)]
      /\ r.subDay = [b.subDay EXCEPT ![PairDayKey[l]] = Positive(@ - 1)]
  BY <1>0, KeyValues DEF RemoveLesson
<1> HIDE DEF r
<1>2. IsFiniteSet(r.entries)
  BY <1>0, <1>1, FS_RemoveElement
<1>3. Counts(r.entries, DayKey, r.daily)
  <2> DEFINE K == Teachers \X Days
  <2>1. DayKey \in [Lesson -> K] /\ b.daily \in [K -> Nat]
    BY BoardFields, KeyFunctions
  <2> HIDE DEF K
  <2>2. Counts(b.entries, DayKey, b.daily)
    BY DEF Counted
  <2>3. Counts(b.entries \ {l}, DayKey, [b.daily EXCEPT ![DayKey[l]] = Positive(@ - 1)])
    BY <1>0, <2>1, <2>2, CountsRemoved
  <2> QED
    BY <1>1, <2>3
<1>4. Counts(r.entries, HalfKey, r.session)
  <2> DEFINE K == Teachers \X Days \X Halves
  <2>1. HalfKey \in [Lesson -> K] /\ b.session \in [K -> Nat]
    BY BoardFields, KeyFunctions
  <2> HIDE DEF K
  <2>2. Counts(b.entries, HalfKey, b.session)
    BY DEF Counted
  <2>3. Counts(b.entries \ {l}, HalfKey, [b.session EXCEPT ![HalfKey[l]] = Positive(@ - 1)])
    BY <1>0, <2>1, <2>2, CountsRemoved
  <2> QED
    BY <1>1, <2>3
<1>5. Counts(r.entries, TeacherKey, r.weekly)
  <2>1. TeacherKey \in [Lesson -> Teachers] /\ b.weekly \in [Teachers -> Nat]
    BY BoardFields, KeyFunctions
  <2>2. Counts(b.entries, TeacherKey, b.weekly)
    BY DEF Counted
  <2>3. Counts(b.entries \ {l}, TeacherKey, [b.weekly EXCEPT ![TeacherKey[l]] = Positive(@ - 1)])
    BY <1>0, <2>1, <2>2, CountsRemoved
  <2> QED
    BY <1>1, <2>3
<1>6. Counts(r.entries, PairKey, r.subWeek)
  <2>1. PairKey \in [Lesson -> Pairs] /\ b.subWeek \in [Pairs -> Nat]
    BY BoardFields, KeyFunctions
  <2>2. Counts(b.entries, PairKey, b.subWeek)
    BY DEF Counted
  <2>3. Counts(b.entries \ {l}, PairKey, [b.subWeek EXCEPT ![PairKey[l]] = Positive(@ - 1)])
    BY <1>0, <2>1, <2>2, CountsRemoved
  <2> QED
    BY <1>1, <2>3
<1>7. Counts(r.entries, PairDayKey, r.subDay)
  <2> DEFINE K == Divisions \X Subjects \X Days
  <2>1. PairDayKey \in [Lesson -> K] /\ b.subDay \in [K -> Nat]
    BY BoardFields, KeyFunctions
  <2> HIDE DEF K
  <2>2. Counts(b.entries, PairDayKey, b.subDay)
    BY DEF Counted
  <2>3. Counts(b.entries \ {l}, PairDayKey, [b.subDay EXCEPT ![PairDayKey[l]] = Positive(@ - 1)])
    BY <1>0, <2>1, <2>2, CountsRemoved
  <2> QED
    BY <1>1, <2>3
<1> QED
  BY <1>2, <1>3, <1>4, <1>5, <1>6, <1>7 DEF r, Counted

-----------------------------------------------------------------------------
(* Limits and capacities *)

LEMMA TargetsNat == WeeklyTarget \in [Pairs -> Nat] /\ MaxPerDay \in [Pairs -> Nat]
BY SchoolAssumption DEF WeeklyTarget, MaxPerDay, Pairs

LEMMA CapacitiesNat ==
    /\ WeeklyCapacity \in [Teachers -> Nat] /\ DailyCapacity \in [Teachers -> Nat]
    /\ SessionCapacity \in [Teachers \X Halves -> Nat]
<1>1. Cardinality(MorningSlots) \in Nat /\ Cardinality(LessonSlots \ MorningSlots) \in Nat
  BY SchoolAssumption, FS_Subset, FS_CardinalityType DEF MorningSlots, LessonSlots
<1>2. SessionCapacity \in [Teachers \X Halves -> Nat]
  BY <1>1, SchoolAssumption DEF SessionCapacity, Positive
<1>3. ASSUME NEW t \in Teachers PROVE DerivedDaily(t) \in Nat
  BY <1>2 DEF DerivedDaily, Halves
<1>4. DailyCapacity \in [Teachers -> Nat]
  BY <1>3, SchoolAssumption DEF DailyCapacity, AtMost
<1>5. ASSUME NEW t \in Teachers PROVE DerivedDaily(t) * NumDays \in Nat
  <2>1. \A m, n \in Nat : m * n \in Nat
    OBVIOUS
  <2> QED
    BY <1>3, <2>1, SchoolAssumption
<1>6. WeeklyCapacity \in [Teachers -> Nat]
  BY <1>5, SchoolAssumption DEF WeeklyCapacity, AtMost
<1> QED
  BY <1>2, <1>4, <1>6

-----------------------------------------------------------------------------
(* What guarded placements and removals keep                               *)

\* No allocation asks for double blocks, which test the limits once for two
\* lessons; where one does, a limit may be exceeded by one.
NoDoubles ==
    /\ \A i \in DOMAIN MainOrder : DoublePasses(MainOrder[i]) = 0
    /\ \A i \in DOMAIN SoftOrder : DoublePasses(SoftOrder[i]) = 0
Slack == IF NoDoubles THEN 0 ELSE 1

WithinLimits(b) ==
    /\ \A p \in Pairs : b.subWeek[p] <= WeeklyTarget[p]
    /\ \A k \in Divisions \X Subjects \X Days : b.subDay[k] <= MaxPerDay[<<k[1], k[2]>>] + Slack
    /\ \A t \in Teachers : b.weekly[t] <= WeeklyCapacity[t] + Slack
    /\ \A k \in Teachers \X Days : b.daily[k] <= DailyCapacity[k[1]] + Slack
    /\ \A k \in Teachers \X Days \X Halves : b.session[k] <= SessionCapacity[<<k[1], k[3]>>] + Slack

Locked(b) ==
    /\ \A l \in Unpinned(b) : l.teacher \in b.lock[PairOf(l)]
    /\ \A p \in Pairs : \/ Cardinality(b.lock[p]) <= MaxTeachersForPair[p]
                        \/ b.lock[p] \subseteq SeededLocks[p]

PinsHeld(b) == \A c \in b.pinned : b.cell[c] # NoLesson

OneContinuity(b) ==
    \A t \in Teachers, day \in Days, d, e \in Divisions :
        HasContinuity(b, t, d, day) /\ HasContinuity(b, t, e, day) => d = e

\* The part of the inductive invariant that speaks of a board alone.
BoardOK(b) ==
    /\ b \in Board
    /\ IndexesEntries(b) /\ Counted(b)
    /\ WithinLimits(b)
    /\ Locked(b) /\ PinsHeld(b)
    /\ NoDoubles => OneContinuity(b)

\* what a placement needs to keep the board as it should be: less than
\* canPlaceAssignment tests, as the second lesson of a double block is placed
\* on another board than it was tested on
RoomFor(b, l) ==
    /\ b.subWeek[PairOf(l)] < WeeklyTarget[PairOf(l)]
    /\ b.subDay[PairDay(l)] < MaxPerDay[PairOf(l)] + Slack
    /\ b.weekly[l.teacher] < WeeklyCapacity[l.teacher] + Slack
    /\ b.daily[TeacherDay(l)] < DailyCapacity[l.teacher] + Slack
    /\ b.session[TeacherHalf(l)] < SessionCapacity[<<l.teacher, Half(l.slot)>>] + Slack
Admissible(b, l) ==
    /\ b.cell[CellOf(l)] = NoLesson /\ b.busy[TimeOf(l)] = NoDivision
    /\ l.slot \in LessonSlots
    /\ LockAllows(b, l) /\ RoomFor(b, l)
    /\ NoDoubles => ~ ViolatesSingleClassContinuity(b, l)

LEMMA CanPlaceAdmissible ==
    ASSUME NEW b, BoardOK(b), NEW l \in Lesson, NEW ignoreSoft, CanPlace(b, l, ignoreSoft)
    PROVE  Admissible(b, l)
<1>1. b \in Board
  BY DEF BoardOK
<1>2. /\ b.subDay[PairDay(l)] \in Nat /\ b.weekly[l.teacher] \in Nat /\ b.daily[TeacherDay(l)] \in Nat
      /\ b.session[TeacherHalf(l)] \in Nat
  BY <1>1, BoardFields, KeysTyped
<1>3. /\ MaxPerDay[PairOf(l)] \in Nat /\ WeeklyCapacity[l.teacher] \in Nat
      /\ DailyCapacity[l.teacher] \in Nat /\ SessionCapacity[<<l.teacher, Half(l.slot)>>] \in Nat
  BY KeysTyped, TargetsNat, CapacitiesNat DEF Half, Halves
<1>4. Slack \in 0..1
  BY DEF Slack
<1>5. RoomFor(b, l)
  BY <1>2, <1>3, <1>4 DEF CanPlace, LimitsAllow, CanAssignTeacher, RoomFor
<1> QED
  BY <1>5 DEF CanPlace, CanAssignTeacher, Admissible

\* a lesson that is placed was not there
LEMMA AdmissibleIsNew ==
    ASSUME NEW b, BoardOK(b), NEW l \in Lesson, Admissible(b, l)
    PROVE  /\ l \notin b.entries /\ CellOf(l) \notin b.pinned
           /\ \A m \in b.entries : CellOf(m) # CellOf(l)
<1>1. \A m \in b.entries : CellOf(m) # CellOf(l)
  BY FreeIsApart DEF BoardOK, Admissible
<1> QED
  BY <1>1 DEF BoardOK, PinsHeld, Admissible

LEMMA PlaceWithin ==
    ASSUME NEW b, BoardOK(b), NEW l \in Lesson, Admissible(b, l),
           NEW pin \in BOOLEAN, NEW track \in BOOLEAN
    PROVE  WithinLimits(PlaceLesson(b, l, pin, track))
<1> DEFINE c == PlaceLesson(b, l, pin, track)
<1>1. /\ c.subWeek = [b.subWeek EXCEPT ![PairOf(l)] = @ + 1]
      /\ c.subDay = [b.subDay EXCEPT ![PairDay(l)] = @ + 1]
      /\ c.weekly = [b.weekly EXCEPT ![l.teacher] = @ + 1]
      /\ c.daily = [b.daily EXCEPT ![TeacherDay(l)] = @ + 1]
      /\ c.session = [b.session EXCEPT ![TeacherHalf(l)] = @ + 1]
  BY DEF PlaceLesson
<1> HIDE DEF c
<1>2. b \in Board /\ Slack \in 0..1 /\ WithinLimits(b) /\ RoomFor(b, l)
  BY DEF BoardOK, Slack, Admissible
<1>3. ASSUME NEW p \in Pairs PROVE c.subWeek[p] <= WeeklyTarget[p]
  <2>1. b.subWeek \in [Pairs -> Nat] /\ WeeklyTarget[p] \in Nat
    BY <1>2, BoardFields, TargetsNat
  <2>2. b.subWeek[p] <= WeeklyTarget[p] /\ (p = PairOf(l) => b.subWeek[p] < WeeklyTarget[p])
    BY <1>2 DEF WithinLimits, RoomFor
  <2> QED
    BY <1>1, <2>1, <2>2
<1>4. ASSUME NEW k \in Divisions \X Subjects \X Days
      PROVE  c.subDay[k] <= MaxPerDay[<<k[1], k[2]>>] + Slack
  <2>1. <<k[1], k[2]>> \in Pairs
    BY DEF Pairs
  <2>2. b.subDay[k] \in Nat /\ MaxPerDay[<<k[1], k[2]>>] \in Nat
        /\ c.subDay[k] = IF k = PairDay(l) THEN b.subDay[k] + 1 ELSE b.subDay[k]
    BY <1>1, <1>2, <2>1, BoardFields, TargetsNat
  <2>3. b.subDay[k] <= MaxPerDay[<<k[1], k[2]>>] + Slack
    BY <1>2 DEF WithinLimits
  <2>4. k = PairDay(l) => b.subDay[k] < MaxPerDay[<<k[1], k[2]>>] + Slack
    BY <1>2 DEF RoomFor, PairDay, PairOf
  <2> QED
    BY <1>2, <2>2, <2>3, <2>4
<1>5. ASSUME NEW t \in Teachers PROVE c.weekly[t] <= WeeklyCapacity[t] + Slack
  <2>1. b.weekly \in [Teachers -> Nat] /\ WeeklyCapacity[t] \in Nat
    BY <1>2, BoardFields, CapacitiesNat
  <2>2. /\ b.weekly[t] <= WeeklyCapacity[t] + Slack
        /\ t = l.teacher => b.weekly[t] < WeeklyCapacity[t] + Slack
    BY <1>2 DEF WithinLimits, RoomFor
  <2> QED
    BY <1>1, <1>2, <2>1, <2>2
<1>6. ASSUME NEW k \in Teachers \X Days PROVE c.daily[k] <= DailyCapacity[k[1]] + Slack
  <2>1. b.daily[k] \in Nat /\ DailyCapacity[k[1]] \in Nat
        /\ c.daily[k] = IF k = TeacherDay(l) THEN b.daily[k] + 1 ELSE b.daily[k]
    BY <1>1, <1>2, BoardFields, CapacitiesNat
  <2>2. b.daily[k] <= DailyCapacity[k[1]] + Slack
    BY <1>2 DEF WithinLimits
  <2>3. k = TeacherDay(l) => b.daily[k] < DailyCapacity[k[1]] + Slack
    BY <1>2 DEF RoomFor, TeacherDay
  <2> QED
    BY <1>2, <2>1, <2>2, <2>3
<1>7. ASSUME NEW k \in Teachers \X Days \X Halves
      PROVE  c.session[k] <= SessionCapacity[<<k[1], k[3]>>] + Slack
  <2>1. b.session[k] \in Nat /\ SessionCapacity[<<k[1], k[3]>>] \in Nat
        /\ c.session[k] = IF k = TeacherHalf(l) THEN b.session[k] + 1 ELSE b.session[k]
    BY <1>1, <1>2, BoardFields, CapacitiesNat
  <2>2. b.session[k] <= SessionCapacity[<<k[1], k[3]>>] + Slack
    BY <1>2 DEF WithinLimits
  <2>3. k = TeacherHalf(l) => b.session[k] < SessionCapacity[<<k[1], k[3]>>] + Slack
    BY <1>2 DEF RoomFor, TeacherHalf
  <2> QED
    BY <1>2, <2>1, <2>2, <2>3
<1> QED
  BY <1>3, <1>4, <1>5, <1>6, <1>7 DEF WithinLimits, c

\* placeEntry extends a lock only where the pair may have another teacher.
LEMMA PlaceLocked ==
    ASSUME NEW b, BoardOK(b), NEW l \in Lesson, Admissible(b, l),
           NEW pin \in BOOLEAN, NEW track \in BOOLEAN
    PROVE  Locked(PlaceLesson(b, l, pin, track)) /\ PinsHeld(PlaceLesson(b, l, pin, track))
<1> DEFINE c == PlaceLesson(b, l, pin, track)
<1>1. /\ c.entries = b.entries \cup {l} /\ c.cell = [b.cell EXCEPT ![CellOf(l)] = l]
      /\ c.pinned \subseteq b.pinned \cup {CellOf(l)} /\ b.pinned \subseteq c.pinned
      /\ c.lock = [b.lock EXCEPT ![PairOf(l)] = @ \cup {l.teacher}]
  BY DEF PlaceLesson
<1> HIDE DEF c
<1>2. /\ b.entries \subseteq Lesson /\ b.cell \in [Cells -> Lesson \cup {NoLesson}]
      /\ b.lock \in [Pairs -> SUBSET Teachers] /\ b.pinned \subseteq Cells
  BY BoardFields DEF BoardOK
<1>3. /\ l.teacher \in Teachers /\ PairOf(l) \in Pairs
      /\ CellOf(l) \in Cells /\ l # NoLesson
  BY KeysTyped, AbsentAssumption
<1>4. ASSUME NEW m \in Unpinned(c) PROVE m.teacher \in c.lock[PairOf(m)]
  <2>1. CASE m = l
    BY <1>1, <1>2, <1>3, <2>1
  <2>2. CASE m # l
    <3>1. m \in Unpinned(b) /\ PairOf(m) \in Pairs
      BY <1>1, <1>2, <2>2, KeysTyped DEF Unpinned, IsPinned
    <3>2. m.teacher \in b.lock[PairOf(m)]
      BY <3>1 DEF BoardOK, Locked
    <3> QED
      BY <1>1, <1>2, <3>1, <3>2
  <2> QED
    BY <2>1, <2>2
<1>5. ASSUME NEW p \in Pairs
      PROVE  \/ Cardinality(c.lock[p]) <= MaxTeachersForPair[p]
             \/ c.lock[p] \subseteq SeededLocks[p]
  <2>1. \/ Cardinality(b.lock[p]) <= MaxTeachersForPair[p]
        \/ b.lock[p] \subseteq SeededLocks[p]
    BY DEF BoardOK, Locked
  <2>2. CASE c.lock[p] = b.lock[p]
    BY <2>1, <2>2
  <2>3. CASE c.lock[p] # b.lock[p]
    <3>1. p = PairOf(l) /\ c.lock[p] = b.lock[p] \cup {l.teacher} /\ l.teacher \notin b.lock[p]
      <4>1. c.lock[p] = IF p = PairOf(l) THEN b.lock[p] \cup {l.teacher} ELSE b.lock[p]
        BY <1>1, <1>2
      <4>2. l.teacher \in b.lock[p] => b.lock[p] \cup {l.teacher} = b.lock[p]
        OBVIOUS
      <4> QED
        BY <2>3, <4>1, <4>2
    <3>2. Cardinality(b.lock[p]) < MaxTeachersForPair[p]
      BY <3>1 DEF Admissible, LockAllows
    <3>3. IsFiniteSet(b.lock[p])
      BY <1>2, SchoolAssumption, FS_Subset
    <3>4. /\ Cardinality(b.lock[p] \cup {l.teacher}) = Cardinality(b.lock[p]) + 1
          /\ Cardinality(b.lock[p]) \in Nat
      BY <3>1, <3>3, FS_AddElement, FS_CardinalityType
    <3>5. MaxTeachersForPair[p] \in Nat
      BY DEF MaxTeachersForPair
    <3> QED
      BY <3>1, <3>2, <3>4, <3>5
  <2> QED
    BY <2>2, <2>3
<1>6. ASSUME NEW k \in c.pinned PROVE c.cell[k] # NoLesson
  <2>1. k \in Cells /\ (k # CellOf(l) => b.cell[k] # NoLesson)
    BY <1>1, <1>2, <1>3 DEF BoardOK, PinsHeld
  <2> QED
    BY <1>1, <1>2, <1>3, <2>1
<1> QED
  BY <1>4, <1>5, <1>6 DEF c, Locked, PinsHeld

\* A placement makes consecutive lessons only in its own class and day, and
\* only next to a lesson of the same teacher.
LEMMA PlaceContinuity ==
    ASSUME NEW b \in Board, NEW l \in Lesson, NEW pin \in BOOLEAN, NEW track \in BOOLEAN,
           NEW t \in Teachers, NEW d \in Divisions, NEW day \in Days,
           HasContinuity(PlaceLesson(b, l, pin, track), t, d, day)
    PROVE  \/ HasContinuity(b, t, d, day)
           \/ t = l.teacher /\ d = l.div /\ day = l.day /\ CreatesContinuity(b, l)
<1> DEFINE c == PlaceLesson(b, l, pin, track)
           own == t = l.teacher /\ d = l.div /\ day = l.day
<1>1. c.cell = [b.cell EXCEPT ![CellOf(l)] = l] /\ b.cell \in [Cells -> Lesson \cup {NoLesson}]
  BY BoardFields DEF PlaceLesson
<1>2. HasContinuity(c, t, d, day)
  OBVIOUS
<1> HIDE DEF c
<1>3. PICK m \in LessonSlots, n \in LessonSlots :
          Consecutive(m, n) /\ TaughtBy(c, t, d, day, m) /\ TaughtBy(c, t, d, day, n)
  BY <1>2 DEF HasContinuity
<1>4. ASSUME NEW k \in LessonSlots, TaughtBy(c, t, d, day, k)
      PROVE  TaughtBy(b, t, d, day, k) \/ (own /\ k = l.slot)
  <2>1. <<d, day, k>> \in Cells
    BY DEF Cells, LessonSlots
  <2>2. CASE <<d, day, k>> = CellOf(l)
    <3>1. d = l.div /\ day = l.day /\ k = l.slot
      BY <2>2 DEF CellOf
    <3>2. c.cell[<<d, day, k>>] = l
      BY <1>1, <2>1, <2>2
    <3> QED
      BY <1>4, <3>1, <3>2 DEF TaughtBy
  <2>3. CASE <<d, day, k>> # CellOf(l)
    BY <1>1, <1>4, <2>1, <2>3 DEF TaughtBy
  <2> QED
    BY <2>2, <2>3
<1>5. m # n
  BY <1>3, SchoolAssumption DEF Consecutive, LessonSlots
<1>6. /\ TaughtBy(b, t, d, day, m) \/ (own /\ m = l.slot)
      /\ TaughtBy(b, t, d, day, n) \/ (own /\ n = l.slot)
  BY <1>3, <1>4
<1> HIDE DEF own
<1>7. CASE TaughtBy(b, t, d, day, m) /\ TaughtBy(b, t, d, day, n)
  BY <1>3, <1>7 DEF HasContinuity
<1>8. CASE own /\ m = l.slot /\ TaughtBy(b, t, d, day, n)
  BY <1>3, <1>8 DEF CreatesContinuity, own
<1>9. CASE own /\ n = l.slot /\ TaughtBy(b, t, d, day, m)
  BY <1>3, <1>9 DEF CreatesContinuity, own
<1> QED
  BY <1>5, <1>6, <1>7, <1>8, <1>9

LEMMA PlaceOneContinuity ==
    ASSUME NEW b, BoardOK(b), NEW l \in Lesson, Admissible(b, l), NoDoubles,
           NEW pin \in BOOLEAN, NEW track \in BOOLEAN
    PROVE  OneContinuity(PlaceLesson(b, l, pin, track))
<1> DEFINE c == PlaceLesson(b, l, pin, track)
<1> SUFFICES ASSUME NEW t \in Teachers, NEW day \in Days, NEW d \in Divisions, NEW e \in Divisions,
                    HasContinuity(c, t, d, day), HasContinuity(c, t, e, day)
             PROVE  d = e
  BY DEF OneContinuity
<1>1. b \in Board /\ OneContinuity(b) /\ ~ ViolatesSingleClassContinuity(b, l)
  BY DEF BoardOK, Admissible
<1>2. /\ HasContinuity(b, t, d, day)
         \/ (t = l.teacher /\ d = l.div /\ day = l.day /\ CreatesContinuity(b, l))
      /\ HasContinuity(b, t, e, day)
         \/ (t = l.teacher /\ e = l.div /\ day = l.day /\ CreatesContinuity(b, l))
  BY <1>1, PlaceContinuity
<1>3. CASE HasContinuity(b, t, d, day) /\ HasContinuity(b, t, e, day)
  BY <1>1, <1>3 DEF OneContinuity
<1>4. CASE t = l.teacher /\ d = l.div /\ day = l.day /\ CreatesContinuity(b, l)
  BY <1>1, <1>2, <1>4 DEF ViolatesSingleClassContinuity
<1>5. CASE t = l.teacher /\ e = l.div /\ day = l.day /\ CreatesContinuity(b, l)
  BY <1>1, <1>2, <1>5 DEF ViolatesSingleClassContinuity
<1> QED
  BY <1>2, <1>3, <1>4, <1>5

-----------------------------------------------------------------------------
(* What a change of the board keeps: the pinned lessons, and the stack as  *)
(* the list of the lessons on the board.                                   *)

PinsStay(b, c) == \A k \in b.pinned : c.cell[k] = b.cell[k] /\ k \in c.pinned

StackHolds(b) ==
    /\ \A i \in DOMAIN b.stack : /\ b.stack[i].lesson \in b.entries
                                 /\ b.stack[i].pinned = IsPinned(b, b.stack[i].lesson)
    /\ \A i, j \in DOMAIN b.stack : b.stack[i].lesson = b.stack[j].lesson => i = j
    /\ \A l \in b.entries : \E i \in DOMAIN b.stack : b.stack[i].lesson = l

\* placeEntry, of a lesson that canPlaceAssignment allowed
LEMMA PlaceOK ==
    ASSUME NEW b, BoardOK(b), NEW l \in Lesson, Admissible(b, l),
           NEW pin \in BOOLEAN, NEW track \in BOOLEAN
    PROVE  /\ BoardOK(PlaceLesson(b, l, pin, track))
           /\ PinsStay(b, PlaceLesson(b, l, pin, track))
<1> DEFINE c == PlaceLesson(b, l, pin, track)
<1>1. b \in Board /\ IndexesEntries(b) /\ Counted(b)
  BY DEF BoardOK
<1>2. b.cell[CellOf(l)] = NoLesson /\ b.busy[TimeOf(l)] = NoDivision /\ l \notin b.entries
      /\ CellOf(l) \notin b.pinned
  BY AdmissibleIsNew DEF Admissible
<1>3. c \in Board /\ IndexesEntries(c) /\ Counted(c)
  BY <1>1, <1>2, PlaceTyped, PlaceIndexed, PlaceCounted
<1>4. BoardOK(c)
  BY <1>3, PlaceWithin, PlaceLocked, PlaceOneContinuity DEF BoardOK
<1>5. PinsStay(b, c)
  <2>1. c.cell = [b.cell EXCEPT ![CellOf(l)] = l] /\ b.pinned \subseteq c.pinned
    BY DEF PlaceLesson
  <2>2. b.cell \in [Cells -> Lesson \cup {NoLesson}] /\ b.pinned \subseteq Cells
    BY <1>1, BoardFields
  <2> HIDE DEF c
  <2> QED
    BY <1>2, <2>1, <2>2 DEF PinsStay
<1> QED
  BY <1>4, <1>5

\* the placement is pushed on the stack
LEMMA PlaceStacked ==
    ASSUME NEW b, BoardOK(b), StackHolds(b), NEW l \in Lesson, Admissible(b, l), NEW pin \in BOOLEAN
    PROVE  StackHolds(PlaceLesson(b, l, pin, TRUE))
<1> DEFINE c == PlaceLesson(b, l, pin, TRUE)
           P == [lesson : Lesson, pinned : BOOLEAN]
           top == [lesson |-> l, pinned |-> pin]
<1>1. /\ c.entries = b.entries \cup {l}
      /\ c.pinned = IF pin THEN b.pinned \cup {CellOf(l)} ELSE b.pinned
      /\ c.stack = Append(b.stack, top)
  BY DEF PlaceLesson
<1>2. /\ l \notin b.entries /\ CellOf(l) \notin b.pinned
      /\ \A m \in b.entries : CellOf(m) # CellOf(l)
  BY AdmissibleIsNew
<1>3. b.stack \in Seq(P) /\ top \in P /\ top.lesson = l /\ top.pinned = pin
  BY BoardFields DEF BoardOK
<1>4. IsPinned(c, l) = pin /\ \A m \in b.entries : IsPinned(c, m) = IsPinned(b, m)
  <2> HIDE DEF c
  <2> QED
    BY <1>1, <1>2 DEF IsPinned
<1> HIDE DEF c, P, top
<1>5. /\ Len(c.stack) = Len(b.stack) + 1 /\ c.stack[Len(b.stack) + 1] = top
      /\ \A i \in 1..Len(b.stack) : c.stack[i] = b.stack[i]
      /\ DOMAIN b.stack = 1..Len(b.stack) /\ DOMAIN c.stack = 1..(Len(b.stack) + 1)
      /\ Len(b.stack) \in Nat
  BY <1>1, <1>3, AppendProperties
<1>6. \A i \in 1..Len(b.stack) : c.stack[i].lesson \in b.entries /\ c.stack[i].lesson # l
  BY <1>2, <1>5 DEF StackHolds
<1>7. ASSUME NEW i \in DOMAIN c.stack
      PROVE  c.stack[i].lesson \in c.entries /\ c.stack[i].pinned = IsPinned(c, c.stack[i].lesson)
  <2>1. CASE i = Len(b.stack) + 1
    BY <1>1, <1>3, <1>4, <1>5, <2>1
  <2>2. CASE i \in 1..Len(b.stack)
    <3>1. c.stack[i] = b.stack[i] /\ b.stack[i].lesson \in b.entries
          /\ b.stack[i].pinned = IsPinned(b, b.stack[i].lesson)
      BY <1>5, <2>2 DEF StackHolds
    <3> QED
      BY <1>1, <1>4, <3>1
  <2> QED
    BY <1>5, <2>1, <2>2
<1>8. ASSUME NEW i \in DOMAIN c.stack, NEW j \in DOMAIN c.stack, c.stack[i].lesson = c.stack[j].lesson
      PROVE  i = j
  <2>1. CASE i \in 1..Len(b.stack) /\ j \in 1..Len(b.stack)
    BY <1>5, <1>8, <2>1 DEF StackHolds
  <2>2. CASE i = Len(b.stack) + 1 \/ j = Len(b.stack) + 1
    BY <1>3, <1>5, <1>6, <1>8, <2>2
  <2> QED
    BY <1>5, <2>1, <2>2
<1>9. ASSUME NEW m \in c.entries PROVE \E i \in DOMAIN c.stack : c.stack[i].lesson = m
  <2>1. CASE m = l
    BY <1>3, <1>5, <2>1
  <2>2. CASE m \in b.entries
    <3>1. PICK i \in 1..Len(b.stack) : b.stack[i].lesson = m
      BY <1>5, <2>2 DEF StackHolds
    <3> QED
      BY <1>5, <3>1
  <2> QED
    BY <1>1, <2>1, <2>2
<1>10. StackHolds(c)
  BY <1>7, <1>8, <1>9 DEF StackHolds
<1> QED
  BY <1>10 DEF c

\* A counter that is reduced is not raised.
LEMMA Lowered ==
    ASSUME NEW K, NEW f \in [K -> Nat], NEW k \in K, NEW j \in K
    PROVE  [f EXCEPT ![k] = Positive(@ - 1)][j] \in Nat /\ [f EXCEPT ![k] = Positive(@ - 1)][j] <= f[j]
<1>1. Positive(f[j] - 1) \in Nat /\ Positive(f[j] - 1) <= f[j] /\ f[j] \in Nat
  BY DEF Positive
<1>2. [f EXCEPT ![k] = Positive(@ - 1)][j] = IF j = k THEN Positive(f[j] - 1) ELSE f[j]
  OBVIOUS
<1> QED
  BY <1>1, <1>2

LEMMA RemoveWithin ==
    ASSUME NEW b \in Board, WithinLimits(b), NEW l \in Lesson
    PROVE  WithinLimits(RemoveLesson(b, l))
<1> DEFINE c == RemoveLesson(b, l)
           PD == Divisions \X Subjects \X Days
           TD == Teachers \X Days
           TH == Teachers \X Days \X Halves
<1>1. /\ c.subWeek = [b.subWeek EXCEPT ![PairOf(l)] = Positive(@ - 1)]
      /\ c.subDay = [b.subDay EXCEPT ![PairDay(l)] = Positive(@ - 1)]
      /\ c.weekly = [b.weekly EXCEPT ![l.teacher] = Positive(@ - 1)]
      /\ c.daily = [b.daily EXCEPT ![TeacherDay(l)] = Positive(@ - 1)]
      /\ c.session = [b.session EXCEPT ![TeacherHalf(l)] = Positive(@ - 1)]
  BY DEF RemoveLesson
<1> HIDE DEF c
<1>2. /\ b.subWeek \in [Pairs -> Nat] /\ b.subDay \in [PD -> Nat] /\ b.weekly \in [Teachers -> Nat]
      /\ b.daily \in [TD -> Nat] /\ b.session \in [TH -> Nat]
  BY BoardFields
<1>3. /\ PairOf(l) \in Pairs /\ PairDay(l) \in PD /\ l.teacher \in Teachers
      /\ TeacherDay(l) \in TD /\ TeacherHalf(l) \in TH
  BY KeysTyped
<1>4. /\ \A k \in PD : <<k[1], k[2]>> \in Pairs
      /\ \A k \in TD : k[1] \in Teachers
      /\ \A k \in TH : <<k[1], k[3]>> \in Teachers \X Halves
  BY DEF Pairs
<1>5. /\ \A k \in PD : MaxPerDay[<<k[1], k[2]>>] \in Nat
      /\ \A k \in TD : DailyCapacity[k[1]] \in Nat
      /\ \A k \in TH : SessionCapacity[<<k[1], k[3]>>] \in Nat
  BY <1>4, TargetsNat, CapacitiesNat
<1>6. /\ \A p \in Pairs : b.subWeek[p] <= WeeklyTarget[p]
      /\ \A k \in PD : b.subDay[k] <= MaxPerDay[<<k[1], k[2]>>] + Slack
      /\ \A t \in Teachers : b.weekly[t] <= WeeklyCapacity[t] + Slack
      /\ \A k \in TD : b.daily[k] <= DailyCapacity[k[1]] + Slack
      /\ \A k \in TH : b.session[k] <= SessionCapacity[<<k[1], k[3]>>] + Slack
  BY DEF WithinLimits
<1>7. Slack \in Nat
  BY DEF Slack
<1> HIDE DEF PD, TD, TH
<1>8. ASSUME NEW p \in Pairs PROVE c.subWeek[p] <= WeeklyTarget[p]
  <2>1. c.subWeek[p] \in Nat /\ c.subWeek[p] <= b.subWeek[p] /\ b.subWeek[p] \in Nat
    BY <1>1, <1>2, <1>3, Lowered
  <2> QED
    BY <2>1, <1>6, TargetsNat
<1>9. ASSUME NEW k \in PD PROVE c.subDay[k] <= MaxPerDay[<<k[1], k[2]>>] + Slack
  <2>1. c.subDay[k] \in Nat /\ c.subDay[k] <= b.subDay[k] /\ b.subDay[k] \in Nat
    BY <1>1, <1>2, <1>3, Lowered
  <2> QED
    BY <2>1, <1>5, <1>6, <1>7
<1>10. ASSUME NEW t \in Teachers PROVE c.weekly[t] <= WeeklyCapacity[t] + Slack
  <2>1. c.weekly[t] \in Nat /\ c.weekly[t] <= b.weekly[t] /\ b.weekly[t] \in Nat
    BY <1>1, <1>2, <1>3, Lowered
  <2> QED
    BY <2>1, <1>6, <1>7, CapacitiesNat
<1>11. ASSUME NEW k \in TD PROVE c.daily[k] <= DailyCapacity[k[1]] + Slack
  <2>1. c.daily[k] \in Nat /\ c.daily[k] <= b.daily[k] /\ b.daily[k] \in Nat
    BY <1>1, <1>2, <1>3, Lowered
  <2> QED
    BY <2>1, <1>5, <1>6, <1>7
<1>12. ASSUME NEW k \in TH PROVE c.session[k] <= SessionCapacity[<<k[1], k[3]>>] + Slack
  <2>1. c.session[k] \in Nat /\ c.session[k] <= b.session[k] /\ b.session[k] \in Nat
    BY <1>1, <1>2, <1>3, Lowered
  <2> QED
    BY <2>1, <1>5, <1>6, <1>7
<1> QED
  BY <1>8, <1>9, <1>10, <1>11, <1>12 DEF c, PD, TD, TH, WithinLimits

\* removeLessonFromMapsAndEntry, of a lesson that is there and not pinned
LEMMA RemoveOK ==
    ASSUME NEW b, BoardOK(b), NEW l \in Unpinned(b)
    PROVE  BoardOK(RemoveLesson(b, l)) /\ PinsStay(b, RemoveLesson(b, l))
<1> DEFINE c == RemoveLesson(b, l)
<1>1. /\ c.entries = b.entries \ {l} /\ c.cell = [b.cell EXCEPT ![CellOf(l)] = NoLesson]
      /\ c.lock = b.lock /\ c.pinned = b.pinned
  BY DEF RemoveLesson
<1>2. /\ b \in Board /\ IndexesEntries(b) /\ Counted(b) /\ WithinLimits(b)
      /\ l \in b.entries /\ CellOf(l) \notin b.pinned
  BY DEF BoardOK, Unpinned, IsPinned
<1>3. /\ l \in Lesson /\ b.cell \in [Cells -> Lesson \cup {NoLesson}] /\ b.pinned \subseteq Cells
      /\ CellOf(l) \in Cells
  BY <1>2, BoardFields, KeysTyped
<1>4. c \in Board /\ IndexesEntries(c) /\ Counted(c) /\ WithinLimits(c)
  BY <1>2, <1>3, RemoveTyped, RemoveIndexed, RemoveCounted, RemoveWithin
<1> HIDE DEF c
<1>5. Unpinned(c) \subseteq Unpinned(b)
  BY <1>1 DEF Unpinned, IsPinned
<1>6. Locked(c)
  BY <1>1, <1>5 DEF BoardOK, Locked
<1>7. PinsStay(b, c) /\ PinsHeld(c)
  BY <1>1, <1>2, <1>3 DEF BoardOK, PinsHeld, PinsStay
<1>8. ASSUME NEW t, NEW d \in Divisions, NEW day \in Days, HasContinuity(c, t, d, day)
      PROVE  HasContinuity(b, t, d, day)
  <2>1. ASSUME NEW k \in LessonSlots, TaughtBy(c, t, d, day, k) PROVE TaughtBy(b, t, d, day, k)
    <3>1. <<d, day, k>> \in Cells
      BY DEF Cells, LessonSlots
    <3> QED
      BY <1>1, <1>3, <2>1, <3>1 DEF TaughtBy
  <2> QED
    BY <1>8, <2>1 DEF HasContinuity
<1>9. NoDoubles => OneContinuity(c)
  BY <1>8 DEF BoardOK, OneContinuity
<1> QED
  BY <1>4, <1>6, <1>7, <1>9 DEF c, BoardOK

\* A board that differs in its stack and its locks only.
LEMMA SameLessonsOK ==
    ASSUME NEW b, BoardOK(b), NEW c \in Board,
           c.entries = b.entries, c.cell = b.cell, c.busy = b.busy,
           c.daily = b.daily, c.session = b.session, c.weekly = b.weekly,
           c.subWeek = b.subWeek, c.subDay = b.subDay, c.pinned = b.pinned,
           Locked(c)
    PROVE  BoardOK(c) /\ PinsStay(b, c)
<1>1. IndexesEntries(c)
  BY DEF BoardOK, IndexesEntries
<1>2. Counted(c) /\ WithinLimits(c) /\ PinsHeld(c)
  BY DEF BoardOK, Counted, WithinLimits, PinsHeld
<1>3. \A t, d, day : HasContinuity(c, t, d, day) = HasContinuity(b, t, d, day)
  BY DEF HasContinuity, TaughtBy
<1>4. NoDoubles => OneContinuity(c)
  BY <1>3 DEF BoardOK, OneContinuity
<1> QED
  BY <1>1, <1>2, <1>4 DEF BoardOK, PinsStay

\* the stack is not part of what the board is about
LEMMA RestackedOK ==
    ASSUME NEW b, BoardOK(b), NEW s \in Seq([lesson : Lesson, pinned : BOOLEAN])
    PROVE  BoardOK([b EXCEPT !.stack = s]) /\ PinsStay(b, [b EXCEPT !.stack = s])
<1> DEFINE c == [b EXCEPT !.stack = s]
<1>1. c \in Board
  BY DEF BoardOK, Board
<1>2. /\ c.entries = b.entries /\ c.cell = b.cell /\ c.busy = b.busy
      /\ c.daily = b.daily /\ c.session = b.session /\ c.weekly = b.weekly
      /\ c.subWeek = b.subWeek /\ c.subDay = b.subDay /\ c.pinned = b.pinned /\ c.lock = b.lock
  BY DEF BoardOK, Board
<1> HIDE DEF c
<1>3. Locked(c)
  BY <1>2 DEF BoardOK, Locked, Unpinned, IsPinned
<1>4. BoardOK(c) /\ PinsStay(b, c)
  BY <1>1, <1>2, <1>3, SameLessonsOK
<1> QED
  BY <1>4 DEF c

\* a lock is cleared when the pair has no lesson left but pinned ones
LEMMA UnlockedOK ==
    ASSUME NEW b, BoardOK(b), NEW p \in Pairs, LessonsOf(b, p) \cap Unpinned(b) = {}
    PROVE  BoardOK([b EXCEPT !.lock[p] = {}]) /\ PinsStay(b, [b EXCEPT !.lock[p] = {}])
<1> DEFINE c == [b EXCEPT !.lock[p] = {}]
<1>1. c \in Board
  BY DEF BoardOK, Board
<1>2. /\ c.entries = b.entries /\ c.cell = b.cell /\ c.busy = b.busy
      /\ c.daily = b.daily /\ c.session = b.session /\ c.weekly = b.weekly
      /\ c.subWeek = b.subWeek /\ c.subDay = b.subDay /\ c.pinned = b.pinned
      /\ c.lock = [b.lock EXCEPT ![p] = {}]
  BY DEF BoardOK, Board
<1> HIDE DEF c
<1>3. b.lock \in [Pairs -> SUBSET Teachers]
  BY BoardFields DEF BoardOK
<1>4. ASSUME NEW l \in Unpinned(c) PROVE l.teacher \in c.lock[PairOf(l)]
  <2>1. l \in Unpinned(b) /\ PairOf(l) # p
    BY <1>2, <1>4 DEF Unpinned, IsPinned, LessonsOf
  <2>2. l.teacher \in b.lock[PairOf(l)] /\ PairOf(l) \in Pairs
    BY <2>1, BoardFields, KeysTyped DEF BoardOK, Locked, Unpinned
  <2> QED
    BY <1>2, <1>3, <2>1, <2>2
<1>5. ASSUME NEW q \in Pairs
      PROVE  \/ Cardinality(c.lock[q]) <= MaxTeachersForPair[q]
             \/ c.lock[q] \subseteq SeededLocks[q]
  <2>1. CASE q = p
    BY <1>2, <1>3, <2>1
  <2>2. CASE q # p
    BY <1>2, <1>3, <2>2 DEF BoardOK, Locked
  <2> QED
    BY <2>1, <2>2
<1>6. Locked(c)
  BY <1>4, <1>5 DEF Locked
<1>7. BoardOK(c) /\ PinsStay(b, c)
  BY <1>1, <1>2, <1>6, SameLessonsOK
<1> QED
  BY <1>7 DEF c

LEMMA RemoveAtElements ==
    ASSUME NEW S, NEW s \in Seq(S), NEW i \in 1..Len(s)
    PROVE  /\ RemoveAt(s, i) \in Seq(S)
           /\ Len(RemoveAt(s, i)) = Len(s) - 1
           /\ \A j \in 1..(Len(s) - 1) : RemoveAt(s, i)[j] = IF j < i THEN s[j] ELSE s[j + 1]
<1> DEFINE front == SubSeq(s, 1, i - 1)
           back == SubSeq(s, i + 1, Len(s))
<1>1. \A j \in 1..Len(s) : s[j] \in S
  OBVIOUS
<1>2. /\ front \in Seq(S) /\ Len(front) = i - 1
      /\ \A j \in 1..(i - 1) : front[j] = s[j]
  <2>1. 1 \in Int /\ i - 1 \in Int /\ \A j \in 1..(i - 1) : s[j] \in S
    BY <1>1
  <2>2. /\ front \in Seq(S)
        /\ Len(front) = IF 1 <= i - 1 THEN i - 1 - 1 + 1 ELSE 0
        /\ \A j \in 1..(i - 1 - 1 + 1) : front[j] = s[1 + j - 1]
    BY <2>1, SubSeqProperties
  <2> HIDE DEF front
  <2> QED
    BY <2>2
<1>3. /\ back \in Seq(S) /\ Len(back) = Len(s) - i
      /\ \A j \in 1..(Len(s) - i) : back[j] = s[j + i]
  <2>1. i + 1 \in Int /\ Len(s) \in Int /\ \A j \in (i + 1)..Len(s) : s[j] \in S
    BY <1>1
  <2>2. /\ back \in Seq(S)
        /\ Len(back) = IF i + 1 <= Len(s) THEN Len(s) - (i + 1) + 1 ELSE 0
        /\ \A j \in 1..(Len(s) - (i + 1) + 1) : back[j] = s[(i + 1) + j - 1]
    BY <2>1, SubSeqProperties
  <2> HIDE DEF back
  <2> QED
    BY <2>2
<1>4. RemoveAt(s, i) = front \o back
  BY DEF RemoveAt
<1> HIDE DEF front, back
<1>5. /\ front \o back \in Seq(S) /\ Len(front \o back) = Len(front) + Len(back)
      /\ \A j \in 1..(Len(front) + Len(back)) :
            (front \o back)[j] = IF j <= Len(front) THEN front[j] ELSE back[j - Len(front)]
  BY <1>2, <1>3, ConcatProperties
<1>6. ASSUME NEW j \in 1..(Len(s) - 1)
      PROVE  RemoveAt(s, i)[j] = IF j < i THEN s[j] ELSE s[j + 1]
  <2>1. CASE j < i
    BY <1>2, <1>3, <1>4, <1>5, <2>1
  <2>2. CASE j >= i
    <3>1. j - (i - 1) \in 1..(Len(s) - i) /\ j - (i - 1) + i = j + 1
      BY <2>2
    <3>2. RemoveAt(s, i)[j] = back[j - (i - 1)]
      BY <1>2, <1>3, <1>4, <1>5, <2>2
    <3> QED
      BY <1>3, <2>2, <3>1, <3>2
  <2> QED
    BY <2>1, <2>2
<1> QED
  BY <1>2, <1>3, <1>4, <1>5, <1>6

\* an undo takes a lesson from the board and its entry from the stack
LEMMA UndoneStacked ==
    ASSUME NEW b, BoardOK(b), StackHolds(b), NEW i \in DOMAIN b.stack, NEW l, l = b.stack[i].lesson
    PROVE  StackHolds([RemoveLesson(b, l) EXCEPT !.stack = RemoveAt(b.stack, i)])
<1> DEFINE c == [RemoveLesson(b, l) EXCEPT !.stack = RemoveAt(b.stack, i)]
           P == [lesson : Lesson, pinned : BOOLEAN]
           n == Len(b.stack)
<1>1. c.entries = b.entries \ {l} /\ c.pinned = b.pinned /\ c.stack = RemoveAt(b.stack, i)
  BY DEF RemoveLesson
<1>2. b.stack \in Seq(P)
  BY BoardFields DEF BoardOK
<1> HIDE DEF c, P
<1>3. n \in Nat /\ DOMAIN b.stack = 1..n /\ i \in 1..n
  BY <1>2
<1>4. /\ c.stack \in Seq(P) /\ Len(c.stack) = n - 1
      /\ \A j \in 1..(n - 1) : c.stack[j] = IF j < i THEN b.stack[j] ELSE b.stack[j + 1]
  <2> DEFINE s == b.stack
             r == RemoveAt(s, i)
  <2>1. s \in Seq(P) /\ i \in 1..Len(s) /\ n = Len(s) /\ c.stack = r
    BY <1>1, <1>2, <1>3
  <2> HIDE DEF s, n
  <2>2. /\ r \in Seq(P) /\ Len(r) = Len(s) - 1
        /\ \A j \in 1..(Len(s) - 1) : r[j] = IF j < i THEN s[j] ELSE s[j + 1]
    BY <2>1, RemoveAtElements
  <2> QED
    BY <2>1, <2>2 DEF s
<1> HIDE DEF n
<1>5. DOMAIN c.stack = 1..(n - 1)
  BY <1>3, <1>4
<1> DEFINE old(j) == IF j < i THEN j ELSE j + 1
<1>6. \A j \in 1..(n - 1) : old(j) \in 1..n /\ old(j) # i /\ c.stack[j] = b.stack[old(j)]
  BY <1>3, <1>4
<1>7. \A j, k \in 1..(n - 1) : old(j) = old(k) => j = k
  BY <1>3
<1>8. \A j \in 1..n : j # i => \E k \in 1..(n - 1) : old(k) = j
  <2> SUFFICES ASSUME NEW j \in 1..n, j # i PROVE \E k \in 1..(n - 1) : old(k) = j
    OBVIOUS
  <2>1. CASE j < i
    <3>1. j \in 1..(n - 1) /\ old(j) = j
      BY <1>3, <2>1
    <3> QED
      BY <3>1
  <2>2. CASE j > i
    <3>1. j - 1 \in 1..(n - 1) /\ old(j - 1) = j
      BY <1>3, <2>2
    <3> QED
      BY <3>1
  <2> QED
    BY <1>3, <2>1, <2>2
<1> HIDE DEF old
<1>9. ASSUME NEW j \in DOMAIN c.stack
      PROVE  c.stack[j].lesson \in c.entries /\ c.stack[j].pinned = IsPinned(c, c.stack[j].lesson)
  <2>1. /\ b.stack[old(j)].lesson \in b.entries /\ b.stack[old(j)].lesson # l
        /\ b.stack[old(j)].pinned = IsPinned(b, b.stack[old(j)].lesson)
    BY <1>3, <1>5, <1>6 DEF StackHolds
  <2> QED
    BY <1>1, <1>5, <1>6, <2>1 DEF IsPinned
<1>10. ASSUME NEW j \in DOMAIN c.stack, NEW k \in DOMAIN c.stack, c.stack[j].lesson = c.stack[k].lesson
       PROVE  j = k
  <2>1. old(j) = old(k)
    <3>1. /\ old(j) \in DOMAIN b.stack /\ old(k) \in DOMAIN b.stack
          /\ b.stack[old(j)].lesson = b.stack[old(k)].lesson
      BY <1>3, <1>5, <1>6, <1>10
    <3> QED
      BY <3>1 DEF StackHolds
  <2> QED
    BY <1>5, <1>7, <2>1
<1>11. ASSUME NEW m \in c.entries PROVE \E j \in DOMAIN c.stack : c.stack[j].lesson = m
  <2>1. m \in b.entries /\ m # l
    BY <1>1
  <2>2. PICK k \in 1..n : b.stack[k].lesson = m
    BY <1>3, <2>1 DEF StackHolds
  <2>3. k # i
    BY <2>1, <2>2
  <2>4. PICK j \in 1..(n - 1) : old(j) = k
    BY <1>8, <2>3
  <2> QED
    BY <1>5, <1>6, <2>2, <2>4
<1>12. StackHolds(c)
  BY <1>9, <1>10, <1>11 DEF StackHolds
<1> QED
  BY <1>12 DEF c

-----------------------------------------------------------------------------
(* What the passes place is a lesson that canPlaceAssignment allowed.      *)

LEMMA LessonAtTyped ==
    ASSUME NEW p \in Pairs, NEW day \in Days, NEW n \in Slots, NEW t \in Teachers
    PROVE  LessonAt(p, day, n, t) \in Lesson
BY DEF LessonAt, Lesson, Pairs

LEMMA LessonAtKeys ==
    ASSUME NEW p \in Pairs, NEW day, NEW n, NEW t
    PROVE  /\ CellOf(LessonAt(p, day, n, t)) = <<p[1], day, n>>
           /\ TimeOf(LessonAt(p, day, n, t)) = <<t, day, n>>
           /\ PairOf(LessonAt(p, day, n, t)) = p
           /\ PairDay(LessonAt(p, day, n, t)) = <<p[1], p[2], day>>
           /\ TeacherDay(LessonAt(p, day, n, t)) = <<t, day>>
           /\ LessonAt(p, day, n, t).teacher = t /\ LessonAt(p, day, n, t).slot = n
BY DEF LessonAt, CellOf, TimeOf, PairOf, PairDay, TeacherDay, Pairs

LEMMA CandidatesAreTeachers ==
    ASSUME NEW p
    PROVE  CandidateTeachers(p) \subseteq Teachers /\ QualifiedTeachers(p) \subseteq Teachers
BY DEF CandidateTeachers, QualifiedTeachers, ExplicitTeachers

LEMMA AllowedSlot ==
    ASSUME NEW b, NEW p, NEW day, NEW n, NEW t, NEW ignoreSoft,
           CanPlace(b, LessonAt(p, day, n, t), ignoreSoft)
    PROVE  n \in Slots
<1>1. LessonAt(p, day, n, t).slot \in LessonSlots
  BY DEF CanPlace
<1> QED
  BY <1>1 DEF LessonAt, LessonSlots

LEMMA EligibleTyped ==
    ASSUME NEW b, NEW p \in Pairs, NEW day \in Days, NEW n, NEW t \in Eligible(b, p, day, n)
    PROVE  /\ LessonAt(p, day, n, t) \in Lesson
           /\ CanPlace(b, LessonAt(p, day, n, t), FALSE)
<1>1. t \in Teachers /\ CanPlace(b, LessonAt(p, day, n, t), FALSE)
  BY CandidatesAreTeachers DEF Eligible
<1> QED
  BY <1>1, AllowedSlot, LessonAtTyped

LEMMA PlaceableTyped ==
    ASSUME NEW b, NEW p \in Pairs, NEW day \in Days, NEW ignoreSoft \in BOOLEAN,
           NEW l \in Placeable(b, p, day, ignoreSoft)
    PROVE  l \in Lesson /\ CanPlace(b, l, ignoreSoft)
<1>1. PICK n \in LessonSlots :
          l \in {LessonAt(p, day, n, t) :
                    t \in IF ignoreSoft THEN EligibleSoft(b, p, day, n) ELSE Eligible(b, p, day, n)}
  BY DEF Placeable
<1>2. PICK t \in (IF ignoreSoft THEN EligibleSoft(b, p, day, n) ELSE Eligible(b, p, day, n)) :
          l = LessonAt(p, day, n, t)
  BY <1>1
<1>3. CASE ignoreSoft
  <2>1. t \in Teachers /\ CanPlace(b, l, TRUE)
    BY <1>2, <1>3, CandidatesAreTeachers DEF EligibleSoft
  <2> QED
    BY <1>2, <1>3, <2>1, AllowedSlot, LessonAtTyped
<1>4. CASE ~ ignoreSoft
  BY <1>2, <1>4, EligibleTyped
<1> QED
  BY <1>3, <1>4

LEMMA PlaceableAnyDayTyped ==
    ASSUME NEW b, NEW p \in Pairs, NEW ignoreSoft \in BOOLEAN,
           NEW l \in PlaceableAnyDay(b, p, ignoreSoft)
    PROVE  l \in Lesson /\ CanPlace(b, l, ignoreSoft)
BY PlaceableTyped DEF PlaceableAnyDay

-----------------------------------------------------------------------------
(* The inductive invariant *)

\* The lessons period spread still has to try are there and not pinned.
ListedPresent == pc = "spreadLesson" => listed \subseteq Unpinned(board)

\* Between two double-block passes and around them no site is left over, and
\* none is ever listed where no allocation asks for double blocks.
NoSiteLeft ==
    /\ pc \in {"allocate", "visit", "undo"} => todo = {}
    /\ pc = "double" /\ NoDoubles => todo = {}

\* The passes that push what they place on the stack that Undo reads.
Tracked ==
    \/ pc \in {"fixed", "allocate", "double", "visit", "undo"}
    \/ pc \in {"firstPeriod", "dailyMin"} /\ ~ again

StackInStep == Tracked => StackHolds(board)

IInv == TypeOK /\ BoardOK(board) /\ StackInStep /\ ListedPresent /\ NoSiteLeft

LEMMA EmptyOK == BoardOK(EmptyBoard) /\ StackHolds(EmptyBoard)
<1> DEFINE b == EmptyBoard
<1>1. SeededLocks \in [Pairs -> SUBSET Teachers]
  BY SchoolAssumption DEF SeededLocks, ExplicitTeachers
<1>2. b \in Board
  <2> DEFINE P == [lesson : Lesson, pinned : BOOLEAN]
  <2> HIDE DEF P
  <2>1. << >> \in Seq(P)
    OBVIOUS
  <2> QED
    BY <1>1, <2>1 DEF EmptyBoard, Board, P
<1>3. b.entries = {} /\ b.stack = << >> /\ b.pinned = {} /\ b.lock = SeededLocks
  BY DEF EmptyBoard
<1>4. IndexesEntries(b) /\ StackHolds(b) /\ PinsHeld(b)
  BY <1>3 DEF EmptyBoard, IndexesEntries, StackHolds, PinsHeld
<1>5. Counted(b)
  <2>1. \A f, k : {l \in b.entries : f[l] = k} = {}
    BY <1>3
  <2>2. Cardinality({}) = 0 /\ IsFiniteSet({})
    BY FS_EmptySet
  <2>3. /\ \A k \in Teachers \X Days : b.daily[k] = 0
        /\ \A k \in Teachers \X Days \X Halves : b.session[k] = 0
        /\ \A k \in Teachers : b.weekly[k] = 0
        /\ \A k \in Pairs : b.subWeek[k] = 0
        /\ \A k \in Divisions \X Subjects \X Days : b.subDay[k] = 0
    BY DEF EmptyBoard
  <2>4. /\ DOMAIN b.daily = Teachers \X Days /\ DOMAIN b.session = Teachers \X Days \X Halves
        /\ DOMAIN b.weekly = Teachers /\ DOMAIN b.subWeek = Pairs
        /\ DOMAIN b.subDay = Divisions \X Subjects \X Days
    BY DEF EmptyBoard
  <2> HIDE DEF b
  <2> QED
    BY <1>3, <2>1, <2>2, <2>3, <2>4 DEF Counted, Counts
<1>6. WithinLimits(b)
  <2>1. Slack \in Nat
    BY DEF Slack
  <2>2. /\ \A k \in Divisions \X Subjects \X Days : MaxPerDay[<<k[1], k[2]>>] + Slack \in Nat
        /\ \A t \in Teachers : WeeklyCapacity[t] + Slack \in Nat
        /\ \A k \in Teachers \X Days : DailyCapacity[k[1]] + Slack \in Nat
        /\ \A k \in Teachers \X Days \X Halves : SessionCapacity[<<k[1], k[3]>>] + Slack \in Nat
    BY <2>1, TargetsNat, CapacitiesNat DEF Pairs
  <2>3. \A n \in Nat : 0 <= n
    OBVIOUS
  <2> QED
    BY <2>2, <2>3, TargetsNat DEF EmptyBoard, WithinLimits
<1>7. Locked(b)
  BY <1>3 DEF Locked, Unpinned
<1>8. OneContinuity(b)
  <2>1. \A d \in Divisions, day \in Days, n \in LessonSlots : b.cell[<<d, day, n>>] = NoLesson
    BY DEF EmptyBoard, Cells, LessonSlots
  <2> QED
    BY <2>1 DEF OneContinuity, HasContinuity, TaughtBy
<1> QED
  BY <1>2, <1>4, <1>5, <1>6, <1>7, <1>8 DEF BoardOK

LEMMA OrderTyped ==
    ASSUME IInv
    PROVE  Order \in Seq(Allocation)
BY OrderAssumption DEF IInv, TypeOK, Order

LEMMA AllocationTyped ==
    ASSUME NEW o \in Allocation
    PROVE  o.pair \in Pairs /\ o.days \in [Days -> Days]
BY DEF Allocation, ApplicablePairs

-----------------------------------------------------------------------------
(* Each action leaves a board that is as it should be, the pinned lessons  *)
(* where they were and the stack in step.                                  *)

GoodStep == BoardOK(board') /\ PinsStay(board, board') /\ (Tracked' => StackHolds(board'))

LEMMA SameStep ==
    ASSUME IInv, board' = board, Tracked' => Tracked
    PROVE  GoodStep
BY DEF IInv, StackInStep, GoodStep, PinsStay

LEMMA PlaceStep ==
    ASSUME IInv, NEW l \in Lesson, Admissible(board, l), NEW pin \in BOOLEAN, NEW track \in BOOLEAN,
           board' = PlaceLesson(board, l, pin, track), Tracked' => Tracked /\ track
    PROVE  GoodStep
<1>1. BoardOK(board') /\ PinsStay(board, board')
  BY PlaceOK DEF IInv
<1>2. ASSUME Tracked' PROVE StackHolds(board')
  <2>1. track = TRUE /\ BoardOK(board) /\ StackHolds(board)
    BY <1>2 DEF IInv, StackInStep
  <2>2. StackHolds(PlaceLesson(board, l, pin, TRUE))
    BY <2>1, PlaceStacked
  <2> QED
    BY <2>1, <2>2
<1> QED
  BY <1>1, <1>2 DEF GoodStep

\* a lesson that canPlaceAssignment allows
LEMMA AllowedStep ==
    ASSUME IInv, NEW l \in Lesson, NEW ignoreSoft, CanPlace(board, l, ignoreSoft),
           NEW pin \in BOOLEAN, NEW track \in BOOLEAN,
           board' = PlaceLesson(board, l, pin, track), Tracked' => Tracked /\ track
    PROVE  GoodStep
<1>1. BoardOK(board)
  BY DEF IInv
<1>2. Admissible(board, l)
  BY <1>1, CanPlaceAdmissible
<1> QED
  BY <1>2, PlaceStep

LEMMA FixedSlotOK ==
    ASSUME IInv, FixedSlot
    PROVE  GoodStep
<1> DEFINE f == FixedSlots[pos]
<1>1. f.pair \in Pairs /\ f.day \in Days
  <2> DEFINE R == [pair : Pairs, day : Days, slot : Slots]
  <2>1. FixedSlots \in Seq(R) /\ pos \in 1..Len(FixedSlots)
    BY OrderAssumption DEF FixedSlot, IInv, TypeOK
  <2> HIDE DEF R
  <2>2. f \in R
    BY <2>1
  <2> QED
    BY <2>2 DEF R
<1>2. \/ \E t \in Eligible(board, f.pair, f.day, f.slot) :
            board' = PlaceLesson(board, LessonAt(f.pair, f.day, f.slot, t), TRUE, TRUE)
      \/ board' = board
  BY DEF FixedSlot
<1>3. Tracked
  BY DEF FixedSlot, Tracked
<1> HIDE DEF f
<1>4. ASSUME NEW t \in Eligible(board, f.pair, f.day, f.slot),
             board' = PlaceLesson(board, LessonAt(f.pair, f.day, f.slot, t), TRUE, TRUE)
      PROVE  GoodStep
  BY <1>1, <1>3, <1>4, EligibleTyped, AllowedStep
<1> QED
  BY <1>2, <1>3, <1>4, SameStep

LEMMA FirstPeriodOK ==
    ASSUME IInv, FirstPeriod
    PROVE  GoodStep
<1>1. PICK k \in todo :
          \/ \E l \in FirstPeriodLessons(k[1], k[2]) : board' = PlaceLesson(board, l, TRUE, ~ again)
          \/ board' = board
  BY DEF FirstPeriod
<1>2. k[1] \in Teachers /\ k[2] \in Days /\ Teacher[k[1]].homeroom \in Divisions
  BY SchoolAssumption, OptionAssumption
  DEF FirstPeriod, IInv, TypeOK, FirstPeriodTargets, ClassTeachers
<1>3. ASSUME NEW l \in FirstPeriodLessons(k[1], k[2])
      PROVE  l \in Lesson /\ CanPlace(board, l, FALSE)
  <2>1. PICK s \in Subjects : /\ l = LessonAt(<<Teacher[k[1]].homeroom, s>>, k[2], FirstMorning, k[1])
                              /\ CanPlace(board, l, FALSE)
    <3> DEFINE lessons(S) == {m \in {LessonAt(<<Teacher[k[1]].homeroom, s>>, k[2], FirstMorning, k[1]) : s \in S} :
                                  CanPlace(board, m, FALSE)}
               own == {Teacher[k[1]].primary} \ {NoSubject}
               others == SubjectsForTeacher(k[1], Teacher[k[1]].homeroom)
    <3>1. own \subseteq Subjects /\ others \subseteq Subjects
      BY <1>2, OptionAssumption DEF SubjectsForTeacher
    <3>2. l \in lessons(own) \/ l \in lessons(others)
      BY <1>3 DEF FirstPeriodLessons
    <3> QED
      BY <3>1, <3>2
  <2>2. FirstMorning \in Slots
    BY <2>1, AllowedSlot
  <2>3. <<Teacher[k[1]].homeroom, s>> \in Pairs
    BY <1>2 DEF Pairs
  <2> QED
    BY <1>2, <2>1, <2>2, <2>3, LessonAtTyped
<1>4. (~ again) \in BOOLEAN /\ (Tracked' => Tracked /\ ~ again)
  BY DEF FirstPeriod, Tracked
<1>5. ASSUME NEW l \in FirstPeriodLessons(k[1], k[2]), board' = PlaceLesson(board, l, TRUE, ~ again)
      PROVE  GoodStep
  BY <1>3, <1>4, <1>5, AllowedStep
<1> QED
  BY <1>1, <1>4, <1>5, SameStep

LEMMA DailyMinOK ==
    ASSUME IInv, DailyMin
    PROVE  GoodStep
<1>1. PICK k \in todo :
          \/ \E n \in PrimarySlots(k[1], k[2]) :
                board' = PlaceLesson(board, PrimaryLesson(k[1], k[2], n), TRUE, ~ again)
          \/ board' = board
  BY DEF DailyMin
<1>2. /\ k[1] \in Teachers /\ k[2] \in Days
      /\ Teacher[k[1]].homeroom \in Divisions /\ Teacher[k[1]].primary \in Subjects
  BY SchoolAssumption, OptionAssumption
  DEF DailyMin, IInv, TypeOK, DailyMinTargets, ClassTeachers
<1>3. ASSUME NEW n \in PrimarySlots(k[1], k[2])
      PROVE  /\ PrimaryLesson(k[1], k[2], n) \in Lesson
             /\ CanPlace(board, PrimaryLesson(k[1], k[2], n), FALSE)
  BY <1>2, LessonAtTyped DEF PrimarySlots, PrimaryLesson, LessonSlots, Pairs
<1>4. (~ again) \in BOOLEAN /\ (Tracked' => Tracked /\ ~ again)
  BY DEF DailyMin, Tracked
<1>5. ASSUME NEW n \in PrimarySlots(k[1], k[2]),
             board' = PlaceLesson(board, PrimaryLesson(k[1], k[2], n), TRUE, ~ again)
      PROVE  GoodStep
  BY <1>3, <1>4, <1>5, AllowedStep
<1> QED
  BY <1>1, <1>4, <1>5, SameStep

(* The second lesson of a double block was tested on the board without the *)
(* first: it keeps the weekly target, which was tested for both, and each  *)
(* other limit but for one period.                                         *)
LEMMA SecondAdmissible ==
    ASSUME NEW b, BoardOK(b), ~ NoDoubles, NEW p \in Pairs, NEW day \in Days, NEW t \in Teachers,
           NEW m \in Slots, NEW n \in Slots, m # n,
           CanPlace(b, LessonAt(p, day, m, t), FALSE), CanPlace(b, LessonAt(p, day, n, t), FALSE),
           b.subWeek[p] + 2 <= WeeklyTarget[p]
    PROVE  Admissible(PlaceLesson(b, LessonAt(p, day, m, t), FALSE, TRUE), LessonAt(p, day, n, t))
<1> DEFINE first == LessonAt(p, day, m, t)
           second == LessonAt(p, day, n, t)
           one == PlaceLesson(b, first, FALSE, TRUE)
<1>1. first \in Lesson /\ second \in Lesson
  BY LessonAtTyped
<1>2. /\ CellOf(first) = <<p[1], day, m>> /\ CellOf(second) = <<p[1], day, n>>
      /\ TimeOf(first) = <<t, day, m>> /\ TimeOf(second) = <<t, day, n>>
      /\ PairOf(first) = p /\ PairOf(second) = p
      /\ PairDay(first) = PairDay(second) /\ TeacherDay(first) = TeacherDay(second)
      /\ first.teacher = t /\ second.teacher = t
  BY LessonAtKeys
<1>3. <<p[1], day, m>> # <<p[1], day, n>> /\ <<t, day, m>> # <<t, day, n>>
  OBVIOUS
<1>4. CellOf(first) # CellOf(second) /\ TimeOf(first) # TimeOf(second)
  <2> HIDE DEF first, second
  <2> QED
    BY <1>2, <1>3
<1>5. CanPlace(b, second, FALSE) /\ Admissible(b, second)
  BY <1>1, CanPlaceAdmissible
<1>6. /\ one.cell = [b.cell EXCEPT ![CellOf(first)] = first]
      /\ one.busy = [b.busy EXCEPT ![TimeOf(first)] = first.div]
      /\ one.daily = [b.daily EXCEPT ![TeacherDay(first)] = @ + 1]
      /\ one.session = [b.session EXCEPT ![TeacherHalf(first)] = @ + 1]
      /\ one.weekly = [b.weekly EXCEPT ![first.teacher] = @ + 1]
      /\ one.subWeek = [b.subWeek EXCEPT ![PairOf(first)] = @ + 1]
      /\ one.subDay = [b.subDay EXCEPT ![PairDay(first)] = @ + 1]
      /\ one.lock = [b.lock EXCEPT ![PairOf(first)] = @ \cup {first.teacher}]
  BY DEF PlaceLesson
<1> HIDE DEF first, second, one
<1>7. b \in Board
  BY DEF BoardOK
<1>8. one.cell[CellOf(second)] = NoLesson /\ one.busy[TimeOf(second)] = NoDivision
  <2>1. /\ CellOf(second) \in Cells /\ TimeOf(second) \in Teachers \X Days \X Slots
        /\ b.cell \in [Cells -> Lesson \cup {NoLesson}]
        /\ b.busy \in [Teachers \X Days \X Slots -> Divisions \cup {NoDivision}]
    BY <1>1, <1>7, KeysTyped, BoardFields
  <2> QED
    BY <1>4, <1>5, <1>6, <2>1 DEF Admissible
<1>9. LockAllows(one, second)
  <2>1. b.lock \in [Pairs -> SUBSET Teachers]
    BY <1>7, BoardFields
  <2> QED
    BY <1>2, <1>6, <2>1 DEF LockAllows
<1>10. Slack = 1
  BY DEF Slack
<1>11. one.subWeek[p] < WeeklyTarget[p]
  <2>1. b.subWeek \in [Pairs -> Nat] /\ WeeklyTarget[p] \in Nat
    BY <1>7, BoardFields, TargetsNat
  <2> QED
    BY <1>2, <1>6, <2>1
<1>12. one.subDay[PairDay(second)] < MaxPerDay[PairOf(second)] + Slack
  <2> DEFINE K == Divisions \X Subjects \X Days
  <2>1. b.subDay \in [K -> Nat] /\ PairDay(second) \in K /\ MaxPerDay[PairOf(second)] \in Nat
    BY <1>1, <1>7, KeysTyped, BoardFields, TargetsNat
  <2> HIDE DEF K
  <2>2. b.subDay[PairDay(second)] < MaxPerDay[PairOf(second)]
    BY <1>5 DEF CanPlace, LimitsAllow
  <2>3. one.subDay[PairDay(second)] = b.subDay[PairDay(second)] + 1
    BY <1>2, <1>6, <2>1
  <2> QED
    BY <1>10, <2>1, <2>2, <2>3
<1>13. one.weekly[t] < WeeklyCapacity[t] + Slack
  <2>1. b.weekly \in [Teachers -> Nat] /\ WeeklyCapacity[t] \in Nat
    BY <1>7, BoardFields, CapacitiesNat
  <2>2. b.weekly[t] < WeeklyCapacity[t]
    BY <1>2, <1>5 DEF CanPlace, CanAssignTeacher
  <2> QED
    BY <1>2, <1>6, <1>10, <2>1, <2>2
<1>14. one.daily[TeacherDay(second)] < DailyCapacity[second.teacher] + Slack
  <2> DEFINE K == Teachers \X Days
  <2>1. b.daily \in [K -> Nat] /\ TeacherDay(second) \in K /\ DailyCapacity[second.teacher] \in Nat
    BY <1>1, <1>2, <1>7, KeysTyped, BoardFields, CapacitiesNat
  <2> HIDE DEF K
  <2>2. b.daily[TeacherDay(second)] < DailyCapacity[second.teacher]
    BY <1>5 DEF CanPlace, CanAssignTeacher
  <2>3. one.daily[TeacherDay(second)] = b.daily[TeacherDay(second)] + 1
    BY <1>2, <1>6, <2>1
  <2> QED
    BY <1>10, <2>1, <2>2, <2>3
<1>15. one.session[TeacherHalf(second)]
          < SessionCapacity[<<second.teacher, Half(second.slot)>>] + Slack
  <2> DEFINE K == Teachers \X Days \X Halves
             cap == SessionCapacity[<<second.teacher, Half(second.slot)>>]
  <2>1. b.session \in [K -> Nat] /\ TeacherHalf(second) \in K
    BY <1>1, <1>7, KeysTyped, BoardFields
  <2>2. cap \in Nat
    BY <1>2, CapacitiesNat DEF Half, Halves
  <2>3. b.session[TeacherHalf(second)] < cap
    BY <1>5 DEF CanPlace, CanAssignTeacher
  <2> HIDE DEF K, cap
  <2>4. one.session[TeacherHalf(second)] \in
            {b.session[TeacherHalf(second)], b.session[TeacherHalf(second)] + 1}
    BY <1>6, <2>1
  <2>5. one.session[TeacherHalf(second)] < cap + Slack
    BY <1>10, <2>1, <2>2, <2>3, <2>4
  <2> QED
    BY <2>5 DEF cap
<1>16. RoomFor(one, second)
  BY <1>2, <1>11, <1>12, <1>13, <1>14, <1>15 DEF RoomFor
<1>17. Admissible(one, second)
  BY <1>5, <1>8, <1>9, <1>16 DEF Admissible
<1> QED
  BY <1>17 DEF one, first, second

LEMMA DoubleBlockOK ==
    ASSUME IInv, DoubleBlock
    PROVE  GoodStep
<1> DEFINE first(k, t) == LessonAt(job, k[1], k[2], t)
           second(k, t) == LessonAt(job, k[1], k[3], t)
<1>1. PICK k \in todo :
          \/ \E t \in Eligible(board, job, k[1], k[2]) :
                /\ RoomForTwo
                /\ CanPlace(board, second(k, t), FALSE)
                /\ board' = PlaceLesson(PlaceLesson(board, first(k, t), FALSE, TRUE),
                                        second(k, t), FALSE, TRUE)
          \/ board' = board
  BY DEF DoubleBlock
<1>2. /\ job \in Pairs /\ k[1] \in Days
      /\ k[2] \in Slots /\ k[3] \in Slots /\ k[2] # k[3]
  BY SchoolAssumption DEF DoubleBlock, IInv, TypeOK, DoubleSites, Consecutive, LessonSlots
<1>3. Tracked /\ ~ NoDoubles
  BY DEF DoubleBlock, Tracked, IInv, NoSiteLeft
<1>4. ASSUME NEW t \in Eligible(board, job, k[1], k[2]),
             RoomForTwo,
             CanPlace(board, second(k, t), FALSE),
             board' = PlaceLesson(PlaceLesson(board, first(k, t), FALSE, TRUE),
                                  second(k, t), FALSE, TRUE)
      PROVE  GoodStep
  <2> DEFINE l == first(k, t)
             m == second(k, t)
             one == PlaceLesson(board, l, FALSE, TRUE)
  <2>1. l \in Lesson /\ CanPlace(board, l, FALSE) /\ t \in Teachers
    BY <1>2, EligibleTyped, CandidatesAreTeachers DEF Eligible
  <2>2. m \in Lesson
    BY <1>2, <2>1, LessonAtTyped
  <2>3. Admissible(one, m)
    BY <1>2, <1>3, <1>4, <2>1, SecondAdmissible DEF IInv, RoomForTwo
  <2> HIDE DEF l, m, one, first, second
  <2>4. BoardOK(board) /\ StackHolds(board)
    BY <1>3 DEF IInv, StackInStep
  <2>5. Admissible(board, l)
    BY <2>1, <2>4, CanPlaceAdmissible
  <2>6. BoardOK(one) /\ PinsStay(board, one) /\ StackHolds(one)
    BY <2>1, <2>4, <2>5, PlaceOK, PlaceStacked DEF one
  <2>7. board' = PlaceLesson(one, m, FALSE, TRUE)
    BY <1>4 DEF one, l, m
  <2>8. BoardOK(board') /\ PinsStay(one, board') /\ StackHolds(board')
    BY <2>2, <2>3, <2>6, <2>7, PlaceOK, PlaceStacked
  <2>9. PinsStay(board, board')
    BY <2>6, <2>8 DEF PinsStay
  <2> QED
    BY <2>8, <2>9 DEF GoodStep
<1> HIDE DEF first, second
<1> QED
  BY <1>1, <1>3, <1>4, SameStep

LEMMA VisitDayOK ==
    ASSUME IInv, VisitDay
    PROVE  GoodStep
<1> DEFINE day == Order[pos].days[((visit - 1) % NumDays) + 1]
<1>1. job \in Pairs /\ soft \in BOOLEAN
  BY DEF VisitDay, IInv, TypeOK
<1>2. day \in Days
  <2>1. Order[pos] \in Allocation
    <3>1. pos \in Nat \ {0} /\ pos <= Len(Order)
      BY DEF VisitDay, IInv, TypeOK
    <3>2. Order \in Seq(Allocation)
      BY OrderTyped
    <3> HIDE DEF Order
    <3> QED
      BY <3>1, <3>2
  <2>2. ((visit - 1) % NumDays) + 1 \in Days
    BY SchoolAssumption DEF VisitDay, IInv, TypeOK, Days
  <2> QED
    BY <2>1, <2>2, AllocationTyped
<1>3. \/ \E l \in Placeable(board, job, day, soft) : board' = PlaceLesson(board, l, FALSE, TRUE)
      \/ board' = board
  BY DEF VisitDay
<1>4. Tracked
  BY DEF VisitDay, Tracked
<1> HIDE DEF day
<1>5. ASSUME NEW l \in Placeable(board, job, day, soft), board' = PlaceLesson(board, l, FALSE, TRUE)
      PROVE  GoodStep
  <2>1. l \in Lesson /\ CanPlace(board, l, soft)
    BY <1>1, <1>2, PlaceableTyped
  <2> QED
    BY <1>4, <1>5, <2>1, AllowedStep
<1> QED
  BY <1>3, <1>4, <1>5, SameStep

LEMMA GapVisitOK ==
    ASSUME IInv, GapVisit
    PROVE  GoodStep
<1> DEFINE day == ((visit - 1) % NumDays) + 1
<1>1. job \in Pairs
  BY DEF GapVisit, IInv, TypeOK
<1>2. day \in Days
  BY SchoolAssumption DEF GapVisit, IInv, TypeOK, Days
<1>3. \/ \E l \in Placeable(board, job, day, FALSE) : board' = PlaceLesson(board, l, FALSE, FALSE)
      \/ board' = board
  BY DEF GapVisit
<1>4. ~ Tracked'
  BY DEF GapVisit, Tracked
<1> HIDE DEF day
<1>5. ASSUME NEW l \in Placeable(board, job, day, FALSE), board' = PlaceLesson(board, l, FALSE, FALSE)
      PROVE  GoodStep
  <2>1. l \in Lesson /\ CanPlace(board, l, FALSE)
    BY <1>1, <1>2, PlaceableTyped
  <2> QED
    BY <1>4, <1>5, <2>1, AllowedStep
<1> QED
  BY <1>3, <1>4, <1>5, SameStep

LEMMA FillOK ==
    ASSUME IInv, Fill \/ GapFill
    PROVE  GoodStep
<1>1. PICK p \in ApplicablePairs, ignoreSoft \in BOOLEAN :
          \E l \in PlaceableAnyDay(board, p, ignoreSoft) :
              board' = PlaceLesson(board, l, FALSE, FALSE)
  BY DEF Fill, Fillable, GapFill, Shortages
<1>2. PICK l \in PlaceableAnyDay(board, p, ignoreSoft) : board' = PlaceLesson(board, l, FALSE, FALSE)
  BY <1>1
<1>3. p \in Pairs
  BY DEF ApplicablePairs
<1>4. l \in Lesson /\ CanPlace(board, l, ignoreSoft)
  BY <1>3, PlaceableAnyDayTyped
<1>5. ~ Tracked'
  BY DEF Fill, GapFill, Tracked, control
<1> QED
  BY <1>2, <1>4, <1>5, AllowedStep

(* What Undo takes from the stack is a lesson that is on the board, in the *)
(* cell it was placed in and not pinned: the entry is never stale.         *)
LEMMA UndoOK ==
    ASSUME IInv, Undo
    PROVE  GoodStep
<1> DEFINE P == [lesson : Lesson, pinned : BOOLEAN]
           rest(i) == RemoveAt(board.stack, i)
<1>1. PICK i \in DOMAIN board.stack :
          /\ ~ board.stack[i].pinned
          /\ \/ board' = [RemoveLesson(board, board.stack[i].lesson) EXCEPT !.stack = rest(i)]
             \/ board.cell[CellOf(board.stack[i].lesson)] # board.stack[i].lesson
  BY DEF Undo, IsLastUnpinned
<1>2. PICK l : l = board.stack[i].lesson
  OBVIOUS
<1>3. BoardOK(board) /\ StackHolds(board) /\ board.stack \in Seq(P)
  BY BoardFields DEF Undo, IInv, StackInStep, Tracked, BoardOK
<1>4. l \in Unpinned(board)
  BY <1>1, <1>2, <1>3 DEF StackHolds, Unpinned
<1>5. board' = [RemoveLesson(board, l) EXCEPT !.stack = rest(i)]
  BY <1>1, <1>2, <1>3, <1>4 DEF BoardOK, IndexesEntries, Unpinned
<1>6. rest(i) \in Seq(P)
  <2> HIDE DEF P
  <2>1. i \in 1..Len(board.stack)
    BY <1>3
  <2> QED
    BY <1>3, <2>1, RemoveAtElements
<1>7. StackHolds(board')
  BY <1>2, <1>3, <1>5, UndoneStacked
<1> HIDE DEF rest
<1>8. BoardOK(RemoveLesson(board, l)) /\ PinsStay(board, RemoveLesson(board, l))
  BY <1>3, <1>4, RemoveOK
<1>9. BoardOK(board') /\ PinsStay(RemoveLesson(board, l), board')
  BY <1>5, <1>6, <1>8, RestackedOK
<1>10. PinsStay(board, board')
  BY <1>8, <1>9 DEF PinsStay
<1> QED
  BY <1>7, <1>9, <1>10 DEF GoodStep

LEMMA StripOK ==
    ASSUME IInv, Strip
    PROVE  GoodStep
<1>1. PICK l \in Unpinned(board) : board' = RemoveLesson(board, l)
  BY DEF Strip
<1>2. ~ Tracked'
  BY DEF Strip, Tracked, control
<1> QED
  BY <1>1, <1>2, RemoveOK DEF IInv, GoodStep

LEMMA ClearLockOK ==
    ASSUME IInv, ClearLock
    PROVE  GoodStep
<1>1. job \in Pairs /\ ~ Tracked'
  BY DEF ClearLock, IInv, TypeOK, Tracked
<1>2. LessonsOf(board, job) \cap Unpinned(board) = {} /\ board' = [board EXCEPT !.lock[job] = {}]
  BY DEF ClearLock
<1> QED
  BY <1>1, <1>2, UnlockedOK DEF IInv, GoodStep

LEMMA FinishOrderOK ==
    ASSUME IInv, FinishOrder
    PROVE  GoodStep
<1> DEFINE P == [lesson : Lesson, pinned : BOOLEAN]
<1>1. CASE board' = board
  BY <1>1, SameStep DEF FinishOrder, Tracked
<1>2. CASE board' = [board EXCEPT !.stack = << >>] /\ pc' = "repair"
  <2>1. << >> \in Seq(P)
    <3> HIDE DEF P
    <3> QED
      OBVIOUS
  <2>2. ~ Tracked'
    BY <1>2 DEF Tracked
  <2> QED
    BY <1>2, <2>1, <2>2, RestackedOK DEF IInv, GoodStep
<1> QED
  BY <1>1, <1>2 DEF FinishOrder

\* A lesson moved within its class to another day and slot is a lesson.
LEMMA MovedTyped ==
    ASSUME NEW l \in Lesson, NEW day \in Days, NEW n \in Slots
    PROVE  [l EXCEPT !.day = day, !.slot = n] \in Lesson
BY DEF Lesson

LEMMA MovesTyped ==
    ASSUME NEW l \in Lesson
    PROVE  MovesOf(l) \subseteq Lesson
<1> DEFINE at(day, n) == [l EXCEPT !.day = day, !.slot = n]
<1>1. \A day \in Days, n \in LessonSlots : at(day, n) \in Lesson
  BY MovedTyped DEF LessonSlots
<1>2. MovesOf(l) = {at(day, n) : day \in Days, n \in LessonSlots}
  BY DEF MovesOf
<1> HIDE DEF at
<1> QED
  BY <1>1, <1>2

LEMMA MovesKeepClass ==
    ASSUME NEW l \in Lesson
    PROVE  \A m \in MovesOf(l) : m.div = l.div
<1> DEFINE at(day, n) == [l EXCEPT !.day = day, !.slot = n]
<1>1. \A day \in Days, n \in LessonSlots : at(day, n).div = l.div
  BY DEF Lesson
<1>2. MovesOf(l) = {at(day, n) : day \in Days, n \in LessonSlots}
  BY DEF MovesOf
<1> HIDE DEF at
<1> QED
  BY <1>1, <1>2

\* removes a lesson that is not pinned, then places one that is allowed
LEMMA MoveOK ==
    ASSUME NEW b, BoardOK(b), NEW without, BoardOK(without), PinsStay(b, without),
           NEW m \in Lesson, CanPlace(without, m, FALSE)
    PROVE  /\ BoardOK(PlaceLesson(without, m, FALSE, FALSE))
           /\ PinsStay(b, PlaceLesson(without, m, FALSE, FALSE))
<1>1. Admissible(without, m)
  BY CanPlaceAdmissible
<1>2. /\ BoardOK(PlaceLesson(without, m, FALSE, FALSE))
      /\ PinsStay(without, PlaceLesson(without, m, FALSE, FALSE))
  BY <1>1, PlaceOK
<1> QED
  BY <1>2 DEF PinsStay

LEMMA RelocateOK ==
    ASSUME IInv, Relocate
    PROVE  GoodStep
<1>1. PICK l \in Unpinned(board) : \E m \in MovesOf(l) :
          /\ CanPlace(RemoveLesson(board, l), m, FALSE)
          /\ board' = PlaceLesson(RemoveLesson(board, l), m, FALSE, FALSE)
  BY DEF Relocate
<1>2. MovesOf(l) \subseteq Lesson
  BY MovesTyped, BoardFields DEF IInv, BoardOK, Unpinned
<1>3. BoardOK(board) /\ BoardOK(RemoveLesson(board, l)) /\ PinsStay(board, RemoveLesson(board, l))
  BY RemoveOK DEF IInv
<1>4. ~ Tracked'
  BY DEF Relocate, Tracked
<1> QED
  BY <1>1, <1>2, <1>3, <1>4, MoveOK DEF GoodStep

LEMMA SwapOK ==
    ASSUME IInv, Swap
    PROVE  GoodStep
<1> DEFINE x(a) == board.cell[CellOf(a)]
           without(a, b) == RemoveLesson(RemoveLesson(board, x(a)), x(b))
           one(a, b) == PlaceLesson(without(a, b), Moved(b, a), FALSE, FALSE)
<1>1. PICK a \in listed, b \in listed :
          /\ CellOf(a) # CellOf(b)
          /\ CellOf(a) \notin board.pinned /\ CellOf(b) \notin board.pinned
          /\ x(a) # NoLesson /\ x(b) # NoLesson
          /\ CanPlace(without(a, b), Moved(b, a), FALSE)
          /\ CanPlace(one(a, b), Moved(a, b), FALSE)
          /\ board' = PlaceLesson(one(a, b), Moved(a, b), FALSE, FALSE)
  BY DEF Swap
<1>2. a \in Lesson /\ b \in Lesson /\ BoardOK(board) /\ ~ Tracked'
  BY DEF IInv, TypeOK, Swap, Tracked
<1>3. Moved(a, b) \in Lesson /\ Moved(b, a) \in Lesson
  BY <1>2, KeysTyped, MovedTyped DEF Moved
<1>4. /\ x(a) \in board.entries /\ CellOf(x(a)) = CellOf(a)
      /\ x(b) \in board.entries /\ CellOf(x(b)) = CellOf(b)
  BY <1>1, <1>2, KeysTyped DEF BoardOK, IndexesEntries
<1>5. x(a) \in Unpinned(board)
  BY <1>1, <1>4 DEF Unpinned, IsPinned
<1>6. x(b) \in Unpinned(RemoveLesson(board, x(a)))
  BY <1>1, <1>4 DEF RemoveLesson, Unpinned, IsPinned
<1>7. BoardOK(RemoveLesson(board, x(a))) /\ PinsStay(board, RemoveLesson(board, x(a)))
  BY <1>2, <1>5, RemoveOK
<1>8. BoardOK(without(a, b)) /\ PinsStay(RemoveLesson(board, x(a)), without(a, b))
  BY <1>6, <1>7, RemoveOK
<1>9. PinsStay(board, without(a, b))
  BY <1>7, <1>8 DEF PinsStay
<1> HIDE DEF without
<1>10. BoardOK(one(a, b)) /\ PinsStay(board, one(a, b))
  BY <1>1, <1>2, <1>3, <1>8, <1>9, MoveOK
<1> HIDE DEF one
<1>11. BoardOK(board') /\ PinsStay(board, board')
  BY <1>1, <1>2, <1>3, <1>10, MoveOK
<1> QED
  BY <1>2, <1>11 DEF GoodStep

LEMMA RelocationsOK ==
    ASSUME BoardOK(board), NEW l \in Unpinned(board), NEW targets \in SUBSET Lesson,
           NEW r \in Relocations(l, targets)
    PROVE  /\ BoardOK(r) /\ PinsStay(board, r)
           /\ Unpinned(board) \ {l} \subseteq Unpinned(r)
<1> DEFINE without == RemoveLesson(board, l)
<1>1. l \in Lesson
  BY BoardFields DEF BoardOK, Unpinned
<1>2. /\ BoardOK(without) /\ PinsStay(board, without)
      /\ without.entries = board.entries \ {l} /\ without.pinned = board.pinned
  BY RemoveOK DEF RemoveLesson
<1>3. \/ r = without \/ r = board
      \/ \E m \in Lesson : CanPlace(without, m, FALSE) /\ r = PlaceLesson(without, m, FALSE, FALSE)
  BY <1>1 DEF Relocations
<1> HIDE DEF without
<1>4. CASE r = without
  BY <1>2, <1>4 DEF Unpinned, IsPinned
<1>5. CASE r = board
  BY <1>5 DEF PinsStay
<1>6. ASSUME NEW m \in Lesson, CanPlace(without, m, FALSE),
             r = PlaceLesson(without, m, FALSE, FALSE)
      PROVE  /\ BoardOK(r) /\ PinsStay(board, r)
             /\ Unpinned(board) \ {l} \subseteq Unpinned(r)
  <2>1. BoardOK(r) /\ PinsStay(board, r)
    BY <1>2, <1>6, MoveOK
  <2>2. r.entries = without.entries \cup {m} /\ r.pinned = without.pinned
    BY <1>6 DEF PlaceLesson
  <2> QED
    BY <1>2, <2>1, <2>2 DEF Unpinned, IsPinned
<1> QED
  BY <1>3, <1>4, <1>5, <1>6

LEMMA DistributeOK ==
    ASSUME IInv, Distribute
    PROVE  GoodStep
<1>1. \/ \E l \in Unpinned(board) : \E targets \in SUBSET MovesOf(l) :
            board' \in Relocations(l, targets)
      \/ board' = board
  BY DEF Distribute
<1>2. ASSUME NEW l \in Unpinned(board)
      PROVE  SUBSET MovesOf(l) \subseteq SUBSET Lesson
  BY MovesTyped, BoardFields DEF IInv, BoardOK, Unpinned
<1>3. ~ Tracked' /\ BoardOK(board)
  BY DEF Distribute, Tracked, IInv
<1>4. CASE \E l \in Unpinned(board) : \E targets \in SUBSET MovesOf(l) :
              board' \in Relocations(l, targets)
  BY <1>2, <1>3, <1>4, RelocationsOK DEF GoodStep
<1> QED
  BY <1>1, <1>3, <1>4, SameStep

LEMMA SpreadLessonOK ==
    ASSUME IInv, SpreadLesson
    PROVE  GoodStep /\ listed' \subseteq Unpinned(board')
<1>1. PICK l \in listed :
          /\ board' \in Relocations(l, SpreadTargets(l))
          /\ listed' = {} \/ listed' = listed \ {l}
  BY DEF SpreadLesson
<1>2. l \in Unpinned(board) /\ listed \subseteq Unpinned(board) /\ BoardOK(board) /\ ~ Tracked'
  BY DEF SpreadLesson, IInv, ListedPresent, Tracked
<1>3. SpreadTargets(l) \in SUBSET Lesson
  <2>1. SpreadTargets(l) \subseteq MovesOf(l)
    BY DEF SpreadTargets
  <2> QED
    BY <1>2, <2>1, MovesTyped, BoardFields DEF BoardOK, Unpinned
<1>4. /\ BoardOK(board') /\ PinsStay(board, board')
      /\ Unpinned(board) \ {l} \subseteq Unpinned(board')
  BY <1>1, <1>2, <1>3, RelocationsOK
<1> QED
  BY <1>1, <1>2, <1>4 DEF GoodStep

-----------------------------------------------------------------------------
(* The inductive invariant holds.                                          *)

LEMMA BoardStep ==
    ASSUME IInv, [Next]_vars
    PROVE  GoodStep
<1>1. CASE Placing
  BY <1>1, FixedSlotOK, FirstPeriodOK, DailyMinOK, DoubleBlockOK, VisitDayOK, GapVisitOK, FillOK
  DEF Placing
<1>2. CASE Removing
  BY <1>2, UndoOK, StripOK DEF Removing
<1>3. CASE Moving
  BY <1>3, RelocateOK, SwapOK, DistributeOK, SpreadLessonOK DEF Moving
<1>4. CASE Steering
  <2>1. CASE ClearLock \/ FinishOrder
    BY <2>1, ClearLockOK, FinishOrderOK
  <2>2. CASE board' = board /\ (Tracked' => Tracked)
    BY <2>2, SameStep
  <2> QED
    BY <1>4, <2>1, <2>2
    DEF Steering, Tracked, control, NextPair,
        StartClassTeacherRules, StartDailyMin, FinishClassTeacherRules, AllocatePair, StartDoublePass, StartVisits, FinishPair, Backtrack, FinishUndo, StartRepairRound, RepairPair, FinishRepairRound, FinishGap, FinishFill, StartRelocations, StartSwaps, FinishSearchRound, StartPeriodSpread, SpreadPair, Finish
<1>5. CASE UNCHANGED vars
  BY <1>5, SameStep DEF vars, Tracked
<1> QED
  BY <1>1, <1>2, <1>3, <1>4, <1>5 DEF Next, Returned

LEMMA ControlStep ==
    ASSUME IInv, [Next]_vars
    PROVE  TypeOK' /\ ListedPresent' /\ NoSiteLeft'
<1> USE DEF IInv, TypeOK, ListedPresent, NoSiteLeft, Passes
<1>1. board' \in Board
  BY BoardStep DEF GoodStep, BoardOK
<1>2. /\ board.entries \subseteq Lesson /\ ApplicablePairs \subseteq Pairs
      /\ BacktrackDepth \in Nat
  BY BoardFields, OptionAssumption DEF BoardOK, ApplicablePairs
<1>3. ASSUME pos <= Len(Order) PROVE Order[pos].pair \in Pairs
  <2>1. Order \in Seq(Allocation)
    BY OrderTyped
  <2> HIDE DEF Order
  <2>2. Order[pos] \in Allocation
    BY <1>3, <2>1
  <2> QED
    BY <2>2, AllocationTyped
<1> USE <1>1, <1>2
<1>o. soft' = soft => Order' = Order
  BY DEF Order
<1>4. CASE FixedSlot
  BY <1>4 DEF FixedSlot
<1>5. CASE FirstPeriod
  BY <1>5 DEF FirstPeriod
<1>6. CASE DailyMin
  BY <1>6 DEF DailyMin
<1>7. CASE DoubleBlock
  BY <1>7, <1>o DEF DoubleBlock
<1>8. CASE VisitDay
  BY <1>8, <1>o DEF VisitDay
<1>9. CASE GapVisit
  BY <1>9 DEF GapVisit
<1>10. CASE Fill
  BY <1>10 DEF Fill, control
<1>11. CASE GapFill
  BY <1>11 DEF GapFill
<1>12. CASE Undo
  BY <1>12, <1>o DEF Undo
<1>13. CASE Strip
  BY <1>13 DEF Strip, control
<1>14. CASE Relocate
  BY <1>14 DEF Relocate
<1>15. CASE Swap
  BY <1>15 DEF Swap
<1>16. CASE Distribute
  BY <1>16 DEF Distribute
<1>17. CASE SpreadLesson
  BY <1>17, SpreadLessonOK DEF SpreadLesson, GoodStep
<1>18. CASE StartClassTeacherRules
  BY <1>18 DEF StartClassTeacherRules
<1>19. CASE StartDailyMin
  BY <1>19 DEF StartDailyMin
<1>20. CASE FinishClassTeacherRules
  BY <1>20 DEF FinishClassTeacherRules
<1>21. CASE AllocatePair
  BY <1>21, <1>3 DEF AllocatePair, Order
<1>22. CASE StartDoublePass
  <2>1. ~ NoDoubles
    <3>1. visit < DoublePasses(Order[pos]) /\ pos \in 1..Len(Order) /\ visit \in Nat
      BY <1>22 DEF StartDoublePass
    <3>2. MainOrder \in Seq(Allocation) /\ SoftOrder \in Seq(Allocation)
      BY OrderAssumption
    <3>3. NoDoubles => DoublePasses(Order[pos]) = 0
      BY <3>1, <3>2 DEF NoDoubles, Order
    <3> QED
      BY <3>1, <3>3
  <2> QED
    BY <1>22, <1>o, <2>1 DEF StartDoublePass
<1>23. CASE StartVisits
  BY <1>23, <1>o DEF StartVisits
<1>24. CASE FinishPair
  BY <1>24 DEF FinishPair, NextPair
<1>25. CASE Backtrack
  BY <1>25, <1>o DEF Backtrack
<1>26. CASE FinishUndo
  BY <1>26, <1>o DEF FinishUndo, NextPair
<1>27. CASE FinishOrder
  <2>1. /\ pc = "allocate" /\ pos' = 1 /\ soft' \in BOOLEAN /\ pc' \in {"allocate", "repair"}
        /\ UNCHANGED <<again, job, visit, rounds, left, todo, listed, best>>
    BY <1>27 DEF FinishOrder
  <2> QED
    BY <2>1
<1>28. CASE StartRepairRound
  BY <1>28 DEF StartRepairRound, Shortages
<1>29. CASE RepairPair
  BY <1>29 DEF RepairPair
<1>30. CASE FinishRepairRound
  BY <1>30 DEF FinishRepairRound, control
<1>31. CASE ClearLock
  BY <1>31 DEF ClearLock
<1>32. CASE FinishGap
  BY <1>32 DEF FinishGap
<1>33. CASE FinishFill
  BY <1>33 DEF FinishFill
<1>34. CASE StartRelocations
  BY <1>34 DEF StartRelocations, control
<1>35. CASE StartSwaps
  BY <1>35 DEF StartSwaps
<1>36. CASE FinishSearchRound
  BY <1>36 DEF FinishSearchRound
<1>37. CASE StartPeriodSpread
  BY <1>37 DEF StartPeriodSpread
<1>38. CASE SpreadPair
  <2>1. Unpinned(board) \subseteq Lesson
    BY DEF Unpinned
  <2> QED
    BY <1>38, <2>1 DEF SpreadPair
<1>39. CASE Finish
  BY <1>39 DEF Finish, control
<1>40. CASE UNCHANGED vars
  BY <1>40 DEF vars, Order
<1> QED
  BY <1>4, <1>5, <1>6, <1>7, <1>8, <1>9, <1>10, <1>11, <1>12, <1>13, <1>14, <1>15, <1>16, <1>17, <1>18, <1>19, <1>20, <1>21, <1>22, <1>23, <1>24, <1>25, <1>26, <1>27, <1>28, <1>29, <1>30, <1>31, <1>32, <1>33, <1>34, <1>35, <1>36, <1>37, <1>38, <1>39, <1>40
  DEF Next, Placing, Removing, Moving, Steering, Returned

LEMMA InitIInv == Init => IInv
<1> SUFFICES ASSUME Init PROVE IInv
  OBVIOUS
<1>1. BoardOK(board) /\ board \in Board /\ StackHolds(board)
  BY EmptyOK DEF Init, BoardOK
<1>2. /\ pc = "fixed" /\ pos = 1 /\ again = FALSE /\ soft = FALSE /\ job = NoPair
      /\ visit = 0 /\ rounds = 0 /\ left = 0 /\ todo = {} /\ listed = {}
  BY DEF Init
<1>3. TypeOK
  <2>1. again \in BOOLEAN /\ soft \in BOOLEAN
    BY <1>2
  <2>2. pc \in Passes /\ pc \notin {"double", "visit", "undo", "strip", "gap",
                                      "firstPeriod", "dailyMin", "shortage"}
    BY <1>2 DEF Passes
  <2>3. /\ pos \in Nat \ {0} /\ visit \in Nat /\ rounds \in Nat /\ left \in Nat
        /\ listed \subseteq Lesson
    BY <1>2
  <2>4. job \in Pairs \cup {NoPair}
    BY <1>2
  <2> QED
    BY <1>1, <2>1, <2>2, <2>3, <2>4 DEF TypeOK
<1> QED
  BY <1>1, <1>2, <1>3 DEF IInv, ListedPresent, NoSiteLeft, StackInStep

LEMMA NextIInv == IInv /\ [Next]_vars => IInv'
<1> SUFFICES ASSUME IInv, [Next]_vars PROVE IInv'
  OBVIOUS
<1>1. BoardOK(board') /\ StackInStep'
  BY BoardStep DEF GoodStep, StackInStep
<1> QED
  BY <1>1, ControlStep DEF IInv

THEOREM Invariance == Spec => []IInv
BY InitIInv, NextIInv, PTL DEF Spec

-----------------------------------------------------------------------------
(* What follows from it *)

\* In every state the engine's variables have their types.
THEOREM TypeCorrect == Spec => []TypeOK
<1>1. IInv => TypeOK
  BY DEF IInv
<1> QED
  BY <1>1, Invariance, PTL

(* The division and the teacher slot maps index exactly the lessons of the *)
(* entries array, whatever sequence of placements, removals, restores and  *)
(* swaps the passes perform.                                               *)
THEOREM IndexCorrect == Spec => []MapsIndexEntries
<1>1. IInv => MapsIndexEntries
  BY DEF IInv, BoardOK, MapsIndexEntries
<1> QED
  BY <1>1, Invariance, PTL

\* Two lessons never share a class and time, nor a teacher and time.
THEOREM ClashFree == Spec => []NoClash
<1>1. IInv => NoClash
  <2> SUFFICES ASSUME IInv, NEW l \in board.entries, NEW m \in board.entries,
                      CellOf(l) = CellOf(m) \/ TimeOf(l) = TimeOf(m)
               PROVE  l = m
    BY DEF NoClash
  <2>1. /\ board.cell[CellOf(l)] = l /\ board.busy[TimeOf(l)] = l.div
        /\ board.cell[CellOf(m)] = m /\ board.busy[TimeOf(m)] = m.div
    BY DEF IInv, BoardOK, IndexesEntries
  <2>2. ASSUME TimeOf(l) = TimeOf(m) PROVE CellOf(l) = CellOf(m)
    BY <2>1, <2>2 DEF TimeOf, CellOf
  <2> QED
    BY <2>1, <2>2
<1> QED
  BY <1>1, Invariance, PTL

(* Two optimizers of engine.js never change anything: the load balance     *)
(* offers a lesson's own cell to another teacher, and the cross-division   *)
(* unblock moves a lesson of another class and finds the cell it wanted    *)
(* as full as before.                                                      *)
THEOREM OptimizersIdle == Spec => []IdleOptimizers
<1>1. ASSUME IInv, NEW l \in board.entries, NEW t \in Teachers PROVE ~ LoadBalances(board, l, t)
  <2>1. l \in Lesson /\ board.cell[CellOf(l)] = l
    BY <1>1 DEF IInv, BoardOK, IndexesEntries, Board
  <2>2. CellOf([l EXCEPT !.teacher = t]) = CellOf(l)
    BY <2>1 DEF CellOf, Lesson
  <2> QED
    BY <2>1, <2>2, AbsentAssumption DEF LoadBalances, CanPlace
<1>2. ASSUME IInv, NEW p \in Pairs, NEW day \in Days, NEW n \in Slots
      PROVE  ~ CrossDivisionUnblocks(board, p, day, n)
  <2>1. SUFFICES ASSUME NEW l \in Unpinned(board), NEW m \in MovesOf(l),
                        l.div # p[1], board.cell[<<p[1], day, n>>] # NoLesson
                 PROVE  Eligible(PlaceLesson(RemoveLesson(board, l), m, FALSE, FALSE), p, day, n) = {}
    BY DEF CrossDivisionUnblocks
  <2> DEFINE c == <<p[1], day, n>>
             away == PlaceLesson(RemoveLesson(board, l), m, FALSE, FALSE)
  <2>2. /\ l \in Lesson /\ c \in Cells
        /\ board.cell \in [Cells -> Lesson \cup {NoLesson}]
    BY <1>2 DEF IInv, BoardOK, Board, Unpinned, Pairs, Cells
  <2>3. m.div = l.div
    BY <2>1, <2>2, MovesKeepClass
  <2>4. CellOf(l) # c /\ CellOf(m) # c
    BY <2>1, <2>3 DEF CellOf
  <2>5. away.cell = [[board.cell EXCEPT ![CellOf(l)] = NoLesson] EXCEPT ![CellOf(m)] = m]
    <3>1. RemoveLesson(board, l).cell = [board.cell EXCEPT ![CellOf(l)] = NoLesson]
      BY DEF RemoveLesson
    <3>2. away.cell = [RemoveLesson(board, l).cell EXCEPT ![CellOf(m)] = m]
      BY DEF PlaceLesson
    <3> QED
      BY <3>1, <3>2
  <2>6. away.cell[c] = board.cell[c]
    <3> HIDE DEF away, c
    <3> QED
      BY <2>2, <2>4, <2>5
  <2>7. \A t : CellOf(LessonAt(p, day, n, t)) = c
    BY DEF CellOf, LessonAt
  <2>8. \A t : ~ CanPlace(away, LessonAt(p, day, n, t), FALSE)
    BY <2>1, <2>6, <2>7 DEF CanPlace
  <2> QED
    BY <2>8 DEF Eligible
<1>3. IInv => IdleOptimizers
  BY <1>1, <1>2 DEF IdleOptimizers
<1> QED
  BY <1>3, Invariance, PTL

(* No class is given more lessons of a subject than its weekly target,     *)
(* although a double block tests the target once for two placements.       *)
THEOREM TargetsCorrect == Spec => []TargetsKept
<1>1. IInv => TargetsKept
  BY DEF IInv, BoardOK, WithinLimits, TargetsKept
<1> QED
  BY <1>1, Invariance, PTL

(* The six counters equal what a recount of the entries gives: no pass     *)
(* counts a lesson twice, misses one, or takes one away that is not there. *)
THEOREM CountersCorrect == Spec => []CountersCountEntries
<1>1. ASSUME IInv PROVE CountersCountEntries
  <2> DEFINE E == board.entries
  <2>1. /\ E \subseteq Lesson
        /\ Counts(E, DayKey, board.daily) /\ Counts(E, HalfKey, board.session)
        /\ Counts(E, TeacherKey, board.weekly)
        /\ Counts(E, PairKey, board.subWeek) /\ Counts(E, PairDayKey, board.subDay)
        /\ DOMAIN board.weekly = Teachers /\ DOMAIN board.subWeek = Pairs
    BY <1>1, BoardFields DEF IInv, BoardOK, Counted
  <2>2. /\ \A k : {l \in E : DayKey[l] = k} = {l \in E : TeacherDay(l) = k}
        /\ \A k : {l \in E : HalfKey[l] = k} = {l \in E : TeacherHalf(l) = k}
        /\ \A k : {l \in E : TeacherKey[l] = k} = {l \in E : l.teacher = k}
        /\ \A k : {l \in E : PairKey[l] = k} = {l \in E : PairOf(l) = k}
        /\ \A k : {l \in E : PairDayKey[l] = k} = {l \in E : PairDay(l) = k}
    BY <2>1, KeyValues
  <2> HIDE DEF E
  <2>3. /\ \A k \in DOMAIN board.daily : board.daily[k] = Cardinality({l \in E : TeacherDay(l) = k})
        /\ \A k \in DOMAIN board.session : board.session[k] = Cardinality({l \in E : TeacherHalf(l) = k})
        /\ \A k \in Teachers : board.weekly[k] = Cardinality({l \in E : l.teacher = k})
        /\ \A k \in Pairs : board.subWeek[k] = Cardinality({l \in E : PairOf(l) = k})
        /\ \A k \in DOMAIN board.subDay : board.subDay[k] = Cardinality({l \in E : PairDay(l) = k})
    BY <2>1, <2>2 DEF Counts
  <2> QED
    BY <2>3 DEF CountersCountEntries, CountsEntries, E
<1> QED
  BY <1>1, Invariance, PTL

(* No pass, backtracking and lock repair included, leaves an unpinned      *)
(* lesson whose teacher does not hold the lock of its pair, or gives a     *)
(* pair more teachers than it may have.                                    *)
THEOREM LocksCorrect == Spec => []UnpinnedLessonsLocked
<1>1. IInv => UnpinnedLessonsLocked
  BY DEF IInv, BoardOK, Locked, UnpinnedLessonsLocked
<1> QED
  BY <1>1, Invariance, PTL

(* While backtracking may read it, the placement stack lists every lesson  *)
(* of the board once and with its pin: undoLastUnpinnedPlacements never    *)
(* meets an entry whose lesson is gone.                                    *)
THEOREM StackCorrect == Spec => []StackHoldsBoard
<1>1. ASSUME IInv, pc \in {"fixed", "allocate", "double", "visit", "undo"}
      PROVE  /\ {p.lesson : p \in Range(board.stack)} = board.entries
             /\ Len(board.stack) = Cardinality(board.entries)
             /\ \A p \in Range(board.stack) : p.pinned = IsPinned(board, p.lesson)
  <2> DEFINE s == board.stack
             P == [lesson : Lesson, pinned : BOOLEAN]
             f == [i \in 1..Len(s) |-> s[i].lesson]
  <2>1. StackHolds(board)
    BY <1>1 DEF IInv, StackInStep, Tracked
  <2>2. s \in Seq(P)
    BY <1>1, BoardFields DEF IInv, BoardOK
  <2> HIDE DEF P
  <2>3. DOMAIN s = 1..Len(s) /\ Len(s) \in Nat
    BY <2>2
  <2>4. Range(s) = {s[i] : i \in 1..Len(s)}
    BY <2>3 DEF Range
  <2>5. {p.lesson : p \in Range(s)} = board.entries
    BY <2>1, <2>3, <2>4 DEF StackHolds
  <2>6. \A p \in Range(s) : p.pinned = IsPinned(board, p.lesson)
    BY <2>1, <2>3, <2>4 DEF StackHolds
  <2>7. f \in Bijection(1..Len(s), board.entries)
    <3>1. f \in [1..Len(s) -> board.entries]
      BY <2>1, <2>3 DEF StackHolds
    <3>2. \A i, j \in 1..Len(s) : f[i] = f[j] => i = j
      BY <2>1, <2>3 DEF StackHolds
    <3>3. \A l \in board.entries : \E i \in 1..Len(s) : f[i] = l
      BY <2>1, <2>3 DEF StackHolds
    <3> HIDE DEF f
    <3> QED
      BY <3>1, <3>2, <3>3, Fun_IsBij
  <2>8. Len(s) = Cardinality(board.entries)
    <3>1. IsFiniteSet(1..Len(s)) /\ Cardinality(1..Len(s)) = Len(s)
      BY <2>3, FS_Interval
    <3>2. ExistsBijection(1..Len(s), board.entries)
      BY <2>7 DEF ExistsBijection
    <3> QED
      BY <3>1, <3>2, FS_Bijection
  <2> QED
    BY <2>5, <2>6, <2>8
<1>2. IInv => StackHoldsBoard
  BY <1>1 DEF StackHoldsBoard
<1> QED
  BY <1>2, Invariance, PTL

(* A pinned cell keeps its lesson and its pin in every step: no pass moves, *)
(* replaces or drops what a fixed slot or a class-teacher rule has placed.  *)
THEOREM PinnedKept == Spec => PinnedLessonsStay
<1>1. IInv /\ [Next]_vars => [KeepsPinned]_vars
  <2> SUFFICES ASSUME IInv, [Next]_vars PROVE KeepsPinned
    OBVIOUS
  <2> QED
    BY BoardStep DEF IInv, BoardOK, PinsHeld, GoodStep, PinsStay, KeepsPinned
<1> QED
  BY <1>1, Invariance, PTL DEF Spec, PinnedLessonsStay

LEMMA LimitsInv ==
    ASSUME IInv
    PROVE  /\ \A p \in Pairs, day \in Days : DayLoad(p, day) <= MaxPerDay[p] + Slack
           /\ \A t \in Teachers : board.weekly[t] <= WeeklyCapacity[t] + Slack
           /\ \A t \in Teachers, day \in Days : board.daily[<<t, day>>] <= DailyCapacity[t] + Slack
           /\ \A t \in Teachers, day \in Days, h \in Halves :
                 board.session[<<t, day, h>>] <= SessionCapacity[<<t, h>>] + Slack
<1>1. WithinLimits(board)
  BY DEF IInv, BoardOK
<1>2. ASSUME NEW p \in Pairs, NEW day \in Days PROVE DayLoad(p, day) <= MaxPerDay[p] + Slack
  <2>1. <<p[1], p[2], day>> \in Divisions \X Subjects \X Days /\ <<p[1], p[2]>> = p
    BY DEF Pairs
  <2> QED
    BY <1>1, <2>1 DEF WithinLimits, DayLoad
<1>3. ASSUME NEW t \in Teachers, NEW day \in Days
      PROVE  board.daily[<<t, day>>] <= DailyCapacity[t] + Slack
  BY <1>1 DEF WithinLimits
<1>4. ASSUME NEW t \in Teachers, NEW day \in Days, NEW h \in Halves
      PROVE  board.session[<<t, day, h>>] <= SessionCapacity[<<t, h>>] + Slack
  <2>1. <<t, day, h>> \in Teachers \X Days \X Halves
    OBVIOUS
  <2> QED
    BY <1>1, <2>1 DEF WithinLimits
<1> QED
  BY <1>1, <1>2, <1>3, <1>4 DEF WithinLimits

(* A double block, which tests the limits once for two lessons, exceeds a  *)
(* daily limit or a capacity by one period at most, also after backtracking *)
(* and moves.                                                               *)
THEOREM OvershootBounded == Spec => []OvershootByOne
<1>1. ASSUME IInv PROVE OvershootByOne
  <2>1. Slack \in 0..1
    BY DEF Slack
  <2>2. /\ \A p \in Pairs, day \in Days : DayLoad(p, day) \in Nat /\ MaxPerDay[p] \in Nat
        /\ \A t \in Teachers : board.weekly[t] \in Nat /\ WeeklyCapacity[t] \in Nat
        /\ \A t \in Teachers, day \in Days : board.daily[<<t, day>>] \in Nat /\ DailyCapacity[t] \in Nat
    BY <1>1, BoardFields, TargetsNat, CapacitiesNat DEF IInv, BoardOK, DayLoad, Pairs
  <2>3. \A m, n \in Nat : m <= n + Slack => m <= n + 1
    BY <2>1
  <2> QED
    BY <1>1, <2>2, <2>3, LimitsInv DEF OvershootByOne
<1> QED
  BY <1>1, Invariance, PTL

(* Where no allocation asks for double blocks, no subject exceeds its      *)
(* daily limit in a class and no teacher a daily, half-day or weekly       *)
(* capacity, in any state of any attempt.                                  *)
THEOREM LimitsRespected == ASSUME NoDoubles PROVE Spec => []LimitsKept
<1>1. ASSUME IInv PROVE LimitsKept
  <2>1. Slack = 0
    BY DEF Slack
  <2>2. /\ \A p \in Pairs : MaxPerDay[p] + Slack = MaxPerDay[p]
        /\ \A t \in Teachers : WeeklyCapacity[t] + Slack = WeeklyCapacity[t]
        /\ \A t \in Teachers : DailyCapacity[t] + Slack = DailyCapacity[t]
        /\ \A t \in Teachers, h \in Halves : SessionCapacity[<<t, h>>] + Slack = SessionCapacity[<<t, h>>]
    BY <2>1, TargetsNat, CapacitiesNat
  <2> QED
    BY <1>1, <2>2, LimitsInv DEF LimitsKept
<1> QED
  BY <1>1, Invariance, PTL

(* Where no allocation asks for double blocks, a teacher has consecutive   *)
(* lessons in one class a day only, although canPlaceAssignment looks at   *)
(* the neighbours of the new lesson alone.                                 *)
THEOREM OneContinuousClass == ASSUME NoDoubles PROVE Spec => []SingleContinuityClass
<1>1. IInv => SingleContinuityClass
  BY DEF IInv, BoardOK, OneContinuity, SingleContinuityClass
<1> QED
  BY <1>1, Invariance, PTL

(* The engine implements the abstract timetable: every pass, from the      *)
(* first fixed slot to the last optimizer, revises a timetable in which no *)
(* class and no teacher is booked twice and no target exceeded, and what   *)
(* is fixed stays.                                                         *)
THEOREM Implements == Spec => BuildsATimetable
<1> DEFINE fixed == {l \in board.entries : IsPinned(board, l)}
<1>1. Init => Abstract!Init
  BY DEF Init, EmptyBoard, Abstract!Init
<1>2. ASSUME IInv, IInv', [Next]_vars PROVE [Abstract!Revise]_<<board.entries, fixed>>
  <2>1. board'.entries \subseteq Lesson
    BY <1>2, BoardFields DEF IInv, BoardOK
  <2>2. Abstract!Consistent(board'.entries)
    <3> SUFFICES ASSUME NEW l \in board'.entries, NEW m \in board'.entries,
                        CellOf(l) = CellOf(m) \/ TimeOf(l) = TimeOf(m)
                 PROVE  l = m
      BY DEF Abstract!Consistent
    <3>1. /\ board'.cell[CellOf(l)] = l /\ board'.busy[TimeOf(l)] = l.div
          /\ board'.cell[CellOf(m)] = m /\ board'.busy[TimeOf(m)] = m.div
      BY <1>2 DEF IInv, BoardOK, IndexesEntries
    <3>2. ASSUME TimeOf(l) = TimeOf(m) PROVE CellOf(l) = CellOf(m)
      BY <3>1, <3>2 DEF TimeOf, CellOf
    <3> QED
      BY <3>1, <3>2
  <2>3. Abstract!WithinTargets(board'.entries)
    <3>0. \A L : Abstract!Cardinality(L) = Cardinality(L)
      BY DEF Abstract!Cardinality, Cardinality
    <3> SUFFICES ASSUME NEW l \in board'.entries
                 PROVE  Cardinality({m \in board'.entries : PairOf(m) = PairOf(l)})
                            <= WeeklyTarget[PairOf(l)]
      BY <3>0 DEF Abstract!WithinTargets
    <3>1. PairOf(l) \in Pairs
      BY <2>1, KeysTyped
    <3>2. Counts(board'.entries, PairKey, board'.subWeek) /\ DOMAIN board'.subWeek = Pairs
      BY <1>2, BoardFields DEF IInv, BoardOK, Counted
    <3>3. {m \in board'.entries : PairKey[m] = PairOf(l)}
              = {m \in board'.entries : PairOf(m) = PairOf(l)}
      BY <2>1, KeyValues
    <3>4. board'.subWeek[PairOf(l)] = Cardinality({m \in board'.entries : PairOf(m) = PairOf(l)})
      BY <3>1, <3>2, <3>3 DEF Counts
    <3>5. board'.subWeek[PairOf(l)] <= WeeklyTarget[PairOf(l)]
      BY <1>2, <3>1 DEF IInv, BoardOK, WithinLimits
    <3> QED
      BY <3>4, <3>5
  <2>4. fixed \subseteq fixed' /\ fixed' \subseteq board'.entries
    <3> SUFFICES ASSUME NEW l \in board.entries, CellOf(l) \in board.pinned
                 PROVE  l \in board'.entries /\ CellOf(l) \in board'.pinned
      BY DEF IsPinned
    <3>1. board'.cell[CellOf(l)] = board.cell[CellOf(l)] /\ CellOf(l) \in board'.pinned
      BY <1>2, BoardStep DEF GoodStep, PinsStay
    <3>2. board.cell[CellOf(l)] = l /\ l \in Lesson
      BY <1>2, BoardFields DEF IInv, BoardOK, IndexesEntries
    <3>3. CellOf(l) \in Cells /\ l # NoLesson
      BY <3>2, KeysTyped, AbsentAssumption
    <3>4. l \in board'.entries
      BY <1>2, <3>1, <3>2, <3>3 DEF IInv, BoardOK, IndexesEntries
    <3> QED
      BY <3>1, <3>4
  <2> QED
    BY <2>1, <2>2, <2>3, <2>4 DEF Abstract!Revise
<1> QED
  BY <1>1, <1>2, Invariance, PTL DEF Spec, BuildsATimetable, Abstract!Spec

-----------------------------------------------------------------------------
(* The local search *)

\* bestObjective is the objective of the board while the search runs.
BestIsCurrent == Searching => best = Objective(board)

THEOREM BestTracksBoard == Spec => []BestIsCurrent
<1>1. Init => BestIsCurrent
  BY DEF Init, BestIsCurrent, Searching
<1>2. BestIsCurrent /\ [Next]_vars => BestIsCurrent'
  <2> SUFFICES ASSUME BestIsCurrent, [Next]_vars, Searching' PROVE best' = Objective(board')
    BY DEF BestIsCurrent
  <2>1. CASE GapFill
    BY <2>1 DEF GapFill
  <2>2. CASE Relocate
    BY <2>2 DEF Relocate
  <2>3. CASE Swap
    BY <2>3 DEF Swap
  <2>4. CASE StartRelocations \/ StartSwaps \/ FinishSearchRound \/ UNCHANGED vars
    <3>1. Searching /\ board' = board /\ best' = best
      BY <2>4 DEF StartRelocations, StartSwaps, FinishSearchRound, vars, control, Searching
    <3>2. best' = Objective(board)
      BY <3>1 DEF BestIsCurrent
    <3> QED
      BY <3>1, <3>2
  <2>5. CASE FinishFill
    <3>1. board' = board /\ best' = Objective(board)
      BY <2>5 DEF FinishFill, Searching
    <3> QED
      BY <3>1
  <2>6. CASE FixedSlot \/ FirstPeriod \/ DailyMin \/ DoubleBlock \/ VisitDay \/ GapVisit \/ Fill \/ Removing
    BY <2>6 DEF FixedSlot, FirstPeriod, DailyMin, DoubleBlock, VisitDay, GapVisit, Fill, Removing, Undo, Strip, control, Searching
  <2>7. CASE Distribute \/ SpreadLesson \/ StartPeriodSpread \/ SpreadPair \/ Finish
    BY <2>7 DEF Distribute, SpreadLesson, StartPeriodSpread, SpreadPair, Finish, control, Searching
  <2>8. CASE \/ StartClassTeacherRules \/ StartDailyMin \/ FinishClassTeacherRules
             \/ AllocatePair \/ StartDoublePass \/ StartVisits \/ FinishPair \/ Backtrack
             \/ FinishUndo \/ FinishOrder
    BY <2>8 DEF StartClassTeacherRules, StartDailyMin, FinishClassTeacherRules, AllocatePair, StartDoublePass, StartVisits, FinishPair, Backtrack, FinishUndo, FinishOrder, NextPair, Searching
  <2>9. CASE StartRepairRound \/ RepairPair \/ FinishRepairRound \/ ClearLock \/ FinishGap
    BY <2>9 DEF StartRepairRound, RepairPair, FinishRepairRound, ClearLock, FinishGap, control, Searching
  <2> QED
    BY <2>1, <2>2, <2>3, <2>4, <2>5, <2>6, <2>7, <2>8, <2>9
    DEF Next, Placing, Moving, Steering, Returned
<1> QED
  BY <1>1, <1>2, PTL DEF Spec

LEMMA ObjectiveTyped ==
    ASSUME NEW b, BoardOK(b)
    PROVE  Objective(b) \in [scheduled : Nat, short : Nat, soft : Nat]
<1>1. IsFiniteSet(b.entries) /\ Cardinality(b.entries) \in Nat
  BY FS_CardinalityType DEF BoardOK, Counted
<1>2. SoftViolations(b) \in Nat
  <2>1. \A S \in SUBSET b.entries : Cardinality(S) \in Nat
    BY <1>1, FS_Subset, FS_CardinalityType
  <2>2. /\ Cardinality({l \in b.entries : IsDayBlockedByRule(l.subject, l.day)}) \in Nat
        /\ Cardinality({l \in b.entries : IsSlotBlockedByRule(l.subject, l.slot)}) \in Nat
    BY <2>1
  <2> QED
    BY <2>2 DEF SoftViolations
<1>3. Cardinality(MissingLessons(b)) \in Nat
  <2>1. IsFiniteSet(ApplicablePairs)
    <3>1. IsFiniteSet(Pairs)
      BY SchoolAssumption, FS_Product DEF Pairs
    <3> QED
      BY <3>1, FS_Subset DEF ApplicablePairs
  <2> DEFINE numbered(p) == {p} \X (1..Missing(b, p))
             all == {numbered(p) : p \in ApplicablePairs}
  <2>2. ASSUME NEW p \in ApplicablePairs PROVE IsFiniteSet(numbered(p))
    <3>1. p \in Pairs /\ WeeklyTarget[p] \in Nat
      BY TargetsNat DEF ApplicablePairs
    <3>2. Cardinality(LessonsOf(b, p)) \in Nat
      BY <1>1, FS_Subset, FS_CardinalityType DEF LessonsOf
    <3>3. Missing(b, p) \in Nat
      BY <3>1, <3>2 DEF Missing, Positive
    <3>4. IsFiniteSet(1..Missing(b, p)) /\ IsFiniteSet({p})
      <4>1. \A n \in Nat : IsFiniteSet(1..n)
        BY FS_Interval
      <4> QED
        BY <3>3, <4>1, FS_Singleton
    <3> QED
      BY <3>4, FS_Product
  <2>3. IsFiniteSet(all)
    <3> HIDE DEF numbered
    <3>1. [p \in ApplicablePairs |-> numbered(p)] \in Surjection(ApplicablePairs, all)
      BY Fun_IsSurj
    <3> QED
      BY <2>1, <3>1, FS_Surjection
  <2>4. \A S \in all : IsFiniteSet(S)
    BY <2>2
  <2>5. IsFiniteSet(UNION all)
    <3> HIDE DEF all
    <3> QED
      BY <2>3, <2>4, FS_UNION
  <2> QED
    BY <2>5, FS_CardinalityType DEF MissingLessons
<1> QED
  BY <1>1, <1>2, <1>3 DEF Objective

(* The local search never makes the timetable worse by its lexicographic   *)
(* objective: a relocation or a swap that runLocalSearch does not take     *)
(* back is better than the best so far, and that is the current board.     *)
THEOREM SearchImproves == Spec => SearchNeverWorsens
<1>1. ASSUME IInv, IInv', BestIsCurrent, [Next]_vars PROVE [NotWorse]_vars
  <2> SUFFICES ASSUME Searching, vars' # vars PROVE ~ Better(Objective(board), Objective(board'))
    BY DEF NotWorse
  <2>1. /\ Objective(board) \in [scheduled : Nat, short : Nat, soft : Nat]
        /\ Objective(board') \in [scheduled : Nat, short : Nat, soft : Nat]
    BY <1>1, ObjectiveTyped DEF IInv
  <2>2. best = Objective(board)
    BY <1>1 DEF BestIsCurrent
  <2>3. \A x, y \in [scheduled : Nat, short : Nat, soft : Nat] : Better(x, y) => ~ Better(y, x)
    BY DEF Better
  <2>4. \A x \in [scheduled : Nat, short : Nat, soft : Nat] : ~ Better(x, x)
    BY DEF Better
  <2>5. CASE GapFill
    <3>1. ~ Better(best, Objective(board'))
      BY <2>5 DEF GapFill
    <3> QED
      BY <2>2, <3>1
  <2>6. CASE Relocate \/ Swap
    <3>1. Better(Objective(board'), best)
      BY <2>6 DEF Relocate, Swap, Accepts
    <3> QED
      BY <2>1, <2>2, <2>3, <3>1
  <2>7. CASE board' = board
    BY <2>1, <2>4, <2>7
  <2>8. GapFill \/ Relocate \/ Swap \/ board' = board
    <3>1. CASE Placing
      BY <3>1 DEF Placing, FixedSlot, FirstPeriod, DailyMin, DoubleBlock, VisitDay, GapVisit, Fill, Searching
    <3>2. CASE Removing
      BY <3>2 DEF Removing, Undo, Strip, Searching
    <3>3. CASE Moving
      BY <3>3 DEF Moving, Distribute, SpreadLesson, Searching
    <3>4. CASE Steering
      BY <3>4 DEF Steering, Searching, StartClassTeacherRules, StartDailyMin, FinishClassTeacherRules, AllocatePair, StartDoublePass, StartVisits, FinishPair, Backtrack, FinishUndo, FinishOrder, StartRepairRound, RepairPair, FinishRepairRound, ClearLock, FinishGap, FinishFill, StartRelocations, StartSwaps, FinishSearchRound, StartPeriodSpread, SpreadPair, Finish
    <3>5. CASE UNCHANGED vars
      BY <3>5 DEF vars
    <3> QED
      BY <1>1, <3>1, <3>2, <3>3, <3>4, <3>5 DEF Next, Returned
  <2> QED
    BY <2>5, <2>6, <2>7, <2>8
<1> QED
  BY <1>1, Invariance, BestTracksBoard, PTL DEF Spec, SearchNeverWorsens
=============================================================================
