------------------------------ MODULE Placement ------------------------------
(***************************************************************************)
(* The placement state of one run of the legacy engine and its two         *)
(* primitive updates, placeEntry and removeLessonFromMapsAndEntry, with    *)
(* the test canPlaceAssignment that guards every placement.                *)
(*                                                                         *)
(* The engine keeps the lessons in an array and, beside it, nine maps that *)
(* index and count them; a board is the record of all of them.  The        *)
(* operators take a board and return a board, so that a pass which removes *)
(* a lesson and places it elsewhere is one expression.                     *)
(***************************************************************************)
EXTENDS SchoolData, SequencesExt

CONSTANTS NoLesson, NoDivision   \* absent entries of the two slot maps

Lesson == [div : Divisions, day : Days, slot : Slots,
           subject : Subjects, teacher : Teachers]

ASSUME AbsentAssumption == NoLesson \notin Lesson /\ NoDivision \notin Divisions

\* the keys dSlotKey, tSlotKey, tDayKey, subWKey and subDKey
CellOf(l) == <<l.div, l.day, l.slot>>
TimeOf(l) == <<l.teacher, l.day, l.slot>>
TeacherDay(l) == <<l.teacher, l.day>>
PairOf(l) == <<l.div, l.subject>>
PairDay(l) == <<l.div, l.subject, l.day>>
TeacherHalf(l) == <<l.teacher, l.day, Half(l.slot)>>

Board ==
    [entries : SUBSET Lesson,                                  \* entries
     cell    : [Cells -> Lesson \cup {NoLesson}],              \* divisionSlotMap
     busy    : [Teachers \X Days \X Slots -> Divisions \cup {NoDivision}],
                                                               \* teacherSlotMap
     daily   : [Teachers \X Days -> Nat],                      \* teacherDailyCount
     session : [Teachers \X Days \X Halves -> Nat],            \* teacherMorning/EveningCount
     weekly  : [Teachers -> Nat],                              \* teacherWeeklyCount
     subWeek : [Pairs -> Nat],                                 \* subjectWeeklyCount
     subDay  : [Divisions \X Subjects \X Days -> Nat],         \* subjectDailyCount
     lock    : [Pairs -> SUBSET Teachers],                     \* divisionSubjectTeacherLock
     pinned  : SUBSET Cells,                                   \* pinnedCells
     stack   : Seq([lesson : Lesson, pinned : BOOLEAN])]       \* placementStack

EmptyBoard ==
    [entries |-> {},
     cell    |-> [c \in Cells |-> NoLesson],
     busy    |-> [k \in Teachers \X Days \X Slots |-> NoDivision],
     daily   |-> [k \in Teachers \X Days |-> 0],
     session |-> [k \in Teachers \X Days \X Halves |-> 0],
     weekly  |-> [t \in Teachers |-> 0],
     subWeek |-> [p \in Pairs |-> 0],
     subDay  |-> [k \in Divisions \X Subjects \X Days |-> 0],
     lock    |-> SeededLocks,
     pinned  |-> {},
     stack   |-> <<>>]

-----------------------------------------------------------------------------
(* Faulty variants of the definitions below, one for each property: with a *)
(* variant in place of the original, the property must fail.               *)

\* a teacher's other classes are not asked for
CanAssignTeacherTwice(b, l) ==
    b.daily[TeacherDay(l)] < DailyCapacity[l.teacher] /\ b.weekly[l.teacher] < WeeklyCapacity[l.teacher]

\* the capacities are not asked for
CanAssignTeacherAlways(b, l) == b.busy[TimeOf(l)] = NoDivision

\* only the lesson before the slot counts as a neighbour
CreatesContinuityBehind(b, l) ==
    \E m \in LessonSlots :
        /\ Consecutive(m, l.slot)
        /\ \E k \in b.entries : CellOf(k) = <<l.div, l.day, m>> /\ k.teacher = l.teacher

\* the daily limit is tested with <= (off by one)
LimitsAllowOneMore(b, l) ==
    /\ b.subWeek[PairOf(l)] < WeeklyTarget[PairOf(l)]
    /\ b.subDay[PairDay(l)] <= MaxPerDay[PairOf(l)]

\* the teacher's slot is not freed
RemoveLessonFromClass(b, l) ==
    [b EXCEPT !.entries = @ \ {l}, !.cell[CellOf(l)] = NoLesson,
              !.weekly[l.teacher] = Positive(@ - 1), !.subWeek[PairOf(l)] = Positive(@ - 1)]

\* the counters are not reduced
RemoveLessonUncounted(b, l) ==
    [b EXCEPT !.entries = @ \ {l}, !.cell[CellOf(l)] = NoLesson,
              !.busy[TimeOf(l)] = NoDivision]

\* the latest placement is taken whether or not it is pinned
IsLast(b, i) == i = Len(b.stack)

\* pins are not asked for
AllEntries(b) == b.entries

-----------------------------------------------------------------------------
(* canPlaceAssignment *)

TaughtBy(b, t, d, day, n) ==
    b.cell[<<d, day, n>>] # NoLesson /\ b.cell[<<d, day, n>>].teacher = t

\* canAssignTeacherForSlot
CanAssignTeacher(b, l) ==
    /\ b.busy[TimeOf(l)] = NoDivision
    /\ TimeOf(l) \notin FreePeriodRules
    /\ b.daily[TeacherDay(l)] < DailyCapacity[l.teacher]
    /\ b.session[TeacherHalf(l)] < SessionCapacity[<<l.teacher, Half(l.slot)>>]
    /\ b.weekly[l.teacher] < WeeklyCapacity[l.teacher]

(* violatesContinuityLimits scans back from the slot over the lessons the  *)
(* teacher already has there.  It stops at the first cell that is not the  *)
(* teacher's, and also at the first change of subject after a lesson of    *)
(* the same subject; Behind is the set of slots it counts.  It never looks *)
(* at the slots that follow.                                               *)
Behind(b, l) ==
    {n \in LessonSlots :
        /\ n < l.slot
        /\ \A m \in LessonSlots :
              n <= m /\ m < l.slot => TaughtBy(b, l.teacher, l.div, l.day, m)
        /\ \A m, k \in LessonSlots :
              n < k /\ k < m /\ m < l.slot
              /\ b.cell[<<l.div, l.day, m>>].subject = l.subject
              => b.cell[<<l.div, l.day, k>>].subject = l.subject}

ViolatesContinuityLimits(b, l) ==
    LET same == {n \in Behind(b, l) : b.cell[<<l.div, l.day, n>>].subject = l.subject}
    IN  \/ Cardinality(Behind(b, l)) + 1 > AtLeastOne(Teacher[l.teacher].maxAny)
        \/ Cardinality(same) + 1 > AtLeastOne(Teacher[l.teacher].maxSame)

HasContinuity(b, t, d, day) ==
    \E m, n \in LessonSlots :
        Consecutive(m, n) /\ TaughtBy(b, t, d, day, m) /\ TaughtBy(b, t, d, day, n)

CreatesContinuity(b, l) ==
    \E m \in LessonSlots :
        /\ Consecutive(m, l.slot) \/ Consecutive(l.slot, m)
        /\ TaughtBy(b, l.teacher, l.div, l.day, m)

ViolatesSingleClassContinuity(b, l) ==
    /\ CreatesContinuity(b, l)
    /\ \E d \in Divisions \ {l.div} : HasContinuity(b, l.teacher, d, l.day)

SoftAllowed(l) ==
    ~ IsDayBlockedByRule(l.subject, l.day) /\ ~ IsSlotBlockedByRule(l.subject, l.slot)

LimitsAllow(b, l) ==
    /\ b.subWeek[PairOf(l)] < WeeklyTarget[PairOf(l)]
    /\ b.subDay[PairDay(l)] < MaxPerDay[PairOf(l)]

LockAllows(b, l) ==
    LET locked == b.lock[PairOf(l)]
    IN  l.teacher \in locked \/ Cardinality(locked) < MaxTeachersForPair[PairOf(l)]

CanPlace(b, l, ignoreSoft) ==
    /\ TeacherAllowedInDivision(l.teacher, l.div)
    /\ b.cell[CellOf(l)] = NoLesson
    /\ l.slot \in LessonSlots /\ SlotActive(l.slot, l.day)
    /\ ignoreSoft \/ SoftAllowed(l)
    /\ IsPlacementAllowedByIncludeOnly(l.subject, l.div, l.day, l.slot)
    /\ LimitsAllow(b, l)
    /\ LockAllows(b, l)
    /\ CanAssignTeacher(b, l)
    /\ ~ ViolatesContinuityLimits(b, l)
    /\ ~ ViolatesSingleClassContinuity(b, l)

-----------------------------------------------------------------------------
(* placeEntry and removeLessonFromMapsAndEntry *)

PlaceLesson(b, l, pin, track) ==
    [entries |-> b.entries \cup {l},
     cell    |-> [b.cell EXCEPT ![CellOf(l)] = l],
     busy    |-> [b.busy EXCEPT ![TimeOf(l)] = l.div],
     daily   |-> [b.daily EXCEPT ![TeacherDay(l)] = @ + 1],
     session |-> [b.session EXCEPT ![TeacherHalf(l)] = @ + 1],
     weekly  |-> [b.weekly EXCEPT ![l.teacher] = @ + 1],
     subWeek |-> [b.subWeek EXCEPT ![PairOf(l)] = @ + 1],
     subDay  |-> [b.subDay EXCEPT ![PairDay(l)] = @ + 1],
     lock    |-> [b.lock EXCEPT ![PairOf(l)] = @ \cup {l.teacher}],
     pinned  |-> IF pin THEN b.pinned \cup {CellOf(l)} ELSE b.pinned,
     stack   |-> IF track THEN Append(b.stack, [lesson |-> l, pinned |-> pin])
                          ELSE b.stack]

\* the lock survives the last lesson of its pair
RemoveLesson(b, l) ==
    [entries |-> b.entries \ {l},
     cell    |-> [b.cell EXCEPT ![CellOf(l)] = NoLesson],
     busy    |-> [b.busy EXCEPT ![TimeOf(l)] = NoDivision],
     daily   |-> [b.daily EXCEPT ![TeacherDay(l)] = Positive(@ - 1)],
     session |-> [b.session EXCEPT ![TeacherHalf(l)] = Positive(@ - 1)],
     weekly  |-> [b.weekly EXCEPT ![l.teacher] = Positive(@ - 1)],
     subWeek |-> [b.subWeek EXCEPT ![PairOf(l)] = Positive(@ - 1)],
     subDay  |-> [b.subDay EXCEPT ![PairDay(l)] = Positive(@ - 1)],
     lock    |-> b.lock,
     pinned  |-> b.pinned,
     stack   |-> b.stack]

\* entry i of the stack is the latest placement that is not pinned
IsLastUnpinned(b, i) ==
    /\ ~ b.stack[i].pinned
    /\ \A j \in DOMAIN b.stack : j > i => b.stack[j].pinned

(* The two slot maps index exactly the lessons of the entries array.       *)
IndexesEntries(b) ==
    /\ \A l \in b.entries : b.cell[CellOf(l)] = l /\ b.busy[TimeOf(l)] = l.div
    /\ \A c \in Cells :
          b.cell[c] # NoLesson => b.cell[c] \in b.entries /\ CellOf(b.cell[c]) = c
    /\ \A k \in Teachers \X Days \X Slots :
          b.busy[k] # NoDivision => \E l \in b.entries : TimeOf(l) = k

(* Every counter holds the number of the lessons with its key.             *)
CountsEntries(b) ==
    LET count(key(_), k) == Cardinality({l \in b.entries : key(l) = k})
    IN  /\ \A k \in DOMAIN b.daily : b.daily[k] = count(TeacherDay, k)
        /\ \A k \in DOMAIN b.session : b.session[k] = count(TeacherHalf, k)
        /\ \A t \in Teachers : b.weekly[t] = count(LAMBDA l : l.teacher, t)
        /\ \A p \in Pairs : b.subWeek[p] = count(PairOf, p)
        /\ \A k \in DOMAIN b.subDay : b.subDay[k] = count(PairDay, k)

-----------------------------------------------------------------------------
(* The lessons a pass may place *)

LessonAt(p, day, n, t) ==
    [div |-> p[1], day |-> day, slot |-> n, subject |-> p[2], teacher |-> t]

(* findEligibleTeacher returns the first teacher, in an order of loads and *)
(* ids, that passes the test: here any teacher that passes it.             *)
Eligible(b, p, day, n) ==
    {t \in CandidateTeachers(p) :
        /\ Cardinality(b.lock[p]) >= MaxTeachersForPair[p] => t \in b.lock[p]
        /\ CanPlace(b, LessonAt(p, day, n, t), FALSE)}

\* the teacher loop of a pass that ignores soft rules
EligibleSoft(b, p, day, n) ==
    {t \in QualifiedTeachers(p) : CanPlace(b, LessonAt(p, day, n, t), TRUE)}

Placeable(b, p, day, soft) ==
    UNION {{LessonAt(p, day, n, t) :
                t \in IF soft THEN EligibleSoft(b, p, day, n) ELSE Eligible(b, p, day, n)} :
           n \in LessonSlots}

PlaceableAnyDay(b, p, soft) == UNION {Placeable(b, p, day, soft) : day \in Days}

Short(b, p) == b.subWeek[p] < WeeklyTarget[p]
Shortages(b) == {p \in ApplicablePairs : Short(b, p)}

LessonsOf(b, p) == {l \in b.entries : PairOf(l) = p}
IsPinned(b, l) == CellOf(l) \in b.pinned
Unpinned(b) == {l \in b.entries : ~ IsPinned(b, l)}
=============================================================================
