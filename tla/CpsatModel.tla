----------------------------- MODULE CpsatModel -----------------------------
(***************************************************************************)
(* The constraint program of the CP-SAT sidecar (solver/cpsat/service.py): *)
(* solve_request as the set of answers it can give.  OR-Tools searches; a  *)
(* search that may stop at any feasible solution, or without one, is a     *)
(* choice among the feasible assignments.  The service restates the rules  *)
(* of the school in Python; where it says the same as the engine, the      *)
(* operator of SchoolData is used.                                         *)
(*                                                                         *)
(* A unit <<pair, k>> is the k-th lesson a class still needs of a subject; *)
(* an assignment gives each unit a teacher, a day and a slot, or leaves it *)
(* Unplaced.                                                               *)
(***************************************************************************)
EXTENDS RunValidation, SequencesExt

CONSTANTS
    TeacherOrder,      \* the teachers sorted by id
    FixedLists,        \* the lists of fixed slots a request may carry
    Unplaced

\* a fixed slot is a record [pair, day, slot]
ASSUME CpsatAssumption ==
    /\ TeacherOrder \in Seq(Teachers)
    /\ FixedLists \subseteq Seq([pair : Pairs, day : Days, slot : LessonSlots])

Keys == Teachers \X Days \X LessonSlots
UnitCell(p, key) == <<p[1], key[2], key[3]>>
MakeRow(p, key) ==
    [div |-> p[1], subject |-> p[2], teacher |-> key[1], day |-> key[2], slot |-> key[3]]

-----------------------------------------------------------------------------
(* Where one lesson may go *)

\* INCLUDE_ONLY always, EXCLUDE_DAY and EXCLUDE_SLOT unless soft rules are
\* ignored
PlacementAllowed(p, day, n) ==
    /\ IsPlacementAllowedByIncludeOnly(p[2], p[1], day, n)
    /\ Relaxed \/ ~ (IsDayBlockedByRule(p[2], day) \/ IsSlotBlockedByRule(p[2], n))

\* _eligible_teachers and _free_period_block
MayTeach(p, t, day, n) == t \in CandidateTeachers(p) /\ <<t, day, n>> \notin FreePeriodRules

\* _allowed_time_keys_for_unit
AllowedKeys(p) ==
    {k \in Keys : /\ MayTeach(p, k[1], k[2], k[3])
                  /\ SlotActive(k[3], k[2]) /\ PlacementAllowed(p, k[2], k[3])}

-----------------------------------------------------------------------------
(* Fixed slots: each takes the first teacher in the order of their ids who *)
(* may teach it, whether or not that teacher is already busy, and is passed *)
(* over when there is none or when an earlier one has its cell.            *)

MayFix(f, t) == MayTeach(f.pair, t, f.day, f.slot) /\ PlacementAllowed(f.pair, f.day, f.slot)

FixedTeacher(f) ==
    TeacherOrder[Min({i \in DOMAIN TeacherOrder : MayFix(f, TeacherOrder[i])})]

CanFix(f) ==
    /\ f.pair \in ApplicablePairs /\ SlotActive(f.slot, f.day)
    /\ \E i \in DOMAIN TeacherOrder : MayFix(f, TeacherOrder[i])

FixedCell(f) == <<f.pair[1], f.day, f.slot>>

FixedRow(f) == MakeRow(f.pair, <<FixedTeacher(f), f.day, f.slot>>)

FixedRows(fs) ==
    {FixedRow(fs[i]) : i \in
        {j \in DOMAIN fs : /\ CanFix(fs[j])
                          /\ \A k \in DOMAIN fs : k < j /\ CanFix(fs[k]) => FixedCell(fs[k]) # FixedCell(fs[j])}}

Units(fixed) ==
    UNION {{<<p, k>> : k \in 1..(WeeklyTarget[p] - Cardinality(Of(fixed, p)))} : p \in ApplicablePairs}

Domain(fixed, p) ==
    {k \in AllowedKeys(p) :
        \A r \in fixed : RowCell(r) # UnitCell(p, k) /\ RowTime(r) # k}

Placeable(fixed) == {u \in Units(fixed) : Domain(fixed, u[1]) # {}}

\* the early answers TEACHER_CAPACITY_FIXED_CONFLICT and
\* SUBJECT_MAX_PER_DAY_FIXED_CONFLICT
FixedConflict(fixed) ==
    \/ WeeklyOverload(fixed) # {} \/ DailyOverload(fixed) # {}
    \/ \E p \in ApplicablePairs, day \in Days : Cardinality(On(Of(fixed, p), day)) > MaxPerDay[p]

-----------------------------------------------------------------------------
(* Faulty variants of the definitions below. *)

\* only the lessons of one class are kept apart
TeachersDistinctInClass(a, placed) ==
    \A u, v \in placed : u # v /\ u[1][1] = v[1][1] => a[u] # a[v]

-----------------------------------------------------------------------------
(* The constraints, over an assignment a and its placed units.             *)

\* the units of a pair share the teacher of its first unit, when both are
\* placed
OneTeacherPerPair(a, placed) ==
    \A u \in placed : <<u[1], 1>> \in placed => a[u][1] = a[<<u[1], 1>>][1]

ClassesDistinct(a, placed) ==
    \A u, v \in placed : u # v => UnitCell(u[1], a[u]) # UnitCell(v[1], a[v])

TeachersDistinct(a, placed) == \A u, v \in placed : u # v => a[u] # a[v]

\* maxPerDay, less what the fixed rows use
SubjectDaysHold(rows) ==
    \A p \in ApplicablePairs, day \in Days : Cardinality(On(Of(rows, p), day)) <= MaxPerDay[p]

CapacitiesHold(rows) == WeeklyOverload(rows) = {} /\ DailyOverload(rows) = {}

\* windows of consecutive lesson slots, for the classes that have units to
\* place and, for the same-subject cap, the subjects they have units of
Window(lo, size) == {W \in {Between(lo, hi) : hi \in LessonSlots} : Cardinality(W) = size}

ContinuityHolds(rows, units) ==
    \A t \in Teachers, u \in units, day \in Days, lo \in LessonSlots :
        /\ \A W \in Window(lo, AtLeastOne(Teacher[t].maxAny) + 1) :
             \E n \in W : ~ Taught(rows, t, u[1][1], day, n)
        /\ \A W \in Window(lo, AtLeastOne(Teacher[t].maxSame) + 1) :
             \E n \in W : ~ Taught(Of(rows, u[1]), t, u[1][1], day, n)

\* a teacher has adjacent lessons in one class a day at most, among the
\* classes that have units to place
CrossDivisionHolds(rows, units) ==
    \A t \in Teachers, day \in Days :
        Cardinality({d \in {u[1][1] : u \in units} : HasNeighbours(rows, t, d, day)}) <= 1

Satisfies(a, fixed, units) ==
    LET placed == {u \in units : a[u] # Unplaced}
        rows == fixed \cup {MakeRow(u[1], a[u]) : u \in placed}
    IN  /\ OneTeacherPerPair(a, placed)
        /\ ClassesDistinct(a, placed) /\ TeachersDistinct(a, placed)
        /\ SubjectDaysHold(rows) /\ CapacitiesHold(rows)
        /\ ContinuityHolds(rows, units) /\ CrossDivisionHolds(rows, units)

Assignments(fixed, units) ==
    {a \in [units -> Keys \cup {Unplaced}] :
        \A u \in units : a[u] \in Domain(fixed, u[1]) \cup {Unplaced}}

-----------------------------------------------------------------------------
(* solve_request.  An answer is a record [status, rows].                   *)

Answer(status, rows) == [status |-> status, rows |-> rows]

\* the rows of the solutions of the program, fixed rows included
Solutions(fixed, units) ==
    {fixed \cup {MakeRow(u[1], a[u]) : u \in {v \in units : a[v] # Unplaced}} :
        a \in {b \in Assignments(fixed, units) : Satisfies(b, fixed, units)}}

Solve(fixed) ==
    LET units == Placeable(fixed)
        complete(rows) == \A p \in ApplicablePairs : Cardinality(Of(rows, p)) >= WeeklyTarget[p]
    IN  IF Units(fixed) = {} THEN {Answer("FEASIBLE", fixed)}
        ELSE IF FixedConflict(fixed) THEN {Answer("INFEASIBLE", {})}
        ELSE IF units = {} THEN {Answer("PARTIAL", fixed)}
        ELSE {Answer("INFEASIBLE", {})}
             \cup {Answer(IF complete(rows) THEN "FEASIBLE" ELSE "PARTIAL", rows) :
                      rows \in Solutions(fixed, units)}

\* the answers to each list of fixed slots
AnswersOf == {<<fs, Solve(FixedRows(fs))>> : fs \in FixedLists}
Answers(fs) == (CHOOSE x \in AnswersOf : x[1] = fs)[2]
=============================================================================
