----------------------------- MODULE SchoolData -----------------------------
(***************************************************************************)
(* The school a timetable is generated for, and the helper functions the   *)
(* legacy engine (server/engine.js) derives from it.  Everything here is   *)
(* constant during a generation: the records of the tenant state become    *)
(* CONSTANTS, the helpers become constant operators.                       *)
(*                                                                         *)
(* Names, ids and labels are elements of the basic sets.  Working days are *)
(* 1..NumDays, Monday first, the order normalizeTenantSchoolOrdering puts  *)
(* them in.  Period rows are their slot numbers.                           *)
(***************************************************************************)
EXTENDS Integers, Sequences, FiniteSets, FiniteSetsExt

CONSTANTS
    Divisions, Teachers, Subjects,
    NumDays,            \* number of working days
    Slots,              \* slot numbers of the period rows
    SlotType,           \* Slots -> "LESSON" | "BREAK" | "LUNCH"
    ActiveDays,         \* Slots -> days on which the row runs
    Division,           \* Divisions -> [standard, medium]
    Subject,            \* Subjects -> record, see below
    Teacher,            \* Teachers -> record, see below
    TeacherSubjects,    \* explicit rows <<teacher, subject, division or AnyDivision>>
    AnyDivision,        \* the missing divisionId of such a row
    PersistedLocks,     \* set of [pair, teacher, team] (divisionSubjectTeacherLocks)
    FreePeriodRules,    \* set of <<teacher, day, slot>>
    Rules               \* set of active scheduling rules, see below

Days == 1..NumDays
Cells == Divisions \X Days \X Slots
Pairs == Divisions \X Subjects
Halves == {"morning", "evening"}

ASSUME SchoolAssumption ==
    /\ NumDays \in Nat \ {0}
    /\ Slots \subseteq Nat \ {0}
    /\ IsFiniteSet(Slots) /\ IsFiniteSet(Divisions) /\ IsFiniteSet(Teachers) /\ IsFiniteSet(Subjects)
    /\ PersistedLocks \subseteq [pair : Pairs, teacher : Teachers, team : BOOLEAN]
    /\ TeacherSubjects \subseteq Teachers \X Subjects \X (Divisions \cup {AnyDivision})
    /\ AnyDivision \notin Divisions
    /\ \A t \in Teachers : /\ Teacher[t].homeroom \in Divisions \cup {AnyDivision}
                           /\ Teacher[t].maxSame \in Nat /\ Teacher[t].maxAny \in Nat
                           /\ Teacher[t].perDay \in Nat /\ Teacher[t].perWeek \in Nat
                           /\ Teacher[t].freeMorning \in Nat /\ Teacher[t].freeEvening \in Nat
    /\ \A s \in Subjects : /\ Subject[s].weekly \in Nat /\ Subject[s].perDay \in Nat
                           /\ \A d \in DOMAIN Subject[s].weeklyIn : Subject[s].weeklyIn[d] \in Nat
                           /\ \A d \in DOMAIN Subject[s].perDayIn : Subject[s].perDayIn[d] \in Nat

(* A subject record has the fields standards and mediums (the scope),      *)
(* include and exclude (divisionIncludeIds and divisionExcludeIds), weekly *)
(* and perDay (weeklyPeriods and maxPerDay, 0 when unset), weeklyIn and    *)
(* perDayIn (the per-division overrides of divisionLimits and the older    *)
(* subjectAllocations: functions on some of the divisions), double         *)
(* (requiresDoublePeriod) and team (allowTeamTeaching).                    *)

-----------------------------------------------------------------------------
(* Slot metadata *)

LessonSlots == {n \in Slots : SlotType[n] = "LESSON"}

\* slotActiveOnWeekday: an empty list means every day
SlotActive(n, day) == ActiveDays[n] = {} \/ day \in ActiveDays[n]

\* the boundaries of the day; 0, no row, stands for one that is missing
FirstMorning == IF LessonSlots = {} THEN 0 ELSE Min(LessonSlots)
LastLesson == IF LessonSlots = {} THEN 0 ELSE Max(LessonSlots)

\* the first lesson after the last lunch row
FirstAfterLunch ==
    LET lunch == {n \in Slots : SlotType[n] = "LUNCH"}
        after == {n \in LessonSlots : \A m \in lunch : n > m}
    IN  IF lunch = {} \/ after = {} THEN 0 ELSE Min(after)

MorningSlots ==
    IF FirstAfterLunch # 0
    THEN {n \in LessonSlots : n < FirstAfterLunch}
    ELSE {n \in LessonSlots : 2 * n <= Cardinality(LessonSlots) + 1}

Half(n) == IF n \in MorningSlots THEN "morning" ELSE "evening"

\* m and n are neighbours in the list of lesson slots: a break between them
\* does not separate them
Consecutive(m, n) ==
    /\ m \in LessonSlots /\ n \in LessonSlots /\ m < n
    /\ ~ \E k \in LessonSlots : m < k /\ k < n

-----------------------------------------------------------------------------
(* Scheduling rules.  A rule is a record with the fields kind, subject and *)
(*   EXCLUDE_DAY  : days                                                   *)
(*   EXCLUDE_SLOT : targets (of TargetSlot), slots                         *)
(*   INCLUDE_ONLY : divisions, mode; weekday (PRESET_LAST_LESSON) or       *)
(*                  cells, a set of <<day, slot>> (CUSTOM)                 *)
(* The older NOT_FIRST_MORNING, NOT_FIRST_AFTER_LUNCH, BOTH_BOUNDARY and   *)
(* slotPreset spellings are EXCLUDE_SLOT rules with the same targets, and  *)
(* a rule with isActive = false is not in Rules.                           *)

RulesOf(kind, s) == {r \in Rules : r.kind = kind /\ r.subject = s}

TargetSlot(name) ==
    CASE name = "FIRST_MORNING" -> FirstMorning
      [] name = "FIRST_AFTER_LUNCH" -> FirstAfterLunch
      [] name = "LAST_LESSON" -> LastLesson

IsSlotBlockedByRule(s, n) ==
    \E r \in RulesOf("EXCLUDE_SLOT", s) :
        n \in r.slots \/ \E name \in r.targets : n = TargetSlot(name)

IsDayBlockedByRule(s, day) ==
    \E r \in RulesOf("EXCLUDE_DAY", s) : day \in r.days

CellMatchesIncludeOnlyRule(r, day, n) ==
    /\ SlotActive(n, day)
    /\ \/ r.mode = "CUSTOM" /\ <<day, n>> \in r.cells
       \/ r.mode = "PRESET_LAST_LESSON" /\ day = r.weekday /\ n = LastLesson

IsPlacementAllowedByIncludeOnly(s, d, day, n) ==
    \A r \in RulesOf("INCLUDE_ONLY", s) :
        d \in r.divisions => CellMatchesIncludeOnlyRule(r, day, n)

-----------------------------------------------------------------------------
(* Who may teach what where.  A teacher record has the fields              *)
(*   assigned (divisions, {} = all), mediums, subjects, excluded (a set of *)
(*   <<division, subject>>), perDay, perWeek (0 = unset), freeMorning,     *)
(*   freeEvening, maxSame and maxAny (the default where unset), primary    *)
(*   (subject or NoSubject) and homeroom (the class teacher's division or  *)
(*   AnyDivision).                                                         *)

SubjectAppliesToDivision(s, d) ==
    /\ Division[d].standard \in Subject[s].standards
    /\ Division[d].medium \in Subject[s].mediums
    /\ IF Subject[s].include # {} THEN d \in Subject[s].include
                                  ELSE d \notin Subject[s].exclude

ApplicablePairs == {p \in Pairs : SubjectAppliesToDivision(p[2], p[1])}

\* getDivisionSubjectLimits
WeeklyTarget ==
    [p \in Pairs |-> IF p[1] \in DOMAIN Subject[p[2]].weeklyIn
                     THEN Subject[p[2]].weeklyIn[p[1]]
                     ELSE Subject[p[2]].weekly]
MaxPerDay ==
    [p \in Pairs |->
        LET limit == IF p[1] \in DOMAIN Subject[p[2]].perDayIn
                     THEN Subject[p[2]].perDayIn[p[1]]
                     ELSE Subject[p[2]].perDay
        IN  IF limit = 0 THEN 2 ELSE limit]

TeacherAllowedInDivision(t, d) ==
    Teacher[t].assigned = {} \/ d \in Teacher[t].assigned

TeacherSubjectAllowedInDivision(t, s, d) == <<d, s>> \notin Teacher[t].excluded

\* the teachers of the explicit teacherSubjects rows for the pair
ExplicitTeachers(p) ==
    {t \in Teachers : \E d \in {p[1], AnyDivision} : <<t, p[2], d>> \in TeacherSubjects}

\* teachers qualified through their own subject list: the candidates of a
\* pass that ignores soft rules
QualifiedTeachers(p) ==
    {t \in Teachers : /\ p[2] \in Teacher[t].subjects
                      /\ Division[p[1]].medium \in Teacher[t].mediums
                      /\ TeacherAllowedInDivision(t, p[1])
                      /\ TeacherSubjectAllowedInDivision(t, p[2], p[1])}

\* the candidates of findEligibleTeacher before locks: explicit rows, when
\* there are any, replace the subject lists
CandidateTeachers(p) ==
    IF ExplicitTeachers(p) = {} THEN QualifiedTeachers(p)
    ELSE {t \in ExplicitTeachers(p) :
            /\ Division[p[1]].medium \in Teacher[t].mediums
            /\ TeacherAllowedInDivision(t, p[1])
            /\ TeacherSubjectAllowedInDivision(t, p[2], p[1])}

IsTeamTeachingAllowed(p) ==
    \/ Subject[p[2]].team
    \/ \E l \in PersistedLocks : l.pair = p /\ l.team
    \/ Cardinality(ExplicitTeachers(p)) > 1

MaxTeachersForPair == [p \in Pairs |-> IF IsTeamTeachingAllowed(p) THEN 2 ELSE 1]

\* seedPersistedDivisionSubjectTeacherLocks, then seedExplicitSingletonLocks
\* where nothing is persisted
SeededLocks ==
    [p \in Pairs |->
        LET persisted == {l.teacher : l \in {k \in PersistedLocks : k.pair = p}}
        IN  IF p \notin ApplicablePairs THEN {}
            ELSE IF persisted # {} THEN persisted
            ELSE IF Cardinality(ExplicitTeachers(p)) = 1 THEN ExplicitTeachers(p)
            ELSE {}]

-----------------------------------------------------------------------------
(* getTeacherCapacity *)

Positive(n) == IF n > 0 THEN n ELSE 0
AtLeastOne(n) == IF n > 1 THEN n ELSE 1
AtMost(limit, n) == IF limit > 0 /\ limit < n THEN limit ELSE n

SessionCapacity ==
    [k \in Teachers \X Halves |->
        IF k[2] = "morning"
        THEN Positive(Cardinality(MorningSlots) - Teacher[k[1]].freeMorning)
        ELSE Positive(Cardinality(LessonSlots \ MorningSlots) - Teacher[k[1]].freeEvening)]

DerivedDaily(t) == SessionCapacity[<<t, "morning">>] + SessionCapacity[<<t, "evening">>]

DailyCapacity == [t \in Teachers |-> AtMost(Teacher[t].perDay, DerivedDaily(t))]

WeeklyCapacity ==
    [t \in Teachers |->
        LET derived == DerivedDaily(t) * NumDays
        IN  AtMost(Teacher[t].perWeek, IF derived > 30 THEN derived ELSE 30)]
=============================================================================
