---------------------------- MODULE RunValidation ----------------------------
(***************************************************************************)
(* validateTimetableRun (server/services/timetableValidationService.js):   *)
(* what the server says of the lessons of a run.  The findings are pure    *)
(* functions of the school and of the lessons, with the continuity scans   *)
(* of shared/timetableContinuity.js.  A finding keeps its code, its        *)
(* severity and what the automatic fixes read of its context.              *)
(***************************************************************************)
EXTENDS SchoolData

CONSTANTS Relaxed      \* schedulingMode is BEST_FIT or OPTIMAL

Row == [div : Divisions, day : Days, slot : Slots,
        subject : Subjects, teacher : Teachers]

RowPair(r) == <<r.div, r.subject>>
RowCell(r) == <<r.div, r.day, r.slot>>
RowTime(r) == <<r.teacher, r.day, r.slot>>

\* getDivisionLimits: unlike the engine's, never below one, and an unset
\* daily maximum is one; a per-division maximum counts beside a weekly one
ReportedWeekly(p) == AtLeastOne(WeeklyTarget[p])
ReportedPerDay(p) ==
    IF p[1] \in DOMAIN Subject[p[2]].weeklyIn /\ p[1] \in DOMAIN Subject[p[2]].perDayIn
    THEN AtLeastOne(Subject[p[2]].perDayIn[p[1]])
    ELSE AtLeastOne(Subject[p[2]].perDay)

Of(lessons, p) == {r \in lessons : RowPair(r) = p}
On(lessons, day) == {r \in lessons : r.day = day}
By(lessons, t) == {r \in lessons : r.teacher = t}
InHalf(lessons, h) == {r \in lessons : Half(r.slot) = h}

-----------------------------------------------------------------------------
(* Findings.  Each operator returns the context of the findings of one     *)
(* code: the pairs, cells or teachers they are about.                      *)

PeriodsShort(lessons) ==
    {p \in ApplicablePairs : Cardinality(Of(lessons, p)) < ReportedWeekly(p)}

WeeklyOverflow(lessons) ==
    {p \in Pairs : Cardinality(Of(lessons, p)) > ReportedWeekly(p)}

DailyOverflow(lessons) ==
    {c \in Pairs \X Days :
        Cardinality(On(Of(lessons, c[1]), c[2])) > ReportedPerDay(c[1])}

ApplicabilityMismatch(lessons) == {r \in lessons : RowPair(r) \notin ApplicablePairs}

InactiveSlot(lessons) == {r \in lessons : ~ SlotActive(r.slot, r.day)}

IncludeOnlyViolation(lessons) ==
    {r \in lessons : ~ IsPlacementAllowedByIncludeOnly(r.subject, r.div, r.day, r.slot)}

WeeklyOverload(lessons) ==
    {t \in Teachers : Cardinality(By(lessons, t)) > WeeklyCapacity[t]}

DailyOverload(lessons) ==
    {c \in Teachers \X Days :
        \/ Cardinality(On(By(lessons, c[1]), c[2])) > DailyCapacity[c[1]]
        \/ \E h \in Halves :
             Cardinality(InHalf(On(By(lessons, c[1]), c[2]), h)) > SessionCapacity[<<c[1], h>>]}

HasHeadroom(lessons, t, day, n) ==
    /\ \A r \in lessons : RowTime(r) # <<t, day, n>>
    /\ <<t, day, n>> \notin FreePeriodRules
    /\ Cardinality(On(By(lessons, t), day)) < DailyCapacity[t]
    /\ Cardinality(By(lessons, t)) < WeeklyCapacity[t]
    /\ Cardinality(InHalf(On(By(lessons, t), day), Half(n))) < SessionCapacity[<<t, Half(n)>>]

\* CLASS_FREE_WITH_TEACHER_HEADROOM
FreeWithHeadroom(lessons) ==
    {c \in Divisions \X Days \X LessonSlots :
        /\ SlotActive(c[3], c[2]) /\ \A r \in lessons : RowCell(r) # c
        /\ \E p \in PeriodsShort(lessons) :
             p[1] = c[1] /\ \E t \in CandidateTeachers(p) : HasHeadroom(lessons, t, c[2], c[3])}

-----------------------------------------------------------------------------
(* Continuity: the lesson slots lo..hi of a class on a day form a run of a *)
(* teacher when the teacher has them all.                                  *)

Taught(lessons, t, d, day, n) == \E r \in lessons : RowCell(r) = <<d, day, n>> /\ r.teacher = t

Between(lo, hi) == {n \in LessonSlots : lo <= n /\ n <= hi}

IsRun(lessons, t, d, day, lo, hi) ==
    \A n \in Between(lo, hi) : Taught(lessons, t, d, day, n)

LongRun(lessons) ==
    {r \in lessons :
        r.slot \in LessonSlots /\ \E lo \in LessonSlots :
            /\ lo <= r.slot /\ IsRun(lessons, r.teacher, r.div, r.day, lo, r.slot)
            /\ Cardinality(Between(lo, r.slot)) > AtLeastOne(Teacher[r.teacher].maxAny)}

HasNeighbours(lessons, t, d, day) ==
    \E m, n \in LessonSlots :
        Consecutive(m, n) /\ Taught(lessons, t, d, day, m) /\ Taught(lessons, t, d, day, n)

CrossDivision(lessons) ==
    {c \in Teachers \X Days :
        Cardinality({d \in Divisions : HasNeighbours(lessons, c[1], d, c[2])}) > 1}

\* SOFT_RULE_VIOLATION
RelaxedRule(lessons) ==
    {r \in lessons : Relaxed /\ \/ IsDayBlockedByRule(r.subject, r.day)
                                \/ IsSlotBlockedByRule(r.subject, r.slot)}

-----------------------------------------------------------------------------
(* The findings of severity ERROR; the others are warnings. *)
HasErrors(lessons) ==
    \/ WeeklyOverflow(lessons) # {} \/ DailyOverflow(lessons) # {}
    \/ ApplicabilityMismatch(lessons) # {} \/ InactiveSlot(lessons) # {}
    \/ IncludeOnlyViolation(lessons) # {}
    \/ WeeklyOverload(lessons) # {} \/ DailyOverload(lessons) # {}

HasWarnings(lessons) ==
    \/ PeriodsShort(lessons) # {} \/ FreeWithHeadroom(lessons) # {}
    \/ LongRun(lessons) # {} \/ CrossDivision(lessons) # {} \/ RelaxedRule(lessons) # {}
=============================================================================
