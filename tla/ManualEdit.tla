----------------------------- MODULE ManualEdit -----------------------------
(***************************************************************************)
(* What a manual edit of a timetable may do                                *)
(* (shared/timetablePlacementValidator.js), the plans that make room for a *)
(* lesson (shared/timetableRepairSuggestions.js), and what the server and  *)
(* the automatic fixes do with the lessons of a board                      *)
(* (server/services/timetableManualEditService.js,                         *)
(* timetableAutoFixService.js).                                            *)
(*                                                                         *)
(* A board is a set of lessons (Row of RunValidation).  The entries array  *)
(* holds one entry for every cell of Grid, free when no lesson is there.   *)
(***************************************************************************)
EXTENDS RunValidation

Grid == {c \in Divisions \X Days \X LessonSlots : SlotActive(c[3], c[2])}

IsFree(board, c) == \A r \in board : RowCell(r) # c

\* findEntryAt on a cell that is not free
LessonAt(board, c) == CHOOSE r \in board : RowCell(r) = c

PutAt(r, c) == [r EXCEPT !.div = c[1], !.day = c[2], !.slot = c[3]]

Without(board, cells) == {r \in board : RowCell(r) \notin cells}

TaughtIn(board, c) == {r.teacher : r \in {q \in board : RowCell(q) = c}}

-----------------------------------------------------------------------------
(* Slips a change to this code could make; the models never use them.      *)

\* only the weekly counts are recomputed after the edit
WeeklyCountsHold(board) ==
    \A p \in Pairs : Cardinality(Of(board, p)) <= WeeklyTarget[p]

\* a teacher's half days are not counted
CapacityIgnoringHalves(board, r) ==
    LET his == By(board, r.teacher)
    IN  /\ Cardinality(On(his, r.day)) < DailyCapacity[r.teacher]
        /\ Cardinality(his) < WeeklyCapacity[r.teacher]

\* as many lessons go as were too many when the finding was made
SurplusAsRecorded(lessons, finding) ==
    {r \in lessons : Cardinality({q \in lessons : q.slot >= r.slot}) <= finding.actual - finding.expected}

-----------------------------------------------------------------------------
(* evaluatePlacement: lesson r is to go where it stands.  The caller names *)
(* the cells to ignore; a lesson that is only relocated is not counted     *)
(* against the limits.                                                     *)

\* checkTeacherSlotFree and teacherHasLessonAtSlot
TeacherSlotFree(rest, r) == \A q \in rest : RowTime(q) # RowTime(r)

HasCapacity(board, r) ==
    LET his == By(board, r.teacher)
    IN  /\ Cardinality(On(his, r.day)) < DailyCapacity[r.teacher]
        /\ Cardinality(InHalf(On(his, r.day), Half(r.slot))) < SessionCapacity[<<r.teacher, Half(r.slot)>>]
        /\ Cardinality(his) < WeeklyCapacity[r.teacher]

UnderLimits(board, r) ==
    /\ Cardinality(Of(board, RowPair(r))) < WeeklyTarget[RowPair(r)]
    /\ Cardinality(On(Of(board, RowPair(r)), r.day)) < MaxPerDay[RowPair(r)]

\* the teachers of a pair are those of its lessons on the board
LockHolds(board, r) ==
    LET locked == {q.teacher : q \in Of(board, RowPair(r))}
    IN  r.teacher \in locked \/ Cardinality(locked) < MaxTeachersForPair[RowPair(r)]

RulesHold(r) ==
    /\ ~ IsDayBlockedByRule(r.subject, r.day) /\ ~ IsSlotBlockedByRule(r.subject, r.slot)
    /\ IsPlacementAllowedByIncludeOnly(r.subject, r.div, r.day, r.slot)

(* violatesContinuityLimits: the lessons before r in its class on its day, *)
(* back to the first that is not the teacher's or, once one was of the     *)
(* subject, of another subject.  Those after r are not looked at.          *)
Run(rest, r) ==
    LET subjectIs(n, s) == \E q \in rest : RowCell(q) = <<r.div, r.day, n>> /\ q.subject = s
    IN  {n \in LessonSlots :
            /\ n < r.slot
            /\ \A m \in LessonSlots :
                  n <= m /\ m < r.slot => r.teacher \in TaughtIn(rest, <<r.div, r.day, m>>)
            /\ \A m, k \in LessonSlots :
                  n < k /\ k < m /\ m < r.slot /\ subjectIs(m, r.subject) => subjectIs(k, r.subject)}

WithinContinuity(rest, r) ==
    LET same == {n \in Run(rest, r) : \E q \in rest :
                    RowCell(q) = <<r.div, r.day, n>> /\ q.subject = r.subject}
    IN  /\ Cardinality(Run(rest, r)) < AtLeastOne(Teacher[r.teacher].maxAny)
        /\ Cardinality(same) < AtLeastOne(Teacher[r.teacher].maxSame)

\* violatesSingleClassContinuityPerDay
OneContinuousClass(rest, r) ==
    (\E m \in LessonSlots :
        /\ Consecutive(m, r.slot) \/ Consecutive(r.slot, m)
        /\ r.teacher \in TaughtIn(rest, <<r.div, r.day, m>>))
    => \A d \in Divisions \ {r.div} : ~ HasNeighbours(rest, r.teacher, d, r.day)

BeforeTeacher(board, rest, r, relocating) ==
    /\ TeacherAllowedInDivision(r.teacher, r.div)
    /\ IsFree(rest, RowCell(r))
    /\ RowCell(r) \in Grid
    /\ RulesHold(r)
    /\ relocating \/ UnderLimits(board, r)
    /\ LockHolds(board, r)

MayStand(board, ignored, r, relocating) ==
    LET rest == Without(board, ignored)
    IN  /\ BeforeTeacher(board, rest, r, relocating)
        /\ TeacherSlotFree(rest, r) /\ RowTime(r) \notin FreePeriodRules
        /\ relocating \/ HasCapacity(board, r)
        /\ WithinContinuity(rest, r)
        /\ OneContinuousClass(rest, r)

-----------------------------------------------------------------------------
(* What must hold of the whole board after an edit *)

\* validateSubjectCountsAfterEntries
CountsHold(board) ==
    \A p \in Pairs :
        /\ Cardinality(Of(board, p)) <= WeeklyTarget[p]
        /\ \A day \in Days : Cardinality(On(Of(board, p), day)) <= MaxPerDay[p]

\* violatesDoublePeriodAfterEntries: in the order of the day, every lesson
\* of odd rank but the last is followed at once by the next
DoublesHold(board) ==
    \A p \in Pairs, day \in Days :
        Subject[p[2]].double =>
            LET at == {r.slot : r \in On(Of(board, p), day)}
            IN  \A n \in at :
                    Cardinality({m \in at : m <= n}) % 2 = 1 /\ (\E m \in at : m > n)
                    => \E m \in at : Consecutive(n, m)

-----------------------------------------------------------------------------
(* Edits.  An edit is a record with its operation and cells, and the       *)
(* lesson an ADD brings (its cell is the target).                          *)

\* applyManualEditToEntries: from a free cell nothing moves
Exchanged(board, from, to) ==
    Without(board, {from, to})
    \cup {PutAt(LessonAt(board, c), to) : c \in {k \in {from} : ~ IsFree(board, k)}}
    \cup {PutAt(LessonAt(board, c), IF IsFree(board, from) THEN to ELSE from) :
             c \in {k \in {to} : ~ IsFree(board, k)}}

Applied(board, edit) ==
    IF edit.op = "ADD" THEN board \cup {edit.lesson}
                       ELSE Exchanged(board, edit.from, edit.to)

Relocates(board, from, to) ==
    MayStand(board, {from, to}, PutAt(LessonAt(board, from), to), TRUE)

\* validateManualEdit with inferEditKind
MayExchange(board, op, from, to) ==
    /\ from # to /\ from \in Grid /\ to \in Grid
    /\ CASE op = "MOVE" ->
              /\ from[1] = to[1]
              /\ \/ ~ IsFree(board, from) /\ IsFree(board, to) /\ Relocates(board, from, to)
                 \/ IsFree(board, from) /\ ~ IsFree(board, to) /\ Relocates(board, to, from)
         [] op = "SWAP" ->
              /\ ~ IsFree(board, from) /\ ~ IsFree(board, to)
              /\ Relocates(board, from, to) /\ Relocates(board, to, from)
    /\ CountsHold(Exchanged(board, from, to)) /\ DoublesHold(Exchanged(board, from, to))

\* teacherEligibleForDivisionSubject
Eligible(r) ==
    /\ r.teacher \in QualifiedTeachers(RowPair(r))
    /\ ExplicitTeachers(RowPair(r)) # {} => r.teacher \in ExplicitTeachers(RowPair(r))

\* validateAddLesson
MayAdd(board, r) ==
    /\ RowCell(r) \in Grid /\ IsFree(board, RowCell(r))
    /\ ~ Subject[r.subject].double /\ RowPair(r) \in ApplicablePairs
    /\ Cardinality(Of(board, RowPair(r))) < WeeklyTarget[RowPair(r)]
    /\ Eligible(r)
    /\ MayStand(board, {RowCell(r)}, r, FALSE)
    /\ CountsHold(board \cup {r}) /\ DoublesHold(board \cup {r})

\* applyTimetableEdit
MayApply(board, edit) ==
    IF edit.op = "ADD" THEN MayAdd(board, edit.lesson)
                       ELSE MayExchange(board, edit.op, edit.from, edit.to)

Adding(r) == [op |-> "ADD", from |-> RowCell(r), to |-> RowCell(r), lesson |-> r]
Exchange(op, from, to) == [op |-> op, from |-> from, to |-> to]

\* listValidEditTargets: the cells of a class and the lessons of the others
Targets(board, from, scope) ==
    {edit \in {Exchange(op, from, to) : op \in {"MOVE", "SWAP"}, to \in Grid} :
        /\ edit.to[1] = scope \/ ~ IsFree(board, edit.to)
        /\ MayApply(board, edit)}

\* listValidAddOptions and validateAddLessonCell
AddOptions(board, c) ==
    {r \in {PutAt(q, c) : q \in [div : {c[1]}, day : {c[2]}, slot : {c[3]},
                                 subject : Subjects, teacher : Teachers]} : MayAdd(board, r)}

-----------------------------------------------------------------------------
(* findRepairPlansForAdd: at most two exchanges that take a busy teacher's *)
(* other lesson away, after which a lesson can be added.  The code keeps   *)
(* the first three it meets and tries twelve targets a step; a plan here   *)
(* is any the search could meet.                                           *)

\* what the search asks of a subject before it looks at teachers; a subject
\* of double periods is never added by a plan
PassesPreTeacherChecks(board, r) ==
    /\ ~ Subject[r.subject].double /\ RowPair(r) \in ApplicablePairs
    /\ UnderLimits(board, r) /\ RulesHold(r)

\* pickAddCandidates: the lessons only a busy teacher keeps out
Repairable(board, c) ==
    {r \in {PutAt(q, c) : q \in [div : {c[1]}, day : {c[2]}, slot : {c[3]},
                                 subject : Subjects, teacher : Teachers]} :
        /\ IsFree(board, c) /\ PassesPreTeacherChecks(board, r) /\ Eligible(r)
        /\ BeforeTeacher(board, Without(board, {c}), r, FALSE)
        /\ ~ TeacherSlotFree(board, r)}

\* findTeacherBlockingLessons
Blockers(board, c) ==
    {RowCell(q) : q \in {k \in board : \E r \in Repairable(board, c) : RowTime(k) = RowTime(r)}}

StepsFrom(board, cells) == UNION {Targets(board, from, from[1]) : from \in cells}

RepairPlans(board, c) ==
    LET sources == Blockers(board, c)
        one == {<<step>> : step \in StepsFrom(board, sources)}
        two == UNION {{<<s[1], step>> : step \in StepsFrom(Applied(board, s[1]), sources)} : s \in one}
        after(steps) == IF Len(steps) = 1 THEN Applied(board, steps[1])
                        ELSE Applied(Applied(board, steps[1]), steps[2])
    IN  {plan \in [steps : one \cup two, add : Repairable(board, c)] :
            MayAdd(after(plan.steps), plan.add)}

-----------------------------------------------------------------------------
(* applyLowRiskAutoFixes: a finding has a code and, by the code, a pair    *)
(* with what was expected of it, that and a day, or a cell.                *)

\* lessonEntryComparator orders the days by name; here by rank
LaterOrSame(r, board) ==
    {q \in board : q.day > r.day \/ (q.day = r.day /\ q.slot >= r.slot)}

\* the last lessons beyond the expected number
Surplus(lessons, finding) ==
    {r \in lessons : Cardinality(LaterOrSame(r, lessons)) <= Cardinality(lessons) - finding.expected}

Fixed(board, finding) ==
    CASE finding.code = "SUBJECT_WEEKLY_OVERFLOW" ->
             board \ Surplus(Of(board, finding.pair), finding)
      [] finding.code = "SUBJECT_DAILY_OVERFLOW" ->
             board \ Surplus(On(Of(board, finding.pair), finding.day), finding)
      [] finding.code = "SUBJECT_APPLICABILITY_MISMATCH" -> Without(board, {finding.cell})

\* the findings of validateTimetableRun that may be fixed without review
LowRisk(board) ==
    {[code |-> "SUBJECT_WEEKLY_OVERFLOW", pair |-> p, expected |-> ReportedWeekly(p),
      actual |-> Cardinality(Of(board, p))] : p \in WeeklyOverflow(board)}
    \cup {[code |-> "SUBJECT_DAILY_OVERFLOW", pair |-> k[1], day |-> k[2],
           expected |-> ReportedPerDay(k[1]),
           actual |-> Cardinality(On(Of(board, k[1]), k[2]))] : k \in DailyOverflow(board)}
    \cup {[code |-> "SUBJECT_APPLICABILITY_MISMATCH", cell |-> RowCell(r)] :
             r \in ApplicabilityMismatch(board)}

\* the board after the fixes of one code, which touch different lessons
FixedAll(board, found) == board \ UNION {board \ Fixed(board, f) : f \in found}

\* the board a generation stores: the codes come in the order of the findings
AfterFixes(board) ==
    LET of(code) == {f \in LowRisk(board) : f.code = code}
    IN  FixedAll(FixedAll(FixedAll(board, of("SUBJECT_WEEKLY_OVERFLOW")),
                          of("SUBJECT_DAILY_OVERFLOW")),
                 of("SUBJECT_APPLICABILITY_MISMATCH"))
=============================================================================
