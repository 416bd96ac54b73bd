----------------------------- MODULE SchoolSetup -----------------------------
(***************************************************************************)
(* The editors in which a school is set up, and the checks a generation    *)
(* runs before the engine.  The editors change six lists that refer to     *)
(* each other by id or by position and are cleaned only in part when       *)
(* something they refer to goes: teachers name classes and subjects, rules *)
(* name subjects, classes and period numbers, period rows name weekdays.   *)
(* The checks (scope, preflight, feasibility) derive from the lists again  *)
(* what the engine derives from them; SchoolData is the engine's reading.  *)
(*                                                                         *)
(* A step is one confirmed edit, with the effect that follows it.  Names,  *)
(* codes, times and notes are left out, and so are the fields no check     *)
(* reads, the lists of mediums and standards, and a subject's pause, which *)
(* the schema of a request drops.                                          *)
(***************************************************************************)
EXTENDS Integers, Sequences, FiniteSets, FiniteSetsExt, SequencesExt

CONSTANTS
    DivisionIds, SubjectIds, TeacherIds,   \* ids; each is given out once
    NoDivision,
    Standards, Mediums, Weekdays,          \* weekdays are numbers, Monday first
    PrimaryMedium,
    School,             \* the configuration editing starts from
    SubjectForms, TeacherForms, Preferences,  \* what the dialogs may hold when saved
    MaxPeriods,         \* bound: rows of the period grid
    Budgets             \* bound: edits of the structure, of the staff, of the rules

SlotTypes == {"LESSON", "BREAK", "LUNCH"}    \* an assembly counts like a break
Targets == {"FIRST_MORNING", "FIRST_AFTER_LUNCH", "LAST_LESSON"}

DivisionRecords == [standard : Standards, medium : Mediums, paused : BOOLEAN]
PeriodRecords == [type : SlotTypes, active : SUBSET Weekdays]
TeacherRecords ==
    [assigned : SUBSET DivisionIds, homerooms : SUBSET DivisionIds, mediums : SUBSET Mediums,
     subjects : SUBSET SubjectIds, excluded : SUBSET (DivisionIds \X SubjectIds), paused : BOOLEAN,
     perDay : Nat, perWeek : Nat, freeMorning : Nat, freeEvening : Nat]
RuleRecords ==
    [kind : {"EXCLUDE_SLOT"}, subject : SubjectIds, active : BOOLEAN,
     targets : SUBSET Targets, slots : {{}}]
    \cup [kind : {"EXCLUDE_DAY"}, subject : SubjectIds, active : BOOLEAN, days : SUBSET Weekdays]
    \cup [kind : {"INCLUDE_ONLY"}, subject : SubjectIds, active : BOOLEAN,
          divisions : SUBSET DivisionIds, mode : {"CUSTOM"}, cells : SUBSET (Weekdays \X Nat)]
PreferenceRecords ==
    [targets : SUBSET Targets, exDays : SUBSET Weekdays, classes : SUBSET DivisionIds,
     onDays : SUBSET Weekdays, slot : Nat, active : BOOLEAN]

\* a teacher restricted to some classes is class teacher in one of them, if at all
HomeroomsWithin(teacher) == teacher.assigned # {} => teacher.homerooms \subseteq teacher.assigned

\* a saved subject asks for at least one period a week, in general and per class
IsSubject(x) ==
    /\ x = [standards |-> x.standards, mediums |-> x.mediums, include |-> x.include,
            exclude |-> x.exclude, weekly |-> x.weekly, weeklyIn |-> x.weeklyIn]
    /\ x.standards \subseteq Standards /\ x.mediums \subseteq Mediums
    /\ x.include \cup x.exclude \cup DOMAIN x.weeklyIn \subseteq DivisionIds
    /\ x.weekly \in Nat \ {0} /\ x.weeklyIn \in [DOMAIN x.weeklyIn -> Nat \ {0}]

OnePerKind(rs) == \A q, r \in rs : q.kind = r.kind /\ q.subject = r.subject => q = r

ASSUME SetupAssumption ==
    /\ Weekdays \subseteq Nat /\ IsFiniteSet(Weekdays) /\ MaxPeriods \in Nat
    /\ NoDivision \notin DivisionIds /\ PrimaryMedium \in Mediums
    /\ Budgets \subseteq [structure : Nat, staff : Nat, rules : Nat]

\* the dialogs offer one class to be class teacher of
ASSUME DialogsAssumption ==
    /\ \A form \in SubjectForms : IsSubject(form)
    /\ TeacherForms \subseteq TeacherRecords
    /\ \A form \in TeacherForms : \A d, e \in form.homerooms : d = e
    /\ Preferences \subseteq PreferenceRecords

\* editing starts from a school that was made with the editors
ASSUME StartAssumption ==
    /\ School.divisions \in [DOMAIN School.divisions -> DivisionRecords]
    /\ DOMAIN School.divisions \subseteq DivisionIds
    /\ DOMAIN School.subjects \subseteq SubjectIds
    /\ \A s \in DOMAIN School.subjects : IsSubject(School.subjects[s])
    /\ School.teachers \in [DOMAIN School.teachers -> TeacherRecords]
    /\ DOMAIN School.teachers \subseteq TeacherIds
    /\ \A t \in DOMAIN School.teachers :
          /\ HomeroomsWithin(School.teachers[t])
          /\ \A d, e \in School.teachers[t].homerooms : d = e
    /\ School.periods \in Seq(PeriodRecords)
    /\ School.days \in (SUBSET Weekdays) \ {{}}
    /\ School.rules \subseteq RuleRecords /\ OnePerKind(School.rules)

VARIABLES
    divisions,  \* id -> [standard, medium, paused]
    subjects,   \* id -> [standards, mediums, include, exclude, weekly, weeklyIn]
    teachers,   \* id -> [assigned, homerooms, mediums, subjects, excluded, paused,
                \*        perDay, perWeek, freeMorning, freeEvening]
    periods,    \* the rows in order, [type, active]; a row's number is its position
    days,       \* working days
    rules,      \* scheduling rules, as in SchoolData, with an active flag
    undo,       \* the teacher removed last, until restored or the page is left
    given,      \* ids given out so far
    left        \* edits still allowed by the budget

setup == <<divisions, subjects, teachers, periods, days, rules>>
vars == <<setup, undo, given, left>>

Spend(kind) == left[kind] > 0 /\ left' = [left EXCEPT ![kind] = @ - 1]

Toggled(set, x) == IF x \in set THEN set \ {x} ELSE set \cup {x}

\* a list with one record put in or replaced
With(list, x, record) == [y \in DOMAIN list \cup {x} |-> IF y = x THEN record ELSE list[y]]

-----------------------------------------------------------------------------
(* What the lists mean to the editors and to the checks                     *)

\* normalizeActiveWeekdays: weekdays that are not worked are dropped, none left means all
NormalDays(active) == IF active \cap days = {} THEN days ELSE active \cap days

\* getPeriodSlotMeta
LessonRows == {n \in DOMAIN periods : periods[n].type = "LESSON"}
AfterLunch ==
    {n \in LessonRows : \A m \in DOMAIN periods : periods[m].type = "LUNCH" => m < n}
HasLunch == \E m \in DOMAIN periods : periods[m].type = "LUNCH"

\* slotNumbersExcludedBySlotTargets; an empty set stands for a missing boundary
SlotsOf(targets) ==
    (IF "FIRST_MORNING" \in targets /\ LessonRows # {} THEN {Min(LessonRows)} ELSE {})
    \cup (IF "LAST_LESSON" \in targets /\ LessonRows # {} THEN {Max(LessonRows)} ELSE {})
    \cup (IF "FIRST_AFTER_LUNCH" \in targets /\ HasLunch /\ AfterLunch # {}
          THEN {Min(AfterLunch)} ELSE {})

AppliesTo(s, d) ==
    /\ divisions[d].standard \in subjects[s].standards
    /\ divisions[d].medium \in subjects[s].mediums
    /\ IF subjects[s].include # {} THEN d \in subjects[s].include
                                   ELSE d \notin subjects[s].exclude

\* getTeacherComputedCapacity
Rest(count, free) == IF count > free THEN count - free ELSE 0
ComputedDaily(teacher) ==
    LET morning == IF HasLunch /\ AfterLunch # {} THEN LessonRows \ AfterLunch
                   ELSE {n \in LessonRows : n <= (Cardinality(LessonRows) + 1) \div 2}
        inMorning == Cardinality(morning)
    IN  Rest(inMorning, teacher.freeMorning)
        + Rest(Cardinality(LessonRows) - inMorning, teacher.freeEvening)
ComputedWeekly(teacher) == Max({30, ComputedDaily(teacher) * Cardinality(days)})

-----------------------------------------------------------------------------
(* Standards, divisions and working days                                    *)

\* the effect that runs whenever the list of divisions changes
CleanRefs(ds) ==
    [t \in DOMAIN teachers |->
        [teachers[t] EXCEPT !.assigned = @ \cap DOMAIN ds, !.homerooms = @ \cap DOMAIN ds]]

ChangeDivisions(ds) ==
    /\ Spend("structure")
    /\ divisions' = ds
    /\ teachers' = CleanRefs(ds)
    /\ undo' = <<>>
    /\ UNCHANGED <<subjects, periods, days, rules>>

NewDivisions(std, medium, new) ==
    /\ ChangeDivisions(
         [d \in DOMAIN divisions \cup new |->
            IF d \in new THEN [standard |-> std, medium |-> medium, paused |-> FALSE]
            ELSE divisions[d]])
    /\ given' = given \cup new

AddDivision(std, medium) ==
    \E d \in DivisionIds \ given : NewDivisions(std, medium, {d})

\* applyParsed: classes that exist already are skipped
QuickAdd(std) ==
    \E new \in SUBSET (DivisionIds \ given) : new # {} /\ NewDivisions(std, PrimaryMedium, new)

SetDivisionPaused(d) ==
    ChangeDivisions([divisions EXCEPT ![d].paused = ~ @]) /\ UNCHANGED given

\* pauses the classes of a standard, or resumes them if all are paused
SetStandardPaused(std) ==
    LET own == {d \in DOMAIN divisions : divisions[d].standard = std}
        pause == \E d \in own : ~ divisions[d].paused
    IN  /\ own # {}
        /\ ChangeDivisions([d \in DOMAIN divisions |->
             IF d \in own THEN [divisions[d] EXCEPT !.paused = pause] ELSE divisions[d]])
        /\ UNCHANGED given

RemoveDivisions(gone) ==
    /\ gone # {}
    /\ ChangeDivisions([d \in DOMAIN divisions \ gone |-> divisions[d]])
    /\ UNCHANGED given

RemoveStandard(std) == RemoveDivisions({d \in DOMAIN divisions : divisions[d].standard = std})
RemoveDivision(d) == RemoveDivisions({d})

ChangeMedium(d, medium) ==
    /\ medium # divisions[d].medium
    /\ ChangeDivisions([divisions EXCEPT ![d].medium = medium])
    /\ UNCHANGED given

\* rows keep the weekdays they name, and rules their cells
ToggleDay(day) ==
    /\ Spend("structure")
    /\ days # {day}
    /\ days' = Toggled(days, day)
    /\ undo' = <<>>
    /\ UNCHANGED <<divisions, subjects, teachers, periods, rules, given>>

-----------------------------------------------------------------------------
(* The period grid                                                          *)

ChangePeriods(rows) ==
    /\ Spend("structure")
    /\ periods' = rows
    /\ undo' = <<>>
    /\ UNCHANGED <<divisions, subjects, teachers, days, rules, given>>

ToggleSlotWeekday(n, day) ==
    LET active == NormalDays(periods[n].active)
    IN  /\ active # {day}
        /\ ChangePeriods([periods EXCEPT ![n].active = Toggled(active, day)])

\* any row may change its type: no lesson row need be left
SaveSlot(n, type, active) ==
    ChangePeriods([periods EXCEPT ![n] = [type |-> type, active |-> active]])

AddSlot ==
    /\ Len(periods) < MaxPeriods
    /\ ChangePeriods(Append(periods, [type |-> "LESSON", active |-> days]))

\* the rows below move up; what refers to a row by its number does not
RemoveSlot(n) ==
    /\ Cardinality(LessonRows) > 2
    /\ ChangePeriods(RemoveAt(periods, n))

-----------------------------------------------------------------------------
(* Subjects and teachers                                                    *)

ChangeStaff(ss, ts) ==
    /\ Spend("staff")
    /\ subjects' = ss /\ teachers' = ts
    /\ UNCHANGED <<divisions, periods, days, rules>>

\* references to classes outside the chosen standards are dropped
CleanSubject(form) ==
    LET allowed == {d \in DOMAIN divisions : divisions[d].standard \in form.standards}
        include == form.include \cap allowed
    IN  [form EXCEPT !.include = include,
                     !.exclude = (@ \cap allowed) \ include,
                     !.weeklyIn = [d \in DOMAIN @ \cap allowed |-> @[d]]]

SaveSubject(s, form) ==
    /\ ChangeStaff(With(subjects, s, CleanSubject(form)), teachers)
    /\ given' = given \cup {s}
    /\ undo' = <<>>

RemoveSubject(s) ==
    /\ ChangeStaff([x \in DOMAIN subjects \ {s} |-> subjects[x]], teachers)
    /\ undo' = <<>>
    /\ UNCHANGED given

\* applyDivisionSelection: as many classes as the school has are stored as "all"
Assignment(selected) ==
    IF Cardinality(selected) = Cardinality(DOMAIN divisions) THEN {} ELSE selected

ClassesOf(assigned) == IF assigned = {} THEN DOMAIN divisions ELSE assigned

\* faulty variant of HomeroomsAmong: the teacher's own restriction is not looked at
HomeroomsAnywhere(homerooms, assigned) == homerooms \cap DOMAIN divisions

\* a class teacher teaches in the class
HomeroomsAmong(homerooms, assigned) == homerooms \cap ClassesOf(assigned)

\* normalizeTeacherCapacityOnSave
Capped(limit, computed) == IF limit = 0 THEN 0 ELSE Max({1, Min({computed, limit})})

\* the form of an unchanged teacher is the teacher (openEdit, formStateFromTeacher)
Stored(t) ==
    IF t \in DOMAIN teachers THEN teachers[t]
    ELSE [assigned |-> {}, homerooms |-> {}, paused |-> FALSE]

SaveTeacher(t, form) ==
    LET old == Stored(t)
        others == UNION {teachers[x].homerooms : x \in DOMAIN teachers \ {t}}
    IN  \E assigned \in {Assignment(form.assigned)} \cup ({form.assigned} \cap {old.assigned}) :
          LET homerooms == HomeroomsAmong(form.homerooms, assigned)
              classes == ClassesOf(assigned)
              saved == [form EXCEPT
                !.assigned = assigned, !.homerooms = homerooms, !.paused = old.paused,
                !.excluded = {x \in @ : x[1] \in classes /\ x[2] \in form.subjects},
                !.perDay = Capped(@, ComputedDaily(form)),
                !.perWeek = Capped(@, ComputedWeekly(form))]
          IN  /\ form.assigned \cup form.homerooms
                   \subseteq DOMAIN divisions \cup old.assigned \cup old.homerooms
              /\ homerooms \cap others = {}
              /\ ChangeStaff(subjects, With(teachers, t, saved))
              /\ given' = given \cup {t}
              /\ UNCHANGED undo

SetTeacherPaused(t) ==
    /\ ChangeStaff(subjects, [teachers EXCEPT ![t].paused = ~ @])
    /\ UNCHANGED <<undo, given>>

RemoveTeacher(t) ==
    /\ ChangeStaff(subjects, [x \in DOMAIN teachers \ {t} |-> teachers[x]])
    /\ undo' = [x \in {t} |-> teachers[t]]
    /\ UNCHANGED given

\* the snapshot comes back as it was, whatever has been given away since; it is
\* lost with the page, so the edits of the other pages clear it
UndoRemoveTeacher ==
    /\ undo # <<>>
    /\ ChangeStaff(subjects, [x \in DOMAIN teachers \cup DOMAIN undo |->
                                IF x \in DOMAIN teachers THEN teachers[x] ELSE undo[x]])
    /\ undo' = <<>>
    /\ UNCHANGED given

-----------------------------------------------------------------------------
(* Placement preferences                                                    *)

ChangeRules(rs) ==
    /\ Spend("rules")
    /\ rules' = rs
    /\ undo' = <<>>
    /\ UNCHANGED <<divisions, subjects, teachers, periods, days, given>>

\* getSubjectPreferenceContradictionMessage
Contradictory(p) ==
    /\ p.classes # {}
    /\ p.onDays \cap p.exDays # {} \/ p.slot \in SlotsOf(p.targets)

\* applyRuleContradictionGuards, where nothing contradicts: without a day, the
\* first working day that is not excluded
FixedDays(p) ==
    IF p.onDays # {} \/ days \subseteq p.exDays THEN p.onDays
    ELSE {Min(days \ p.exDays)}

Complete(p) ==
    /\ p.targets # {} \/ p.exDays # {} \/ p.classes # {}
    /\ p.classes # {} =>
         /\ FixedDays(p) # {}
         /\ p.slot \in LessonRows
         /\ FixedDays(p) \subseteq NormalDays(periods[p.slot].active)

\* faulty variant of Upsert: a second rule of the kind
UpsertAlways(rs, r) == rs \cup {r}

Upsert(rs, r) == {q \in rs : q.kind # r.kind \/ q.subject # r.subject} \cup {r}

Without(rs, kind, s) == {q \in rs : q.kind # kind \/ q.subject # s}

SlotRule(s, p) ==
    [kind |-> "EXCLUDE_SLOT", subject |-> s, active |-> p.active, targets |-> p.targets,
     slots |-> {}]
DayRule(s, p) ==
    [kind |-> "EXCLUDE_DAY", subject |-> s, active |-> p.active, days |-> p.exDays]
FixedRule(s, p) ==
    [kind |-> "INCLUDE_ONLY", subject |-> s, active |-> p.active, divisions |-> p.classes,
     mode |-> "CUSTOM", cells |-> FixedDays(p) \X {p.slot}]

\* the fixed rule is touched only if the dialog holds one, or was opened on it
ApplyPreference(rs, s, p, opened) ==
    LET slots == IF p.targets = {} THEN Without(rs, "EXCLUDE_SLOT", s)
                 ELSE Upsert(rs, SlotRule(s, p))
        both == IF p.exDays = {} THEN Without(slots, "EXCLUDE_DAY", s)
                ELSE Upsert(slots, DayRule(s, p))
    IN  IF p.classes # {} THEN Upsert(both, FixedRule(s, p))
        ELSE IF opened = s THEN Without(both, "INCLUDE_ONLY", s)
        ELSE both

\* for several subjects at once; opened is the subject whose fixed rule is being edited
SavePreference(chosen, p, opened) ==
    /\ p.exDays \cup p.onDays \subseteq days
    /\ p.classes \subseteq DOMAIN divisions
    /\ ~ Contradictory(p)
    /\ Complete(p)
    /\ ChangeRules({r \in rules : r.subject \notin chosen}
         \cup UNION {ApplyPreference({r \in rules : r.subject = s}, s, p, opened) : s \in chosen})

Openable(chosen) ==
    {r.subject : r \in {q \in rules : q.kind = "INCLUDE_ONLY" /\ q.subject \in chosen}}

ToggleRule(r) == ChangeRules((rules \ {r}) \cup {[r EXCEPT !.active = ~ @]})
DeleteRule(r) == ChangeRules(rules \ {r})

-----------------------------------------------------------------------------
(* Saving, loading and generating all pass migrateTenantState, which drops  *)
(* the cells of fixed rules whose row is gone or does not run that day and  *)
(* switches a rule off that has none left                                   *)

MigratedPeriods == [n \in DOMAIN periods |-> [periods[n] EXCEPT !.active = NormalDays(@)]]

MigratedRule(r) ==
    IF r.kind # "INCLUDE_ONLY" THEN r
    ELSE LET kept == {c \in r.cells : /\ c[2] \in DOMAIN periods
                                      /\ c[1] \in NormalDays(periods[c[2]].active)}
         IN  IF kept = r.cells THEN r
             ELSE [r EXCEPT !.cells = kept, !.active = @ /\ kept # {}]

MigratedRules == {MigratedRule(r) : r \in rules}

\* the page is left and loaded again: the undo is gone, the divisions are set anew
Reload ==
    /\ Spend("structure")
    /\ periods' = MigratedPeriods
    /\ rules' = MigratedRules
    /\ teachers' = CleanRefs(divisions)
    /\ undo' = <<>>
    /\ UNCHANGED <<divisions, subjects, days, given>>

-----------------------------------------------------------------------------
(* scopeTenantForScheduling, on the request a generation sends              *)

ActiveDivisions == {d \in DOMAIN divisions : ~ divisions[d].paused}

HasScope(teacher) ==
    /\ ~ teacher.paused
    /\ \/ teacher.assigned \cap ActiveDivisions # {}
       \/ teacher.homerooms \cap ActiveDivisions # {}
       \/ /\ teacher.assigned = {} /\ teacher.homerooms = {}
          /\ \E d \in ActiveDivisions, s \in teacher.subjects \cap DOMAIN subjects :
               AppliesTo(s, d)

\* pruneTeacherDivisionRefs
Pruned(teacher) ==
    [teacher EXCEPT !.assigned = @ \cap ActiveDivisions,
                    !.homerooms = @ \cap ActiveDivisions,
                    !.excluded = {x \in @ : x[1] \in ActiveDivisions}]

ScopeTeachers(ts) == [t \in {x \in DOMAIN ts : HasScope(ts[x])} |-> Pruned(ts[t])]

ScopedRules ==
    {r \in MigratedRules :
        /\ r.kind = "INCLUDE_ONLY" =>
             r.divisions = {} \/ r.divisions \cap ActiveDivisions # {}
        /\ r.subject \in DOMAIN subjects}

\* POST /timetable/generate gets as far as its checks
ChecksRun ==
    ActiveDivisions # {} /\ DOMAIN subjects # {} /\ DOMAIN ScopeTeachers(teachers) # {}

-----------------------------------------------------------------------------
(* runTenantPreflightCheck                                                  *)

\* faulty variant of RulesFor: rules that are switched off count
RulesForAll(kind, s) == {r \in ScopedRules : r.kind = kind /\ r.subject = s}

RulesFor(kind, s) == {r \in ScopedRules : r.kind = kind /\ r.subject = s /\ r.active}

DayBlocked(s, day) == \E r \in RulesFor("EXCLUDE_DAY", s) : day \in r.days
SlotBlocked(s, n) ==
    \E r \in RulesFor("EXCLUDE_SLOT", s) : n \in SlotsOf(r.targets)
RunsOn(n, day) == day \in MigratedPeriods[n].active

\* findSubjectSchedulingContradictions
Overlaps(r) ==
    \/ \E c \in r.cells, x \in RulesFor("EXCLUDE_DAY", r.subject) : c[1] \in x.days
    \/ \E c \in r.cells, x \in RulesFor("EXCLUDE_SLOT", r.subject) : c[2] \in SlotsOf(x.targets)

ValidCells(r) ==
    {c \in r.cells : c[1] \in days /\ c[2] \in DOMAIN periods /\ RunsOn(c[2], c[1])}

PreflightPasses ==
    \A s \in DOMAIN subjects : \A r \in RulesFor("INCLUDE_ONLY", s) :
        ~ Overlaps(r) /\ ValidCells(r) # {}

-----------------------------------------------------------------------------
(* runTenantFeasibilityReport, which scopes the scoped school once more     *)

ReportTeachers == ScopeTeachers(ScopeTeachers(teachers))

AllowedByFixedRules(s, d, day, n) ==
    \A r \in RulesFor("INCLUDE_ONLY", s) :
        d \in r.divisions => <<day, n>> \in r.cells /\ RunsOn(n, day)

\* countLegallyPlaceableCells
Placeable(d, s) ==
    Cardinality({c \in days \X LessonRows :
        /\ ~ DayBlocked(s, c[1])
        /\ RunsOn(c[2], c[1])
        /\ ~ SlotBlocked(s, c[2])
        /\ AllowedByFixedRules(s, d, c[1], c[2])})

\* getDivisionRequiredWeekly: a class limit counts only above zero
Required(d, s) ==
    LET limit == subjects[s].weeklyIn
    IN  IF d \in DOMAIN limit /\ limit[d] > 0 THEN limit[d] ELSE subjects[s].weekly

\* listEligibleTeachersForDivisionSubject
Eligible(d, s) ==
    {t \in DOMAIN ReportTeachers :
        LET teacher == ReportTeachers[t]
        IN  /\ s \in teacher.subjects
            /\ divisions[d].medium \in teacher.mediums
            /\ teacher.assigned = {} \/ d \in teacher.assigned
            /\ <<d, s>> \notin teacher.excluded}

\* runTenantFeasibilityReport has no error
ReportPasses ==
    \A d \in ActiveDivisions, s \in DOMAIN subjects :
        AppliesTo(s, d) => Placeable(d, s) >= Required(d, s)

\* getTeacherEffectiveCapacity
Supply(teacher) ==
    IF teacher.perWeek > 0 THEN Min({ComputedWeekly(teacher), teacher.perWeek})
    ELSE ComputedWeekly(teacher)

-----------------------------------------------------------------------------

Init ==
    /\ divisions = School.divisions /\ subjects = School.subjects
    /\ teachers = School.teachers /\ periods = School.periods
    /\ days = School.days /\ rules = School.rules
    /\ undo = <<>>
    /\ given = DOMAIN divisions \cup DOMAIN subjects \cup DOMAIN teachers
    /\ left \in Budgets

EditStructure ==
    \/ \E std \in Standards : \/ \E medium \in Mediums : AddDivision(std, medium)
                              \/ QuickAdd(std)
                              \/ SetStandardPaused(std)
                              \/ RemoveStandard(std)
    \/ \E d \in DOMAIN divisions : \/ SetDivisionPaused(d)
                                   \/ RemoveDivision(d)
                                   \/ \E medium \in Mediums : ChangeMedium(d, medium)
    \/ \E day \in Weekdays : ToggleDay(day)
    \/ \E n \in DOMAIN periods :
         \/ \E day \in days : ToggleSlotWeekday(n, day)
         \/ \E type \in SlotTypes, active \in (SUBSET days) \ {{}} : SaveSlot(n, type, active)
         \/ RemoveSlot(n)
    \/ AddSlot
    \/ Reload

EditStaff ==
    \/ \E s \in DOMAIN subjects \cup (SubjectIds \ given), form \in SubjectForms :
         SaveSubject(s, form)
    \/ \E s \in DOMAIN subjects : RemoveSubject(s)
    \/ \E t \in DOMAIN teachers \cup (TeacherIds \ given), form \in TeacherForms :
         SaveTeacher(t, form)
    \/ \E t \in DOMAIN teachers : SetTeacherPaused(t) \/ RemoveTeacher(t)
    \/ UndoRemoveTeacher

EditRules ==
    \/ \E chosen \in (SUBSET DOMAIN subjects) \ {{}}, p \in Preferences :
         \E opened \in Openable(chosen) \cup {NoDivision} : SavePreference(chosen, p, opened)
    \/ \E r \in rules : ToggleRule(r) \/ DeleteRule(r)

Next == EditStructure \/ EditStaff \/ EditRules

Spec == Init /\ [][Next]_vars

-----------------------------------------------------------------------------

(* The lists keep their shape: a day is worked, a subject asks for a period *)
(* at least, a teacher is class teacher of one class at most, and the       *)
(* dialogs leave one rule of a kind per subject, which is what they look    *)
(* for when they open.                                                      *)
TypeOK ==
    /\ divisions \in [DOMAIN divisions -> DivisionRecords] /\ DOMAIN divisions \subseteq DivisionIds
    /\ DOMAIN subjects \subseteq SubjectIds /\ \A s \in DOMAIN subjects : IsSubject(subjects[s])
    /\ teachers \in [DOMAIN teachers -> TeacherRecords]
    /\ DOMAIN teachers \cup DOMAIN undo \subseteq TeacherIds
    /\ given \subseteq DivisionIds \cup SubjectIds \cup TeacherIds
    /\ periods \in Seq(PeriodRecords)
    /\ days \in (SUBSET Weekdays) \ {{}}
    /\ \A t \in DOMAIN teachers : Cardinality(teachers[t].homerooms) <= 1
    /\ rules \subseteq RuleRecords /\ OnePerKind(rules)

\* the school as the engine reads it, for the classes and teachers it is given
Engine(Classes, Staff) == INSTANCE SchoolData WITH
    Divisions <- Classes, Division <- divisions,
    Teachers <- DOMAIN Staff, Teacher <- Staff,
    Subjects <- DOMAIN subjects, Subject <- subjects,
    NumDays <- Cardinality(days), Slots <- DOMAIN periods,
    SlotType <- [n \in DOMAIN periods |-> periods[n].type],
    ActiveDays <- [n \in DOMAIN periods |-> MigratedPeriods[n].active],
    Rules <- {r \in ScopedRules : r.active},
    AnyDivision <- NoDivision, TeacherSubjects <- {}, PersistedLocks <- {}, FreePeriodRules <- {}

(* Pausing takes classes and teachers out of a generation; it never lets a  *)
(* teacher teach a subject in a class where the same teacher may not teach  *)
(* it when nothing is paused.  The scope drops the paused classes from a    *)
(* teacher's list, and an empty list means every class: it holds because    *)
(* the editors keep class teachers within their own list.                   *)
PausingNeverAdds ==
    LET paused == ScopeTeachers(teachers)
    IN  \A p \in ActiveDivisions \X DOMAIN subjects :
          Engine(ActiveDivisions, paused)!QualifiedTeachers(p)
            \subseteq Engine(DOMAIN divisions, teachers)!QualifiedTeachers(p)

\* the fixed rules of the request, and the cells the engine can place their lessons in
FixedRules == {r \in ScopedRules : r.kind = "INCLUDE_ONLY" /\ r.active}
UsableCells(r) ==
    LET staff == ScopeTeachers(teachers)
    IN  {c \in days \X Engine(ActiveDivisions, staff)!LessonSlots :
           Engine(ActiveDivisions, staff)!CellMatchesIncludeOnlyRule(r, c[1], c[2])}
Unblocked(r) ==
    LET staff == ScopeTeachers(teachers)
    IN  \A c \in r.cells :
          /\ ~ Engine(ActiveDivisions, staff)!IsDayBlockedByRule(r.subject, c[1])
          /\ ~ Engine(ActiveDivisions, staff)!IsSlotBlockedByRule(r.subject, c[2])

(* Where the engine can use every fixed rule of the request and no day or   *)
(* slot rule blocks one of their cells, the preflight passes.  It passes    *)
(* otherwise only for a fixed rule whose cells all lie in rows that are no  *)
(* lessons: it does not look at the type of a row.                          *)
PreflightMirrorsEngine ==
    /\ (\A r \in FixedRules : UsableCells(r) # {} /\ Unblocked(r)) => PreflightPasses
    /\ PreflightPasses => \A r \in FixedRules :
          /\ Unblocked(r)
          /\ \/ UsableCells(r) # {}
             \/ r.cells # {} /\ \A c \in r.cells : periods[c[2]].type # "LESSON"

(* The feasibility report, which only warns, catches what the preflight     *)
(* lets pass: without an error in it, every fixed rule that concerns a      *)
(* class which has the subject leaves the engine a cell.                    *)
ReportFindsUnusable ==
    ReportPasses => \A r \in FixedRules : \A d \in r.divisions \cap ActiveDivisions :
        AppliesTo(r.subject, d) => UsableCells(r) # {}

(* The feasibility report counts the cells, demands, teachers and weekly    *)
(* capacities the engine will work with, and misses no subject that is      *)
(* short of cells.                                                          *)
FeasibilityMirrorsEngine ==
    LET staff == ScopeTeachers(teachers)
        EngineCells(d, s) ==
            {c \in days \X Engine(ActiveDivisions, staff)!LessonSlots :
                /\ Engine(ActiveDivisions, staff)!SlotActive(c[2], c[1])
                /\ ~ Engine(ActiveDivisions, staff)!IsDayBlockedByRule(s, c[1])
                /\ ~ Engine(ActiveDivisions, staff)!IsSlotBlockedByRule(s, c[2])
                /\ Engine(ActiveDivisions, staff)!IsPlacementAllowedByIncludeOnly(s, d, c[1], c[2])}
    IN  /\ \A p \in {q \in ActiveDivisions \X DOMAIN subjects : AppliesTo(q[2], q[1])} :
             /\ p \in Engine(ActiveDivisions, staff)!ApplicablePairs
             /\ Placeable(p[1], p[2]) = Cardinality(EngineCells(p[1], p[2]))
             /\ Required(p[1], p[2]) = Engine(ActiveDivisions, staff)!WeeklyTarget[p]
             /\ Eligible(p[1], p[2]) = Engine(ActiveDivisions, staff)!CandidateTeachers(p)
        /\ ReportPasses <=> \A p \in Engine(ActiveDivisions, staff)!ApplicablePairs :
               Cardinality(EngineCells(p[1], p[2])) >= Engine(ActiveDivisions, staff)!WeeklyTarget[p]
        /\ ReportTeachers = staff
        /\ \A t \in DOMAIN staff :
             Supply(staff[t]) = Engine(ActiveDivisions, staff)!WeeklyCapacity[t]

(* Before a generation the preflight and the feasibility report derive      *)
(* again, in code of their own, what the engine derives from the school.    *)
(* Whatever the editors made of it, they come to the same result.           *)
ChecksMirrorEngine ==
    ChecksRun => PreflightMirrorsEngine /\ ReportFindsUnusable /\ FeasibilityMirrorsEngine

(* The header of tenantPreflightCheck.js promises a check for impossible    *)
(* fixed rules before a generation: a request that passes it has a cell for *)
(* every fixed rule.  It does not hold: a row a rule is fixed to can become *)
(* a break.                                                                 *)
PreflightFindsImpossible ==
    ChecksRun /\ PreflightPasses => \A r \in FixedRules : UsableCells(r) # {}
=============================================================================
