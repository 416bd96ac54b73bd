--------------------------- MODULE SchoolSetupProofs ---------------------------
(***************************************************************************)
(* Proofs about the editors of a school and the checks before a            *)
(* generation.  The editors keep every record well formed and a teacher's  *)
(* own restriction in line with the class the teacher is in charge of.     *)
(* That is all the checks need: what they derive from the six lists is     *)
(* then, for every school, what the engine derives from them.              *)
(***************************************************************************)
EXTENDS SchoolSetup, FiniteSetTheorems, SequenceTheorems, WellFoundedInduction, TLAPS

StaffOK(ts) ==
    \A t \in DOMAIN ts :
        /\ t \in TeacherIds /\ ts[t] \in TeacherRecords
        /\ HomeroomsWithin(ts[t])
        /\ \A d, e \in ts[t].homerooms : d = e

SubjectsOK(ss) == \A s \in DOMAIN ss : IsSubject(ss[s])

IInv ==
    /\ divisions \in [DOMAIN divisions -> DivisionRecords] /\ DOMAIN divisions \subseteq DivisionIds
    /\ DOMAIN subjects \subseteq SubjectIds /\ SubjectsOK(subjects)
    /\ teachers = [t \in DOMAIN teachers |-> teachers[t]] /\ StaffOK(teachers) /\ StaffOK(undo)
    /\ given \subseteq DivisionIds \cup SubjectIds \cup TeacherIds
    /\ periods \in Seq(PeriodRecords)
    /\ days \in (SUBSET Weekdays) \ {{}}
    /\ rules \subseteq RuleRecords /\ OnePerKind(rules)

\* the ids given out are of the three kinds
GivenOK == given \subseteq DivisionIds \cup SubjectIds \cup TeacherIds

-----------------------------------------------------------------------------
(* Sets of numbers                                                         *)

LEMMA HasLeast ==
    ASSUME NEW S \in SUBSET Nat, S # {}
    PROVE  Min(S) \in S /\ \A x \in S : Min(S) <= x
<1> DEFINE R == OpToRel(<, Nat)
<1>1. PICK x \in S : \A y \in S : <<y, x>> \notin R
  <2> HIDE DEF R
  <2>1. IsWellFoundedOn(R, Nat)
    BY NatLessThanWellFounded DEF R
  <2> QED
    BY <2>1, WFMin
<1>2. ASSUME NEW y \in S PROVE x <= y
  <2>1. x \in Nat /\ y \in Nat /\ ~ (y < x)
    BY <1>1 DEF OpToRel
  <2> QED
    BY <2>1
<1> QED
  BY <1>2 DEF Min

-----------------------------------------------------------------------------
(* The records the editors make                                            *)

\* the class of a teacher who is cleaned of classes stays within the restriction
LEMMA CleanedStaff ==
    ASSUME StaffOK(teachers), NEW ds
    PROVE  StaffOK(CleanRefs(ds))
<1> SUFFICES ASSUME NEW t \in DOMAIN teachers
             PROVE  /\ t \in TeacherIds /\ CleanRefs(ds)[t] \in TeacherRecords
                    /\ HomeroomsWithin(CleanRefs(ds)[t])
                    /\ \A d, e \in CleanRefs(ds)[t].homerooms : d = e
  BY DEF StaffOK, CleanRefs
<1> DEFINE old == teachers[t]
           new == CleanRefs(ds)[t]
<1>1. /\ t \in TeacherIds /\ old \in TeacherRecords /\ HomeroomsWithin(old)
      /\ \A d, e \in old.homerooms : d = e
  BY DEF StaffOK
<1>2. new = [old EXCEPT !.assigned = @ \cap DOMAIN ds, !.homerooms = @ \cap DOMAIN ds]
  BY DEF CleanRefs
<1> HIDE DEF old, new
<1>3. new \in TeacherRecords /\ new.assigned = old.assigned \cap DOMAIN ds
      /\ new.homerooms = old.homerooms \cap DOMAIN ds
  BY <1>1, <1>2 DEF TeacherRecords
<1>4. HomeroomsWithin(new) /\ \A d, e \in new.homerooms : d = e
  BY <1>1, <1>3 DEF HomeroomsWithin
<1> QED
  BY <1>1, <1>3, <1>4 DEF new

\* a change of one list, and what it needs for the invariant
LEMMA DivisionsChanged ==
    ASSUME IInv, NEW ds, ChangeDivisions(ds), GivenOK',
           ds \in [DOMAIN ds -> DivisionRecords], DOMAIN ds \subseteq DivisionIds
    PROVE  IInv'
<1>1. StaffOK(CleanRefs(ds)) /\ CleanRefs(ds) = [t \in DOMAIN CleanRefs(ds) |-> CleanRefs(ds)[t]]
  BY CleanedStaff DEF IInv, CleanRefs
<1> QED
  BY <1>1 DEF IInv, ChangeDivisions, GivenOK, StaffOK

LEMMA PeriodsChanged ==
    ASSUME IInv, NEW rows, ChangePeriods(rows), rows \in Seq(PeriodRecords)
    PROVE  IInv'
BY DEF IInv, ChangePeriods, StaffOK

LEMMA StaffChanged ==
    ASSUME IInv, NEW ss, NEW ts, ChangeStaff(ss, ts), GivenOK', StaffOK(undo)',
           DOMAIN ss \subseteq SubjectIds, SubjectsOK(ss), ts = [t \in DOMAIN ts |-> ts[t]], StaffOK(ts)
    PROVE  IInv'
BY DEF IInv, ChangeStaff, GivenOK, StaffOK

LEMMA RulesChanged ==
    ASSUME IInv, NEW rs, ChangeRules(rs), rs \subseteq RuleRecords, OnePerKind(rs)
    PROVE  IInv'
BY DEF IInv, ChangeRules, StaffOK, OnePerKind

LEMMA InitSetup == Init => IInv
<1> SUFFICES ASSUME Init PROVE IInv
  OBVIOUS
<1>1. StaffOK(undo)
  BY DEF Init, StaffOK
<1>2. StaffOK(teachers) /\ teachers = [t \in DOMAIN teachers |-> teachers[t]]
  BY StartAssumption DEF Init, StaffOK
<1> QED
  BY <1>1, <1>2, StartAssumption DEF Init, IInv, SubjectsOK

-----------------------------------------------------------------------------
(* The steps of the structure                                              *)

LEMMA NewDivisionsStep ==
    ASSUME IInv, NEW std \in Standards, NEW medium \in Mediums,
           NEW new \in SUBSET DivisionIds, NewDivisions(std, medium, new)
    PROVE  IInv'
<1> DEFINE ds == [d \in DOMAIN divisions \cup new |->
                    IF d \in new THEN [standard |-> std, medium |-> medium, paused |-> FALSE]
                    ELSE divisions[d]]
<1>1. ChangeDivisions(ds) /\ GivenOK'
  BY DEF NewDivisions, IInv, GivenOK
<1>2. ds \in [DOMAIN ds -> DivisionRecords] /\ DOMAIN ds \subseteq DivisionIds
  BY DEF IInv, DivisionRecords
<1> HIDE DEF ds
<1> QED
  BY <1>1, <1>2, DivisionsChanged

LEMMA PausedStep ==
    ASSUME IInv, NEW d \in DOMAIN divisions, SetDivisionPaused(d)
    PROVE  IInv'
<1> DEFINE ds == [divisions EXCEPT ![d].paused = ~ @]
<1>1. ChangeDivisions(ds) /\ GivenOK'
  BY DEF SetDivisionPaused, IInv, GivenOK
<1>2. ds \in [DOMAIN ds -> DivisionRecords] /\ DOMAIN ds \subseteq DivisionIds
  BY DEF IInv, DivisionRecords
<1> HIDE DEF ds
<1> QED
  BY <1>1, <1>2, DivisionsChanged

LEMMA StandardPausedStep ==
    ASSUME IInv, NEW std \in Standards, SetStandardPaused(std)
    PROVE  IInv'
<1> DEFINE own == {d \in DOMAIN divisions : divisions[d].standard = std}
           pause == \E d \in own : ~ divisions[d].paused
           ds == [d \in DOMAIN divisions |->
                    IF d \in own THEN [divisions[d] EXCEPT !.paused = pause] ELSE divisions[d]]
<1>1. ChangeDivisions(ds) /\ GivenOK'
  BY DEF SetStandardPaused, IInv, GivenOK
<1>2. pause \in BOOLEAN
  OBVIOUS
<1> HIDE DEF pause
<1>3. ds \in [DOMAIN ds -> DivisionRecords] /\ DOMAIN ds \subseteq DivisionIds
  BY <1>2 DEF IInv, DivisionRecords
<1> HIDE DEF ds
<1> QED
  BY <1>1, <1>3, DivisionsChanged

LEMMA RemovedStep ==
    ASSUME IInv, NEW gone, RemoveDivisions(gone)
    PROVE  IInv'
<1> DEFINE ds == [d \in DOMAIN divisions \ gone |-> divisions[d]]
<1>1. ChangeDivisions(ds) /\ GivenOK'
  BY DEF RemoveDivisions, IInv, GivenOK
<1>2. ds \in [DOMAIN ds -> DivisionRecords] /\ DOMAIN ds \subseteq DivisionIds
  BY DEF IInv
<1> HIDE DEF ds
<1> QED
  BY <1>1, <1>2, DivisionsChanged

LEMMA MediumStep ==
    ASSUME IInv, NEW d \in DOMAIN divisions, NEW medium \in Mediums, ChangeMedium(d, medium)
    PROVE  IInv'
<1> DEFINE ds == [divisions EXCEPT ![d].medium = medium]
<1>1. ChangeDivisions(ds) /\ GivenOK'
  BY DEF ChangeMedium, IInv, GivenOK
<1>2. ds \in [DOMAIN ds -> DivisionRecords] /\ DOMAIN ds \subseteq DivisionIds
  BY DEF IInv, DivisionRecords
<1> HIDE DEF ds
<1> QED
  BY <1>1, <1>2, DivisionsChanged

LEMMA ToggleDayStep ==
    ASSUME IInv, NEW day \in Weekdays, ToggleDay(day)
    PROVE  IInv'
<1>1. Toggled(days, day) \in (SUBSET Weekdays) \ {{}}
  <2>1. days \in (SUBSET Weekdays) \ {{}} /\ days # {day}
    BY DEF IInv, ToggleDay
  <2>2. CASE day \in days
    BY <2>1, <2>2 DEF Toggled
  <2>3. CASE day \notin days
    <3>1. Toggled(days, day) = days \cup {day} /\ day \in days \cup {day}
      BY <2>3 DEF Toggled
    <3>2. days \cup {day} \in SUBSET Weekdays
      BY <2>1
    <3>3. Toggled(days, day) \in SUBSET Weekdays
      BY <3>1, <3>2
    <3>4. day \in Toggled(days, day)
      BY <3>1
    <3> QED
      BY <3>3, <3>4
  <2> QED
    BY <2>2, <2>3
<1> QED
  BY <1>1 DEF IInv, ToggleDay, StaffOK

\* weekdays of a row are some that are worked
LEMMA NormalIs ==
    ASSUME days \in (SUBSET Weekdays) \ {{}}, NEW active \in SUBSET Weekdays
    PROVE  NormalDays(active) \in (SUBSET days) \ {{}}
BY DEF NormalDays

LEMMA RowsTyped ==
    ASSUME periods \in Seq(PeriodRecords), NEW n \in DOMAIN periods
    PROVE  periods[n] \in PeriodRecords /\ n \in 1..Len(periods) /\ Len(periods) \in Nat
OBVIOUS

LEMMA GridStep ==
    ASSUME IInv, NEW n \in DOMAIN periods,
           \/ \E day \in days : ToggleSlotWeekday(n, day)
           \/ \E type \in SlotTypes, active \in (SUBSET days) \ {{}} : SaveSlot(n, type, active)
           \/ RemoveSlot(n)
    PROVE  IInv'
<1>0. periods \in Seq(PeriodRecords) /\ periods[n] \in PeriodRecords /\ days \in (SUBSET Weekdays) \ {{}}
      /\ n \in 1..Len(periods)
  BY RowsTyped DEF IInv
<1>1. ASSUME NEW day \in days, ToggleSlotWeekday(n, day) PROVE IInv'
  <2> DEFINE active == Toggled(NormalDays(periods[n].active), day)
             rows == [periods EXCEPT ![n].active = active]
  <2>1. ChangePeriods(rows)
    BY <1>1 DEF ToggleSlotWeekday
  <2>2. active \in SUBSET Weekdays
    BY <1>0, NormalIs DEF Toggled, PeriodRecords
  <2> HIDE DEF active
  <2>3. [periods[n] EXCEPT !.active = active] \in PeriodRecords
    BY <1>0, <2>2 DEF PeriodRecords
  <2>4. rows \in Seq(PeriodRecords)
    BY <1>0, <2>3
  <2> HIDE DEF rows
  <2> QED
    BY <2>1, <2>4, PeriodsChanged
<1>2. ASSUME NEW type \in SlotTypes, NEW active \in SUBSET days, SaveSlot(n, type, active) PROVE IInv'
  <2> DEFINE rows == [periods EXCEPT ![n] = [type |-> type, active |-> active]]
  <2>1. ChangePeriods(rows)
    BY <1>2 DEF SaveSlot
  <2>2. rows \in Seq(PeriodRecords)
    BY <1>0 DEF PeriodRecords
  <2> HIDE DEF rows
  <2> QED
    BY <2>1, <2>2, PeriodsChanged
<1>3. ASSUME RemoveSlot(n) PROVE IInv'
  <2> DEFINE rows == RemoveAt(periods, n)
  <2>1. ChangePeriods(rows)
    BY <1>3 DEF RemoveSlot
  <2>2. rows \in Seq(PeriodRecords)
    <3>1. rows = SubSeq(periods, 1, n - 1) \o SubSeq(periods, n + 1, Len(periods))
      BY DEF RemoveAt
    <3>2. SubSeq(periods, 1, n - 1) \in Seq(PeriodRecords)
          /\ SubSeq(periods, n + 1, Len(periods)) \in Seq(PeriodRecords)
      BY <1>0
    <3> QED
      BY <3>1, <3>2, ConcatProperties
  <2> HIDE DEF rows
  <2> QED
    BY <2>1, <2>2, PeriodsChanged
<1> QED
  BY <1>1, <1>2, <1>3

LEMMA AddSlotStep ==
    ASSUME IInv, AddSlot
    PROVE  IInv'
<1> DEFINE row == [type |-> "LESSON", active |-> days]
           rows == Append(periods, row)
<1>1. ChangePeriods(rows)
  BY DEF AddSlot
<1>2. rows \in Seq(PeriodRecords)
  BY DEF IInv, PeriodRecords, SlotTypes
<1> HIDE DEF rows
<1> QED
  BY <1>1, <1>2, PeriodsChanged

-----------------------------------------------------------------------------
(* The steps of the staff                                                  *)

\* what a dialog saves is a subject, whatever is cleaned out of it
LEMMA CleanedSubject ==
    ASSUME NEW form, IsSubject(form)
    PROVE  IsSubject(CleanSubject(form))
<1> DEFINE allowed == {d \in DOMAIN divisions : divisions[d].standard \in form.standards}
           include == form.include \cap allowed
           limits == [d \in DOMAIN form.weeklyIn \cap allowed |-> form.weeklyIn[d]]
           new == CleanSubject(form)
<1>1. limits \in [DOMAIN limits -> Nat \ {0}] /\ DOMAIN limits \subseteq DOMAIN form.weeklyIn
  BY DEF IsSubject
<1>2. new = [form EXCEPT !.include = include, !.exclude = (form.exclude \cap allowed) \ include,
                         !.weeklyIn = limits]
  BY DEF CleanSubject
<1> HIDE DEF allowed, include, limits, new
<1>3. /\ new = [standards |-> form.standards, mediums |-> form.mediums, include |-> include,
                exclude |-> (form.exclude \cap allowed) \ include,
                weekly |-> form.weekly, weeklyIn |-> limits]
  BY <1>2 DEF IsSubject
<1>4. include \subseteq form.include
  BY DEF include
<1> QED
  BY <1>1, <1>3, <1>4 DEF IsSubject, new

LEMMA SaveSubjectStep ==
    ASSUME IInv, NEW s \in SubjectIds, NEW form \in SubjectForms, SaveSubject(s, form)
    PROVE  IInv'
<1> DEFINE ss == With(subjects, s, CleanSubject(form))
<1>1. ChangeStaff(ss, teachers) /\ GivenOK' /\ StaffOK(undo)'
  BY DEF SaveSubject, IInv, GivenOK, StaffOK
<1>2. DOMAIN ss \subseteq SubjectIds /\ SubjectsOK(ss)
  <2>1. IsSubject(CleanSubject(form))
    BY CleanedSubject, DialogsAssumption
  <2> QED
    BY <2>1 DEF IInv, With, SubjectsOK
<1> HIDE DEF ss
<1> QED
  BY <1>1, <1>2, StaffChanged DEF IInv

LEMMA RemoveSubjectStep ==
    ASSUME IInv, NEW s, RemoveSubject(s)
    PROVE  IInv'
<1> DEFINE ss == [x \in DOMAIN subjects \ {s} |-> subjects[x]]
<1>1. ChangeStaff(ss, teachers) /\ GivenOK' /\ StaffOK(undo)'
  BY DEF RemoveSubject, IInv, GivenOK, StaffOK
<1>2. DOMAIN ss \subseteq SubjectIds /\ SubjectsOK(ss)
  BY DEF IInv, SubjectsOK
<1> HIDE DEF ss
<1> QED
  BY <1>1, <1>2, StaffChanged DEF IInv

LEMMA CappedTyped ==
    ASSUME NEW limit \in Nat, NEW computed \in Nat
    PROVE  Capped(limit, computed) \in Nat
<1>1. Min({computed, limit}) \in Nat
  <2>1. {computed, limit} \in SUBSET Nat /\ {computed, limit} # {}
    OBVIOUS
  <2> QED
    BY <2>1, HasLeast
<1>2. \A k \in Nat : Max({1, k}) \in Nat
  <2> TAKE k \in Nat
  <2>1. \E x \in {1, k} : \A y \in {1, k} : x >= y
    OBVIOUS
  <2> QED
    BY <2>1 DEF Max
<1> QED
  BY <1>1, <1>2 DEF Capped

LEMMA LessonRowsFinite ==
    ASSUME periods \in Seq(PeriodRecords)
    PROVE  /\ IsFiniteSet(LessonRows) /\ Cardinality(LessonRows) \in Nat
           /\ LessonRows \in SUBSET (Nat \ {0})
<1>1. LessonRows \subseteq 1..Len(periods) /\ Len(periods) \in Nat
  BY DEF LessonRows
<1>2. IsFiniteSet(1..Len(periods))
  BY <1>1, FS_Interval
<1>3. IsFiniteSet(LessonRows)
  BY <1>1, <1>2, FS_Subset
<1>4. Cardinality(LessonRows) \in Nat
  BY <1>3, FS_CardinalityType
<1>5. 1..Len(periods) \subseteq Nat \ {0}
  BY <1>1
<1> QED
  BY <1>1, <1>3, <1>4, <1>5

\* the lesson rows before lunch, as the capacity formula has them
Morning ==
    IF HasLunch /\ AfterLunch # {} THEN LessonRows \ AfterLunch
    ELSE {n \in LessonRows : n <= (Cardinality(LessonRows) + 1) \div 2}

LEMMA MaxOfTwo ==
    ASSUME NEW j \in Nat, NEW k \in Nat
    PROVE  Max({j, k}) = IF j > k THEN j ELSE k
<1>1. \E x \in {j, k} : \A y \in {j, k} : x >= y
  OBVIOUS
<1>2. Max({j, k}) \in {j, k} /\ \A y \in {j, k} : Max({j, k}) >= y
  BY <1>1 DEF Max
<1> QED
  BY <1>2

LEMMA MinOfTwo ==
    ASSUME NEW j \in Nat, NEW k \in Nat
    PROVE  Min({j, k}) = IF k < j THEN k ELSE j
<1>1. {j, k} \in SUBSET Nat /\ {j, k} # {}
  OBVIOUS
<1>2. Min({j, k}) \in {j, k} /\ \A y \in {j, k} : Min({j, k}) <= y
  BY <1>1, HasLeast
<1> QED
  BY <1>2

LEMMA CapacityTyped ==
    ASSUME IInv, NEW teacher, teacher.freeMorning \in Nat, teacher.freeEvening \in Nat
    PROVE  /\ Cardinality(Morning) \in Nat /\ Cardinality(days) \in Nat
           /\ ComputedDaily(teacher) = Rest(Cardinality(Morning), teacher.freeMorning)
                + Rest(Cardinality(LessonRows) - Cardinality(Morning), teacher.freeEvening)
           /\ ComputedDaily(teacher) \in Nat
           /\ ComputedDaily(teacher) * Cardinality(days) \in Nat
           /\ ComputedWeekly(teacher) \in Nat
<1>1. IsFiniteSet(LessonRows) /\ Cardinality(LessonRows) \in Nat
  BY LessonRowsFinite DEF IInv
<1>2. Cardinality(Morning) \in Nat
  <2>1. Morning \subseteq LessonRows
    BY DEF Morning
  <2> QED
    BY <1>1, <2>1, FS_Subset, FS_CardinalityType
<1>3. Cardinality(days) \in Nat
  <2>1. days \subseteq Weekdays /\ IsFiniteSet(Weekdays)
    BY SetupAssumption DEF IInv
  <2> QED
    BY <2>1, FS_Subset, FS_CardinalityType
<1>4. ComputedDaily(teacher) = Rest(Cardinality(Morning), teacher.freeMorning)
                + Rest(Cardinality(LessonRows) - Cardinality(Morning), teacher.freeEvening)
  BY DEF ComputedDaily, Morning
<1>5. ComputedDaily(teacher) \in Nat
  BY <1>1, <1>2, <1>4 DEF Rest
<1>6. ComputedDaily(teacher) * Cardinality(days) \in Nat
  BY <1>3, <1>5
<1>7. ComputedWeekly(teacher) \in Nat
  <2> DEFINE weekly == ComputedDaily(teacher) * Cardinality(days)
  <2>1. weekly \in Nat /\ 30 \in Nat
    BY <1>6
  <2> HIDE DEF weekly
  <2>2. Max({30, weekly}) \in Nat
    BY <2>1, MaxOfTwo
  <2> QED
    BY <2>2 DEF ComputedWeekly, weekly
<1> QED
  BY <1>2, <1>3, <1>4, <1>5, <1>6, <1>7

\* what a dialog saves is a record, and the class of the teacher is among the
\* classes the teacher is restricted to
LEMMA SaveTeacherStep ==
    ASSUME IInv, NEW t \in TeacherIds, NEW form \in TeacherForms, SaveTeacher(t, form)
    PROVE  IInv'
<1> DEFINE old == Stored(t)
           others == UNION {teachers[x].homerooms : x \in DOMAIN teachers \ {t}}
           among(assigned) == HomeroomsAmong(form.homerooms, assigned)
           saved(assigned) ==
             [form EXCEPT
                !.assigned = assigned, !.homerooms = among(assigned), !.paused = old.paused,
                !.excluded = {x \in @ : x[1] \in ClassesOf(assigned) /\ x[2] \in form.subjects},
                !.perDay = Capped(@, ComputedDaily(form)),
                !.perWeek = Capped(@, ComputedWeekly(form))]
<1>1. PICK assigned \in {Assignment(form.assigned)} \cup ({form.assigned} \cap {old.assigned}) :
         /\ ChangeStaff(subjects, With(teachers, t, saved(assigned)))
         /\ given' = given \cup {t}
         /\ UNCHANGED undo
  BY DEF SaveTeacher
<1>2. form \in TeacherRecords /\ \A d, e \in form.homerooms : d = e
  BY DialogsAssumption
<1>3. assigned \in SUBSET DivisionIds
  BY <1>1, <1>2 DEF Assignment, TeacherRecords
<1>4. old.paused \in BOOLEAN
  BY DEF Stored, IInv, StaffOK, TeacherRecords
<1>5. among(assigned) \in SUBSET DivisionIds /\ among(assigned) \subseteq form.homerooms
      /\ (assigned # {} => among(assigned) \subseteq assigned)
  BY <1>2 DEF HomeroomsAmong, ClassesOf, TeacherRecords
<1>6. Capped(form.perDay, ComputedDaily(form)) \in Nat /\ Capped(form.perWeek, ComputedWeekly(form)) \in Nat
  BY <1>2, CapacityTyped, CappedTyped DEF TeacherRecords
<1> DEFINE record == saved(assigned)
<1>7. record \in TeacherRecords /\ record.assigned = assigned /\ record.homerooms = among(assigned)
  <2> HIDE DEF old, among
  <2> QED
    BY <1>2, <1>3, <1>4, <1>5, <1>6 DEF TeacherRecords
<1> HIDE DEF record, among
<1>8. HomeroomsWithin(record) /\ \A d, e \in record.homerooms : d = e
  BY <1>2, <1>5, <1>7 DEF HomeroomsWithin
<1> DEFINE ts == With(teachers, t, record)
<1>9. StaffOK(ts) /\ ts = [x \in DOMAIN ts |-> ts[x]]
  BY <1>7, <1>8 DEF With, StaffOK, IInv
<1>10. ChangeStaff(subjects, ts) /\ GivenOK' /\ StaffOK(undo)'
  BY <1>1 DEF record, GivenOK, IInv, StaffOK
<1> HIDE DEF ts
<1> QED
  BY <1>9, <1>10, StaffChanged DEF IInv

LEMMA TeacherPausedStep ==
    ASSUME IInv, NEW t \in DOMAIN teachers, SetTeacherPaused(t)
    PROVE  IInv'
<1> DEFINE record == [teachers[t] EXCEPT !.paused = ~ @]
           ts == [teachers EXCEPT ![t].paused = ~ @]
<1> DEFINE old == teachers[t]
<1>0. /\ t \in TeacherIds /\ old \in TeacherRecords /\ HomeroomsWithin(old)
      /\ \A d, e \in old.homerooms : d = e
  BY DEF IInv, StaffOK
<1>1. /\ record \in TeacherRecords
      /\ record.assigned = old.assigned /\ record.homerooms = old.homerooms
  <2> HIDE DEF old
  <2>1. record = [old EXCEPT !.paused = ~ old.paused] /\ (~ old.paused) \in BOOLEAN
    BY DEF old
  <2> HIDE DEF record
  <2> QED
    BY <1>0, <2>1 DEF TeacherRecords
<1>2. ts = [x \in DOMAIN teachers |-> IF x = t THEN record ELSE teachers[x]]
  BY DEF IInv
<1> HIDE DEF record
<1>3. HomeroomsWithin(record) /\ \A d, e \in record.homerooms : d = e
  BY <1>0, <1>1 DEF HomeroomsWithin
<1> HIDE DEF ts
<1>4. StaffOK(ts) /\ ts = [x \in DOMAIN ts |-> ts[x]]
  <2>1. DOMAIN ts = DOMAIN teachers /\ StaffOK(teachers)
        /\ \A x \in DOMAIN teachers : ts[x] = IF x = t THEN record ELSE teachers[x]
    BY <1>2 DEF IInv
  <2> QED
    BY <1>0, <1>1, <1>2, <1>3, <2>1 DEF StaffOK
<1>5. ChangeStaff(subjects, ts) /\ GivenOK' /\ StaffOK(undo)'
  BY DEF SetTeacherPaused, GivenOK, IInv, StaffOK, ts
<1> QED
  BY <1>4, <1>5, StaffChanged DEF IInv

LEMMA RemoveTeacherStep ==
    ASSUME IInv, NEW t \in DOMAIN teachers, RemoveTeacher(t)
    PROVE  IInv'
<1> DEFINE ts == [x \in DOMAIN teachers \ {t} |-> teachers[x]]
<1>1. StaffOK(ts) /\ ts = [x \in DOMAIN ts |-> ts[x]]
  BY DEF StaffOK, IInv
<1>2. ChangeStaff(subjects, ts) /\ GivenOK' /\ undo' = [x \in {t} |-> teachers[t]]
  BY DEF RemoveTeacher, GivenOK, IInv
<1>3. StaffOK(undo)'
  BY <1>2 DEF StaffOK, IInv
<1> HIDE DEF ts
<1> QED
  BY <1>1, <1>2, <1>3, StaffChanged DEF IInv

LEMMA UndoRemoveStep ==
    ASSUME IInv, UndoRemoveTeacher
    PROVE  IInv'
<1> DEFINE ts == [x \in DOMAIN teachers \cup DOMAIN undo |->
                    IF x \in DOMAIN teachers THEN teachers[x] ELSE undo[x]]
<1>1. StaffOK(ts) /\ ts = [x \in DOMAIN ts |-> ts[x]]
  BY DEF StaffOK, IInv
<1>2. ChangeStaff(subjects, ts) /\ GivenOK' /\ undo' = <<>>
  BY DEF UndoRemoveTeacher, GivenOK, IInv
<1>3. StaffOK(undo)'
  BY <1>2 DEF StaffOK
<1> HIDE DEF ts
<1> QED
  BY <1>1, <1>2, <1>3, StaffChanged DEF IInv

-----------------------------------------------------------------------------
(* The steps of the rules                                                  *)

\* rules of one subject, one of a kind
OwnRules(rs, s) == rs \subseteq RuleRecords /\ OnePerKind(rs) /\ \A r \in rs : r.subject = s

LEMMA UpsertOwn ==
    ASSUME NEW rs, NEW s, OwnRules(rs, s), NEW r \in RuleRecords, r.subject = s
    PROVE  OwnRules(Upsert(rs, r), s)
BY DEF OwnRules, Upsert, OnePerKind

LEMMA WithoutOwn ==
    ASSUME NEW rs, NEW s, OwnRules(rs, s), NEW kind
    PROVE  OwnRules(Without(rs, kind, s), s)
BY DEF OwnRules, Without, OnePerKind

LEMMA FixedDaysTyped ==
    ASSUME IInv, NEW p \in PreferenceRecords
    PROVE  FixedDays(p) \in SUBSET Weekdays
<1>1. p.onDays \in SUBSET Weekdays /\ days \in SUBSET Weekdays
  <2>1. days \in SUBSET Weekdays
    BY DEF IInv
  <2> QED
    BY <2>1 DEF PreferenceRecords
<1>2. ASSUME ~ (days \subseteq p.exDays) PROVE Min(days \ p.exDays) \in Weekdays
  <2>1. days \ p.exDays \in SUBSET Nat /\ days \ p.exDays # {}
    BY <1>1, <1>2, SetupAssumption
  <2> QED
    BY <1>1, <2>1, HasLeast
<1> QED
  BY <1>1, <1>2 DEF FixedDays

\* what the dialog makes of a preference is a rule of the subject
LEMMA PreferenceRules ==
    ASSUME IInv, NEW p \in PreferenceRecords, NEW s \in SubjectIds
    PROVE  /\ SlotRule(s, p) \in RuleRecords /\ SlotRule(s, p).subject = s
           /\ DayRule(s, p) \in RuleRecords /\ DayRule(s, p).subject = s
           /\ FixedRule(s, p) \in RuleRecords /\ FixedRule(s, p).subject = s
<1>1. SlotRule(s, p) \in RuleRecords /\ SlotRule(s, p).subject = s
  BY DEF SlotRule, RuleRecords, PreferenceRecords
<1>2. DayRule(s, p) \in RuleRecords /\ DayRule(s, p).subject = s
  BY DEF DayRule, RuleRecords, PreferenceRecords
<1>3. FixedRule(s, p) \in RuleRecords /\ FixedRule(s, p).subject = s
  <2> DEFINE cells == FixedDays(p) \X {p.slot}
  <2>1. FixedDays(p) \in SUBSET Weekdays /\ p.slot \in Nat
    BY FixedDaysTyped DEF PreferenceRecords
  <2>2. cells \in SUBSET (Weekdays \X Nat)
    BY <2>1
  <2>3. FixedRule(s, p) =
          [kind |-> "INCLUDE_ONLY", subject |-> s, active |-> p.active, divisions |-> p.classes,
           mode |-> "CUSTOM", cells |-> cells]
    BY DEF FixedRule
  <2> HIDE DEF cells
  <2> QED
    BY <2>2, <2>3 DEF RuleRecords, PreferenceRecords
<1> QED
  BY <1>1, <1>2, <1>3

LEMMA PreferenceApplied ==
    ASSUME IInv, NEW p \in PreferenceRecords, NEW s \in SubjectIds, NEW opened,
           NEW rs, OwnRules(rs, s)
    PROVE  OwnRules(ApplyPreference(rs, s, p, opened), s)
<1> DEFINE slots == IF p.targets = {} THEN Without(rs, "EXCLUDE_SLOT", s)
                    ELSE Upsert(rs, SlotRule(s, p))
           both == IF p.exDays = {} THEN Without(slots, "EXCLUDE_DAY", s)
                   ELSE Upsert(slots, DayRule(s, p))
<1>1. OwnRules(slots, s)
  BY WithoutOwn, UpsertOwn, PreferenceRules
<1>2. OwnRules(both, s)
  <2> HIDE DEF slots
  <2> QED
    BY <1>1, WithoutOwn, UpsertOwn, PreferenceRules
<1>3. ApplyPreference(rs, s, p, opened) =
        IF p.classes # {} THEN Upsert(both, FixedRule(s, p))
        ELSE IF opened = s THEN Without(both, "INCLUDE_ONLY", s)
        ELSE both
  BY DEF ApplyPreference
<1> HIDE DEF both
<1> QED
  BY <1>2, <1>3, WithoutOwn, UpsertOwn, PreferenceRules

LEMMA SavePreferenceStep ==
    ASSUME IInv, NEW chosen \in SUBSET DOMAIN subjects, NEW p \in Preferences, NEW opened,
           SavePreference(chosen, p, opened)
    PROVE  IInv'
<1> DEFINE own(s) == {r \in rules : r.subject = s}
           saved(s) == ApplyPreference(own(s), s, p, opened)
           others == {r \in rules : r.subject \notin chosen}
           rs == others \cup UNION {saved(s) : s \in chosen}
<1>1. ChangeRules(rs)
  BY DEF SavePreference
<1>2. p \in PreferenceRecords
  BY DialogsAssumption
<1>3. ASSUME NEW s \in chosen PROVE OwnRules(saved(s), s)
  <2>1. OwnRules(own(s), s) /\ s \in SubjectIds
    BY DEF OwnRules, IInv, OnePerKind
  <2> HIDE DEF own
  <2> QED
    BY <1>2, <2>1, PreferenceApplied
<1> HIDE DEF saved
<1>4. rs \subseteq RuleRecords
  BY <1>3 DEF OwnRules, IInv
<1>5. OnePerKind(rs)
  <2> SUFFICES ASSUME NEW q \in rs, NEW r \in rs, q.kind = r.kind, q.subject = r.subject
               PROVE  q = r
    BY DEF OnePerKind
  <2>1. CASE q \in others /\ r \in others
    BY <2>1 DEF IInv, OnePerKind
  <2>2. \A x \in rs : x \notin others => x.subject \in chosen /\ x \in saved(x.subject)
    BY <1>3 DEF OwnRules
  <2>3. CASE q \notin others \/ r \notin others
    <3>1. q \notin others /\ r \notin others
      BY <2>2, <2>3
    <3>2. q.subject \in chosen /\ q \in saved(q.subject) /\ r \in saved(q.subject)
      BY <2>2, <3>1
    <3> QED
      BY <1>3, <3>2 DEF OwnRules, OnePerKind
  <2> QED
    BY <2>1, <2>3
<1> HIDE DEF rs
<1> QED
  BY <1>1, <1>4, <1>5, RulesChanged

LEMMA RuleStep ==
    ASSUME IInv, NEW r \in rules, ToggleRule(r) \/ DeleteRule(r)
    PROVE  IInv'
<1>1. ASSUME ToggleRule(r) PROVE IInv'
  <2> DEFINE flag == ~ r.active
             new == [r EXCEPT !.active = flag]
             rs == (rules \ {r}) \cup {new}
  <2>1. ChangeRules(rs)
    BY <1>1 DEF ToggleRule
  <2>2. flag \in BOOLEAN /\ r \in RuleRecords
    BY DEF IInv
  <2> HIDE DEF flag
  <2>3. new \in RuleRecords /\ new.kind = r.kind /\ new.subject = r.subject
    BY <2>2 DEF RuleRecords
  <2> HIDE DEF new
  <2>4. rs \subseteq RuleRecords /\ OnePerKind(rs)
    BY <2>3 DEF IInv, OnePerKind
  <2> HIDE DEF rs
  <2> QED
    BY <2>1, <2>4, RulesChanged
<1>2. ASSUME DeleteRule(r) PROVE IInv'
  <2>1. rules \ {r} \subseteq RuleRecords /\ OnePerKind(rules \ {r})
    BY DEF IInv, OnePerKind
  <2> QED
    BY <1>2, <2>1, RulesChanged DEF DeleteRule
<1> QED
  BY <1>1, <1>2

\* the cells of a fixed rule whose row is left and runs that day
KeptCells(r) ==
    {c \in r.cells : c[2] \in DOMAIN periods /\ c[1] \in NormalDays(periods[c[2]].active)}

LEMMA MigratedRuleIs ==
    ASSUME NEW r \in RuleRecords
    PROVE  /\ MigratedRule(r) \in RuleRecords
           /\ MigratedRule(r).kind = r.kind /\ MigratedRule(r).subject = r.subject
           /\ r.kind # "INCLUDE_ONLY" => MigratedRule(r) = r
           /\ r.kind = "INCLUDE_ONLY" =>
                /\ MigratedRule(r).cells = KeptCells(r)
                /\ MigratedRule(r).divisions = r.divisions /\ MigratedRule(r).mode = r.mode
<1>1. CASE r.kind # "INCLUDE_ONLY"
  BY <1>1 DEF MigratedRule
<1>2. CASE r.kind = "INCLUDE_ONLY"
  <2> DEFINE flag == r.active /\ KeptCells(r) # {}
             new == [r EXCEPT !.cells = KeptCells(r), !.active = flag]
  <2>1. MigratedRule(r) = IF KeptCells(r) = r.cells THEN r ELSE new
    BY <1>2 DEF MigratedRule, KeptCells
  <2>2. r \in [kind : {"INCLUDE_ONLY"}, subject : SubjectIds, active : BOOLEAN,
               divisions : SUBSET DivisionIds, mode : {"CUSTOM"}, cells : SUBSET (Weekdays \X Nat)]
    BY <1>2 DEF RuleRecords
  <2>3. flag \in BOOLEAN /\ KeptCells(r) \in SUBSET (Weekdays \X Nat)
    BY <2>2 DEF KeptCells
  <2> HIDE DEF flag
  <2>4. /\ new \in RuleRecords /\ new.kind = r.kind /\ new.subject = r.subject
        /\ new.cells = KeptCells(r) /\ new.divisions = r.divisions /\ new.mode = r.mode
    BY <2>2, <2>3 DEF RuleRecords
  <2> HIDE DEF new
  <2> QED
    BY <1>2, <2>1, <2>4
<1> QED
  BY <1>1, <1>2

LEMMA MigratedPeriodsIs ==
    ASSUME IInv
    PROVE  /\ MigratedPeriods \in Seq(PeriodRecords) /\ DOMAIN MigratedPeriods = DOMAIN periods
           /\ \A n \in DOMAIN periods : /\ MigratedPeriods[n].type = periods[n].type
                                        /\ MigratedPeriods[n].active = NormalDays(periods[n].active)
<1>1. /\ periods \in Seq(PeriodRecords) /\ days \in (SUBSET Weekdays) \ {{}}
      /\ DOMAIN periods = 1..Len(periods) /\ Len(periods) \in Nat
  BY DEF IInv
<1>2. ASSUME NEW n \in DOMAIN periods
      PROVE  /\ MigratedPeriods[n] \in PeriodRecords /\ MigratedPeriods[n].type = periods[n].type
             /\ MigratedPeriods[n].active = NormalDays(periods[n].active)
  <2> DEFINE row == periods[n]
             active == NormalDays(row.active)
  <2>1. row \in PeriodRecords
    BY <1>1, RowsTyped
  <2>2. active \in SUBSET Weekdays
    BY <1>1, <2>1, NormalIs DEF PeriodRecords
  <2>3. MigratedPeriods[n] = [row EXCEPT !.active = active]
    BY DEF MigratedPeriods
  <2> HIDE DEF row, active
  <2>4. MigratedPeriods[n] \in PeriodRecords /\ MigratedPeriods[n].type = row.type
        /\ MigratedPeriods[n].active = active
    BY <2>1, <2>2, <2>3 DEF PeriodRecords
  <2> QED
    BY <2>4 DEF row, active
<1>3. DOMAIN MigratedPeriods = DOMAIN periods
      /\ MigratedPeriods = [n \in 1..Len(periods) |-> MigratedPeriods[n]]
  BY <1>1 DEF MigratedPeriods
<1>4. MigratedPeriods \in [1..Len(periods) -> PeriodRecords]
  <2>1. \A n \in 1..Len(periods) : MigratedPeriods[n] \in PeriodRecords
    BY <1>1, <1>2
  <2> HIDE DEF MigratedPeriods
  <2> QED
    BY <1>3, <2>1
<1>5. MigratedPeriods \in Seq(PeriodRecords)
  BY <1>1, <1>4
<1> QED
  BY <1>2, <1>3, <1>5

LEMMA ReloadStep ==
    ASSUME IInv, Reload
    PROVE  IInv'
<1>1. MigratedPeriods \in Seq(PeriodRecords)
  BY MigratedPeriodsIs
<1>2. MigratedRules \subseteq RuleRecords /\ OnePerKind(MigratedRules)
  <2>1. rules \subseteq RuleRecords /\ OnePerKind(rules)
    BY DEF IInv
  <2> SUFFICES ASSUME NEW q \in rules, NEW r \in rules
               PROVE  /\ MigratedRule(q) \in RuleRecords
                      /\ \/ MigratedRule(q).kind # MigratedRule(r).kind
                         \/ MigratedRule(q).subject # MigratedRule(r).subject
                         \/ MigratedRule(q) = MigratedRule(r)
    BY DEF MigratedRules, OnePerKind
  <2> QED
    BY <2>1, MigratedRuleIs DEF OnePerKind
<1>3. StaffOK(CleanRefs(divisions))
      /\ CleanRefs(divisions) = [t \in DOMAIN CleanRefs(divisions) |-> CleanRefs(divisions)[t]]
  BY CleanedStaff DEF IInv, CleanRefs
<1>4. StaffOK(undo)'
  BY DEF Reload, StaffOK
<1>5. /\ periods' = MigratedPeriods /\ rules' = MigratedRules /\ teachers' = CleanRefs(divisions)
      /\ UNCHANGED <<divisions, subjects, days, given>>
  BY DEF Reload
<1> QED
  BY <1>1, <1>2, <1>3, <1>4, <1>5 DEF IInv, OnePerKind, StaffOK

-----------------------------------------------------------------------------
(* The specification                                                       *)

LEMMA NextSetup == IInv /\ [Next]_vars => IInv'
<1> SUFFICES ASSUME IInv, [Next]_vars PROVE IInv'
  OBVIOUS
<1>1. ASSUME EditStructure PROVE IInv'
  <2>1. ASSUME NEW std \in Standards, NEW medium \in Mediums, AddDivision(std, medium) PROVE IInv'
    BY <2>1, NewDivisionsStep DEF AddDivision
  <2>2. ASSUME NEW std \in Standards, QuickAdd(std) PROVE IInv'
    BY <2>2, NewDivisionsStep, SetupAssumption DEF QuickAdd
  <2>3. ASSUME NEW std \in Standards, SetStandardPaused(std) PROVE IInv'
    BY <2>3, StandardPausedStep
  <2>4. ASSUME NEW std \in Standards, RemoveStandard(std) PROVE IInv'
    BY <2>4, RemovedStep DEF RemoveStandard
  <2>5. ASSUME NEW d \in DOMAIN divisions,
               \/ SetDivisionPaused(d) \/ RemoveDivision(d)
               \/ \E medium \in Mediums : ChangeMedium(d, medium)
        PROVE  IInv'
    BY <2>5, PausedStep, RemovedStep, MediumStep DEF RemoveDivision
  <2>6. ASSUME NEW day \in Weekdays, ToggleDay(day) PROVE IInv'
    BY <2>6, ToggleDayStep
  <2>7. ASSUME NEW n \in DOMAIN periods,
               \/ \E day \in days : ToggleSlotWeekday(n, day)
               \/ \E type \in SlotTypes, active \in (SUBSET days) \ {{}} : SaveSlot(n, type, active)
               \/ RemoveSlot(n)
        PROVE  IInv'
    BY <2>7, GridStep
  <2> QED
    BY <1>1, <2>1, <2>2, <2>3, <2>4, <2>5, <2>6, <2>7, AddSlotStep, ReloadStep DEF EditStructure
<1>2. ASSUME EditStaff PROVE IInv'
  <2>1. ASSUME NEW s \in DOMAIN subjects \cup (SubjectIds \ given), NEW form \in SubjectForms,
               SaveSubject(s, form)
        PROVE  IInv'
    <3>1. s \in SubjectIds
      BY DEF IInv
    <3> QED
      BY <2>1, <3>1, SaveSubjectStep
  <2>2. ASSUME NEW t \in DOMAIN teachers \cup (TeacherIds \ given), NEW form \in TeacherForms,
               SaveTeacher(t, form)
        PROVE  IInv'
    <3>1. t \in TeacherIds
      BY DEF IInv, StaffOK
    <3> QED
      BY <2>2, <3>1, SaveTeacherStep
  <2> QED
    BY <1>2, <2>1, <2>2, RemoveSubjectStep, TeacherPausedStep, RemoveTeacherStep, UndoRemoveStep
    DEF EditStaff
<1>3. ASSUME EditRules PROVE IInv'
  BY <1>3, SavePreferenceStep, RuleStep DEF EditRules
<1>4. CASE UNCHANGED vars
  BY <1>4 DEF vars, setup, IInv, StaffOK, OnePerKind
<1> QED
  BY <1>1, <1>2, <1>3, <1>4 DEF Next

(* Whatever is edited, in whatever order, the six lists keep their shape,   *)
(* and no teacher is class teacher outside the classes the teacher is       *)
(* restricted to (SaveTeacher, cleanRefs, the undo of a removal).           *)
THEOREM SetupInvariance == Spec => []IInv
<1>1. Init => IInv
  BY InitSetup
<1>2. IInv /\ [Next]_vars => IInv'
  BY NextSetup
<1> QED
  BY <1>1, <1>2, PTL DEF Spec

(* The type invariant of the editors: a day is worked, every subject asks   *)
(* for a period at least, a teacher is class teacher of one class at most,  *)
(* and a subject has one rule of each kind.                                 *)
THEOREM SetupTyped == Spec => []TypeOK
<1>1. IInv => TypeOK
  <2> SUFFICES ASSUME IInv PROVE TypeOK
    OBVIOUS
  <2>1. teachers \in [DOMAIN teachers -> TeacherRecords] /\ DOMAIN teachers \subseteq TeacherIds
    BY DEF IInv, StaffOK
  <2>2. DOMAIN undo \subseteq TeacherIds
    BY DEF IInv, StaffOK
  <2>3. ASSUME NEW t \in DOMAIN teachers PROVE Cardinality(teachers[t].homerooms) <= 1
    <3> DEFINE own == teachers[t].homerooms
    <3>1. \A d, e \in own : d = e
      BY DEF IInv, StaffOK
    <3> HIDE DEF own
    <3>2. CASE own = {}
      BY <3>2, FS_EmptySet DEF own
    <3>3. CASE own # {}
      <4>1. PICK d \in own : own = {d}
        BY <3>1, <3>3
      <4>2. Cardinality(own) = 1
        BY <4>1, FS_Singleton
      <4> QED
        BY <4>2 DEF own
    <3> QED
      BY <3>2, <3>3
  <2> QED
    BY <2>1, <2>2, <2>3 DEF IInv, TypeOK, SubjectsOK
<1> QED
  BY <1>1, SetupInvariance, PTL

-----------------------------------------------------------------------------
(* Pausing                                                                 *)

LEMMA PrunedIs ==
    ASSUME NEW teacher \in TeacherRecords
    PROVE  /\ Pruned(teacher) \in TeacherRecords
           /\ Pruned(teacher).assigned = teacher.assigned \cap ActiveDivisions
           /\ Pruned(teacher).homerooms = teacher.homerooms \cap ActiveDivisions
           /\ Pruned(teacher).excluded = {x \in teacher.excluded : x[1] \in ActiveDivisions}
           /\ Pruned(teacher).mediums = teacher.mediums /\ Pruned(teacher).subjects = teacher.subjects
           /\ Pruned(teacher).paused = teacher.paused
           /\ Pruned(teacher).perWeek = teacher.perWeek
           /\ Pruned(teacher).freeMorning = teacher.freeMorning
           /\ Pruned(teacher).freeEvening = teacher.freeEvening
BY DEF Pruned, TeacherRecords

\* the list of a teacher in scope is never emptied by pausing classes: the
\* class the teacher is in charge of is on it
LEMMA ListNotEmptied ==
    ASSUME NEW teacher, HomeroomsWithin(teacher), HasScope(teacher), teacher.assigned # {}
    PROVE  teacher.assigned \cap ActiveDivisions # {}
BY DEF HomeroomsWithin, HasScope

LEMMA PausingAdds ==
    ASSUME IInv
    PROVE  PausingNeverAdds
<1> DEFINE paused == ScopeTeachers(teachers)
<1> SUFFICES ASSUME NEW p \in ActiveDivisions \X DOMAIN subjects,
                    NEW t \in Engine(ActiveDivisions, paused)!QualifiedTeachers(p)
             PROVE  t \in Engine(DOMAIN divisions, teachers)!QualifiedTeachers(p)
  BY DEF PausingNeverAdds
<1> DEFINE teacher == teachers[t]
<1>1. /\ t \in DOMAIN teachers /\ HasScope(teacher) /\ paused[t] = Pruned(teacher)
      /\ p[2] \in paused[t].subjects /\ divisions[p[1]].medium \in paused[t].mediums
      /\ paused[t].assigned = {} \/ p[1] \in paused[t].assigned
      /\ <<p[1], p[2]>> \notin paused[t].excluded
  BY DEF Engine!QualifiedTeachers, Engine!TeacherAllowedInDivision,
         Engine!TeacherSubjectAllowedInDivision, ScopeTeachers
<1> HIDE DEF paused
<1>2. teacher \in TeacherRecords /\ HomeroomsWithin(teacher)
  BY <1>1 DEF IInv, StaffOK
<1>3. p[1] \in ActiveDivisions
  OBVIOUS
<1>4. p[2] \in teacher.subjects /\ divisions[p[1]].medium \in teacher.mediums
      /\ <<p[1], p[2]>> \notin teacher.excluded
  BY <1>1, <1>2, <1>3, PrunedIs
<1>5. teacher.assigned = {} \/ p[1] \in teacher.assigned
  BY <1>1, <1>2, PrunedIs, ListNotEmptied
<1> QED
  BY <1>1, <1>4, <1>5
  DEF Engine!QualifiedTeachers, Engine!TeacherAllowedInDivision,
      Engine!TeacherSubjectAllowedInDivision

(* Pausing classes and teachers never lets a teacher teach a subject in a   *)
(* class where the same teacher may not teach it otherwise, although the    *)
(* scope of a generation drops the paused classes from the teacher's list   *)
(* and an empty list means every class.                                     *)
THEOREM PausingAddsNobody == Spec => []PausingNeverAdds
BY SetupInvariance, PausingAdds, PTL

-----------------------------------------------------------------------------
(* The rows and the rules, as the engine reads them                        *)

LEMMA EngineRows ==
    ASSUME IInv, NEW C, NEW S
    PROVE  /\ Engine(C, S)!LessonSlots = LessonRows
           /\ Engine(C, S)!FirstAfterLunch = IF HasLunch /\ AfterLunch # {} THEN Min(AfterLunch) ELSE 0
           /\ \A n \in DOMAIN periods : \A day :
                Engine(C, S)!SlotActive(n, day) <=> RunsOn(n, day)
<1>0. DOMAIN periods = 1..Len(periods) /\ Len(periods) \in Nat
  BY DEF IInv
<1>1. Engine(C, S)!LessonSlots = LessonRows
  BY DEF Engine!LessonSlots, LessonRows
<1>2. Engine(C, S)!FirstAfterLunch = IF HasLunch /\ AfterLunch # {} THEN Min(AfterLunch) ELSE 0
  <2> DEFINE lunch == {n \in DOMAIN periods : [m \in DOMAIN periods |-> periods[m].type][n] = "LUNCH"}
             after == {n \in Engine(C, S)!LessonSlots : \A m \in lunch : n > m}
  <2>1. lunch # {} <=> HasLunch
    BY DEF HasLunch
  <2>2. after = AfterLunch
    BY <1>0, <1>1 DEF AfterLunch, LessonRows
  <2>3. Engine(C, S)!FirstAfterLunch = IF lunch = {} \/ after = {} THEN 0 ELSE Min(after)
    BY DEF Engine!FirstAfterLunch, Engine!Min, Min
  <2> QED
    BY <2>1, <2>2, <2>3
<1>3. ASSUME NEW n \in DOMAIN periods, NEW day PROVE Engine(C, S)!SlotActive(n, day) <=> RunsOn(n, day)
  <2>1. MigratedPeriods[n].active = NormalDays(periods[n].active) /\ NormalDays(periods[n].active) # {}
    BY MigratedPeriodsIs DEF IInv, NormalDays
  <2> QED
    BY <2>1 DEF Engine!SlotActive, RunsOn
<1> QED
  BY <1>1, <1>2, <1>3

\* a boundary that is missing is no row, for the engine as for the preflight
LEMMA EngineTargets ==
    ASSUME IInv, NEW C, NEW S, NEW n \in DOMAIN periods, NEW targets \in SUBSET Targets
    PROVE  n \in SlotsOf(targets) <=> \E name \in targets : n = Engine(C, S)!TargetSlot(name)
<1>1. n # 0
  BY DEF IInv
<1>2. Engine(C, S)!TargetSlot("FIRST_MORNING") = IF LessonRows = {} THEN 0 ELSE Min(LessonRows)
  <2>1. Engine(C, S)!LessonSlots = LessonRows
    BY EngineRows
  <2>2. Engine(C, S)!Min(LessonRows) = Min(LessonRows)
    BY DEF Engine!Min, Min
  <2>3. Engine(C, S)!FirstMorning = IF LessonRows = {} THEN 0 ELSE Min(LessonRows)
    BY <2>1, <2>2 DEF Engine!FirstMorning
  <2> QED
    BY <2>3 DEF Engine!TargetSlot
<1>3. Engine(C, S)!TargetSlot("LAST_LESSON") = IF LessonRows = {} THEN 0 ELSE Max(LessonRows)
  <2>1. Engine(C, S)!LessonSlots = LessonRows
    BY EngineRows
  <2>2. Engine(C, S)!Max(LessonRows) = Max(LessonRows)
    BY DEF Engine!Max, Max
  <2>3. Engine(C, S)!LastLesson = IF LessonRows = {} THEN 0 ELSE Max(LessonRows)
    BY <2>1, <2>2 DEF Engine!LastLesson
  <2> QED
    BY <2>3 DEF Engine!TargetSlot
<1>4. Engine(C, S)!TargetSlot("FIRST_AFTER_LUNCH") =
        IF HasLunch /\ AfterLunch # {} THEN Min(AfterLunch) ELSE 0
  BY EngineRows DEF Engine!TargetSlot
<1>5. \A name \in targets : name \in {"FIRST_MORNING", "LAST_LESSON", "FIRST_AFTER_LUNCH"}
  BY DEF Targets
<1> QED
  BY <1>1, <1>2, <1>3, <1>4, <1>5 DEF SlotsOf

LEMMA ScopedRecords ==
    ASSUME IInv
    PROVE  /\ ScopedRules \subseteq RuleRecords
           /\ \A r \in ScopedRules : r.kind = "INCLUDE_ONLY" =>
                /\ r.mode = "CUSTOM" /\ r.cells \subseteq days \X DOMAIN periods
                /\ \A c \in r.cells : RunsOn(c[2], c[1])
<1> SUFFICES ASSUME NEW q \in rules
             PROVE  /\ MigratedRule(q) \in RuleRecords
                    /\ MigratedRule(q).kind = "INCLUDE_ONLY" =>
                         /\ MigratedRule(q).mode = "CUSTOM"
                         /\ MigratedRule(q).cells \subseteq days \X DOMAIN periods
                         /\ \A c \in MigratedRule(q).cells : RunsOn(c[2], c[1])
  BY DEF ScopedRules, MigratedRules
<1>1. q \in RuleRecords
  BY DEF IInv
<1>2. ASSUME q.kind = "INCLUDE_ONLY"
      PROVE  /\ q.mode = "CUSTOM" /\ KeptCells(q) \subseteq days \X DOMAIN periods
             /\ \A c \in KeptCells(q) : RunsOn(c[2], c[1])
  <2>1. q.mode = "CUSTOM" /\ q.cells \subseteq Weekdays \X Nat
    BY <1>1, <1>2 DEF RuleRecords
  <2>2. ASSUME NEW c \in KeptCells(q) PROVE c \in days \X DOMAIN periods /\ RunsOn(c[2], c[1])
    <3>1. c[2] \in DOMAIN periods /\ c[1] \in NormalDays(periods[c[2]].active) /\ c = <<c[1], c[2]>>
      BY <2>1 DEF KeptCells
    <3>2. NormalDays(periods[c[2]].active) \subseteq days
      BY DEF NormalDays
    <3>3. MigratedPeriods[c[2]].active = NormalDays(periods[c[2]].active)
      BY <3>1, MigratedPeriodsIs
    <3>4. c[1] \in days
      BY <3>1, <3>2
    <3> QED
      BY <3>1, <3>3, <3>4 DEF RunsOn
  <2> QED
    BY <2>1, <2>2
<1> QED
  BY <1>1, <1>2, MigratedRuleIs

LEMMA EngineBlocks ==
    ASSUME IInv, NEW C, NEW S, NEW s
    PROVE  /\ \A kind : Engine(C, S)!RulesOf(kind, s) = RulesFor(kind, s)
           /\ \A day : Engine(C, S)!IsDayBlockedByRule(s, day) <=> DayBlocked(s, day)
           /\ \A n \in DOMAIN periods : Engine(C, S)!IsSlotBlockedByRule(s, n) <=> SlotBlocked(s, n)
<1>1. \A kind : Engine(C, S)!RulesOf(kind, s) = RulesFor(kind, s)
  BY DEF Engine!RulesOf, RulesFor
<1>2. \A day : Engine(C, S)!IsDayBlockedByRule(s, day) <=> DayBlocked(s, day)
  BY <1>1 DEF Engine!IsDayBlockedByRule, DayBlocked
<1>3. ASSUME NEW n \in DOMAIN periods
      PROVE  Engine(C, S)!IsSlotBlockedByRule(s, n) <=> SlotBlocked(s, n)
  <2>1. ASSUME NEW r \in RulesFor("EXCLUDE_SLOT", s)
        PROVE  n \in SlotsOf(r.targets) <=>
                 n \in r.slots \/ \E name \in r.targets : n = Engine(C, S)!TargetSlot(name)
    <3>1. r.targets \in SUBSET Targets /\ r.slots = {}
      BY ScopedRecords DEF RulesFor, RuleRecords
    <3> QED
      BY <3>1, EngineTargets
  <2> QED
    BY <1>1, <2>1 DEF Engine!IsSlotBlockedByRule, SlotBlocked
<1> QED
  BY <1>1, <1>2, <1>3

LEMMA EngineCellMatches ==
    ASSUME IInv, NEW C, NEW S, NEW s, NEW r \in RulesFor("INCLUDE_ONLY", s),
           NEW n \in DOMAIN periods, NEW day
    PROVE  Engine(C, S)!CellMatchesIncludeOnlyRule(r, day, n) <=> RunsOn(n, day) /\ <<day, n>> \in r.cells
<1>1. r.mode = "CUSTOM"
  BY ScopedRecords DEF RulesFor
<1> QED
  BY <1>1, EngineRows DEF Engine!CellMatchesIncludeOnlyRule

\* the cells of a fixed rule that lie in lesson rows
LEMMA UsableIs ==
    ASSUME IInv, NEW r \in FixedRules
    PROVE  /\ r \in RulesFor("INCLUDE_ONLY", r.subject) /\ r.cells \subseteq days \X DOMAIN periods
           /\ ValidCells(r) = r.cells
           /\ UsableCells(r) = {c \in r.cells : c[2] \in LessonRows}
<1> DEFINE staff == ScopeTeachers(teachers)
<1>1. r \in RulesFor("INCLUDE_ONLY", r.subject) /\ r.cells \subseteq days \X DOMAIN periods
      /\ \A c \in r.cells : RunsOn(c[2], c[1])
  BY ScopedRecords DEF RulesFor, FixedRules
<1>2. ValidCells(r) = r.cells
  BY <1>1 DEF ValidCells
<1>3. UsableCells(r) = {c \in days \X LessonRows : RunsOn(c[2], c[1]) /\ c \in r.cells}
  <2>1. ASSUME NEW c \in days \X LessonRows
        PROVE  Engine(ActiveDivisions, staff)!CellMatchesIncludeOnlyRule(r, c[1], c[2])
                 <=> RunsOn(c[2], c[1]) /\ c \in r.cells
    <3>1. c = <<c[1], c[2]>> /\ c[2] \in DOMAIN periods
      BY DEF LessonRows
    <3> QED
      BY <1>1, <3>1, EngineCellMatches
  <2>2. Engine(ActiveDivisions, staff)!LessonSlots = LessonRows
    BY EngineRows
  <2> QED
    BY <2>1, <2>2 DEF UsableCells
<1>4. \A c \in r.cells : c \in days \X LessonRows <=> c[2] \in LessonRows
  <2> SUFFICES ASSUME NEW c \in r.cells PROVE c \in days \X LessonRows <=> c[2] \in LessonRows
    OBVIOUS
  <2>1. c \in days \X DOMAIN periods
    BY <1>1
  <2> QED
    BY <2>1
<1> QED
  BY <1>1, <1>2, <1>3, <1>4

LEMMA PreflightAgrees ==
    ASSUME IInv
    PROVE  PreflightMirrorsEngine
<1>1. ASSUME NEW r \in FixedRules PROVE Unblocked(r) <=> ~ Overlaps(r)
  <2>1. \A c \in r.cells : c[2] \in DOMAIN periods
    BY UsableIs
  <2>2. Unblocked(r) <=> \A c \in r.cells : ~ DayBlocked(r.subject, c[1]) /\ ~ SlotBlocked(r.subject, c[2])
    BY <2>1, EngineBlocks DEF Unblocked
  <2> QED
    BY <2>2 DEF Overlaps, DayBlocked, SlotBlocked
<1>2. PreflightPasses <=> \A r \in FixedRules : Unblocked(r) /\ r.cells # {}
  <2>1. \A r \in FixedRules : r.subject \in DOMAIN subjects /\ r \in RulesFor("INCLUDE_ONLY", r.subject)
    BY DEF ScopedRules, RulesFor, FixedRules
  <2>2. \A s : \A r \in RulesFor("INCLUDE_ONLY", s) : r \in FixedRules
    BY DEF RulesFor, FixedRules
  <2>3. \A r \in FixedRules : ValidCells(r) = r.cells
    BY UsableIs
  <2> QED
    BY <1>1, <2>1, <2>2, <2>3 DEF PreflightPasses
<1>3. ASSUME NEW r \in FixedRules
      PROVE  /\ UsableCells(r) # {} => r.cells # {}
             /\ UsableCells(r) = {} => \A c \in r.cells : periods[c[2]].type # "LESSON"
  <2>1. \A c \in r.cells : c[2] \in LessonRows <=> periods[c[2]].type = "LESSON"
    BY UsableIs DEF LessonRows
  <2> QED
    BY <2>1, UsableIs
<1> QED
  BY <1>2, <1>3 DEF PreflightMirrorsEngine

-----------------------------------------------------------------------------
(* The teachers and their capacity, as the engine reads them               *)

\* a school in scope is not changed by scoping it once more
LEMMA ScopeTwice ==
    ASSUME IInv
    PROVE  ReportTeachers = ScopeTeachers(teachers)
<1> DEFINE staff == ScopeTeachers(teachers)
<1>1. ASSUME NEW t \in DOMAIN staff PROVE HasScope(staff[t]) /\ Pruned(staff[t]) = staff[t]
  <2> DEFINE old == teachers[t]
             new == Pruned(old)
  <2>1. staff[t] = new /\ HasScope(old) /\ old \in TeacherRecords
    BY DEF ScopeTeachers, IInv, StaffOK
  <2>2. /\ new \in TeacherRecords
        /\ new.assigned = old.assigned \cap ActiveDivisions
        /\ new.homerooms = old.homerooms \cap ActiveDivisions
        /\ new.excluded = {x \in old.excluded : x[1] \in ActiveDivisions}
        /\ new.subjects = old.subjects /\ new.paused = old.paused
    BY <2>1, PrunedIs
  <2> HIDE DEF old, new, staff
  <2>3. HasScope(new)
    BY <2>1, <2>2 DEF HasScope
  <2>4. Pruned(new) = new
    <3>1. Pruned(new) = [new EXCEPT !.assigned = new.assigned, !.homerooms = new.homerooms,
                                    !.excluded = new.excluded]
      <4>1. /\ new.assigned \cap ActiveDivisions = new.assigned
            /\ new.homerooms \cap ActiveDivisions = new.homerooms
            /\ {x \in new.excluded : x[1] \in ActiveDivisions} = new.excluded
        BY <2>2
      <4> QED
        BY <4>1 DEF Pruned
    <3> QED
      BY <2>2, <3>1 DEF TeacherRecords
  <2> QED
    BY <2>1, <2>3, <2>4
<1>2. staff = [t \in DOMAIN staff |-> staff[t]]
  BY DEF ScopeTeachers
<1> HIDE DEF staff
<1>3. {t \in DOMAIN staff : HasScope(staff[t])} = DOMAIN staff
  BY <1>1
<1>4. ScopeTeachers(staff) = [t \in DOMAIN staff |-> Pruned(staff[t])]
  BY <1>3 DEF ScopeTeachers
<1>5. ScopeTeachers(staff) = staff
  BY <1>1, <1>2, <1>4
<1> QED
  BY <1>5 DEF ReportTeachers, staff

LEMMA StaffTyped ==
    ASSUME IInv, NEW t \in DOMAIN ScopeTeachers(teachers)
    PROVE  ScopeTeachers(teachers)[t] \in TeacherRecords
<1>1. teachers[t] \in TeacherRecords /\ ScopeTeachers(teachers)[t] = Pruned(teachers[t])
  BY DEF ScopeTeachers, IInv, StaffOK
<1> QED
  BY <1>1, PrunedIs

\* the engine counts as the report does
LEMMA EngineCount ==
    ASSUME NEW C, NEW S, NEW set
    PROVE  Engine(C, S)!Cardinality(set) = Cardinality(set)
BY DEF Engine!Cardinality, Cardinality

LEMMA EngineMorning ==
    ASSUME IInv, NEW C, NEW S
    PROVE  Engine(C, S)!MorningSlots = Morning
<1>0. LessonRows \in SUBSET (Nat \ {0}) /\ Cardinality(LessonRows) \in Nat
      /\ DOMAIN periods \in SUBSET Nat
  BY LessonRowsFinite DEF IInv
<1>1. CASE HasLunch /\ AfterLunch # {}
  <2>1. AfterLunch \in SUBSET LessonRows /\ AfterLunch \in SUBSET Nat
    BY <1>0 DEF AfterLunch
  <2>2. Min(AfterLunch) \in AfterLunch /\ \A x \in AfterLunch : Min(AfterLunch) <= x
    BY <1>1, <2>1, HasLeast
  <2> DEFINE first == Min(AfterLunch)
  <2>3. first \in Nat /\ first # 0
    BY <1>0, <2>1, <2>2
  <2>4. Engine(C, S)!MorningSlots = {n \in LessonRows : n < first}
    BY <1>1, <2>3, EngineRows DEF Engine!MorningSlots
  <2> HIDE DEF first
  <2>5. ASSUME NEW n \in LessonRows PROVE n < first <=> n \notin AfterLunch
    <3>1. n \in Nat /\ first \in AfterLunch /\ \A x \in AfterLunch : first <= x
      BY <1>0, <2>2 DEF first
    <3>2. n < first => n \notin AfterLunch
      BY <2>3, <3>1
    <3>3. ASSUME n \notin AfterLunch PROVE n < first
      <4>1. PICK m \in DOMAIN periods : periods[m].type = "LUNCH" /\ ~ (m < n)
        BY <3>3 DEF AfterLunch
      <4>2. m < first /\ m \in Nat
        BY <1>0, <3>1, <4>1 DEF AfterLunch
      <4> QED
        BY <2>3, <3>1, <4>1, <4>2
    <3> QED
      BY <3>2, <3>3
  <2> QED
    BY <1>1, <2>4, <2>5 DEF Morning
<1>2. CASE ~ (HasLunch /\ AfterLunch # {})
  <2> DEFINE count == Cardinality(LessonRows)
  <2>1. Engine(C, S)!MorningSlots = {n \in LessonRows : 2 * n <= count + 1}
    BY <1>2, EngineRows, EngineCount DEF Engine!MorningSlots
  <2>2. Morning = {n \in LessonRows : n <= (count + 1) \div 2}
    BY <1>2 DEF Morning
  <2>3. count \in Nat
    BY <1>0
  <2> HIDE DEF count
  <2>4. ASSUME NEW n \in LessonRows PROVE 2 * n <= count + 1 <=> n <= (count + 1) \div 2
    <3>1. n \in Nat
      BY <1>0
    <3> QED
      BY <2>3, <3>1
  <2> QED
    BY <2>1, <2>2, <2>4
<1> QED
  BY <1>1, <1>2

LEMMA EngineSupply ==
    ASSUME IInv, NEW C, NEW S, NEW t \in DOMAIN S, S[t] \in TeacherRecords
    PROVE  Supply(S[t]) = Engine(C, S)!WeeklyCapacity[t]
<1> DEFINE teacher == S[t]
           morning == Cardinality(Morning)
           lessons == Cardinality(LessonRows)
           daily == ComputedDaily(teacher)
           weekly == daily * Cardinality(days)
<1>1. teacher.freeMorning \in Nat /\ teacher.freeEvening \in Nat /\ teacher.perWeek \in Nat
  BY DEF TeacherRecords
<1>2. /\ morning \in Nat /\ lessons \in Nat
      /\ daily = Rest(morning, teacher.freeMorning) + Rest(lessons - morning, teacher.freeEvening)
      /\ daily \in Nat /\ weekly \in Nat /\ ComputedWeekly(teacher) \in Nat
  BY <1>1, CapacityTyped, LessonRowsFinite DEF IInv
<1>3. Cardinality(LessonRows \ Morning) = lessons - morning
  <2>1. IsFiniteSet(LessonRows) /\ LessonRows \cap Morning = Morning
    BY LessonRowsFinite DEF Morning, IInv
  <2> QED
    BY <2>1, FS_Difference
<1>4. Engine(C, S)!DerivedDaily(t) = daily
  <2>1. /\ Engine(C, S)!SessionCapacity[<<t, "morning">>] =
             Engine(C, S)!Positive(morning - teacher.freeMorning)
        /\ Engine(C, S)!SessionCapacity[<<t, "evening">>] =
             Engine(C, S)!Positive(Cardinality(LessonRows \ Morning) - teacher.freeEvening)
    BY EngineRows, EngineMorning, EngineCount DEF Engine!SessionCapacity, Engine!Halves
  <2>2. Engine(C, S)!DerivedDaily(t) = Engine(C, S)!Positive(morning - teacher.freeMorning)
          + Engine(C, S)!Positive((lessons - morning) - teacher.freeEvening)
    BY <1>3, <2>1 DEF Engine!DerivedDaily
  <2> HIDE DEF daily, morning, lessons, teacher
  <2> QED
    BY <1>1, <1>2, <2>2 DEF Rest, Engine!Positive
<1>5. Engine(C, S)!WeeklyCapacity[t] =
        Engine(C, S)!AtMost(teacher.perWeek, IF weekly > 30 THEN weekly ELSE 30)
  BY <1>4 DEF Engine!WeeklyCapacity
<1>6. ComputedWeekly(teacher) = IF weekly > 30 THEN weekly ELSE 30
  <2> HIDE DEF weekly
  <2>1. Max({30, weekly}) = IF 30 > weekly THEN 30 ELSE weekly
    BY <1>2, MaxOfTwo
  <2> QED
    BY <1>2, <2>1 DEF ComputedWeekly, weekly
<1> DEFINE computed == ComputedWeekly(teacher)
<1>7. Supply(teacher) = IF teacher.perWeek > 0
        THEN IF teacher.perWeek < computed THEN teacher.perWeek ELSE computed ELSE computed
  <2>1. Min({computed, teacher.perWeek}) =
          IF teacher.perWeek < computed THEN teacher.perWeek ELSE computed
    BY <1>1, <1>2, MinOfTwo
  <2> QED
    BY <2>1 DEF Supply
<1> HIDE DEF computed, weekly
<1>8. Engine(C, S)!WeeklyCapacity[t] = Engine(C, S)!AtMost(teacher.perWeek, computed)
  BY <1>5, <1>6 DEF computed
<1> QED
  BY <1>7, <1>8 DEF Engine!AtMost

-----------------------------------------------------------------------------
(* The report and the engine                                               *)

\* the cells the engine may place lessons of the subject in
EngineCells(C, S, d, s) ==
    {c \in days \X Engine(C, S)!LessonSlots :
        /\ Engine(C, S)!SlotActive(c[2], c[1])
        /\ ~ Engine(C, S)!IsDayBlockedByRule(s, c[1])
        /\ ~ Engine(C, S)!IsSlotBlockedByRule(s, c[2])
        /\ Engine(C, S)!IsPlacementAllowedByIncludeOnly(s, d, c[1], c[2])}

LEMMA CellsAgree ==
    ASSUME IInv, NEW C, NEW S, NEW d, NEW s
    PROVE  Placeable(d, s) = Cardinality(EngineCells(C, S, d, s))
<1>1. ASSUME NEW n \in DOMAIN periods, NEW day
      PROVE  Engine(C, S)!IsPlacementAllowedByIncludeOnly(s, d, day, n)
               <=> AllowedByFixedRules(s, d, day, n)
  BY EngineBlocks, EngineCellMatches
  DEF Engine!IsPlacementAllowedByIncludeOnly, AllowedByFixedRules
<1>2. Engine(C, S)!LessonSlots = LessonRows /\ LessonRows \subseteq DOMAIN periods
  BY EngineRows DEF LessonRows
<1>3. EngineCells(C, S, d, s) =
        {c \in days \X LessonRows :
            /\ ~ DayBlocked(s, c[1])
            /\ RunsOn(c[2], c[1])
            /\ ~ SlotBlocked(s, c[2])
            /\ AllowedByFixedRules(s, d, c[1], c[2])}
  <2>1. ASSUME NEW c \in days \X LessonRows
        PROVE  /\ Engine(C, S)!SlotActive(c[2], c[1]) <=> RunsOn(c[2], c[1])
               /\ Engine(C, S)!IsDayBlockedByRule(s, c[1]) <=> DayBlocked(s, c[1])
               /\ Engine(C, S)!IsSlotBlockedByRule(s, c[2]) <=> SlotBlocked(s, c[2])
               /\ Engine(C, S)!IsPlacementAllowedByIncludeOnly(s, d, c[1], c[2])
                    <=> AllowedByFixedRules(s, d, c[1], c[2])
    <3>1. c[2] \in DOMAIN periods
      BY <1>2
    <3> QED
      BY <1>1, <3>1, EngineRows, EngineBlocks
  <2> QED
    BY <1>2, <2>1 DEF EngineCells
<1> QED
  BY <1>3 DEF Placeable

\* a subject whose fixed rule leaves no lesson cell is short of cells
LEMMA ReportFinds ==
    ASSUME IInv
    PROVE  ReportFindsUnusable
<1> SUFFICES ASSUME ReportPasses, NEW r \in FixedRules, NEW d \in r.divisions \cap ActiveDivisions,
                    AppliesTo(r.subject, d)
             PROVE  UsableCells(r) # {}
  BY DEF ReportFindsUnusable
<1> DEFINE s == r.subject
           cells == {c \in days \X LessonRows :
                      /\ ~ DayBlocked(s, c[1])
                      /\ RunsOn(c[2], c[1])
                      /\ ~ SlotBlocked(s, c[2])
                      /\ AllowedByFixedRules(s, d, c[1], c[2])}
<1>1. s \in DOMAIN subjects /\ r \in RulesFor("INCLUDE_ONLY", s)
  BY DEF FixedRules, ScopedRules, RulesFor
<1>2. Required(d, s) \in Nat \ {0}
  <2> DEFINE subject == subjects[s]
             limit == subject.weeklyIn
  <2>1. subject.weekly \in Nat \ {0} /\ limit \in [DOMAIN limit -> Nat \ {0}]
    BY <1>1 DEF IInv, SubjectsOK, IsSubject
  <2> HIDE DEF subject
  <2>2. d \in DOMAIN limit => limit[d] \in Nat \ {0}
    BY <2>1
  <2>3. Required(d, s) = IF d \in DOMAIN limit /\ limit[d] > 0 THEN limit[d] ELSE subject.weekly
    BY DEF Required, subject
  <2> QED
    BY <2>1, <2>2, <2>3
<1>3. Placeable(d, s) = Cardinality(cells) /\ Placeable(d, s) >= Required(d, s)
  BY <1>1 DEF Placeable, ReportPasses
<1>4. cells # {}
  <2>1. Cardinality({}) = 0
    BY FS_EmptySet
  <2> HIDE DEF cells
  <2> QED
    BY <1>2, <1>3, <2>1
<1>5. PICK c \in cells : TRUE
  BY <1>4
<1>6. c \in r.cells /\ c[2] \in LessonRows
  <2>1. c = <<c[1], c[2]>> /\ c[2] \in LessonRows /\ AllowedByFixedRules(s, d, c[1], c[2])
    OBVIOUS
  <2> QED
    BY <1>1, <2>1 DEF AllowedByFixedRules
<1> QED
  BY <1>6, UsableIs

LEMMA CandidatesAgree ==
    ASSUME IInv, NEW d \in ActiveDivisions, NEW s \in DOMAIN subjects
    PROVE  Eligible(d, s) = Engine(ActiveDivisions, ScopeTeachers(teachers))!CandidateTeachers(<<d, s>>)
<1> DEFINE staff == ScopeTeachers(teachers)
<1>1. ReportTeachers = staff
  BY ScopeTwice
<1> HIDE DEF staff
<1>2. Engine(ActiveDivisions, staff)!ExplicitTeachers(<<d, s>>) = {}
  BY DEF Engine!ExplicitTeachers
<1>3. Engine(ActiveDivisions, staff)!CandidateTeachers(<<d, s>>) =
        Engine(ActiveDivisions, staff)!QualifiedTeachers(<<d, s>>)
  BY <1>2 DEF Engine!CandidateTeachers
<1>4. Eligible(d, s) = Engine(ActiveDivisions, staff)!QualifiedTeachers(<<d, s>>)
  BY <1>1 DEF Eligible, Engine!QualifiedTeachers, Engine!TeacherAllowedInDivision,
              Engine!TeacherSubjectAllowedInDivision
<1> QED
  BY <1>3, <1>4 DEF staff

LEMMA FeasibilityAgrees ==
    ASSUME IInv
    PROVE  FeasibilityMirrorsEngine
<1> DEFINE staff == ScopeTeachers(teachers)
           pairs == Engine(ActiveDivisions, staff)!ApplicablePairs
           cells(p) == Cardinality(EngineCells(ActiveDivisions, staff, p[1], p[2]))
           target(p) == Engine(ActiveDivisions, staff)!WeeklyTarget[p]
<1>1. pairs = {q \in ActiveDivisions \X DOMAIN subjects : AppliesTo(q[2], q[1])}
  BY DEF Engine!ApplicablePairs, Engine!Pairs, Engine!SubjectAppliesToDivision, AppliesTo
<1>2. ASSUME NEW p \in ActiveDivisions \X DOMAIN subjects
      PROVE  /\ Placeable(p[1], p[2]) = cells(p)
             /\ Required(p[1], p[2]) = target(p)
             /\ Eligible(p[1], p[2]) = Engine(ActiveDivisions, staff)!CandidateTeachers(p)
  <2>1. p = <<p[1], p[2]>> /\ p[1] \in ActiveDivisions /\ p[2] \in DOMAIN subjects
    OBVIOUS
  <2>2. Placeable(p[1], p[2]) = cells(p)
    BY CellsAgree
  <2>3. Required(p[1], p[2]) = target(p)
    <3> DEFINE limit == subjects[p[2]].weeklyIn
    <3>1. limit \in [DOMAIN limit -> Nat \ {0}]
      BY <2>1 DEF IInv, SubjectsOK, IsSubject
    <3>2. p[1] \in DOMAIN limit => limit[p[1]] > 0
      BY <3>1
    <3>3. target(p) = IF p[1] \in DOMAIN limit THEN limit[p[1]] ELSE subjects[p[2]].weekly
      BY DEF Engine!WeeklyTarget, Engine!Pairs
    <3> QED
      BY <3>2, <3>3 DEF Required
  <2>4. Eligible(p[1], p[2]) = Engine(ActiveDivisions, staff)!CandidateTeachers(p)
    BY <2>1, CandidatesAgree
  <2> QED
    BY <2>2, <2>3, <2>4
<1>3. ReportTeachers = staff
  BY ScopeTwice
<1>4. \A t \in DOMAIN staff : Supply(staff[t]) = Engine(ActiveDivisions, staff)!WeeklyCapacity[t]
  BY StaffTyped, EngineSupply
<1>5. FeasibilityMirrorsEngine <=>
        /\ \A p \in {q \in ActiveDivisions \X DOMAIN subjects : AppliesTo(q[2], q[1])} :
             /\ p \in pairs
             /\ Placeable(p[1], p[2]) = cells(p)
             /\ Required(p[1], p[2]) = target(p)
             /\ Eligible(p[1], p[2]) = Engine(ActiveDivisions, staff)!CandidateTeachers(p)
        /\ ReportPasses <=> \A p \in pairs : cells(p) >= target(p)
        /\ ReportTeachers = staff
        /\ \A t \in DOMAIN staff : Supply(staff[t]) = Engine(ActiveDivisions, staff)!WeeklyCapacity[t]
  BY DEF FeasibilityMirrorsEngine, EngineCells
<1> HIDE DEF staff, pairs, cells, target
<1>6. ReportPasses <=> \A p \in pairs : cells(p) >= target(p)
  <2>1. ReportPasses <=>
          \A p \in {q \in ActiveDivisions \X DOMAIN subjects : AppliesTo(q[2], q[1])} :
             Placeable(p[1], p[2]) >= Required(p[1], p[2])
    <3> DEFINE some == {q \in ActiveDivisions \X DOMAIN subjects : AppliesTo(q[2], q[1])}
    <3>1. ASSUME ReportPasses, NEW p \in some PROVE Placeable(p[1], p[2]) >= Required(p[1], p[2])
      <4>1. p[1] \in ActiveDivisions /\ p[2] \in DOMAIN subjects /\ AppliesTo(p[2], p[1])
        OBVIOUS
      <4> QED
        BY <3>1, <4>1 DEF ReportPasses
    <3>2. ASSUME \A p \in some : Placeable(p[1], p[2]) >= Required(p[1], p[2]),
                 NEW d \in ActiveDivisions, NEW s \in DOMAIN subjects, AppliesTo(s, d)
          PROVE  Placeable(d, s) >= Required(d, s)
      <4>1. <<d, s>> \in some /\ <<d, s>>[1] = d /\ <<d, s>>[2] = s
        BY <3>2
      <4> HIDE DEF some
      <4> QED
        BY <3>2, <4>1
    <3> QED
      BY <3>1, <3>2 DEF ReportPasses
  <2> QED
    BY <1>1, <1>2, <2>1
<1> QED
  BY <1>1, <1>2, <1>3, <1>4, <1>5, <1>6

(* Whatever the editors made of a school, the preflight passes exactly when *)
(* no fixed rule is blocked and each has a cell the engine can use or has   *)
(* all of them in rows that are no lessons; the feasibility report finds    *)
(* the latter, and counts the cells, demands, teachers and capacities the   *)
(* engine works with, although each derives them in code of its own.        *)
THEOREM ChecksAgree == Spec => []ChecksMirrorEngine
<1>1. IInv => ChecksMirrorEngine
  BY PreflightAgrees, ReportFinds, FeasibilityAgrees DEF ChecksMirrorEngine
<1> QED
  BY <1>1, SetupInvariance, PTL
=============================================================================
