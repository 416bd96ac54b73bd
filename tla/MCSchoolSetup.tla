---------------------------- MODULE MCSchoolSetup ----------------------------
(* A school of two classes and a third one to add, two subjects, two        *)
(* teachers and one to hire, and four period rows, two of them lessons.     *)
EXTENDS SchoolSetup

SubjectForm(weekly, include, exclude, weeklyIn) ==
    [standards |-> {"std5", "std6"}, mediums |-> {"en"}, include |-> include,
     exclude |-> exclude, weekly |-> weekly, weeklyIn |-> weeklyIn]

TeacherForm(assigned, homerooms, taught) ==
    [assigned |-> assigned, homerooms |-> homerooms, mediums |-> {"en"}, subjects |-> taught,
     excluded |-> {}, paused |-> FALSE, perDay |-> 0, perWeek |-> 0,
     freeMorning |-> 0, freeEvening |-> 0]

Row(type) == [type |-> type, active |-> {1, 2}]
Class(standard) == [standard |-> standard, medium |-> "en", paused |-> FALSE]

SmallSchool ==
    [divisions |-> ("A" :> Class("std5")) @@ ("B" :> Class("std6")),
     subjects |-> ("M" :> SubjectForm(4, {}, {}, <<>>)) @@ ("L" :> SubjectForm(2, {"B"}, {}, <<>>)),
     teachers |-> ("t1" :> TeacherForm({"A"}, {"A"}, {"M", "L"}))
                  @@ ("t2" :> TeacherForm({}, {}, {"M", "L"})),
     periods |-> <<Row("LESSON"), Row("BREAK"), Row("LUNCH"), Row("LESSON")>>,
     days |-> {1, 2},
     rules |-> {[kind |-> "INCLUDE_ONLY", subject |-> "L", active |-> TRUE, divisions |-> {"B"},
                 mode |-> "CUSTOM", cells |-> {<<1, 4>>, <<2, 4>>}]}]

SmallSubjectForms ==
    {SubjectForm(3, {"A", "C"}, {"B"}, "A" :> 1), SubjectForm(2, {}, {"A"}, "B" :> 5)}

SmallTeacherForms ==
    {TeacherForm({"A"}, {"B"}, {"M"}),
     TeacherForm({"A", "B"}, {"B"}, {"M", "L"}),
     [TeacherForm({}, {"A"}, {"L"}) EXCEPT !.excluded = {<<"A", "L">>, <<"B", "M">>}],
     [TeacherForm({"B"}, {}, {"M"}) EXCEPT !.perWeek = 40, !.freeMorning = 1, !.perDay = 9]}

Pref(targets, exDays, classes, onDays, slot, active) ==
    [targets |-> targets, exDays |-> exDays, classes |-> classes, onDays |-> onDays,
     slot |-> slot, active |-> active]

SmallPreferences ==
    {Pref({"FIRST_MORNING"}, {}, {}, {}, 1, TRUE),
     Pref({"LAST_LESSON", "FIRST_AFTER_LUNCH"}, {}, {}, {}, 1, TRUE),
     Pref({}, {1}, {}, {}, 1, FALSE),
     Pref({}, {1}, {"A", "B"}, {}, 1, TRUE),
     Pref({"FIRST_MORNING"}, {2}, {"B"}, {1}, 4, TRUE),
     Pref({"LAST_LESSON"}, {}, {"A"}, {1, 2}, 4, TRUE)}

Edits(structure, staff, changed) == [structure |-> structure, staff |-> staff, rules |-> changed]

MixedEdits == {Edits(1, 2, 0), Edits(2, 0, 1), Edits(0, 0, 2)}
=============================================================================
