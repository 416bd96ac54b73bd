SPECIFICATION Spec
CONSTANTS
    DivisionIds = {"A", "B", "C"}
    SubjectIds = {"M", "L", "S"}
    TeacherIds = {"t1", "t2", "t3"}
    NoDivision = "none"
    Standards = {"std5", "std6"}
    Mediums = {"en", "mr"}
    Weekdays = {1, 2, 3}
    PrimaryMedium = "en"
    School <- SmallSchool
    SubjectForms <- SmallSubjectForms
    TeacherForms <- SmallTeacherForms
    Preferences <- SmallPreferences
    MaxPeriods = 5
    Budgets <- MixedEdits
CHECK_DEADLOCK FALSE
INVARIANT
    PreflightFindsImpossible
