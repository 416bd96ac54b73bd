SPECIFICATION Spec
CONSTANTS
    Divisions = {"A", "B"}
    Teachers = {"t1", "t2"}
    Subjects = {"M", "P"}
    NumDays = 2
    Slots = {1, 2, 3}
    SlotType <- ThreePeriods
    ActiveDays <- ShortTuesday
    Division <- OneStandard
    Subject <- EditSubject
    Teacher <- EditTeacher
    TeacherSubjects = {}
    AnyDivision = "any"
    PersistedLocks = {}
    FreePeriodRules <- EditFree
    Rules = {}
    Relaxed = FALSE
    NoLesson = NoLesson
    NoDivision = NoDivision
    Tabs = {"tab1", "tab2"}
    Generated <- GeneratedBoards
    MaxWrites = 2
CHECK_DEADLOCK FALSE
INVARIANTS
    TypeOK
    EditsKeepTheRules
    UndoRestores
PROPERTIES
    MirrorsEngine
    FixesTrimToExpected
