SPECIFICATION FairSpec
CONSTANTS
    Divisions = {"A", "B"}
    Teachers = {"t1", "t2"}
    Subjects = {"M", "L"}
    NumDays = 1
    Slots = {1, 2, 3, 4}
    SlotType <- FourLessons
    ActiveDays <- FourEveryDay
    Division <- OneStandard
    Subject <- StrictSubject
    Teacher <- StrictTeacher
    TeacherSubjects = {}
    AnyDivision = "any"
    PersistedLocks = {}
    FreePeriodRules <- StrictFree
    Rules = {}
    NoLesson = NoLesson
    NoDivision = NoDivision
    NoSubject = "none"
    FixedSlots <- NoSequence
    FirstPeriodDays = {1}
    DailyPrimaryMin = 2
    MainOrder <- StrictMain
    SoftOrder <- NoSequence
    PairOrder <- StrictPairs
    BacktrackDepth = 2
    MaxBacktrackRounds = 1
    LockRepairRounds = 1
    LocalSearchIterations = 1
INVARIANTS
    TypeOK
    CountersCountEntries
    StackHoldsBoard
    LimitsKept
    SingleContinuityClass
PROPERTIES
    Terminates
