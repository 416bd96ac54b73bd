SPECIFICATION Spec
CONSTANTS
    Divisions = {"A", "B"}
    Teachers = {"t1", "t2", "t3"}
    Subjects = {"M", "L"}
    NumDays = 2
    Slots = {1, 2, 3}
    SlotType <- LessonsOnly
    ActiveDays <- EveryDay
    Division <- OneStandard
    Subject <- BestFitSubject
    Teacher <- BestFitTeacher
    TeacherSubjects <- BestFitRows
    AnyDivision = "any"
    PersistedLocks = {}
    FreePeriodRules <- BestFitFree
    Rules <- BestFitRules
    NoLesson = NoLesson
    NoDivision = NoDivision
    NoSubject = "none"
    FixedSlots <- BestFitFixed
    FirstPeriodDays = {}
    DailyPrimaryMin = 0
    MainOrder <- BestFitMain
    SoftOrder <- BestFitSoft
    PairOrder <- StrictPairs
    BacktrackDepth = 2
    MaxBacktrackRounds = 1
    LockRepairRounds = 1
    LocalSearchIterations = 2
INVARIANTS
    MapsIndexEntries
    UnpinnedLessonsLocked
    TargetsKept
    OvershootByOne
PROPERTIES
    PinnedLessonsStay
    SearchNeverWorsens
    BuildsATimetable
