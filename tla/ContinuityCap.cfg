SPECIFICATION Spec
CONSTANTS
    Divisions = {"A"}
    Teachers = {"t1"}
    Subjects = {"M"}
    NumDays = 1
    Slots = {1, 2, 3}
    SlotType <- LessonsOnly
    ActiveDays <- EveryDay
    Division <- OneClass
    Subject <- CapSubject
    Teacher <- CapTeacher
    TeacherSubjects = {}
    AnyDivision = "any"
    PersistedLocks = {}
    FreePeriodRules = {}
    Rules = {}
    NoLesson = NoLesson
    NoDivision = NoDivision
    NoSubject = "none"
    FixedSlots <- CapFixed
    FirstPeriodDays = {}
    DailyPrimaryMin = 0
    MainOrder <- OneMain
    SoftOrder <- NoSequence
    PairOrder <- OnePair
    BacktrackDepth = 1
    MaxBacktrackRounds = 0
    LockRepairRounds = 1
    LocalSearchIterations = 0
INVARIANTS
    ContinuityCapKept
