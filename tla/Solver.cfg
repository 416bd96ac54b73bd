SPECIFICATION Spec
CONSTANTS
    Divisions = {"A", "B"}
    Teachers = {"t1", "t2"}
    Subjects = {"M", "L"}
    NumDays = 1
    Slots = {1, 2, 3, 4}
    SlotType <- Periods
    ActiveDays <- EveryDay
    Division <- OneStandard
    Subject <- SolverSubject
    Teacher <- SolverTeacher
    TeacherSubjects = {}
    AnyDivision = "any"
    PersistedLocks = {}
    FreePeriodRules <- SolverFree
    Rules <- SolverRules
    Relaxed = FALSE
    TeacherOrder <- ByIds
    FixedLists <- AnyFixed
    Unplaced = Unplaced
    Requests = {"r1", "r2"}
    Asks <- AnyAsked
    Envs <- AnySettings
    NoResult = NoResult
    NoMessage = NoMessage
CHECK_DEADLOCK FALSE
INVARIANTS
    TypeOK
    NothingRunsOn
    SolvedIsATimetable
PROPERTIES
    Delivers
