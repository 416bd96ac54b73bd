SPECIFICATION Spec
CONSTANTS
    Tabs = {t1, t2}
    Orgs = {A, B}
    Seed = Seed
    NoOrg = NoOrg
    NoTab = NoTab
    Clients <- BothClients
    Budgets <- MixedBudgets
SYMMETRY Interchangeable
CHECK_DEADLOCK FALSE
INVARIANTS
    TypeOK
    AutosaveWaitsForLoad
    AnswersMatchRuns
    EditsKept
