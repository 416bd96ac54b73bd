SPECIFICATION Spec
CONSTANTS
    t1 = t1
    t2 = t2
    c1 = c1
    c2 = c2
    Tabs <- BothTabs
    Calls <- BothCalls
    Quiet <- QuietCalls
    TabOf <- TabOfCall
    MaxPairs = 3
    Budgets <- MixedBudgets
CHECK_DEADLOCK FALSE
INVARIANTS
    TypeOK
    NotByItself
    EndedStaysEnded
