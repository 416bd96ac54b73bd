SPECIFICATION FairSpec
CONSTANTS
    Requests = {"g1", "a1", "a2", "r1", "d1"}
    Job <- MixedJob
    Purchases = {"p"}
    CreditsTotal <- MixedTotal
    InitialCredits = 2
    NoRequest = NoRequest
INVARIANTS
    TypeOK
    NeverNegative
    WithinLedger
PROPERTIES
    EveryoneAnswered
