SPECIFICATION Spec
CONSTANTS
    Requests = {"a1", "a2", "r1"}
    Job <- ResolutionJob
    Purchases = {"p"}
    CreditsTotal <- MixedTotal
    InitialCredits = 2
    NoRequest = NoRequest
INVARIANTS
    ResolvedOnce
