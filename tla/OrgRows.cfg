SPECIFICATION Spec
CONSTANTS
    Orgs = {A, B}
    Users = {u1, u2, u3}
    Emails = {e1, e2, e3}
    NoUser = NoUser
    NoOrg = NoOrg
    AuditLimit = 2
    ErrorLimit = 1
    Credits = 1
    Budgets <- MixedBudgets
CHECK_DEADLOCK FALSE
INVARIANTS
    TypeOK
    OrgsStayWhole
    NothingDangles
    RestoresWhole
