---------------------------- MODULE MCTenantState ----------------------------
(* Two tabs of one browser, two organizations and either database.         *)
EXTENDS TenantState, TLC

BothClients == {"sqlite", "postgres"}

Budget(s, e, g, f, p) ==
    [signIns |-> s, edits |-> e, gens |-> g, faults |-> f, saves |-> p]

MixedBudgets ==
    {Budget(1, 1, 1, 1, 2),     \* one session, with a generation and a fault
     Budget(2, 1, 0, 0, 1),     \* a second session, on the same page or another
     Budget(2, 0, 2, 0, 0)}     \* two generations at a time

Interchangeable == Permutations(Tabs) \cup Permutations(Orgs)
=============================================================================
