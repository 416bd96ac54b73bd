----------------------------- MODULE MCSessions -----------------------------
(* One user with two tabs; the first tab has two calls under way at a time. *)
EXTENDS Sessions, TLC

CONSTANTS t1, t2, c1, c2

BothTabs == {t1, t2}
BothCalls == {c1, c2}
QuietCalls == {c2}
TabOfCall == [c \in BothCalls |-> t1]

Budget(p, c, e, f, a) ==
    [pairs |-> p, calls |-> c, expiries |-> e, faults |-> f, acts |-> a]

MixedBudgets == 
    {Budget(3, 0, 0, 0, 3),     \* sign-ins, sign-outs, resets, refreshes by timer
     Budget(2, 2, 1, 0, 1),     \* two calls find the access token expired
     Budget(2, 1, 1, 1, 1)}     \* requests and answers are lost
=============================================================================
