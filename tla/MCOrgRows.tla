------------------------------ MODULE MCOrgRows ------------------------------
(* Two organizations and three users, of whom two may share an address in  *)
(* turn.                                                                   *)
EXTENDS OrgRows, TLC

Budget(o, u, w, p) == [orgs |-> o, users |-> u, writes |-> w, platform |-> p]

MixedBudgets ==
    {Budget(2, 1, 1, 2), Budget(1, 1, 1, 3)}
=============================================================================
