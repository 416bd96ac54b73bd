------------------------ MODULE MCCreditTransactions ------------------------
(***************************************************************************)
(* Small sets of requests for TLC.                                         *)
(***************************************************************************)
EXTENDS CreditTransactions, TLC

G == [op |-> "generate"]
Approve(p) == [op |-> "approve", of |-> p]
Reject(p) == [op |-> "reject", of |-> p]
Adjust(n) == [op |-> "adjust", delta |-> n]

\* a generation, two clicks on approve, a rejection of the same purchase and
\* an adjustment downwards
MixedJob ==
    ("g1" :> G) @@ ("a1" :> Approve("p")) @@ ("a2" :> Approve("p"))
    @@ ("r1" :> Reject("p")) @@ ("d1" :> Adjust(-2))
MixedTotal == "p" :> 2

\* a double click on approve, and a rejection
ResolutionJob == ("a1" :> Approve("p")) @@ ("a2" :> Approve("p")) @@ ("r1" :> Reject("p"))
=============================================================================
