------------------------- MODULE GenerationContract -------------------------
(***************************************************************************)
(* What the routes expect of runTimetableGenerationEngine: every request   *)
(* gets one result, one of those its settings allow, and keeps it.         *)
(***************************************************************************)
CONSTANTS Requests, NoResult, Possible(_, _)

VARIABLES env, request, result

Init == result = [r \in Requests |-> NoResult]

Deliver(r) ==
    /\ result[r] = NoResult
    /\ \E x \in Possible(env, request[r]) : result' = [result EXCEPT ![r] = x]
    /\ UNCHANGED <<env, request>>

Next == \E r \in Requests : Deliver(r)

\* at most one result each, and a possible one
Safe == Init /\ [][Next]_<<env, request, result>>

Spec == Safe /\ \A r \in Requests : WF_result(Deliver(r))
=============================================================================
