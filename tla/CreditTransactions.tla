------------------------- MODULE CreditTransactions -------------------------
(***************************************************************************)
(* The requests that read and write the credits of one organization:       *)
(* generations of the application and of the B2B API, approvals and        *)
(* rejections of purchase requests, and the platform's adjustments.        *)
(*                                                                         *)
(* On Postgres each request has a connection of its own, and               *)
(* db.transaction is BEGIN, the work, COMMIT, or ROLLBACK when the work    *)
(* throws.  The isolation is the default READ COMMITTED: a SELECT sees     *)
(* what is committed when it runs and takes no lock, an UPDATE waits for   *)
(* the lock of its row and holds it until the transaction ends.  A step is *)
(* one statement, or statements between which nothing another request can  *)
(* see happens; what a transaction has written becomes visible when it     *)
(* commits.                                                                *)
(***************************************************************************)
EXTENDS Integers, FiniteSets

CONSTANTS
    Requests,           \* the requests
    Job,                \* what each of them does, see Jobs
    Purchases,          \* rows of credit_purchase_requests
    CreditsTotal,       \* Purchases -> credits the purchase grants
    InitialCredits,     \* credits_remaining of a new organization
    NoRequest           \* no lock holder

Jobs ==
    [op : {"generate"}]
    \cup [op : {"approve", "reject"}, of : Purchases]
    \cup [op : {"adjust"}, delta : Int]

ASSUME CreditAssumption ==
    /\ Job \in [Requests -> Jobs]
    /\ CreditsTotal \in [Purchases -> Nat]
    /\ InitialCredits \in Nat
    /\ NoRequest \notin Requests

VARIABLES
    credits,        \* licenses.credits_remaining, committed
    status,         \* status of the purchase requests, committed
    ledger,         \* the credit ledger, committed: its positive and negative totals
    grants,         \* number of PURCHASE_APPROVED rows of each purchase
    runs,           \* the requests with a committed timetable_runs row
    pc,             \* progress of each request
    seen,           \* credits each request has read
    licenseLock,    \* holder of the lock of the license row
    purchaseLock,   \* holders of the locks of the purchase rows
    answer          \* what the client was told

rows == <<credits, status, ledger, grants, runs>>
locks == <<licenseLock, purchaseLock>>
vars == <<rows, pc, seen, locks, answer>>

Op(r) == Job[r].op

\* delta of the ledger row a request writes
Change(r) ==
    CASE Op(r) = "generate" -> -1
      [] Op(r) = "approve" -> CreditsTotal[Job[r].of]
      [] Op(r) = "adjust" -> Job[r].delta
      [] Op(r) = "reject" -> 0

Gain(n) == IF n > 0 THEN n ELSE 0
Loss(n) == IF n < 0 THEN -n ELSE 0

Init ==
    /\ credits = InitialCredits
    /\ status = [p \in Purchases |-> "pending"]
    /\ ledger = [in |-> 0, out |-> 0]
    /\ grants = [p \in Purchases |-> 0]
    /\ runs = {}
    /\ pc = [r \in Requests |-> "start"]
    /\ seen = [r \in Requests |-> 0]
    /\ licenseLock = NoRequest
    /\ purchaseLock = [p \in Purchases |-> NoRequest]
    /\ answer = [r \in Requests |-> "none"]
-----------------------------------------------------------------------------
(* Faulty variants of the definitions below, one for each property: with a *)
(* variant in place of the original, the property must fail.               *)

\* a spent credit is written to the ledger with the wrong sign
LedgerWithSign(r) ==
    ledger' = [in |-> ledger.in + Gain(Change(r)), out |-> ledger.out - Loss(Change(r))]

\* nothing is written to the ledger
LedgerUnwritten(r) == UNCHANGED ledger

\* the last credit is asked for with <
EnoughWhenNotNegative(r) == Op(r) = "generate" => credits >= 0

\* the transaction is not rolled back and its connection not released
AbortWithoutRollback(r) ==
    /\ pc[r] \in {"checked", "read", "updated", "marked"}
    /\ pc' = [pc EXCEPT ![r] = "done"]
    /\ answer' = [answer EXCEPT ![r] = "failed"]
    /\ UNCHANGED <<rows, seen, locks>>

-----------------------------------------------------------------------------
(* Steps *)

Answers(r, word) ==
    /\ pc' = [pc EXCEPT ![r] = "done"]
    /\ answer' = [answer EXCEPT ![r] = word]

GoesTo(r, place) ==
    pc' = [pc EXCEPT ![r] = place] /\ UNCHANGED answer

\* approve and reject read the purchase request; reject does so before and
\* outside any transaction
CheckPending(r) ==
    /\ pc[r] = "start" /\ Op(r) \in {"approve", "reject"}
    /\ \/ status[Job[r].of] = "pending" /\ GoesTo(r, "checked")
       \/ status[Job[r].of] # "pending" /\ Answers(r, "refused")
    /\ UNCHANGED <<rows, seen, locks>>

\* a generation needs a credit, an adjustment may not leave less than none
Enough(r) ==
    /\ Op(r) = "generate" => credits > 0
    /\ Op(r) = "adjust" => credits + Change(r) >= 0

\* getOrgCredits; a refusal throws, and the transaction is rolled back
ReadCredits(r) ==
    /\ \/ pc[r] = "start" /\ Op(r) \in {"generate", "adjust"}
       \/ pc[r] = "checked" /\ Op(r) = "approve"
    /\ \/ /\ Enough(r)
          /\ seen' = [seen EXCEPT ![r] = credits]
          /\ GoesTo(r, "read")
       \/ ~ Enough(r) /\ Answers(r, "refused") /\ UNCHANGED seen
    /\ UNCHANGED <<rows, locks>>

\* UPDATE licenses SET credits_remaining = <what was read, plus the change>,
\* then the ledger row
UpdateLicense(r) ==
    /\ pc[r] = "read" /\ licenseLock = NoRequest
    /\ licenseLock' = r
    /\ GoesTo(r, "updated")
    /\ UNCHANGED <<rows, seen, purchaseLock>>

MarkApproved(r) ==
    /\ pc[r] = "updated" /\ Op(r) = "approve"
    /\ purchaseLock[Job[r].of] = NoRequest
    /\ purchaseLock' = [purchaseLock EXCEPT ![Job[r].of] = r]
    /\ GoesTo(r, "marked")
    /\ UNCHANGED <<rows, seen, licenseLock>>

Unlock(r) ==
    /\ licenseLock' = IF licenseLock = r THEN NoRequest ELSE licenseLock
    /\ purchaseLock' = [p \in Purchases |->
                           IF purchaseLock[p] = r THEN NoRequest ELSE purchaseLock[p]]

WriteLedger(r) ==
    ledger' = [in |-> ledger.in + Gain(Change(r)), out |-> ledger.out + Loss(Change(r))]

\* a generation commits when its solver has returned and the run is stored
Commit(r) ==
    /\ pc[r] = IF Op(r) = "approve" THEN "marked" ELSE "updated"
    /\ credits' = seen[r] + Change(r)
    /\ WriteLedger(r)
    /\ IF Op(r) = "approve"
       THEN /\ status' = [status EXCEPT ![Job[r].of] = "approved"]
            /\ grants' = [grants EXCEPT ![Job[r].of] = @ + 1]
       ELSE UNCHANGED <<status, grants>>
    /\ runs' = IF Op(r) = "generate" THEN runs \cup {r} ELSE runs
    /\ Unlock(r)
    /\ Answers(r, "ok")
    /\ UNCHANGED seen

\* the UPDATE of reject is a transaction of its own: it waits for the row
MarkRejected(r) ==
    /\ pc[r] = "checked" /\ Op(r) = "reject"
    /\ purchaseLock[Job[r].of] = NoRequest
    /\ status' = [status EXCEPT ![Job[r].of] = "rejected"]
    /\ Answers(r, "ok")
    /\ UNCHANGED <<credits, ledger, grants, runs, seen, locks>>

\* a statement fails, the solver throws or the connection is lost: ROLLBACK
Abort(r) ==
    /\ pc[r] \in {"checked", "read", "updated", "marked"}
    /\ Unlock(r)
    /\ Answers(r, "failed")
    /\ UNCHANGED <<rows, seen>>

Step(r) ==
    \/ CheckPending(r) \/ ReadCredits(r) \/ UpdateLicense(r) \/ MarkApproved(r)
    \/ Commit(r) \/ MarkRejected(r)

AllAnswered == (\A r \in Requests : pc[r] = "done") /\ UNCHANGED vars

Next == (\E r \in Requests : Step(r) \/ Abort(r)) \/ AllAnswered

Spec == Init /\ [][Next]_vars

(* Postgres grants a lock that has been released, and the solver returns   *)
(* or is cut off by its timeout.                                           *)
FairSpec == Spec /\ \A r \in Requests : WF_vars(Step(r))

-----------------------------------------------------------------------------
(* Properties *)

TypeOK ==
    /\ credits \in Int
    /\ status \in [Purchases -> {"pending", "approved", "rejected"}]
    /\ ledger \in [in : Nat, out : Nat]
    /\ grants \in [Purchases -> Nat]
    /\ runs \subseteq Requests
    /\ pc \in [Requests -> {"start", "checked", "read", "updated", "marked", "done"}]
    /\ seen \in [Requests -> Int]
    /\ licenseLock \in Requests \cup {NoRequest}
    /\ purchaseLock \in [Purchases -> Requests \cup {NoRequest}]
    /\ answer \in [Requests -> {"none", "ok", "refused", "failed"}]

(* However the requests interleave, the balance never becomes negative:    *)
(* the guard is asked about the credits read, and those are what the       *)
(* absolute UPDATE starts from.                                            *)
NeverNegative == credits >= 0

(* A lost update may lose a charge or a purchase, but the balance stays    *)
(* between what the ledger has taken and what it has given: no credits     *)
(* come from nowhere.                                                      *)
WithinLedger ==
    InitialCredits - ledger.out <= credits /\ credits <= InitialCredits + ledger.in

(* Every request is answered, although generations hold the license row    *)
(* for as long as their solver runs: the rows are locked in one order.     *)
EveryoneAnswered == \A r \in Requests : <>(answer[r] # "none")

\* A purchase is granted once at most, and not at all when it ends rejected:
\* approve and reject answer "409 if not pending".
ResolvedOnce ==
    \A p \in Purchases : grants[p] <= 1 /\ (status[p] = "rejected" => grants[p] = 0)
=============================================================================
